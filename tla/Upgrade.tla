------------------------------ MODULE Upgrade ------------------------------
(***************************************************************************)
(* Orders and recipes of version 1, written as version 2                   *)
(* (processing/upgrade.py), and what the models of a recipe                *)
(* (processing/recipe.py) ask of any document.  Version 1 has no stock:    *)
(* band_math replaces all bands by one, mask takes its layer away,         *)
(* normalize stretches every band, and what is left is the output.  A      *)
(* document has a version, its kind, its assets, its steps and its output. *)
(***************************************************************************)
EXTENDS StepPlan

\* The steps as version 1 writes them.
OldBandMath(reads) == BandMath("band_math", reads)
OldNormalize == Normalize(<<>>, "linear")
\* Versions 2 and 3 of reproject warp all bands of the stock in one go.
WarpTogether == Step("reproject", {}, {}, AllNames, <<>>, "together")

IsVersion1(document) == document.version = 1

\* The names of the earlier results, in their order; the last keeps its own.
Numbering == <<"band_math_1", "band_math_2">>
MathsUpTo(steps, i) == Cardinality({j \in 1..i : steps[j].op = "band_math"})
MathName(steps, i) ==
  IF MathsUpTo(steps, i) = MathsUpTo(steps, Len(steps)) THEN "band_math" ELSE Numbering[MathsUpTo(steps, i)]

\* An expression that names band_math meant the result of the step before.
Renamed(reads, previous) ==
  IF previous = "" THEN reads ELSE {IF n = "band_math" THEN previous ELSE n : n \in reads}

\* A mutant: the expressions are left as they are.
RewrittenAsItWas(steps, i, so) ==
  CASE steps[i].op = "band_math" -> BandMath(MathName(steps, i), steps[i].reads)
    [] steps[i].op = "normalize" -> Normalize(so.stock, "linear")
    [] OTHER -> steps[i]
Rewritten(steps, i, so) ==
  CASE steps[i].op = "band_math" -> BandMath(MathName(steps, i), Renamed(steps[i].reads, so.previous))
    [] steps[i].op = "normalize" -> Normalize(so.stock, "linear")
    [] OTHER -> steps[i]

\* A mutant: a mask leaves its layer among the bands.
StockBehindWithLayer(steps, i, so) ==
  IF steps[i].op = "band_math" THEN <<MathName(steps, i)>> ELSE so.stock
StockBehind(steps, i, so) ==
  CASE steps[i].op = "band_math" -> <<MathName(steps, i)>>
    [] steps[i].op = "mask" -> SelectSeq(so.stock, LAMBDA n : n \notin steps[i].reads)
    [] OTHER -> so.stock

\* The chain in version 2, followed with the bands that are left at each place.
Chain(steps, stock) ==
  LET so[i \in 0..Len(steps)] ==
        IF i = 0 THEN [steps |-> <<>>, stock |-> stock, previous |-> ""]
        ELSE [steps |-> Append(so[i - 1].steps, Rewritten(steps, i, so[i - 1])),
              stock |-> StockBehind(steps, i, so[i - 1]),
              previous |-> IF steps[i].op = "band_math" THEN MathName(steps, i) ELSE so[i - 1].previous]
  IN so[Len(steps)]

\* The bands of the data, each once, from the names of each asset in turn.
StockOf(names) ==
  LET add(stock, ofAsset) == stock \o SelectSeq(ofAsset, LAMBDA n : n \notin ToSet(stock))
  IN FoldLeft(add, <<>>, names)

Upgraded(document, stock) ==
  LET chain == Chain(document.steps, stock)
  IN [document EXCEPT !.version = 2, !.steps = chain.steps, !.output = chain.stock]

\* An order loses its assets, a recipe keeps them; an export has no stock.
UpgradeOrder(order, names) ==
  IF order.kind # "raster" THEN [order EXCEPT !.version = 2]
  ELSE [Upgraded(order, StockOf(names)) EXCEPT !.assets = <<>>]
UpgradeRecipe(recipe) ==
  IF recipe.kind # "raster" THEN [recipe EXCEPT !.version = 2]
  ELSE Upgraded(recipe, StockOf([a \in DOMAIN recipe.assets |-> ExpectedNames(recipe.assets[a])]))

ReprojectChangesValues(document) == \E k \in DOMAIN document.steps : document.steps[k].method = "together"

\* What a reader gets of a recipe, whichever version it was written in.
OfAnyVersion(recipe) == IF IsVersion1(recipe) THEN UpgradeRecipe(recipe) ELSE recipe

----------------------------------------------------------------------------
\* The models: what every document of version 2 has to be.

EachOnce(names) == Cardinality(ToSet(names)) = Len(names)
Layouts == {"none", "per_band", "per_resolution", "multi_band"}
OutputFits(document) ==
  IF document.kind = "raster" THEN document.output # <<>> /\ EachOnce(document.output) ELSE document.layout \in Layouts
OrderFits(order) ==
  /\ order.version = 2 /\ OutputFits(order)
  /\ EachOnce(FlattenSeq(order.groups))
  /\ IF order.kind = "raster" THEN order.assets = <<>> ELSE order.assets # <<>> /\ EachOnce(order.assets)
RecipeFits(recipe) ==
  /\ recipe.version = 2 /\ OutputFits(recipe) /\ recipe.assets # <<>>
  /\ (recipe.kind = "export") <=> "footprints" \in DOMAIN recipe
=============================================================================
