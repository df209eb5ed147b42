------------------------------ MODULE StepPlan ------------------------------
(***************************************************************************)
(* The planner of a raster job (processing/plan.py) over the operators of  *)
(* processing/operators: which steps of a recipe run, which bands each     *)
(* needs, where the planner puts its own selections, where the chain is    *)
(* cut into passes, and what the plan says of memory and of bands brought  *)
(* onto another grid.  The stock is a sequence of named bands; the value   *)
(* of a band is the term that tells how it came about, so two bands are    *)
(* equal exactly where every pixel is.                                     *)
(***************************************************************************)
EXTENDS CropRules

CONSTANTS AllNames  \* every name a band can have

----------------------------------------------------------------------------
\* The steps, with what BandUse says of each: the bands it reads besides those
\* it passes on, the band it adds, the bands it changes.

Step(op, reads, adds, acts, names, method) ==
  [op |-> op, reads |-> reads, adds |-> adds, acts |-> acts, names |-> names, method |-> method]
BandMath(name, reads) == Step("band_math", reads, {name}, AllNames, <<>>, "none")
Mask(layer) == Step("mask", {layer}, {}, AllNames, <<>>, "none")
MaskValues(band) == Step("mask_values", {band}, {}, AllNames, <<>>, "none")
Normalize(names, method) == Step("normalize", {}, {}, ToSet(names), names, method)
Reproject == Step("reproject", {}, {}, AllNames, <<>>, "none")
SelectBands(names) == Step("select_bands", {}, {}, AllNames, names, "none")

IsGrid(step) == step.op = "reproject"
\* Version 4 of normalize measures what the methods other than linear need.
Measures(step) == IF step.method \in {"percentile", "zscore"} THEN ToSet(step.names) ELSE {}
Percents(step) == step.method = "percentile"
Restricted(step, kept) ==
  IF step.op = "normalize" THEN [step EXCEPT !.names = SelectSeq(@, LAMBDA n : n \in kept)] ELSE step

----------------------------------------------------------------------------
\* The names the stock has to hold before each step, from the end, and the
\* steps whose work nothing of the output keeps.

Trace(steps, output) ==
  LET n == Len(steps)
      needed[i \in 0..n] ==
        IF i = n THEN ToSet(output)
        ELSE LET after == needed[i + 1]
                 use == steps[i + 1]
             IN IF use.adds # {}
                THEN IF use.adds \subseteq after THEN (after \ use.adds) \cup use.reads ELSE after
                ELSE IF use.acts \cap after = {} THEN after ELSE after \cup use.reads
  IN needed
\* A mutant: what the output does not hold is not worth a step.
DeadByOutput(steps, output) ==
  LET needed == Trace(steps, output)
  IN [i \in DOMAIN steps |-> IF steps[i].adds # {} THEN ~(steps[i].adds \subseteq needed[i])
                                                   ELSE steps[i].acts \cap ToSet(output) = {}]
Dead(steps, output) ==
  LET needed == Trace(steps, output)
  IN [i \in DOMAIN steps |-> IF steps[i].adds # {} THEN ~(steps[i].adds \subseteq needed[i])
                                                   ELSE steps[i].acts \cap needed[i] = {}]
NeededSourceBands(steps, output) == Trace(steps, output)[0]
LiveSteps(steps, output) ==
  LET dead == Dead(steps, output)
  IN [k \in 1..Cardinality({i \in DOMAIN steps : ~dead[i]}) |->
        steps[CHOOSE i \in DOMAIN steps : ~dead[i] /\ Cardinality({j \in 1..i : ~dead[j]}) = k]]

----------------------------------------------------------------------------
\* The raster behind a step (Operator.transform): its grid, counted by the grid
\* steps before it, and its bands.

NamesOf(meta) == [k \in DOMAIN meta.bands |-> meta.bands[k].name]
Holding(meta) == ToSet(NamesOf(meta))
BandOf(meta, name) == meta.bands[CHOOSE k \in DOMAIN meta.bands : meta.bands[k].name = name]

Refuses(meta, step) ==
  \/ ~(step.reads \cup ToSet(step.names) \subseteq Holding(meta))
  \/ step.adds \cap Holding(meta) # {}

WithComputed(meta, step) ==
  [meta EXCEPT !.bands = Append(@, [name |-> CHOOSE n \in step.adds : TRUE, type |-> "float32",
                                    resampled |-> \E n \in step.reads : BandOf(meta, n).resampled])]
AsFloat(meta, names) ==
  [meta EXCEPT !.bands = [k \in DOMAIN @ |-> IF @[k].name \in ToSet(names) THEN [@[k] EXCEPT !.type = "float32"] ELSE @[k]]]
OnNewGrid(meta) ==
  [grid |-> meta.grid + 1, bands |-> [k \in DOMAIN meta.bands |-> [meta.bands[k] EXCEPT !.resampled = TRUE]]]
Picked(image, names) == [image EXCEPT !.bands = [k \in DOMAIN names |-> BandOf(image, names[k])]]

Advance(meta, step) ==
  CASE step.op = "band_math" -> WithComputed(meta, step)
    [] step.op = "normalize" -> AsFloat(meta, step.names)
    [] step.op = "reproject" -> OnNewGrid(meta)
    [] step.op = "select_bands" -> Picked(meta, step.names)
    [] OTHER -> meta

Through(meta, steps) == FoldLeft(Advance, meta, steps)

----------------------------------------------------------------------------
\* The steps a job runs: judged on the whole stock, without the dead ones, with
\* a selection wherever the stock holds a band nothing later needs.

Judged(meta, steps, output) ==
  LET dead == Dead(steps, output)
      whole[i \in 0..Len(steps)] == IF i = 0 THEN meta
                                    ELSE IF dead[i] THEN whole[i - 1] ELSE Advance(whole[i - 1], steps[i])
      fine[i \in 0..Len(steps)] ==
        IF i = 0 THEN TRUE ELSE fine[i - 1] /\ (dead[i] \/ ~Refuses(whole[i - 1], steps[i]))
  IN fine[Len(steps)] /\ ToSet(output) \subseteq Holding(whole[Len(steps)])

\* The bands that stay, in the order of the output and the others behind them.
Kept(names, wanted, output) ==
  SelectSeq(output, LAMBDA n : n \in wanted \cap ToSet(names))
    \o SelectSeq(names, LAMBDA n : n \in wanted \ ToSet(output))
Narrowed(planned, wanted, output) ==
  LET kept == Kept(planned.names, wanted, output)
  IN IF kept = planned.names THEN planned
     ELSE [names |-> kept, steps |-> Append(planned.steps, SelectBands(kept))]

StockSteps(meta, steps, output) ==
  LET needed == Trace(steps, output)
      dead == Dead(steps, output)
      planned[i \in 0..Len(steps)] ==
        IF i = 0 THEN Narrowed([names |-> NamesOf(meta), steps |-> <<>>], needed[0], output)
        ELSE IF dead[i] THEN planned[i - 1]
        ELSE Narrowed([names |-> planned[i - 1].names \o SetToSeq(steps[i].adds),
                       steps |-> Append(planned[i - 1].steps, Restricted(steps[i], needed[i]))], needed[i], output)
  IN planned[Len(steps)].steps

----------------------------------------------------------------------------
\* The passes: a grid step has one of its own, a step that measures opens one,
\* and the first, which reads the inputs, never is a grid step.

Segment(kind, steps) == [kind |-> kind, steps |-> steps]
Measuring(segment) == segment.kind = "pixel" /\ segment.steps # <<>> /\ Measures(segment.steps[1]) # {}

Cuts(step) == IsGrid(step) \/ Measures(step) # {}
Ended(so) == IF so.run # <<>> \/ so.done = <<>>
             THEN [done |-> Append(so.done, Segment("pixel", so.run)), run |-> <<>>] ELSE so
Segments(planned) ==
  LET take(so, step) ==
        LET base == IF Cuts(step) THEN Ended(so) ELSE so
        IN IF IsGrid(step) THEN [base EXCEPT !.done = Append(@, Segment("grid", <<step>>))]
                           ELSE [base EXCEPT !.run = Append(@, step)]
  IN Ended(FoldLeft(take, [done |-> <<>>, run |-> <<>>], planned)).done

----------------------------------------------------------------------------
\* What the recipe alone says (no read).  A recipe: its assets with the bands
\* their files hold, whether the item describes them, and their pixel size; the
\* coordinate systems of its scenes in the order they are read; steps and output.

AssetBands(asset, names) ==
  [k \in DOMAIN names |-> [name |-> names[k], type |-> asset.type, resampled |-> FALSE]]
ExpectedNames(asset) == IF asset.described THEN asset.names ELSE <<asset.key>>
InputMeta(recipe) ==
  [grid |-> 0, bands |-> FlattenSeq([a \in DOMAIN recipe.assets |->
                            AssetBands(recipe.assets[a], ExpectedNames(recipe.assets[a]))])]
Described(recipe) == \A a \in DOMAIN recipe.assets : recipe.assets[a].described
BandsFit(recipe) == Described(recipe) => Judged(InputMeta(recipe), recipe.steps, recipe.output)

\* A mutant: only what is read and what is written counts.
PlannedStockAtTheEnds(recipe) ==
  LET meta == InputMeta(recipe)
      final == Through(meta, StockSteps(meta, recipe.steps, recipe.output))
  IN [widest |-> IF Len(final.bands) > Len(meta.bands) THEN Len(final.bands) ELSE Len(meta.bands), measured |-> Len(meta.bands)]
PlannedStock(recipe) ==
  LET meta == InputMeta(recipe)
      steps == StockSteps(meta, recipe.steps, recipe.output)
      behind[i \in 0..Len(steps)] == IF i = 0 THEN meta ELSE Advance(behind[i - 1], steps[i])
      most(S) == CHOOSE m \in S : \A n \in S : n <= m
  IN [widest |-> most({Len(behind[i].bands) : i \in 0..Len(steps)}),
      measured |-> most({0} \cup {Cardinality(Measures(steps[i])) : i \in DOMAIN steps})]

\* The entry the others are read onto: the smallest pixel, the first of equals.
Finest(recipe) ==
  LET A == DOMAIN recipe.assets
      finer(a, b) == \/ recipe.assets[a].gsd < recipe.assets[b].gsd
                     \/ recipe.assets[a].gsd = recipe.assets[b].gsd /\ a <= b
  IN recipe.assets[CHOOSE a \in A : \A b \in A : finer(a, b)]

\* The bands of the data whose values reach the output; what only hides pixels
\* gives no value.
FeedingBands(live, output) ==
  LET back(feeding, step) == IF step.adds # {} /\ step.adds \subseteq feeding
                             THEN (feeding \ step.adds) \cup step.reads ELSE feeding
  IN FoldLeft(back, ToSet(output), Reverse(live))

ScenesApart(recipe) ==
  {k \in DOMAIN recipe.scenes : recipe.scenes[k] \notin {NoCrs, TargetCrs(recipe.scenes)}}

\* What a job converts without being asked to: bands of another pixel size that
\* reach the result, scenes of another coordinate system.
DescribeResampling(recipe) ==
  LET live == LiveSteps(recipe.steps, recipe.output)
      feeding == FeedingBands(live, recipe.output)
      moved == {a \in ToSet(recipe.assets) : a.gsd # Finest(recipe).gsd}
  IN IF \E k \in DOMAIN live : IsGrid(live[k]) THEN [bands |-> {}, scenes |-> {}]
     ELSE [bands |-> feeding \cap UNION {ToSet(ExpectedNames(a)) : a \in moved}, scenes |-> ScenesApart(recipe)]
=============================================================================
