------------------------------- MODULE Runner -------------------------------
(***************************************************************************)
(* One raster run of the core (processing/core.py): the recipe is planned, *)
(* the mask is written, then pass after pass from one work file into the   *)
(* next, with the count a measuring step needs and the second look that    *)
(* makes its percentiles exact, and at last the COG.  A read or a write    *)
(* may fail at any block; the run then removes what it wrote.  A work file *)
(* holds the terms of StepPlan, so a result can be compared with the       *)
(* recipe applied step by step to the whole stock.                         *)
(***************************************************************************)
EXTENDS Upgrade, Integers, TLC

CONSTANTS BlocksOf  \* the blocks of each grid: of the data, and behind each grid step

VARIABLES recipe,   \* what is run
          phase,    \* where the run is
          why,      \* why it ended without a result
          plan,     \* the passes and the raster before and behind each
          pass,     \* the pass being written
          block,    \* the blocks of it that are done
          numbers,  \* what was measured for each pass: the numbers of its bands
          files,    \* the files in the work directory
          written,  \* the names the run will remove if it fails
          done, total
runVars == <<recipe, phase, why, plan, pass, block, numbers, files, written, done, total>>

PassFile(k) == "pass-" \o ToString(k)
MaskFile == "mask"
ResultFile == "result"
NoPlan == [passes |-> <<>>, metas |-> <<>>]

----------------------------------------------------------------------------
\* The kernels.  An image is a meta with values: one array, whose type is the
\* common type of what is in it, and the types mask_values has compared in.

Value(op, grid, args) == [op |-> op, grid |-> grid, args |-> args]
Promote(a, b) ==
  IF a = b THEN a
  ELSE IF "float64" \in {a, b} \/ {a, b} = {"int32", "float32"} THEN "float64"
  ELSE IF "float32" \in {a, b} THEN "float32"
  ELSE "int32"
ValueOf(image, name) == BandOf(image, name).value
Counted(image, name) == Value("counted", image.grid, <<ValueOf(image, name)>>)

Compute(image, step) ==
  LET reads == SetToSeq(step.reads)
      value == Value("band_math", image.grid, [k \in DOMAIN reads |-> ValueOf(image, reads[k])])
  IN [image EXCEPT !.array = Promote(@, "float32"),
                   !.bands = Append(@, [name |-> CHOOSE n \in step.adds : TRUE, value |-> value])]
\* Every band loses the pixels where the layer says so.
Hide(image, step, how) ==
  LET layer == ValueOf(image, CHOOSE n \in step.reads : TRUE)
  IN [image EXCEPT !.bands = [k \in DOMAIN @ |-> [@[k] EXCEPT !.value = Value(step.op, image.grid, <<@, layer>> \o how)]]]
\* Values are compared in the type of the array at hand: those of the step are
\* rounded to float32, or both sides are taken as float64, integers too.
ComparedIn(array) == IF array = "float32" THEN "float32" ELSE "float64"
HideValues(image, step) ==
  [Hide(image, step, <<ComparedIn(image.array)>>) EXCEPT !.compared = Append(@, ComparedIn(image.array))]
Stretch(image, step, measured) ==
  LET stretched(band) == Value(step.method, image.grid,
                           IF Measures(step) = {} THEN <<band.value>> ELSE <<band.value, measured[band.name]>>)
  IN [image EXCEPT !.array = Promote(@, "float32"), !.bands = [k \in DOMAIN @ |->
       IF @[k].name \in ToSet(step.names) THEN [@[k] EXCEPT !.value = stretched(image.bands[k])] ELSE @[k]]]
\* Each band for itself; together, what becomes of one depends on them all.
Warp(image, step) ==
  LET others == IF step.method = "together" THEN [k \in DOMAIN image.bands |-> image.bands[k].value] ELSE <<>>
  IN [image EXCEPT !.grid = @ + 1,
       !.bands = [k \in DOMAIN @ |-> [@[k] EXCEPT !.value = Value("reproject", image.grid + 1, <<@>> \o others)]]]

Kernel(image, step, measured) ==
  CASE step.op = "band_math" -> Compute(image, step)
    [] step.op = "mask" -> Hide(image, step, <<>>)
    [] step.op = "mask_values" -> HideValues(image, step)
    [] step.op = "normalize" -> Stretch(image, step, measured)
    [] step.op = "reproject" -> Warp(image, step)
    [] OTHER -> Picked(image, step.names)

\* The assets read onto the grid of the finest and merged into one array.
SourceBands(asset, gsd) ==
  [k \in DOMAIN asset.names |-> [name |-> asset.names[k], value |-> Value(asset.names[k], 0, <<Value("gsd", gsd, <<>>)>>)]]
ReadSources(r) ==
  [grid |-> 0, compared |-> <<>>,
   array |-> FoldLeft(Promote, r.assets[1].type, [a \in DOMAIN r.assets |-> r.assets[a].type]),
   bands |-> FlattenSeq([a \in DOMAIN r.assets |-> SourceBands(r.assets[a], Finest(r).gsd)])]

\* A band counts as resampled where its asset is not on the grid of the finest
\* or warps one of its scenes; the files tell their coordinate systems.
SourceMeta(r) ==
  LET warps == \E k \in DOMAIN r.grids : r.grids[k] # r.grids[1]
      bands(asset) == [k \in DOMAIN asset.names |->
        [name |-> asset.names[k], type |-> asset.type, resampled |-> warps \/ asset.gsd # Finest(r).gsd]]
  IN [grid |-> 0, bands |-> FlattenSeq([a \in DOMAIN r.assets |-> bands(r.assets[a])])]

----------------------------------------------------------------------------
Total(seq) == FoldLeft(+, 0, seq)
PlanOf(r) ==
  LET passes == Segments(StockSteps(SourceMeta(r), r.steps, r.output))
      metas[i \in 1..Len(passes) + 1] == IF i = 1 THEN SourceMeta(r) ELSE Through(metas[i - 1], passes[i - 1].steps)
  IN [passes |-> passes, metas |-> metas]
Blocks(k) == BlocksOf[plan.metas[k].grid]  \* of the raster before pass k
SecondLook(segment) == Measuring(segment) /\ Percents(segment.steps[1])
\* A mutant: the second look is not counted.
BlocksOfPasses(p) == Total([k \in DOMAIN p.passes |-> BlocksOf[p.metas[k + 1].grid]])
\* Every block of every pass, and the second look over the file before a pass
\* whose percentiles have to be exact.
AllBlocks(p) ==
  Total([k \in DOMAIN p.passes |-> BlocksOf[p.metas[k + 1].grid]])
    + Total([k \in DOMAIN p.passes |-> IF k > 1 /\ SecondLook(p.passes[k]) THEN BlocksOf[p.metas[k].grid] ELSE 0])

NewFile(name, content) == /\ files' = (name :> content) @@ files
                          /\ written' = written \cup {name}
Without(f, names) == [n \in DOMAIN f \ names |-> f[n]]

LastPass == pass = Len(plan.passes)
Current == plan.passes[pass]
\* What the pass reads: the inputs, or the float64 file of the pass before.
PassInput == IF pass = 1 THEN ReadSources(recipe) ELSE files[PassFile(pass - 1)]
MeasuredFor(k) == IF k \in DOMAIN numbers THEN numbers[k] ELSE <<>>
\* The first step of a pass is the one that was measured for.
PassOutput ==
  [FoldLeft(LAMBDA image, step : Kernel(image, step, MeasuredFor(pass)), PassInput, Current.steps)
     EXCEPT !.array = IF LastPass THEN "output" ELSE "float64"]

----------------------------------------------------------------------------
Start ==
  /\ phase = "accepted" /\ recipe.kind = "raster"
  /\ IF Judged(SourceMeta(recipe), recipe.steps, recipe.output)
     THEN /\ plan' = PlanOf(recipe)
          /\ total' = AllBlocks(plan')
          /\ phase' = "planned"
          /\ UNCHANGED why
     ELSE phase' = "failed" /\ why' = "bands" /\ UNCHANGED <<plan, total>>
  /\ UNCHANGED <<recipe, pass, block, numbers, files, written, done>>

WriteMask ==
  /\ phase = "planned"
  /\ NewFile(MaskFile, [grid |-> plan.metas[Len(plan.metas)].grid])
  /\ phase' = "open"
  /\ pass' = 1
  /\ UNCHANGED <<recipe, why, plan, block, numbers, done, total>>

OpenPass ==
  /\ phase = "open"
  /\ NewFile(PassFile(pass), PassInput)
  /\ phase' = "pass"
  /\ block' = 0
  /\ UNCHANGED <<recipe, why, plan, pass, numbers, done, total>>

Tick(blocks) == block < blocks /\ block' = block + 1 /\ done' = done + 1

WriteBlock ==
  /\ phase = "pass"
  /\ Tick(Blocks(pass + 1))
  /\ UNCHANGED <<recipe, phase, why, plan, pass, numbers, files, written, total>>

\* The file the pass read goes as soon as the pass is done.
EndPass ==
  /\ phase = "pass" /\ block = Blocks(pass + 1)
  /\ files' = Without([files EXCEPT ![PassFile(pass)] = PassOutput], {PassFile(pass - 1)})
  /\ written' = written \ {PassFile(pass - 1)}
  /\ block' = 0
  /\ IF LastPass THEN phase' = "packing" /\ UNCHANGED pass
     ELSE IF Measuring(plan.passes[pass + 1])
     THEN /\ phase' = IF SecondLook(plan.passes[pass + 1]) THEN "looking" ELSE "measured"
          /\ UNCHANGED pass
     ELSE phase' = "open" /\ pass' = pass + 1
  /\ UNCHANGED <<recipe, why, plan, numbers, done, total>>

LookAgain ==
  /\ phase = "looking"
  /\ Tick(Blocks(pass + 1))
  /\ phase' = IF block' = Blocks(pass + 1) THEN "measured" ELSE phase
  /\ UNCHANGED <<recipe, why, plan, pass, numbers, files, written, total>>

\* The places of the bands in the file come from the meta, the values from the
\* file the pass before wrote.
TakeNumbers ==
  /\ phase = "measured"
  /\ LET content == files[PassFile(pass)]
         names == NamesOf(plan.metas[pass + 1])
         wanted == Measures(plan.passes[pass + 1].steps[1])
         at(n) == CHOOSE k \in DOMAIN names : names[k] = n
     IN numbers' = (pass + 1 :> [n \in wanted |->
                      Value("counted", content.grid, <<content.bands[at(n)].value>>)]) @@ numbers
  /\ phase' = "open"
  /\ pass' = pass + 1
  /\ UNCHANGED <<recipe, why, plan, block, files, written, done, total>>

Translate ==
  /\ phase = "packing" /\ recipe.kind = "raster"
  /\ NewFile(ResultFile, files[PassFile(pass)])
  /\ phase' = "translated"
  /\ UNCHANGED <<recipe, why, plan, pass, block, numbers, done, total>>

Finish ==
  /\ phase = "translated"
  /\ files' = Without(files, written \ {ResultFile, MaskFile})
  /\ written' = written \cap {ResultFile, MaskFile}
  /\ phase' = "done"
  /\ UNCHANGED <<recipe, why, plan, pass, block, numbers, done, total>>

\* A read, a write or the source fails, or a band has no value to measure.
Busy == {"accepted", "planned", "open", "pass", "looking", "measured", "packing", "translated"}
Cleanup == files' = Without(files, written)
FailWith(reason) ==
  /\ phase' = "failed" /\ why' = reason
  /\ Cleanup
  /\ UNCHANGED <<recipe, plan, pass, block, numbers, written, done, total>>
Fail == phase \in Busy /\ FailWith(IF phase = "measured" THEN "empty_band" ELSE "error")

RunStep == \/ Start \/ WriteMask \/ OpenPass \/ WriteBlock \/ EndPass \/ LookAgain \/ TakeNumbers
           \/ Translate \/ Finish \/ Fail

RunIdle == /\ why = "" /\ plan = NoPlan /\ pass = 0 /\ block = 0 /\ numbers = <<>>
           /\ files = <<>> /\ written = {} /\ done = 0 /\ total = 0

----------------------------------------------------------------------------
\* The recipe as it reads: every step on the whole stock, one after the other,
\* a measuring step with the numbers of the bands as they are then, and each
\* mask_values in one of the given types.
Asked(r, types) ==
  LET typed(image, step) ==
        IF step.op = "mask_values" THEN [image EXCEPT !.array = types[Len(image.compared) + 1]] ELSE image
      apply(image, step) ==
        IF Refuses(image, step) THEN image
        ELSE Kernel(typed(image, step), step, [n \in Measures(step) |-> Counted(image, n)])
      whole == FoldLeft(apply, ReadSources(r), r.steps)
  IN [k \in DOMAIN r.output |-> [name |-> r.output[k], value |-> ValueOf(whole, r.output[k])]]
IsAsked(image) == image.bands = Asked(recipe, image.compared)

\* The result holds the bands of the output in their order, and every one has
\* the values it would have had if no step had been left out, no band dropped
\* and the chain not been cut, but for two things: a warp together with bands
\* that are dropped, and the types mask_values compares in, which do depend on
\* the cuts and on the bands beside (ComparedInOwnType).  The mask lies on its
\* grid.
ResultIsTheRecipe ==
  phase = "done" /\ recipe.kind = "raster" =>
    /\ ReprojectChangesValues(recipe) \/ IsAsked(files[ResultFile])
    /\ files[MaskFile].grid = files[ResultFile].grid

\* Never more than two work files of passes lie side by side, nothing is left of
\* a run that failed, and a run that ended left its result and its mask alone.
WorkFilesBounded ==
  recipe.kind = "raster" =>
    /\ Cardinality(DOMAIN files \ {MaskFile, ResultFile}) <= 2
    /\ phase = "failed" => files = <<>>
    /\ phase = "done" => DOMAIN files = {MaskFile, ResultFile}

\* The progress never runs past what was announced, and reaches it exactly.
ProgressEndsAtTotal == done <= total /\ (phase = "done" => done = total)

\* However a run ends, its directory and its progress say so (run_job, _cleanup).
RunEndsClean == WorkFilesBounded /\ ProgressEndsAtTotal

\* The bands a pass holds at once, and those measured for it, are at most what
\* the estimate counted the memory of the child process from.
Images(k) ==
  LET steps == plan.passes[k].steps
      image[i \in 0..Len(steps)] == IF i = 0 THEN plan.metas[k] ELSE Advance(image[i - 1], steps[i])
  IN image
MemoryForeseen ==
  phase = "pass" /\ Described(recipe) =>
    /\ \A i \in DOMAIN Images(pass) : Len(Images(pass)[i].bands) <= PlannedStock(recipe).widest
    /\ Cardinality(DOMAIN MeasuredFor(pass)) <= PlannedStock(recipe).measured

\* What the order was told is converted onto another grid is what the result
\* is marked resampled for, where the items describe the files and name their
\* coordinate systems.
SaysWhatItConverts ==
  LET final == plan.metas[Len(plan.metas)]
      said == DescribeResampling(recipe)
  IN phase = "done" /\ recipe.kind = "raster" /\ Described(recipe) /\ NoCrs \notin ToSet(recipe.scenes) =>
       \/ \E k \in DOMAIN LiveSteps(recipe.steps, recipe.output) : IsGrid(LiveSteps(recipe.steps, recipe.output)[k])
       \/ (\E k \in DOMAIN final.bands : final.bands[k].resampled) <=> (said.bands # {} \/ said.scenes # {})

\* The result is what the recipe says and what the caller was told of it
\* (plan_passes, describe_resampling).
ResultAsPromised == ResultIsTheRecipe /\ SaysWhatItConverts

\* Does not hold, and so is no property of a run: a float32 band is compared in
\* its own type, so that 0.2 is 0.2, as mask_values.py:14-17 promises.  Behind a
\* cut the array is the float64 work file, and beside a wider band it has the
\* common type, so the band is compared in float64 and other pixels are hidden.
ComparedInOwnType ==
  phase = "pass" =>
    \A i \in DOMAIN Current.steps :
      LET step == Current.steps[i]
          before == SubSeq(Current.steps, 1, i - 1)
          image == FoldLeft(LAMBDA im, st : Kernel(im, st, MeasuredFor(pass)), PassInput, before)
      IN (step.op = "mask_values" /\ \E n \in step.reads : BandOf(Images(pass)[i - 1], n).type = "float32")
           => image.array = "float32"
=============================================================================
