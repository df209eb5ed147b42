------------------------------ MODULE LocalRun ------------------------------
(***************************************************************************)
(* The local runner (earthx/runner) over the same core: a recipe.json of a *)
(* platform result is checked before anything is read, run into a new      *)
(* folder, and the folder is finished file by file, the provenance last.   *)
(* Beside it, what the operators of version 1 made of a chain: documents   *)
(* of that time, an order, a recipe in the queue or such a file, still     *)
(* mean what they meant.                                                   *)
(***************************************************************************)
EXTENDS Intake

VARIABLES folder,  \* the files of the run's folder, each with what it holds
          exit     \* the exit code, once the runner has ended

localVars == <<folder, exit>>
allVars == <<vars, localVars>>

IsFile == came.from = "file"
Running == 0 - 1

----------------------------------------------------------------------------
\* What came from outside: the provenance block of a cloud run, a recipe this
\* runner runs, a dataset this image knows and the hosts it declares.

NotesOf(document) == IsVersion1(document) /\ document.kind = "raster" /\ ReprojectChangesValues(document)
\* A raster reads one group; a mosaic of Zarr scenes has one system.
InScope(r) == r.kind = "raster" /\ (came.zarr => Cardinality(ToSet(r.scenes)) <= 1)
Checked == IF came.provenance # "cloud" \/ ~RecipeFits(OfAnyVersion(came.document)) \/ ~InScope(came.document) THEN 2
           ELSE IF came.dataset # "known" \/ ~came.declared THEN 3 ELSE 0

StopWith(code) == exit' = code /\ phase' = "stopped"
ReadRecipeFile ==
  /\ phase = "file"
  /\ IF Checked # 0 THEN StopWith(Checked) /\ UNCHANGED recipe
     ELSE phase' = "folder" /\ recipe' = OfAnyVersion(came.document) /\ UNCHANGED exit
  /\ UNCHANGED <<intakeVars, why, plan, pass, block, numbers, files, written, done, total, seen, folder>>

\* A folder of a random name, with the work directory in it.
CreateFolder ==
  /\ phase = "folder"
  /\ \/ phase' = "accepted" /\ UNCHANGED exit
     \/ StopWith(5)
  /\ UNCHANGED <<intakeVars, recipe, why, plan, pass, block, numbers, files, written, done, total, seen, folder>>

\* A chain the files do not carry is a recipe refused late; a source that failed
\* while it was read has a code of its own.
ExitCode(reason) == CASE reason = "bands" -> {2} [] reason = "error" -> {4, 5} [] OTHER -> {5}
RunFailed ==
  /\ IsFile /\ phase = "failed"
  /\ \E code \in ExitCode(why) : StopWith(code)
  /\ UNCHANGED <<intakeVars, recipe, why, plan, pass, block, numbers, files, written, done, total, seen, folder>>

----------------------------------------------------------------------------
\* The folder is finished in this order; a file is there before it is whole.

\* A mutant: the provenance is written before the recipe.
OrderProvenanceFirst == <<"result", "mask", "provenance", "recipe">>
Order == <<"result", "mask", "recipe", "provenance">>
NextFile == Order[Cardinality(DOMAIN folder) + 1]
Complete == DOMAIN folder = ToSet(Order) /\ \A name \in DOMAIN folder : folder[name].whole
MoveUp(name) ==
  /\ files' = Without(files, {name})
  /\ folder' = (name :> [whole |-> TRUE, holds |-> files[name]]) @@ folder
StepsNamed == LiveSteps(recipe.steps, recipe.output)
Written(name) == IF name = "recipe" THEN came.document ELSE [steps |-> StepsNamed, notes |-> NotesOf(came.document)]
Growing == {name \in DOMAIN folder : ~folder[name].whole}

FinishFile ==
  /\ IsFile /\ phase \in {"done", "finishing"} /\ ~Complete
  /\ phase' = "finishing"
  /\ IF Growing # {}
     THEN folder' = [folder EXCEPT ![CHOOSE name \in Growing : TRUE].whole = TRUE] /\ UNCHANGED files
     ELSE IF NextFile \in {"result", "mask"} THEN MoveUp(NextFile)
     ELSE folder' = (NextFile :> [whole |-> FALSE, holds |-> Written(NextFile)]) @@ folder /\ UNCHANGED files
  /\ UNCHANGED <<intakeVars, recipe, why, plan, pass, block, numbers, written, done, total, seen, exit>>

\* The disk is full, a name cannot be written: what is in the folder stays.
FinishFails ==
  /\ IsFile /\ phase \in {"done", "finishing"} /\ ~Complete
  /\ StopWith(5)
  /\ files' = <<>>
  /\ UNCHANGED <<intakeVars, recipe, why, plan, pass, block, numbers, written, done, total, seen, folder>>

Finished ==
  /\ IsFile /\ phase = "finishing" /\ Complete
  /\ StopWith(0)
  /\ files' = <<>>
  /\ UNCHANGED <<intakeVars, recipe, why, plan, pass, block, numbers, written, done, total, seen, folder>>

RunnerStep == ReadRecipeFile \/ CreateFolder \/ RunFailed \/ FinishFile \/ FinishFails \/ Finished
LocalNext == (OrderStep /\ UNCHANGED localVars) \/ RunnerStep
LocalIdle == OrderIdle /\ folder = <<>> /\ exit = Running

----------------------------------------------------------------------------
\* The operators of version 1: band_math leaves its result alone, mask takes
\* its layer with it, normalize stretches every band.

OldMath(image, step) ==
  LET added == Compute(image, step) IN [added EXCEPT !.bands = <<Last(@)>>]
OldMask(image, step) ==
  LET hidden == Hide(image, step, <<>>) IN [hidden EXCEPT !.bands = SelectSeq(@, LAMBDA b : b.name \notin step.reads)]
OldKernel(image, step) ==
  CASE step.op = "band_math" -> OldMath(image, step)
    [] step.op = "mask" -> OldMask(image, step)
    [] step.op = "normalize" -> Stretch(image, Normalize(NamesOf(image), "linear"), <<>>)
    [] OTHER -> Kernel(image, step, <<>>)
OldRefuses(image, step) ==
  CASE step.op = "band_math" -> ~(step.reads \subseteq Holding(image))
    [] step.op = "mask" -> ~(step.reads \subseteq Holding(image)) \/ Len(image.bands) = 1
    [] OTHER -> FALSE

\* What version 1 made of a document over these assets: no band where one of
\* its steps refused.
OldAssets(document) == IF came.from = "order" THEN NamedAssets(document.assets) ELSE document.assets
OldMeaning(document) ==
  LET r == [document EXCEPT !.assets = OldAssets(document)]
      apply(image, step) == IF image.bands = <<>> \/ OldRefuses(image, step) THEN [image EXCEPT !.bands = <<>>]
                            ELSE OldKernel(image, step)
  IN FoldLeft(apply, ReadSources(r), r.steps)

Old == IsVersion1(came.document) /\ came.document.kind = "raster"
\* Where the names are told apart: no band of the data is called like a result,
\* none lies in two assets, and every asset describes its bands.
PlainlyNamed(assets) ==
  LET names == FlattenSeq([a \in DOMAIN assets |-> assets[a].names])
  IN EachOnce(names) /\ ToSet(names) \cap {"band_math", "band_math_1", "band_math_2"} = {}
     /\ \A a \in DOMAIN assets : assets[a].described
\* An order reads only what is needed: then maybe nothing as fine, and a band
\* that a normalize lists may be missing.
ReadAlike == Finest(recipe).gsd = Finest([recipe EXCEPT !.assets = OldAssets(came.document)]).gsd
ListsOnlyWhatIsRead ==
  came.from = "order" /\ order # NoOrder =>
    \A step \in ToSet(LiveSteps(order.steps, order.output)) : \A a \in DOMAIN world.data :
       ToSet(step.names) \cap ToSet(BandSources[a]) # {} => world.data[a] \in ToSet(DeriveAssets(order))

\* A document of version 1 gives the bands and the values of version 1, except
\* behind a warp of all bands at once, and none that version 1 would have run is
\* turned away for its bands or its steps (upgrade.py).
OldMeansTheSame ==
  Old /\ PlainlyNamed(OldAssets(came.document)) /\ OldMeaning(came.document).bands # <<>> =>
    /\ (phase \in {"refused", "failed", "stopped"} /\ ListsOnlyWhatIsRead) =>
         why \notin {"order", "applicable", "bands", "recipe"} /\ exit # 2
    /\ (phase = "done" /\ ReadAlike /\ ~ReprojectChangesValues(came.document)) =>
         files[ResultFile].bands = OldMeaning(came.document).bands

\* What the methods text says of the steps, and what the passes held of them.
Wordings(steps) == [k \in DOMAIN steps |-> <<steps[k].op, steps[k].reads, steps[k].adds>>]
StepsRun == LET passes == [k \in DOMAIN plan.passes |-> plan.passes[k].steps]
            IN SelectSeq(FlattenSeq(passes), LAMBDA step : step.op # "select_bands")

\* A folder whose provenance is whole holds the result, its mask and the recipe
\* as given, and says which steps ran and whether values may differ from those
\* of the platform; the runner ends with 0 exactly then, and never leaves a
\* work file behind (runner/output.py, runner/cli.py).
FolderTellsTheTruth ==
  /\ phase = "stopped" => files = <<>> /\ (exit = 0 <=> Complete)
  /\ IF "provenance" \in DOMAIN folder /\ folder["provenance"].whole
     THEN /\ Complete
          /\ folder["recipe"].holds = came.document
          /\ ReprojectChangesValues(recipe) \/ IsAsked(folder["result"].holds)
          /\ Wordings(folder["provenance"].holds.steps) = Wordings(StepsRun)
          /\ (Old /\ PlainlyNamed(came.document.assets) /\ ~folder["provenance"].holds.notes) =>
               folder["result"].holds.bands = OldMeaning(came.document).bands
     ELSE exit # 0

(* A run gives what its order means, under whichever version it was        *)
(* written, an order once taken is not refused later, an export is whole,  *)
(* and the folder, the exit code and the refusals say so truthfully,       *)
(* wherever it failed.                                                     *)
ResultAsMeant == ResultAsPromised /\ OldMeansTheSame /\ AcceptedOrdersFit /\ ExportIsWhole /\ RunEndsClean /\ FolderTellsTheTruth
=============================================================================
