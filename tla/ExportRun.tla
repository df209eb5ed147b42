----------------------------- MODULE ExportRun -----------------------------
(***************************************************************************)
(* The export of a job (processing/export.py) beside the raster run: every *)
(* output file of every group is planned before the first block is read,   *)
(* written block by block with its mask, turned into a COG and read back,  *)
(* and all of them move into one archive, each file removed once it is in. *)
(***************************************************************************)
EXTENDS Runner

VARIABLES seen  \* whether a value inside the area was met in the current output

exportVars == <<runVars, seen>>

ArchiveFile == "export"
Texts == <<"aoi", "recipe", "citation", "notice">>
TextsOf(r) == IF r.layout = "none" THEN Texts ELSE Append(Texts, "bands")

Part(kind, group, assets) == kind \o "-" \o ToString(<<group, assets>>)
Plain(o) == Part("plain", o.group, o.assets)
Data(o) == Part("data", o.group, o.assets)
MaskOf(o) == Part("mask", o.group, o.assets)

----------------------------------------------------------------------------
\* The files of a layout: one per asset, all in one, or one per pixel size, the
\* sizes ascending and the assets of one size in the order asked for.
Keys(assets) == [k \in DOMAIN assets |-> assets[k].key]
\* A mutant: the last band of a size takes the place of the others.
PlanFilesOneEach(form, assets) ==
  CASE form \in {"none", "per_band"} -> [k \in DOMAIN assets |-> <<assets[k].key>>]
    [] form = "multi_band" -> <<Keys(assets)>>
    [] OTHER -> LET sizes == SetToSortSeq({assets[k].gsd : k \in DOMAIN assets}, <)
                IN [s \in DOMAIN sizes |-> <<assets[CHOOSE k \in DOMAIN assets : assets[k].gsd = sizes[s]].key>>]
PlanFiles(form, assets) ==
  CASE form \in {"none", "per_band"} -> [k \in DOMAIN assets |-> <<assets[k].key>>]
    [] form = "multi_band" -> <<Keys(assets)>>
    [] OTHER -> LET sizes == SetToSortSeq({assets[k].gsd : k \in DOMAIN assets}, <)
                IN [s \in DOMAIN sizes |-> Keys(SelectSeq(assets, LAMBDA a : a.gsd = sizes[s]))]

\* The files the estimate counts, of one pixel size in the order they are met.
EstimatedFiles(form, assets) ==
  LET met(sizes, a) == IF a.gsd \in ToSet(sizes) THEN sizes ELSE Append(sizes, a.gsd)
      sizes == FoldLeft(met, <<>>, assets)
  IN CASE form \in {"none", "per_band"} -> [k \in DOMAIN assets |-> <<assets[k].key>>]
       [] form = "multi_band" -> <<[k \in DOMAIN assets |-> assets[k].key]>>
       [] OTHER -> [s \in DOMAIN sizes |-> LET ofSize == SelectSeq(assets, LAMBDA a : a.gsd = sizes[s])
                                          IN [k \in DOMAIN ofSize |-> ofSize[k].key]]
\* Room for every file and its mask, and for the largest one twice.
DiskNeeded(r) == 2 * Len(r.groups) * Len(EstimatedFiles(r.layout, r.assets)) + 2

OutputsOf(r) ==
  FlattenSeq([g \in DOMAIN r.groups |->
    [f \in DOMAIN PlanFiles(r.layout, r.assets) |-> [group |-> g, assets |-> PlanFiles(r.layout, r.assets)[f]]]])
Output == plan.passes[pass]
Folder(o) == IF Len(recipe.groups) = 1 THEN 0 ELSE o.group

PlanExport ==
  /\ phase = "accepted" /\ recipe.kind = "export"
  /\ IF \A g \in DOMAIN recipe.groups : RegionIsThere(recipe.groups[g], recipe.footprints, recipe.touching)
     THEN /\ plan' = [plan EXCEPT !.passes = OutputsOf(recipe)]
          /\ total' = Len(plan'.passes) * BlocksOf[0] + 1
          /\ phase' = "export_open" /\ pass' = 1
          /\ UNCHANGED why
     ELSE phase' = "failed" /\ why' = "aoi_missed" /\ UNCHANGED <<plan, total, pass>>
  /\ UNCHANGED <<recipe, block, numbers, files, written, done, seen>>

OpenOutput ==
  /\ phase = "export_open"
  /\ files' = (Plain(Output) :> "plain") @@ (MaskOf(Output) :> "mask") @@ files
  /\ written' = written \cup {Plain(Output), MaskOf(Output)}
  /\ phase' = "export_write" /\ block' = 0 /\ seen' = FALSE
  /\ UNCHANGED <<recipe, why, plan, pass, numbers, done, total>>

ExportBlock ==
  /\ phase = "export_write"
  /\ Tick(BlocksOf[0])
  /\ \E value \in BOOLEAN : seen' = (seen \/ value)
  /\ UNCHANGED <<recipe, phase, why, plan, pass, numbers, files, written, total>>

\* Without any value inside the area the export fails; else the COG is made.
EndBlocks ==
  /\ phase = "export_write" /\ block = BlocksOf[0]
  /\ \/ seen /\ NewFile(Data(Output), "data") /\ phase' = "export_verify" /\ UNCHANGED why
     \/ ~seen /\ Cleanup /\ phase' = "failed" /\ why' = "no_value" /\ UNCHANGED written
  /\ UNCHANGED <<recipe, plan, pass, block, numbers, done, total, seen>>

Forget(names) == files' = Without(files, names) /\ written' = written \ names

\* The plain file goes, data and mask are read back, and the next output follows.
EndOutput ==
  /\ phase = "export_verify"
  /\ Forget({Plain(Output)})
  /\ IF LastPass THEN phase' = "archive" /\ pass' = 1 ELSE phase' = "export_open" /\ pass' = pass + 1
  /\ UNCHANGED <<recipe, why, plan, block, numbers, done, total, seen>>

OpenArchive ==
  /\ phase = "archive"
  /\ NewFile(ArchiveFile, <<>>)
  /\ phase' = "archive_data"
  /\ UNCHANGED <<recipe, why, plan, pass, block, numbers, done, total, seen>>

Member(kind, o) == [kind |-> kind, folder |-> Folder(o), assets |-> o.assets]
AddMember ==
  /\ phase \in {"archive_data", "archive_mask"}
  /\ files' = [files EXCEPT ![ArchiveFile] = Append(@, Member(IF phase = "archive_data" THEN "data" ELSE "mask", Output))]
  /\ phase' = IF phase = "archive_data" THEN "forget_data" ELSE "forget_mask"
  /\ UNCHANGED <<recipe, why, plan, pass, block, numbers, written, done, total, seen>>

ForgetMember ==
  /\ phase \in {"forget_data", "forget_mask"}
  /\ Forget({IF phase = "forget_data" THEN Data(Output) ELSE MaskOf(Output)})
  /\ phase' = IF phase = "forget_data" THEN "archive_mask" ELSE IF LastPass THEN "texts" ELSE "archive_data"
  /\ pass' = IF phase = "forget_mask" /\ ~LastPass THEN pass + 1 ELSE pass
  /\ UNCHANGED <<recipe, why, plan, block, numbers, done, total, seen>>

\* The texts, the check of the whole archive, and the last tick.
FinishExport ==
  /\ phase = "texts"
  /\ files' = [files EXCEPT ![ArchiveFile] = @ \o [k \in DOMAIN TextsOf(recipe) |->
                                [kind |-> TextsOf(recipe)[k], folder |-> 0, assets |-> <<>>]]]
  /\ done' = done + 1
  /\ phase' = "done"
  /\ UNCHANGED <<recipe, why, plan, pass, block, numbers, written, total, seen>>

ExportBusy == {"export_open", "export_write", "export_verify", "archive", "archive_data", "archive_mask",
               "forget_data", "forget_mask", "texts"}
ExportFail == phase \in ExportBusy /\ FailWith("error") /\ UNCHANGED seen

ExportStep == \/ PlanExport \/ OpenOutput \/ ExportBlock \/ EndBlocks \/ EndOutput \/ OpenArchive
              \/ AddMember \/ ForgetMember \/ FinishExport \/ ExportFail

JobStep == (RunStep /\ UNCHANGED seen) \/ ExportStep
JobIdle == RunIdle /\ seen = FALSE

----------------------------------------------------------------------------
Packed == IF ArchiveFile \in DOMAIN files THEN files[ArchiveFile] ELSE <<>>
Copies == Cardinality(DOMAIN files \ {ArchiveFile}) + Len(SelectSeq(Packed, LAMBDA m : m.kind \in {"data", "mask"}))

\* The archive of a finished export holds every asset of every group exactly
\* once, in the files the estimate counted, each data file with its mask, and
\* then the texts; no other file is left.  Until then the work directory never
\* holds more than what disk_needed asks for; after a failure, nothing.
ExportIsWhole ==
  recipe.kind = "export" =>
    /\ Copies <= DiskNeeded(recipe)
    /\ phase = "failed" => files = <<>>
    /\ phase = "done" => LET Datas == SelectSeq(Packed, LAMBDA m : m.kind = "data") IN
         /\ DOMAIN files = {ArchiveFile}
         /\ {m.assets : m \in ToSet(Datas)} = ToSet(EstimatedFiles(recipe.layout, recipe.assets))
         /\ \A g \in DOMAIN recipe.groups : \A a \in DOMAIN recipe.assets :
              Cardinality({k \in DOMAIN Datas : Datas[k].folder = (IF Len(recipe.groups) = 1 THEN 0 ELSE g)
                                              /\ recipe.assets[a].key \in ToSet(Datas[k].assets)}) = 1
         /\ \A k \in DOMAIN Datas : [Datas[k] EXCEPT !.kind = "mask"] \in ToSet(Packed)
         /\ \A t \in ToSet(TextsOf(recipe)) : \E m \in ToSet(Packed) : m.kind = t
=============================================================================
