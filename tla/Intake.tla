------------------------------- MODULE Intake -------------------------------
(***************************************************************************)
(* The intake of an order (api/intake.py) in front of the job it becomes:  *)
(* what is judged before anything is fetched, the items fetched all at     *)
(* once, the assets derived from the bands that are needed, the groups the *)
(* area touches, the order of a mosaic, the version of every input, the    *)
(* estimate, and the estimate once more when the job is placed.  Whatever  *)
(* is accepted is then run by Runner or ExportRun.                         *)
(***************************************************************************)
EXTENDS ExportRun

CONSTANTS MaxOrderItems, MaxOrderSteps,
          MaxStock        \* the bands one child process has the memory for

ASSUME IntakeAssumption == MaxOrderItems \in Nat \ {0} /\ MaxOrderSteps \in Nat /\ MaxStock \in Nat \ {0}

VARIABLES came,      \* what came, as it came: an order, a recipe of the queue, a file
          order,     \* the order that is worked on, in version 2
          world,     \* what the dataset and its items are like
          fetched,   \* the items that came, each with its outcome
          prepared,  \* the groups and the assets of the checked order
          versions   \* the inputs whose version was asked for, each with its outcome

intakeVars == <<came, order, world, fetched, prepared, versions>>
vars == <<exportVars, intakeVars>>

NothingYet == [groups |-> <<>>, assets |-> <<>>]
Ids == FlattenSeq(order.groups)
Export == order.kind = "export"

Refuse(reason) == phase' = "refused" /\ why' = reason
Unrun == UNCHANGED <<recipe, plan, pass, block, numbers, files, written, done, total, seen>>

----------------------------------------------------------------------------
\* Before anything is fetched.  An order of version 1 is rewritten with what its
\* keys say: a key of a Zarr store names its variables, any other is one band.

Keyed(key) == {a \in DOMAIN world.data : world.data[a].key = key}
KeyNames(key) == IF world.zarr THEN world.data[CHOOSE a \in Keyed(key) : TRUE].names ELSE <<key>>
ParseOrder ==
  LET document == came.document
  IN IF IsVersion1(document) THEN UpgradeOrder(document, [a \in DOMAIN document.assets |-> KeyNames(document.assets[a])])
     ELSE document
Version1Accepted == IsVersion1(came.document) => world.version1

CheckScope(o) ==
  /\ o.kind = "export" => o.steps = <<>> /\ (o.layout = "none" => o.area) /\ ~world.zarr
  /\ Len(o.steps) <= MaxOrderSteps
  /\ Len(FlattenSeq(o.groups)) <= MaxOrderItems
CheckSteps(o) == \A k \in DOMAIN o.steps : IsGrid(o.steps[k]) => world.reprojection

Receive ==
  /\ phase = "order"
  /\ order' = ParseOrder
  /\ IF ~Version1Accepted THEN Refuse("version_1")
     ELSE IF ~OrderFits(ParseOrder) THEN Refuse("order")
     ELSE IF CheckScope(ParseOrder) /\ world.licensed /\ CheckSteps(ParseOrder) THEN phase' = "fetching" /\ UNCHANGED why
     ELSE Refuse("scope")
  /\ UNCHANGED <<came, world, fetched, prepared, versions>> /\ Unrun

\* All items are asked for at once; their answers come in any order.
Fetched ==
  /\ phase = "fetching"
  /\ \E id \in ToSet(Ids) \ DOMAIN fetched : \E outcome \in {"here"} \cup world.trouble :
       fetched' = (id :> outcome) @@ fetched
  /\ UNCHANGED <<phase, why, came, order, world, prepared, versions>> /\ Unrun

\* The first failure in the order of the list, however the answers came.
FirstFailure(ids, answers, good) == LET bad == {k \in DOMAIN ids : answers[ids[k]] \notin good}
                                 IN answers[ids[CHOOSE k \in bad : \A l \in bad : k <= l]]

----------------------------------------------------------------------------
\* The assets a raster order reads: a name a step adds is free and used once,
\* every needed band belongs to exactly one asset.  Of an asset whose bands the
\* item does not count, only its own name is known.

BandSources == [a \in DOMAIN world.data |-> ExpectedNames(world.data[a])]
Listed(name) == {a \in DOMAIN world.data : name \in ToSet(BandSources[a])}
Numbered(name) == {a \in DOMAIN world.data : ~world.data[a].described /\ name \in ToSet(world.data[a].numbered)}
Owners(name) == IF Listed(name) # {} THEN Listed(name) ELSE Numbered(name)
Adders(o, name) == {k \in DOMAIN o.steps : name \in o.steps[k].adds}
AddedNamesFree(o) == \A name \in AllNames : Adders(o, name) # {} =>
                       /\ Cardinality(Adders(o, name)) = 1
                       /\ \A a \in DOMAIN world.data : name \notin ToSet(BandSources[a])
NeededBy(o) == NeededSourceBands(o.steps, o.output)
AssetsKnown(o) == AddedNamesFree(o) /\ \A name \in NeededBy(o) : Cardinality(Owners(name)) = 1
DeriveAssets(o) == SelectSeq(world.data, LAMBDA d : \E a \in DOMAIN world.data :
                                            world.data[a] = d /\ \E name \in NeededBy(o) : a \in Owners(name))
NamedAssets(keys) == [k \in DOMAIN keys |-> world.data[CHOOSE a \in Keyed(keys[k]) : TRUE]]
Assets(o) == IF Export THEN NamedAssets(o.assets) ELSE DeriveAssets(o)

\* Once the item is there, an order of version 1 is rewritten again, with the
\* bands the item lists for its keys.
ItemNames(key) == IF Keyed(key) # {} THEN BandSources[CHOOSE a \in Keyed(key) : TRUE] ELSE KeyNames(key)
RewrittenFor ==
  LET document == came.document
  IN IF IsVersion1(document) /\ ~Export
     THEN UpgradeOrder(document, [a \in DOMAIN document.assets |-> ItemNames(document.assets[a])])
     ELSE order

\* The items of a group the area touches by their box; none of them where the
\* area misses their footprints together.
Matched(group) == SelectSeq(group, LAMBDA id : id \in world.boxed)
\* A mutant: the boxes alone decide.
TouchedByBox(group) == Matched(group)
Touched(group) == IF RegionIsThere(Matched(group), world.readable, world.touching) THEN Matched(group) ELSE <<>>
GroupsTheAoiTouches == SelectSeq([g \in DOMAIN order.groups |-> Touched(order.groups[g])], LAMBDA group : group # <<>>)

MosaicOrdered(group) ==
  IF Len(group) < 2 THEN group ELSE MosaicOrder([id \in ToSet(group) |-> world.crs[id]])

\* A raster job takes one scene, or those of one overpass; of a Zarr store only
\* scenes in one system.
OnlyOneOverpass(groups) ==
  /\ Len(groups) = 1
  /\ Len(groups[1]) > 1 =>
       /\ world.viewer /\ world.reprojection
       /\ \A a, b \in ToSet(groups[1]) : world.overpass[a] = world.overpass[b]
       /\ world.zarr => \A a, b \in ToSet(groups[1]) : world.crs[a] = world.crs[b]
Resolvable(groups) == \A id \in ToSet(FlattenSeq(groups)) : id \notin world.foreign

\* Everything between the last item and the first version is one stretch
\* without an await.
Prepare ==
  /\ phase = "fetching" /\ DOMAIN fetched = ToSet(Ids)
  /\ LET groups == GroupsTheAoiTouches
         request == RewrittenFor
     IN /\ order' = request
        /\ IF \E id \in ToSet(Ids) : fetched[id] # "here"
             THEN Refuse(FirstFailure(Ids, fetched, {"here"})) /\ UNCHANGED prepared
           ELSE IF ~OrderFits(request) THEN Refuse("order") /\ UNCHANGED prepared
           ELSE IF ~Export /\ ~AssetsKnown(request) THEN Refuse("applicable") /\ UNCHANGED prepared
           ELSE IF groups = <<>> THEN Refuse("aoi") /\ UNCHANGED prepared
           ELSE IF ~Export /\ ~OnlyOneOverpass(groups) THEN Refuse("order") /\ UNCHANGED prepared
           ELSE IF ~Resolvable(groups) THEN Refuse("hosts") /\ UNCHANGED prepared
           ELSE /\ prepared' = [groups |-> [g \in DOMAIN groups |-> MosaicOrdered(groups[g])], assets |-> Assets(request)]
                /\ phase' = "versions" /\ UNCHANGED why
  /\ UNCHANGED <<came, world, fetched, versions>> /\ Unrun

----------------------------------------------------------------------------
\* A checksum of the item is its version; else the source is asked, for COGs.

Targets == {<<id, a>> : id \in ToSet(FlattenSeq(prepared.groups)), a \in DOMAIN prepared.assets}
Asking == {t \in Targets : t[1] \notin world.summed /\ ~world.zarr}

VersionCame ==
  /\ phase = "versions"
  /\ \E t \in Asking \ DOMAIN versions : \E outcome \in {"etag", "unknown", "gone"} : versions' = (t :> outcome) @@ versions
  /\ UNCHANGED <<phase, why, came, order, world, fetched, prepared>> /\ Unrun

RecipeOf ==
  IF Export
  THEN [kind |-> "export", version |-> order.version, groups |-> prepared.groups, assets |-> prepared.assets, layout |-> order.layout,
        footprints |-> world.readable, touching |-> world.touching, cacheable |-> FALSE]
  ELSE [kind |-> "raster", version |-> order.version, items |-> prepared.groups[1], assets |-> prepared.assets,
        scenes |-> [k \in DOMAIN prepared.groups[1] |-> world.crs[prepared.groups[1][k]]],
        grids |-> [k \in DOMAIN prepared.groups[1] |-> world.grid[prepared.groups[1][k]]],
        steps |-> order.steps, output |-> order.output,
        cacheable |-> ~world.zarr /\ \A t \in Asking : versions[t] = "etag"]

\* One file for several assets takes assets of one band only.
LayoutBands(r) == r.layout \in {"per_resolution", "multi_band"} =>
                    \A k \in DOMAIN r.assets : Len(ExpectedNames(r.assets[k])) = 1
Estimable(r) == Judged(InputMeta(r), r.steps, r.output)
TooLarge(r) == PlannedStock(r).widest + PlannedStock(r).measured > MaxStock
\* A job may write only so much; what a raster job would write is known once its
\* steps are, what an export would from its files.
ExportTooLarge == world.big
TooMuch(r) == IF Export THEN ExportTooLarge ELSE Estimable(r) /\ (world.big \/ TooLarge(r))

\* A band name only the file knows is passed over here.
Accept ==
  /\ phase = "versions" /\ DOMAIN versions = Asking
  /\ LET r == RecipeOf
     IN IF \E t \in Asking : versions[t] = "gone" THEN Refuse("version") /\ UNCHANGED recipe
        ELSE IF ~Export /\ ~BandsFit(r) THEN Refuse("applicable") /\ UNCHANGED recipe
        ELSE IF TooMuch(r) THEN Refuse("size") /\ UNCHANGED recipe
        ELSE IF Export /\ ~LayoutBands(r) THEN Refuse("scope") /\ UNCHANGED recipe
        ELSE recipe' = r /\ phase' = "placing" /\ UNCHANGED why
  /\ UNCHANGED <<intakeVars, plan, pass, block, numbers, files, written, done, total, seen>>

\* Placing the job estimates it for its time limit, and there an unknown name is
\* an answer to the order.
Place ==
  /\ phase = "placing"
  /\ IF Export \/ Estimable(recipe) THEN phase' = "queued" /\ UNCHANGED why ELSE Refuse("applicable")
  /\ UNCHANGED intakeVars /\ Unrun

\* The child reads the recipe the queue holds; one of version 1 waited since
\* before version 2.
TakeUp ==
  /\ phase = "queued"
  /\ recipe' = OfAnyVersion(recipe)
  /\ IF RecipeFits(recipe') THEN phase' = "accepted" /\ UNCHANGED why ELSE phase' = "failed" /\ why' = "recipe"
  /\ UNCHANGED <<intakeVars, plan, pass, block, numbers, files, written, done, total, seen>>

IntakeStep == Receive \/ Fetched \/ Prepare \/ VersionCame \/ Accept \/ Place \/ TakeUp
OrderStep == IntakeStep \/ (JobStep /\ UNCHANGED intakeVars)

NoOrder == [kind |-> "none", groups |-> <<>>]
NoRecipe == [kind |-> "none"]
OrderIdle == /\ JobIdle /\ order = NoOrder /\ fetched = <<>> /\ prepared = NothingYet /\ versions = <<>>
             /\ phase = came.from
             /\ recipe = IF came.from = "queued" THEN came.document ELSE NoRecipe

----------------------------------------------------------------------------
\* What the intake lets through the run takes: it never fails because a step or
\* the output names a band that is not there, where the items describe their
\* files, and an export never fails because the area misses a whole group.
AcceptedOrdersFit ==
  came.from = "order" /\ phase = "failed" =>
    /\ why \notin {"aoi_missed", "recipe"}
    /\ why = "bands" => ~Described(recipe)
=============================================================================
