---------------------------- MODULE AoiMeasures ----------------------------
(***************************************************************************)
(* Judging scenes and overpasses inside an area (api/aoi_cloud_filter.py,  *)
(* api/pass_filter.py, access/aoi_clouds.py, access/outlines.py,           *)
(* gateway/slots.py): the cheap questions first, then a measure out of the *)
(* cache or out of the pixels, read scene by scene in threads that share   *)
(* the slots of a host, tried twice, stored for whoever asks next.         *)
(* Dataset, asset and cloud classes are one each; an area is the set of    *)
(* its places; overview levels, rounding and projections are left out.     *)
(***************************************************************************)
EXTENDS CropRules, FiniteSetsExt

CONSTANTS AoiGrounds,   \* what the scenes of an overpass may be like
          AoiRequests,  \* the searches
          Askers,       \* the judgements under way at once
          ReaderLimit,  \* Policy.max_connections_per_host
          ReadTries     \* ATTEMPTS

VARIABLES ground,     \* the scenes: system, host, extent, outline, pixels, a property
          judging,    \* of each judgement, where it stands
          aoiCache,   \* the measures stored so far
          slotsTaken  \* the slots taken of each host

aoiVars == <<ground, judging, aoiCache, slotsTaken>>

AoiScenes == DOMAIN ground.crs
NotAsked == 1000
NoArea == {}
NoData == 0
NoNumber == 0 - 1

----------------------------------------------------------------------------
\* The request: which area is measured, and which the source is asked for.

InsideArea(r) == r.share # NotAsked
NeedsArea(r) == InsideArea(r) \/ r.cover # NotAsked
AreaOf(r) == IF ~NeedsArea(r) THEN NoArea
             ELSE IF r.aoi # NoArea THEN r.aoi ELSE IF r.shape # NoArea THEN r.shape ELSE r.box
AreaReadable(r) ==
  /\ AreaOf(r) # NoArea
  /\ r.aoi # NoArea => r.shape = NoArea /\ r.box # NoArea /\ r.aoi \subseteq r.box
  /\ r.crooked => r.aoi = NoArea /\ r.shape = NoArea
AoiReadable(r) == (InsideArea(r) => r.closed) /\ (NeedsArea(r) => AreaReadable(r))

SentArea(r) == IF r.shape # NoArea THEN r.shape ELSE r.box
Found(r) == {s \in AoiScenes : SentArea(r) # NoArea => ground.extent[s] \cap SentArea(r) # {}}
GroupsFound(r) == IF r.byPass THEN {Found(r)} \ {{}} ELSE {{s} : s \in Found(r)}

----------------------------------------------------------------------------
\* What the outlines and the items tell, before a pixel is read.

PassOrdered(items) == MosaicOrder([s \in items |-> IF s \in ground.bare THEN NoCrs ELSE ground.crs[s]])
Outlined(scenes) == \A k \in DOMAIN scenes : ground.outline[scenes[k]] # {}
OutlinesOf(scenes) == UNION {ground.outline[scenes[k]] : k \in DOMAIN scenes}
CoverageMeets(scenes, r) ==
  r.cover # NotAsked =>
    /\ Outlined(scenes)
    /\ 100 * Cardinality(OutlinesOf(scenes) \cap AreaOf(r)) >= r.cover * Cardinality(AreaOf(r))

\* A mutant: a scene weighs its whole outline.
MosaicWeightsWhole(scenes) == [k \in DOMAIN scenes |-> Cardinality(ground.outline[scenes[k]])]
\* A scene weighs what its outline adds to the ones before it.
MosaicWeights(scenes) ==
  [k \in DOMAIN scenes |-> Cardinality(ground.outline[scenes[k]] \ OutlinesOf(SubSeq(scenes, 1, k - 1)))]

\* The mean of the property over the pass lies within the bound; a scene without
\* weight has no say, one scene has its own value.
WeightedMeets(scenes, bound) ==
  LET number(k) == ground.number[scenes[k]]
      weights == MosaicWeights(scenes)
      heavy == {k \in DOMAIN scenes : weights[k] > 0}
      total == MapThenSumSet(LAMBDA k : weights[k], heavy)
      weighted == MapThenSumSet(LAMBDA k : weights[k] * number(k), heavy)
  IN IF Len(scenes) = 1 THEN number(1) # NoNumber /\ number(1) <= bound
     ELSE /\ Outlined(scenes) /\ total > 0
          /\ \A k \in heavy : number(k) # NoNumber
          /\ weighted <= bound * total

\* A property of the whole scene is weighted, of any other kind every scene must meet it.
PropertiesMeet(scenes, r) ==
  r.byPass /\ r.mean # NotAsked =>
    IF r.areaBased THEN WeightedMeets(scenes, r.mean)
    ELSE \A k \in DOMAIN scenes : ground.number[scenes[k]] # NoNumber /\ ground.number[scenes[k]] <= r.mean

\* A scene without an outline is read to be sure; a scene alone is read as it is.
Touching(scenes, r) ==
  LET touches(s) == ground.outline[s] = {} \/ ground.outline[s] \cap AreaOf(r) # {}
  IN IF r.byPass THEN SelectSeq(scenes, touches) ELSE scenes

----------------------------------------------------------------------------
\* The measure: every place of the area belongs to the first scene with a valid
\* pixel there.

Valid(s, p) == p \in DOMAIN ground.pixels[s] /\ ground.pixels[s][p] # NoData
\* A mutant: the last scene laid on the grid takes the place.
LaidLast(merged, s) == [p \in DOMAIN merged |-> IF Valid(s, p) THEN ground.pixels[s][p] ELSE merged[p]]
LaidOn(merged, s) == [p \in DOMAIN merged |-> IF merged[p] = NoData /\ Valid(s, p) THEN ground.pixels[s][p] ELSE merged[p]]
Merged(scenes, area) == FoldLeft(LaidOn, [p \in area |-> NoData], scenes)
Counts(merged) ==
  LET valid == {p \in DOMAIN merged : merged[p] # NoData}
      of(c) == {p \in valid : merged[p] = c}
  IN [data |-> Cardinality(valid), cloud |-> Cardinality({p \in valid : merged[p] \in ground.clouds}),
      perClass |-> [c \in {merged[p] : p \in valid} |-> Cardinality(of(c))]]
NoMeasure == [data |-> 0, cloud |-> 0, perClass |-> <<>>]
ShareMeets(measure, r) == measure.data > 0 /\ 100 * measure.cloud <= r.share * measure.data

\* A mutant: the key of a pass leaves out the area.
KeyOfScenes(scenes, area) == [scenes |-> ToSet(scenes), area |-> NoArea]
\* One scene has the key of its own measure, several that of their set.
KeyOfMeasure(scenes, area) == [scenes |-> ToSet(scenes), area |-> area]

----------------------------------------------------------------------------
\* A judgement: asked, judged without pixels, looked up, queued for a thread,
\* reading, storing, answered.

NoRequest == [aoi |-> NoArea]
FreshJudgement == [at |-> "idle", request |-> NoRequest, scenes |-> <<>>, touching |-> <<>>,
                   stage |-> "none", jobs |-> <<>>, readers |-> {}, tries |-> 0, measure |-> NoMeasure]
Put(t, changes) == judging' = [judging EXCEPT ![t] = changes @@ @]
At(t, places) == judging[t].at \in places
MeasureKey(t) == KeyOfMeasure(judging[t].touching, AreaOf(judging[t].request))
OnlyJudging == UNCHANGED <<ground, aoiCache, slotsTaken>>

AskFor(t) ==
  /\ At(t, {"idle"})
  /\ \E r \in AoiRequests :
       IF ~AoiReadable(r) THEN Put(t, [at |-> "refused", request |-> r])
       ELSE \E items \in GroupsFound(r) : Put(t, [at |-> "found", request |-> r, scenes |-> PassOrdered(items)])
  /\ OnlyJudging

\* Coverage and properties first; pixels only for those that pass and only if asked.
Judge(t) ==
  /\ At(t, {"found"})
  /\ LET scenes == judging[t].scenes
         r == judging[t].request
         touching == Touching(scenes, r)
     IN Put(t, IF ~CoverageMeets(scenes, r) \/ ~PropertiesMeet(scenes, r) THEN [at |-> "dropped"]
               ELSE IF ~InsideArea(r) THEN [at |-> "kept"]
               ELSE IF touching = <<>> THEN [at |-> "dropped"]
               ELSE IF ToSet(touching) \cap ground.bare # {} THEN [at |-> "unreadable"]
               ELSE [at |-> "lookup", touching |-> touching])
  /\ OnlyJudging

Settled(t, measure) == [at |-> IF ShareMeets(measure, judging[t].request) THEN "kept" ELSE "dropped"]

\* A cache that fails, or an entry that is over, is a miss.
LookUpMeasure(t) ==
  /\ At(t, {"lookup"})
  /\ \/ MeasureKey(t) \in DOMAIN aoiCache /\ Put(t, Settled(t, aoiCache[MeasureKey(t)]))
     \/ Put(t, [at |-> "queued"])
  /\ OnlyJudging

\* The threads that read are limited for the whole process.
EnterThread(t) ==
  /\ At(t, {"queued"})
  /\ Cardinality({u \in Askers : At(u, {"reading"})}) < ReaderLimit
  /\ Put(t, [at |-> "reading", stage |-> "address", tries |-> judging[t].tries + 1])
  /\ OnlyJudging

Alone(t) == Len(judging[t].touching) = 1
AllJobs(t) == [s \in ToSet(judging[t].touching) |-> "waiting"]
\* A try that failed is repeated if another may do better, at most once.
TryFailed(t, how) ==
  [at |-> IF how = "again" /\ judging[t].tries < ReadTries THEN "queued" ELSE "unreadable",
   stage |-> "none", jobs |-> <<>>, readers |-> {}]

\* The addresses are cleared by the gateway before a slot is asked for.
ClearAddresses(t) ==
  /\ At(t, {"reading"}) /\ judging[t].stage = "address"
  /\ \/ Put(t, [stage |-> IF Alone(t) THEN "alone" ELSE "files", jobs |-> AllJobs(t)])
     \/ \E how \in {"again", "never"} : Put(t, TryFailed(t, how))
  /\ OnlyJudging

----------------------------------------------------------------------------
\* The reading of a pass: its files are opened, then their levels, then each is
\* read, every job in a thread of its own inside the slot of its host.

HostOf(s) == ground.host[s]
SetJob(t, s, to) == [judging[t].jobs EXCEPT ![s] = to]

TakeSlot(t, s) ==
  /\ s \in DOMAIN judging[t].jobs /\ judging[t].jobs[s] = "waiting" /\ slotsTaken[HostOf(s)] < ReaderLimit
  /\ slotsTaken' = [slotsTaken EXCEPT ![HostOf(s)] = @ + 1]
  /\ Put(t, [jobs |-> SetJob(t, s, "running")])
  /\ UNCHANGED <<ground, aoiCache>>

\* A mutant: the slot is kept until the pass is read.
KeepSlot(s) == UNCHANGED slotsTaken
GiveSlot(s) == slotsTaken' = [slotsTaken EXCEPT ![HostOf(s)] = @ - 1]

\* A job that ends by the deadline, by an error or with what it read gives its
\* slot back; a reader it opened stays open for the next stage.
JobEnds(t, s) ==
  /\ s \in DOMAIN judging[t].jobs /\ judging[t].jobs[s] = "running"
  /\ GiveSlot(s)
  /\ \/ Put(t, [jobs |-> SetJob(t, s, "done"),
                readers |-> judging[t].readers \cup (IF judging[t].stage \in {"files", "levels"} THEN {<<s, judging[t].stage>>} ELSE {})])
     \/ \E how \in {"again", "never"} : Put(t, [jobs |-> SetJob(t, s, how)])
  /\ UNCHANGED <<ground, aoiCache>>

JobsIn(t, states) == {s \in DOMAIN judging[t].jobs : judging[t].jobs[s] \in states}
FailedJobs(t) == JobsIn(t, {"again", "never"})
\* A mutant: the readers are closed as soon as one job has failed.
ClosedEarly(t) == JobsIn(t, {"waiting", "running"}) = {} \/ FailedJobs(t) # {}
PoolOver(t) == JobsIn(t, {"waiting", "running"}) = {}

OnRasters(t) == AreaOf(judging[t].request) \cap UNION {ground.extent[s] : s \in ToSet(judging[t].touching)}
StageEnds(t) ==
  /\ At(t, {"reading"}) /\ DOMAIN judging[t].jobs # {} /\ PoolOver(t) /\ FailedJobs(t) = {}
  /\ LET stage == judging[t].stage
         measured(counts) == [at |-> "storing", stage |-> "none", jobs |-> <<>>, readers |-> {}, measure |-> counts]
     IN Put(t, CASE stage = "files" /\ OnRasters(t) = {} -> measured(NoMeasure)
                 [] stage = "files" /\ OnRasters(t) # {} -> [stage |-> "levels", jobs |-> AllJobs(t)]
                 [] stage = "levels" -> [stage |-> "pixels", jobs |-> AllJobs(t)]
                 [] OTHER -> measured(Counts(Merged(judging[t].touching, AreaOf(judging[t].request)))))
  /\ OnlyJudging

\* The first failure in the order of the mosaic stands, once the pool has ended.
TryEnds(t) ==
  /\ At(t, {"reading"}) /\ FailedJobs(t) # {} /\ PoolOver(t)
  /\ LET failures == SelectSeq(judging[t].touching, LAMBDA s : s \in FailedJobs(t))
     IN Put(t, TryFailed(t, judging[t].jobs[Head(failures)]))
  /\ OnlyJudging

\* A cache that cannot be written is passed over.
StoreMeasure(t) ==
  /\ At(t, {"storing"})
  /\ \/ aoiCache' = (MeasureKey(t) :> judging[t].measure) @@ aoiCache
     \/ UNCHANGED aoiCache
  /\ Put(t, Settled(t, judging[t].measure))
  /\ UNCHANGED <<ground, slotsTaken>>

AoiStep == \E t \in Askers :
  \/ AskFor(t) \/ Judge(t) \/ LookUpMeasure(t) \/ EnterThread(t) \/ ClearAddresses(t)
  \/ StageEnds(t) \/ TryEnds(t) \/ StoreMeasure(t)
  \/ \E s \in AoiScenes : TakeSlot(t, s) \/ JobEnds(t, s)
AoiOver == \A t \in Askers : At(t, {"refused", "kept", "dropped", "unreadable"})
AoiIdle == /\ ground \in AoiGrounds
           /\ judging = [t \in Askers |-> FreshJudgement]
           /\ aoiCache = <<>> /\ slotsTaken = [h \in {HostOf(s) : s \in AoiScenes} |-> 0]

----------------------------------------------------------------------------
\* The orders a mosaic of these scenes may have, whatever else was found.
OrdersOf(scenes) == {SelectSeq(PassOrdered(items), LAMBDA s : s \in scenes) :
                       items \in {found \in SUBSET AoiScenes : scenes \subseteq found}}
\* The scene a place is taken from.
FirstWith(order, has) == LET those == {k \in DOMAIN order : order[k] \in has}
                         IN IF those = {} THEN {} ELSE {order[CHOOSE k \in those : \A j \in those : k <= j]}
PlacesOf(order, area, classes) ==
  {p \in area : \E s \in FirstWith(order, {s \in AoiScenes : Valid(s, p)}) : ground.pixels[s][p] \in classes}
AllClasses == (UNION {{ground.pixels[s][p] : p \in DOMAIN ground.pixels[s]} : s \in AoiScenes}) \ {NoData}

\* A stored measure counts every place of its area once, for the scene the
\* mosaic of its scenes takes it from.
StoredMeansItsKey ==
  \A key \in DOMAIN aoiCache : \E order \in OrdersOf(key.scenes) :
    /\ aoiCache[key].data = Cardinality(PlacesOf(order, key.area, AllClasses))
    /\ aoiCache[key].cloud = Cardinality(PlacesOf(order, key.area, ground.clouds))
    /\ \A c \in AllClasses : LET count == Cardinality(PlacesOf(order, key.area, {c}))
                             IN IF count = 0 THEN c \notin DOMAIN aoiCache[key].perClass ELSE aoiCache[key].perClass[c] = count

\* Over the places of the union: whose value counts where.
MeanWithin(scenes, bound) ==
  LET union == UNION {ground.outline[s] : s \in ToSet(scenes)}
      value(p) == CHOOSE v \in {ground.number[s] : s \in FirstWith(scenes, {s \in AoiScenes : p \in ground.outline[s]})} : TRUE
  IN IF Len(scenes) = 1 THEN ground.number[scenes[1]] \in 0..bound
     ELSE /\ \A s \in ToSet(scenes) : ground.outline[s] # {}
          /\ \A p \in union : value(p) # NoNumber
          /\ MapThenSumSet(value, union) <= bound * Cardinality(union)
CoveredEnough(scenes, r) ==
  /\ \A s \in ToSet(scenes) : ground.outline[s] # {}
  /\ 100 * Cardinality({p \in AreaOf(r) : \E s \in ToSet(scenes) : p \in ground.outline[s]}) >= r.cover * Cardinality(AreaOf(r))
ShareUnder(order, r) ==
  LET valid == PlacesOf(order, AreaOf(r), AllClasses)
  IN valid # {} /\ 100 * Cardinality(PlacesOf(order, AreaOf(r), ground.clouds)) <= r.share * Cardinality(valid)
\* What is kept meets all that was asked, what is dropped fails something.
VerdictsHold ==
  \A t \in Askers : At(t, {"kept", "dropped"}) =>
    LET r == judging[t].request
        scenes == judging[t].scenes
        cheap == /\ r.cover # NotAsked => CoveredEnough(scenes, r)
                 /\ r.byPass /\ r.mean # NotAsked =>
                      IF r.areaBased THEN MeanWithin(scenes, r.mean) ELSE \A s \in ToSet(scenes) : ground.number[s] \in 0..r.mean
        touching == {s \in ToSet(scenes) : r.byPass => ground.outline[s] = {} \/ ground.outline[s] \cap AreaOf(r) # {}}
    IN IF At(t, {"kept"}) THEN cheap /\ (InsideArea(r) => \E order \in OrdersOf(touching) : ShareUnder(order, r))
       ELSE cheap => InsideArea(r) /\ \E order \in OrdersOf(touching) : ~ShareUnder(order, r)

\* No job reads a reader that is closed, none is open outside a try, and no host
\* has more readers than slots.
StageBefore(stage) == IF stage = "levels" THEN "files" ELSE "levels"
ReadersHold ==
  /\ \A t \in Askers :
       /\ judging[t].readers # {} => At(t, {"reading"})
       /\ judging[t].stage \in {"levels", "pixels"} =>
            \A s \in JobsIn(t, {"waiting", "running"}) : <<s, StageBefore(judging[t].stage)>> \in judging[t].readers
  /\ \A h \in DOMAIN slotsTaken :
       Cardinality({<<t, s>> \in Askers \X AoiScenes : s \in JobsIn(t, {"running"}) /\ HostOf(s) = h}) <= ReaderLimit

\* While a judgement waits for a thread or a slot, somebody can go on.
NobodyWaitsForEver ==
  (\E t \in Askers : At(t, {"queued", "reading"})) =>
    \/ \E t \in Askers : At(t, {"reading"}) /\ (DOMAIN judging[t].jobs = {} \/ JobsIn(t, {"waiting"}) = {})
    \/ \E t \in Askers : \E s \in JobsIn(t, {"running"}) : TRUE
    \/ \E t \in Askers : \E s \in JobsIn(t, {"waiting"}) : slotsTaken[HostOf(s)] < ReaderLimit
    \/ ~\E t \in Askers : At(t, {"reading"})

(* A measure is that of its scenes and its area whatever failed on the     *)
(* way and whoever stored it, the verdict follows from it, and the readers *)
(* of all searches share the slots of a host without harm (aoi_clouds.py:  *)
(* measure_aoi_pass; slots.py).                                            *)
MeasuresHold == StoredMeansItsKey /\ VerdictsHold /\ ReadersHold /\ NobodyWaitsForEver
=============================================================================
