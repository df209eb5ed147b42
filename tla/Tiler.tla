-------------------------------- MODULE Tiler --------------------------------
(* The requests of the tiler process, api/tiler.py.  Tiles, mosaics, scene orders,   *)
(* band lists, statistics and crops fetch the items they name through ItemFetches    *)
(* (api/mosaic_tiles.py): one running fetch per item, a few at a time, shared by     *)
(* whoever asks meanwhile.  A measure of an area takes its items as an order does,   *)
(* past ItemFetches.  Fetches and caches share a small pool of database connections; *)
(* one large crop is built at a time.                                                *)
EXTENDS ResultSources, FiniteSetsExt, SequencesExt

CONSTANTS
  Reqs,            \* requests
  Items,           \* item ids: numbers, in the order the answers name them
  None,
  Workloads,       \* what is asked of the process: requests, and whether results are read
  MaxItemFetches,  \* running fetches of ItemFetches (MAX_ITEM_FETCHES)
  PoolSize,        \* database connections (_CACHE_POOL_MAX_SIZE)
  Touching,        \* the items the area of a crop touches
  MaxCropItems,    \* items of one crop
  MaxCropFiles,    \* files of one crop: the cap on its bytes
  LargeFrom,       \* files from which a crop is large
  MaxMeasure       \* items a measure opens at most (MAX_AREA_FILES)

Kinds == {"tile", "mosaic", "order", "bands", "statistics", "measure", "crop"}
\* A fetch is named by the request that started it and its item.
Fetches == Reqs \X Items
\* What came of a fetch: the item, the source's refusal, a failure of the cache.
Ends == {"item", "refused", "broken"}

ASSUME TilerAssumption ==
  /\ Items \subseteq Nat /\ None \notin Reqs \cup Items
  /\ (Reqs \cup {None}) \cap (Ends \cup {"cancelled"}) = {}
  /\ \A w \in Workloads : w.asked \in [Reqs -> [kind : Kinds, groups : Seq(SUBSET Items)]]
  /\ Touching \subseteq Items
  /\ {MaxItemFetches, PoolSize} \subseteq Nat \ {0}

VARIABLES
  req,      \* request -> kind, groups of items, step, whose fetch each item waits for
            \*   or what came of it, connection, answer
  fetch,    \* fetch -> "none" or where it waits
  running,  \* item -> the request whose fetch others join, or None
  turn      \* the large crop being built, or None

tilerVars == <<req, fetch, running, turn>>

Named(r) == UNION ToSet(req[r].groups)
\* Waiting for nothing: an answered request keeps its answer only.
Idle == [i \in Items |-> None]
Answers(r, a) ==
  [req EXCEPT ![r].at = "answered", ![r].answer = a, ![r].groups = <<>>, ![r].conn = FALSE,
              ![r].got = Idle]

TilerInit(asked) ==
  /\ req = [r \in Reqs |->
       [kind |-> asked[r].kind, groups |-> asked[r].groups, conn |-> FALSE, answer |-> "none",
        got |-> Idle,
        at |-> IF asked[r].groups = <<>> THEN "answered" ELSE "asked"]]
  /\ fetch = [f \in Fetches |-> "none"]
  /\ running = [i \in Items |-> None]
  /\ turn = None

Held ==
  Cardinality({f \in Fetches : fetch[f] = "upstream"})
    + Cardinality({r \in Reqs : req[r].conn})
Shared(f) == req[f[1]].kind # "measure"
SlotsTaken == {f \in Fetches : Shared(f) /\ fetch[f] \in {"connecting", "upstream"}}

\* The requests that wait for a fetch are given what came of it.
Deliver(f, e, requests) ==
  [r \in Reqs |-> IF requests[r].got[f[2]] = f[1]
                  THEN [requests[r] EXCEPT !.got[f[2]] = e] ELSE requests[r]]

-----------------------------------------------------------------------------
(* A request arrives *)

\* Refused on its own words, the registry and the licence: nothing is fetched.
RefuseWords(r) ==
  /\ req[r].at = "asked"
  /\ req' = Answers(r, "words")
  /\ UNCHANGED <<fetch, running, turn>>

\* Each item: its running fetch, or one of its own; a measure starts its own always.
BeginFetch(r) ==
  LET alone == req[r].kind = "measure"
      new == {i \in Named(r) : alone \/ running[i] = None}
  IN
  /\ req[r].at = "asked"
  /\ req' = [req EXCEPT ![r].at = "fetching",
               ![r].got = [i \in Items |-> IF i \in new THEN r
                                           ELSE IF i \in Named(r) THEN running[i] ELSE None]]
  /\ fetch' = [f \in Fetches |-> IF f[1] = r /\ f[2] \in new
                                  THEN IF alone THEN "connecting" ELSE "queued" ELSE fetch[f]]
  /\ running' = [i \in Items |-> IF i \in new /\ ~alone THEN r ELSE running[i]]
  /\ UNCHANGED turn

\* A mutant, without the shield: a fetch the request waits for ends with it.
GiveUpWithFetch(r) ==
  /\ req[r].at = "fetching"
  /\ \E i \in Named(r) :
       LET f == <<req[r].got[i], i>> IN
       /\ f \in Fetches
       /\ req' = Deliver(f, "cancelled", Answers(r, "gone"))
       /\ fetch' = [fetch EXCEPT ![f] = "none"]
       /\ running' = [running EXCEPT ![i] = IF @ = f[1] THEN None ELSE @]
  /\ UNCHANGED turn

\* The fetches a request started end with it, and nobody is told.
GiveUpSilently(r) ==
  /\ req[r].at = "fetching"
  /\ req' = Answers(r, "gone")
  /\ fetch' = [f \in Fetches |-> IF f[1] = r THEN "none" ELSE fetch[f]]
  /\ running' = [i \in Items |-> IF running[i] = r THEN None ELSE running[i]]
  /\ UNCHANGED turn

\* The entry leaves with the request that made it.
GiveUpForgetting(r) ==
  /\ req[r].at = "fetching"
  /\ req' = Answers(r, "gone")
  /\ running' = [i \in Items |-> IF running[i] = r THEN None ELSE running[i]]
  /\ UNCHANGED <<fetch, turn>>

\* A request is cancelled while it waits; its fetches go on.
GiveUp(r) ==
  /\ req[r].at = "fetching"
  /\ req' = Answers(r, "gone")
  /\ UNCHANGED <<fetch, running, turn>>

-----------------------------------------------------------------------------
(* A fetch *)

TakeSlot(f) ==
  /\ fetch[f] = "queued" /\ Cardinality(SlotsTaken) < MaxItemFetches
  /\ fetch' = [fetch EXCEPT ![f] = "connecting"]
  /\ UNCHANGED <<req, running, turn>>

\* The connection is held over the call to the source.
Connect(f) ==
  /\ fetch[f] = "connecting" /\ Held < PoolSize
  /\ fetch' = [fetch EXCEPT ![f] = "upstream"]
  /\ UNCHANGED <<req, running, turn>>

\* The pool has nothing to give in time, the source answers, or the database fails;
\* the callback takes the entry away, and whoever waits has the outcome.
EndFetch(f) ==
  /\ \E e \in Ends :
       /\ fetch[f] = "upstream" \/ (fetch[f] = "connecting" /\ e = "broken")
       /\ req' = Deliver(f, e, req)
  /\ fetch' = [fetch EXCEPT ![f] = "none"]
  /\ running' = [running EXCEPT ![f[2]] = IF @ = f[1] THEN None ELSE @]
  /\ UNCHANGED turn

-----------------------------------------------------------------------------
(* A request has what it waited for *)

Ended(r, ends) == {i \in Named(r) : req[r].got[i] \in ends}
AllOver(r) == \A i \in Named(r) : req[r].got[i] \notin Reqs
Failed(r) == Ended(r, {"refused", "broken", "cancelled"})

\* Tiles and band lists and crops answer the first failure that comes; a mosaic, a
\* scene order and a measure wait for all of their items and answer in the order of
\* the ids.  The cache failing is a 503 for a mosaic and an order.
FailureOf(r, i) ==
  IF req[r].got[i] = "broken" /\ req[r].kind \in {"mosaic", "order"} THEN "no cache"
  ELSE req[r].got[i]

AnswerFailure(r) ==
  /\ req[r].at = "fetching" /\ Failed(r) # {}
  /\ IF req[r].kind \in {"mosaic", "order", "measure"}
     THEN AllOver(r) /\ req' = Answers(r, FailureOf(r, Min(Failed(r))))
     ELSE \E i \in Failed(r) : req' = Answers(r, FailureOf(r, i))
  /\ UNCHANGED <<fetch, running, turn>>

HasItems(r) == req[r].at = "fetching" /\ Ended(r, {"item"}) = Named(r)

\* The rules that need the items: an asset the item lacks, a host the dataset does
\* not declare, two overpasses, no scene in the tile, bands that do not fit.
RefuseItems(r) ==
  /\ HasItems(r)
  /\ req' = Answers(r, "items")
  /\ UNCHANGED <<fetch, running, turn>>

\* What a request does next once its items passed those rules.
AfterItems == [tile |-> "reading", mosaic |-> "reading", statistics |-> "caching",
               measure |-> "caching"]

TooMany(r) == req[r].kind = "measure" /\ Cardinality(Named(r)) > MaxMeasure

GoOn(r) ==
  /\ HasItems(r) /\ req[r].kind # "crop"
  /\ req' = IF TooMany(r) THEN Answers(r, "too many")
            ELSE IF req[r].kind \in DOMAIN AfterItems
            THEN [req EXCEPT ![r].at = AfterItems[req[r].kind], ![r].got = Idle]
            ELSE Answers(r, "ok")
  /\ UNCHANGED <<fetch, running, turn>>

-----------------------------------------------------------------------------
(* The caches of statistics *)

\* The statistics of an asset hold their connection until the answer, the measure of
\* an area takes one for each look and each write.
TakeConnection(r) ==
  /\ req[r].at \in {"caching", "storing"} /\ Held < PoolSize
  /\ req' = [req EXCEPT ![r].conn = TRUE,
       ![r].at = IF @ = "storing" THEN "stored" ELSE IF req[r].kind = "measure" THEN "looking" ELSE "reading"]
  /\ UNCHANGED <<fetch, running, turn>>

\* No connection in time: the statistics fail, a measure does without the cache.
NoConnection(r) ==
  /\ req[r].at \in {"caching", "storing"}
  /\ req' = IF req[r].kind = "statistics" THEN Answers(r, "broken")
            ELSE IF req[r].at = "storing" THEN Answers(r, "ok")
            ELSE [req EXCEPT ![r].at = "reading"]
  /\ UNCHANGED <<fetch, running, turn>>

Looked(r) ==
  /\ req[r].at \in {"looking", "stored"}
  /\ \/ req[r].at = "looking"
        /\ req' = [req EXCEPT ![r].at = "reading", ![r].conn = FALSE]
     \/ req' = Answers(r, "ok")
  /\ UNCHANGED <<fetch, running, turn>>

\* Reading in a thread, twice at most; what a measure read is stored.
Read(r) ==
  /\ req[r].at = "reading"
  /\ \/ req' = Answers(r, "unreadable")
     \/ IF req[r].kind = "measure" THEN req' = [req EXCEPT ![r].at = "storing"]
        ELSE req' = Answers(r, "ok")
  /\ UNCHANGED <<fetch, running, turn>>

-----------------------------------------------------------------------------
(* The crop *)

Touched(groups) == SelectSeq(groups, LAMBDA g : g \cap Touching # {})
Survivors(r) == Touched(req[r].groups)
Scenes(r) == (UNION ToSet(Survivors(r))) \cap Touching
\* One file per group that stays: the groups weigh together.
Files(r) == Len(Survivors(r))
FilesOfFirstGroup(r) == IF Survivors(r) = <<>> THEN 0 ELSE 1

LargeByFirstGroup(r) == FilesOfFirstGroup(r) >= LargeFrom
Large(r) == Files(r) >= LargeFrom

JudgeCrop(r) ==
  /\ HasItems(r) /\ req[r].kind = "crop"
  /\ CASE Survivors(r) = <<>> -> req' = Answers(r, "outside") /\ turn' = turn
       [] Survivors(r) # <<>>
            /\ (Cardinality(Scenes(r)) > MaxCropItems \/ Files(r) > MaxCropFiles) ->
          req' = Answers(r, "too large") /\ turn' = turn
       [] OTHER ->
          \/ ~Large(r) /\ req' = [req EXCEPT ![r].at = "building", ![r].got = Idle] /\ turn' = turn
          \/ Large(r) /\ turn # None /\ req' = Answers(r, "busy") /\ turn' = turn
          \/ Large(r) /\ turn = None /\ req' = [req EXCEPT ![r].at = "building", ![r].got = Idle] /\ turn' = r
  /\ UNCHANGED <<fetch, running>>

\* The archive is written and read back in a thread; the turn ends with it, however.
Build(r) ==
  /\ req[r].at = "building"
  /\ \E a \in {"ok", "unreadable"} : req' = Answers(r, a)
  /\ turn' = IF turn = r THEN None ELSE turn
  /\ UNCHANGED <<fetch, running>>

-----------------------------------------------------------------------------
RequestStep(r) ==
  \/ BeginFetch(r) \/ AnswerFailure(r) \/ GoOn(r) \/ JudgeCrop(r)
  \/ TakeConnection(r) \/ NoConnection(r) \/ Looked(r) \/ Read(r) \/ Build(r)
FetchStep(f) == TakeSlot(f) \/ Connect(f) \/ EndFetch(f)

Requests ==
  \/ \E r \in Reqs : RequestStep(r) \/ RefuseWords(r) \/ RefuseItems(r) \/ GiveUp(r)
  \/ \E f \in Fetches : FetchStep(f)

\* The threads that read results share nothing with these requests.
ProcessVars == <<tilerVars, resVars>>

ProcessInit ==
  \E w \in Workloads :
    /\ TilerInit(w.asked)
    /\ ResInit
    /\ \A c \in Calls : call[c].at = "idle" <=> w.results

ProcessNext ==
  \/ Requests /\ UNCHANGED resVars
  \/ ResNext /\ UNCHANGED tilerVars

ProcessSpec ==
  /\ ProcessInit /\ [][ProcessNext]_ProcessVars
  /\ \A r \in Reqs : WF_ProcessVars(RequestStep(r) /\ UNCHANGED resVars)
  /\ \A f \in Fetches : WF_ProcessVars(FetchStep(f) /\ UNCHANGED resVars)

-----------------------------------------------------------------------------
(* Properties *)

Live(f) == fetch[f] \in {"queued", "connecting", "upstream"}

\* Whatever requests come, leave and fail, an item has one running fetch at most among
\* the requests that share them, and no more than the limit run at once.
FetchesShared ==
  /\ \A f, g \in Fetches :
       Live(f) /\ Live(g) /\ Shared(f) /\ Shared(g) /\ f[2] = g[2] => f = g
  /\ Cardinality({f \in Fetches : Shared(f) /\ fetch[f] = "upstream"}) <= MaxItemFetches

\* A request that gives up takes nothing from the others that wait for its fetch.
LeaversHarmNobody == \A r \in Reqs : req[r].answer # "cancelled"

\* Two large crops are never in memory at once, weighed with all of their groups.
LargeCropAlone ==
  Cardinality({r \in Reqs : req[r].at = "building" /\ Files(r) >= LargeFrom}) <= 1

\* What requests share harms none of them: fetches, their places and the memory of large crops.
SharingHarmsNobody == FetchesShared /\ LeaversHarmNobody /\ LargeCropAlone

\* Every request is answered, whoever leaves, however few connections there are.
EveryoneAnswered == <>(\A r \in Reqs : req[r].at = "answered")

\* "Item fetches at the source at the same time, in the whole process".
FetchesBounded == Cardinality({f \in Fetches : fetch[f] = "upstream"}) <= MaxItemFetches
=============================================================================
