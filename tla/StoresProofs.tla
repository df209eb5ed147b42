---------------------------- MODULE StoresProofs ----------------------------
(***************************************************************************)
(* What the catalogue, the registry and the object store keep, for any     *)
(* number of processes, datasets, releases and tile lists, for any entries *)
(* of a registry, and for any services, buckets, results and files.        *)
(*                                                                         *)
(* Loads register one after another, because two releases share a dataset  *)
(* and the row of its collection is locked.  Runs do overlap; what each    *)
(* has come to is, tile by tile, what it wants, or a run that committed    *)
(* since it began has decided otherwise about the tile.  Rows inserted and *)
(* rows deleted are locked, so no two runs have the same row in hand.      *)
(*                                                                         *)
(* What the routes need of an entry follows from what the checks of it and *)
(* of its registry demand, question by question.                           *)
(*                                                                         *)
(* In the object store a request that was given up may still be carried    *)
(* out later.  The invariant of the uploads says that such a request can   *)
(* harm only its own result, and only a result that is being deleted; the  *)
(* one of the set-up says which pairs of key and secret belong together,   *)
(* and that a request of the set-up keeps what those before it achieved.   *)
(***************************************************************************)
EXTENDS Catalog, DatasetBook, ObjectStore, FiniteSetTheorems, TLAPS

LoadTasks ==
  [at : {"migrating", "registered", "removed"}, release : DOMAIN Releases,
   pending : SUBSET Versions, made : SUBSET Versions, gone : SUBSET Datasets]

RunTasks ==
  [at : {"asking", "listed", "warned", "fetched", "writing", "deleting", "unchanged"},
   data : DOMAIN Listed, started : Nat, known : Nat \cup {Nothing}, version : Nat \cup {Nothing},
   listed : SUBSET Tiles, withheld : SUBSET Tiles, new : SUBSET Tiles, gone : SUBSET Tiles, seen : Nat]

RunRows ==
  [data : DOMAIN Listed, started : Nat, status : {"loaded", "unchanged"}, version : Nat \cup {Nothing}, held : SUBSET Tiles,
   seen : Nat]

\* Among the runs recorded for a dataset one started last.
HasLatest(d) == RowsOf(d) # {} => \E i \in RowsOf(d) : \A j \in RowsOf(d) : rows[j].started <= rows[i].started

TypeOK ==
  /\ release \in [now : DOMAIN Releases, deploys : Nat]
  /\ source \in [DOMAIN Listed -> [version : Nat, withheld : SUBSET Tiles, there : SUBSET Tiles]]
  /\ \A d \in DOMAIN Listed : source[d].version \in 1..Len(Listed[d])
  /\ items \in [Datasets -> SUBSET Tiles]
  /\ rows \in Seq(RunRows) /\ \A d \in DOMAIN Listed : HasLatest(d)
  /\ task \in [Tasks -> {Idle} \cup LoadTasks \cup RunTasks]
  /\ todo \in [Tasks -> SUBSET Tiles]
  /\ count \in [runs : Nat, loads : Nat]

----------------------------------------------------------------------------
(* Loads.                                                                  *)

Registered(p) == task[p].at \in {"registered", "removed"}

OneRegisters == \A p, q \in Tasks : Registered(p) /\ Registered(q) => p = q

(* What a load has made is nobody else's, and every file is accounted for: *)
(* applied, to be applied, or made.                                        *)
LoadFits(p) ==
  /\ Registered(p) => task[p].pending = {}
  /\ task[p].at = "removed" => task[p].gone = Gone(p)
  /\ \A v \in task[p].made : applied[v] = Nothing /\ Files(task[p].release)[v] # Nothing
  /\ \A v \in task[p].pending : Files(task[p].release)[v] # Nothing
  /\ \A v \in Versions :
       Files(task[p].release)[v] \in {Nothing, applied[v]} \/ v \in task[p].pending \/ v \in task[p].made

MadeApart == \A p, q \in Tasks : p # q /\ Loading(p) /\ Loading(q) => task[p].made \cap task[q].made = {}

LoadsInv ==
  /\ OneRegisters
  /\ \A p \in Tasks : Loading(p) => LoadFits(p)
  /\ MadeApart
  /\ TheLastLoadHolds

----------------------------------------------------------------------------
(* Runs.                                                                   *)

Writes(p) == task[p].at \in {"writing", "deleting"}

(* No two runs of a dataset have a row in hand.                            *)
HandsApart ==
  \A p, q \in Tasks : p # q /\ Writes(p) /\ Writes(q) /\ task[p].data = task[q].data =>
    task[p].new \cap task[q].new = {} /\ task[p].gone \cap task[q].gone = {}

(* Nobody writes to what a load takes away.                                *)
NoneTakenAway ==
  \A p, q \in Tasks : Writes(p) /\ task[q].at = "removed" => task[p].data \notin task[q].gone

(* A run that committed since this one began has decided otherwise.        *)
Overruled(p, t) ==
  \E k \in LoadedRows(task[p].data) : task[p].seen < k /\ (t \in rows[k].held) # (t \in Held(p))

RunFits(p) ==
  /\ task[p].seen <= Len(rows)
  /\ ~Writes(p) => task[p].new = {} /\ task[p].gone = {}
  /\ task[p].at = "unchanged" => task[p].known \in Nat

(* What a run that writes has in hand, and how far it has come: every tile *)
(* is as it wants it, or still to be done, or overruled.                   *)
TilesFit(p) ==
  LET there == items[task[p].data] IN
  /\ task[p].new \subseteq Held(p) /\ task[p].new \cap there = {} /\ task[p].gone \subseteq there \ Held(p)
  /\ \A t \in Held(p) :
       t \in task[p].new \/ t \in there \/ Overruled(p, t) \/ (task[p].at = "writing" /\ t \in todo[p])
  /\ task[p].at = "writing" => task[p].gone = {} /\ todo[p] \subseteq Held(p)
  /\ task[p].at = "deleting" =>
       /\ todo[p] \subseteq there \ Held(p)
       /\ \A t \in there \ Held(p) : t \in task[p].gone \/ t \in todo[p] \/ Overruled(p, t)

RunsInv ==
  /\ HandsApart
  /\ NoneTakenAway
  /\ \A p \in Tasks : Busy(p) /\ ~Loading(p) => RunFits(p)
  /\ \A p \in Tasks : Writes(p) => TilesFit(p)
  /\ ItemsAsLastWritten

----------------------------------------------------------------------------
(* Runs of a dataset that follow one another.                              *)

IsLastRow(d, m) == m \in RowsOf(d) /\ \A j \in RowsOf(d) : j <= m

OneRun == \A p, q \in Tasks : Busy(p) /\ Busy(q) /\ ~Loading(p) /\ ~Loading(q) /\ task[p].data = task[q].data => p = q

InOrder(d) ==
  /\ \A i, j \in RowsOf(d) : i < j => rows[i].started < rows[j].started
  /\ \A i \in RowsOf(d) : rows[i].started <= count.runs
  /\ RowsOf(d) # {} => \E m \in RowsOf(d) : IsLastRow(d, m)

(* A run knows nothing, or the version of the last row there is; no row    *)
(* has come since it began.                                                *)
RunFollows(p) ==
  /\ task[p].started <= count.runs
  /\ \A i \in RowsOf(task[p].data) : rows[i].started < task[p].started /\ i <= task[p].seen
  /\ task[p].known # Nothing => \E m \in RowsOf(task[p].data) : IsLastRow(task[p].data, m) /\ task[p].known = rows[m].version

(* Row i stands on row j: loaded, of the same version as all between.      *)
StandsOn(i, j) ==
  /\ rows[j].data = rows[i].data /\ rows[j].status = "loaded"
  /\ \A k \in j..i : rows[k].data = rows[i].data => rows[k].version = rows[i].version
  /\ IsLastRow(rows[i].data, i) => items[rows[i].data] = rows[j].held \/ TakenAway(rows[i].data)

AloneInv ==
  habit = "alone" =>
    /\ OneRun
    /\ \A d \in DOMAIN Listed : InOrder(d)
    /\ \A p \in Tasks : Busy(p) /\ ~Loading(p) => RunFollows(p)
    /\ \A i \in DOMAIN rows : \E j \in 1..i : StandsOn(i, j)

Inv == TypeOK /\ LoadsInv /\ RunsInv /\ AloneInv

-----------------------------------------------------------------------------
\* Types

LEMMA Kinds ==
  ASSUME TypeOK, NEW p \in Tasks
  PROVE  /\ Loading(p) => task[p] \in LoadTasks /\ Busy(p)
         /\ Busy(p) /\ ~Loading(p) => task[p] \in RunTasks
BY DEF TypeOK, Loading, Busy, Idle, LoadTasks, RunTasks

\* What becomes of the tasks when one moves.
LEMMA TaskMoves ==
  ASSUME TypeOK, NEW p \in Tasks, NEW z, task' = [task EXCEPT ![p] = z]
  PROVE  /\ task'[p] = z
         /\ \A q \in Tasks \ {p} : task'[q] = task[q]
         /\ z \in {Idle} \cup LoadTasks \cup RunTasks => task' \in [Tasks -> {Idle} \cup LoadTasks \cup RunTasks]
BY DEF TypeOK

\* An index of a sequence of tile lists.
LEMMA TileLists ==
  ASSUME NEW d \in DOMAIN Listed
  PROVE  /\ Listed[d] \in Seq(SUBSET Tiles) /\ Len(Listed[d]) \in Nat /\ 1 \in 1..Len(Listed[d])
         /\ \A k \in 1..Len(Listed[d]) : Listed[d][k] \in SUBSET Tiles /\ Listed[d][k] \in Range(Listed[d])
         /\ UNION Range(Listed[d]) \subseteq Tiles
         /\ d \in Datasets
<1>1. Listed[d] \in Seq(SUBSET Tiles) /\ Listed[d] # <<>> /\ d \in Datasets
  BY CatalogAssumption
<1>2. Len(Listed[d]) \in Nat /\ Len(Listed[d]) # 0 /\ DOMAIN Listed[d] = 1..Len(Listed[d])
  BY <1>1
<1>3. \A k \in 1..Len(Listed[d]) : Listed[d][k] \in SUBSET Tiles
  BY <1>1, <1>2
<1> QED
  BY <1>1, <1>2, <1>3 DEF Range

LEMMA LatestIsThere ==
  ASSUME TypeOK, NEW d \in DOMAIN Listed
  PROVE  /\ \A i \in RowsOf(d) : i \in 1..Len(rows) /\ rows[i] \in RunRows
         /\ LastVersion(d) \in Nat \cup {Nothing}
<1>1. \A i \in RowsOf(d) : i \in 1..Len(rows) /\ rows[i] \in RunRows
  BY DEF TypeOK, RowsOf
<1>2. CASE RowsOf(d) # {}
  BY <1>1, <1>2 DEF TypeOK, HasLatest, LastVersion, RunRows
<1> QED
  BY <1>1, <1>2 DEF LastVersion

LEMMA TypeInit == Init => TypeOK
<1> SUFFICES ASSUME Init PROVE TypeOK
  OBVIOUS
<1>1. release \in [now : DOMAIN Releases, deploys : Nat]
  BY DEF Init
<1>2. source \in [DOMAIN Listed -> [version : Nat, withheld : SUBSET Tiles, there : SUBSET Tiles]]
  BY TileLists DEF Init
<1>3. ASSUME NEW d \in DOMAIN Listed PROVE source[d].version \in 1..Len(Listed[d])
  BY TileLists DEF Init
<1>4. items \in [Datasets -> SUBSET Tiles] /\ rows \in Seq(RunRows) /\ \A d \in DOMAIN Listed : HasLatest(d)
  BY DEF Init, HasLatest, RowsOf
<1>5. /\ task \in [Tasks -> {Idle} \cup LoadTasks \cup RunTasks] /\ todo \in [Tasks -> SUBSET Tiles]
      /\ count \in [runs : Nat, loads : Nat]
  BY DEF Init
<1> QED
  BY <1>1, <1>2, <1>3, <1>4, <1>5 DEF TypeOK

\* The processes of load and materialize, and the world around them.
WorldStep ==
  \/ \E r \in DOMAIN Releases : Deploy(r)
  \/ \E d \in DOMAIN Listed : NewList(d) \/ \E t \in UNION Range(Listed[d]) : Withdraw(d, t)

TaskStep(p) ==
  \/ StartLoad(p) \/ ApplyNext(p) \/ WriteCollections(p) \/ RemoveGone(p) \/ CommitLoad(p) \/ Fail(p)
  \/ \E d \in DOMAIN Listed, force \in BOOLEAN : StartRun(p, d, force)
  \/ Ask(p) \/ ReadWithheld(p) \/ ReadBucket(p) \/ Write(p) \/ DeleteRest(p) \/ CommitRun(p) \/ CommitUnchanged(p)
  \/ \E t \in todo[p] : WriteTile(p, t) \/ DeleteTile(p, t)

LEMMA StepCases == Next => WorldStep \/ \E p \in Tasks : TaskStep(p)
BY DEF Next, LoadStep, RunStep, WorldStep, TaskStep

LEMMA WorldKeeps == WorldStep => UNCHANGED <<applied, effects, collections, items, rows, task, todo, habit, count, loadedBy>>
BY DEF WorldStep, Deploy, NewList, Withdraw, tables

\* A task that moves on keeps its kind.
LEMMA TaskTypes ==
  ASSUME TypeOK, NEW p \in Tasks, TaskStep(p)
  PROVE  \E z \in {Idle} \cup LoadTasks \cup RunTasks : task' = [task EXCEPT ![p] = z]
<1> DEFINE Done == \E z \in {Idle} \cup LoadTasks \cup RunTasks : task' = [task EXCEPT ![p] = z]
<1>0. ASSUME Abandon(p) PROVE Done
  BY <1>0 DEF Abandon
<1>1. ASSUME StartLoad(p) PROVE Done
  BY <1>1 DEF StartLoad, TypeOK, LoadTasks, Pending
<1>2. ASSUME ApplyNext(p) PROVE Done
  <2>1. task[p] \in LoadTasks
    BY <1>2, Kinds DEF ApplyNext, Loading
  <2>2. PICK v \in task[p].pending : Abandon(p) \/ task' = [task EXCEPT ![p].pending = @ \ {v}, ![p].made = @ \cup {v}]
    BY <1>2 DEF ApplyNext
  <2>3. CASE task' = [task EXCEPT ![p].pending = @ \ {v}, ![p].made = @ \cup {v}]
    <3> DEFINE z == [task[p] EXCEPT !.pending = @ \ {v}, !.made = @ \cup {v}]
    <3>1. task' = [task EXCEPT ![p] = z]
      BY <2>3, <2>1 DEF TypeOK, LoadTasks
    <3>2. z \in LoadTasks
      BY <2>1 DEF LoadTasks
    <3> QED
      BY <3>1, <3>2
  <2> QED
    BY <2>2, <2>3, <1>0
<1>3. ASSUME WriteCollections(p) PROVE Done
  <2>1. task[p] \in LoadTasks /\ task' = [task EXCEPT ![p] = [@ EXCEPT !.at = "registered"]]
    BY <1>3, Kinds DEF WriteCollections, Loading, Go
  <2>2. [task[p] EXCEPT !.at = "registered"] \in LoadTasks
    BY <2>1 DEF LoadTasks
  <2> QED
    BY <2>1, <2>2 DEF TypeOK
<1>4. ASSUME RemoveGone(p) PROVE Done
  <2>1. task[p] \in LoadTasks /\ task' = [task EXCEPT ![p].at = "removed", ![p].gone = Gone(p)]
    BY <1>4, Kinds DEF RemoveGone, Loading
  <2> DEFINE z == [task[p] EXCEPT !.at = "removed", !.gone = Gone(p)]
  <2>0. Gone(p) \in SUBSET Datasets
    BY DEF Gone
  <2>2. z \in LoadTasks
    BY <2>0, <2>1 DEF LoadTasks
  <2>3. task' = [task EXCEPT ![p] = z]
    BY <2>1 DEF TypeOK, LoadTasks
  <2> QED
    BY <2>2, <2>3
<1>5. ASSUME CommitLoad(p) PROVE Done
  BY <1>5, <1>0 DEF CommitLoad
<1>6. ASSUME Fail(p) PROVE Done
  BY <1>6, <1>0 DEF Fail
<1>7. ASSUME NEW d \in DOMAIN Listed, NEW force \in BOOLEAN, StartRun(p, d, force) PROVE Done
  <2> DEFINE k == IF force THEN Nothing ELSE LastVersion(d)
  <2>1. k \in Nat \cup {Nothing}
    BY LatestIsThere
  <2> HIDE DEF k
  <2> DEFINE z == [at |-> "asking", data |-> d, started |-> count.runs + 1, known |-> k,
                   version |-> Nothing, listed |-> {}, withheld |-> {}, new |-> {}, gone |-> {}, seen |-> Len(rows)]
  <2>2. z \in RunTasks
    BY <2>1 DEF TypeOK, RunTasks
  <2>3. task' = [task EXCEPT ![p] = z]
    BY <1>7 DEF StartRun, k
  <2> QED
    BY <2>2, <2>3
<1>8. ASSUME Ask(p) PROVE Done
  <2>1. task[p] \in RunTasks
    BY <1>8, Kinds DEF Ask, Loading, Busy
  <2>2. CASE task' = [task EXCEPT ![p] = [@ EXCEPT !.at = "unchanged"]]
    <3>1. [task[p] EXCEPT !.at = "unchanged"] \in RunTasks
      BY <2>1 DEF RunTasks
    <3> QED
      BY <3>1, <2>2
  <2> DEFINE d == task[p].data
  <2>3. CASE task' = [task EXCEPT ![p].at = "listed", ![p].version = source[d].version, ![p].listed = Listed[d][source[d].version]]
    <3> DEFINE z == [task[p] EXCEPT !.at = "listed", !.version = source[d].version, !.listed = Listed[d][source[d].version]]
    <3>1. task' = [task EXCEPT ![p] = z]
      BY <2>3, <2>1 DEF TypeOK, RunTasks
    <3>2. d \in DOMAIN Listed
      BY <2>1 DEF RunTasks
    <3>3. source[d].version \in Nat /\ Listed[d][source[d].version] \in SUBSET Tiles
      BY <3>2, TileLists DEF TypeOK
    <3>4. z \in RunTasks
      BY <2>1, <3>3 DEF RunTasks
    <3> QED
      BY <3>1, <3>4
  <2> QED
    BY <1>8, <2>2, <2>3 DEF Ask, Go
<1>9. ASSUME ReadWithheld(p) PROVE Done
  <2>1. task[p] \in RunTasks
    BY <1>9, Kinds DEF ReadWithheld, Loading, Busy
  <2> DEFINE z == [task[p] EXCEPT !.at = "warned", !.withheld = task[p].listed \cap source[task[p].data].withheld]
  <2>2. task' = [task EXCEPT ![p] = z]
    BY <1>9, <2>1 DEF ReadWithheld, TypeOK, RunTasks
  <2>3. z \in RunTasks
    BY <2>1 DEF RunTasks
  <2> QED
    BY <2>2, <2>3
<1>10. ASSUME ReadBucket(p) PROVE Done
  <2>1. task[p] \in RunTasks
    BY <1>10, Kinds DEF ReadBucket, Loading, Busy
  <2> DEFINE left == (task[p].listed \ source[task[p].data].there) \cup task[p].withheld
             z == [task[p] EXCEPT !.at = "fetched", !.withheld = left]
  <2>2. CASE task' = [task EXCEPT ![p].at = "fetched", ![p].withheld = left]
    <3>1. task' = [task EXCEPT ![p] = z]
      BY <2>2, <2>1 DEF TypeOK, RunTasks
    <3>2. z \in RunTasks
      BY <2>1 DEF RunTasks
    <3> QED
      BY <3>1, <3>2
  <2> QED
    BY <1>10, <1>0, <2>2 DEF ReadBucket
<1>11. ASSUME Write(p) \/ DeleteRest(p) PROVE Done
  <2>1. task[p] \in RunTasks
    BY <1>11, Kinds DEF Write, DeleteRest, Loading, Busy
  <2>2. \A a \in {"writing", "deleting"} : [task[p] EXCEPT !.at = a] \in RunTasks
    BY <2>1 DEF RunTasks
  <2>3. \A a \in {"writing", "deleting"} : task' = [task EXCEPT ![p].at = a] => task' = [task EXCEPT ![p] = [task[p] EXCEPT !.at = a]]
    BY DEF TypeOK
  <2>4. Abandon(p) \/ \E a \in {"writing", "deleting"} : task' = [task EXCEPT ![p].at = a]
    BY <1>11 DEF Write, DeleteRest
  <2> QED
    BY <1>0, <2>2, <2>3, <2>4
<1>12. ASSUME NEW t \in todo[p], WriteTile(p, t) \/ DeleteTile(p, t) PROVE Done
  <2>1. task[p] \in RunTasks /\ t \in Tiles
    BY <1>12, Kinds DEF WriteTile, DeleteTile, Loading, Busy, TypeOK
  <2>2. CASE WriteTile(p, t)
    <3> DEFINE new == IF t \in items[task[p].data] THEN task[p].new ELSE task[p].new \cup {t}
               z == [task[p] EXCEPT !.new = new]
    <3>1. task' = [task EXCEPT ![p] = z]
      BY <2>1, <2>2 DEF WriteTile, TypeOK, RunTasks
    <3>2. new \subseteq Tiles
      BY <2>1 DEF RunTasks
    <3> HIDE DEF new
    <3>3. z \in RunTasks
      BY <2>1, <3>2 DEF RunTasks
    <3> QED
      BY <3>1, <3>3
  <2>3. CASE DeleteTile(p, t)
    <3> DEFINE z == [task[p] EXCEPT !.gone = task[p].gone \cup {t}]
    <3>1. task' = [task EXCEPT ![p] = z]
      BY <2>1, <2>3 DEF DeleteTile, TypeOK, RunTasks
    <3>2. z \in RunTasks
      BY <2>1 DEF RunTasks
    <3> QED
      BY <3>1, <3>2
  <2> QED
    BY <1>12, <2>2, <2>3
<1>13. ASSUME CommitRun(p) PROVE Done
  BY <1>13 DEF CommitRun
<1>14. ASSUME CommitUnchanged(p) PROVE Done
  BY <1>14, <1>0 DEF CommitUnchanged
<1> QED
  BY <1>1, <1>2, <1>3, <1>4, <1>5, <1>6, <1>7, <1>8, <1>9, <1>10, <1>11, <1>12, <1>13, <1>14 DEF TaskStep

\* What is still to do of a statement.
LEMMA TodoTypes ==
  ASSUME TypeOK, NEW p \in Tasks, TaskStep(p)
  PROVE  /\ todo' \in [Tasks -> SUBSET Tiles]
         /\ ~CommitRun(p) => \A q \in Tasks \ {p} : todo'[q] = todo[q]
<1>1. Held(p) \subseteq Tiles \/ ~Write(p)
  BY Kinds DEF Write, Held, Busy, Loading, RunTasks
<1>2. Rest(p) \subseteq Tiles \/ ~DeleteRest(p)
  <2>1. DeleteRest(p) => task[p] \in RunTasks
    BY Kinds DEF DeleteRest, Busy, Loading
  <2>2. DeleteRest(p) => task[p].data \in Datasets
    BY <2>1, TileLists DEF RunTasks
  <2> QED
    BY <2>2 DEF Rest, TypeOK
<1>3. CASE CommitRun(p)
  BY <1>3 DEF CommitRun, TypeOK
<1>4. CASE ~CommitRun(p)
  <2>1. \/ UNCHANGED todo
        \/ \E x \in SUBSET Tiles : todo' = [todo EXCEPT ![p] = x]
    BY <1>1, <1>2, <1>4 DEF TypeOK, TaskStep, StartLoad, ApplyNext, WriteCollections, RemoveGone, CommitLoad, Fail, StartRun,
       Ask, ReadWithheld, ReadBucket, Write, DeleteRest, CommitUnchanged, WriteTile, DeleteTile, Abandon, Go
  <2> QED
    BY <2>1 DEF TypeOK
<1> QED
  BY <1>3, <1>4

\* A row more: it is the last one, and those before it stay.
LEMMA RowAppended ==
  ASSUME TypeOK, NEW r \in RunRows, rows' = Append(rows, r)
  PROVE  /\ rows' \in Seq(RunRows) /\ Len(rows) \in Nat /\ Len(rows') = Len(rows) + 1
         /\ rows'[Len(rows) + 1] = r
         /\ \A i \in 1..Len(rows) : rows'[i] = rows[i]
         /\ \A d \in DOMAIN Listed : RowsOf(d)' = RowsOf(d) \cup (IF r.data = d THEN {Len(rows) + 1} ELSE {})
<1>1. /\ rows \in Seq(RunRows) /\ rows' \in Seq(RunRows) /\ Len(rows) \in Nat /\ Len(rows') = Len(rows) + 1
      /\ rows'[Len(rows) + 1] = r /\ \A i \in 1..Len(rows) : rows'[i] = rows[i]
      /\ DOMAIN rows = 1..Len(rows) /\ DOMAIN rows' = 1..(Len(rows) + 1)
  BY DEF TypeOK
<1>2. ASSUME NEW d \in DOMAIN Listed
      PROVE  RowsOf(d)' = RowsOf(d) \cup (IF r.data = d THEN {Len(rows) + 1} ELSE {})
  <2>1. RowsOf(d)' = {i \in 1..(Len(rows) + 1) : rows'[i].data = d} /\ RowsOf(d) = {i \in 1..Len(rows) : rows[i].data = d}
    BY <1>1 DEF RowsOf
  <2> QED
    BY <1>1, <2>1
<1> QED
  BY <1>1, <1>2

LEMMA LatestAppended ==
  ASSUME TypeOK, NEW r \in RunRows, rows' = Append(rows, r), NEW d \in DOMAIN Listed
  PROVE  HasLatest(d)'
<1> DEFINE n == Len(rows) + 1
<1>1. /\ Len(rows) \in Nat /\ rows'[n] = r /\ \A i \in 1..Len(rows) : rows'[i] = rows[i]
      /\ RowsOf(d)' = RowsOf(d) \cup (IF r.data = d THEN {n} ELSE {})
  BY RowAppended
<1>2. \A i \in RowsOf(d) : i \in 1..Len(rows) /\ rows[i] \in RunRows /\ rows'[i] = rows[i] /\ rows[i].started \in Nat
  BY <1>1, LatestIsThere DEF RunRows
<1>3. r.started \in Nat
  BY DEF RunRows
<1> HIDE DEF n
<1>4. CASE RowsOf(d) = {}
  <2>1. \A i, j \in RowsOf(d)' : i = n /\ j = n
    BY <1>1, <1>4
  <2>2. \A i, j \in RowsOf(d)' : rows'[j].started <= rows'[i].started
    <3>1. SUFFICES ASSUME NEW i \in RowsOf(d)', NEW j \in RowsOf(d)' PROVE rows'[j].started <= rows'[i].started
      OBVIOUS
    <3>2. rows'[i] = r /\ rows'[j] = r
      BY <1>1, <2>1
    <3>3. r.started <= r.started
      BY <1>3
    <3> QED
      BY <3>2, <3>3
  <2> QED
    BY <2>2 DEF HasLatest
<1>5. CASE RowsOf(d) # {}
  <2>1. PICK m \in RowsOf(d) : \A j \in RowsOf(d) : rows[j].started <= rows[m].started
    BY <1>5 DEF TypeOK, HasLatest
  <2>2. CASE r.data # d \/ r.started <= rows[m].started
    BY <1>1, <1>2, <1>3, <2>1, <2>2 DEF HasLatest
  <2>3. CASE r.data = d /\ ~(r.started <= rows[m].started)
    <3>1. \A j \in RowsOf(d)' : rows'[j].started <= rows'[n].started
      <4>1. SUFFICES ASSUME NEW j \in RowsOf(d)' PROVE rows'[j].started <= r.started
        BY <1>1
      <4>2. CASE j = n
        <5>1. rows'[j] = r
          BY <1>1, <4>2
        <5>2. r.started <= r.started
          BY <1>3
        <5> QED
          BY <5>1, <5>2
      <4>3. CASE j # n
        <5>1. j \in RowsOf(d) /\ m \in RowsOf(d)
          BY <1>1, <4>3
        <5>2. rows'[j].started = rows[j].started /\ rows[j].started \in Nat /\ rows[m].started \in Nat
          BY <1>2, <5>1
        <5>3. rows[j].started <= rows[m].started
          BY <2>1, <5>1
        <5> QED
          BY <1>3, <2>3, <5>2, <5>3
      <4> QED
        BY <4>2, <4>3
    <3> QED
      BY <1>1, <2>3, <3>1 DEF HasLatest
  <2> QED
    BY <2>2, <2>3
<1> QED
  BY <1>4, <1>5

\* A run that ends leaves a row.
LEMMA RowFits ==
  ASSUME TypeOK, NEW p \in Tasks, task[p] \in RunTasks, NEW s \in {"loaded", "unchanged"}, NEW v \in Nat \cup {Nothing}
  PROVE  /\ Row(p, s, v) \in RunRows
         /\ Row(p, s, v).data = task[p].data /\ Row(p, s, v).started = task[p].started
         /\ Row(p, s, v).status = s /\ Row(p, s, v).version = v /\ Row(p, s, v).held = Held(p)
         /\ Row(p, s, v).seen = task[p].seen
         /\ Held(p) \subseteq Tiles
BY DEF RunTasks, RunRows, Row, Held

LEMMA WorldTypes ==
  ASSUME TypeOK, WorldStep
  PROVE  TypeOK'
<1> DEFINE S == [version : Nat, withheld : SUBSET Tiles, there : SUBSET Tiles]
           Done == /\ release' \in [now : DOMAIN Releases, deploys : Nat] /\ source' \in [DOMAIN Listed -> S]
                   /\ \A d \in DOMAIN Listed : source'[d].version \in 1..Len(Listed[d])
<1>1. ASSUME NEW r \in DOMAIN Releases, Deploy(r) PROVE Done
  BY <1>1 DEF Deploy, TypeOK
<1>2. ASSUME NEW d \in DOMAIN Listed, NewList(d) PROVE Done
  <2> DEFINE n == source[d].version + 1
             more == source[d].there \cup (Listed[d][n] \ Listed[d][source[d].version])
             z == [source[d] EXCEPT !.version = n, !.there = more]
  <2>1. source[d] \in S /\ n \in 1..Len(Listed[d]) /\ n \in Nat
    BY <1>2, TileLists DEF NewList, TypeOK
  <2>2. source' = [source EXCEPT ![d] = z]
    BY <1>2, <2>1 DEF NewList, TypeOK
  <2>3. more \subseteq Tiles
    BY <2>1, TileLists
  <2> HIDE DEF n, more
  <2>4. z \in S /\ z.version = n
    BY <2>1, <2>3
  <2> HIDE DEF z
  <2> QED
    BY <1>2, <2>1, <2>2, <2>4 DEF NewList, TypeOK
<1>3. ASSUME NEW d \in DOMAIN Listed, NEW t \in UNION Range(Listed[d]), Withdraw(d, t) PROVE Done
  <2>1. t \in Tiles /\ source[d] \in S /\ release' = release
    BY <1>3, TileLists DEF Withdraw, TypeOK
  <2>2. CASE source' = [source EXCEPT ![d].withheld = @ \cup {t}]
    <3> DEFINE z == [source[d] EXCEPT !.withheld = @ \cup {t}]
    <3>1. z \in S /\ z.version = source[d].version
      BY <2>1
    <3>2. source' = [source EXCEPT ![d] = z]
      BY <2>2
    <3> QED
      BY <2>1, <3>1, <3>2 DEF TypeOK
  <2>3. CASE source' = [source EXCEPT ![d].there = @ \ {t}]
    <3> DEFINE z == [source[d] EXCEPT !.there = @ \ {t}]
    <3>1. z \in S /\ z.version = source[d].version
      BY <2>1
    <3>2. source' = [source EXCEPT ![d] = z]
      BY <2>3
    <3> QED
      BY <2>1, <3>1, <3>2 DEF TypeOK
  <2> QED
    BY <1>3, <2>2, <2>3 DEF Withdraw
<1>4. Done
  BY <1>1, <1>2, <1>3 DEF WorldStep
<1>5. UNCHANGED <<items, rows, task, todo, count>>
  BY WorldKeeps
<1>6. \A d \in DOMAIN Listed : HasLatest(d)'
  BY <1>5 DEF TypeOK, HasLatest, RowsOf
<1> QED
  BY <1>4, <1>5, <1>6 DEF TypeOK

\* Only the ends of a load and of a run write the tables, and only the starts count.
LEMMA TablesKept ==
  ASSUME NEW p \in Tasks, TaskStep(p)
  PROVE  /\ UNCHANGED <<release, source, habit>>
         /\ ~CommitLoad(p) => UNCHANGED <<applied, effects, collections, loadedBy>>
         /\ ~CommitLoad(p) /\ ~CommitRun(p) => UNCHANGED items
         /\ ~CommitRun(p) /\ ~CommitUnchanged(p) => UNCHANGED rows
         /\ ~StartLoad(p) /\ (\A d \in DOMAIN Listed, force \in BOOLEAN : ~StartRun(p, d, force)) => UNCHANGED count
<1>1. CASE CommitLoad(p)
  BY <1>1 DEF CommitLoad
<1>2. CASE CommitRun(p)
  BY <1>2 DEF CommitRun
<1>3. CASE CommitUnchanged(p)
  BY <1>3 DEF CommitUnchanged
<1>4. CASE StartLoad(p)
  BY <1>4 DEF StartLoad, tables
<1>5. ASSUME NEW d \in DOMAIN Listed, NEW force \in BOOLEAN, StartRun(p, d, force)
      PROVE  UNCHANGED <<release, source, habit, tables>> /\ ~(\A e \in DOMAIN Listed, f \in BOOLEAN : ~StartRun(p, e, f))
  BY <1>5 DEF StartRun
<1>6. CASE \/ ApplyNext(p) \/ WriteCollections(p) \/ RemoveGone(p) \/ Fail(p)
           \/ Ask(p) \/ ReadWithheld(p) \/ ReadBucket(p) \/ Write(p) \/ DeleteRest(p)
           \/ \E t \in todo[p] : WriteTile(p, t) \/ DeleteTile(p, t)
  <2>1. UNCHANGED <<release, source, habit, tables, count>>
    BY <1>6 DEF ApplyNext, WriteCollections, RemoveGone, Fail, Ask, ReadWithheld, ReadBucket, Write, DeleteRest, WriteTile, DeleteTile
  <2> QED
    BY <2>1 DEF tables
<1>7. CASE \E d \in DOMAIN Listed, force \in BOOLEAN : StartRun(p, d, force)
  BY <1>5, <1>7 DEF tables
<1> QED
  BY <1>1, <1>2, <1>3, <1>4, <1>6, <1>7 DEF TaskStep

\* What the end of a run writes.
LEMMA RunEnds ==
  ASSUME TypeOK, NEW p \in Tasks, CommitRun(p) \/ CommitUnchanged(p)
  PROVE  /\ task[p] \in RunTasks
         /\ \E r \in RunRows :
              /\ rows' = Append(rows, r) /\ r.data = task[p].data /\ r.started = task[p].started
              /\ CommitRun(p) => r.status = "loaded" /\ r.held = Held(p) /\ r.seen = task[p].seen
              /\ CommitUnchanged(p) => r.status = "unchanged" /\ r.version = task[p].known
         /\ CommitRun(p) => items' = [items EXCEPT ![task[p].data] = (@ \ task[p].gone) \cup task[p].new]
<1>1. task[p] \in RunTasks
  BY Kinds DEF CommitRun, CommitUnchanged, Loading, Busy
<1>2. task[p].version \in Nat \cup {Nothing} /\ task[p].known \in Nat \cup {Nothing}
  BY <1>1 DEF RunTasks
<1>3. CASE CommitRun(p)
  <2> DEFINE r == Row(p, "loaded", task[p].version)
  <2>1. r \in RunRows /\ r.data = task[p].data /\ r.started = task[p].started /\ r.status = "loaded" /\ r.held = Held(p)
        /\ r.seen = task[p].seen
    <3>1. Held(p) \subseteq Tiles
      BY <1>1 DEF RunTasks, Held
    <3> QED
      BY <1>1, <1>2, <3>1 DEF Row, RunRows, RunTasks
  <2>2. rows' = Append(rows, r) /\ ~CommitUnchanged(p)
    BY <1>3 DEF CommitRun, CommitUnchanged
  <2>3. items' = [items EXCEPT ![task[p].data] = (@ \ task[p].gone) \cup task[p].new]
    BY <1>3 DEF CommitRun
  <2> HIDE DEF r
  <2> QED
    BY <1>1, <2>1, <2>2, <2>3
<1>4. CASE CommitUnchanged(p)
  <2> DEFINE r == Row(p, "unchanged", task[p].known)
  <2>1. r \in RunRows /\ r.data = task[p].data /\ r.started = task[p].started /\ r.status = "unchanged"
        /\ r.version = task[p].known
    BY <1>1, <1>2, RowFits
  <2>2. rows' = Append(rows, r) /\ ~CommitRun(p)
    BY <1>4 DEF CommitRun, CommitUnchanged
  <2> HIDE DEF r
  <2> QED
    BY <1>1, <2>1, <2>2
<1> QED
  BY <1>3, <1>4

LEMMA TaskTypesKept ==
  ASSUME TypeOK, NEW p \in Tasks, TaskStep(p)
  PROVE  TypeOK'
<1>1. task' \in [Tasks -> {Idle} \cup LoadTasks \cup RunTasks]
  BY TaskTypes, TaskMoves
<1>2. items' \in [Datasets -> SUBSET Tiles]
  <2>1. CASE CommitLoad(p)
    BY <2>1 DEF CommitLoad, TypeOK
  <2>2. CASE CommitRun(p)
    <3>1. task[p].data \in DOMAIN Listed /\ task[p].new \subseteq Tiles
      BY <2>2, RunEnds DEF RunTasks
    <3>2. items' = [items EXCEPT ![task[p].data] = (@ \ task[p].gone) \cup task[p].new]
      BY <2>2, RunEnds
    <3>3. task[p].data \in Datasets
      BY <3>1, TileLists
    <3>4. (items[task[p].data] \ task[p].gone) \cup task[p].new \in SUBSET Tiles
      BY <3>1, <3>3 DEF TypeOK
    <3> QED
      BY <3>2, <3>4 DEF TypeOK
  <2> QED
    BY <2>1, <2>2, TablesKept DEF TypeOK
<1>3. rows' \in Seq(RunRows) /\ \A d \in DOMAIN Listed : HasLatest(d)'
  <2>1. CASE CommitRun(p) \/ CommitUnchanged(p)
    BY <2>1, RunEnds, RowAppended, LatestAppended
  <2>2. CASE ~CommitRun(p) /\ ~CommitUnchanged(p)
    <3>1. rows' = rows
      BY <2>2, TablesKept
    <3>2. ASSUME NEW d \in DOMAIN Listed PROVE HasLatest(d)' <=> HasLatest(d)
      BY <3>1 DEF HasLatest, RowsOf
    <3> QED
      BY <3>1, <3>2 DEF TypeOK
  <2> QED
    BY <2>1, <2>2
<1>4. count' \in [runs : Nat, loads : Nat]
  <2>1. count' \in {count, [count EXCEPT !.runs = @ + 1], [count EXCEPT !.loads = @ + 1]}
    BY TablesKept DEF StartLoad, StartRun
  <2>2. count \in [runs : Nat, loads : Nat]
    BY DEF TypeOK
  <2> QED
    BY <2>1, <2>2
<1> QED
  BY <1>1, <1>2, <1>3, <1>4, TablesKept, TodoTypes DEF TypeOK

LEMMA TypeStep == TypeOK /\ [Next]_vars => TypeOK'
<1> SUFFICES ASSUME TypeOK, [Next]_vars PROVE TypeOK'
  OBVIOUS
<1>1. CASE UNCHANGED vars
  <2>1. UNCHANGED <<release, source, items, rows, task, todo, count>>
    BY <1>1 DEF vars
  <2>2. \A d \in DOMAIN Listed : HasLatest(d)'
    BY <2>1 DEF TypeOK, HasLatest, RowsOf
  <2> QED
    BY <2>1, <2>2 DEF TypeOK
<1>2. CASE Next
  BY <1>2, StepCases, WorldTypes, TaskTypesKept
<1> QED
  BY <1>1, <1>2

-----------------------------------------------------------------------------
\* Loads

LEMMA Others ==
  ASSUME TypeOK, NEW p \in Tasks, TaskStep(p)
  PROVE  \A q \in Tasks \ {p} : task'[q] = task[q]
BY TaskTypes, TaskMoves

\* A process that is loading after a step has started to, or gone on.
StillLoads(p) == task'[p].release = task[p].release /\ task[p] \in LoadTasks

LEMMA LoadAfter ==
  ASSUME TypeOK, NEW p \in Tasks, TaskStep(p)
  PROVE  \/ ~Loading(p)'
         \/ /\ StartLoad(p) /\ task'[p].release = release.now /\ task'[p].at = "migrating"
            /\ task'[p].pending = Pending(release.now) /\ task'[p].made = {}
         \/ /\ ApplyNext(p) /\ StillLoads(p) /\ task'[p].at = "migrating"
            /\ \E v \in task[p].pending :
                 /\ ~RowIsHeld(p, v) /\ ~RowIsThere(v)
                 /\ task'[p].pending = task[p].pending \ {v} /\ task'[p].made = task[p].made \cup {v}
         \/ /\ WriteCollections(p) /\ StillLoads(p) /\ task'[p].at = "registered"
            /\ task'[p].pending = task[p].pending /\ task'[p].made = task[p].made
         \/ /\ RemoveGone(p) /\ StillLoads(p) /\ task'[p].at = "removed" /\ task'[p].gone = Gone(p)
            /\ task'[p].pending = task[p].pending /\ task'[p].made = task[p].made
<1> DEFINE Out == ~Loading(p)'
<1>0. ASSUME Abandon(p) PROVE Out
  <2>1. task'[p] = Idle
    BY <1>0, TaskMoves DEF Abandon
  <2> QED
    BY <2>1 DEF Loading, Idle
<1>1. CASE StartLoad(p)
  <2> DEFINE z == [at |-> "migrating", release |-> release.now, pending |-> Pending(release.now), made |-> {}, gone |-> {}]
  <2>1. task'[p] = z
    BY <1>1, TaskMoves DEF StartLoad
  <2>2. z.at = "migrating" /\ z.release = release.now /\ z.pending = Pending(release.now) /\ z.made = {}
    OBVIOUS
  <2> HIDE DEF z
  <2> QED
    BY <1>1, <2>1, <2>2
<1>2. CASE ApplyNext(p)
  <2>1. task[p] \in LoadTasks
    BY <1>2, Kinds DEF ApplyNext, Loading
  <2>2. PICK v \in task[p].pending :
             /\ ~RowIsHeld(p, v)
             /\ IF RowIsThere(v) THEN Abandon(p) ELSE task' = [task EXCEPT ![p].pending = @ \ {v}, ![p].made = @ \cup {v}]
    BY <1>2 DEF ApplyNext
  <2>3. CASE ~RowIsThere(v)
    <3>1. task' = [task EXCEPT ![p] = [task[p] EXCEPT !.pending = @ \ {v}, !.made = @ \cup {v}]]
      BY <2>2, <2>3, <2>1 DEF TypeOK, LoadTasks
    <3>2. task'[p] = [task[p] EXCEPT !.pending = @ \ {v}, !.made = @ \cup {v}]
      BY <3>1, TaskMoves
    <3>3. /\ task'[p].at = "migrating" /\ task'[p].release = task[p].release
          /\ task'[p].pending = task[p].pending \ {v} /\ task'[p].made = task[p].made \cup {v}
      BY <3>2, <2>1, <1>2 DEF LoadTasks, ApplyNext
    <3> QED
      BY <1>2, <2>1, <2>2, <2>3, <3>3 DEF StillLoads
  <2> QED
    BY <2>2, <2>3, <1>0
<1>3. CASE WriteCollections(p)
  <2>1. task[p] \in LoadTasks
    BY <1>3, Kinds DEF WriteCollections, Loading
  <2>2. task'[p] = [task[p] EXCEPT !.at = "registered"]
    BY <1>3, TaskMoves DEF WriteCollections, Go
  <2>3. /\ task'[p].at = "registered" /\ task'[p].release = task[p].release
        /\ task'[p].pending = task[p].pending /\ task'[p].made = task[p].made
    BY <2>1, <2>2 DEF LoadTasks
  <2> QED
    BY <1>3, <2>1, <2>3 DEF StillLoads
<1>4. CASE RemoveGone(p)
  <2>1. task[p] \in LoadTasks
    BY <1>4, Kinds DEF RemoveGone, Loading
  <2>2. task' = [task EXCEPT ![p] = [task[p] EXCEPT !.at = "removed", !.gone = Gone(p)]]
    BY <1>4, <2>1 DEF RemoveGone, TypeOK, LoadTasks
  <2>3. task'[p] = [task[p] EXCEPT !.at = "removed", !.gone = Gone(p)]
    BY <2>2, TaskMoves
  <2>4. /\ task'[p].at = "removed" /\ task'[p].release = task[p].release /\ task'[p].gone = Gone(p)
        /\ task'[p].pending = task[p].pending /\ task'[p].made = task[p].made
    BY <2>1, <2>3 DEF LoadTasks
  <2> QED
    BY <1>4, <2>1, <2>4 DEF StillLoads
<1>5. CASE CommitLoad(p) \/ Fail(p) \/ CommitRun(p) \/ CommitUnchanged(p)
  <2>1. Abandon(p) \/ task'[p] = Idle
    BY <1>5, TaskMoves DEF CommitLoad, Fail, CommitRun, CommitUnchanged
  <2> QED
    BY <1>0, <2>1 DEF Loading, Idle
<1>6. ASSUME NEW d \in DOMAIN Listed, NEW force \in BOOLEAN, StartRun(p, d, force) PROVE Out
  <2> DEFINE z == [at |-> "asking", data |-> d, started |-> count.runs + 1,
                   known |-> IF force THEN Nothing ELSE LastVersion(d),
                   version |-> Nothing, listed |-> {}, withheld |-> {}, new |-> {}, gone |-> {}, seen |-> Len(rows)]
  <2>1. task' = [task EXCEPT ![p] = z] /\ z.at = "asking"
    BY <1>6 DEF StartRun
  <2> HIDE DEF z
  <2>2. task'[p].at = "asking"
    BY <2>1, TaskMoves
  <2> QED
    BY <2>2 DEF Loading
<1>7. CASE Ask(p) \/ ReadWithheld(p) \/ ReadBucket(p) \/ Write(p) \/ DeleteRest(p)
  <2>1. task[p] \in RunTasks
    BY <1>7, Kinds DEF Ask, ReadWithheld, ReadBucket, Write, DeleteRest, Loading, Busy
  <2>2. Abandon(p) \/ task'[p].at \in {"unchanged", "listed", "warned", "fetched", "writing", "deleting"}
    BY <1>7, <2>1, TaskMoves DEF Ask, ReadWithheld, ReadBucket, Write, DeleteRest, Go, TypeOK, RunTasks
  <2>3. CASE task'[p].at \in {"unchanged", "listed", "warned", "fetched", "writing", "deleting"}
    BY <2>3 DEF Loading
  <2> QED
    BY <2>2, <2>3, <1>0
<1>8. ASSUME NEW t \in todo[p], WriteTile(p, t) \/ DeleteTile(p, t) PROVE Out
  <2>1. task[p] \in RunTasks
    BY <1>8, Kinds DEF WriteTile, DeleteTile, Loading, Busy
  <2>2. task'[p].at = task[p].at
    BY <1>8, <2>1 DEF WriteTile, DeleteTile, TypeOK, RunTasks
  <2> QED
    BY <1>8, <2>2 DEF Loading, WriteTile, DeleteTile
<1> QED
  BY <1>1, <1>2, <1>3, <1>4, <1>5, <1>6, <1>7, <1>8 DEF TaskStep

LEMMA LoadsInit == Init => LoadsInv
BY DEF Init, LoadsInv, OneRegisters, Registered, Loading, MadeApart, TheLastLoadHolds, Idle

\* Loads register one after another.
LEMMA RegisterApart ==
  ASSUME TypeOK, OneRegisters, NEW p \in Tasks, TaskStep(p)
  PROVE  OneRegisters'
<1>1. SUFFICES ASSUME NEW q \in Tasks \ {p}, Registered(p)', Registered(q)' PROVE FALSE
  BY Others DEF OneRegisters, Registered
<1>2. task'[q] = task[q] /\ Registered(q) /\ Loading(p)'
  BY <1>1, Others DEF Registered, Loading
<1>3. CASE Registered(p)
  BY <1>1, <1>2, <1>3 DEF OneRegisters
<1>4. CASE WriteCollections(p)
  <2>1. task[p] \in LoadTasks /\ task[q] \in LoadTasks
    BY <1>2, <1>4, Kinds DEF WriteCollections, Loading, Registered
  <2>2. PICK d \in Datasets : \A r \in DOMAIN Releases : Registry(r)[d] # Nothing
    BY CatalogAssumption DEF Registry
  <2>3. Registers(q, d) /\ Registry(task[p].release)[d] # Nothing
    BY <1>2, <2>1, <2>2 DEF Registers, Registered, LoadTasks
  <2> QED
    BY <1>4, <2>3 DEF WriteCollections, FreeToRegister
<1>5. CASE RemoveGone(p)
  BY <1>3, <1>5 DEF Registered, RemoveGone
<1>6. CASE task'[p].at = "migrating"
  BY <1>1, <1>6 DEF Registered
<1> QED
  BY <1>2, <1>3, <1>4, <1>5, <1>6, LoadAfter

\* What a load that starts, or goes on, has made and has still to make.
LEMMA FitsOn ==
  ASSUME TypeOK, LoadsInv, NEW p \in Tasks, TaskStep(p), Loading(p)'
  PROVE  LoadFits(p)' /\ \A q \in Tasks \ {p} : Loading(q) => task'[p].made \cap task[q].made = {}
<1>1. UNCHANGED <<applied, collections>>
  <2>1. ~CommitLoad(p)
    <3>1. CommitLoad(p) => task'[p] = Idle
      BY TaskMoves DEF CommitLoad, Abandon
    <3> QED
      BY <3>1 DEF Loading, Idle
  <2> QED
    BY <2>1, TablesKept
<1> DEFINE z == task'[p]
<1>2. CASE /\ StartLoad(p) /\ z.release = release.now /\ z.at = "migrating"
           /\ z.pending = Pending(release.now) /\ z.made = {}
  <2>1. Matches(release.now)
    BY <1>2 DEF StartLoad
  <2> QED
    BY <1>1, <1>2, <2>1 DEF LoadFits, Registered, Matches, Pending
<1>3. ASSUME StillLoads(p), Loading(p) PROVE LoadFits(p) /\ task[p] \in LoadTasks /\ z.release = task[p].release
  BY <1>3 DEF LoadsInv, StillLoads
<1>4. CASE ApplyNext(p) /\ StillLoads(p) /\ z.at = "migrating"
  <2>0. Loading(p) /\ LoadFits(p) /\ task[p] \in LoadTasks /\ z.release = task[p].release
    BY <1>3, <1>4 DEF ApplyNext, Loading
  <2>1. PICK v \in task[p].pending :
                 /\ ~RowIsHeld(p, v) /\ ~RowIsThere(v)
                 /\ z.pending = task[p].pending \ {v} /\ z.made = task[p].made \cup {v}
    BY <1>4, LoadAfter DEF StartLoad, WriteCollections, RemoveGone, Busy, ApplyNext
  <2>2. LoadFits(p)'
    BY <1>1, <1>4, <2>0, <2>1 DEF LoadFits, RowIsThere, Registered
  <2>3. ASSUME NEW q \in Tasks \ {p}, Loading(q) PROVE z.made \cap task[q].made = {}
    BY <2>0, <2>1, <2>3 DEF RowIsHeld, LoadsInv, MadeApart
  <2> QED
    BY <2>2, <2>3
<1>5. CASE /\ WriteCollections(p) /\ StillLoads(p) /\ z.at = "registered"
           /\ z.pending = task[p].pending /\ z.made = task[p].made
  <2>1. Loading(p) /\ LoadFits(p) /\ z.release = task[p].release /\ task[p].pending = {}
    BY <1>3, <1>5 DEF WriteCollections, Loading
  <2>2. LoadFits(p)'
    BY <1>1, <1>5, <2>1 DEF LoadFits, Registered
  <2>3. ASSUME NEW q \in Tasks \ {p}, Loading(q) PROVE z.made \cap task[q].made = {}
    BY <1>5, <2>1, <2>3 DEF LoadsInv, MadeApart
  <2> QED
    BY <2>2, <2>3
<1>6. CASE /\ RemoveGone(p) /\ StillLoads(p) /\ z.at = "removed" /\ z.gone = Gone(p)
           /\ z.pending = task[p].pending /\ z.made = task[p].made
  <2>1. Loading(p) /\ LoadFits(p) /\ z.release = task[p].release /\ Registered(p)
    BY <1>3, <1>6 DEF RemoveGone, Loading, Registered
  <2>2. Gone(p)' = Gone(p)
    BY <1>1, <2>1 DEF Gone
  <2>3. LoadFits(p)'
    BY <1>1, <1>6, <2>1, <2>2 DEF LoadFits, Registered
  <2>4. ASSUME NEW q \in Tasks \ {p}, Loading(q) PROVE z.made \cap task[q].made = {}
    BY <1>6, <2>1, <2>4 DEF LoadsInv, MadeApart
  <2> QED
    BY <2>3, <2>4
<1> QED
  BY <1>2, <1>4, <1>5, <1>6, LoadAfter

\* The end of a load leaves the catalogue as its release wants it.
LEMMA LoadHolds ==
  ASSUME TypeOK, LoadsInv, NEW p \in Tasks, CommitLoad(p)
  PROVE  TheLastLoadHolds'
<1>0. PICK r : r = task[p].release
  OBVIOUS
<1>1. /\ task[p] \in LoadTasks /\ LoadFits(p) /\ task[p].pending = {} /\ task[p].gone = Gone(p)
  <2>1. task[p] \in LoadTasks /\ LoadFits(p) /\ task[p].at = "removed"
    BY Kinds DEF CommitLoad, Loading, LoadsInv
  <2> QED
    BY <2>1 DEF LoadFits, Registered
<1>2. /\ applied' = [v \in Versions |-> IF v \in task[p].made THEN Files(r)[v] ELSE applied[v]]
      /\ effects' = [v \in Versions |-> IF v \in task[p].made THEN effects[v] + 1 ELSE effects[v]]
      /\ collections' = [d \in Datasets |-> IF Registry(r)[d] # Nothing THEN Registry(r)[d]
                                            ELSE IF d \in task[p].gone THEN Nothing ELSE collections[d]]
      /\ loadedBy' = r
  BY <1>0 DEF CommitLoad
<1>3. ASSUME NEW d \in Datasets
      PROVE  /\ Registry(r)[d] # Nothing => collections'[d] = Registry(r)[d]
             /\ Registry(r)[d] = Nothing => collections'[d] # "federated"
  BY <1>0, <1>1, <1>2, CatalogAssumption DEF Gone
<1>4. ASSUME NEW v \in Versions PROVE Files(r)[v] \in {Nothing, applied'[v]}
  BY <1>0, <1>1, <1>2 DEF LoadFits
<1>5. ASSUME NEW v \in Versions PROVE effects'[v] = IF applied'[v] = Nothing THEN 0 ELSE 1
  <2>1. effects[v] = IF applied[v] = Nothing THEN 0 ELSE 1
    BY DEF LoadsInv, TheLastLoadHolds
  <2>2. v \in task[p].made => applied[v] = Nothing /\ Files(r)[v] # Nothing
    BY <1>0, <1>1 DEF LoadFits
  <2> QED
    BY <1>2, <2>1, <2>2
<1>6. Starts(r)'
  BY <1>3 DEF Starts
<1> QED
  BY <1>2, <1>3, <1>4, <1>5, <1>6 DEF TheLastLoadHolds

\* It disturbs no other load.
LEMMA LoadLeavesOthers ==
  ASSUME TypeOK, LoadsInv, NEW p \in Tasks, CommitLoad(p), NEW q \in Tasks \ {p}, Loading(q)
  PROVE  LoadFits(q)'
<1>1. /\ Registered(p) /\ Loading(p) /\ LoadFits(p) /\ LoadFits(q) /\ task[p].made \cap task[q].made = {}
      /\ task[p] \in LoadTasks /\ task[q] \in LoadTasks
  BY Kinds DEF CommitLoad, Registered, Loading, LoadsInv, MadeApart
<1>2. ~Registered(q) /\ task[q].at # "removed"
  BY <1>1 DEF LoadsInv, OneRegisters, Registered
<1>3. task'[q] = task[q]
  BY Others DEF TaskStep
<1>4. \A v \in Versions : applied'[v] = IF v \in task[p].made THEN Files(task[p].release)[v] ELSE applied[v]
  BY DEF CommitLoad
<1>5. \A v \in task[p].made : applied[v] = Nothing
  BY <1>1 DEF LoadFits
<1>6. \A v \in task[q].made : v \in Versions /\ v \notin task[p].made
  BY <1>1 DEF LoadTasks
<1>7. \A v \in task[q].made : applied'[v] = Nothing
  BY <1>1, <1>4, <1>6 DEF LoadFits
<1>8. ASSUME NEW v \in Versions
      PROVE  Files(task[q].release)[v] \in {Nothing, applied'[v]} \/ v \in task[q].pending \/ v \in task[q].made
  BY <1>1, <1>4, <1>5 DEF LoadFits
<1> QED
  BY <1>1, <1>2, <1>3, <1>7, <1>8 DEF LoadFits, Registered

LEMMA LoadsStep == TypeOK /\ LoadsInv /\ [Next]_vars => LoadsInv'
<1> SUFFICES ASSUME TypeOK, LoadsInv, [Next]_vars PROVE LoadsInv'
  OBVIOUS
<1>1. CASE UNCHANGED <<applied, effects, collections, task, loadedBy>>
  BY <1>1 DEF LoadsInv, OneRegisters, Registered, Loading, LoadFits, Gone, MadeApart, TheLastLoadHolds, Starts
<1>2. ASSUME NEW p \in Tasks, TaskStep(p) PROVE LoadsInv'
  <2>1. OneRegisters'
    BY <1>2, RegisterApart DEF LoadsInv
  <2>2. ASSUME NEW q \in Tasks, Loading(q)' PROVE LoadFits(q)'
    <3>1. CASE q = p
      BY <1>2, <2>2, <3>1, FitsOn
    <3>2. CASE q # p
      <4>1. task'[q] = task[q] /\ Loading(q) /\ LoadFits(q)
        BY <1>2, <2>2, <3>2, Others DEF Loading, LoadsInv
      <4>2. CASE ~CommitLoad(p)
        BY <1>2, <4>1, <4>2, TablesKept DEF LoadFits, Gone, Registered
      <4>3. CASE CommitLoad(p)
        BY <3>2, <4>1, <4>3, LoadLeavesOthers
      <4> QED
        BY <4>2, <4>3
    <3> QED
      BY <3>1, <3>2
  <2>3. MadeApart'
    <3>1. SUFFICES ASSUME NEW a \in Tasks, NEW b \in Tasks, a # b, Loading(a)', Loading(b)'
                   PROVE  task'[a].made \cap task'[b].made = {}
      BY DEF MadeApart
    <3>2. CASE a # p /\ b # p
      BY <1>2, <3>1, <3>2, Others DEF LoadsInv, MadeApart, Loading
    <3>3. CASE a = p
      BY <1>2, <3>1, <3>3, Others, FitsOn DEF Loading
    <3>4. CASE b = p
      BY <1>2, <3>1, <3>4, Others, FitsOn DEF Loading
    <3> QED
      BY <3>2, <3>3, <3>4
  <2>4. TheLastLoadHolds'
    <3>1. CASE CommitLoad(p)
      BY <3>1, LoadHolds
    <3>2. CASE ~CommitLoad(p)
      BY <1>2, <3>2, TablesKept DEF LoadsInv, TheLastLoadHolds, Starts
    <3> QED
      BY <3>1, <3>2
  <2> QED
    BY <2>1, <2>2, <2>3, <2>4 DEF LoadsInv
<1> QED
  BY <1>1, <1>2, StepCases, WorldKeeps DEF vars

-----------------------------------------------------------------------------
\* Runs

\* A run that goes on keeps its dataset, its number and what it knew, and maybe its list.
StillRuns(p) ==
  /\ task[p] \in RunTasks /\ Busy(p) /\ ~Loading(p)
  /\ task'[p].data = task[p].data /\ task'[p].started = task[p].started /\ task'[p].known = task[p].known
  /\ task'[p].seen = task[p].seen

SameList(p) == task'[p].listed = task[p].listed /\ task'[p].withheld = task[p].withheld
SameRows(p) == task'[p].new = task[p].new /\ task'[p].gone = task[p].gone

LEMMA RunAfter ==
  ASSUME TypeOK, NEW p \in Tasks, TaskStep(p)
  PROVE  \/ ~Busy(p)'
         \/ Loading(p)'
         \/ \E d \in DOMAIN Listed, force \in BOOLEAN :
              /\ StartRun(p, d, force) /\ task'[p].at = "asking" /\ task'[p].data = d /\ task'[p].started = count.runs + 1
              /\ task'[p].known = IF force THEN Nothing ELSE LastVersion(d)
              /\ task'[p].seen = Len(rows) /\ task'[p].new = {} /\ task'[p].gone = {}
         \/ /\ Ask(p) \/ ReadWithheld(p) \/ ReadBucket(p)
            /\ StillRuns(p) /\ SameRows(p)
            /\ \/ task'[p].at \in {"listed", "warned", "fetched"}
               \/ task'[p].at = "unchanged" /\ task[p].known = source[task[p].data].version
         \/ /\ Write(p) /\ StillRuns(p) /\ SameList(p) /\ SameRows(p) /\ task'[p].at = "writing"
            /\ todo'[p] = Held(p)
         \/ /\ DeleteRest(p) /\ StillRuns(p) /\ SameList(p) /\ SameRows(p) /\ task'[p].at = "deleting"
            /\ todo'[p] = Rest(p)
         \/ \E t \in todo[p] :
              /\ StillRuns(p) /\ SameList(p) /\ task'[p].at = task[p].at /\ todo'[p] = todo[p] \ {t}
              /\ \/ /\ WriteTile(p, t) /\ task'[p].gone = task[p].gone
                    /\ task'[p].new = IF t \in items[task[p].data] THEN task[p].new ELSE task[p].new \cup {t}
                 \/ DeleteTile(p, t) /\ task'[p].new = task[p].new /\ task'[p].gone = task[p].gone \cup {t}
<1> DEFINE Out == ~Busy(p)'
<1>0. ASSUME Abandon(p) PROVE Out
  <2>1. task'[p] = Idle
    BY <1>0, TaskMoves DEF Abandon
  <2> QED
    BY <2>1 DEF Busy, Idle
<1>1. CASE CommitLoad(p) \/ Fail(p) \/ CommitRun(p) \/ CommitUnchanged(p)
  <2>1. Abandon(p) \/ task'[p] = Idle
    BY <1>1, TaskMoves DEF CommitLoad, Fail, CommitRun, CommitUnchanged
  <2> QED
    BY <1>0, <2>1 DEF Busy, Idle
<1>2. CASE StartLoad(p) \/ ApplyNext(p) \/ WriteCollections(p) \/ RemoveGone(p)
  <2>1. CASE StartLoad(p)
    <3> DEFINE z == [at |-> "migrating", release |-> release.now, pending |-> Pending(release.now), made |-> {}, gone |-> {}]
    <3>1. task'[p] = z /\ z.at = "migrating"
      BY <2>1, TaskMoves DEF StartLoad
    <3> HIDE DEF z
    <3> QED
      BY <3>1 DEF Loading
  <2>2. CASE ApplyNext(p)
    <3>1. task[p] \in LoadTasks
      BY <2>2, Kinds DEF ApplyNext, Loading
    <3>2. PICK v \in task[p].pending : Abandon(p) \/ task' = [task EXCEPT ![p].pending = @ \ {v}, ![p].made = @ \cup {v}]
      BY <2>2 DEF ApplyNext
    <3>3. CASE task' = [task EXCEPT ![p].pending = @ \ {v}, ![p].made = @ \cup {v}]
      <4>1. task' = [task EXCEPT ![p] = [task[p] EXCEPT !.pending = @ \ {v}, !.made = @ \cup {v}]]
        BY <3>3, <3>1 DEF TypeOK, LoadTasks
      <4>2. task'[p] = [task[p] EXCEPT !.pending = @ \ {v}, !.made = @ \cup {v}]
        BY <4>1, TaskMoves
      <4>3. task'[p].at = task[p].at
        BY <4>2, <3>1 DEF LoadTasks
      <4> QED
        BY <2>2, <4>3 DEF ApplyNext, Loading
    <3> QED
      BY <3>2, <3>3, <1>0
  <2>3. CASE WriteCollections(p)
    <3>0. task[p] \in LoadTasks
      BY <2>3, Kinds DEF WriteCollections, Loading
    <3>1. task'[p] = [task[p] EXCEPT !.at = "registered"]
      BY <2>3, TaskMoves DEF WriteCollections, Go
    <3>2. task'[p].at = "registered"
      BY <3>0, <3>1 DEF LoadTasks
    <3> QED
      BY <3>2 DEF Loading
  <2>4. CASE RemoveGone(p)
    <3>1. task[p] \in LoadTasks
      BY <2>4, Kinds DEF RemoveGone, Loading
    <3>2. task' = [task EXCEPT ![p] = [task[p] EXCEPT !.at = "removed", !.gone = Gone(p)]]
      BY <2>4, <3>1 DEF RemoveGone, TypeOK, LoadTasks
    <3>3. task'[p] = [task[p] EXCEPT !.at = "removed", !.gone = Gone(p)]
      BY <3>2, TaskMoves
    <3>4. task'[p].at = "removed"
      BY <3>1, <3>3 DEF LoadTasks
    <3> QED
      BY <3>4 DEF Loading
  <2> QED
    BY <1>2, <2>1, <2>2, <2>3, <2>4
<1>3. ASSUME NEW d \in DOMAIN Listed, NEW force \in BOOLEAN, StartRun(p, d, force)
      PROVE  /\ task'[p].at = "asking" /\ task'[p].data = d /\ task'[p].started = count.runs + 1
             /\ task'[p].known = IF force THEN Nothing ELSE LastVersion(d)
             /\ task'[p].seen = Len(rows) /\ task'[p].new = {} /\ task'[p].gone = {}
  <2> DEFINE k == IF force THEN Nothing ELSE LastVersion(d)
             z == [at |-> "asking", data |-> d, started |-> count.runs + 1, known |-> k,
                   version |-> Nothing, listed |-> {}, withheld |-> {}, new |-> {}, gone |-> {}, seen |-> Len(rows)]
  <2>0. task' = [task EXCEPT ![p] = z]
    BY <1>3 DEF StartRun
  <2> HIDE DEF k
  <2>2. z.at = "asking" /\ z.data = d /\ z.started = count.runs + 1 /\ z.known = k
        /\ z.seen = Len(rows) /\ z.new = {} /\ z.gone = {}
    OBVIOUS
  <2> HIDE DEF z
  <2>1. task'[p] = z
    BY <2>0, TaskMoves
  <2> QED
    BY <2>1, <2>2 DEF k
<1>4. ASSUME Ask(p) \/ ReadWithheld(p) \/ ReadBucket(p) \/ Write(p) \/ DeleteRest(p) \/ \E t \in todo[p] : WriteTile(p, t) \/ DeleteTile(p, t)
      PROVE  task[p] \in RunTasks /\ Busy(p) /\ ~Loading(p)
  BY <1>4, Kinds DEF Ask, ReadWithheld, ReadBucket, Write, DeleteRest, WriteTile, DeleteTile, Loading, Busy
<1>5. CASE Ask(p)
  <2> DEFINE s == source[task[p].data]
  <2>1. CASE s.version = task[p].known
    <3>1. task'[p] = [task[p] EXCEPT !.at = "unchanged"]
      BY <1>5, <2>1, TaskMoves DEF Ask, Go
    <3>2. task'[p].at = "unchanged" /\ StillRuns(p) /\ SameRows(p)
      BY <1>4, <1>5, <3>1 DEF RunTasks, StillRuns, SameRows
    <3> QED
      BY <1>5, <2>1, <3>2
  <2>2. CASE s.version # task[p].known
    <3> DEFINE l == Listed[task[p].data][s.version]
               z == [task[p] EXCEPT !.at = "listed", !.version = s.version, !.listed = l]
    <3>1. task' = [task EXCEPT ![p] = z]
      BY <1>4, <1>5, <2>2 DEF Ask, TypeOK, RunTasks
    <3>2. task'[p] = z
      BY <3>1, TaskMoves
    <3>3. task'[p].at = "listed" /\ StillRuns(p) /\ SameRows(p)
      BY <1>4, <1>5, <3>2 DEF RunTasks, StillRuns, SameRows
    <3> QED
      BY <1>5, <3>3
  <2> QED
    BY <2>1, <2>2
<1>6. CASE ReadWithheld(p)
  <2> DEFINE z == [task[p] EXCEPT !.at = "warned", !.withheld = task[p].listed \cap source[task[p].data].withheld]
  <2>1. task' = [task EXCEPT ![p] = z]
    BY <1>4, <1>6 DEF ReadWithheld, TypeOK, RunTasks
  <2>2. task'[p] = z
    BY <2>1, TaskMoves
  <2>3. task'[p].at = "warned" /\ StillRuns(p) /\ SameRows(p)
    BY <1>4, <1>6, <2>2 DEF RunTasks, StillRuns, SameRows
  <2> QED
    BY <1>6, <2>3
<1>7. CASE ReadBucket(p)
  <2> DEFINE left == (task[p].listed \ source[task[p].data].there) \cup task[p].withheld
             z == [task[p] EXCEPT !.at = "fetched", !.withheld = left]
  <2>1. CASE Cardinality(left) * 100 > MaxPercent * Cardinality(task[p].listed)
    BY <1>0, <1>7, <2>1 DEF ReadBucket
  <2>2. CASE ~(Cardinality(left) * 100 > MaxPercent * Cardinality(task[p].listed))
    <3>1. task' = [task EXCEPT ![p] = z]
      BY <1>4, <1>7, <2>2 DEF ReadBucket, TypeOK, RunTasks
    <3>2. task'[p] = z
      BY <3>1, TaskMoves
    <3> HIDE DEF left
    <3>3. task'[p].at = "fetched" /\ StillRuns(p) /\ SameRows(p)
      BY <1>4, <1>7, <3>2 DEF RunTasks, StillRuns, SameRows
    <3> QED
      BY <1>7, <3>3
  <2> QED
    BY <2>1, <2>2
<1>8. ASSUME NEW a \in {"writing", "deleting"}, Write(p) \/ DeleteRest(p), task' = [task EXCEPT ![p].at = a]
      PROVE  task'[p].at = a /\ StillRuns(p) /\ SameList(p) /\ SameRows(p)
  <2>1. task'[p] = [task[p] EXCEPT !.at = a]
    BY <1>8 DEF TypeOK
  <2> QED
    BY <1>4, <1>8, <2>1 DEF RunTasks, StillRuns, SameList, SameRows
<1>9. CASE Write(p)
  <2>1. CASE task' = [task EXCEPT ![p].at = "writing"] /\ todo' = [todo EXCEPT ![p] = Held(p)]
    BY <1>8, <1>9, <2>1 DEF TypeOK
  <2> QED
    BY <1>0, <1>9, <2>1 DEF Write
<1>10. CASE DeleteRest(p)
  BY <1>8, <1>10 DEF DeleteRest, TypeOK
<1>11. ASSUME NEW t \in todo[p], WriteTile(p, t)
       PROVE  /\ StillRuns(p) /\ SameList(p) /\ task'[p].at = task[p].at /\ todo'[p] = todo[p] \ {t}
              /\ task'[p].gone = task[p].gone
              /\ task'[p].new = IF t \in items[task[p].data] THEN task[p].new ELSE task[p].new \cup {t}
  <2> DEFINE new == IF t \in items[task[p].data] THEN task[p].new ELSE task[p].new \cup {t}
             z == [task[p] EXCEPT !.new = new]
  <2>1. task' = [task EXCEPT ![p] = z]
    BY <1>4, <1>11 DEF WriteTile, TypeOK, RunTasks
  <2> HIDE DEF new
  <2>2. task'[p] = z
    BY <2>1, TaskMoves
  <2>3. StillRuns(p) /\ SameList(p) /\ task'[p].at = task[p].at /\ task'[p].gone = task[p].gone /\ task'[p].new = new
    BY <1>4, <1>11, <2>2 DEF RunTasks, StillRuns, SameList
  <2>4. todo'[p] = todo[p] \ {t}
    BY <1>11 DEF WriteTile, TypeOK
  <2> QED
    BY <2>3, <2>4 DEF new
<1>12. ASSUME NEW t \in todo[p], DeleteTile(p, t)
       PROVE  /\ StillRuns(p) /\ SameList(p) /\ task'[p].at = task[p].at /\ todo'[p] = todo[p] \ {t}
              /\ task'[p].new = task[p].new /\ task'[p].gone = task[p].gone \cup {t}
  <2> DEFINE z == [task[p] EXCEPT !.gone = task[p].gone \cup {t}]
  <2>1. task' = [task EXCEPT ![p] = z]
    BY <1>4, <1>12 DEF DeleteTile, TypeOK, RunTasks
  <2>2. task'[p] = z
    BY <2>1, TaskMoves
  <2>3. /\ StillRuns(p) /\ SameList(p) /\ task'[p].at = task[p].at
        /\ task'[p].new = task[p].new /\ task'[p].gone = task[p].gone \cup {t}
    BY <1>4, <1>12, <2>2 DEF RunTasks, StillRuns, SameList
  <2>4. todo'[p] = todo[p] \ {t}
    BY <1>12 DEF DeleteTile, TypeOK
  <2> QED
    BY <2>3, <2>4
<1>13. CASE \E t \in todo[p] : WriteTile(p, t) \/ DeleteTile(p, t)
  BY <1>11, <1>12, <1>13
<1> QED
  BY <1>1, <1>2, <1>3, <1>5, <1>6, <1>7, <1>9, <1>10, <1>13 DEF TaskStep

LEMMA RunsInit == Init => RunsInv
<1> SUFFICES ASSUME Init PROVE RunsInv
  OBVIOUS
<1>1. \A p \in Tasks : task[p].at = "idle"
  BY DEF Init, Idle
<1>2. \A d \in Datasets : LoadedRows(d) = {}
  BY DEF Init, LoadedRows, RowsOf
<1> QED
  BY <1>1, <1>2 DEF RunsInv, HandsApart, NoneTakenAway, Writes, Busy, ItemsAsLastWritten

\* Rows come to be at the end only, and stay.
LEMMA RowsGrow ==
  ASSUME TypeOK, NEW p \in Tasks, TaskStep(p)
  PROVE  /\ Len(rows) \in Nat /\ Len(rows') \in Nat /\ Len(rows) <= Len(rows')
         /\ \A k \in 1..Len(rows) : rows'[k] = rows[k]
         /\ \A d \in DOMAIN Listed : /\ LoadedRows(d) \subseteq LoadedRows(d)'
                                     /\ \A k \in LoadedRows(d) : k \in 1..Len(rows) /\ rows'[k] = rows[k]
<1>1. Len(rows) \in Nat /\ \A d \in DOMAIN Listed : \A k \in RowsOf(d) : k \in 1..Len(rows)
  BY LatestIsThere DEF TypeOK
<1>2. CASE CommitRun(p) \/ CommitUnchanged(p)
  <2>1. PICK r \in RunRows : rows' = Append(rows, r)
    BY <1>2, RunEnds
  <2>2. Len(rows') = Len(rows) + 1 /\ \A k \in 1..Len(rows) : rows'[k] = rows[k]
    BY <2>1, RowAppended
  <2>3. ASSUME NEW d \in DOMAIN Listed PROVE RowsOf(d) \subseteq RowsOf(d)'
    BY <2>1, RowAppended
  <2>4. ASSUME NEW d \in DOMAIN Listed PROVE LoadedRows(d) \subseteq LoadedRows(d)'
    BY <1>1, <2>2, <2>3 DEF LoadedRows
  <2> QED
    BY <1>1, <2>2, <2>4 DEF LoadedRows
<1>3. CASE rows' = rows
  BY <1>1, <1>3 DEF LoadedRows, RowsOf
<1> QED
  BY <1>2, <1>3, TablesKept

\* A run that starts, or goes on, fits.
LEMMA RunFitsOn ==
  ASSUME TypeOK, RunsInv, NEW p \in Tasks, TaskStep(p), Busy(p)', ~Loading(p)'
  PROVE  RunFits(p)'
<1> DEFINE z == task'[p]
<1>0. ASSUME StillRuns(p) PROVE RunFits(p) /\ task[p] \in RunTasks /\ z.seen = task[p].seen /\ z.seen <= Len(rows')
  <2>1. RunFits(p) /\ task[p] \in RunTasks /\ z.seen = task[p].seen /\ task[p].seen \in Nat
    BY <1>0 DEF StillRuns, RunsInv, RunTasks
  <2> QED
    BY <2>1, RowsGrow DEF RunFits
<1>1. ASSUME z.at = "asking", z.seen = Len(rows), z.new = {}, z.gone = {} PROVE RunFits(p)'
  BY <1>1, RowsGrow DEF RunFits
<1>2. CASE /\ Ask(p) \/ ReadWithheld(p) \/ ReadBucket(p)
           /\ StillRuns(p) /\ SameRows(p)
           /\ \/ z.at \in {"listed", "warned", "fetched"}
              \/ z.at = "unchanged" /\ task[p].known = source[task[p].data].version
  <2>1. task[p].data \in DOMAIN Listed
    BY <1>0, <1>2 DEF RunTasks
  <2>2. source[task[p].data].version \in Nat
    BY <2>1, TileLists DEF TypeOK
  <2>3. z.new = {} /\ z.gone = {} /\ z.known = task[p].known
    BY <1>0, <1>2 DEF RunFits, Writes, Ask, ReadWithheld, ReadBucket, SameRows, StillRuns
  <2> QED
    BY <1>0, <1>2, <2>2, <2>3 DEF RunFits
<1>3. CASE StillRuns(p) /\ z.at \in {"writing", "deleting"}
  BY <1>0, <1>3 DEF RunFits, Writes
<1>4. ASSUME NEW t \in todo[p], WriteTile(p, t) \/ DeleteTile(p, t), z.at = task[p].at PROVE z.at \in {"writing", "deleting"}
  BY <1>4 DEF WriteTile, DeleteTile
<1> QED
  BY <1>1, <1>2, <1>3, <1>4, RunAfter

\* What a process that writes after a step has done.
LEMMA WriterSteps ==
  ASSUME TypeOK, NEW p \in Tasks, TaskStep(p), Writes(p)'
  PROVE  /\ StillRuns(p) /\ SameList(p) /\ items' = items /\ rows' = rows
         /\ \/ Write(p) /\ SameRows(p) /\ task'[p].at = "writing" /\ todo'[p] = Held(p)
            \/ DeleteRest(p) /\ SameRows(p) /\ task'[p].at = "deleting" /\ todo'[p] = Rest(p)
            \/ \E t \in todo[p] :
                 /\ task'[p].at = task[p].at /\ todo'[p] = todo[p] \ {t}
                 /\ \/ /\ WriteTile(p, t) /\ task'[p].gone = task[p].gone
                       /\ task'[p].new = IF t \in items[task[p].data] THEN task[p].new ELSE task[p].new \cup {t}
                    \/ DeleteTile(p, t) /\ task'[p].new = task[p].new /\ task'[p].gone = task[p].gone \cup {t}
<1>1. Busy(p)' /\ ~Loading(p)' /\ task'[p].at \notin {"asking", "listed", "warned", "fetched", "unchanged"}
  BY DEF Writes, Busy, Loading
<1>2. ~CommitLoad(p) /\ ~CommitRun(p) /\ ~CommitUnchanged(p)
  <2>1. CommitLoad(p) \/ CommitRun(p) \/ CommitUnchanged(p) => task'[p] = Idle
    BY TaskMoves DEF CommitLoad, CommitRun, CommitUnchanged, Abandon
  <2> QED
    BY <1>1, <2>1 DEF Busy, Idle
<1>3. items' = items /\ rows' = rows
  BY <1>2, TablesKept
<1> QED
  BY <1>1, <1>3, RunAfter, Zenon

\* A run keeps its tiles fit by its own steps.
LEMMA TilesOn ==
  ASSUME TypeOK, RunsInv, NEW p \in Tasks, TaskStep(p), Writes(p)'
  PROVE  TilesFit(p)'
<1> DEFINE z == task'[p]  there == items[task[p].data]
<1>1. /\ StillRuns(p) /\ items' = items /\ rows' = rows /\ z.data = task[p].data
      /\ z.seen = task[p].seen /\ Held(p)' = Held(p) /\ items'[z.data] = there
  BY WriterSteps DEF StillRuns, SameList, Held
<1>2. \A t : Overruled(p, t)' <=> Overruled(p, t)
  BY <1>1 DEF Overruled, LoadedRows, RowsOf
<1>3. CASE Write(p) /\ SameRows(p) /\ z.at = "writing" /\ todo'[p] = Held(p)
  <2>1. RunFits(p) /\ ~Writes(p)
    BY <1>1, <1>3 DEF StillRuns, RunsInv, Write, Writes
  <2>2. z.new = {} /\ z.gone = {}
    BY <1>3, <2>1 DEF RunFits, SameRows
  <2> QED
    BY <1>1, <1>3, <2>2 DEF TilesFit
<1>4. CASE DeleteRest(p) /\ SameRows(p) /\ z.at = "deleting" /\ todo'[p] = Rest(p)
  <2>1. TilesFit(p) /\ task[p].at = "writing" /\ todo[p] = {} /\ z.new = task[p].new /\ z.gone = task[p].gone
    BY <1>4 DEF DeleteRest, Writes, RunsInv, SameRows
  <2>2. todo'[p] = there \ Held(p)
    BY <1>4 DEF Rest
  <2> QED
    BY <1>1, <1>2, <1>4, <2>1, <2>2 DEF TilesFit
<1>5. ASSUME NEW t \in todo[p], z.at = task[p].at, todo'[p] = todo[p] \ {t}, WriteTile(p, t), z.gone = task[p].gone,
             z.new = IF t \in there THEN task[p].new ELSE task[p].new \cup {t}
      PROVE  TilesFit(p)'
  <2>1. TilesFit(p) /\ task[p].at = "writing" /\ t \in Held(p)
    BY <1>5 DEF WriteTile, Writes, RunsInv, TilesFit
  <2>2. /\ z.new \subseteq Held(p) /\ z.new \cap there = {} /\ z.gone = {} /\ todo'[p] \subseteq Held(p)
    BY <1>5, <2>1 DEF TilesFit
  <2>3. ASSUME NEW x \in Held(p) PROVE x \in z.new \/ x \in there \/ Overruled(p, x) \/ x \in todo'[p]
    BY <1>5, <2>1 DEF TilesFit
  <2> QED
    BY <1>1, <1>2, <1>5, <2>1, <2>2, <2>3 DEF TilesFit
<1>6. ASSUME NEW t \in todo[p], z.at = task[p].at, todo'[p] = todo[p] \ {t}, DeleteTile(p, t),
             z.new = task[p].new, z.gone = task[p].gone \cup {t}
      PROVE  TilesFit(p)'
  <2>1. TilesFit(p) /\ task[p].at = "deleting" /\ t \in there \ Held(p)
    BY <1>6 DEF DeleteTile, Writes, RunsInv, TilesFit
  <2>2. ASSUME NEW x \in there \ Held(p) PROVE x \in z.gone \/ x \in todo'[p] \/ Overruled(p, x)
    BY <1>6, <2>1 DEF TilesFit
  <2> QED
    BY <1>1, <1>2, <1>6, <2>1, <2>2 DEF TilesFit
<1> QED
  BY <1>3, <1>4, <1>5, <1>6, WriterSteps

\* What the end of a run brings: its list is the last row, and decides against whoever differs.
LEMMA RunOverrules ==
  ASSUME TypeOK, RunsInv, NEW p \in Tasks, CommitRun(p), NEW d, d = task[p].data, NEW n, n = Len(rows) + 1
  PROVE  /\ d \in DOMAIN Listed /\ d \in Datasets /\ Writes(p) /\ task[p].at = "deleting" /\ todo[p] = {}
         /\ items'[d] = (items[d] \ task[p].gone) \cup task[p].new
         /\ Len(rows) \in Nat /\ LoadedRows(d)' = LoadedRows(d) \cup {n}
         /\ rows'[n].held = Held(p) /\ rows'[n].seen = task[p].seen /\ rows'[n].data = d
<1>1. d \in DOMAIN Listed /\ d \in Datasets /\ items' = [items EXCEPT ![d] = (@ \ task[p].gone) \cup task[p].new]
  BY RunEnds, TileLists DEF RunTasks
<1>2. PICK r \in RunRows : rows' = Append(rows, r) /\ r.data = d /\ r.status = "loaded" /\ r.held = Held(p) /\ r.seen = task[p].seen
  BY RunEnds
<1>3. /\ Len(rows) \in Nat /\ rows'[n] = r /\ \A k \in 1..Len(rows) : rows'[k] = rows[k]
  BY <1>2, RowAppended
<1>4. RowsOf(d)' = RowsOf(d) \cup {n}
  BY <1>1, <1>2, RowAppended
<1>5. \A k \in RowsOf(d) : k \in 1..Len(rows)
  BY <1>1, LatestIsThere
<1>6. LoadedRows(d)' = LoadedRows(d) \cup {n}
  BY <1>2, <1>3, <1>4, <1>5 DEF LoadedRows
<1>7. items'[d] = (items[d] \ task[p].gone) \cup task[p].new
  BY <1>1 DEF TypeOK
<1> QED
  BY <1>1, <1>2, <1>3, <1>6, <1>7 DEF CommitRun, Writes

\* A load takes nothing from under a run.
LEMMA ItemsStay ==
  ASSUME TypeOK, LoadsInv, RunsInv, NEW p \in Tasks, TaskStep(p), NEW q \in Tasks, Writes(q),
         CommitRun(p) => task[p].data # task[q].data
  PROVE  items'[task[q].data] = items[task[q].data]
<1>1. task[q].data \in Datasets
  BY Kinds, TileLists DEF Writes, Busy, Loading, RunTasks
<1>2. CASE CommitLoad(p)
  <2>1. task[p].at = "removed" /\ items' = [d \in Datasets |-> IF d \in task[p].gone THEN {} ELSE items[d]]
    BY <1>2 DEF CommitLoad
  <2>2. task[q].data \notin task[p].gone
    BY <2>1 DEF RunsInv, NoneTakenAway
  <2> QED
    BY <1>1, <2>1, <2>2
<1>3. CASE CommitRun(p)
  <2>1. items' = [items EXCEPT ![task[p].data] = (@ \ task[p].gone) \cup task[p].new]
    BY <1>3, RunEnds
  <2> QED
    BY <1>1, <1>3, <2>1 DEF TypeOK
<1> QED
  BY <1>2, <1>3, TablesKept

\* Nor do others disturb them, but for tiles they overrule.
LEMMA TilesKept ==
  ASSUME TypeOK, LoadsInv, RunsInv, NEW p \in Tasks, TaskStep(p), NEW q \in Tasks \ {p}, Writes(q)
  PROVE  TilesFit(q)'
<1>0. PICK d : d = task[q].data
  OBVIOUS
<1>1. task'[q] = task[q] /\ Held(q)' = Held(q)
  BY Others DEF Held
<1>2. TilesFit(q) /\ RunFits(q) /\ d \in DOMAIN Listed /\ task[q].seen \in Nat
  BY <1>0, Kinds DEF RunsInv, Writes, Busy, Loading, RunTasks
<1>3. ASSUME NEW t, Overruled(q, t) PROVE Overruled(q, t)'
  <2>1. PICK k \in LoadedRows(d) : task[q].seen < k /\ (t \in rows[k].held) # (t \in Held(q))
    BY <1>0, <1>3 DEF Overruled
  <2>2. k \in LoadedRows(d)' /\ rows'[k] = rows[k]
    BY <1>2, <2>1, RowsGrow
  <2> QED
    BY <1>0, <1>1, <2>1, <2>2 DEF Overruled
<1>4. CASE CommitRun(p) /\ task[p].data = d
  <2>0. PICK n : n = Len(rows) + 1
    OBVIOUS
  <2>1. /\ TilesFit(p) /\ task[p].at = "deleting" /\ todo[p] = {} /\ Writes(p)
        /\ items'[d] = (items[d] \ task[p].gone) \cup task[p].new
        /\ n \in LoadedRows(d)' /\ rows'[n].held = Held(p) /\ Len(rows) \in Nat
    BY <1>4, <2>0, RunOverrules DEF RunsInv
  <2>2. task[p].new \cap task[q].new = {} /\ task[p].gone \cap task[q].gone = {}
    BY <1>0, <1>4, <2>1 DEF RunsInv, HandsApart
  <2>3. ASSUME NEW t, (t \in Held(p)) # (t \in Held(q)) PROVE Overruled(q, t)'
    <3>1. task[q].seen < n
      BY <1>2, <2>0, <2>1 DEF RunFits
    <3> QED
      BY <1>0, <1>1, <2>1, <2>3, <3>1 DEF Overruled
  <2>4. todo'[q] = IF task[q].at = "deleting" THEN todo[q] \ task[p].gone ELSE todo[q]
    BY <1>0, <1>4 DEF CommitRun
  <2>5. task[p].new \subseteq Held(p) /\ task[p].gone \subseteq items[d] \ Held(p)
    BY <1>4, <2>1 DEF TilesFit
  <2>6. /\ task[q].new \subseteq Held(q) /\ task[q].new \cap items'[d] = {} /\ task[q].gone \subseteq items'[d] \ Held(q)
    BY <1>0, <1>2, <2>1, <2>2 DEF TilesFit
  <2>7. ASSUME NEW t \in Held(q)
        PROVE  t \in task[q].new \/ t \in items'[d] \/ Overruled(q, t)' \/ (task[q].at = "writing" /\ t \in todo'[q])
    BY <1>0, <1>2, <1>3, <2>1, <2>3, <2>4, <2>5 DEF TilesFit
  <2>8. task[q].at = "writing" => task[q].gone = {} /\ todo'[q] \subseteq Held(q)
    BY <1>2, <2>4 DEF TilesFit
  <2>9. ASSUME task[q].at = "deleting"
        PROVE  /\ todo'[q] \subseteq items'[d] \ Held(q)
               /\ \A t \in items'[d] \ Held(q) : t \in task[q].gone \/ t \in todo'[q] \/ Overruled(q, t)'
    <3>1. todo'[q] \subseteq items'[d] \ Held(q)
      BY <1>0, <1>2, <2>1, <2>4, <2>9 DEF TilesFit
    <3>2. ASSUME NEW t \in items'[d] \ Held(q) PROVE t \in task[q].gone \/ t \in todo'[q] \/ Overruled(q, t)'
      <4>1. CASE t \in task[p].new
        BY <2>3, <2>5, <3>2, <4>1
      <4>2. CASE t \in items[d] \ task[p].gone
        BY <1>0, <1>2, <1>3, <2>4, <2>9, <3>2, <4>2 DEF TilesFit
      <4> QED
        BY <2>1, <3>2, <4>1, <4>2
    <3> QED
      BY <3>1, <3>2
  <2> QED
    BY <1>0, <1>1, <2>6, <2>7, <2>8, <2>9 DEF TilesFit
<1>5. CASE ~(CommitRun(p) /\ task[p].data = d)
  <2>1. items'[d] = items[d]
    BY <1>0, <1>5, ItemsStay
  <2>2. todo'[q] = todo[q]
    BY <1>0, <1>5, TodoTypes DEF CommitRun, TypeOK
  <2> QED
    BY <1>0, <1>1, <1>2, <1>3, <2>1, <2>2 DEF TilesFit
<1> QED
  BY <1>4, <1>5

\* A row another run has in hand is waited for.
LEMMA HandsKept ==
  ASSUME TypeOK, RunsInv, NEW p \in Tasks, TaskStep(p), NEW q \in Tasks \ {p}, Writes(p)', Writes(q)',
         task'[p].data = task'[q].data
  PROVE  task'[p].new \cap task'[q].new = {} /\ task'[p].gone \cap task'[q].gone = {}
<1>1. task'[q] = task[q] /\ Writes(q) /\ task'[p].data = task[p].data /\ task[p].data = task[q].data
  BY Others, WriterSteps DEF Writes, StillRuns
<1>2. CASE Write(p) /\ SameRows(p)
  <2>1. RunFits(p)
    BY <1>2 DEF RunsInv, Write, Busy, Loading
  <2> QED
    BY <1>1, <1>2, <2>1 DEF RunFits, Write, Writes, SameRows
<1>3. CASE DeleteRest(p) /\ SameRows(p)
  BY <1>1, <1>3 DEF DeleteRest, Writes, SameRows, RunsInv, HandsApart
<1>4. ASSUME NEW t \in todo[p], WriteTile(p, t), task'[p].gone = task[p].gone, task'[p].new \subseteq task[p].new \cup {t}
      PROVE  task'[p].new \cap task'[q].new = {} /\ task'[p].gone \cap task'[q].gone = {}
  <2>1. Writes(p) /\ ~Inserts(q, task[p].data, t)
    BY <1>4 DEF WriteTile, Writes
  <2>2. t \notin task[q].new
    BY <1>1, <2>1 DEF Inserts, Writing, Writes
  <2> QED
    BY <1>1, <1>4, <2>1, <2>2 DEF RunsInv, HandsApart
<1>5. ASSUME NEW t \in todo[p], DeleteTile(p, t), task'[p].new = task[p].new, task'[p].gone = task[p].gone \cup {t}
      PROVE  task'[p].new \cap task'[q].new = {} /\ task'[p].gone \cap task'[q].gone = {}
  <2>1. Writes(p) /\ ~Deletes(q, task[p].data, t)
    BY <1>5 DEF DeleteTile, Writes
  <2>2. t \notin task[q].gone
    BY <1>1, <2>1 DEF Deletes, Writing, Writes
  <2> QED
    BY <1>1, <1>5, <2>1, <2>2 DEF RunsInv, HandsApart
<1> QED
  BY <1>2, <1>3, <1>4, <1>5, WriterSteps

LEMMA NoneTaken ==
  ASSUME TypeOK, LoadsInv, RunsInv, NEW p \in Tasks, TaskStep(p)
  PROVE  NoneTakenAway'
<1>1. SUFFICES ASSUME NEW a \in Tasks, NEW q \in Tasks, Writes(a)', task'[q].at = "removed"
               PROVE  task'[a].data \notin task'[q].gone
  BY DEF NoneTakenAway, Writes
<1>2. a # q
  BY <1>1 DEF Writes
<1>3. CASE a # p /\ q # p
  BY <1>1, <1>3, Others DEF RunsInv, NoneTakenAway, Writes
<1>4. CASE a = p
  <2>1. task'[q] = task[q] /\ task'[p].data = task[p].data
    BY <1>1, <1>2, <1>4, Others, WriterSteps DEF StillRuns
  <2>2. CASE Write(p)
    BY <1>1, <1>4, <2>1, <2>2 DEF Write
  <2>3. CASE Writes(p)
    BY <1>1, <1>4, <2>1, <2>3 DEF RunsInv, NoneTakenAway
  <2>4. ASSUME NEW t \in todo[p], WriteTile(p, t) \/ DeleteTile(p, t) PROVE Writes(p)
    BY <2>4 DEF WriteTile, DeleteTile, Writes
  <2> QED
    BY <1>1, <1>4, <2>2, <2>3, <2>4, WriterSteps DEF DeleteRest, Writes
<1>5. CASE q = p
  <2>1. task'[a] = task[a] /\ Loading(p)' /\ Writes(a)
    BY <1>1, <1>2, <1>5, Others DEF Writes, Loading
  <2>2. RemoveGone(p) /\ task'[p].gone = Gone(p)
    BY <1>1, <1>5, <2>1, LoadAfter
  <2>3. task[a].data \notin Gone(p)
    BY <2>1, <2>2 DEF RemoveGone, Writing, Writes
  <2> QED
    BY <1>5, <2>1, <2>2, <2>3
<1> QED
  BY <1>3, <1>4, <1>5

\* The items of a dataset change when a run of it ends, or a load takes it away.
LEMMA ItemsChange ==
  ASSUME TypeOK, LoadsInv, NEW p \in Tasks, TaskStep(p), NEW d \in Datasets, CommitRun(p) => task[p].data # d
  PROVE  items'[d] = items[d] \/ TakenAway(d)'
<1>1. CASE CommitLoad(p)
  <2>1. task[p] \in LoadTasks /\ task[p].gone = Gone(p)
    BY <1>1, Kinds DEF CommitLoad, Loading, LoadsInv, LoadFits
  <2>2. d \in task[p].gone => task[p].release \in DOMAIN Releases /\ Registry(task[p].release)[d] = Nothing
    BY <2>1 DEF LoadTasks, Gone
  <2>3. items'[d] = IF d \in task[p].gone THEN {} ELSE items[d]
    BY <1>1 DEF CommitLoad
  <2> QED
    BY <2>2, <2>3 DEF TakenAway
<1>2. CASE CommitRun(p)
  <2>1. items' = [items EXCEPT ![task[p].data] = (@ \ task[p].gone) \cup task[p].new]
    BY <1>2, RunEnds
  <2> QED
    BY <1>2, <2>1 DEF TypeOK
<1> QED
  BY <1>1, <1>2, TablesKept

\* A dataset no run of which has loaded has the rows it had.
LEMMA LoadedStay ==
  ASSUME TypeOK, NEW p \in Tasks, TaskStep(p), NEW d \in DOMAIN Listed, CommitRun(p) => task[p].data # d
  PROVE  LoadedRows(d)' = LoadedRows(d)
<1>1. \A k \in RowsOf(d) : k \in 1..Len(rows)
  BY LatestIsThere
<1>2. CASE CommitRun(p) \/ CommitUnchanged(p)
  <2>1. PICK r \in RunRows : /\ rows' = Append(rows, r) /\ r.data = task[p].data
                             /\ CommitUnchanged(p) => r.status = "unchanged"
    BY <1>2, RunEnds
  <2>2. r.data = d => r.status = "unchanged"
    BY <1>2, <2>1
  <2>3. PICK n : n = Len(rows) + 1
    OBVIOUS
  <2>4. /\ rows'[n] = r /\ RowsOf(d)' = RowsOf(d) \cup (IF r.data = d THEN {n} ELSE {})
        /\ \A k \in 1..Len(rows) : rows'[k] = rows[k]
    BY <2>1, <2>3, RowAppended
  <2> QED
    BY <1>1, <2>2, <2>4 DEF LoadedRows
<1>3. CASE rows' = rows
  BY <1>3 DEF LoadedRows, RowsOf
<1> QED
  BY <1>2, <1>3, TablesKept

\* What the run that ended last leaves differs from its list only where it was overruled.
LEMMA LastWrites ==
  ASSUME TypeOK, RunsInv, NEW p \in Tasks, CommitRun(p), NEW d, d = task[p].data, NEW n, n = Len(rows) + 1,
         NEW t, (t \in items'[d]) # (t \in Held(p))
  PROVE  /\ Contested(n, t)'
         /\ \E k \in LoadedRows(d) : task[p].seen < k
<1>1. TaskStep(p)
  BY DEF TaskStep
<1>3. /\ d \in DOMAIN Listed /\ TilesFit(p) /\ task[p].at = "deleting" /\ todo[p] = {}
      /\ items'[d] = (items[d] \ task[p].gone) \cup task[p].new
      /\ rows'[n].held = Held(p) /\ rows'[n].seen = task[p].seen /\ rows'[n].data = d /\ Len(rows) \in Nat
  BY RunOverrules DEF RunsInv
<1>4. Overruled(p, t)
  BY <1>3 DEF TilesFit
<1>5. PICK k \in LoadedRows(d) : task[p].seen < k /\ (t \in rows[k].held) # (t \in Held(p))
  BY <1>4 DEF Overruled
<1>6. k \in LoadedRows(d)' /\ rows'[k] = rows[k] /\ k \in 1..Len(rows)
  BY <1>1, <1>3, <1>5, RowsGrow
<1>7. k < n
  BY <1>3, <1>6
<1> QED
  BY <1>3, <1>5, <1>6, <1>7 DEF Contested

LEMMA LastWrittenKept ==
  ASSUME TypeOK, LoadsInv, RunsInv, NEW p \in Tasks, TaskStep(p)
  PROVE  ItemsAsLastWritten'
<1>1. SUFFICES ASSUME NEW d \in Datasets, NEW j \in LoadedRows(d)', \A k \in LoadedRows(d)' : k <= j, ~TakenAway(d)',
                      NEW t \in Tiles, (t \in items'[d]) # (t \in rows'[j].held)
               PROVE  Contested(j, t)'
  BY DEF ItemsAsLastWritten
<1>2. d \in DOMAIN Listed
  <2>1. TypeOK'
    BY TaskTypesKept
  <2>2. rows' \in Seq(RunRows) /\ j \in DOMAIN rows' /\ rows'[j].data = d
    BY <2>1 DEF TypeOK, LoadedRows, RowsOf
  <2>3. rows'[j] \in RunRows
    BY <2>2
  <2> QED
    BY <2>2, <2>3 DEF RunRows
<1>3. CASE CommitRun(p) /\ task[p].data = d
  <2>1. PICK n : n = Len(rows) + 1
    OBVIOUS
  <2>2. n \in LoadedRows(d)' /\ LoadedRows(d)' = LoadedRows(d) \cup {n} /\ Len(rows) \in Nat /\ rows'[n].held = Held(p)
    <3>1. CommitRun(p) /\ d = task[p].data
      BY <1>3
    <3>2. Len(rows) \in Nat /\ LoadedRows(d)' = LoadedRows(d) \cup {n} /\ rows'[n].held = Held(p)
      BY <2>1, <3>1, RunOverrules
    <3> QED
      BY <3>2
  <2>3. \A k \in LoadedRows(d) : k \in 1..Len(rows)
    BY <1>2, RowsGrow
  <2>4. j = n
    BY <1>1, <2>1, <2>2, <2>3
  <2> QED
    BY <1>1, <1>3, <2>1, <2>2, <2>4, LastWrites
<1>4. CASE CommitRun(p) => task[p].data # d
  <2>1. LoadedRows(d)' = LoadedRows(d) /\ items'[d] = items[d] /\ ~TakenAway(d)
    <3>1. LoadedRows(d)' = LoadedRows(d) /\ items'[d] = items[d]
      BY <1>1, <1>2, <1>4, LoadedStay, ItemsChange
    <3> QED
      BY <1>1, <3>1 DEF TakenAway
  <2>2. \A k \in LoadedRows(d) : rows'[k] = rows[k]
    BY <1>2, RowsGrow
  <2>3. Contested(j, t)
    BY <1>1, <2>1, <2>2 DEF RunsInv, ItemsAsLastWritten
  <2>4. rows[j].data = d /\ rows'[j] = rows[j]
    BY <1>1, <2>1, <2>2 DEF LoadedRows, RowsOf
  <2> QED
    BY <2>1, <2>2, <2>3, <2>4 DEF Contested
<1> QED
  BY <1>3, <1>4

LEMMA RunsStep == TypeOK /\ LoadsInv /\ RunsInv /\ [Next]_vars => RunsInv'
<1> SUFFICES ASSUME TypeOK, LoadsInv, RunsInv, [Next]_vars PROVE RunsInv'
  OBVIOUS
<1>1. CASE UNCHANGED <<items, rows, task, todo>>
  BY <1>1 DEF RunsInv, HandsApart, Writes, NoneTakenAway, Busy, Loading, RunFits, TilesFit, Overruled, Held,
              ItemsAsLastWritten, Contested, TakenAway, LoadedRows, RowsOf
<1>2. ASSUME NEW p \in Tasks, TaskStep(p) PROVE RunsInv'
  <2>1. ASSUME NEW q \in Tasks, Busy(q)', ~Loading(q)' PROVE RunFits(q)'
    <3>1. CASE q = p
      BY <1>2, <2>1, <3>1, RunFitsOn
    <3>2. CASE q # p
      <4>1. task'[q] = task[q] /\ RunFits(q) /\ task[q] \in RunTasks
        BY <1>2, <2>1, <3>2, Others, Kinds DEF Busy, Loading, RunsInv
      <4>2. task[q].seen \in Nat /\ task[q].seen <= Len(rows')
        BY <1>2, <4>1, RowsGrow DEF RunTasks, RunFits
      <4> QED
        BY <4>1, <4>2 DEF RunFits, Writes
    <3> QED
      BY <3>1, <3>2
  <2>2. ASSUME NEW q \in Tasks, Writes(q)' PROVE TilesFit(q)'
    <3>1. q # p => Writes(q)
      BY <1>2, <2>2, Others DEF Writes
    <3> QED
      BY <1>2, <2>2, <3>1, TilesOn, TilesKept
  <2>3. HandsApart'
    <3>1. SUFFICES ASSUME NEW a \in Tasks, NEW b \in Tasks, a # b, Writes(a)', Writes(b)', task'[a].data = task'[b].data
                   PROVE  task'[a].new \cap task'[b].new = {} /\ task'[a].gone \cap task'[b].gone = {}
      BY DEF HandsApart
    <3>2. CASE a # p /\ b # p
      BY <1>2, <3>1, <3>2, Others DEF RunsInv, HandsApart, Writes
    <3>3. CASE a = p
      BY <1>2, <3>1, <3>3, HandsKept
    <3>4. CASE b = p
      BY <1>2, <3>1, <3>4, HandsKept
    <3> QED
      BY <3>2, <3>3, <3>4
  <2> QED
    BY <1>2, <2>1, <2>2, <2>3, NoneTaken, LastWrittenKept DEF RunsInv
<1> QED
  BY <1>1, <1>2, StepCases, WorldKeeps DEF vars

-----------------------------------------------------------------------------
\* Runs of a dataset that follow one another

LEMMA AloneInit == Init => AloneInv
<1> SUFFICES ASSUME Init PROVE AloneInv
  OBVIOUS
<1>1. rows = <<>> /\ \A p \in Tasks : ~Busy(p)
  BY DEF Init, Busy, Idle
<1>2. DOMAIN rows = {} /\ \A d : RowsOf(d) = {}
  BY <1>1 DEF RowsOf
<1> QED
  BY <1>1, <1>2 DEF AloneInv, OneRun, InOrder

LEMMA OneRunKept ==
  ASSUME TypeOK, OneRun, habit = "alone", NEW p \in Tasks, TaskStep(p)
  PROVE  OneRun'
<1>1. SUFFICES ASSUME NEW q \in Tasks \ {p}, Busy(p)', Busy(q)', ~Loading(p)', ~Loading(q)', task'[p].data = task'[q].data
               PROVE  FALSE
  BY Others DEF OneRun, Busy, Loading
<1>2. task'[q] = task[q] /\ Busy(q) /\ ~Loading(q)
  BY <1>1, Others DEF Busy, Loading
<1>3. CASE StillRuns(p)
  BY <1>1, <1>2, <1>3 DEF StillRuns, OneRun
<1>4. ASSUME NEW d \in DOMAIN Listed, NEW force \in BOOLEAN, StartRun(p, d, force), task'[p].data = d PROVE FALSE
  <2>1. Runs(d) = {}
    BY <1>4 DEF StartRun
  <2> QED
    BY <1>1, <1>2, <1>4, <2>1 DEF Runs
<1> QED
  BY <1>1, <1>3, <1>4, RunAfter

\* The rows of a dataset stay as they are unless a run of it ends.
LEMMA RowsStay ==
  ASSUME TypeOK, NEW p \in Tasks, TaskStep(p), NEW d \in DOMAIN Listed,
         (CommitRun(p) \/ CommitUnchanged(p)) => task[p].data # d
  PROVE  RowsOf(d)' = RowsOf(d) /\ \A i \in RowsOf(d) : rows'[i] = rows[i]
<1>1. \A i \in RowsOf(d) : i \in 1..Len(rows)
  BY LatestIsThere
<1>2. CASE CommitRun(p) \/ CommitUnchanged(p)
  <2>1. PICK r \in RunRows : rows' = Append(rows, r) /\ r.data # d
    BY <1>2, RunEnds
  <2> QED
    BY <1>1, <2>1, RowAppended, ZenonT(30)
<1>3. CASE rows' = rows
  BY <1>3 DEF RowsOf
<1> QED
  BY <1>2, <1>3, TablesKept

LEMMA CountGrows ==
  ASSUME TypeOK, NEW p \in Tasks, TaskStep(p)
  PROVE  /\ count.runs \in Nat /\ count'.runs \in Nat /\ count.runs <= count'.runs
         /\ \A d \in DOMAIN Listed, force \in BOOLEAN : StartRun(p, d, force) => count'.runs = count.runs + 1
<1>1. count \in [runs : Nat, loads : Nat]
  BY DEF TypeOK
<1>2. count' \in {count, [count EXCEPT !.runs = @ + 1], [count EXCEPT !.loads = @ + 1]}
  BY TablesKept DEF StartLoad, StartRun
<1>3. \A d \in DOMAIN Listed, force \in BOOLEAN : StartRun(p, d, force) => count' = [count EXCEPT !.runs = @ + 1]
  BY DEF StartRun
<1> QED
  BY <1>1, <1>2, <1>3

LEMMA InOrderKept ==
  ASSUME TypeOK, AloneInv, habit = "alone", NEW p \in Tasks, TaskStep(p), NEW d \in DOMAIN Listed
  PROVE  InOrder(d)'
<1>1. InOrder(d) /\ \A i \in RowsOf(d) : i \in 1..Len(rows) /\ rows[i].started \in Nat
  BY LatestIsThere DEF AloneInv, RunRows
<1>2. CASE (CommitRun(p) \/ CommitUnchanged(p)) => task[p].data # d
  <2>1. RowsOf(d)' = RowsOf(d) /\ \A i \in RowsOf(d) : rows'[i] = rows[i]
    BY <1>2, RowsStay
  <2>2. \A i \in RowsOf(d) : rows[i].started <= count'.runs
    BY <1>1, CountGrows DEF InOrder
  <2> QED
    BY <1>1, <2>1, <2>2 DEF InOrder, IsLastRow
<1>3. CASE (CommitRun(p) \/ CommitUnchanged(p)) /\ task[p].data = d
  <2>1. PICK r \in RunRows : rows' = Append(rows, r) /\ r.data = d /\ r.started = task[p].started
    BY <1>3, RunEnds
  <2>2. PICK n : n = Len(rows) + 1
    OBVIOUS
  <2>3. /\ RowsOf(d)' = RowsOf(d) \cup {n} /\ rows'[n] = r /\ Len(rows) \in Nat
        /\ \A i \in 1..Len(rows) : rows'[i] = rows[i]
    BY <2>1, <2>2, RowAppended
  <2>4. Busy(p) /\ ~Loading(p)
    BY <1>3 DEF CommitRun, CommitUnchanged, Busy, Loading
  <2>5. RunFollows(p)
    BY <2>4 DEF AloneInv
  <2>6. r.started \in Nat /\ r.started <= count.runs /\ \A i \in RowsOf(d) : rows[i].started < r.started
    BY <1>3, <2>1, <2>5 DEF RunFollows, RunRows
  <2>7. \A i \in RowsOf(d) : i < n /\ rows'[i] = rows[i]
    BY <1>1, <2>2, <2>3
  <2>8. \A i, j \in RowsOf(d)' : i < j => rows'[i].started < rows'[j].started
    <3>1. SUFFICES ASSUME NEW i \in RowsOf(d)', NEW j \in RowsOf(d)', i < j PROVE rows'[i].started < rows'[j].started
      OBVIOUS
    <3>2. CASE i \in RowsOf(d) /\ j \in RowsOf(d)
      BY <1>1, <2>7, <3>1, <3>2 DEF InOrder
    <3>3. CASE i \in RowsOf(d) /\ j = n
      BY <2>3, <2>6, <2>7, <3>3
    <3>4. CASE i = n
      BY <1>1, <2>2, <2>3, <2>7, <3>1, <3>4
    <3> QED
      BY <2>3, <3>2, <3>3, <3>4
  <2>9. \A i \in RowsOf(d)' : rows'[i].started <= count'.runs
    <3>1. count.runs \in Nat /\ count'.runs \in Nat /\ count.runs <= count'.runs
      BY CountGrows
    <3>2. r.started <= count'.runs
      BY <2>6, <3>1
    <3>3. \A i \in RowsOf(d) : rows[i].started <= count'.runs
      BY <1>1, <3>1 DEF InOrder
    <3> QED
      BY <2>3, <2>7, <3>2, <3>3
  <2>10. IsLastRow(d, n)'
    <3>1. \A j \in RowsOf(d)' : j <= n
      BY <1>1, <2>2, <2>3, <2>7
    <3> QED
      BY <2>3, <3>1 DEF IsLastRow
  <2> QED
    BY <2>8, <2>9, <2>10 DEF InOrder, IsLastRow
<1> QED
  BY <1>2, <1>3

\* The run that started last has the last row.
LEMMA LastIsLatest ==
  ASSUME TypeOK, NEW d \in DOMAIN Listed, InOrder(d), LastVersion(d) # Nothing
  PROVE  \E m \in RowsOf(d) : IsLastRow(d, m) /\ LastVersion(d) = rows[m].version
<1>1. RowsOf(d) # {}
  BY DEF LastVersion
<1>2. PICK m \in RowsOf(d) : IsLastRow(d, m)
  BY <1>1 DEF InOrder
<1>3. \A i \in RowsOf(d) : i \in 1..Len(rows) /\ rows[i].started \in Nat
  BY LatestIsThere DEF RunRows
<1>4. \A j \in RowsOf(d) : j # m => rows[j].started < rows[m].started
  BY <1>2, <1>3 DEF IsLastRow, InOrder, TypeOK
<1>5. \A j \in RowsOf(d) : rows[j].started <= rows[m].started
  BY <1>3, <1>4
<1>6. \A i \in RowsOf(d) : (\A j \in RowsOf(d) : rows[j].started <= rows[i].started) => i = m
  BY <1>3, <1>4
<1>7. (CHOOSE i \in RowsOf(d) : \A j \in RowsOf(d) : rows[j].started <= rows[i].started) = m
  BY <1>5, <1>6
<1> QED
  BY <1>1, <1>2, <1>7 DEF LastVersion

LEMMA RunFollowsOn ==
  ASSUME TypeOK, AloneInv, habit = "alone", NEW p \in Tasks, TaskStep(p), NEW q \in Tasks, Busy(q)', ~Loading(q)'
  PROVE  RunFollows(q)'
<1>0. task'[q] \in RunTasks
  <2>1. TypeOK'
    BY TaskTypesKept
  <2> QED
    BY <2>1, SMTT(30) DEF TypeOK, Busy, Loading, Idle, LoadTasks, RunTasks
<1>1. PICK d \in DOMAIN Listed : task'[q].data = d
  BY <1>0 DEF RunTasks
<1>2. CASE (q # p /\ task'[q] = task[q]) \/ (q = p /\ StillRuns(p) /\ ~CommitRun(p) /\ ~CommitUnchanged(p))
  <2>1. /\ Busy(q) /\ ~Loading(q) /\ task[q].data = d
        /\ task'[q].started = task[q].started /\ task'[q].known = task[q].known /\ task'[q].seen = task[q].seen
    BY <1>1, <1>2 DEF StillRuns, Busy, Loading
  <2>2. RunFollows(q) /\ task[q] \in RunTasks
    BY <2>1, Kinds DEF AloneInv
  <2>3. (CommitRun(p) \/ CommitUnchanged(p)) => task[p].data # d
    BY <1>2, <2>1 DEF AloneInv, OneRun, CommitRun, CommitUnchanged, Busy, Loading
  <2>4. RowsOf(d)' = RowsOf(d) /\ \A i \in RowsOf(d) : rows'[i] = rows[i]
    BY <2>3, RowsStay
  <2>5. task[q].started <= count'.runs
    BY <2>2, CountGrows DEF RunFollows, RunTasks
  <2> QED
    BY <1>1, <2>1, <2>2, <2>4, <2>5 DEF RunFollows, IsLastRow
<1>3. ASSUME q = p, NEW force \in BOOLEAN, StartRun(p, d, force), task'[p].started = count.runs + 1,
             task'[p].known = IF force THEN Nothing ELSE LastVersion(d), task'[p].seen = Len(rows)
      PROVE  RunFollows(q)'
  <2>1. RowsOf(d)' = RowsOf(d) /\ \A i \in RowsOf(d) : rows'[i] = rows[i]
    <3>1. ~CommitRun(p) /\ ~CommitUnchanged(p)
      BY <1>3 DEF StartRun, CommitRun, CommitUnchanged, Busy
    <3> QED
      BY <3>1, RowsStay
  <2>2. count'.runs = count.runs + 1 /\ count.runs \in Nat
    BY <1>3, CountGrows
  <2>3. \A i \in RowsOf(d) : rows[i].started < count.runs + 1 /\ i <= Len(rows)
    <3>1. \A i \in RowsOf(d) : rows[i].started \in Nat /\ rows[i].started <= count.runs /\ i \in 1..Len(rows)
      BY LatestIsThere DEF AloneInv, InOrder, RunRows
    <3> QED
      BY <2>2, <3>1
  <2>4. task'[p].known # Nothing => \E m \in RowsOf(d) : IsLastRow(d, m) /\ task'[p].known = rows[m].version
    BY <1>3, LastIsLatest DEF AloneInv
  <2>5. task'[p].started <= count'.runs
    BY <1>3, <2>2
  <2> QED
    BY <1>1, <1>3, <2>1, <2>3, <2>4, <2>5 DEF RunFollows, IsLastRow
<1>4. ASSUME q = p, StillRuns(p) PROVE task'[p] # Idle /\ ~CommitRun(p) /\ ~CommitUnchanged(p)
  <2>1. CommitRun(p) \/ CommitUnchanged(p) => task'[p] = Idle
    BY TaskMoves DEF CommitRun, CommitUnchanged, Abandon
  <2> QED
    BY <1>4, <2>1 DEF Busy, Idle
<1>5. q = p => StillRuns(p) \/ \E force \in BOOLEAN :
                 /\ StartRun(p, d, force) /\ task'[p].started = count.runs + 1
                 /\ task'[p].known = IF force THEN Nothing ELSE LastVersion(d)
                 /\ task'[p].seen = Len(rows)
  BY <1>1, RunAfter
<1> QED
  BY <1>2, <1>3, <1>4, <1>5, Others

\* A row stands on what it stood on.
LEMMA StandsOnKept ==
  ASSUME TypeOK, LoadsInv, RunsInv, NEW p \in Tasks, TaskStep(p), NEW i \in 1..Len(rows), NEW j \in 1..i, StandsOn(i, j)
  PROVE  StandsOn(i, j)'
<1>1. PICK d \in DOMAIN Listed : d = rows[i].data
  <2>1. rows[i] \in RunRows
    BY DEF TypeOK
  <2> QED
    BY <2>1 DEF RunRows
<1>2. i \in RowsOf(d) /\ Len(rows) \in Nat /\ \A k \in j..i : k \in 1..Len(rows)
  BY <1>1 DEF RowsOf, TypeOK
<1>3. /\ rows[j].data = d /\ rows[j].status = "loaded"
      /\ \A k \in j..i : rows[k].data = d => rows[k].version = rows[i].version
      /\ IsLastRow(d, i) => items[d] = rows[j].held \/ TakenAway(d)
  BY <1>1 DEF StandsOn
<1>4. \A k \in 1..Len(rows) : rows'[k] = rows[k]
  <2>1. CASE CommitRun(p) \/ CommitUnchanged(p)
    BY <2>1, RunEnds, RowAppended
  <2>2. CASE rows' = rows
    BY <2>2
  <2> QED
    BY <2>1, <2>2, TablesKept
<1>5. j \in 1..Len(rows) /\ rows'[i] = rows[i] /\ rows'[j] = rows[j]
  BY <1>2, <1>4
<1>6. IsLastRow(d, i)' => items'[d] = rows[j].held \/ TakenAway(d)'
  <2>1. CASE (CommitRun(p) \/ CommitUnchanged(p)) /\ task[p].data = d
    <3>1. PICK r \in RunRows : rows' = Append(rows, r) /\ r.data = d
      BY <2>1, RunEnds
    <3>2. Len(rows) + 1 \in RowsOf(d)'
      BY <3>1, RowAppended
    <3> QED
      BY <1>2, <3>2 DEF IsLastRow
  <2>2. CASE (CommitRun(p) \/ CommitUnchanged(p)) => task[p].data # d
    <3>1. IsLastRow(d, i)' => IsLastRow(d, i)
      BY <2>2, RowsStay DEF IsLastRow
    <3>2. items'[d] = items[d] \/ TakenAway(d)'
      BY <2>2, ItemsChange, TileLists
    <3>3. TakenAway(d) /\ items'[d] = items[d] => TakenAway(d)'
      BY DEF TakenAway
    <3> QED
      BY <1>3, <3>1, <3>2, <3>3
  <2> QED
    BY <2>1, <2>2
<1> QED
  BY <1>1, <1>2, <1>3, <1>4, <1>5, <1>6 DEF StandsOn

\* The row of a run that ends stands on itself, or on what the last row stood on.
LEMMA NewRowStands ==
  ASSUME TypeOK, LoadsInv, RunsInv, AloneInv, habit = "alone", NEW p \in Tasks, CommitRun(p) \/ CommitUnchanged(p),
         NEW n, n = Len(rows) + 1
  PROVE  \E j \in 1..n : StandsOn(n, j)'
<1>1. n = Len(rows) + 1
  OBVIOUS
<1>2. PICK d \in DOMAIN Listed : d = task[p].data
  BY RunEnds DEF RunTasks
<1>3. PICK r \in RunRows :
            /\ rows' = Append(rows, r) /\ r.data = d
            /\ CommitRun(p) => r.status = "loaded" /\ r.held = Held(p)
            /\ CommitUnchanged(p) => r.status = "unchanged" /\ r.version = task[p].known
  BY <1>2, RunEnds
<1>4. /\ Len(rows) \in Nat /\ rows'[n] = r /\ \A k \in 1..Len(rows) : rows'[k] = rows[k]
      /\ RowsOf(d)' = RowsOf(d) \cup {n} /\ d \in Datasets
  BY <1>1, <1>3, RowAppended, TileLists
<1>5. Busy(p) /\ ~Loading(p)
  BY DEF CommitRun, CommitUnchanged, Busy, Loading
<1>6. CASE CommitRun(p)
  <2>1. items'[d] = Held(p)
    <3>1. items'[d] \subseteq Tiles /\ Held(p) \subseteq Tiles
      <4>1. TypeOK' /\ task[p] \in RunTasks
        BY TaskTypesKept, RunEnds DEF TaskStep
      <4> QED
        BY <1>4, <4>1 DEF TypeOK, RunTasks, Held
    <3>2. ASSUME NEW t \in Tiles, (t \in items'[d]) # (t \in Held(p)) PROVE FALSE
      <4>1. PICK k \in LoadedRows(d) : task[p].seen < k
        BY <1>1, <1>2, <1>6, <3>2, LastWrites
      <4>2. k \in RowsOf(d)
        BY <4>1 DEF LoadedRows
      <4>3. k <= task[p].seen
        BY <1>2, <1>5, <4>2 DEF AloneInv, RunFollows
      <4>4. task[p].seen \in Nat /\ k \in Nat
        BY <1>2, <4>2, RunEnds, LatestIsThere DEF RunTasks
      <4> QED
        BY <4>1, <4>3, <4>4
    <3> QED
      BY <3>1, <3>2
  <2>2. \A k \in n..n : k = n
    BY <1>1, <1>4
  <2>3. StandsOn(n, n)'
    BY <1>3, <1>4, <1>6, <2>1, <2>2 DEF StandsOn
  <2> QED
    BY <1>1, <1>4, <2>3
<1>7. CASE CommitUnchanged(p)
  <2>1. task[p].known # Nothing
    BY <1>5, <1>7, CatalogAssumption DEF CommitUnchanged, RunsInv, RunFits
  <2>2. PICK m \in RowsOf(d) : IsLastRow(d, m) /\ task[p].known = rows[m].version
    BY <1>2, <1>5, <2>1 DEF AloneInv, RunFollows
  <2>3. m \in 1..Len(rows) /\ rows[m].data = d /\ m \in DOMAIN rows
    BY DEF RowsOf, TypeOK
  <2>4. PICK j \in 1..m : StandsOn(m, j)
    BY <2>3 DEF AloneInv
  <2>5. /\ rows[j].data = d /\ rows[j].status = "loaded"
        /\ \A k \in j..m : rows[k].data = d => rows[k].version = rows[m].version
        /\ items[d] = rows[j].held \/ TakenAway(d)
    BY <2>2, <2>3, <2>4 DEF StandsOn
  <2>6. j \in 1..Len(rows) /\ rows'[j] = rows[j]
    BY <1>4, <2>3
  <2>7. ASSUME NEW k \in j..n, rows'[k].data = d PROVE rows'[k].version = r.version
    <3>1. CASE k = n
      BY <1>4, <3>1
    <3>2. CASE k # n
      <4>1. k \in 1..Len(rows) /\ rows'[k] = rows[k]
        BY <1>1, <1>4, <2>6, <3>2
      <4>2. k \in RowsOf(d)
        BY <2>7, <4>1 DEF RowsOf, TypeOK
      <4>3. k \in j..m
        BY <2>2, <2>6, <2>3, <4>1, <4>2 DEF IsLastRow
      <4> QED
        BY <1>3, <1>7, <2>2, <2>5, <2>7, <4>1, <4>3
    <3> QED
      BY <3>1, <3>2
  <2>8. items' = items
    BY <1>7 DEF CommitUnchanged
  <2>9. items'[d] = rows[j].held \/ TakenAway(d)'
    BY <2>5, <2>8 DEF TakenAway
  <2>10. StandsOn(n, j)'
    BY <1>3, <1>4, <2>5, <2>6, <2>7, <2>9 DEF StandsOn
  <2> QED
    BY <1>1, <1>4, <2>6, <2>10
<1> QED
  BY <1>6, <1>7

LEMMA AloneStep == TypeOK /\ LoadsInv /\ RunsInv /\ AloneInv /\ [Next]_vars => AloneInv'
<1> SUFFICES ASSUME TypeOK, LoadsInv, RunsInv, AloneInv, [Next]_vars PROVE AloneInv'
  OBVIOUS
<1>1. CASE UNCHANGED <<items, rows, task, habit, count>>
  BY <1>1 DEF AloneInv, OneRun, Busy, Loading, InOrder, RowsOf, IsLastRow, RunFollows, StandsOn, TakenAway
<1>2. ASSUME NEW p \in Tasks, TaskStep(p), habit' = "alone"
      PROVE  /\ OneRun' /\ \A d \in DOMAIN Listed : InOrder(d)'
             /\ \A q \in Tasks : Busy(q)' /\ ~Loading(q)' => RunFollows(q)'
             /\ \A i \in DOMAIN rows' : \E j \in 1..i : StandsOn(i, j)'
  <2>1. habit = "alone"
    BY <1>2, TablesKept
  <2>2. OneRun'
    BY <1>2, <2>1, OneRunKept DEF AloneInv
  <2>3. \A d \in DOMAIN Listed : InOrder(d)'
    BY <1>2, <2>1, InOrderKept
  <2>4. \A q \in Tasks : Busy(q)' /\ ~Loading(q)' => RunFollows(q)'
    BY <1>2, <2>1, RunFollowsOn
  <2>5. ASSUME NEW i \in DOMAIN rows' PROVE \E j \in 1..i : StandsOn(i, j)'
    <3>1. ASSUME i \in 1..Len(rows) PROVE \E j \in 1..i : StandsOn(i, j)'
      <4>1. i \in DOMAIN rows
        BY <3>1 DEF TypeOK
      <4>2. PICK j \in 1..i : StandsOn(i, j)
        BY <2>1, <4>1 DEF AloneInv
      <4> QED
        BY <1>2, <3>1, <4>2, StandsOnKept
    <3>2. CASE CommitRun(p) \/ CommitUnchanged(p)
      <4>1. i \in 1..(Len(rows) + 1) /\ Len(rows) \in Nat
        BY <3>2, RunEnds, RowAppended
      <4>2. CASE i = Len(rows) + 1
        BY <2>1, <3>2, <4>2, NewRowStands
      <4> QED
        BY <3>1, <4>1, <4>2
    <3>3. CASE rows' = rows
      BY <3>1, <3>3 DEF TypeOK
    <3> QED
      BY <1>2, <3>2, <3>3, TablesKept
  <2> QED
    BY <2>2, <2>3, <2>4, <2>5
<1>3. ASSUME NEW p \in Tasks, TaskStep(p) PROVE AloneInv'
  BY <1>2, <1>3 DEF AloneInv
<1> QED
  BY <1>1, <1>3, StepCases, WorldKeeps DEF vars

-----------------------------------------------------------------------------

LEMMA InvHolds == Spec => []Inv
<1>1. Init => Inv
  BY TypeInit, LoadsInit, RunsInit, AloneInit DEF Inv
<1>2. Inv /\ [Next]_vars => Inv'
  BY TypeStep, LoadsStep, RunsStep, AloneStep DEF Inv
<1> QED
  BY <1>1, <1>2, PTL DEF Spec

\* Whatever loads run at once, the one that commits last leaves the catalogue as its release wants
\* it, with every migration in effect once (load.py: one transaction for the whole run).
THEOREM LoadsHold == Spec => []TheLastLoadHolds
<1>1. Inv => TheLastLoadHolds
  BY DEF Inv, LoadsInv
<1> QED
  BY <1>1, InvHolds, PTL

\* However runs overlap, a tile is as the run that committed last wants it, unless a run that
\* committed while that one was under way wanted it otherwise.
THEOREM ListsAsLastWritten == Spec => []ItemsAsLastWritten
<1>1. Inv => ItemsAsLastWritten
  BY DEF Inv, RunsInv
<1> QED
  BY <1>1, InvHolds, PTL

\* Runs of a dataset that follow one another say "unchanged" only of what a run loaded.
THEOREM UnchangedHolds == Spec => []UnchangedIsTrue
<1>1. ASSUME Inv PROVE UnchangedIsTrue
  <2>1. SUFFICES ASSUME habit = "alone", NEW i \in DOMAIN rows, rows[i].status = "unchanged"
                 PROVE  \E j \in 1..(i - 1) :
                          /\ rows[j].data = rows[i].data /\ rows[j].status = "loaded" /\ rows[j].version = rows[i].version
                          /\ \A k \in j..i : rows[k].data = rows[i].data => rows[k].version = rows[i].version
                          /\ i = Len(rows) => items[rows[i].data] = rows[j].held \/ TakenAway(rows[i].data)
    BY DEF UnchangedIsTrue, TakenAway
  <2>2. i \in 1..Len(rows) /\ Len(rows) \in Nat /\ DOMAIN rows = 1..Len(rows)
    BY <1>1 DEF Inv, TypeOK
  <2>3. PICK j \in 1..i : StandsOn(i, j)
    BY <1>1, <2>1 DEF Inv, AloneInv
  <2>4. j # i
    BY <2>1, <2>3 DEF StandsOn
  <2>5. j \in 1..(i - 1) /\ j \in j..i
    BY <2>2, <2>4
  <2>6. i = Len(rows) => IsLastRow(rows[i].data, i)
    BY <2>2 DEF IsLastRow, RowsOf
  <2> QED
    BY <2>3, <2>5, <2>6 DEF StandsOn
<1> QED
  BY <1>1, InvHolds, PTL

-----------------------------------------------------------------------------
(* What is offered is served.                                              *)

\* An entry a process serves.
Fit(e) == IsEntry(e) /\ EntryFits(e) /\ AdapterServes(e) /\ IndexPresetsServe(e)

\* What a filter that measures relies on.
LEMMA MeasuresAreBacked ==
  ASSUME NEW e, Fit(e), NEW h \in Elements(e.filters), h.measure # {}
  PROVE  /\ h.kind = "range" /\ MeasurerBuilt(e) /\ e.mask # {} /\ e.format = "cog"
         /\ \A m \in e.mask : h.measure \cap ClassMeasures \subseteq {s.measure : s \in m.shares}
<1>1. h.kind = "range"
      /\ \E m \in e.mask : m.clouds # {} /\ h.measure \cap ClassMeasures \subseteq {s.measure : s \in m.shares}
  BY DEF Fit, EntryFits, FiltersFit, WithinAoiFits
<1>2. PICK m \in e.mask : m.clouds # {} /\ h.measure \cap ClassMeasures \subseteq {s.measure : s \in m.shares}
  BY <1>1
<1>3. \A n \in e.mask : n = m
  BY DEF Fit, IsEntry
<1>4. e.format = "cog"
  BY <1>2 DEF Fit, EntryFits, MaskFits
<1> QED
  BY <1>1, <1>2, <1>3, <1>4 DEF MeasurerBuilt

\* A filter a search may name: one of the entry, the range of one under its measure, or the coverage.
LEMMA FilterOfEntry ==
  ASSUME NEW e, Fit(e), NEW f \in OfferedFilters(e)
  PROVE  \/ f.measure = {} /\ f.name # AoiCoverage /\ Elements(e.filters) # {}
         \/ f.measure = {} /\ f.name = AoiCoverage /\ f.kind = "range"
         \/ \E h \in Elements(e.filters) : f.measure # {} /\ f.measure \subseteq h.measure /\ f.kind = h.kind
<1>1. CASE f \in {[name |-> h.property, kind |-> h.kind, measure |-> {}] : h \in Elements(e.filters)}
  <2>1. PICK h \in Elements(e.filters) : f = [name |-> h.property, kind |-> h.kind, measure |-> {}]
    BY <1>1
  <2>2. h.property # AoiCoverage
    BY DEF Fit, EntryFits, FiltersFit, FilterFits, Reserved
  <2> QED
    BY <2>1, <2>2
<1>2. CASE \E h \in Elements(e.filters) : f \in {[name |-> m, kind |-> h.kind, measure |-> {m}] : m \in h.measure}
  <2>1. PICK h \in Elements(e.filters) : f \in {[name |-> m, kind |-> h.kind, measure |-> {m}] : m \in h.measure}
    BY <1>2
  <2>2. PICK m \in h.measure : f = [name |-> m, kind |-> h.kind, measure |-> {m}]
    BY <2>1
  <2> QED
    BY <2>2
<1>3. CASE f = [name |-> AoiCoverage, kind |-> "range", measure |-> {}]
  BY <1>3
<1> DEFINE ranges(h) == {[name |-> m, kind |-> h.kind, measure |-> {m}] : m \in h.measure}
           own == {[name |-> h.property, kind |-> h.kind, measure |-> {}] : h \in Elements(e.filters)}
           coverage == IF e.aoiCoverage THEN {[name |-> AoiCoverage, kind |-> "range", measure |-> {}]} ELSE {}
<1>a. OfferedFilters(e) = own \cup (UNION {ranges(h) : h \in Elements(e.filters)}) \cup coverage
  BY DEF OfferedFilters
<1>b. f \in coverage => f = [name |-> AoiCoverage, kind |-> "range", measure |-> {}]
  OBVIOUS
<1> HIDE DEF coverage
<1>4. f \in own \/ f \in UNION {ranges(h) : h \in Elements(e.filters)} \/ f \in coverage
  BY <1>a
<1>5. f \in UNION {ranges(h) : h \in Elements(e.filters)} => \E h \in Elements(e.filters) : f \in ranges(h)
  BY Zenon
<1> QED
  BY <1>1, <1>2, <1>3, <1>4, <1>5, <1>b

LEMMA EntryHas ==
  ASSUME NEW e, Elements(e.filters) # {}
  PROVE  e.filters # <<>>
BY DEF Elements

LEMMA FiltersAreServed ==
  ASSUME NEW e, Fit(e), NEW f \in OfferedFilters(e)
  PROVE  /\ KeptAsRange(f) /\ (e.holding = "federated" => SourceAnswers(e, f))
         /\ f.measure # {} => e.holding = "federated" /\ MeasurerBuilt(e) /\ Measured(e, f)
         /\ e.evaluate => e.holding = "federated" /\ PassJudged(e, f) /\ HasDay(e)
<1>1. e.holding = "federated" => AdapterSpecs[e.adapter].search
  BY DEF Fit, AdapterServes
<1>2. Elements(e.filters) # {} => e.holding = "federated" /\ AdapterSpecs[e.adapter].query
  BY EntryHas DEF Fit, AdapterServes, EntryFits, FiltersFit
<1>3. e.evaluate => e.holding = "federated" /\ e.viewer # {} /\ HasDay(e)
  BY DEF Fit, EntryFits, FiltersFit, SearchCapabilitiesFit, HasDay
<1>4. CASE f.measure = {} /\ (f.name = AoiCoverage => f.kind = "range") /\ (f.name # AoiCoverage => Elements(e.filters) # {})
  BY <1>1, <1>2, <1>3, <1>4 DEF KeptAsRange, SourceAnswers, PassJudged
<1>5. CASE \E h \in Elements(e.filters) : f.measure # {} /\ f.measure \subseteq h.measure /\ f.kind = h.kind
  <2>1. PICK h \in Elements(e.filters) : f.measure # {} /\ f.measure \subseteq h.measure /\ f.kind = h.kind
    BY <1>5
  <2>2. /\ h.kind = "range" /\ MeasurerBuilt(e) /\ e.mask # {} /\ e.format = "cog"
        /\ \A m \in e.mask : h.measure \cap ClassMeasures \subseteq {s.measure : s \in m.shares}
    BY <2>1, MeasuresAreBacked
  <2>3. Measured(e, f)
    BY <2>1, <2>2 DEF Measured
  <2> QED
    BY <1>1, <1>2, <1>3, <2>1, <2>2, <2>3 DEF KeptAsRange, SourceAnswers, PassJudged
<1> QED
  BY <1>4, <1>5, FilterOfEntry

LEMMA SearchesAreServed ==
  ASSUME NEW e, Fit(e), NEW q \in SearchesOffered(e)
  PROVE  SearchReply(e, q) = "answered"
<1>1. PICK name \in FilterNames(e), pass \in Evaluations(e) : q = Question("search", e.id, name, pass)
  BY DEF SearchesOffered
<1> DEFINE named == {f \in OfferedFilters(e) : f.name = q.name}
           f == CHOOSE g \in named : TRUE
<1>2. q.name = name
  BY <1>1 DEF Question
<1>3. named # {}
  <2>1. CASE \E h \in Elements(e.filters) : name = h.property
    <3>1. PICK h \in Elements(e.filters) : name = h.property
      BY <2>1
    <3> DEFINE g == [name |-> h.property, kind |-> h.kind, measure |-> {}]
    <3>2. g \in OfferedFilters(e) /\ g.name = name
      BY <3>1 DEF OfferedFilters
    <3> HIDE DEF g
    <3> QED
      BY <1>2, <3>2
  <2>2. CASE \E h \in Elements(e.filters) : name \in h.measure
    <3>1. PICK h \in Elements(e.filters) : name \in h.measure
      BY <2>2
    <3> DEFINE g == [name |-> name, kind |-> h.kind, measure |-> {name}]
    <3>2. g \in {[name |-> m, kind |-> h.kind, measure |-> {m}] : m \in h.measure} /\ g.name = name
      BY <3>1
    <3> HIDE DEF g
    <3>3. g \in OfferedFilters(e)
      BY <3>2, Zenon DEF OfferedFilters
    <3> QED
      BY <1>2, <3>2, <3>3
  <2>3. CASE e.aoiCoverage /\ name = AoiCoverage
    <3> DEFINE g == [name |-> AoiCoverage, kind |-> "range", measure |-> {}]
    <3> DEFINE ranges(h) == {[name |-> m, kind |-> h.kind, measure |-> {m}] : m \in h.measure}
               own == {[name |-> h.property, kind |-> h.kind, measure |-> {}] : h \in Elements(e.filters)}
               coverage == IF e.aoiCoverage THEN {[name |-> AoiCoverage, kind |-> "range", measure |-> {}]} ELSE {}
    <3>1. OfferedFilters(e) = own \cup (UNION {ranges(h) : h \in Elements(e.filters)}) \cup coverage
      BY DEF OfferedFilters
    <3>2. g.name = name /\ g \in coverage
      BY <2>3
    <3> HIDE DEF g, own, coverage
    <3>3. g \in OfferedFilters(e)
      BY <3>1, <3>2
    <3> QED
      BY <1>2, <3>2, <3>3
  <2> DEFINE coverage == IF e.aoiCoverage THEN {AoiCoverage} ELSE {}
  <2>a. FilterNames(e) = {h.property : h \in Elements(e.filters)} \cup (UNION {h.measure : h \in Elements(e.filters)}) \cup coverage
    BY DEF FilterNames
  <2>b. name \in coverage => e.aoiCoverage /\ name = AoiCoverage
    OBVIOUS
  <2> HIDE DEF coverage
  <2>4. \/ \E h \in Elements(e.filters) : name = h.property
        \/ name \in UNION {h.measure : h \in Elements(e.filters)}
        \/ name \in coverage
    BY <2>a
  <2>5. name \in UNION {h.measure : h \in Elements(e.filters)} => \E h \in Elements(e.filters) : name \in h.measure
    BY Zenon
  <2> QED
    BY <2>1, <2>2, <2>3, <2>4, <2>5, <2>b
<1>4. f \in OfferedFilters(e)
  BY <1>3
<1>5. SearchReply(e, q) =
        LET byPass == q.pass /\ e.evaluate
        IN  IF ~KeptAsRange(f) THEN "broken"
            ELSE IF (f.measure # {} \/ byPass) /\ e.holding # "federated" THEN "refused"
            ELSE IF e.holding = "federated" /\ ~SourceAnswers(e, f) THEN "broken"
            ELSE IF byPass /\ ~PassJudged(e, f) THEN "refused"
            ELSE IF f.measure # {} /\ ~MeasurerBuilt(e) THEN "broken"
            ELSE IF f.measure # {} /\ ~Measured(e, f) THEN "unread"
            ELSE IF byPass /\ ~HasDay(e) THEN "apart"
            ELSE "answered"
  BY <1>3 DEF SearchReply
<1> HIDE DEF f
<1> QED
  BY <1>4, <1>5, FiltersAreServed

LEMMA StepsAreServed ==
  ASSUME NEW e, Fit(e), e.tier = "processing"
  PROVE  /\ e.masking => MaskReply(e) = "answered"
         /\ \A p \in Elements(e.presets) : PresetReply(e, p.name) = "answered"
<1>1. e.masking => MaskReply(e) = "answered"
  <2>1. e.masking => \E m \in e.mask : m.suggested \subseteq Elements(m.classes) /\ m.band = KeyName(m.asset)
    BY DEF Fit, EntryFits, MaskFits
  <2> QED
    BY <2>1 DEF MaskReply, Applicable
<1>2. ASSUME NEW x \in Elements(e.presets)
      PROVE  PresetReply(e, x.name) = "answered"
  <2> DEFINE p == CHOOSE y \in Elements(e.presets) : y.name = x.name
  <2>1. p \in Elements(e.presets) /\ p.name = x.name
    BY <1>2
  <2> HIDE DEF p
  <2>2. PICK i \in 1 .. Len(e.presets) : e.presets[i] = p
    BY <2>1 DEF Elements
  <2>3. e.presets # <<>>
    BY <2>2
  <2>4. e.bandMath /\ PresetReads(e, p) /\ \A k \in e.units : ~(k[1] = p.name /\ k[2] = "")
    BY <2>2, <2>3 DEF Fit, EntryFits, PresetsFit
  <2>5. p.isExpression /\ p.colormapKnown
    BY <2>1 DEF Fit, IndexPresetsServe
  <2>6. \A k \in p.reads : KeyName(k) # x.name
    BY <2>1, <2>4 DEF DataBands, PresetReads, KeyName
  <2> QED
    BY <2>4, <2>5, <2>6 DEF p, PresetReply, Applicable, PresetReads
<1> QED
  BY <1>1, <1>2

\* Whatever an entry offers that passed the checks is answered.
LEMMA OffersAreServed ==
  ASSUME NEW e, Fit(e), NEW q \in Offered(e)
  PROVE  Reply(e, q) = "answered"
<1>1. CASE q \in SearchesOffered(e)
  <2>1. q.about = "search"
    BY <1>1 DEF SearchesOffered, Question
  <2> QED
    BY <1>1, <2>1, SearchesAreServed DEF Reply
<1>2. CASE q \in CoverageOffered(e)
  <2>1. q = Question("coverage", e.id, "", FALSE) /\ q.about = "coverage"
    <3>1. q = Question("coverage", e.id, "", FALSE)
      BY <1>2 DEF CoverageOffered
    <3> QED
      BY <3>1 DEF Question
  <2>2. e.provider = "local-sql" => e.single /\ e.holding = "materialized"
    BY <1>2 DEF CoverageOffered, Fit, EntryFits, HoldingFits
  <2>3. e.provider # "local-sql" => e.provider \in AdapterSpecs[e.adapter].coverage
    BY DEF Fit, AdapterServes
  <2> QED
    BY <2>1, <2>2, <2>3 DEF Reply, CoverageReply
<1>3. CASE q \in TilesOffered(e)
  <2>1. q.about = "tile" /\ e.viewer # {} /\ e.format # "legacy"
    <3>1. q = Question("tile", e.id, "", FALSE) /\ e.viewer # {} /\ e.format # "legacy"
      BY <1>3 DEF TilesOffered
    <3> QED
      BY <3>1 DEF Question
  <2>2. e.tier # "catalog" /\ e.format \in {"cog", "zarr"}
    BY <2>1 DEF Fit, IsEntry, EntryFits, TierFits
  <2> QED
    BY <2>1, <2>2 DEF Reply, TileReply
<1>4. CASE q \in StepsOffered(e)
  <2>1. /\ e.tier = "processing"
        /\ \/ e.masking /\ q = Question("mask", e.id, "", FALSE)
           \/ \E p \in Elements(e.presets) : q = Question("preset", e.id, p.name, FALSE)
    BY <1>4 DEF StepsOffered
  <2>2. CASE e.masking /\ q = Question("mask", e.id, "", FALSE)
    <3>1. q.about = "mask"
      BY <2>2 DEF Question
    <3> QED
      BY <2>1, <2>2, <3>1, StepsAreServed DEF Reply
  <2>3. CASE \E p \in Elements(e.presets) : q = Question("preset", e.id, p.name, FALSE)
    <3>1. PICK p \in Elements(e.presets) : q = Question("preset", e.id, p.name, FALSE)
      BY <2>3
    <3>2. q.about = "preset" /\ q.name = p.name
      BY <3>1 DEF Question
    <3> QED
      BY <2>1, <3>2, StepsAreServed DEF Reply
  <2> QED
    BY <2>1, <2>2, <2>3
<1> QED
  BY <1>1, <1>2, <1>3, <1>4 DEF Offered

\* A process serves only what passed the checks.
BookInv(books) == candidate \in books /\ (process = "serving" => BookLoads(candidate)) /\ OfferedIsServed

\* Whatever registry a release brings, as long as each entry was read as one: once it is loaded, what the
\* collections publish is answered by the routes that read the entry, and a retired id leads to its successor.
THEOREM LoadedIsServed ==
  ASSUME NEW books, \A book \in books : \A e \in Elements(book.entries) : IsEntry(e)
  PROVE  BookSpec(books) => []OfferedIsServed
<1>1. BookInit(books) => BookInv(books)
  BY DEF BookInit, BookInv, OfferedIsServed
<1>2. ASSUME BookInv(books), [BookNext]_bookVars
      PROVE  BookInv(books)'
  <2> USE <1>2 DEF BookInv
  <2>1. CASE StartProcess
    BY <2>1 DEF StartProcess, OfferedIsServed
  <2>2. CASE TakeUp
    <3>1. PICK e \in Elements(candidate.entries) : \E q \in Offered(e) : asked' = q /\ reply' = Reply(e, q)
      BY <2>2 DEF TakeUp
    <3>2. PICK q \in Offered(e) : asked' = q /\ reply' = Reply(e, q)
      BY <3>1
    <3>3. Fit(e)
      BY <2>2 DEF TakeUp, Fit, BookLoads
    <3>4. reply' = "answered"
      BY <3>2, <3>3, OffersAreServed
    <3> QED
      BY <2>2, <3>4 DEF TakeUp, OfferedIsServed
  <2>3. CASE AskForRetired
    <3>1. PICK r \in candidate.retired :
            reply' = IF Lookup(candidate, r.id) = "gone" /\ Lookup(candidate, r.successor) = "entry" THEN "answered" ELSE "broken"
      BY <2>3 DEF AskForRetired
    <3>2. r.id \notin Ids(candidate) /\ r.successor \in Ids(candidate)
      BY <2>3 DEF AskForRetired, BookLoads, RegistryFits
    <3>3. reply' = "answered"
      BY <3>1, <3>2 DEF Lookup
    <3> QED
      BY <2>3, <3>3 DEF AskForRetired, OfferedIsServed
  <2>4. CASE UNCHANGED bookVars
    BY <2>4 DEF bookVars, OfferedIsServed
  <2> QED
    BY <2>1, <2>2, <2>3, <2>4 DEF BookNext
<1>3. BookInv(books) => OfferedIsServed
  BY DEF BookInv
<1> QED
  BY <1>1, <1>2, <1>3, PTL DEF BookSpec

-----------------------------------------------------------------------------
(* Results on their way into the store and out of it.                      *)

Places == {"upload", "close", "kept", "left", "abort", "forget", "delete", "uploads", "abortAll", "forgotten"}
\* Nothing of the result was asked to be deleted yet.
Before == {"upload", "close", "kept"}

ClientRow ==
  [pc : Places, file : Nat, upload : Nat, etags : Seq(Nat), tries : Nat, listed : SUBSET Nat,
   closed : BOOLEAN, late : BOOLEAN]
WireRow ==
  [op : {"put", "create", "part", "complete", "abort", "delete"}, result : Uploaders, name : Nat, no : Nat,
   parts : Seq(Nat), names : SUBSET Nat]

TransferTypeOK ==
  /\ objects \in [Uploaders -> [Names -> Seq(Nat)]]
  /\ uploads \subseteq [result : Uploaders, name : Nat, no : Nat]
  /\ wire \subseteq WireRow
  /\ client \in [Uploaders -> ClientRow]
  /\ made \in Nat /\ lost \in Nat

\* What a request writes is the file it is for; what it deletes its client had listed.
RequestFits(q) ==
  /\ q.op \in {"put", "complete"} => q.name \in Names
  /\ q.op = "complete" => q.parts = Content(q.name)
  /\ q.op = "delete" => client[q.result].pc \notin Before

\* The parts of a file are asked for in their order.
EtagsFit(c) == Parts[c.file] > 0 => Len(c.etags) <= Parts[c.file] /\ c.etags = [k \in 1 .. Len(c.etags) |-> k]

Uploading(u) ==
  /\ client[u].pc = "upload" =>
       /\ client[u].file \in Names /\ EtagsFit(client[u])
       /\ \A n \in Names : n < client[u].file => objects[u][n] = Content(n)
  /\ client[u].pc \in {"close", "kept"} => Whole(u)

NoneElse(u) == \A n \in Names : objects[u][n] # <<>> => n \in client[u].listed
NoObjects(u) == \A n \in Names : objects[u][n] = <<>>
NoUploadsBut(u, listed) == \A x \in uploads : x.result = u => x.no \in listed

\* What a deletion has been told and has done still holds, unless something came late.
Removing(u) ==
  /\ client[u].pc = "abortAll" => client[u].listed # {}
  /\ ~client[u].late =>
       /\ client[u].pc = "delete" => NoneElse(u)
       /\ client[u].pc \in {"uploads", "abortAll", "forgotten"} => NoObjects(u)
       /\ client[u].pc = "abortAll" => NoUploadsBut(u, client[u].listed)
       /\ client[u].pc = "forgotten" => NoUploadsBut(u, {})

TransferInv ==
  /\ TransferTypeOK
  /\ \A q \in wire : RequestFits(q)
  /\ \A u \in Uploaders : Uploading(u) /\ Removing(u)

LEMMA PartsAre == Len(Parts) \in Nat \ {0} /\ Names = 1 .. Len(Parts) /\ \A n \in Names : Parts[n] \in Nat
BY StoreTransferAssumption DEF Names

LEMMA ClientParts ==
  ASSUME NEW c \in ClientRow
  PROVE  /\ c.pc \in Places /\ c.file \in Nat /\ c.upload \in Nat /\ c.etags \in Seq(Nat) /\ c.tries \in Nat
         /\ c.listed \in SUBSET Nat /\ c.closed \in BOOLEAN /\ c.late \in BOOLEAN
BY DEF ClientRow

\* A step of one client, which writes and opens for its own result only.
LEMMA ClientMoves ==
  ASSUME TransferInv, TransferTypeOK', NEW u \in Uploaders, (Uploading(u) /\ Removing(u))',
         \A q \in wire' : q \in wire \/ RequestFits(q)',
         \A d \in Uploaders : d # u => client'[d] = client[d] /\ objects'[d] = objects[d],
         \A x \in uploads' : x \in uploads \/ x.result = u,
         client[u].pc \notin Before => client'[u].pc \notin Before
  PROVE  TransferInv'
<1>1. ASSUME NEW q \in wire'
      PROVE  RequestFits(q)'
  <2>1. CASE q \in wire
    <3>1. RequestFits(q) /\ q.result \in Uploaders
      BY <2>1 DEF TransferInv, TransferTypeOK, WireRow
    <3> QED
      BY <3>1 DEF RequestFits
  <2> QED
    BY <2>1
<1>2. ASSUME NEW d \in Uploaders, d # u
      PROVE  (Uploading(d) /\ Removing(d))'
  <2>1. client'[d] = client[d] /\ objects'[d] = objects[d] /\ Uploading(d) /\ Removing(d)
    BY <1>2 DEF TransferInv
  <2>2. Uploading(d)'
    BY <2>1 DEF Uploading, EtagsFit, Whole
  <2>3. Removing(d)'
    BY <1>2, <2>1 DEF Removing, NoneElse, NoObjects, NoUploadsBut
  <2> QED
    BY <2>2, <2>3
<1> QED
  BY <1>1, <1>2 DEF TransferInv

LEMMA ContentIsParts ==
  ASSUME NEW n \in Names
  PROVE  /\ Content(n) \in Seq(Nat)
         /\ Parts[n] > 0 => Content(n) = [k \in 1 .. Parts[n] |-> k]
<1>1. Parts[n] \in Nat
  BY PartsAre
<1> DEFINE m == IF Parts[n] = 0 THEN 1 ELSE Parts[n]
<1>2. m \in Nat /\ Content(n) = [k \in 1 .. m |-> k]
  BY <1>1 DEF Content
<1>3. Parts[n] > 0 => m = Parts[n]
  BY <1>1
<1> HIDE DEF m
<1>4. [k \in 1 .. m |-> k] \in Seq(Nat)
  BY <1>2
<1> QED
  BY <1>2, <1>3, <1>4

\* A request writes or takes away files of its own result only.
ObjectsWritten(q) == q.op = "put" \/ (q.op = "complete" /\ Open(q) # {})

LEMMA CarryingOut ==
  ASSUME TransferTypeOK, NEW q \in WireRow, RequestFits(q), CarriedOut(q)
  PROVE  /\ objects' \in [Uploaders -> [Names -> Seq(Nat)]]
         /\ uploads' \subseteq [result : Uploaders, name : Nat, no : Nat]
         /\ made' \in Nat
         /\ \A d \in Uploaders : d # q.result => objects'[d] = objects[d]
         /\ \A n \in Names : objects'[q.result][n] = IF ObjectsWritten(q) /\ n = q.name THEN Content(n)
                                                   ELSE IF q.op = "delete" /\ n \in q.names THEN <<>>
                                                   ELSE objects[q.result][n]
         /\ \A x \in uploads' : x \in uploads \/ x.result = q.result
         /\ q.op # "create" => uploads' \subseteq uploads
         /\ q.op = "abort" => \A x \in uploads' : x.no # q.no
<1> DEFINE r == q.result  n == q.name
<1>1. /\ r \in Uploaders /\ n \in Nat /\ q.no \in Nat /\ q.parts \in Seq(Nat) /\ made \in Nat
      /\ objects \in [Uploaders -> [Names -> Seq(Nat)]] /\ objects[r] \in [Names -> Seq(Nat)]
  BY DEF WireRow, TransferTypeOK
<1>2. CASE ObjectsWritten(q)
  <2>1. n \in Names /\ Content(n) \in Seq(Nat) /\ objects' = [objects EXCEPT ![r][n] = Content(n)]
    <3>1. n \in Names
      BY <1>2 DEF ObjectsWritten, RequestFits
    <3>2. objects' = [objects EXCEPT ![r][n] = Content(n)]
      BY <1>2 DEF ObjectsWritten, RequestFits, CarriedOut
    <3> QED
      BY <3>1, <3>2, ContentIsParts
  <2> HIDE DEF n, r
  <2>2. objects' \in [Uploaders -> [Names -> Seq(Nat)]]
    BY <1>1, <2>1
  <2>3. \A d \in Uploaders : d # r => objects'[d] = objects[d]
    BY <1>1, <2>1
  <2>4. \A m \in Names : objects'[r][m] = IF m = n THEN Content(m) ELSE objects[r][m]
    BY <1>1, <2>1
  <2>5. uploads' \subseteq uploads /\ made' = made /\ q.op # "abort"
    BY <1>2 DEF ObjectsWritten, CarriedOut
  <2> QED
    BY <1>1, <1>2, <2>2, <2>3, <2>4, <2>5 DEF r, n, TransferTypeOK, ObjectsWritten
<1>3. CASE q.op = "delete"
  <2> DEFINE rest == [m \in Names |-> IF m \in q.names THEN <<>> ELSE objects[r][m]]
  <2>1. objects' = [objects EXCEPT ![r] = rest] /\ uploads' = uploads /\ made' = made
    BY <1>1, <1>3 DEF CarriedOut
  <2>2. rest \in [Names -> Seq(Nat)]
    BY <1>1
  <2>3. \A m \in Names : rest[m] = IF m \in q.names THEN <<>> ELSE objects[r][m]
    OBVIOUS
  <2> HIDE DEF rest, r, n
  <2>4. objects' \in [Uploaders -> [Names -> Seq(Nat)]] /\ objects'[r] = rest
        /\ \A d \in Uploaders : d # r => objects'[d] = objects[d]
    BY <1>1, <2>1, <2>2
  <2> QED
    BY <1>1, <1>3, <2>1, <2>3, <2>4 DEF r, ObjectsWritten, TransferTypeOK
<1>4. CASE ~ObjectsWritten(q) /\ q.op # "delete"
  <2>1. objects' = objects
    BY <1>4 DEF CarriedOut, ObjectsWritten
  <2>2. CASE q.op = "create"
    <3> DEFINE new == [result |-> q.result, name |-> q.name, no |-> made + 1]
    <3>1. uploads' = uploads \cup {new} /\ made' = made + 1
      BY <2>2 DEF CarriedOut
    <3>2. new \in [result : Uploaders, name : Nat, no : Nat] /\ new.result = q.result
      BY <1>1
    <3> HIDE DEF new
    <3> QED
      BY <1>1, <1>4, <2>1, <2>2, <3>1, <3>2 DEF TransferTypeOK
  <2>3. CASE q.op # "create"
    <3>1. uploads' \subseteq uploads /\ made' = made /\ (q.op = "abort" => uploads' = uploads \ Open(q))
      BY <2>3 DEF CarriedOut
    <3> QED
      BY <1>1, <1>4, <2>1, <2>3, <3>1 DEF TransferTypeOK, Open
  <2> QED
    BY <2>2, <2>3
<1> QED
  BY <1>2, <1>3, <1>4

\* What a client asks for where it is.
LEMMA RequestIs ==
  ASSUME TransferInv, NEW u \in Uploaders, Asking(u)
  PROVE  /\ Request(u) \in WireRow /\ RequestFits(Request(u)) /\ Request(u).result = u
         /\ client[u].pc = "abort" => Request(u).op = "abort"
         /\ client[u].pc = "delete" => Request(u).op = "delete" /\ Request(u).names = client[u].listed
         /\ client[u].pc = "abortAll" => Request(u).op = "abort"
         /\ client[u].pc = "upload" =>
              \/ Request(u).op \in {"put", "complete"} /\ Request(u).name = client[u].file
              \/ Request(u).op = "create"
              \/ /\ Request(u).op = "part" /\ Request(u).parts = <<Len(client[u].etags) + 1>>
                 /\ Len(client[u].etags) < Parts[client[u].file]
<1> DEFINE c == client[u]
<1>0. /\ c \in ClientRow /\ Uploading(u) /\ Removing(u) /\ c.pc \in {"upload", "abort", "delete", "abortAll"}
      /\ Me(u) = c
  BY DEF TransferInv, TransferTypeOK, Asking, Me
<1>1. c.file \in Nat /\ c.upload \in Nat /\ c.etags \in Seq(Nat) /\ c.listed \in SUBSET Nat
  BY <1>0, ClientParts
<1>3. <<>> \in Seq(Nat) /\ 0 \in Nat
  OBVIOUS
<1> DEFINE q == Request(u)
<1>4. ASSUME NEW op \in {"put", "create", "part", "complete", "abort", "delete"}, NEW n \in Nat, NEW no \in Nat,
             NEW parts \in Seq(Nat), q = Req(op, u, n, no, parts)
      PROVE  q \in WireRow /\ q.op = op /\ q.result = u /\ q.name = n /\ q.parts = parts /\ q.names = c.listed
  <2> DEFINE r == Req(op, u, n, no, parts)
  <2>1. r \in WireRow /\ r.op = op /\ r.result = u /\ r.name = n /\ r.parts = parts /\ r.names = c.listed
    BY <1>0, <1>1, <1>4 DEF Req, WireRow, ResultOf
  <2>2. q = r
    BY <1>4
  <2> HIDE DEF q, r
  <2> QED
    BY <2>1, <2>2
<1>5. CASE c.pc = "abort"
  <2>1. q = Req("abort", u, c.file, c.upload, <<>>)
    BY <1>0, <1>5 DEF Request
  <2> HIDE DEF q
  <2>2. q \in WireRow /\ q.op = "abort" /\ q.result = u
    BY <1>1, <1>3, <1>4, <2>1
  <2>3. RequestFits(q)
    BY <2>2 DEF RequestFits
  <2> QED
    BY <1>5, <2>2, <2>3 DEF q
<1>6. CASE c.pc = "delete"
  <2>1. q = Req("delete", u, 0, 0, <<>>)
    BY <1>0, <1>6 DEF Request
  <2> HIDE DEF q
  <2>2. q \in WireRow /\ q.op = "delete" /\ q.result = u /\ q.names = c.listed
    BY <1>1, <1>3, <1>4, <2>1
  <2>3. RequestFits(q)
    BY <1>6, <2>2 DEF RequestFits, Before
  <2> QED
    BY <1>6, <2>2, <2>3 DEF q
<1>7. CASE c.pc = "abortAll"
  <2> DEFINE no == CHOOSE x \in c.listed : TRUE
  <2>1. q = Req("abort", u, 0, no, <<>>)
    BY <1>0, <1>7 DEF Request
  <2>2. no \in Nat
    BY <1>0, <1>1, <1>7 DEF Removing
  <2> HIDE DEF q, no
  <2>3. q \in WireRow /\ q.op = "abort" /\ q.result = u
    BY <1>1, <1>3, <1>4, <2>1, <2>2
  <2>4. RequestFits(q)
    BY <2>3 DEF RequestFits
  <2> QED
    BY <1>7, <2>3, <2>4 DEF q
<1>8. CASE c.pc = "upload"
  <2>0. c.file \in Names /\ Parts[c.file] \in Nat /\ EtagsFit(c) /\ Len(c.etags) \in Nat
    BY <1>0, <1>1, <1>8, PartsAre DEF Uploading
  <2> DEFINE late == c.upload = 0  more == Len(c.etags) < Parts[c.file]
  <2>1. q = IF ~Multipart(u) THEN Req("put", u, c.file, 0, <<>>)
            ELSE IF late THEN Req("create", u, c.file, 0, <<>>)
            ELSE IF more THEN Req("part", u, c.file, c.upload, <<Len(c.etags) + 1>>)
            ELSE Req("complete", u, c.file, c.upload, c.etags)
    BY <1>0, <1>8 DEF Request
  <2> HIDE DEF q
  <2>2. CASE ~Multipart(u)
    <3>1. q \in WireRow /\ q.op = "put" /\ q.result = u /\ q.name = c.file
      BY <1>1, <1>3, <1>4, <2>1, <2>2
    <3>2. RequestFits(q)
      BY <2>0, <3>1 DEF RequestFits
    <3> QED
      BY <1>8, <3>1, <3>2 DEF q
  <2>3. CASE Multipart(u) /\ late
    <3>1. q \in WireRow /\ q.op = "create" /\ q.result = u
      BY <1>1, <1>3, <1>4, <2>1, <2>3
    <3>2. RequestFits(q)
      BY <2>0, <3>1 DEF RequestFits
    <3> QED
      BY <1>8, <3>1, <3>2 DEF q
  <2>4. CASE Multipart(u) /\ ~late /\ more
    <3>1. <<Len(c.etags) + 1>> \in Seq(Nat)
      BY <2>0
    <3>2. q \in WireRow /\ q.op = "part" /\ q.result = u /\ q.parts = <<Len(c.etags) + 1>>
      BY <1>1, <1>4, <2>1, <2>4, <3>1
    <3>3. RequestFits(q)
      BY <2>0, <3>2 DEF RequestFits
    <3> QED
      BY <1>8, <2>4, <3>2, <3>3 DEF q
  <2>5. CASE Multipart(u) /\ ~late /\ ~more
    <3>a. q = Req("complete", u, c.file, c.upload, c.etags)
      BY <2>1, <2>5
    <3>1. q \in WireRow /\ q.op = "complete" /\ q.result = u /\ q.name = c.file /\ q.parts = c.etags
      BY <1>1, <1>4, <3>a
    <3>2. Parts[c.file] > 0
      BY <1>0, <2>5 DEF Multipart
    <3>3. c.etags = Content(c.file)
      <4>1. Len(c.etags) = Parts[c.file] /\ c.etags = [k \in 1 .. Len(c.etags) |-> k]
        BY <2>0, <2>5, <3>2 DEF EtagsFit
      <4> QED
        BY <2>0, <3>2, <4>1, ContentIsParts
    <3>4. RequestFits(q)
      BY <2>0, <3>1, <3>3 DEF RequestFits
    <3> QED
      BY <1>8, <3>1, <3>4 DEF q
  <2> QED
    BY <2>2, <2>3, <2>4, <2>5
<1> QED
  BY <1>0, <1>5, <1>6, <1>7, <1>8

\* Its next row, told apart by what it is at.
LEMMA Going ==
  ASSUME TransferTypeOK, NEW u \in Uploaders, NEW c \in ClientRow, Goes(u, c)
  PROVE  /\ client' \in [Uploaders -> ClientRow]
         /\ \A d \in Uploaders : d # u => client'[d] = client[d]
         /\ client'[u].pc = c.pc /\ client'[u].file = c.file /\ client'[u].etags = c.etags
         /\ client'[u].listed = c.listed /\ client'[u].late = c.late
<1> DEFINE row == [c EXCEPT !.tries = 0]
<1>1. row \in ClientRow /\ row.pc = c.pc /\ row.file = c.file /\ row.etags = c.etags
      /\ row.listed = c.listed /\ row.late = c.late
  BY DEF ClientRow
<1>2. client' = [client EXCEPT ![u] = row] /\ client \in [Uploaders -> ClientRow]
  BY DEF Goes, TransferTypeOK
<1> HIDE DEF row
<1> QED
  BY <1>1, <1>2

\* Where nothing is promised of a result.
Promiseless == {"abort", "forget", "left"}

LEMMA ForgettingIs ==
  ASSUME NEW c \in ClientRow
  PROVE  Forgetting(c) \in ClientRow /\ Forgetting(c).pc = "forget"
<1>1. c.upload \in Nat /\ c.closed \in BOOLEAN
  BY ClientParts
<1>2. NewClient \in ClientRow
  BY DEF NewClient, ClientRow, Places
<1>3. "forget" \in Places
  BY DEF Places
<1> QED
  BY <1>1, <1>2, <1>3 DEF Forgetting, ClientRow

LEMMA FailsTo ==
  ASSUME TransferTypeOK, NEW u \in Uploaders
  PROVE  Fails(u) \in ClientRow /\ Fails(u).pc \in Promiseless
<1> DEFINE c == client[u]
<1>1. c \in ClientRow /\ Me(u) = c
  BY DEF TransferTypeOK, Me
<1>2. Forgetting(c) \in ClientRow /\ Forgetting(c).pc \in Promiseless
  BY <1>1, ForgettingIs DEF Promiseless
<1>3. /\ [c EXCEPT !.pc = "abort"] \in ClientRow /\ [c EXCEPT !.pc = "abort"].pc \in Promiseless
      /\ [c EXCEPT !.pc = "left"] \in ClientRow /\ [c EXCEPT !.pc = "left"].pc \in Promiseless
  BY <1>1 DEF ClientRow, Places, Promiseless
<1>4. Fails(u) \in {[c EXCEPT !.pc = "abort"], Forgetting(c), [c EXCEPT !.pc = "left"]}
  BY <1>1 DEF Fails
<1> QED
  BY <1>2, <1>3, <1>4

LEMMA NothingPromised ==
  ASSUME NEW u \in Uploaders, client'[u].pc \in Promiseless
  PROVE  (Uploading(u) /\ Removing(u))'
BY DEF Uploading, Removing, Promiseless

\* A client gives its result up, whatever it asked of the store before.
LEMMA Falling ==
  ASSUME TransferInv, NEW u \in Uploaders, NEW c \in ClientRow, c.pc \in Promiseless, Goes(u, c),
         objects' \in [Uploaders -> [Names -> Seq(Nat)]], uploads' \subseteq [result : Uploaders, name : Nat, no : Nat],
         made' \in Nat, lost' \in Nat, wire' \subseteq WireRow, \A q \in wire' : q \in wire \/ RequestFits(q)',
         \A d \in Uploaders : d # u => objects'[d] = objects[d],
         \A x \in uploads' : x \in uploads \/ x.result = u
  PROVE  TransferInv'
<1>1. TransferTypeOK
  BY DEF TransferInv
<1>2. /\ client' \in [Uploaders -> ClientRow] /\ client'[u].pc = c.pc
      /\ \A d \in Uploaders : d # u => client'[d] = client[d]
  BY <1>1, Going
<1>3. TransferTypeOK'
  BY <1>2 DEF TransferTypeOK
<1>4. (Uploading(u) /\ Removing(u))'
  BY <1>2, NothingPromised
<1>5. client'[u].pc \notin Before
  BY <1>2 DEF Promiseless, Before
<1> QED
  BY <1>2, <1>3, <1>4, <1>5, ClientMoves

\* After an answer: what was promised of the result still is, with what the request did to it.
LEMMA AnswerKeeps ==
  ASSUME TransferInv, NEW u \in Uploaders, Answered(u)
  PROVE  TransferInv'
<1> DEFINE c == client[u]  q == Request(u)
<1>0. TransferTypeOK /\ Asking(u) /\ c \in ClientRow /\ Me(u) = c /\ Uploading(u) /\ Removing(u)
      /\ c.pc \in {"upload", "abort", "delete", "abortAll"} /\ objects \in [Uploaders -> [Names -> Seq(Nat)]]
      /\ uploads \subseteq [result : Uploaders, name : Nat, no : Nat]
  BY DEF TransferInv, TransferTypeOK, Answered, Asking, Me
<1>1. /\ q \in WireRow /\ RequestFits(q) /\ q.result = u
      /\ c.pc = "abort" => q.op = "abort"
      /\ c.pc = "delete" => q.op = "delete" /\ q.names = c.listed
      /\ c.pc = "abortAll" => q.op = "abort"
      /\ c.pc = "upload" =>
           \/ q.op \in {"put", "complete"} /\ q.name = c.file
           \/ q.op = "create"
           \/ q.op = "part" /\ q.parts = <<Len(c.etags) + 1>> /\ Len(c.etags) < Parts[c.file]
  BY <1>0, RequestIs
<1>2. /\ c.pc \in Places /\ c.file \in Nat /\ c.upload \in Nat /\ c.etags \in Seq(Nat) /\ c.tries \in Nat
      /\ c.listed \in SUBSET Nat /\ c.closed \in BOOLEAN /\ c.late \in BOOLEAN
  BY <1>0, ClientParts
<1>3. CarriedOut(q) /\ Goes(u, IF Answers(q) THEN Onward(u, q) ELSE Fails(u)) /\ UNCHANGED <<wire, lost>>
  BY DEF Answered
<1>q. q.op \in {"put", "create", "part", "complete", "abort", "delete"} /\ q.no \in Nat
  BY <1>1 DEF WireRow
<1> HIDE DEF q
<1>4. /\ objects' \in [Uploaders -> [Names -> Seq(Nat)]]
      /\ uploads' \subseteq [result : Uploaders, name : Nat, no : Nat]
      /\ made' \in Nat
      /\ \A d \in Uploaders : d # u => objects'[d] = objects[d]
      /\ \A n \in Names : objects'[u][n] = IF ObjectsWritten(q) /\ n = q.name THEN Content(n)
                                        ELSE IF q.op = "delete" /\ n \in q.names THEN <<>>
                                        ELSE objects[u][n]
      /\ \A x \in uploads' : x \in uploads \/ x.result = u
      /\ q.op # "create" => uploads' \subseteq uploads
      /\ q.op = "abort" => \A x \in uploads' : x.no # q.no
  BY <1>0, <1>1, <1>3, CarryingOut
<1>5. lost' \in Nat /\ wire' \subseteq WireRow /\ wire' = wire
  BY <1>0, <1>3 DEF TransferTypeOK
<1>6. ASSUME NEW k \in ClientRow, k.pc \in Promiseless, Goes(u, k)
      PROVE  TransferInv'
  BY <1>4, <1>5, <1>6, Falling
<1>7. ASSUME NEW k \in ClientRow, Goes(u, k)
      PROVE  /\ TransferTypeOK' /\ client'[u].pc = k.pc /\ client'[u].file = k.file /\ client'[u].etags = k.etags
             /\ client'[u].listed = k.listed /\ client'[u].late = k.late
             /\ ((Uploading(u) /\ Removing(u))' /\ (c.pc \notin Before => k.pc \notin Before)) => TransferInv'
  <2>1. /\ client' \in [Uploaders -> ClientRow]
        /\ \A d \in Uploaders : d # u => client'[d] = client[d]
        /\ client'[u].pc = k.pc /\ client'[u].file = k.file /\ client'[u].etags = k.etags
        /\ client'[u].listed = k.listed /\ client'[u].late = k.late
    BY <1>0, <1>7, Going
  <2>2. TransferTypeOK'
    BY <1>4, <1>5, <2>1 DEF TransferTypeOK
  <2> QED
    BY <1>4, <1>5, <2>1, <2>2, ClientMoves
<1>8. CASE ~Answers(q)
  <2>1. Fails(u) \in ClientRow /\ Fails(u).pc \in Promiseless
    BY <1>0, FailsTo
  <2> QED
    BY <1>3, <1>6, <1>8, <2>1
<1>9. CASE Answers(q) /\ c.pc = "abort"
  <2>1. Onward(u, q) = Forgetting(c)
    BY <1>0, <1>1, <1>9 DEF Onward
  <2>2. Forgetting(c) \in ClientRow /\ Forgetting(c).pc \in Promiseless
    BY <1>0, ForgettingIs DEF Promiseless
  <2> QED
    BY <1>3, <1>6, <1>9, <2>1, <2>2
<1>10. CASE Answers(q) /\ c.pc = "delete"
  <2> DEFINE k == [c EXCEPT !.pc = "uploads"]
  <2>1. Goes(u, k)
    BY <1>0, <1>1, <1>3, <1>10 DEF Onward
  <2>2. k \in ClientRow /\ k.pc = "uploads" /\ k.late = c.late
    BY <1>0 DEF ClientRow, Places
  <2> HIDE DEF k
  <2>3. client'[u].pc = "uploads" /\ client'[u].late = c.late
    BY <1>7, <2>1, <2>2
  <2>4. ~c.late => NoObjects(u)'
    <3>1. ~c.late => NoneElse(u)
      BY <1>0, <1>10 DEF Removing
    <3> QED
      BY <1>1, <1>4, <1>10, <3>1 DEF NoObjects, NoneElse, ObjectsWritten
  <2>5. (Uploading(u) /\ Removing(u))'
    BY <2>3, <2>4 DEF Uploading, Removing
  <2>6. k.pc \notin Before
    BY <2>2 DEF Before
  <2> QED
    BY <1>7, <2>1, <2>2, <2>5, <2>6
<1>11. CASE Answers(q) /\ c.pc = "abortAll"
  <2> DEFINE k == [c EXCEPT !.listed = @ \ {q.no}, !.pc = IF c.listed = {q.no} THEN "forgotten" ELSE "abortAll"]
  <2>1. Goes(u, k)
    BY <1>0, <1>1, <1>3, <1>11 DEF Onward
  <2>2. /\ k \in ClientRow /\ k.late = c.late /\ k.listed = c.listed \ {q.no}
        /\ k.pc = IF c.listed = {q.no} THEN "forgotten" ELSE "abortAll"
    BY <1>0, <1>2 DEF ClientRow, Places
  <2> HIDE DEF k
  <2>3. client'[u].pc = k.pc /\ client'[u].late = c.late /\ client'[u].listed = c.listed \ {q.no}
    BY <1>7, <2>1, <2>2
  <2>4. c.listed # {} /\ (~c.late => NoObjects(u) /\ NoUploadsBut(u, c.listed))
    BY <1>0, <1>11 DEF Removing
  <2>5. ~c.late => NoObjects(u)'
    BY <1>1, <1>4, <1>11, <2>4 DEF NoObjects, ObjectsWritten
  <2>6. ~c.late => \A x \in uploads' : x.result = u => x.no \in c.listed \ {q.no}
    BY <1>1, <1>4, <1>11, <2>4 DEF NoUploadsBut
  <2>7. (Uploading(u) /\ Removing(u))'
    <3>1. CASE c.listed = {q.no}
      <4>1. client'[u].pc = "forgotten" /\ c.listed \ {q.no} = {}
        BY <2>2, <2>3, <3>1
      <4> QED
        BY <2>3, <2>5, <2>6, <4>1 DEF Uploading, Removing, NoUploadsBut
    <3>2. CASE c.listed # {q.no}
      <4>1. client'[u].pc = "abortAll" /\ c.listed \ {q.no} # {}
        BY <2>2, <2>3, <2>4, <3>2
      <4> QED
        BY <2>3, <2>5, <2>6, <4>1 DEF Uploading, Removing, NoUploadsBut
    <3> QED
      BY <3>1, <3>2
  <2>8. k.pc \notin Before
    BY <2>2 DEF Before
  <2> QED
    BY <1>7, <2>1, <2>2, <2>7, <2>8
<1>12. CASE Answers(q) /\ c.pc = "upload" /\ q.op = "create"
  <2> DEFINE k == [c EXCEPT !.upload = made + 1]
  <2>1. Goes(u, k)
    BY <1>0, <1>3, <1>12 DEF Onward
  <2>2. k \in ClientRow /\ k.pc = "upload" /\ k.file = c.file /\ k.etags = c.etags
    <3>1. made + 1 \in Nat
      BY <1>0 DEF TransferTypeOK
    <3> QED
      BY <1>0, <1>12, <3>1 DEF ClientRow
  <2> HIDE DEF k
  <2>3. client'[u].pc = "upload" /\ client'[u].file = c.file /\ client'[u].etags = c.etags
    BY <1>7, <2>1, <2>2
  <2>4. \A n \in Names : objects'[u][n] = objects[u][n]
    BY <1>4, <1>12 DEF ObjectsWritten
  <2>5. (Uploading(u) /\ Removing(u))'
    BY <1>0, <1>12, <2>3, <2>4 DEF Uploading, Removing, EtagsFit
  <2> QED
    BY <1>7, <1>12, <2>1, <2>2, <2>5 DEF Before
<1>13. CASE Answers(q) /\ c.pc = "upload" /\ q.op = "part"
  <2> DEFINE more == c.etags \o q.parts  k == [c EXCEPT !.etags = more]
  <2>1. Goes(u, k)
    BY <1>0, <1>3, <1>13 DEF Onward
  <2>2. q.parts = <<Len(c.etags) + 1>> /\ Len(c.etags) < Parts[c.file]
    BY <1>1, <1>13
  <2>a. c.etags \in Seq(Nat)
    BY <1>2
  <2>3. more \in Seq(Nat) /\ Len(more) = Len(c.etags) + 1
        /\ \A m \in 1 .. Len(more) : more[m] = IF m <= Len(c.etags) THEN c.etags[m] ELSE Len(c.etags) + 1
    BY <2>a, <2>2
  <2> HIDE DEF more
  <2>4. k \in ClientRow /\ k.pc = "upload" /\ k.file = c.file /\ k.etags = more
    BY <1>0, <1>13, <2>3 DEF ClientRow
  <2> HIDE DEF k
  <2>5. client'[u].pc = "upload" /\ client'[u].file = c.file /\ client'[u].etags = more
    BY <1>7, <2>1, <2>4
  <2>6. EtagsFit(c) /\ c.file \in Names /\ \A n \in Names : n < c.file => objects[u][n] = Content(n)
    BY <1>0, <1>13 DEF Uploading
  <2>7. EtagsFit(client[u])'
    <3>1. Parts[c.file] \in Nat /\ Len(c.etags) \in Nat
      BY <1>2, <2>6, PartsAre
    <3>2. Parts[c.file] > 0 /\ Len(more) <= Parts[c.file]
      BY <2>2, <2>3, <3>1
    <3>3. \A m \in 1 .. Len(c.etags) : c.etags[m] = m
      BY <2>6, <3>2 DEF EtagsFit
    <3>4. \A m \in 1 .. Len(more) : more[m] = m
      <4>1. ASSUME NEW m \in 1 .. Len(more)
            PROVE  more[m] = m
        <5>1. m \in Nat /\ m >= 1 /\ m <= Len(c.etags) + 1
          BY <2>3, <3>1
        <5>2. CASE m <= Len(c.etags)
          <6>1. m \in 1 .. Len(c.etags) /\ c.etags[m] = m
            BY <3>1, <3>3, <5>1, <5>2
          <6> QED
            BY <2>3, <6>1
        <5>3. CASE m = Len(c.etags) + 1
          BY <2>3, <3>1, <5>3
        <5> QED
          BY <3>1, <5>1, <5>2, <5>3
      <4> QED
        BY <4>1
    <3>5. more = [m \in 1 .. Len(more) |-> m]
      BY <2>3, <3>4
    <3> QED
      BY <2>5, <3>2, <3>5 DEF EtagsFit
  <2>8. \A n \in Names : objects'[u][n] = objects[u][n]
    BY <1>4, <1>13 DEF ObjectsWritten
  <2>9. (Uploading(u) /\ Removing(u))'
    BY <2>5, <2>6, <2>7, <2>8 DEF Uploading, Removing
  <2> QED
    BY <1>7, <1>13, <2>1, <2>4, <2>9 DEF Before
<1>14. CASE Answers(q) /\ c.pc = "upload" /\ q.op \in {"put", "complete"}
  <2> DEFINE k == NextFile(c)
  <2>1. Goes(u, k)
    BY <1>0, <1>3, <1>14 DEF Onward
  <2>2. /\ k \in ClientRow /\ k.etags = <<>> /\ k.file = c.file + 1
        /\ k.pc = IF c.file = Len(Parts) THEN "close" ELSE "upload"
    <3>1. c.file + 1 \in Nat /\ 0 \in Nat /\ <<>> \in Seq(Nat)
      BY <1>2
    <3> DEFINE then == IF c.file = Len(Parts) THEN "close" ELSE "upload"
    <3>2. then \in Places
      BY DEF Places
    <3>3. k = [c EXCEPT !.upload = 0, !.etags = <<>>, !.file = c.file + 1, !.pc = then]
      BY DEF NextFile
    <3> HIDE DEF then, k
    <3>4. k \in ClientRow /\ k.etags = <<>> /\ k.file = c.file + 1 /\ k.pc = then
      BY <1>0, <3>1, <3>2, <3>3 DEF ClientRow
    <3> QED
      BY <3>4 DEF then
  <2> HIDE DEF k
  <2>3. client'[u].pc = k.pc /\ client'[u].file = c.file + 1 /\ client'[u].etags = <<>>
    BY <1>7, <2>1, <2>2
  <2>4. c.file \in Names /\ \A n \in Names : n < c.file => objects[u][n] = Content(n)
    BY <1>0, <1>14 DEF Uploading
  <2>5. ObjectsWritten(q) /\ q.name = c.file
    BY <1>1, <1>14 DEF ObjectsWritten, Answers
  <2>6. \A n \in Names : n <= c.file => objects'[u][n] = Content(n)
    <3>1. ASSUME NEW n \in Names, n <= c.file
          PROVE  n = c.file \/ n < c.file
      BY <1>2, <3>1, PartsAre
    <3>2. \A n \in Names : objects'[u][n] = IF n = c.file THEN Content(n) ELSE objects[u][n]
      BY <1>4, <1>14, <2>5
    <3> QED
      BY <2>4, <3>1, <3>2
  <2>7. (Uploading(u) /\ Removing(u))'
    <3>1. CASE c.file = Len(Parts)
      <4>1. client'[u].pc = "close"
        BY <2>2, <2>3, <3>1
      <4>2. Whole(u)'
        BY <2>6, <3>1, PartsAre DEF Whole
      <4> QED
        BY <4>1, <4>2 DEF Uploading, Removing
    <3>2. CASE c.file # Len(Parts)
      <4>1. client'[u].pc = "upload" /\ c.file + 1 \in Names
        BY <2>2, <2>3, <2>4, <3>2, PartsAre
      <4>2. EtagsFit(client[u])'
        <5>1. Parts[c.file + 1] \in Nat /\ Len(<<>>) = 0 /\ <<>> = [m \in 1 .. 0 |-> m]
          BY <4>1, PartsAre
        <5> QED
          BY <2>3, <5>1 DEF EtagsFit
      <4>3. \A n \in Names : n < c.file + 1 => objects'[u][n] = Content(n)
        BY <1>2, <2>6, PartsAre
      <4> QED
        BY <2>3, <4>1, <4>2, <4>3 DEF Uploading, Removing
    <3> QED
      BY <3>1, <3>2
  <2> QED
    BY <1>7, <1>14, <2>1, <2>2, <2>7 DEF Before
<1> QED
  BY <1>0, <1>1, <1>8, <1>9, <1>10, <1>11, <1>12, <1>13, <1>14

\* A client moves on without the store.
LEMMA MovesAlone ==
  ASSUME TransferInv, NEW u \in Uploaders, NEW k \in ClientRow, Goes(u, k), (Uploading(u) /\ Removing(u))',
         UNCHANGED <<objects, uploads, wire, made, lost>>, client[u].pc \notin Before => k.pc \notin Before
  PROVE  TransferInv'
<1>1. TransferTypeOK
  BY DEF TransferInv
<1>2. /\ client' \in [Uploaders -> ClientRow] /\ client'[u].pc = k.pc
      /\ \A d \in Uploaders : d # u => client'[d] = client[d]
  BY <1>1, Going
<1>3. TransferTypeOK'
  BY <1>1, <1>2 DEF TransferTypeOK
<1> QED
  BY <1>2, <1>3, ClientMoves

LEMMA GivenUpKeeps ==
  ASSUME TransferInv, NEW u \in Uploaders, GivenUp(u)
  PROVE  TransferInv'
<1> DEFINE c == client[u]  q == Request(u)
<1>1. TransferTypeOK /\ Asking(u) /\ c \in ClientRow /\ Me(u) = c /\ Uploading(u) /\ Removing(u)
  BY DEF TransferInv, TransferTypeOK, GivenUp, Me
<1>2. q \in WireRow /\ RequestFits(q) /\ q.result = u
  BY <1>1, RequestIs
<1> HIDE DEF q
<1>3. wire' = wire \cup {q} /\ lost' = lost + 1 /\ UNCHANGED <<objects, uploads, made>>
  BY DEF GivenUp, q
<1>4. wire' \subseteq WireRow /\ lost' \in Nat
  BY <1>1, <1>2, <1>3 DEF TransferTypeOK
<1>5. ASSUME client[u].pc \notin Before => client'[u].pc \notin Before
      PROVE  \A p \in wire' : p \in wire \/ RequestFits(p)'
  BY <1>2, <1>3, <1>5 DEF RequestFits
<1>6. CASE Me(u).tries + 1 < MaxAttempts
  <2> DEFINE k == [c EXCEPT !.tries = @ + 1]
  <2>1. client' = [client EXCEPT ![u] = k]
    BY <1>1, <1>6 DEF GivenUp
  <2>2. k \in ClientRow /\ k.pc = c.pc /\ k.file = c.file /\ k.etags = c.etags /\ k.listed = c.listed /\ k.late = c.late
    <3>1. c.tries + 1 \in Nat
      BY <1>1, ClientParts
    <3> QED
      BY <1>1, <3>1 DEF ClientRow
  <2> HIDE DEF k
  <2>3. client \in [Uploaders -> ClientRow]
    BY <1>1 DEF TransferTypeOK
  <2>4. client' \in [Uploaders -> ClientRow] /\ client'[u] = k /\ \A d \in Uploaders : d # u => client'[d] = client[d]
    BY <2>1, <2>2, <2>3
  <2>5. TransferTypeOK'
    BY <1>1, <1>3, <1>4, <2>4 DEF TransferTypeOK
  <2>6. Uploading(u)'
    BY <1>1, <1>3, <2>2, <2>4 DEF Uploading, EtagsFit, Whole
  <2>7. Removing(u)'
    BY <1>1, <1>3, <2>2, <2>4 DEF Removing, NoneElse, NoObjects, NoUploadsBut
  <2> QED
    BY <1>3, <1>5, <2>2, <2>4, <2>5, <2>6, <2>7, ClientMoves
<1>7. CASE ~(Me(u).tries + 1 < MaxAttempts)
  <2>1. Goes(u, Fails(u)) /\ Fails(u) \in ClientRow /\ Fails(u).pc \in Promiseless
    BY <1>1, <1>7, FailsTo DEF GivenUp
  <2>2. client'[u].pc \notin Before
    BY <1>1, <2>1, Going DEF Promiseless, Before
  <2>3. \A p \in wire' : p \in wire \/ RequestFits(p)'
    BY <1>5, <2>2
  <2>4. /\ objects' \in [Uploaders -> [Names -> Seq(Nat)]] /\ uploads' \subseteq [result : Uploaders, name : Nat, no : Nat]
        /\ made' \in Nat /\ objects' = objects /\ uploads' = uploads
    BY <1>1, <1>3 DEF TransferTypeOK
  <2> QED
    BY <1>4, <2>1, <2>3, <2>4, Falling
<1> QED
  BY <1>6, <1>7

LEMMA FailingKeeps ==
  ASSUME TransferInv, NEW u \in Uploaders, Refused(u) \/ DeletedInPart(u)
  PROVE  TransferInv'
<1>1. TransferTypeOK
  BY DEF TransferInv
<1>2. Goes(u, Fails(u)) /\ Fails(u) \in ClientRow /\ Fails(u).pc \in Promiseless /\ UNCHANGED <<uploads, wire, made, lost>>
  BY <1>1, FailsTo DEF Refused, DeletedInPart
<1>3. objects' \in [Uploaders -> [Names -> Seq(Nat)]] /\ \A d \in Uploaders : d # u => objects'[d] = objects[d]
  <2>1. CASE Refused(u)
    BY <1>1, <2>1 DEF Refused, TransferTypeOK
  <2>2. CASE DeletedInPart(u)
    <3>1. PICK some \in (SUBSET Me(u).listed) \ {Me(u).listed} :
            objects' = [objects EXCEPT ![u] = [n \in Names |-> IF n \in some THEN <<>> ELSE @[n]]]
      BY <2>2 DEF DeletedInPart, ResultOf
    <3> DEFINE rest == [n \in Names |-> IF n \in some THEN <<>> ELSE objects[u][n]]
    <3>2. objects \in [Uploaders -> [Names -> Seq(Nat)]]
      BY <1>1 DEF TransferTypeOK
    <3>3. rest \in [Names -> Seq(Nat)] /\ objects' = [objects EXCEPT ![u] = rest]
      BY <3>1, <3>2
    <3> HIDE DEF rest
    <3> QED
      BY <3>2, <3>3
  <2> QED
    BY <2>1, <2>2
<1>4. /\ uploads' \subseteq [result : Uploaders, name : Nat, no : Nat] /\ made' \in Nat /\ lost' \in Nat
      /\ wire' \subseteq WireRow /\ wire' = wire /\ uploads' = uploads
  BY <1>1, <1>2 DEF TransferTypeOK
<1> QED
  BY <1>2, <1>3, <1>4, Falling

LEMMA ClosingKeeps ==
  ASSUME TransferInv, NEW u \in Uploaders, Close(u) \/ Expire(u)
  PROVE  TransferInv'
<1> DEFINE c == client[u]
<1>1. /\ TransferTypeOK /\ c \in ClientRow /\ Me(u) = c /\ Uploading(u)
      /\ UNCHANGED <<objects, uploads, wire, made, lost>>
  BY DEF TransferInv, TransferTypeOK, Me, Close, Expire
<1>2. CASE Goes(u, Forgetting(c))
  <2>1. Forgetting(c) \in ClientRow /\ Forgetting(c).pc \in Promiseless
    BY <1>1, ForgettingIs DEF Promiseless
  <2>2. (Uploading(u) /\ Removing(u))'
    BY <1>1, <1>2, <2>1, Going, NothingPromised
  <2>3. Forgetting(c).pc \notin Before
    BY <2>1 DEF Promiseless, Before
  <2> QED
    BY <1>1, <1>2, <2>1, <2>2, <2>3, MovesAlone
<1>3. CASE c.pc = "close" /\ Goes(u, [c EXCEPT !.closed = TRUE, !.pc = "kept"])
  <2> DEFINE k == [c EXCEPT !.closed = TRUE, !.pc = "kept"]
  <2>1. k \in ClientRow /\ k.pc = "kept"
    BY <1>1 DEF ClientRow, Places
  <2> HIDE DEF k
  <2>2. Goes(u, k)
    BY <1>3 DEF k
  <2>3. client'[u].pc = "kept"
    BY <1>1, <2>1, <2>2, Going
  <2>4. (Uploading(u) /\ Removing(u))'
    BY <1>1, <1>3, <2>3 DEF Uploading, Removing, Whole
  <2> QED
    BY <1>1, <1>3, <2>1, <2>2, <2>4, MovesAlone DEF Before
<1>4. Goes(u, Forgetting(c)) \/ (c.pc = "close" /\ Goes(u, [c EXCEPT !.closed = TRUE, !.pc = "kept"]))
  <2>1. CASE Close(u)
    <3>1. PICK closed \in BOOLEAN :
            Goes(u, IF closed THEN [Me(u) EXCEPT !.closed = TRUE, !.pc = "kept"] ELSE Forgetting(Me(u)))
      BY <2>1 DEF Close
    <3>2. CASE closed
      BY <1>1, <2>1, <3>1, <3>2 DEF Close
    <3>3. CASE ~closed
      BY <1>1, <3>1, <3>3
    <3> QED
      BY <3>2, <3>3
  <2>2. CASE Expire(u)
    BY <1>1, <2>2 DEF Expire
  <2> QED
    BY <2>1, <2>2
<1> QED
  BY <1>2, <1>3, <1>4

LEMMA ListingKeeps ==
  ASSUME TransferInv, NEW u \in Uploaders, ListObjects(u) \/ ListUploads(u)
  PROVE  TransferInv'
<1> DEFINE c == client[u]
<1>1. /\ TransferTypeOK /\ c \in ClientRow /\ Me(u) = c /\ Removing(u) /\ ResultOf(u) = u
      /\ UNCHANGED <<objects, uploads, wire, made, lost>>
  BY DEF TransferInv, TransferTypeOK, Me, ListObjects, ListUploads, ResultOf
<1>2. CASE ListObjects(u)
  <2> DEFINE there == {n \in Names : objects[u][n] # <<>>}
             at == IF there = {} THEN "uploads" ELSE "delete"
             k == [c EXCEPT !.listed = there, !.pc = at]
  <2>1. Goes(u, k) /\ c.pc = "forget"
    BY <1>1, <1>2 DEF ListObjects
  <2>2. there \in SUBSET Nat /\ at \in Places /\ at \notin Before
    BY PartsAre DEF Places, Before
  <2>3. \A n \in Names : objects[u][n] # <<>> <=> n \in there
    OBVIOUS
  <2>4. (there = {} /\ at = "uploads") \/ (there # {} /\ at = "delete")
    OBVIOUS
  <2> HIDE DEF there, at
  <2>5. k \in ClientRow /\ k.pc = at /\ k.listed = there
    BY <1>1, <2>2 DEF ClientRow
  <2> HIDE DEF k
  <2>6. client'[u].pc = at /\ client'[u].listed = there
    BY <1>1, <2>1, <2>5, Going
  <2>7. (Uploading(u) /\ Removing(u))'
    BY <1>1, <2>3, <2>4, <2>6 DEF Uploading, Removing, NoneElse, NoObjects
  <2> QED
    BY <1>1, <2>1, <2>2, <2>5, <2>7, MovesAlone
<1>3. CASE ListUploads(u)
  <2> DEFINE there == OpenUploads(u)
             at == IF there = {} THEN "forgotten" ELSE "abortAll"
             k == [c EXCEPT !.listed = there, !.pc = at]
  <2>1. Goes(u, k) /\ c.pc = "uploads"
    BY <1>1, <1>3 DEF ListUploads
  <2>2. there \in SUBSET Nat /\ at \in Places /\ at \notin Before
    BY <1>1 DEF OpenUploads, TransferTypeOK, Places, Before
  <2>3. NoUploadsBut(u, there)
    BY <1>1 DEF OpenUploads, NoUploadsBut
  <2>4. (there = {} /\ at = "forgotten") \/ (there # {} /\ at = "abortAll")
    OBVIOUS
  <2> HIDE DEF there, at
  <2>5. k \in ClientRow /\ k.pc = at /\ k.listed = there /\ k.late = c.late
    BY <1>1, <2>2 DEF ClientRow
  <2> HIDE DEF k
  <2>6. client'[u].pc = at /\ client'[u].listed = there /\ client'[u].late = c.late
    BY <1>1, <2>1, <2>5, Going
  <2>7. ~c.late => NoObjects(u)
    BY <1>1, <2>1 DEF Removing
  <2>8. (Uploading(u) /\ Removing(u))'
    BY <1>1, <2>3, <2>4, <2>6, <2>7 DEF Uploading, Removing, NoObjects, NoUploadsBut
  <2> QED
    BY <1>1, <2>1, <2>2, <2>5, <2>8, MovesAlone
<1> QED
  BY <1>2, <1>3

\* A late request may write to a result that is gone, and then it is marked; it never takes away of a kept one.
LEMMA LateKeeps ==
  ASSUME TransferInv, NEW q \in wire, Late(q)
  PROVE  TransferInv'
<1> DEFINE r == q.result
<1>1. /\ TransferTypeOK /\ q \in WireRow /\ RequestFits(q) /\ r \in Uploaders
      /\ client \in [Uploaders -> ClientRow] /\ objects \in [Uploaders -> [Names -> Seq(Nat)]]
  BY DEF TransferInv, TransferTypeOK, WireRow
<1>2. /\ objects' \in [Uploaders -> [Names -> Seq(Nat)]]
      /\ uploads' \subseteq [result : Uploaders, name : Nat, no : Nat]
      /\ made' \in Nat
      /\ \A d \in Uploaders : d # r => objects'[d] = objects[d]
      /\ \A x \in uploads' : x \in uploads \/ x.result = r
      /\ client[r].pc \in Before => \A n \in Names : objects'[r][n] = objects[r][n] \/ objects'[r][n] = Content(n)
  <2>1. CASE CarriedOut(q)
    <3>1. /\ objects' \in [Uploaders -> [Names -> Seq(Nat)]]
          /\ uploads' \subseteq [result : Uploaders, name : Nat, no : Nat]
          /\ made' \in Nat
          /\ \A d \in Uploaders : d # r => objects'[d] = objects[d]
          /\ \A x \in uploads' : x \in uploads \/ x.result = r
          /\ \A n \in Names : objects'[r][n] = IF ObjectsWritten(q) /\ n = q.name THEN Content(n)
                                            ELSE IF q.op = "delete" /\ n \in q.names THEN <<>>
                                            ELSE objects[r][n]
      BY <1>1, <2>1, CarryingOut
    <3>2. client[r].pc \in Before => q.op # "delete"
      BY <1>1 DEF RequestFits
    <3> QED
      BY <3>1, <3>2
  <2>2. CASE UNCHANGED <<objects, uploads, made>>
    BY <1>1, <2>2 DEF TransferTypeOK
  <2> QED
    BY <2>1, <2>2 DEF Late
<1>3. /\ wire' \subseteq wire /\ lost' = lost
      /\ client' = [u \in Uploaders |-> IF u = r /\ client[u].pc \in Deleting THEN [client[u] EXCEPT !.late = TRUE] ELSE client[u]]
  BY DEF Late, ResultOf, Me
<1>4. ASSUME NEW u \in Uploaders
      PROVE  /\ client'[u] \in ClientRow /\ client'[u].pc = client[u].pc /\ client'[u].file = client[u].file
             /\ client'[u].etags = client[u].etags /\ client'[u].listed = client[u].listed
             /\ u # r => client'[u] = client[u]
             /\ u = r /\ client[u].pc \in Deleting => client'[u].late = TRUE
  <2> DEFINE k == [client[u] EXCEPT !.late = TRUE]
  <2>1. client[u] \in ClientRow
    BY <1>1
  <2>2. k \in ClientRow /\ k.pc = client[u].pc /\ k.file = client[u].file /\ k.etags = client[u].etags
        /\ k.listed = client[u].listed /\ k.late = TRUE
    BY <2>1 DEF ClientRow
  <2>3. client'[u] = IF u = r /\ client[u].pc \in Deleting THEN k ELSE client[u]
    BY <1>3
  <2> HIDE DEF k
  <2> QED
    BY <2>1, <2>2, <2>3
<1>5. client' \in [Uploaders -> ClientRow]
  <2>1. DOMAIN client' = Uploaders /\ client' = [u \in Uploaders |-> client'[u]]
    BY <1>3
  <2> QED
    BY <1>4, <2>1
<1>6. TransferTypeOK'
  BY <1>1, <1>2, <1>3, <1>5 DEF TransferTypeOK
<1>7. ASSUME NEW p \in wire'
      PROVE  RequestFits(p)'
  <2>1. p \in wire /\ RequestFits(p) /\ p.result \in Uploaders
    BY <1>1, <1>3 DEF TransferInv, TransferTypeOK, WireRow
  <2> QED
    BY <1>4, <2>1 DEF RequestFits
<1>8. ASSUME NEW u \in Uploaders
      PROVE  (Uploading(u) /\ Removing(u))'
  <2>1. Uploading(u) /\ Removing(u)
    BY DEF TransferInv
  <2>2. CASE u # r
    <3>1. client'[u] = client[u] /\ objects'[u] = objects[u]
      BY <1>2, <1>4, <2>2
    <3>2. Uploading(u)'
      BY <2>1, <3>1 DEF Uploading, EtagsFit, Whole
    <3>3. Removing(u)'
      BY <1>2, <2>1, <2>2, <3>1 DEF Removing, NoneElse, NoObjects, NoUploadsBut
    <3> QED
      BY <3>2, <3>3
  <2>3. CASE u = r
    <3>1. /\ client'[u].pc = client[u].pc /\ client'[u].file = client[u].file
          /\ client'[u].etags = client[u].etags /\ client'[u].listed = client[u].listed
          /\ client[u].pc \in Deleting => client'[u].late = TRUE
      BY <1>4, <2>3
    <3>2. client[u].pc \in Before => \A n \in Names : objects'[u][n] = objects[u][n] \/ objects'[u][n] = Content(n)
      BY <1>2, <2>3
    <3>3. Uploading(u)'
      BY <2>1, <3>1, <3>2 DEF Uploading, EtagsFit, Whole, Before
    <3>4. Removing(u)'
      BY <2>1, <3>1 DEF Removing, Deleting
    <3> QED
      BY <3>3, <3>4
  <2> QED
    BY <2>2, <2>3
<1> QED
  BY <1>6, <1>7, <1>8 DEF TransferInv

LEMMA TransferInvStarts == TransferInit => TransferInv
<1> SUFFICES ASSUME TransferInit
             PROVE  TransferInv
  OBVIOUS
<1>1. NewClient \in ClientRow /\ NewClient.pc = "upload" /\ NewClient.file = 1 /\ NewClient.etags = <<>>
  BY DEF NewClient, ClientRow, Places
<1>2. 1 \in Names /\ Parts[1] \in Nat
  BY PartsAre
<1>3. <<>> \in Seq(Nat) /\ Len(<<>>) = 0 /\ <<>> = [m \in 1 .. 0 |-> m]
  OBVIOUS
<1>4. TransferTypeOK
  BY <1>1, <1>3 DEF TransferInit, TransferTypeOK, Results
<1>5. \A n \in Names : ~(n < 1)
  BY PartsAre
<1>6. ASSUME NEW u \in Uploaders
      PROVE  Uploading(u) /\ Removing(u)
  <2>1. client[u] = NewClient
    BY DEF TransferInit
  <2>2. EtagsFit(client[u])
    BY <1>1, <1>2, <1>3, <2>1 DEF EtagsFit
  <2> HIDE DEF EtagsFit
  <2> QED
    BY <1>1, <1>2, <1>5, <2>1, <2>2 DEF Uploading, Removing
<1> QED
  BY <1>4, <1>6 DEF TransferInv, TransferInit

LEMMA TransferInvStep == TransferInv /\ [TransferNext]_transferVars => TransferInv'
<1> SUFFICES ASSUME TransferInv, [TransferNext]_transferVars
             PROVE  TransferInv'
  OBVIOUS
<1>1. CASE UNCHANGED transferVars
  BY <1>1 DEF transferVars, TransferInv, TransferTypeOK, RequestFits, Uploading, EtagsFit, Whole,
              Removing, NoneElse, NoObjects, NoUploadsBut
<1>2. ASSUME NEW u \in Uploaders, Answered(u)
      PROVE  TransferInv'
  BY <1>2, AnswerKeeps
<1>3. ASSUME NEW u \in Uploaders, GivenUp(u)
      PROVE  TransferInv'
  BY <1>3, GivenUpKeeps
<1>4. ASSUME NEW u \in Uploaders, Refused(u) \/ DeletedInPart(u)
      PROVE  TransferInv'
  BY <1>4, FailingKeeps
<1>5. ASSUME NEW u \in Uploaders, Close(u) \/ Expire(u)
      PROVE  TransferInv'
  BY <1>5, ClosingKeeps
<1>6. ASSUME NEW u \in Uploaders, ListObjects(u) \/ ListUploads(u)
      PROVE  TransferInv'
  BY <1>6, ListingKeeps
<1>7. ASSUME NEW q \in wire, Late(q)
      PROVE  TransferInv'
  BY <1>7, LateKeeps
<1> QED
  BY <1>1, <1>2, <1>3, <1>4, <1>5, <1>6, <1>7 DEF TransferNext

LEMMA TransferInvHolds == TransferInv => ResultsWhole
<1> SUFFICES ASSUME TransferInv
             PROVE  ResultsWhole
  OBVIOUS
<1>1. ASSUME NEW u \in Uploaders, Me(u).pc \in {"close", "kept"}
      PROVE  Whole(ResultOf(u))
  BY <1>1 DEF TransferInv, Uploading, Me, ResultOf
<1>2. ASSUME NEW u \in Uploaders, Me(u).pc = "forgotten", ~Me(u).late
      PROVE  AllGone(ResultOf(u))
  BY <1>2 DEF TransferInv, Removing, NoObjects, NoUploadsBut, AllGone, Me, ResultOf
<1> QED
  BY <1>1, <1>2 DEF ResultsWhole

\* A result that a run was closed with is whole, and one that was deleted without an error is gone with all
\* its uploads, whatever was tried again, lost or carried out late (upload_result, delete_result).
THEOREM ResultsStayWhole == TransferSpec => []ResultsWhole
<1>1. TransferInit => TransferInv
  BY TransferInvStarts
<1>2. TransferInv /\ [TransferNext]_transferVars => TransferInv'
  BY TransferInvStep
<1>3. TransferInv => ResultsWhole
  BY TransferInvHolds
<1> QED
  BY <1>1, <1>2, <1>3, PTL DEF TransferSpec

-----------------------------------------------------------------------------
(* The store is prepared.                                                  *)

\* What a file may hold.
Values == {<<n>> : n \in Nat \ {0}}
Kept == {Missing, Empty} \cup Values

OffRow == [at : {"off"}, why : {"new", "refused", "failed", "killed"}]
SecretsRow == [at : {"secrets"}, next : 1 .. Len(Order), value : Seq(Nat \ {0}), key : {p \in EnvKeys : Len(p) # 1},
               bucket : Buckets]
InitRow == [at : {"init"}, next : 1 .. Len(Steps), bucket : Buckets]
StartRow == [at : {"start"}, bucket : Buckets]

FilesOK ==
  /\ file \in [VolumeFiles -> Kept]
  /\ file[BucketFile] \in {Missing, Empty} \cup {<<b>> : b \in Buckets}
CountsOK == DOMAIN ups = {"done", "drawn", "meddled"} /\ ups.drawn \in Nat /\ ups.drawn >= 10
UpOK == up \in OffRow \cup SecretsRow \cup InitRow \cup StartRow

\* A key that was drawn is its own secret here; one of .env is told from it by being small.
StoreFits ==
  /\ DOMAIN store = {"keys", "rights", "rule"} /\ DOMAIN store.rights = DOMAIN store.keys
  /\ \A k \in DOMAIN store.keys : /\ k \in Nat /\ (k >= 10 => store.keys[k] = k)
                                  /\ store.rights[k] \in [Buckets -> SUBSET Rights]

\* The secret that goes with a key, for its owner.
Belongs(o, k, s) == IF k >= 10 THEN s = k ELSE o = PlatformKey /\ <<k, s>> \in EnvKeys
PairFits(o) ==
  Written(Access(o)) =>
    /\ Value(Access(o)) <= ups.drawn /\ \E s \in Nat : Belongs(o, Value(Access(o)), s)
    /\ Written(Secret(o)) => Belongs(o, Value(Access(o)), Value(Secret(o)))
Apart(o, q) == o # q /\ Written(Access(o)) /\ Written(Access(q)) => Value(Access(o)) # Value(Access(q))

\* Where in the order the files of the pairs are.
AccessAt(j) == j = 3 \/ (j > 5 /\ j % 2 = 0)
SecretAt(j) == j = 4 \/ (j > 5 /\ j % 2 = 1)
OwnerAt(j) == IF j \in {3, 4} THEN PlatformKey ELSE Services[(j - 4) \div 2]

\* `secrets` on its way: what is behind it is there, what it is about to write is not.
DrawnFor(o, value) ==
  /\ Len(value) = 2 /\ file[Secret(o)] = Missing /\ Belongs(o, value[1], value[2]) /\ value[1] <= ups.drawn
  /\ \A q \in Owners : Written(Access(q)) => Value(Access(q)) # value[1]
WritingFile ==
  LET j == up.next  o == OwnerAt(j)
  IN  /\ file[Order[j]] \in {Missing, Empty}
      /\ IF AccessAt(j) THEN DrawnFor(o, up.value) ELSE Len(up.value) = 1
      /\ SecretAt(j) => Written(Access(o)) /\ Belongs(o, Value(Access(o)), up.value[1])
      /\ j = 5 => up.value[1] = up.bucket
SecretsFit ==
  up.at = "secrets" =>
    /\ \A j \in 1 .. (up.next - 1) : file[Order[j]] # Missing
    /\ up.next > 5 => file[BucketFile] = <<up.bucket>>
    /\ IF up.value = <<>> THEN ~SecretAt(up.next) ELSE WritingFile

\* What a request of `init` has brought about.
KeyDone(o) == Usable(o) /\ Known(Value(Access(o))) /\ store.keys[Value(Access(o))] = Value(Secret(o))
HasNow(o) == store.rights[Value(Access(o))][Value(BucketFile)]
StepDone(what, o) ==
  /\ what \in {"key", "allow", "deny"} => KeyDone(o)
  /\ what \in {"bucket", "rule"} => Value(BucketFile) \in DOMAIN store.rule
  /\ what = "allow" => Allowed(o) \subseteq HasNow(o)
  /\ what = "deny" => HasNow(o) \subseteq Allowed(o)
  /\ what = "rule" => store.rule[Value(BucketFile)] = "results-7d"
DoneBefore(n) == \A j \in 1 .. Len(Steps) : j < n => StepDone(Steps[j][1], Steps[j][2])
Complete == (\A f \in VolumeFiles : file[f] # Missing) /\ file[BucketFile] = <<up.bucket>>
InitFits ==
  /\ up.at = "init" => Complete /\ DoneBefore(up.next)
  /\ up.at = "start" => Complete /\ DoneBefore(Len(Steps) + 1)

\* A process that runs has its files, and the store has what it needs.
IsServed(s) ==
  service[s] # <<>> =>
    LET k == service[s][1]  b == service[s][3]
    IN  /\ file[Access(s)] = <<k>> /\ k # 0 /\ Known(k) /\ store.keys[k] = service[s][2]
        /\ Needs[s] \subseteq store.rights[k][b]
        /\ b \in DOMAIN store.rule /\ store.rule[b] = "results-7d"

\* What is there between two steps.
Prepared ==
  /\ FilesOK /\ CountsOK /\ StoreFits
  /\ service \in [Served -> {<<>>} \cup (Nat \X Nat \X Buckets)]
  /\ \A o \in Owners : PairFits(o)
  /\ \A o, q \in Owners : Apart(o, q)
  /\ \A s \in Served : IsServed(s)

SetupInv == Prepared /\ UpOK /\ SecretsFit /\ InitFits

-----------------------------------------------------------------------------
\* Services and buckets as they may be.
LEMMA SetupParts ==
  /\ Len(Services) \in Nat /\ DOMAIN Services = 1 .. Len(Services)
  /\ Buckets \subseteq Nat \ {0} /\ PlatformKey \notin Served /\ Served \subseteq Owners /\ PlatformKey \in Owners
  /\ \A s \in Served : Needs[s] \subseteq Rights /\ Allowed(s) = Needs[s]
  /\ \A o \in Owners : Allowed(o) \subseteq Rights
BY StoreSetupAssumption DEF Served, Owners, Rights, Allowed

LEMMA FilesDiffer ==
  /\ \A o, q : Access(o) = Access(q) \/ Secret(o) = Secret(q) => o = q
  /\ \A o, q : Access(o) # Secret(q)
  /\ \A o : /\ Access(o) \notin {Rpc, Token, BucketFile} /\ Secret(o) \notin {Rpc, Token, BucketFile}
  /\ BucketFile \notin {Rpc, Token}
  /\ {Rpc, Token, BucketFile} \subseteq VolumeFiles
  /\ \A o \in Owners : Access(o) \in VolumeFiles /\ Secret(o) \in VolumeFiles
BY DEF Access, Secret, Rpc, Token, BucketFile, VolumeFiles, PairOf

\* What is where in the order of the files.
LEMMA OrderIs ==
  ASSUME NEW j \in 1 .. Len(Order)
  PROVE  /\ j \in Nat /\ Order[j] \in VolumeFiles
         /\ j = 1 => Order[j] = Rpc
         /\ j = 2 => Order[j] = Token
         /\ j = 5 => Order[j] = BucketFile
         /\ j \in {1, 2, 5} => ~AccessAt(j) /\ ~SecretAt(j)
         /\ AccessAt(j) => /\ j + 1 \in 1 .. Len(Order) /\ OwnerAt(j) \in Owners /\ Order[j] = Access(OwnerAt(j))
                           /\ SecretAt(j + 1) /\ OwnerAt(j + 1) = OwnerAt(j) /\ ~AccessAt(j + 1)
                           /\ (j + 2 \in 1 .. Len(Order) => ~SecretAt(j + 2))
         /\ SecretAt(j) => /\ OwnerAt(j) \in Owners /\ Order[j] = Secret(OwnerAt(j)) /\ ~AccessAt(j)
                           /\ (j + 1 \in 1 .. Len(Order) => ~SecretAt(j + 1))
         /\ ~AccessAt(j) /\ ~SecretAt(j) => j \in {1, 2, 5}
<1> DEFINE n == Len(Services)
           rest == [i \in 1 .. 2 * n |-> IF i % 2 = 1 THEN Access(Services[(i + 1) \div 2]) ELSE Secret(Services[i \div 2])]
           first == <<Rpc, Token, Access(PlatformKey), Secret(PlatformKey), BucketFile>>
<1>1. n \in Nat
  BY SetupParts
<1>2. Order = first \o rest
  BY DEF Order
<1>3. Len(first) = 5 /\ DOMAIN first = 1 .. 5
  OBVIOUS
<1>4. Len(rest) = 2 * n /\ DOMAIN rest = 1 .. (2 * n)
  BY <1>1
<1>5. Len(Order) = 5 + 2 * n
  BY <1>1, <1>2, <1>3, <1>4
<1>6. j \in Nat /\ j >= 1 /\ j <= 5 + 2 * n
  BY <1>1, <1>5
<1>7. Order[j] = IF j <= 5 THEN first[j] ELSE rest[j - 5]
  BY <1>1, <1>2, <1>3, <1>4, <1>6
<1> HIDE DEF rest
<1>8. CASE j <= 5
  <2>1. j \in {1, 2, 3, 4, 5} /\ Order[j] = first[j]
    BY <1>6, <1>7, <1>8
  <2>2. ~AccessAt(5) /\ ~SecretAt(5) /\ AccessAt(3) /\ SecretAt(4) /\ ~AccessAt(4) /\ ~SecretAt(3)
    BY DEF AccessAt, SecretAt
  <2>3. j \in {3, 4} => OwnerAt(j) = PlatformKey /\ OwnerAt(4) = PlatformKey /\ PlatformKey \in Owners
    BY SetupParts DEF OwnerAt
  <2>4. j \in {1, 2} => ~AccessAt(j) /\ ~SecretAt(j)
    BY DEF AccessAt, SecretAt
  <2> QED
    BY <1>1, <1>5, <2>1, <2>2, <2>3, <2>4, FilesDiffer
<1>9. CASE j > 5
  <2> DEFINE i == j - 5
  <2>1. i \in 1 .. (2 * n) /\ i \in Nat /\ Order[j] = rest[i] /\ j = i + 5
    BY <1>1, <1>6, <1>7, <1>9
  <2> HIDE DEF i
  <2>2. rest[i] = IF i % 2 = 1 THEN Access(Services[(i + 1) \div 2]) ELSE Secret(Services[i \div 2])
    BY <2>1 DEF rest
  <2>3. CASE i % 2 = 1
    <3>1. PICK m \in Nat : i = 2 * m + 1
      <4>1. i = 2 * (i \div 2) + 1 /\ (i \div 2) \in Nat
        BY <2>1, <2>3
      <4> QED
        BY <4>1
    <3>2. (i + 1) \div 2 = m + 1 /\ (j - 4) \div 2 = m + 1 /\ ((j + 1) - 4) \div 2 = m + 1
          /\ j % 2 = 0 /\ (j + 1) % 2 = 1 /\ (j + 2) % 2 = 0
      BY <2>1, <3>1
    <3>3. m + 1 \in 1 .. n /\ j + 1 \in 1 .. Len(Order)
      BY <1>1, <1>5, <2>1, <3>1
    <3>4. Services[m + 1] \in Owners
      BY <3>3, SetupParts DEF Owners, Served
    <3>5. AccessAt(j) /\ ~SecretAt(j) /\ SecretAt(j + 1) /\ ~AccessAt(j + 1) /\ ~SecretAt(j + 2)
      BY <1>9, <2>1, <3>2 DEF AccessAt, SecretAt
    <3>6. OwnerAt(j) = Services[m + 1] /\ OwnerAt(j + 1) = Services[m + 1]
      BY <1>9, <2>1, <3>2 DEF OwnerAt
    <3> QED
      BY <1>9, <2>1, <2>2, <2>3, <3>2, <3>3, <3>4, <3>5, <3>6, FilesDiffer
  <2>4. CASE i % 2 # 1
    <3>1. PICK m \in Nat : i = 2 * m /\ m >= 1
      <4>1. i = 2 * (i \div 2) /\ (i \div 2) \in Nat /\ i \div 2 >= 1
        BY <2>1, <2>4
      <4> QED
        BY <4>1
    <3>2. i \div 2 = m /\ (j - 4) \div 2 = m /\ j % 2 = 1 /\ (j + 1) % 2 = 0
      BY <2>1, <3>1
    <3>3. m \in 1 .. n
      BY <1>1, <2>1, <3>1
    <3>4. Services[m] \in Owners
      BY <3>3, SetupParts DEF Owners, Served
    <3>5. ~AccessAt(j) /\ SecretAt(j) /\ ~SecretAt(j + 1)
      BY <1>9, <2>1, <3>2 DEF AccessAt, SecretAt
    <3>6. OwnerAt(j) = Services[m]
      BY <1>9, <2>1, <3>2 DEF OwnerAt
    <3> QED
      BY <1>9, <2>1, <2>2, <2>4, <3>2, <3>3, <3>4, <3>5, <3>6, FilesDiffer
  <2> QED
    BY <2>3, <2>4
<1> QED
  BY <1>6, <1>8, <1>9

LEMMA OrderLength == Len(Order) \in Nat /\ Len(Order) >= 5
<1> DEFINE n == Len(Services)
           rest == [i \in 1 .. 2 * n |-> IF i % 2 = 1 THEN Access(Services[(i + 1) \div 2]) ELSE Secret(Services[i \div 2])]
           first == <<Rpc, Token, Access(PlatformKey), Secret(PlatformKey), BucketFile>>
<1>1. n \in Nat /\ Order = first \o rest
  BY SetupParts DEF Order
<1>2. Len(first) = 5 /\ DOMAIN first = 1 .. 5 /\ Len(rest) = 2 * n /\ DOMAIN rest = 1 .. (2 * n)
  BY <1>1
<1>3. Len(Order) = 5 + 2 * n
  BY <1>1, <1>2
<1> QED
  BY <1>1, <1>3

\* Every file of the volumes is looked at.
LEMMA OrderCovers ==
  ASSUME NEW f \in VolumeFiles
  PROVE  \E j \in 1 .. Len(Order) : Order[j] = f
<1> DEFINE n == Len(Services)
           rest == [i \in 1 .. 2 * n |-> IF i % 2 = 1 THEN Access(Services[(i + 1) \div 2]) ELSE Secret(Services[i \div 2])]
           first == <<Rpc, Token, Access(PlatformKey), Secret(PlatformKey), BucketFile>>
<1>1. n \in Nat
  BY SetupParts
<1>2. Order = first \o rest
  BY DEF Order
<1>3. Len(first) = 5 /\ DOMAIN first = 1 .. 5
  OBVIOUS
<1>4. Len(rest) = 2 * n /\ DOMAIN rest = 1 .. (2 * n)
  BY <1>1
<1>5. Len(Order) = 5 + 2 * n
  BY <1>1, <1>2, <1>3, <1>4
<1>6. \A j \in 1 .. 5 : Order[j] = first[j]
  BY <1>1, <1>2, <1>3, <1>4
<1>7. \A i \in 1 .. (2 * n) : Order[i + 5] = rest[i] /\ i + 5 \in 1 .. Len(Order)
  BY <1>1, <1>2, <1>3, <1>4, <1>5
<1>8. CASE f \in {Rpc, Token, BucketFile, Access(PlatformKey), Secret(PlatformKey)}
  <2>1. \E j \in 1 .. 5 : first[j] = f
    BY <1>8
  <2> QED
    BY <1>1, <1>5, <1>6, <2>1
<1>9. ASSUME NEW s \in Served, f \in PairOf(s)
      PROVE  \E j \in 1 .. Len(Order) : Order[j] = f
  <2>1. PICK m \in 1 .. n : Services[m] = s
    BY SetupParts DEF Served
  <2>2. CASE f = Access(s)
    <3>1. 2 * m - 1 \in 1 .. (2 * n) /\ (2 * m - 1) % 2 = 1 /\ ((2 * m - 1) + 1) \div 2 = m
      BY <1>1
    <3> QED
      BY <1>7, <2>1, <2>2, <3>1
  <2>3. CASE f = Secret(s)
    <3>1. 2 * m \in 1 .. (2 * n) /\ (2 * m) % 2 # 1 /\ (2 * m) \div 2 = m
      BY <1>1
    <3> QED
      BY <1>7, <2>1, <2>3, <3>1
  <2> QED
    BY <1>9, <2>2, <2>3 DEF PairOf
<1> QED
  BY <1>8, <1>9 DEF VolumeFiles, Owners, PairOf

LEMMA JoinedLists ==
  ASSUME NEW S, NEW a \in Seq(S), NEW b \in Seq(S)
  PROVE  /\ a \o b \in Seq(S) /\ Len(a \o b) = Len(a) + Len(b)
         /\ \A i \in 1 .. Len(a) : (a \o b)[i] = a[i]
         /\ \A i \in 1 .. Len(b) : (a \o b)[Len(a) + i] = b[i]
OBVIOUS

\* What is asked of the store after what.
LEMMA StepsAre ==
  /\ Len(Steps) \in Nat /\ Len(Steps) >= 4
  /\ \A j \in 1 .. Len(Steps) :
       /\ Steps[j][1] \in {"key", "bucket", "allow", "deny", "rule"} /\ Steps[j][2] \in Owners
       /\ Steps[j][1] \in {"allow", "deny"} =>
            \E i \in 1 .. Len(Steps) : i < j /\ Steps[i][1] = "key" /\ Steps[i][2] = Steps[j][2]
       /\ Steps[j][1] = "rule" => \E i \in 1 .. Len(Steps) : i < j /\ Steps[i][1] = "bucket"
  /\ \A o \in Owners : \E j \in 1 .. Len(Steps) : Steps[j][1] = "key" /\ Steps[j][2] = o
  /\ \A o \in Owners : \E j \in 1 .. Len(Steps) : Steps[j][1] = "allow" /\ Steps[j][2] = o
  /\ \A s \in Served : \E j \in 1 .. Len(Steps) : Steps[j][1] = "deny" /\ Steps[j][2] = s
  /\ \E j \in 1 .. Len(Steps) : Steps[j][1] = "rule"
<1> DEFINE n == Len(Services)
           kind(i) == (<<"key", "allow", "deny">>)[((i - 1) % 3) + 1]
           first == <<<<"key", PlatformKey>>, <<"bucket", PlatformKey>>, <<"allow", PlatformKey>>>>
           mid == [i \in 1 .. 3 * n |-> <<kind(i), Services[((i + 2) \div 3)]>>]
           last == <<<<"rule", PlatformKey>>>>
<1>1. n \in Nat /\ PlatformKey \in Owners
  BY SetupParts
<1>2. Steps = (first \o mid) \o last
  BY DEF Steps
<1>3. Len(first) = 3 /\ DOMAIN first = 1 .. 3 /\ Len(last) = 1 /\ DOMAIN last = 1 .. 1
  OBVIOUS
<1>4. Len(mid) = 3 * n /\ DOMAIN mid = 1 .. (3 * n)
  BY <1>1
<1>a. /\ first[1] = <<"key", PlatformKey>> /\ first[2] = <<"bucket", PlatformKey>> /\ first[3] = <<"allow", PlatformKey>>
      /\ last[1] = <<"rule", PlatformKey>>
  OBVIOUS
<1>b. \A i \in 1 .. (3 * n) : mid[i] = <<kind(i), Services[((i + 2) \div 3)]>>
  OBVIOUS
<1>c. ASSUME NEW m \in 1 .. n
      PROVE  /\ mid[3 * m - 2] = <<"key", Services[m]>> /\ mid[3 * m - 1] = <<"allow", Services[m]>>
             /\ mid[3 * m] = <<"deny", Services[m]>>
             /\ {3 * m - 2, 3 * m - 1, 3 * m} \subseteq 1 .. (3 * n) /\ Services[m] \in Served
  <2>1. /\ {3 * m - 2, 3 * m - 1, 3 * m} \subseteq 1 .. (3 * n)
        /\ ((3 * m - 2) - 1) % 3 = 0 /\ ((3 * m - 1) - 1) % 3 = 1 /\ (3 * m - 1) % 3 = 2
        /\ ((3 * m - 2) + 2) \div 3 = m /\ ((3 * m - 1) + 2) \div 3 = m /\ (3 * m + 2) \div 3 = m
    BY <1>1
  <2>2. kind(3 * m - 2) = "key" /\ kind(3 * m - 1) = "allow" /\ kind(3 * m) = "deny"
    BY <2>1
  <2> HIDE DEF kind, mid
  <2> QED
    BY <1>b, <2>1, <2>2, SetupParts DEF Served
<1>d. ASSUME NEW i \in 1 .. (3 * n)
      PROVE  \E m \in 1 .. n : i \in {3 * m - 2, 3 * m - 1, 3 * m}
  <2>1. i \in Nat /\ (i + 2) \div 3 \in 1 .. n
    BY <1>1
  <2>2. i \in {3 * ((i + 2) \div 3) - 2, 3 * ((i + 2) \div 3) - 1, 3 * ((i + 2) \div 3)}
    BY <2>1
  <2> QED
    BY <2>1, <2>2
<1> HIDE DEF kind, mid, first, last
<1> DEFINE head == first \o mid  Asked == {"key", "bucket", "allow", "deny", "rule"} \X Owners
<1>g. first \in Seq(Asked) /\ last \in Seq(Asked)
  BY <1>1 DEF first, last
<1>h. mid \in Seq(Asked)
  <2>1. ASSUME NEW i \in 1 .. (3 * n)
        PROVE  mid[i] \in Asked
    <3>1. PICK m \in 1 .. n : i \in {3 * m - 2, 3 * m - 1, 3 * m}
      BY <1>d
    <3>2. mid[i] \in {<<"key", Services[m]>>, <<"allow", Services[m]>>, <<"deny", Services[m]>>} /\ Services[m] \in Owners
      BY <1>c, <3>1, SetupParts
    <3> QED
      BY <3>2
  <2>2. mid = [i \in 1 .. (3 * n) |-> mid[i]]
    BY DEF mid
  <2>3. 3 * n \in Nat
    BY <1>1
  <2> HIDE DEF Asked
  <2> QED
    BY <2>1, <2>2, <2>3
<1> HIDE DEF Asked
<1>e. head \in Seq(Asked) /\ Len(head) = 3 + 3 * n
      /\ (\A i \in 1 .. 3 : head[i] = first[i]) /\ \A i \in 1 .. (3 * n) : head[3 + i] = mid[i]
  <2>1. /\ first \o mid \in Seq(Asked) /\ Len(first \o mid) = Len(first) + Len(mid)
        /\ \A i \in 1 .. Len(first) : (first \o mid)[i] = first[i]
        /\ \A i \in 1 .. Len(mid) : (first \o mid)[Len(first) + i] = mid[i]
    BY <1>g, <1>h, JoinedLists
  <2>2. Len(first) = 3 /\ Len(mid) = 3 * n
    BY <1>3, <1>4
  <2> QED
    BY <2>1, <2>2
<1> HIDE DEF head
<1>f. Steps = head \o last
  BY <1>2 DEF head
<1>i. /\ Len(Steps) = (3 + 3 * n) + 1
      /\ \A i \in 1 .. (3 + 3 * n) : Steps[i] = head[i]
      /\ Steps[(3 + 3 * n) + 1] = last[1]
  <2>1. /\ Len(head \o last) = Len(head) + Len(last)
        /\ \A i \in 1 .. Len(head) : (head \o last)[i] = head[i]
        /\ \A i \in 1 .. Len(last) : (head \o last)[Len(head) + i] = last[i]
    <3>1. head \in Seq(Asked) /\ last \in Seq(Asked)
      BY <1>e, <1>g
    <3> QED
      BY <3>1, JoinedLists
  <2>2. Len(head) = 3 + 3 * n /\ Len(last) = 1
    BY <1>3, <1>e
  <2>3. 1 \in 1 .. 1
    OBVIOUS
  <2> QED
    BY <1>f, <2>1, <2>2, <2>3
<1>5. Len(Steps) = 4 + 3 * n
  BY <1>1, <1>i
<1>6. /\ \A i \in 1 .. 3 : Steps[i] = first[i]
      /\ \A i \in 1 .. (3 * n) : Steps[3 + i] = mid[i]
      /\ Steps[4 + 3 * n] = last[1]
  <2>1. \A i \in 1 .. (3 + 3 * n) : Steps[i] = head[i]
    BY <1>i
  <2>2. Steps[4 + 3 * n] = last[1]
    BY <1>1, <1>i
  <2>3. \A i \in 1 .. (3 * n) : 3 + i \in 1 .. (3 + 3 * n)
    BY <1>1
  <2>4. \A i \in 1 .. 3 : i \in 1 .. (3 + 3 * n)
    BY <1>1
  <2> QED
    BY <1>e, <2>1, <2>2, <2>3, <2>4
<1>7. /\ Steps[1] = <<"key", PlatformKey>> /\ Steps[2] = <<"bucket", PlatformKey>> /\ Steps[3] = <<"allow", PlatformKey>>
      /\ Steps[4 + 3 * n] = <<"rule", PlatformKey>>
  BY <1>6, <1>a
<1>8. ASSUME NEW m \in 1 .. n
      PROVE  /\ Steps[3 + (3 * m - 2)] = <<"key", Services[m]>> /\ Steps[3 + (3 * m - 1)] = <<"allow", Services[m]>>
             /\ Steps[3 + 3 * m] = <<"deny", Services[m]>> /\ Services[m] \in Served /\ Services[m] \in Owners
             /\ {3 + (3 * m - 2), 3 + (3 * m - 1), 3 + 3 * m} \subseteq 1 .. Len(Steps)
  <2>1. /\ mid[3 * m - 2] = <<"key", Services[m]>> /\ mid[3 * m - 1] = <<"allow", Services[m]>>
        /\ mid[3 * m] = <<"deny", Services[m]>>
        /\ {3 * m - 2, 3 * m - 1, 3 * m} \subseteq 1 .. (3 * n) /\ Services[m] \in Served
    BY <1>c
  <2>2. Services[m] \in Owners
    BY <2>1, SetupParts
  <2>3. {3 + (3 * m - 2), 3 + (3 * m - 1), 3 + 3 * m} \subseteq 1 .. Len(Steps)
    BY <1>1, <1>5
  <2> QED
    BY <1>6, <2>1, <2>2, <2>3
<1>9. ASSUME NEW j \in 1 .. Len(Steps)
      PROVE  j \in {1, 2, 3, 4 + 3 * n} \/ \E m \in 1 .. n : j \in {3 + (3 * m - 2), 3 + (3 * m - 1), 3 + 3 * m}
  <2>1. CASE j > 3 /\ j < 4 + 3 * n
    <3>1. j - 3 \in 1 .. (3 * n) /\ j = 3 + (j - 3)
      BY <1>1, <1>5, <2>1
    <3>2. PICK m \in 1 .. n : j - 3 \in {3 * m - 2, 3 * m - 1, 3 * m}
      BY <1>d, <3>1
    <3> QED
      BY <3>1, <3>2
  <2>2. CASE ~(j > 3 /\ j < 4 + 3 * n)
    BY <1>1, <1>5, <2>2
  <2> QED
    BY <2>1, <2>2
<1>10. ASSUME NEW j \in 1 .. Len(Steps)
       PROVE  /\ Steps[j][1] \in {"key", "bucket", "allow", "deny", "rule"} /\ Steps[j][2] \in Owners
              /\ Steps[j][1] \in {"allow", "deny"} =>
                   \E i \in 1 .. Len(Steps) : i < j /\ Steps[i][1] = "key" /\ Steps[i][2] = Steps[j][2]
              /\ Steps[j][1] = "rule" => \E i \in 1 .. Len(Steps) : i < j /\ Steps[i][1] = "bucket"
  <2>1. CASE j \in {1, 2, 3, 4 + 3 * n}
    <3>1. 1 \in 1 .. Len(Steps) /\ 2 \in 1 .. Len(Steps) /\ 2 < 4 + 3 * n
      BY <1>1, <1>5
    <3> QED
      BY <1>1, <1>7, <2>1, <3>1
  <2>2. ASSUME NEW m \in 1 .. n, j \in {3 + (3 * m - 2), 3 + (3 * m - 1), 3 + 3 * m}
        PROVE  /\ Steps[j][1] \in {"key", "allow", "deny"} /\ Steps[j][2] = Services[m] /\ Services[m] \in Owners
               /\ Steps[j][1] \in {"allow", "deny"} => 3 + (3 * m - 2) < j
               /\ Steps[3 + (3 * m - 2)][1] = "key" /\ Steps[3 + (3 * m - 2)][2] = Services[m]
               /\ 3 + (3 * m - 2) \in 1 .. Len(Steps)
    <3>1. m \in Nat
      BY <1>1
    <3>2. CASE j = 3 + (3 * m - 2)
      BY <1>8, <3>2
    <3>3. CASE j = 3 + (3 * m - 1)
      BY <1>8, <3>1, <3>3
    <3>4. CASE j = 3 + 3 * m
      BY <1>8, <3>1, <3>4
    <3> QED
      BY <2>2, <3>2, <3>3, <3>4
  <2>3. CASE \E m \in 1 .. n : j \in {3 + (3 * m - 2), 3 + (3 * m - 1), 3 + 3 * m}
    <3>1. PICK m \in 1 .. n : j \in {3 + (3 * m - 2), 3 + (3 * m - 1), 3 + 3 * m}
      BY <2>3
    <3>2. /\ Steps[j][1] \in {"key", "allow", "deny"} /\ Steps[j][2] \in Owners
          /\ Steps[j][1] \in {"allow", "deny"} =>
               \E i \in 1 .. Len(Steps) : i < j /\ Steps[i][1] = "key" /\ Steps[i][2] = Steps[j][2]
      BY <2>2, <3>1
    <3> QED
      BY <3>2
  <2> QED
    BY <1>9, <2>1, <2>3
<1>11. ASSUME NEW s \in Served
       PROVE  /\ \E j \in 1 .. Len(Steps) : Steps[j][1] = "key" /\ Steps[j][2] = s
              /\ \E j \in 1 .. Len(Steps) : Steps[j][1] = "allow" /\ Steps[j][2] = s
              /\ \E j \in 1 .. Len(Steps) : Steps[j][1] = "deny" /\ Steps[j][2] = s
  <2>1. PICK m \in 1 .. n : Services[m] = s
    BY SetupParts DEF Served
  <2>2. /\ Steps[3 + (3 * m - 2)] = <<"key", s>> /\ Steps[3 + (3 * m - 1)] = <<"allow", s>>
        /\ Steps[3 + 3 * m] = <<"deny", s>>
        /\ 3 + (3 * m - 2) \in 1 .. Len(Steps) /\ 3 + (3 * m - 1) \in 1 .. Len(Steps) /\ 3 + 3 * m \in 1 .. Len(Steps)
    BY <1>8, <2>1
  <2>3. <<"key", s>>[1] = "key" /\ <<"key", s>>[2] = s /\ <<"allow", s>>[1] = "allow" /\ <<"allow", s>>[2] = s
        /\ <<"deny", s>>[1] = "deny" /\ <<"deny", s>>[2] = s
    OBVIOUS
  <2> QED
    BY <2>2, <2>3
<1>12. /\ \E j \in 1 .. Len(Steps) : Steps[j][1] = "key" /\ Steps[j][2] = PlatformKey
       /\ \E j \in 1 .. Len(Steps) : Steps[j][1] = "allow" /\ Steps[j][2] = PlatformKey
       /\ \E j \in 1 .. Len(Steps) : Steps[j][1] = "rule"
  <2>1. {1, 3, 4 + 3 * n} \subseteq 1 .. Len(Steps)
    BY <1>1, <1>5
  <2> QED
    BY <1>7, <2>1
<1>13. Len(Steps) \in Nat /\ Len(Steps) >= 4
  BY <1>1, <1>5
<1>14. ASSUME NEW o \in Owners
       PROVE  /\ \E j \in 1 .. Len(Steps) : Steps[j][1] = "key" /\ Steps[j][2] = o
              /\ \E j \in 1 .. Len(Steps) : Steps[j][1] = "allow" /\ Steps[j][2] = o
  <2>1. o = PlatformKey \/ o \in Served
    BY DEF Owners
  <2>2. CASE o = PlatformKey
    BY <1>12, <2>2
  <2>3. CASE o \in Served
    BY <1>11, <2>3
  <2> QED
    BY <2>1, <2>2, <2>3
<1> HIDE DEF n, kind, first, mid, last
<1>15. \A j \in 1 .. Len(Steps) :
         /\ Steps[j][1] \in {"key", "bucket", "allow", "deny", "rule"} /\ Steps[j][2] \in Owners
         /\ Steps[j][1] \in {"allow", "deny"} =>
              \E i \in 1 .. Len(Steps) : i < j /\ Steps[i][1] = "key" /\ Steps[i][2] = Steps[j][2]
         /\ Steps[j][1] = "rule" => \E i \in 1 .. Len(Steps) : i < j /\ Steps[i][1] = "bucket"
  BY <1>10
<1>16. /\ \A o \in Owners : \E j \in 1 .. Len(Steps) : Steps[j][1] = "key" /\ Steps[j][2] = o
       /\ \A o \in Owners : \E j \in 1 .. Len(Steps) : Steps[j][1] = "allow" /\ Steps[j][2] = o
  BY <1>14
<1>17. \A s \in Served : \E j \in 1 .. Len(Steps) : Steps[j][1] = "deny" /\ Steps[j][2] = s
  BY <1>11
<1> QED
  BY <1>12, <1>13, <1>15, <1>16, <1>17, Zenon

LEMMA KeptFiles ==
  ASSUME FilesOK, NEW f \in VolumeFiles
  PROVE  /\ file[f] \in Kept
         /\ Written(f) => Value(f) \in Nat /\ Value(f) # 0 /\ file[f] = <<Value(f)>>
         /\ ~Written(f) => file[f] \in {Missing, Empty}
<1>1. file[f] \in Kept
  BY DEF FilesOK
<1> QED
  BY <1>1 DEF Kept, Values, Written, Value

LEMMA ValueKept ==
  ASSUME NEW n \in Nat \ {0}
  PROVE  <<n>> \in Kept /\ <<n>> # Missing /\ <<n>> # Empty /\ <<n>>[1] = n /\ Missing # Empty
BY DEF Kept, Values, Missing, Empty

LEMMA UpRows ==
  ASSUME UpOK
  PROVE  /\ up.at = "secrets" => up \in SecretsRow
         /\ up.at = "init" => up \in InitRow
         /\ up.at = "start" => up \in StartRow
         /\ up.at \in {"off", "secrets", "init", "start"}
BY DEF UpOK, OffRow, SecretsRow, InitRow, StartRow

LEMMA OffPromisesNothing ==
  ASSUME up' \in {Off("refused"), Off("failed"), Off("killed")}
  PROVE  UpOK' /\ SecretsFit' /\ InitFits' /\ up'.at = "off"
<1>1. up' \in OffRow /\ up'.at = "off"
  BY DEF Off, OffRow
<1> QED
  BY <1>1 DEF UpOK, SecretsFit, InitFits

LEMMA NothingWritten ==
  ASSUME Prepared, UNCHANGED <<file, store, service>>, CountsOK', ups'.drawn >= ups.drawn
  PROVE  Prepared'
<1>1. FilesOK' /\ StoreFits'
  BY DEF Prepared, FilesOK, StoreFits
<1>2. ASSUME NEW o \in Owners
      PROVE  PairFits(o)'
  <2>1. PairFits(o) /\ FilesOK /\ CountsOK
    BY DEF Prepared
  <2>2. Written(Access(o)) => Value(Access(o)) \in Nat
    BY <2>1, KeptFiles, FilesDiffer
  <2>3. ups.drawn \in Nat /\ ups'.drawn \in Nat
    BY <2>1 DEF CountsOK
  <2> QED
    BY <2>1, <2>2, <2>3 DEF PairFits, Written, Value, Belongs
<1>3. ASSUME NEW o \in Owners, NEW q \in Owners
      PROVE  Apart(o, q)'
  BY DEF Prepared, Apart, Written, Value
<1>4. ASSUME NEW s \in Served
      PROVE  IsServed(s)'
  BY DEF Prepared, IsServed, Known
<1> QED
  BY <1>1, <1>2, <1>3, <1>4 DEF Prepared

\* Files go, but never one of a pair somebody runs with.
LEMMA FilesGo ==
  ASSUME Prepared, NEW S \in SUBSET VolumeFiles,
         file' = [f \in VolumeFiles |-> IF f \in S THEN Missing ELSE file[f]],
         \A s \in Served : service[s] # <<>> => Access(s) \notin S,
         UNCHANGED <<store, service>>, CountsOK', ups'.drawn = ups.drawn
  PROVE  Prepared'
<1>0. FilesOK /\ \A f \in VolumeFiles : file'[f] = file[f] \/ file'[f] = Missing
  BY DEF Prepared
<1>1. FilesOK' /\ StoreFits'
  <2>1. Missing \in Kept
    BY DEF Kept
  <2>2. file' \in [VolumeFiles -> Kept]
    BY <1>0, <2>1 DEF FilesOK
  <2>3. file'[BucketFile] \in {Missing, Empty} \cup {<<b>> : b \in Buckets}
    BY <1>0, FilesDiffer DEF FilesOK
  <2> QED
    BY <2>2, <2>3 DEF FilesOK, StoreFits, Prepared
<1>2. ASSUME NEW f \in VolumeFiles, Written(f)'
      PROVE  Written(f) /\ Value(f)' = Value(f) /\ file'[f] = file[f]
  BY <1>0, <1>2 DEF Written, Value
<1>3. ASSUME NEW o \in Owners
      PROVE  PairFits(o)'
  <2>1. PairFits(o) /\ Access(o) \in VolumeFiles /\ Secret(o) \in VolumeFiles
    BY FilesDiffer DEF Prepared
  <2> QED
    BY <1>2, <2>1 DEF PairFits, Belongs
<1>4. ASSUME NEW o \in Owners, NEW q \in Owners
      PROVE  Apart(o, q)'
  BY <1>2, FilesDiffer DEF Prepared, Apart
<1>5. ASSUME NEW s \in Served
      PROVE  IsServed(s)'
  <2>1. Access(s) \in VolumeFiles
    BY FilesDiffer, SetupParts
  <2> QED
    BY <2>1 DEF Prepared, IsServed, Known
<1> QED
  BY <1>1, <1>3, <1>4, <1>5 DEF Prepared

\* A file that holds nothing is created, or written.
LEMMA FileComes ==
  ASSUME Prepared, NEW f \in VolumeFiles, ~Written(f), NEW v \in Kept, file' = [file EXCEPT ![f] = v],
         UNCHANGED <<store, service, ups>>,
         f = BucketFile => v \in {Missing, Empty} \cup {<<b>> : b \in Buckets},
         \A o \in Owners : f = Access(o) /\ v \notin {Missing, Empty} =>
           /\ ~Written(Secret(o)) /\ v[1] <= ups.drawn /\ \E s \in Nat : Belongs(o, v[1], s)
           /\ \A q \in Owners : Written(Access(q)) => Value(Access(q)) # v[1],
         \A o \in Owners : f = Secret(o) /\ v \notin {Missing, Empty} =>
           Written(Access(o)) /\ Belongs(o, Value(Access(o)), v[1])
  PROVE  Prepared'
<1>0. FilesOK /\ CountsOK /\ StoreFits /\ file \in [VolumeFiles -> Kept]
  BY DEF Prepared, FilesOK
<1>1. FilesOK' /\ StoreFits' /\ CountsOK'
  BY <1>0, FilesDiffer DEF FilesOK, StoreFits, CountsOK
<1>2. /\ file'[f] = v
      /\ \A g \in VolumeFiles : g # f => file'[g] = file[g] /\ (Written(g)' <=> Written(g)) /\ Value(g)' = Value(g)
      /\ Written(f)' => v \notin {Missing, Empty} /\ Value(f)' = v[1]
  BY <1>0 DEF Written, Value
<1>3. ASSUME NEW o \in Owners
      PROVE  PairFits(o)'
  <2>1. PairFits(o) /\ Access(o) \in VolumeFiles /\ Secret(o) \in VolumeFiles /\ Access(o) # Secret(o)
    BY FilesDiffer DEF Prepared
  <2>2. CASE f = Access(o)
    <3>1. Secret(o) # f /\ (Written(Secret(o))' <=> Written(Secret(o)))
      BY <1>2, <2>1, <2>2
    <3> QED
      BY <1>2, <2>2, <3>1 DEF PairFits, Belongs
  <2>3. CASE f = Secret(o)
    <3>1. (Written(Access(o))' <=> Written(Access(o))) /\ Value(Access(o))' = Value(Access(o))
      BY <1>2, <2>1, <2>3
    <3>2. Written(f)' => Belongs(o, Value(Access(o)), Value(f)')
      BY <1>2, <2>3
    <3> QED
      BY <2>1, <2>3, <3>1, <3>2 DEF PairFits, Belongs
  <2>4. CASE f # Access(o) /\ f # Secret(o)
    BY <1>2, <2>1, <2>4 DEF PairFits, Belongs
  <2> QED
    BY <2>2, <2>3, <2>4
<1>4. ASSUME NEW o \in Owners, NEW q \in Owners
      PROVE  Apart(o, q)'
  <2>1. Apart(o, q) /\ Access(o) \in VolumeFiles /\ Access(q) \in VolumeFiles /\ (Access(o) = Access(q) => o = q)
    BY FilesDiffer DEF Prepared
  <2>2. CASE f = Access(o) /\ o # q
    BY <1>2, <2>1, <2>2 DEF Apart
  <2>3. CASE f = Access(q) /\ o # q
    BY <1>2, <2>1, <2>3 DEF Apart
  <2>4. CASE f # Access(o) /\ f # Access(q)
    BY <1>2, <2>1, <2>4 DEF Apart
  <2> QED
    BY <2>2, <2>3, <2>4 DEF Apart
<1>5. ASSUME NEW s \in Served
      PROVE  IsServed(s)'
  <2>1. CASE service[s] # <<>>
    <3>1. IsServed(s) /\ Access(s) \in VolumeFiles
      BY FilesDiffer, SetupParts DEF Prepared
    <3>2. file[Access(s)] = <<service[s][1]>> /\ service[s][1] # 0
      BY <2>1, <3>1 DEF IsServed
    <3>3. Written(Access(s))
      BY <3>2 DEF Written, Missing, Empty
    <3>4. f # Access(s)
      BY <3>3
    <3>5. file'[Access(s)] = file[Access(s)]
      BY <1>2, <3>1, <3>4
    <3> QED
      BY <3>1, <3>5 DEF IsServed, Known
  <2>2. CASE service[s] = <<>>
    BY <2>2 DEF IsServed
  <2> QED
    BY <2>1, <2>2
<1> QED
  BY <1>1, <1>3, <1>4, <1>5 DEF Prepared

LEMMA SecretsParts ==
  ASSUME NEW r \in SecretsRow
  PROVE  /\ r.at = "secrets" /\ r.next \in 1 .. Len(Order) /\ r.next \in Nat /\ r.value \in Seq(Nat \ {0})
         /\ r.key \in EnvKeys /\ Len(r.key) # 1 /\ r.bucket \in Buckets
<1>1. /\ r.at = "secrets" /\ r.next \in 1 .. Len(Order) /\ r.value \in Seq(Nat \ {0})
      /\ r.key \in EnvKeys /\ Len(r.key) # 1 /\ r.bucket \in Buckets
  BY DEF SecretsRow
<1> QED
  BY <1>1, OrderLength

\* The next file, or `init`.
LEMMA GoingPast ==
  ASSUME UpOK, up.at = "secrets", NEW n \in {1, 2}, up' = Past(n), up.next + n - 1 <= Len(Order),
         \A j \in 1 .. (up.next + n - 1) : file'[Order[j]] # Missing,
         up.next + n > 5 => file'[BucketFile] = <<up.bucket>>,
         up.next + n <= Len(Order) => ~SecretAt(up.next + n)
  PROVE  UpOK' /\ SecretsFit' /\ InitFits'
<1>1. up \in SecretsRow
  BY UpRows
<1>2. up.next \in Nat /\ up.next >= 1 /\ up.bucket \in Buckets /\ Len(Order) \in Nat /\ Len(Order) >= 5
  BY <1>1, SecretsParts, OrderLength
<1>3. CASE up.next + n <= Len(Order)
  <2>1. up' = [up EXCEPT !.next = up.next + n, !.value = <<>>]
    BY <1>3 DEF Past
  <2>2. up.next + n \in 1 .. Len(Order) /\ <<>> \in Seq(Nat \ {0})
    BY <1>2, <1>3
  <2>3. up' \in SecretsRow /\ up'.at = "secrets" /\ up'.next = up.next + n /\ up'.value = <<>> /\ up'.bucket = up.bucket
    BY <1>1, <2>1, <2>2 DEF SecretsRow
  <2>4. \A j \in 1 .. (up'.next - 1) : file'[Order[j]] # Missing
    <3>1. up'.next - 1 = up.next + n - 1
      BY <1>2, <2>3
    <3> QED
      BY <3>1
  <2>5. SecretsFit'
    BY <1>3, <2>3, <2>4 DEF SecretsFit
  <2>6. UpOK' /\ InitFits'
    BY <2>3 DEF UpOK, InitFits
  <2> QED
    BY <2>5, <2>6
<1>4. CASE ~(up.next + n <= Len(Order))
  <2>1. up' = [at |-> "init", next |-> 1, bucket |-> up.bucket]
    BY <1>4 DEF Past
  <2>2. up' \in InitRow /\ up'.at = "init" /\ up'.next = 1 /\ up'.bucket = up.bucket
    BY <1>2, <2>1, StepsAre DEF InitRow
  <2>3. \A f \in VolumeFiles : file'[f] # Missing
    <3>1. ASSUME NEW j \in 1 .. Len(Order)
          PROVE  file'[Order[j]] # Missing
      BY <1>2, <1>4
    <3> QED
      BY <3>1, OrderCovers
  <2>4. file'[BucketFile] = <<up.bucket>>
    BY <1>2, <1>4
  <2>5. DoneBefore(up.next)'
    BY <2>2 DEF DoneBefore
  <2> QED
    BY <2>2, <2>3, <2>4, <2>5 DEF UpOK, SecretsFit, InitFits, Complete
<1> QED
  BY <1>3, <1>4

LEMMA PairAt ==
  ASSUME UpOK, up.at = "secrets"
  PROVE  /\ up \in SecretsRow /\ At \in VolumeFiles /\ (IsPair(At) <=> AccessAt(up.next))
         /\ (At = BucketFile <=> up.next = 5)
         /\ \A o \in Owners : /\ (At = Access(o) <=> AccessAt(up.next) /\ OwnerAt(up.next) = o)
                               /\ (At = Secret(o) <=> SecretAt(up.next) /\ OwnerAt(up.next) = o)
<1> DEFINE j == up.next
<1>1. up \in SecretsRow /\ j \in 1 .. Len(Order)
  BY UpRows, SecretsParts
<1>2. /\ Order[j] \in VolumeFiles
      /\ j = 1 => Order[j] = Rpc
      /\ j = 2 => Order[j] = Token
      /\ j = 5 => Order[j] = BucketFile
      /\ j \in {1, 2, 5} => ~AccessAt(j) /\ ~SecretAt(j)
      /\ AccessAt(j) => OwnerAt(j) \in Owners /\ Order[j] = Access(OwnerAt(j))
      /\ SecretAt(j) => OwnerAt(j) \in Owners /\ Order[j] = Secret(OwnerAt(j)) /\ ~AccessAt(j)
      /\ ~AccessAt(j) /\ ~SecretAt(j) => j \in {1, 2, 5}
  BY <1>1, OrderIs
<1>3. At = Order[j]
  BY DEF At
<1> HIDE DEF j
<1>4. CASE AccessAt(j)
  BY <1>1, <1>2, <1>3, <1>4, FilesDiffer DEF IsPair, j
<1>5. CASE SecretAt(j)
  BY <1>1, <1>2, <1>3, <1>5, FilesDiffer DEF IsPair, j
<1>6. CASE j \in {1, 2, 5}
  BY <1>1, <1>2, <1>3, <1>6, FilesDiffer DEF IsPair, j
<1> QED
  BY <1>2, <1>4, <1>5, <1>6

LEMMA BringUpKeeps ==
  ASSUME SetupInv, NEW key \in EnvKeys, NEW b \in Buckets, BringUp(key, b)
  PROVE  SetupInv'
<1>1. Prepared /\ CountsOK /\ DOMAIN ups = {"done", "drawn", "meddled"}
  BY DEF SetupInv, Prepared, CountsOK
<1>2. UNCHANGED <<file, store, service>> /\ CountsOK' /\ ups'.drawn >= ups.drawn
  BY <1>1 DEF BringUp, CountsOK
<1>3. Prepared'
  BY <1>1, <1>2, NothingWritten
<1>4. CASE Len(key) = 1
  <2>1. up' = Off("refused")
    BY <1>4 DEF BringUp
  <2> QED
    BY <1>3, <2>1, OffPromisesNothing DEF SetupInv
<1>5. CASE Len(key) # 1
  <2>1. up' = [at |-> "secrets", next |-> 1, value |-> <<>>, key |-> key, bucket |-> b]
    BY <1>5 DEF BringUp
  <2>2. 1 \in 1 .. Len(Order) /\ <<>> \in Seq(Nat \ {0})
    BY OrderLength
  <2>3. up' \in SecretsRow /\ up'.at = "secrets" /\ up'.next = 1 /\ up'.value = <<>>
    BY <1>5, <2>1, <2>2 DEF SecretsRow
  <2>4. ~SecretAt(1) /\ \A j \in 1 .. (up'.next - 1) : FALSE
    BY <2>3 DEF SecretAt
  <2>5. SecretsFit'
    BY <2>3, <2>4 DEF SecretsFit
  <2>6. UpOK' /\ InitFits'
    BY <2>3 DEF UpOK, InitFits
  <2> QED
    BY <1>3, <2>5, <2>6 DEF SetupInv
<1> QED
  BY <1>4, <1>5

\* What a pair is drawn with, or taken from .env.
LEMMA NewPair ==
  ASSUME Prepared, UpOK, up.at = "secrets", AccessAt(up.next), NEW o \in Owners, At = Access(o), file[At] = Missing
  PROVE  /\ NewValues \in Seq(Nat \ {0}) /\ Len(NewValues) = 2 /\ Belongs(o, NewValues[1], NewValues[2])
         /\ NewValues[1] <= ups.drawn + 1
         /\ \A q \in Owners : Written(Access(q)) => Value(Access(q)) # NewValues[1]
<1>1. up \in SecretsRow /\ IsPair(At) /\ At # BucketFile
  BY PairAt, FilesDiffer
<1>2. up.key \in EnvKeys /\ Len(up.key) # 1 /\ up.key \in Seq(1 .. 9) /\ Len(up.key) <= 2
  BY <1>1, SecretsParts, StoreSetupAssumption
<1>3. ups.drawn \in Nat /\ ups.drawn >= 10
  BY DEF Prepared, CountsOK
<1>4. ASSUME NEW q \in Owners, Written(Access(q))
      PROVE  /\ Value(Access(q)) \in Nat /\ Value(Access(q)) <= ups.drawn
             /\ Value(Access(q)) < 10 => q = PlatformKey
  <2>1. Value(Access(q)) \in Nat
    BY <1>4, KeptFiles, FilesDiffer DEF Prepared
  <2>2. PairFits(q)
    BY DEF Prepared
  <2>3. PICK s \in Nat : Belongs(q, Value(Access(q)), s)
    BY <1>4, <2>2 DEF PairFits
  <2>4. Value(Access(q)) >= 10 \/ q = PlatformKey
    BY <2>3 DEF Belongs
  <2>5. Value(Access(q)) <= ups.drawn
    BY <1>4, <2>2 DEF PairFits
  <2> QED
    BY <2>1, <2>4, <2>5
<1>5. CASE At = Access(PlatformKey) /\ up.key # <<>>
  <2>1. NewValues = up.key /\ o = PlatformKey
    BY <1>1, <1>5, FilesDiffer DEF NewValues
  <2>2. Len(up.key) = 2
    <3>1. up.key # <<>> /\ Len(up.key) # 1 /\ Len(up.key) <= 2 /\ up.key \in Seq(1 .. 9)
      BY <1>2, <1>5
    <3>2. ASSUME NEW p \in Seq(1 .. 9), p # <<>>, Len(p) # 1, Len(p) <= 2
          PROVE  Len(p) = 2
      <4>1. Len(p) \in Nat /\ Len(p) # 0
        BY <3>2
      <4>2. \A m \in Nat : m # 0 /\ m # 1 /\ m <= 2 => m = 2
        OBVIOUS
      <4> QED
        BY <3>2, <4>1, <4>2
    <3> QED
      BY <3>1, <3>2
  <2>3. up.key[1] \in 1 .. 9 /\ up.key[2] \in 1 .. 9 /\ up.key = <<up.key[1], up.key[2]>>
    BY <1>2, <2>2
  <2>4. up.key \in Seq(Nat \ {0})
    <3>1. up.key[1] \in Nat \ {0} /\ up.key[2] \in Nat \ {0}
      BY <2>3
    <3>2. <<up.key[1], up.key[2]>> \in Seq(Nat \ {0})
      BY <3>1
    <3> QED
      BY <2>3, <3>2
  <2>5. ASSUME NEW q \in Owners, Written(Access(q))
        PROVE  Value(Access(q)) # up.key[1]
    <3>1. q # PlatformKey
      BY <1>5, <2>5 DEF Written
    <3> QED
      BY <1>4, <2>3, <2>5, <3>1
  <2>6. Belongs(o, up.key[1], up.key[2]) /\ up.key[1] <= ups.drawn + 1
    BY <1>2, <1>3, <2>1, <2>3 DEF Belongs
  <2> QED
    BY <2>1, <2>2, <2>4, <2>5, <2>6
<1>6. CASE ~(At = Access(PlatformKey) /\ up.key # <<>>)
  <2> DEFINE d == ups.drawn + 1
  <2>1. NewValues = <<d, d>> /\ d \in Nat \ {0} /\ d > ups.drawn /\ d >= 10
    BY <1>1, <1>3, <1>6 DEF NewValues
  <2> HIDE DEF d
  <2>2. /\ NewValues \in Seq(Nat \ {0}) /\ Len(NewValues) = 2 /\ NewValues[1] = d /\ NewValues[2] = d
    BY <2>1
  <2>3. Belongs(o, d, d) /\ d <= ups.drawn + 1
    BY <1>3, <2>1 DEF Belongs, d
  <2>4. \A q \in Owners : Written(Access(q)) => Value(Access(q)) # d
    BY <1>3, <1>4, <2>1
  <2> QED
    BY <2>2, <2>3, <2>4
<1> QED
  BY <1>5, <1>6

LEMMA LookKeeps ==
  ASSUME SetupInv, Look
  PROVE  SetupInv'
<1> DEFINE j == up.next
<1>1. Prepared /\ CountsOK /\ UpOK /\ SecretsFit /\ up.at = "secrets" /\ up.value = <<>> /\ FilesOK
  BY DEF SetupInv, Prepared, Look
<1>2. UNCHANGED <<file, store, service>> /\ CountsOK' /\ ups'.drawn >= ups.drawn
  <2>1. UNCHANGED ups \/ ups' = [ups EXCEPT !.drawn = @ + 1]
    BY DEF Look
  <2> QED
    BY <1>1, <2>1 DEF Look, CountsOK
<1>3. Prepared'
  BY <1>1, <1>2, NothingWritten
<1>4. up \in SecretsRow /\ j \in 1 .. Len(Order) /\ j \in Nat /\ At = Order[j] /\ At \in VolumeFiles
      /\ Len(Order) \in Nat /\ Len(Order) >= 5 /\ up.bucket \in Buckets
  BY <1>1, PairAt, SecretsParts, OrderLength DEF At
<1>5. /\ \A i \in 1 .. (j - 1) : file[Order[i]] # Missing
      /\ j > 5 => file[BucketFile] = <<up.bucket>>
      /\ ~SecretAt(j)
  BY <1>1 DEF SecretsFit
<1>6. IsPair(At) <=> AccessAt(j)
  BY <1>1, PairAt
<1>7. /\ j \in {1, 2, 5} => ~AccessAt(j) /\ ~SecretAt(j)
      /\ AccessAt(j) => /\ j + 1 \in 1 .. Len(Order) /\ OwnerAt(j) \in Owners /\ Order[j] = Access(OwnerAt(j))
                        /\ SecretAt(j + 1) /\ OwnerAt(j + 1) = OwnerAt(j)
                        /\ (j + 2 \in 1 .. Len(Order) => ~SecretAt(j + 2))
      /\ ~AccessAt(j) /\ ~SecretAt(j) => j \in {1, 2, 5}
      /\ j = 5 => Order[j] = BucketFile
  BY <1>4, OrderIs
<1>8. CASE Contradicts
  <2>1. up' = Off("refused")
    BY <1>8 DEF Look
  <2> QED
    BY <1>3, <2>1, OffPromisesNothing DEF SetupInv
<1>9. CASE ~Contradicts /\ file[At] # Missing
  <2>1. up' = Past(IF IsPair(At) THEN 2 ELSE 1)
    BY <1>9 DEF Look
  <2>2. CASE AccessAt(j)
    <3>1. up' = Past(2)
      BY <1>6, <2>1, <2>2
    <3>2. file[Order[j + 1]] # Missing
      BY <1>6, <1>9, <2>2 DEF Contradicts
    <3>3. \A i \in 1 .. (j + 2 - 1) : file'[Order[i]] # Missing
      <4>1. ASSUME NEW i \in 1 .. (j + 2 - 1)
            PROVE  file[Order[i]] # Missing
        <5>1. i \in 1 .. (j - 1) \/ i = j \/ i = j + 1
          BY <1>4
        <5> QED
          BY <1>4, <1>5, <1>9, <3>2, <5>1
      <4> QED
        BY <1>2, <4>1
    <3>4. j + 2 > 5 => file'[BucketFile] = <<up.bucket>>
      <4>1. j = 3 \/ j > 5
        BY <2>2 DEF AccessAt
      <4> QED
        BY <1>2, <1>5, <4>1
    <3>5. j + 2 <= Len(Order) => ~SecretAt(j + 2)
      BY <1>4, <1>7, <2>2
    <3>6. j + 2 - 1 <= Len(Order)
      BY <1>4, <1>7, <2>2
    <3>7. UpOK' /\ SecretsFit' /\ InitFits'
      BY <1>1, <3>1, <3>3, <3>4, <3>5, <3>6, GoingPast
    <3> QED
      BY <1>3, <3>7 DEF SetupInv
  <2>3. CASE ~AccessAt(j)
    <3>1. up' = Past(1) /\ j \in {1, 2, 5}
      BY <1>5, <1>6, <1>7, <2>1, <2>3
    <3>2. \A i \in 1 .. (j + 1 - 1) : file'[Order[i]] # Missing
      <4>1. ASSUME NEW i \in 1 .. (j + 1 - 1)
            PROVE  file[Order[i]] # Missing
        <5>1. i \in 1 .. (j - 1) \/ i = j
          BY <1>4
        <5> QED
          BY <1>4, <1>5, <1>9, <5>1
      <4> QED
        BY <1>2, <4>1
    <3>3. j + 1 > 5 => file'[BucketFile] = <<up.bucket>>
      <4>1. j + 1 > 5 => j = 5 /\ At = BucketFile
        BY <1>4, <1>7, <3>1
      <4>2. At = BucketFile => file[At] = <<up.bucket>>
        BY <1>9 DEF Contradicts
      <4> QED
        BY <1>2, <4>1, <4>2
    <3>4. ~SecretAt(j + 1)
      BY <3>1 DEF SecretAt
    <3>5. j + 1 - 1 <= Len(Order)
      BY <1>4
    <3>6. UpOK' /\ SecretsFit' /\ InitFits'
      BY <1>1, <3>1, <3>2, <3>3, <3>4, <3>5, GoingPast
    <3> QED
      BY <1>3, <3>6 DEF SetupInv
  <2> QED
    BY <2>2, <2>3
<1>10. CASE ~Contradicts /\ file[At] = Missing
  <2>1. up' = [up EXCEPT !.value = NewValues] /\ ups' = [ups EXCEPT !.drawn = @ + 1]
    BY <1>10 DEF Look
  <2>2. ups.drawn \in Nat /\ ups'.drawn = ups.drawn + 1
    BY <1>1, <2>1 DEF CountsOK
  <2>3. ASSUME NewValues \in Seq(Nat \ {0}), NewValues # <<>>, (up'.value = NewValues /\ up'.next = j /\ up'.bucket = up.bucket) => WritingFile'
        PROVE  SetupInv'
    <3>1. up' \in SecretsRow /\ up'.at = "secrets" /\ up'.next = j /\ up'.value = NewValues /\ up'.bucket = up.bucket
      BY <1>4, <2>1, <2>3 DEF SecretsRow
    <3>2. SecretsFit'
      BY <1>2, <1>5, <2>3, <3>1 DEF SecretsFit
    <3>3. UpOK' /\ InitFits'
      BY <3>1 DEF UpOK, InitFits
    <3> QED
      BY <1>3, <3>2, <3>3 DEF SetupInv
  <2>4. CASE AccessAt(j)
    <3>o. PICK o \in Owners : o = OwnerAt(j)
      BY <1>4, <1>7, <2>4
    <3>1. o \in Owners /\ At = Access(o) /\ Order[j + 1] = Secret(o) /\ ~SecretAt(j) /\ j # 5
      BY <1>4, <1>5, <1>7, <2>4, <3>o, OrderIs
    <3>2. /\ NewValues \in Seq(Nat \ {0}) /\ Len(NewValues) = 2 /\ Belongs(o, NewValues[1], NewValues[2])
          /\ NewValues[1] <= ups.drawn + 1
          /\ \A q \in Owners : Written(Access(q)) => Value(Access(q)) # NewValues[1]
      BY <1>1, <1>10, <2>4, <3>1, NewPair
    <3>3. file[Secret(o)] = Missing
      BY <1>6, <1>10, <2>4, <3>1 DEF Contradicts
    <3>4. NewValues # <<>>
      BY <3>2
    <3>5. ASSUME up'.value = NewValues, up'.next = j, up'.bucket = up.bucket
          PROVE  WritingFile'
      <4>1. file'[Order[up'.next]] \in {Missing, Empty}
        BY <1>2, <1>4, <1>10, <3>5
      <4> HIDE DEF j
      <4>2. Len(up'.value) = 2 /\ file'[Secret(o)] = Missing /\ Belongs(o, up'.value[1], up'.value[2])
        BY <1>2, <3>2, <3>3, <3>5
      <4>3. up'.value[1] <= ups'.drawn
        BY <2>2, <3>2, <3>5
      <4>4. \A q \in Owners : Written(Access(q))' => Value(Access(q))' # up'.value[1]
        BY <1>2, <3>2, <3>5 DEF Written, Value
      <4>5. DrawnFor(o, up.value)'
        BY <4>2, <4>3, <4>4 DEF DrawnFor, Belongs
      <4> QED
        BY <2>4, <3>o, <3>1, <3>5, <4>1, <4>5 DEF WritingFile
    <3> QED
      BY <2>3, <3>2, <3>4, <3>5
  <2>5. CASE ~AccessAt(j)
    <3>1. NewValues = IF At = BucketFile THEN <<up.bucket>> ELSE <<ups.drawn + 1>>
      <4>1. ~IsPair(At) /\ At # Access(PlatformKey)
        BY <1>6, <2>5, SetupParts DEF IsPair
      <4> QED
        BY <4>1 DEF NewValues
    <3>2. up.bucket \in Nat \ {0} /\ ups.drawn + 1 \in Nat \ {0}
      <4>1. up.bucket \in Buckets /\ Buckets \subseteq Nat \ {0}
        BY <1>4, SetupParts
      <4>2. ups.drawn + 1 \in Nat /\ ups.drawn + 1 # 0
        BY <2>2
      <4> QED
        BY <4>1, <4>2
    <3>3. NewValues \in Seq(Nat \ {0}) /\ NewValues # <<>> /\ Len(NewValues) = 1 /\ (At = BucketFile => NewValues[1] = up.bucket)
      <4>1. ASSUME NEW v \in Nat \ {0}
            PROVE  <<v>> \in Seq(Nat \ {0}) /\ <<v>> # <<>> /\ Len(<<v>>) = 1 /\ <<v>>[1] = v
        OBVIOUS
      <4> QED
        BY <3>1, <3>2, <4>1
    <3>4. j = 5 => At = BucketFile
      BY <1>4, <1>7
    <3>5. ASSUME up'.value = NewValues, up'.next = j, up'.bucket = up.bucket
          PROVE  WritingFile'
      BY <1>2, <1>4, <1>5, <1>10, <2>5, <3>3, <3>4, <3>5 DEF WritingFile
    <3> QED
      BY <2>3, <3>3, <3>5
  <2> QED
    BY <2>4, <2>5
<1> QED
  BY <1>8, <1>9, <1>10

LEMMA CreateKeeps ==
  ASSUME SetupInv, Create
  PROVE  SetupInv'
<1>1. /\ Prepared /\ FilesOK /\ UpOK /\ SecretsFit /\ up.at = "secrets" /\ up.value # <<>> /\ file[At] = Missing
      /\ file' = [file EXCEPT ![At] = Empty] /\ UNCHANGED <<store, up, service, ups>>
  BY DEF SetupInv, Prepared, Create
<1>2. At \in VolumeFiles /\ Empty \in Kept /\ ~Written(At) /\ file \in [VolumeFiles -> Kept] /\ up.next \in 1 .. Len(Order)
  BY <1>1, PairAt, SecretsParts DEF Kept, Written, FilesOK
<1>3. Prepared'
  BY <1>1, <1>2, FileComes
<1>4. /\ file'[At] = Empty /\ \A g \in VolumeFiles : g # At => file'[g] = file[g]
      /\ \A g \in VolumeFiles : (Written(g)' <=> Written(g)) /\ (file[g] # Missing => file'[g] # Missing)
      /\ \A g \in VolumeFiles : Written(g) => Value(g)' = Value(g)
  BY <1>1, <1>2 DEF Written, Value, Missing, Empty
<1>5. \A i \in 1 .. Len(Order) : Order[i] \in VolumeFiles
  BY OrderIs
<1>6. WritingFile /\ (\A i \in 1 .. (up.next - 1) : file[Order[i]] # Missing) /\ (up.next > 5 => file[BucketFile] = <<up.bucket>>)
  BY <1>1 DEF SecretsFit
<1>7. WritingFile'
  <2>1. PICK o : o = OwnerAt(up.next)
    OBVIOUS
  <2>2. AccessAt(up.next) \/ SecretAt(up.next) => o \in Owners /\ Access(o) \in VolumeFiles /\ Secret(o) \in VolumeFiles
    BY <1>2, <2>1, OrderIs, FilesDiffer
  <2>3. AccessAt(up.next) => DrawnFor(o, up.value)'
    <3>1. SUFFICES ASSUME AccessAt(up.next)
                   PROVE  DrawnFor(o, up.value)'
      OBVIOUS
    <3>2. DrawnFor(o, up.value) /\ At = Access(o) /\ o \in Owners
      BY <1>1, <1>2, <1>6, <2>1, <2>2, <3>1, PairAt DEF WritingFile
    <3>3. file'[Secret(o)] = Missing
      BY <1>4, <2>2, <3>1, <3>2, FilesDiffer DEF DrawnFor
    <3>4. \A q \in Owners : Written(Access(q))' => Value(Access(q))' # up.value[1]
      BY <1>4, <3>2, FilesDiffer DEF DrawnFor
    <3> QED
      BY <1>1, <3>2, <3>3, <3>4 DEF DrawnFor, Belongs
  <2>4. file'[Order[up.next]] \in {Missing, Empty}
    BY <1>4 DEF At
  <2>5. SecretAt(up.next) => Written(Access(o))' /\ Belongs(o, Value(Access(o))', up.value[1])
    BY <1>4, <1>6, <2>1, <2>2 DEF WritingFile
  <2> QED
    BY <1>1, <1>6, <2>1, <2>3, <2>4, <2>5 DEF WritingFile, Belongs
<1>8. SecretsFit'
  <2>1. \A i \in 1 .. (up.next - 1) : file'[Order[i]] # Missing
    <3>1. \A i \in 1 .. (up.next - 1) : i \in 1 .. Len(Order)
      BY <1>2, OrderLength
    <3> QED
      BY <1>4, <1>5, <1>6, <3>1
  <2>2. up.next > 5 => file'[BucketFile] = <<up.bucket>>
    <3>1. At = BucketFile => up.next = 5
      BY <1>1, PairAt
    <3> QED
      BY <1>4, <1>6, <3>1, FilesDiffer
  <2> QED
    BY <1>1, <1>7, <2>1, <2>2 DEF SecretsFit
<1>9. UpOK' /\ InitFits'
  BY <1>1 DEF UpOK, InitFits
<1> QED
  BY <1>3, <1>8, <1>9 DEF SetupInv

LEMMA WriteFailsKeeps ==
  ASSUME SetupInv, WriteFails
  PROVE  SetupInv'
<1>1. /\ Prepared /\ FilesOK /\ CountsOK /\ UpOK /\ up.at = "secrets" /\ file[At] = Empty
      /\ file' = [file EXCEPT ![At] = Missing] /\ up' = Off("failed") /\ UNCHANGED <<store, service, ups>>
  BY DEF SetupInv, Prepared, WriteFails
<1>2. At \in VolumeFiles /\ file \in [VolumeFiles -> Kept]
  BY <1>1, PairAt DEF FilesOK
<1>3. file' = [f \in VolumeFiles |-> IF f \in {At} THEN Missing ELSE file[f]]
  BY <1>1, <1>2
<1>4. ASSUME NEW s \in Served, service[s] # <<>>
      PROVE  Access(s) \notin {At}
  <2>1. file[Access(s)] = <<service[s][1]>> /\ service[s][1] # 0
    BY <1>1, <1>4 DEF Prepared, IsServed
  <2> QED
    BY <1>1, <2>1 DEF Empty
<1>5. CountsOK' /\ ups'.drawn = ups.drawn
  BY <1>1 DEF CountsOK
<1>6. Prepared'
  BY <1>1, <1>2, <1>3, <1>4, <1>5, FilesGo
<1> QED
  BY <1>1, <1>6, OffPromisesNothing DEF SetupInv

LEMMA FillKeeps ==
  ASSUME SetupInv, Fill
  PROVE  SetupInv'
<1> DEFINE j == up.next  v == <<up.value[1]>>
<1>1. /\ Prepared /\ FilesOK /\ UpOK /\ SecretsFit /\ up.at = "secrets" /\ up.value # <<>> /\ file[At] = Empty
      /\ file' = [file EXCEPT ![At] = v] /\ UNCHANGED <<store, service, ups>>
      /\ up' = IF Len(up.value) = 2 THEN [up EXCEPT !.next = @ + 1, !.value = Tail(@)] ELSE Past(1)
  BY DEF SetupInv, Prepared, Fill
<1>2. /\ up \in SecretsRow /\ At \in VolumeFiles /\ At = Order[j] /\ ~Written(At) /\ file \in [VolumeFiles -> Kept]
      /\ j \in 1 .. Len(Order) /\ j \in Nat /\ up.value \in Seq(Nat \ {0}) /\ up.bucket \in Buckets
      /\ Len(Order) \in Nat /\ Len(Order) >= 5
  BY <1>1, PairAt, SecretsParts, OrderLength DEF Written, FilesOK, At
<1>3. WritingFile /\ (\A i \in 1 .. (j - 1) : file[Order[i]] # Missing) /\ (j > 5 => file[BucketFile] = <<up.bucket>>)
  BY <1>1 DEF SecretsFit
<1>4. PICK o : o = OwnerAt(j)
  OBVIOUS
<1>5. /\ AccessAt(j) => DrawnFor(o, up.value)
      /\ ~AccessAt(j) => Len(up.value) = 1
      /\ SecretAt(j) => Written(Access(o)) /\ Belongs(o, Value(Access(o)), up.value[1])
      /\ j = 5 => up.value[1] = up.bucket
  BY <1>3, <1>4 DEF WritingFile
<1>6. /\ j \in {1, 2, 5} => ~AccessAt(j) /\ ~SecretAt(j)
      /\ AccessAt(j) => /\ j + 1 \in 1 .. Len(Order) /\ o \in Owners /\ At = Access(o) /\ Order[j + 1] = Secret(o)
                        /\ SecretAt(j + 1) /\ OwnerAt(j + 1) = o /\ ~AccessAt(j + 1)
      /\ SecretAt(j) => o \in Owners /\ At = Secret(o) /\ (j + 1 \in 1 .. Len(Order) => ~SecretAt(j + 1)) /\ ~AccessAt(j)
      /\ ~AccessAt(j) /\ ~SecretAt(j) => j \in {1, 2, 5}
  <2>1. AccessAt(j) => /\ j + 1 \in 1 .. Len(Order) /\ o \in Owners /\ At = Access(o)
                       /\ SecretAt(j + 1) /\ OwnerAt(j + 1) = o /\ ~AccessAt(j + 1)
    BY <1>2, <1>4, OrderIs
  <2>2. AccessAt(j) => Order[j + 1] = Secret(o)
    BY <2>1, OrderIs
  <2>3. /\ j \in {1, 2, 5} => ~AccessAt(j) /\ ~SecretAt(j)
        /\ SecretAt(j) => o \in Owners /\ At = Secret(o) /\ (j + 1 \in 1 .. Len(Order) => ~SecretAt(j + 1)) /\ ~AccessAt(j)
        /\ ~AccessAt(j) /\ ~SecretAt(j) => j \in {1, 2, 5}
    BY <1>2, <1>4, OrderIs
  <2> QED
    BY <2>1, <2>2, <2>3
<1>7. up.value[1] \in Nat \ {0} /\ (Len(up.value) = 2 => up.value[2] \in Nat \ {0})
  BY <1>1, <1>2
<1>8. v \in Kept /\ v # Missing /\ v # Empty /\ v[1] = up.value[1]
  BY <1>7, ValueKept
<1>9. \A q \in Owners : At = Access(q) => AccessAt(j) /\ q = o
  BY <1>1, <1>4, PairAt
<1>10. \A q \in Owners : At = Secret(q) => SecretAt(j) /\ q = o
  BY <1>1, <1>4, PairAt
<1>11. At = BucketFile => v \in {<<b>> : b \in Buckets} /\ v = <<up.bucket>>
  BY <1>1, <1>2, <1>5, PairAt
<1>12. ASSUME NEW q \in Owners, At = Access(q)
       PROVE  /\ ~Written(Secret(q)) /\ v[1] <= ups.drawn /\ \E s \in Nat : Belongs(q, v[1], s)
              /\ \A p \in Owners : Written(Access(p)) => Value(Access(p)) # v[1]
  <2>1. DrawnFor(o, up.value) /\ q = o
    BY <1>5, <1>9, <1>12
  <2>2. Len(up.value) = 2 /\ up.value[2] \in Nat
    BY <1>7, <2>1 DEF DrawnFor
  <2> QED
    BY <1>8, <2>1, <2>2 DEF DrawnFor, Written
<1>13. ASSUME NEW q \in Owners, At = Secret(q)
       PROVE  Written(Access(q)) /\ Belongs(q, Value(Access(q)), v[1])
  BY <1>5, <1>8, <1>10, <1>13
<1> HIDE DEF v
<1>14. Prepared'
  BY <1>1, <1>2, <1>8, <1>11, <1>12, <1>13, FileComes
<1>15. /\ file'[At] = v /\ \A g \in VolumeFiles : g # At => file'[g] = file[g]
  BY <1>1, <1>2
<1>16. \A i \in 1 .. j : file'[Order[i]] # Missing
  <2>1. ASSUME NEW i \in 1 .. j
        PROVE  file'[Order[i]] # Missing
    <3>1. i \in 1 .. Len(Order) /\ (i = j \/ i \in 1 .. (j - 1))
      BY <1>2
    <3>2. Order[i] \in VolumeFiles
      BY <3>1, OrderIs
    <3> QED
      BY <1>2, <1>3, <1>8, <1>15, <3>1, <3>2
  <2> QED
    BY <2>1
<1>17. j > 5 \/ j = 5 => file'[BucketFile] = <<up.bucket>>
  <2>1. j = 5 => At = BucketFile
    BY <1>1, PairAt
  <2>2. j > 5 => At # BucketFile
    BY <1>1, PairAt
  <2> QED
    BY <1>3, <1>11, <1>15, <2>1, <2>2, FilesDiffer
<1>18. CASE AccessAt(j)
  <2>1. Len(up.value) = 2 /\ o \in Owners /\ At = Access(o) /\ file[Secret(o)] = Missing
        /\ Belongs(o, up.value[1], up.value[2]) /\ j + 1 \in 1 .. Len(Order)
    BY <1>5, <1>6, <1>18 DEF DrawnFor
  <2> DEFINE rest == Tail(up.value)
  <2>2. rest \in Seq(Nat \ {0}) /\ Len(rest) = 1 /\ rest[1] = up.value[2] /\ rest # <<>>
    <3>1. ASSUME NEW p \in Seq(Nat \ {0}), Len(p) = 2
          PROVE  Tail(p) \in Seq(Nat \ {0}) /\ Len(Tail(p)) = 1 /\ Tail(p)[1] = p[2] /\ Tail(p) # <<>>
      <4>1. p # <<>>
        BY <3>1
      <4>2. Tail(p) \in Seq(Nat \ {0})
        BY <4>1
      <4>3. Len(Tail(p)) = 1
        BY <3>1, <4>1
      <4>4. Tail(p)[1] = p[2]
        BY <3>1, <4>1
      <4>5. Tail(p) # <<>>
        <5>1. Len(<<>>) = 0 /\ 0 # 1
          OBVIOUS
        <5>2. Tail(p) = <<>> => Len(Tail(p)) = 0
          BY <5>1, Zenon
        <5> QED
          BY <4>3, <5>1, <5>2, Zenon
      <4> QED
        BY <4>2, <4>3, <4>4, <4>5
    <3> QED
      BY <1>2, <2>1, <3>1
  <2> HIDE DEF rest
  <2>3. up' = [up EXCEPT !.next = j + 1, !.value = rest]
    BY <1>1, <2>1 DEF rest
  <2>4. up' \in SecretsRow /\ up'.at = "secrets" /\ up'.next = j + 1 /\ up'.value = rest /\ up'.bucket = up.bucket
    BY <1>2, <2>1, <2>2, <2>3 DEF SecretsRow
  <2>5. WritingFile'
    <3>1. file'[Order[up'.next]] = Missing
      <4>1. Order[up'.next] = Secret(o) /\ Secret(o) \in VolumeFiles /\ Secret(o) # At
        BY <1>6, <1>18, <2>1, <2>4, FilesDiffer
      <4> QED
        BY <1>15, <2>1, <4>1
    <3>2. Written(Access(o))' /\ Value(Access(o))' = up.value[1]
      BY <1>8, <1>15, <2>1 DEF Written, Value
    <3>3. ~AccessAt(up'.next) /\ SecretAt(up'.next) /\ OwnerAt(up'.next) = o /\ up'.next # 5
      <4>1. j + 1 # 5
        BY <1>6, <1>18, <2>1 DEF SecretAt
      <4> QED
        BY <1>6, <1>18, <2>4, <4>1
    <3> QED
      BY <2>1, <2>2, <2>4, <3>1, <3>2, <3>3 DEF WritingFile, Belongs
  <2>6. \A i \in 1 .. (up'.next - 1) : file'[Order[i]] # Missing
    <3>1. up'.next - 1 = j
      BY <1>2, <2>4
    <3> QED
      BY <1>16, <3>1
  <2>7. up'.next > 5 => file'[BucketFile] = <<up'.bucket>>
    <3>1. j = 3 \/ j > 5
      BY <1>18 DEF AccessAt
    <3> QED
      BY <1>2, <1>17, <2>4, <3>1
  <2>8. SecretsFit'
    BY <2>2, <2>4, <2>5, <2>6, <2>7 DEF SecretsFit
  <2>9. UpOK' /\ InitFits'
    BY <2>4 DEF UpOK, InitFits
  <2> QED
    BY <1>14, <2>8, <2>9 DEF SetupInv
<1>19. CASE ~AccessAt(j)
  <2>1. up' = Past(1)
    BY <1>1, <1>5, <1>19
  <2>2. \A i \in 1 .. (j + 1 - 1) : file'[Order[i]] # Missing
    <3>1. j + 1 - 1 = j
      BY <1>2
    <3> QED
      BY <1>16, <3>1
  <2>3. j + 1 > 5 => file'[BucketFile] = <<up.bucket>>
    BY <1>2, <1>17
  <2>4. j + 1 <= Len(Order) => ~SecretAt(j + 1)
    <3>1. CASE SecretAt(j)
      BY <1>2, <1>6, <3>1
    <3>2. CASE j \in {1, 2, 5}
      BY <3>2 DEF SecretAt
    <3> QED
      BY <1>6, <1>19, <3>1, <3>2
  <2>5. j + 1 - 1 <= Len(Order)
    BY <1>2
  <2>6. UpOK' /\ SecretsFit' /\ InitFits'
    BY <1>1, <2>1, <2>2, <2>3, <2>4, <2>5, GoingPast
  <2> QED
    BY <1>14, <2>6 DEF SetupInv
<1> QED
  BY <1>18, <1>19

-----------------------------------------------------------------------------
\* What a step at the store leaves as it was.
LEMMA StoreMoves ==
  ASSUME Prepared, UNCHANGED <<file, service>>, CountsOK', ups'.drawn = ups.drawn,
         DOMAIN store' = {"keys", "rights", "rule"}, DOMAIN store'.rights = DOMAIN store'.keys,
         \A k \in DOMAIN store'.keys : /\ k \in Nat /\ (k >= 10 => store'.keys[k] = k)
                                       /\ store'.rights[k] \in [Buckets -> SUBSET Rights],
         \A k \in DOMAIN store.keys : k \in DOMAIN store'.keys /\ store'.keys[k] = store.keys[k],
         \A b \in DOMAIN store.rule : b \in DOMAIN store'.rule /\ (store.rule[b] = "results-7d" => store'.rule[b] = "results-7d"),
         \A s \in Served : service[s] # <<>> /\ Needs[s] \subseteq store.rights[service[s][1]][service[s][3]]
                             => Needs[s] \subseteq store'.rights[service[s][1]][service[s][3]]
  PROVE  Prepared'
<1>1. FilesOK' /\ StoreFits'
  BY DEF Prepared, FilesOK, StoreFits
<1>2. ASSUME NEW o \in Owners
      PROVE  PairFits(o)'
  BY DEF Prepared, PairFits, Written, Value, Belongs
<1>3. ASSUME NEW o \in Owners, NEW q \in Owners
      PROVE  Apart(o, q)'
  BY DEF Prepared, Apart, Written, Value
<1>4. ASSUME NEW s \in Served
      PROVE  IsServed(s)'
  BY DEF Prepared, IsServed, Known
<1> QED
  BY <1>1, <1>2, <1>3, <1>4 DEF Prepared

\* Rights of one key on the bucket change.
LEMMA RightsMove ==
  ASSUME Prepared, NEW o \in Owners, Written(Access(o)), Known(Value(Access(o))), Written(BucketFile), NEW R \in SUBSET Rights,
         store' = [store EXCEPT !.rights[Value(Access(o))][Value(BucketFile)] = R],
         UNCHANGED <<file, service, ups>>, HasNow(o) \cap Allowed(o) \subseteq R
  PROVE  /\ Prepared' /\ HasNow(o)' = R
         /\ \A q \in Owners : KeyDone(q) => KeyDone(q)' /\ (q # o => HasNow(q)' = HasNow(q))
         /\ store'.rule = store.rule
<1> DEFINE k == Value(Access(o))  b == Value(BucketFile)  old == store.rights[k]  new == [old EXCEPT ![b] = R]
<1>1. /\ FilesOK /\ CountsOK /\ StoreFits /\ DOMAIN store = {"keys", "rights", "rule"}
      /\ k \in DOMAIN store.keys /\ k \in DOMAIN store.rights /\ old \in [Buckets -> SUBSET Rights]
  BY DEF Prepared, Known, StoreFits
<1>2. b \in Buckets
  BY <1>1 DEF FilesOK, Written, Value
<1>3. store' = [store EXCEPT !.rights = [store.rights EXCEPT ![k] = new]]
  OBVIOUS
<1>4. new \in [Buckets -> SUBSET Rights] /\ new[b] = R /\ \A x \in Buckets : x # b => new[x] = old[x]
  BY <1>1, <1>2
<1> HIDE DEF new, old
<1>5. /\ DOMAIN store' = {"keys", "rights", "rule"} /\ store'.keys = store.keys /\ store'.rule = store.rule
      /\ store'.rights = [store.rights EXCEPT ![k] = new]
  BY <1>1, <1>3
<1>6. /\ DOMAIN store'.rights = DOMAIN store.rights /\ store'.rights[k] = new
      /\ \A x \in DOMAIN store.rights : x # k => store'.rights[x] = store.rights[x]
  BY <1>1, <1>5
<1>7. CountsOK' /\ ups'.drawn = ups.drawn
  BY <1>1 DEF CountsOK
<1>8. DOMAIN store'.rights = DOMAIN store'.keys /\
      \A x \in DOMAIN store'.keys : /\ x \in Nat /\ (x >= 10 => store'.keys[x] = x)
                                    /\ store'.rights[x] \in [Buckets -> SUBSET Rights]
  BY <1>1, <1>4, <1>5, <1>6 DEF StoreFits
<1>9. HasNow(o) = old[b] /\ Written(Access(o))
  BY DEF HasNow, old
<1>10. ASSUME NEW s \in Served, service[s] # <<>>, Needs[s] \subseteq store.rights[service[s][1]][service[s][3]]
       PROVE  Needs[s] \subseteq store'.rights[service[s][1]][service[s][3]]
  <2> DEFINE x == service[s][1]  c == service[s][3]
  <2>1. /\ s \in Owners /\ file[Access(s)] = <<x>> /\ x # 0 /\ x \in DOMAIN store.keys /\ Allowed(s) = Needs[s]
        /\ Apart(s, o) /\ c \in Buckets
    BY <1>10, SetupParts DEF Prepared, IsServed, Known
  <2>2. Written(Access(s)) /\ Value(Access(s)) = x
    BY <2>1 DEF Written, Value, Missing, Empty
  <2>3. CASE s = o
    <3>1. x = k
      BY <2>2, <2>3
    <3>2. store.rights[x][c] = old[c]
      BY <3>1 DEF old
    <3>3. c = b => Needs[s] \subseteq R
      BY <1>9, <1>10, <2>1, <2>3, <3>2
    <3> QED
      BY <1>4, <1>6, <1>10, <2>1, <3>1, <3>2, <3>3
  <2>4. CASE s # o
    <3>1. x # k
      BY <1>9, <2>1, <2>2, <2>4 DEF Apart
    <3> QED
      BY <1>1, <1>6, <1>10, <2>1, <3>1 DEF StoreFits
  <2> QED
    BY <2>3, <2>4
<1>11. Prepared'
  BY <1>5, <1>7, <1>8, <1>10, StoreMoves
<1>12. HasNow(o)' = R
  BY <1>4, <1>6 DEF HasNow, Value
<1>13. ASSUME NEW q \in Owners, KeyDone(q)
       PROVE  KeyDone(q)' /\ (q # o => HasNow(q)' = HasNow(q))
  <2>1. KeyDone(q)'
    BY <1>5, <1>13 DEF KeyDone, Usable, Known, Written, Value
  <2>2. Apart(q, o) /\ Written(Access(q)) /\ Value(Access(q)) \in DOMAIN store.rights
    BY <1>1, <1>13 DEF Prepared, KeyDone, Usable, Known, StoreFits
  <2>3. q # o => Value(Access(q)) # k
    BY <1>9, <2>2 DEF Apart
  <2> QED
    BY <1>6, <2>1, <2>2, <2>3 DEF HasNow, Value
<1> QED
  BY <1>5, <1>11, <1>12, <1>13

\* A key is made known; the others stay as they are.
LEMMA KeyComes ==
  ASSUME Prepared, NEW o \in Owners, Usable(o), ImportKey(o), UNCHANGED <<file, service, ups>>
  PROVE  /\ Prepared' /\ KeyDone(o)' /\ store'.rule = store.rule
         /\ \A q \in Owners : KeyDone(q) => KeyDone(q)' /\ HasNow(q)' = HasNow(q)
<1> DEFINE k == Value(Access(o))  s == Value(Secret(o))
<1>1. /\ FilesOK /\ CountsOK /\ StoreFits /\ DOMAIN store = {"keys", "rights", "rule"}
      /\ DOMAIN store.rights = DOMAIN store.keys /\ CountsOK' /\ ups'.drawn = ups.drawn
  BY DEF Prepared, StoreFits, CountsOK
<1>2. Written(Access(o)) /\ Written(Secret(o)) /\ (Known(k) => store.keys[k] = s)
  BY DEF Usable
<1>3. k \in Nat /\ (k >= 10 => s = k)
  <2>1. k \in Nat
    BY <1>1, <1>2, KeptFiles, FilesDiffer
  <2>2. PairFits(o)
    BY DEF Prepared
  <2> QED
    BY <1>2, <2>1, <2>2 DEF PairFits, Belongs
<1>4. CASE Known(k)
  <2>1. store' = store
    BY <1>4 DEF ImportKey
  <2>2. Prepared'
    BY <1>1, <2>1, NothingWritten DEF CountsOK
  <2> QED
    BY <1>2, <1>4, <2>1, <2>2 DEF KeyDone, Usable, Known, Written, Value, HasNow
<1>5. CASE ~Known(k)
  <2> DEFINE with == DOMAIN store.keys \cup {k}
             keys == [x \in with |-> IF x = k THEN s ELSE store.keys[x]]
             rights == [x \in with |-> IF x = k THEN [b \in Buckets |-> {}] ELSE store.rights[x]]
  <2>1. store' = [store EXCEPT !.keys = keys, !.rights = rights]
    BY <1>5 DEF ImportKey
  <2>2. /\ DOMAIN keys = with /\ DOMAIN rights = with /\ k \in with /\ keys[k] = s /\ rights[k] = [b \in Buckets |-> {}]
        /\ \A x \in DOMAIN store.keys : x \in with /\ x # k /\ keys[x] = store.keys[x] /\ rights[x] = store.rights[x]
        /\ \A x \in with : x = k \/ x \in DOMAIN store.keys
    BY <1>5 DEF Known
  <2> HIDE DEF keys, rights, with
  <2>3. /\ DOMAIN store' = {"keys", "rights", "rule"} /\ store'.keys = keys /\ store'.rights = rights
        /\ store'.rule = store.rule
    BY <1>1, <2>1
  <2>4. [b \in Buckets |-> {}] \in [Buckets -> SUBSET Rights]
    OBVIOUS
  <2>5. ASSUME NEW x \in DOMAIN store'.keys
        PROVE  /\ x \in Nat /\ (x >= 10 => store'.keys[x] = x)
               /\ store'.rights[x] \in [Buckets -> SUBSET Rights]
    <3>1. CASE x = k
      BY <1>3, <2>2, <2>3, <2>4, <3>1
    <3>2. CASE x \in DOMAIN store.keys
      BY <1>1, <2>2, <2>3, <3>2 DEF StoreFits
    <3> QED
      BY <2>2, <2>3, <2>5, <3>1, <3>2
  <2>6. ASSUME NEW q \in Served, service[q] # <<>>
        PROVE  store'.rights[service[q][1]] = store.rights[service[q][1]]
    BY <2>2, <2>3, <2>6 DEF Prepared, IsServed, Known
  <2>7. Prepared'
    BY <1>1, <2>2, <2>3, <2>5, <2>6, StoreMoves
  <2>8. KeyDone(o)'
    BY <1>2, <2>2, <2>3 DEF KeyDone, Usable, Known, Written, Value
  <2>9. ASSUME NEW q \in Owners, KeyDone(q)
        PROVE  KeyDone(q)' /\ HasNow(q)' = HasNow(q)
    BY <2>2, <2>3, <2>9 DEF KeyDone, Usable, Known, Written, Value, HasNow
  <2> QED
    BY <2>3, <2>7, <2>8, <2>9
<1> QED
  BY <1>4, <1>5

\* A bucket is created, or gets its rule.
LEMMA RuleMoves ==
  ASSUME Prepared, NEW rule, store' = [store EXCEPT !.rule = rule],
         \A b \in DOMAIN store.rule : b \in DOMAIN rule /\ (store.rule[b] = "results-7d" => rule[b] = "results-7d"),
         UNCHANGED <<file, service, ups>>
  PROVE  /\ Prepared' /\ store'.rule = rule
         /\ \A q \in Owners : KeyDone(q) => KeyDone(q)' /\ HasNow(q)' = HasNow(q)
<1>1. /\ CountsOK /\ StoreFits /\ DOMAIN store = {"keys", "rights", "rule"}
      /\ DOMAIN store.rights = DOMAIN store.keys /\ CountsOK' /\ ups'.drawn = ups.drawn
  BY DEF Prepared, StoreFits, CountsOK
<1>2. DOMAIN store' = {"keys", "rights", "rule"} /\ store'.keys = store.keys /\ store'.rights = store.rights /\ store'.rule = rule
  BY <1>1
<1>3. Prepared'
  BY <1>1, <1>2, StoreMoves DEF StoreFits
<1> QED
  BY <1>2, <1>3 DEF KeyDone, Usable, Known, Written, Value, HasNow

\* A request of `init` does what it is for, and undoes nothing that came before.
LEMMA EffectDoes ==
  ASSUME Prepared, NEW what, NEW o \in Owners, Can(what, o), Effect(what, o),
         UNCHANGED <<file, service, ups>>, what \in {"allow", "deny"} => KeyDone(o),
         what = "rule" => Value(BucketFile) \in DOMAIN store.rule
  PROVE  /\ Prepared' /\ StepDone(what, o)'
         /\ \A w : \A q \in Owners : StepDone(w, q) => StepDone(w, q)'
<1>1. Written(BucketFile) /\ (what = "key" => Usable(o)) /\ StoreFits /\ Value(BucketFile)' = Value(BucketFile)
  BY DEF Can, Prepared, Value
<1>2. CASE what = "key" /\ ImportKey(o)
  <2>1. /\ Prepared' /\ KeyDone(o)' /\ store'.rule = store.rule
        /\ \A q \in Owners : KeyDone(q) => KeyDone(q)' /\ HasNow(q)' = HasNow(q)
    BY <1>1, <1>2, KeyComes
  <2> QED
    BY <1>1, <1>2, <2>1 DEF StepDone
<1>6. CASE what = "bucket" /\ CreateBucket /\ Value(BucketFile) \in DOMAIN store.rule
  <2>1. store' = store
    BY <1>6 DEF CreateBucket
  <2>2. Prepared'
    BY <2>1, NothingWritten DEF Prepared, CountsOK
  <2>3. \A w : \A q \in Owners : StepDone(w, q) => StepDone(w, q)'
    BY <2>1 DEF StepDone, KeyDone, Usable, Known, Written, Value, HasNow
  <2>4. StepDone("bucket", o)'
    BY <1>1, <1>6, <2>1 DEF StepDone
  <2> QED
    BY <1>6, <2>2, <2>3, <2>4
<1>3. CASE what \in {"bucket", "rule"} /\ (CreateBucket \/ SetRule) /\ (what = "bucket" => Value(BucketFile) \notin DOMAIN store.rule)
  <2> DEFINE b == Value(BucketFile)
  <2>1. PICK rule : /\ store' = [store EXCEPT !.rule = rule]
                    /\ \A x \in DOMAIN store.rule : x \in DOMAIN rule /\ (store.rule[x] = "results-7d" => rule[x] = "results-7d")
                    /\ b \in DOMAIN rule /\ (what = "rule" => rule[b] = "results-7d")
    <3>1. CASE what = "bucket" /\ CreateBucket
      <4> DEFINE rule == [x \in DOMAIN store.rule \cup {b} |-> IF x = b THEN "none" ELSE store.rule[x]]
      <4>1. b \notin DOMAIN store.rule
        BY <1>3, <3>1
      <4>2. store' = [store EXCEPT !.rule = rule]
        BY <3>1, <4>1 DEF CreateBucket
      <4>3. b \in DOMAIN rule /\ \A x \in DOMAIN store.rule : x \in DOMAIN rule /\ rule[x] = store.rule[x]
        BY <4>1
      <4> HIDE DEF rule
      <4> QED
        BY <3>1, <4>2, <4>3
    <3>2. CASE what = "rule" /\ SetRule
      <4> DEFINE rule == [store.rule EXCEPT ![b] = "results-7d"]
      <4>1. store' = [store EXCEPT !.rule = rule]
        BY <3>2 DEF SetRule
      <4>2. DOMAIN rule = DOMAIN store.rule /\ b \in DOMAIN store.rule
            /\ \A x \in DOMAIN store.rule : rule[x] = IF x = b THEN "results-7d" ELSE store.rule[x]
        BY <3>2
      <4> HIDE DEF rule
      <4> QED
        BY <4>1, <4>2
    <3> QED
      BY <1>3, <3>1, <3>2 DEF Effect
  <2>2. /\ Prepared' /\ store'.rule = rule
        /\ \A q \in Owners : KeyDone(q) => KeyDone(q)' /\ HasNow(q)' = HasNow(q)
    BY <2>1, RuleMoves
  <2> QED
    BY <1>1, <1>3, <2>1, <2>2 DEF StepDone
<1>4. CASE what = "allow" /\ Allow(o)
  <2> DEFINE R == HasNow(o) \cup Allowed(o)
  <2>1. KeyDone(o) /\ R \in SUBSET Rights /\ HasNow(o) \cap Allowed(o) \subseteq R
    <3>1. Value(Access(o)) \in DOMAIN store.keys /\ Value(BucketFile) \in Buckets
      BY <1>1, <1>4 DEF KeyDone, Known, Prepared, FilesOK, Written, Value
    <3> QED
      BY <1>1, <1>4, <3>1, SetupParts DEF HasNow, StoreFits
  <2>2. store' = [store EXCEPT !.rights[Value(Access(o))][Value(BucketFile)] = R]
    BY <1>4 DEF Allow, HasNow
  <2> HIDE DEF R
  <2>3. /\ Prepared' /\ HasNow(o)' = R
        /\ \A q \in Owners : KeyDone(q) => KeyDone(q)' /\ (q # o => HasNow(q)' = HasNow(q))
        /\ store'.rule = store.rule
    BY <1>1, <2>1, <2>2, RightsMove DEF KeyDone, Usable
  <2> QED
    BY <1>1, <1>4, <2>1, <2>3 DEF StepDone, R
<1>5. CASE what = "deny" /\ DenyRest(o)
  <2> DEFINE R == HasNow(o) \cap Allowed(o)
  <2>1. KeyDone(o) /\ R \in SUBSET Rights /\ HasNow(o) \cap Allowed(o) \subseteq R
    BY <1>5, SetupParts
  <2>2. store' = [store EXCEPT !.rights[Value(Access(o))][Value(BucketFile)] = R]
    BY <1>5 DEF DenyRest, HasNow
  <2> HIDE DEF R
  <2>3. /\ Prepared' /\ HasNow(o)' = R
        /\ \A q \in Owners : KeyDone(q) => KeyDone(q)' /\ (q # o => HasNow(q)' = HasNow(q))
        /\ store'.rule = store.rule
    BY <1>1, <2>1, <2>2, RightsMove DEF KeyDone, Usable
  <2> QED
    BY <1>1, <1>5, <2>1, <2>3 DEF StepDone, R
<1> QED
  BY <1>2, <1>3, <1>4, <1>5, <1>6 DEF Effect

LEMMA InitStepKeeps ==
  ASSUME SetupInv, InitStep
  PROVE  SetupInv'
<1> DEFINE j == up.next
<1>1. Prepared /\ UpOK /\ InitFits /\ up.at = "init" /\ UNCHANGED <<file, service, ups>>
  BY DEF SetupInv, InitStep
<1>2. up \in InitRow /\ j \in 1 .. Len(Steps) /\ j \in Nat /\ Len(Steps) \in Nat /\ up.bucket \in Buckets
  <2>1. up \in InitRow
    BY <1>1, UpRows
  <2> QED
    BY <2>1, StepsAre DEF InitRow
<1>3. Complete /\ DoneBefore(j)
  BY <1>1 DEF InitFits
<1>4. PICK what, o : what = Steps[j][1] /\ o = Steps[j][2]
  OBVIOUS
<1>5. \/ /\ Can(what, o) /\ Effect(what, o)
         /\ up' \in {Off("failed"), IF up.next < Len(Steps) THEN [up EXCEPT !.next = @ + 1]
                                   ELSE [at |-> "start", bucket |-> up.bucket]}
      \/ up' = Off("refused") /\ UNCHANGED store
  BY <1>4 DEF InitStep
<1>6. CASE up' = Off("refused") /\ UNCHANGED store
  <2>1. Prepared'
    BY <1>1, <1>6, NothingWritten DEF Prepared, CountsOK
  <2> QED
    BY <1>6, <2>1, OffPromisesNothing DEF SetupInv
<1>7. CASE /\ Can(what, o) /\ Effect(what, o)
           /\ up' \in {Off("failed"), IF up.next < Len(Steps) THEN [up EXCEPT !.next = @ + 1]
                                     ELSE [at |-> "start", bucket |-> up.bucket]}
  <2>1. o \in Owners /\ what \in {"key", "bucket", "allow", "deny", "rule"}
    BY <1>2, <1>4, StepsAre
  <2>2. ASSUME what \in {"allow", "deny"}
        PROVE  KeyDone(o)
    <3>1. PICK i \in 1 .. Len(Steps) : i < j /\ Steps[i][1] = "key" /\ Steps[i][2] = o
      <4>1. Steps[j][1] \in {"allow", "deny"} =>
              \E i \in 1 .. Len(Steps) : i < j /\ Steps[i][1] = "key" /\ Steps[i][2] = Steps[j][2]
        BY <1>2, StepsAre
      <4> QED
        BY <1>4, <2>2, <4>1
    <3> QED
      BY <1>3, <3>1 DEF DoneBefore, StepDone
  <2>3. ASSUME what = "rule"
        PROVE  Value(BucketFile) \in DOMAIN store.rule
    <3>1. PICK i \in 1 .. Len(Steps) : i < j /\ Steps[i][1] = "bucket"
      BY <1>2, <1>4, <2>3, StepsAre
    <3> QED
      BY <1>3, <3>1 DEF DoneBefore, StepDone
  <2>4. /\ Prepared' /\ StepDone(what, o)'
        /\ \A w : \A q \in Owners : StepDone(w, q) => StepDone(w, q)'
    BY <1>1, <1>7, <2>1, <2>2, <2>3, EffectDoes
  <2>5. ASSUME NEW i \in 1 .. Len(Steps), i < j + 1
        PROVE  \E w, q : w = Steps[i][1] /\ q = Steps[i][2] /\ StepDone(w, q)'
    <3>1. CASE i = j
      BY <1>4, <2>4, <3>1
    <3>2. CASE i < j
      <4>1. StepDone(Steps[i][1], Steps[i][2]) /\ Steps[i][2] \in Owners
        BY <1>3, <3>2, StepsAre DEF DoneBefore
      <4> QED
        BY <2>4, <4>1
    <3> QED
      BY <1>2, <2>5, <3>1, <3>2
  <2>6. \A i \in 1 .. Len(Steps) : i < j + 1 => StepDone(Steps[i][1], Steps[i][2])'
    BY <2>5
  <2>7. CASE up' = Off("failed")
    BY <2>4, <2>7, OffPromisesNothing DEF SetupInv
  <2>8. CASE up.next < Len(Steps) /\ up' = [up EXCEPT !.next = @ + 1]
    <3>1. j + 1 \in 1 .. Len(Steps)
      BY <1>2, <2>8
    <3>2. up' \in InitRow /\ up'.at = "init" /\ up'.next = j + 1 /\ up'.bucket = up.bucket
      BY <1>2, <2>8, <3>1 DEF InitRow
    <3>3. Complete' /\ DoneBefore(up.next)'
      <4>1. Complete'
        BY <1>1, <1>3, <3>2 DEF Complete
      <4>2. DoneBefore(up.next)'
        BY <2>6, <3>2 DEF DoneBefore
      <4> QED
        BY <4>1, <4>2
    <3>4. UpOK' /\ SecretsFit' /\ InitFits'
      BY <3>2, <3>3 DEF UpOK, SecretsFit, InitFits
    <3> QED
      BY <2>4, <3>4 DEF SetupInv
  <2>9. CASE ~(up.next < Len(Steps)) /\ up' = [at |-> "start", bucket |-> up.bucket]
    <3>1. up' \in StartRow /\ up'.at = "start" /\ up'.bucket = up.bucket /\ j = Len(Steps)
      BY <1>2, <2>9 DEF StartRow
    <3>2. Complete'
      BY <1>1, <1>3, <3>1 DEF Complete
    <3>3. DoneBefore(Len(Steps) + 1)'
      BY <2>6, <3>1 DEF DoneBefore
    <3>4. UpOK' /\ SecretsFit' /\ InitFits'
      BY <3>1, <3>2, <3>3 DEF UpOK, SecretsFit, InitFits
    <3> QED
      BY <2>4, <3>4 DEF SetupInv
  <2> QED
    BY <1>7, <2>7, <2>8, <2>9
<1> QED
  BY <1>5, <1>6, <1>7

\* Where `init` has ended well.
LEMMA ReadyFacts ==
  ASSUME SetupInv, up.at = "start"
  PROVE  /\ \A o \in Owners : KeyDone(o) /\ HasNow(o) = Allowed(o)
         /\ Value(BucketFile) = up.bucket /\ up.bucket \in Buckets
         /\ up.bucket \in DOMAIN store.rule /\ store.rule[up.bucket] = "results-7d"
<1>1. Prepared /\ UpOK /\ Complete /\ DoneBefore(Len(Steps) + 1) /\ Len(Steps) \in Nat
  BY StepsAre DEF SetupInv, InitFits
<1>2. \A j \in 1 .. Len(Steps) : StepDone(Steps[j][1], Steps[j][2])
  BY <1>1 DEF DoneBefore
<1>3. Value(BucketFile) = up.bucket /\ up.bucket \in Buckets
  BY <1>1, UpRows DEF Complete, Value, StartRow
<1>4. ASSUME NEW o \in Owners
      PROVE  KeyDone(o) /\ Allowed(o) \subseteq HasNow(o)
  <2>1. \E j \in 1 .. Len(Steps) : Steps[j][1] = "key" /\ Steps[j][2] = o
    BY StepsAre
  <2>2. \E j \in 1 .. Len(Steps) : Steps[j][1] = "allow" /\ Steps[j][2] = o
    BY StepsAre
  <2>3. StepDone("key", o) /\ StepDone("allow", o)
    BY <1>2, <2>1, <2>2
  <2> QED
    BY <2>3 DEF StepDone
<1>5. ASSUME NEW o \in Owners
      PROVE  HasNow(o) \subseteq Allowed(o)
  <2>1. CASE o \in Served
    <3>1. \E j \in 1 .. Len(Steps) : Steps[j][1] = "deny" /\ Steps[j][2] = o
      BY <2>1, StepsAre
    <3>2. StepDone("deny", o)
      BY <1>2, <3>1
    <3> QED
      BY <3>2 DEF StepDone
  <2>2. CASE o = PlatformKey
    <3>1. KeyDone(o) /\ StoreFits
      BY <1>1, <1>4 DEF Prepared
    <3>2. HasNow(o) \subseteq Rights
      BY <1>3, <3>1 DEF HasNow, KeyDone, Known, StoreFits
    <3> QED
      BY <2>2, <3>2 DEF Allowed
  <2> QED
    BY <2>1, <2>2 DEF Owners
<1>6. up.bucket \in DOMAIN store.rule /\ store.rule[up.bucket] = "results-7d"
  BY <1>2, <1>3, StepsAre DEF StepDone
<1> QED
  BY <1>3, <1>4, <1>5, <1>6

\* A process starts with what the store has just been told, or stops.
LEMMA ServiceKeeps ==
  ASSUME SetupInv, NEW s \in Served, Start(s) \/ Stop(s)
  PROVE  SetupInv'
<1>1. Prepared /\ UpOK /\ SecretsFit /\ InitFits /\ UNCHANGED <<file, store, up, ups>> /\ FilesOK
      /\ service \in [Served -> {<<>>} \cup (Nat \X Nat \X Buckets)]
  BY DEF SetupInv, Prepared, Start, Stop
<1>2. SecretsFit'
  BY <1>1 DEF SecretsFit, WritingFile, DrawnFor, Written, Value, Belongs
<1>3. UpOK' /\ InitFits'
  BY <1>1 DEF UpOK, InitFits, Complete, DoneBefore, StepDone, KeyDone, Usable, Known, HasNow, Written, Value
<1>4. ASSUME NEW row \in {<<>>} \cup (Nat \X Nat \X Buckets), service' = [service EXCEPT ![s] = row], IsServed(s)'
      PROVE  SetupInv'
  <2>1. service' \in [Served -> {<<>>} \cup (Nat \X Nat \X Buckets)] /\ \A d \in Served : d # s => service'[d] = service[d]
    BY <1>1, <1>4
  <2>2. FilesOK' /\ CountsOK' /\ StoreFits'
    BY <1>1 DEF Prepared, FilesOK, CountsOK, StoreFits
  <2>3. ASSUME NEW o \in Owners
        PROVE  PairFits(o)'
    BY <1>1 DEF Prepared, PairFits, Written, Value, Belongs
  <2>4. ASSUME NEW o \in Owners, NEW q \in Owners
        PROVE  Apart(o, q)'
    BY <1>1 DEF Prepared, Apart, Written, Value
  <2>5. ASSUME NEW d \in Served, d # s
        PROVE  IsServed(d)'
    BY <1>1, <2>1, <2>5 DEF Prepared, IsServed, Known
  <2>6. Prepared'
    BY <1>4, <2>1, <2>2, <2>3, <2>4, <2>5 DEF Prepared
  <2> QED
    BY <1>2, <1>3, <2>6 DEF SetupInv
<1>5. CASE Start(s)
  <2> DEFINE k == Value(Access(s))  c == Value(Secret(s))  row == <<k, c, up.bucket>>
  <2>1. /\ s \in Owners /\ KeyDone(s) /\ HasNow(s) = Allowed(s) /\ Allowed(s) = Needs[s] /\ Value(BucketFile) = up.bucket
        /\ up.bucket \in Buckets /\ up.bucket \in DOMAIN store.rule /\ store.rule[up.bucket] = "results-7d"
    BY <1>5, ReadyFacts, SetupParts DEF Start
  <2>2. k \in Nat /\ k # 0 /\ c \in Nat /\ file[Access(s)] = <<k>>
    BY <1>1, <2>1, KeptFiles, FilesDiffer DEF KeyDone, Usable
  <2>3. service' = [service EXCEPT ![s] = row]
    BY <1>5 DEF Start
  <2>4. Known(k) /\ store.keys[k] = c /\ Needs[s] \subseteq store.rights[k][up.bucket]
    BY <2>1 DEF KeyDone, HasNow
  <2> HIDE DEF k, c
  <2>5. row \in Nat \X Nat \X Buckets /\ row[1] = k /\ row[2] = c /\ row[3] = up.bucket
    BY <2>1, <2>2
  <2>6. service'[s] = row
    BY <1>1, <2>3
  <2> HIDE DEF row
  <2>7. IsServed(s)'
    BY <1>1, <2>1, <2>2, <2>4, <2>5, <2>6 DEF IsServed, Known
  <2> QED
    BY <1>4, <2>3, <2>5, <2>7
<1>6. CASE Stop(s)
  <2>1. service' = [service EXCEPT ![s] = <<>>] /\ service'[s] = <<>>
    BY <1>1, <1>6 DEF Stop
  <2>2. IsServed(s)'
    BY <2>1 DEF IsServed
  <2> QED
    BY <1>4, <2>1, <2>2
<1> QED
  BY <1>5, <1>6

LEMMA KilledKeeps ==
  ASSUME SetupInv, Killed
  PROVE  SetupInv'
<1>1. Prepared' /\ up' = Off("killed")
  BY NothingWritten DEF SetupInv, Prepared, CountsOK, Killed
<1> QED
  BY <1>1, OffPromisesNothing DEF SetupInv

\* What an operator does in between touches no file of a process that runs, and takes no right it needs.
LEMMA MeddleKeeps ==
  ASSUME SetupInv, Meddle
  PROVE  SetupInv'
<1>1. Prepared /\ FilesOK /\ CountsOK /\ UpOK /\ up.at = "off" /\ UNCHANGED <<up, service>>
  BY DEF SetupInv, Prepared, Meddle, Running
<1>2. CountsOK' /\ ups'.drawn = ups.drawn
  BY <1>1 DEF Meddle, CountsOK
<1>3. UpOK' /\ SecretsFit' /\ InitFits'
  BY <1>1 DEF UpOK, SecretsFit, InitFits
<1>4. ASSUME NEW S \in SUBSET VolumeFiles, UNCHANGED store,
             file' = [f \in VolumeFiles |-> IF f \in S THEN Missing ELSE file[f]],
             \A s \in Served : service[s] # <<>> => Access(s) \notin S
      PROVE  Prepared'
  BY <1>1, <1>2, <1>4, FilesGo
<1>5. ASSUME NEW s \in Served, service[s] = <<>>, UNCHANGED store,
             file' = [f \in VolumeFiles |-> IF f \in PairOf(s) THEN Missing ELSE file[f]]
      PROVE  Prepared'
  <2>1. PairOf(s) \in SUBSET VolumeFiles
    BY FilesDiffer, SetupParts DEF PairOf
  <2>2. ASSUME NEW q \in Served, service[q] # <<>>
        PROVE  Access(q) \notin PairOf(s)
    BY <1>5, <2>2, FilesDiffer DEF PairOf
  <2> QED
    BY <1>4, <1>5, <2>1, <2>2
<1>6. ASSUME UNCHANGED store,
             file' = [f \in VolumeFiles |-> IF f \in UNION {PairOf(s) : s \in Served} THEN file[f] ELSE Missing]
      PROVE  Prepared'
  <2> DEFINE S == VolumeFiles \ UNION {PairOf(s) : s \in Served}
  <2>1. file' = [f \in VolumeFiles |-> IF f \in S THEN Missing ELSE file[f]]
    BY <1>6
  <2>2. \A s \in Served : Access(s) \notin S
    BY DEF PairOf
  <2> QED
    BY <1>4, <1>6, <2>1, <2>2
<1>7. ASSUME NEW f \in VolumeFiles, file[f] = Empty, file' = [file EXCEPT ![f] = Missing], UNCHANGED store
      PROVE  Prepared'
  <2>1. file' = [g \in VolumeFiles |-> IF g \in {f} THEN Missing ELSE file[g]]
    BY <1>1, <1>7 DEF FilesOK
  <2>2. ASSUME NEW s \in Served, service[s] # <<>>
        PROVE  Access(s) \notin {f}
    <3>1. file[Access(s)] = <<service[s][1]>> /\ service[s][1] # 0
      BY <1>1, <2>2 DEF Prepared, IsServed
    <3> QED
      BY <1>7, <3>1 DEF Empty
  <2> QED
    BY <1>4, <1>7, <2>1, <2>2
<1>8. ASSUME NEW s \in Served, Written(Access(s)), Written(BucketFile), Known(Value(Access(s))),
             store' = [store EXCEPT !.rights[Value(Access(s))][Value(BucketFile)] = Rights], UNCHANGED file
      PROVE  Prepared'
  <2> DEFINE k == Value(Access(s))  b == Value(BucketFile)  old == store.rights[k]  new == [old EXCEPT ![b] = Rights]
  <2>1. /\ StoreFits /\ DOMAIN store = {"keys", "rights", "rule"} /\ b \in Buckets
        /\ k \in DOMAIN store.keys /\ k \in DOMAIN store.rights /\ old \in [Buckets -> SUBSET Rights]
    BY <1>1, <1>8 DEF Prepared, Known, StoreFits, FilesOK, Written, Value
  <2>2. store' = [store EXCEPT !.rights = [store.rights EXCEPT ![k] = new]]
    BY <1>8
  <2>3. new \in [Buckets -> SUBSET Rights] /\ new[b] = Rights /\ \A x \in Buckets : x # b => new[x] = old[x]
    BY <2>1
  <2> HIDE DEF new
  <2>4. /\ DOMAIN store' = {"keys", "rights", "rule"} /\ store'.keys = store.keys /\ store'.rule = store.rule
        /\ store'.rights = [store.rights EXCEPT ![k] = new]
    BY <2>1, <2>2
  <2> HIDE DEF old
  <2>5. /\ DOMAIN store'.rights = DOMAIN store.rights /\ store'.rights[k] = new
        /\ \A x \in DOMAIN store.rights : x # k => store'.rights[x] = store.rights[x]
    BY <2>1, <2>4
  <2>6. DOMAIN store'.rights = DOMAIN store'.keys /\
        \A x \in DOMAIN store'.keys : /\ x \in Nat /\ (x >= 10 => store'.keys[x] = x)
                                      /\ store'.rights[x] \in [Buckets -> SUBSET Rights]
    BY <2>1, <2>3, <2>4, <2>5 DEF StoreFits
  <2>7. ASSUME NEW q \in Served, service[q] # <<>>, Needs[q] \subseteq store.rights[service[q][1]][service[q][3]]
        PROVE  Needs[q] \subseteq store'.rights[service[q][1]][service[q][3]]
    <3> DEFINE x == service[q][1]  c == service[q][3]
    <3>1. x \in DOMAIN store.rights /\ Needs[q] \subseteq Rights /\ c \in Buckets
      BY <1>1, <2>1, <2>7, SetupParts DEF Prepared, IsServed, Known, StoreFits
    <3>2. CASE x = k
      BY <2>3, <2>5, <2>7, <3>1, <3>2 DEF old
    <3>3. CASE x # k
      BY <2>5, <2>7, <3>1, <3>3
    <3> QED
      BY <3>2, <3>3
  <2> QED
    BY <1>1, <1>2, <1>8, <2>4, <2>6, <2>7, StoreMoves
<1>9. Prepared'
  BY <1>5, <1>6, <1>7, <1>8 DEF Meddle
<1> QED
  BY <1>3, <1>9 DEF SetupInv

LEMMA SetupInvStarts == SetupInit => SetupInv
<1> SUFFICES ASSUME SetupInit
             PROVE  SetupInv
  OBVIOUS
<1>1. up = Off("new") /\ up.at = "off" /\ service = [s \in Served |-> <<>>] /\ ups = [done |-> 0, drawn |-> 10, meddled |-> 0]
  BY DEF SetupInit, Off
<1>2. UpOK /\ SecretsFit /\ InitFits
  BY <1>1 DEF UpOK, OffRow, Off, SecretsFit, InitFits
<1>3. CountsOK /\ service \in [Served -> {<<>>} \cup (Nat \X Nat \X Buckets)] /\ ups.drawn = 10
  BY <1>1 DEF CountsOK
<1>4. \A s \in Served : IsServed(s)
  BY <1>1 DEF IsServed
<1>5. CASE file = [f \in VolumeFiles |-> Missing] /\ store = NoStore
  <2>1. FilesOK /\ \A f \in VolumeFiles : ~Written(f)
    BY <1>5, FilesDiffer DEF FilesOK, Kept, Written
  <2>2. StoreFits
    BY <1>5 DEF StoreFits, NoStore
  <2>3. \A o \in Owners : PairFits(o)
    BY <2>1, FilesDiffer DEF PairFits
  <2>4. \A o, q \in Owners : Apart(o, q)
    BY <2>1, FilesDiffer DEF Apart
  <2> QED
    BY <1>2, <1>3, <1>4, <2>1, <2>2, <2>3, <2>4 DEF SetupInv, Prepared
<1>6. CASE /\ file = [f \in VolumeFiles |-> IF f \in {Token, Rpc} \cup PairOf(PlatformKey) THEN <<10>>
                                       ELSE IF f = BucketFile THEN <<1>> ELSE Missing]
           /\ store = [keys |-> [k \in {10} |-> 10],
                       rights |-> [k \in {10} |-> [b \in Buckets |-> IF b = 1 THEN Rights ELSE {}]],
                       rule |-> [b \in {1} |-> "none"]]
  <2>1. <<10>> \in Kept /\ <<1>> \in Kept /\ Missing \in Kept /\ 1 \in Buckets
    BY ValueKept, StoreSetupAssumption DEF Kept
  <2>2. FilesOK
    <3>1. file \in [VolumeFiles -> Kept]
      BY <1>6, <2>1
    <3>2. file[BucketFile] = <<1>>
      BY <1>6, FilesDiffer DEF PairOf, Token
    <3> QED
      BY <2>1, <3>1, <3>2 DEF FilesOK
  <2>3. StoreFits
    <3>1. [b \in Buckets |-> IF b = 1 THEN Rights ELSE {}] \in [Buckets -> SUBSET Rights]
      OBVIOUS
    <3> QED
      BY <1>3, <1>6, <3>1 DEF StoreFits
  <2>4. ASSUME NEW o \in Owners
        PROVE  /\ o = PlatformKey => file[Access(o)] = <<10>> /\ file[Secret(o)] = <<10>>
               /\ o # PlatformKey => file[Access(o)] = Missing
    <3>1. /\ Access(o) \in VolumeFiles /\ Secret(o) \in VolumeFiles /\ Access(o) # BucketFile
          /\ Access(o) \notin {Token, Rpc} /\ (Access(o) \in PairOf(PlatformKey) <=> o = PlatformKey)
          /\ (o = PlatformKey => Secret(o) \in PairOf(PlatformKey))
      BY FilesDiffer DEF PairOf
    <3> QED
      BY <1>6, <3>1
  <2>5. /\ \A o \in Owners : Written(Access(o)) => o = PlatformKey
        /\ Value(Access(PlatformKey)) = 10 /\ Value(Secret(PlatformKey)) = 10
    BY <2>4, SetupParts DEF Written, Value
  <2>6. \A o \in Owners : PairFits(o)
    <3>1. Belongs(PlatformKey, 10, 10) /\ 10 \in Nat /\ 10 <= ups.drawn
      BY <1>3 DEF Belongs
    <3> QED
      BY <2>5, <3>1 DEF PairFits
  <2>7. \A o, q \in Owners : Apart(o, q)
    BY <2>5 DEF Apart
  <2> QED
    BY <1>2, <1>3, <1>4, <2>2, <2>3, <2>6, <2>7 DEF SetupInv, Prepared
<1> QED
  BY <1>5, <1>6 DEF SetupInit

LEMMA SetupInvStep == SetupInv /\ [SetupNext]_setupVars => SetupInv'
<1> SUFFICES ASSUME SetupInv, [SetupNext]_setupVars
             PROVE  SetupInv'
  OBVIOUS
<1>1. CASE UNCHANGED setupVars
  <2>1. UNCHANGED <<file, store, up, service, ups>>
    BY <1>1 DEF setupVars
  <2>2. Prepared'
    BY <2>1, NothingWritten DEF SetupInv, Prepared, CountsOK
  <2>3. UpOK' /\ SecretsFit' /\ InitFits'
    BY <2>1 DEF SetupInv, UpOK, SecretsFit, WritingFile, DrawnFor, Belongs, InitFits, Complete, DoneBefore, StepDone,
                KeyDone, Usable, Known, HasNow, Written, Value
  <2> QED
    BY <2>2, <2>3 DEF SetupInv
<1>2. ASSUME NEW key \in EnvKeys, NEW b \in Buckets, BringUp(key, b)
      PROVE  SetupInv'
  BY <1>2, BringUpKeeps
<1>3. CASE Look
  BY <1>3, LookKeeps
<1>4. CASE Create
  BY <1>4, CreateKeeps
<1>5. CASE Fill
  BY <1>5, FillKeeps
<1>6. CASE WriteFails
  BY <1>6, WriteFailsKeeps
<1>7. CASE InitStep
  BY <1>7, InitStepKeeps
<1>8. CASE Killed
  BY <1>8, KilledKeeps
<1>9. CASE Meddle
  BY <1>9, MeddleKeeps
<1>10. ASSUME NEW s \in Served, Start(s) \/ Stop(s)
       PROVE  SetupInv'
  BY <1>10, ServiceKeeps
<1> QED
  BY <1>1, <1>2, <1>3, <1>4, <1>5, <1>6, <1>7, <1>8, <1>9, <1>10 DEF SetupNext

LEMMA SetupInvHolds == SetupInv => StorePrepared
<1> SUFFICES ASSUME SetupInv
             PROVE  StorePrepared
  OBVIOUS
<1>1. RunningServicesAreServed
  BY DEF SetupInv, Prepared, IsServed, RunningServicesAreServed
<1>2. ReadyMeansReady
  <2>1. SUFFICES ASSUME up.at = "start", NEW o \in Owners
                 PROVE  /\ Belong(Value(Access(o)), Value(Secret(o)))
                        /\ store.keys[Value(Access(o))] = Value(Secret(o))
                        /\ store.rights[Value(Access(o))][Value(BucketFile)] = Allowed(o)
                        /\ Value(BucketFile) = up.bucket
    BY DEF ReadyMeansReady
  <2>2. KeyDone(o) /\ HasNow(o) = Allowed(o) /\ Value(BucketFile) = up.bucket /\ PairFits(o)
    BY <2>1, ReadyFacts DEF SetupInv, Prepared
  <2>3. Belongs(o, Value(Access(o)), Value(Secret(o)))
    BY <2>2 DEF KeyDone, Usable, PairFits
  <2> QED
    BY <2>2, <2>3 DEF KeyDone, HasNow, Belong, Belongs
<1>3. RefusedForAReason
  <2>1. SUFFICES ASSUME up.at = "init", NEW what, NEW o \in Owners, ~Can(what, o)
                 PROVE  \/ \E f \in VolumeFiles : file[f] = Empty
                        \/ \E p \in EnvKeys : Len(p) = 2 /\ file[Access(PlatformKey)] = <<p[1]>>
                                             /\ store.keys[p[1]] # Value(Secret(PlatformKey))
    <3>1. up.at = "init" => up.next \in 1 .. Len(Steps)
      BY UpRows DEF SetupInv, InitRow
    <3>2. up.at = "init" => Steps[up.next][2] \in Owners
      BY <3>1, StepsAre
    <3> QED
      BY <3>2 DEF RefusedForAReason
  <2>2. Complete /\ Prepared /\ FilesOK /\ StoreFits
    BY <2>1 DEF SetupInv, InitFits, Prepared
  <2>3. ASSUME NEW f \in VolumeFiles, ~Written(f)
        PROVE  file[f] = Empty
    BY <2>2, <2>3 DEF Complete, Written
  <2>4. CASE ~Written(Token) \/ ~Written(BucketFile) \/ ~Written(Access(o)) \/ ~Written(Secret(o))
    BY <2>3, <2>4, FilesDiffer
  <2>5. CASE Written(Token) /\ Written(BucketFile) /\ Written(Access(o)) /\ Written(Secret(o))
    <3> DEFINE k == Value(Access(o))  s == Value(Secret(o))
    <3>1. Known(k) /\ store.keys[k] # s
      BY <2>1, <2>5 DEF Can, Usable
    <3>2. Belongs(o, k, s) /\ k \in Nat /\ file[Access(o)] = <<k>>
      BY <2>2, <2>5, KeptFiles, FilesDiffer DEF Prepared, PairFits
    <3>3. ~(k >= 10)
      BY <2>2, <3>1, <3>2 DEF StoreFits, Known, Belongs
    <3>4. o = PlatformKey /\ <<k, s>> \in EnvKeys
      BY <3>2, <3>3 DEF Belongs
    <3> HIDE DEF k, s
    <3>5. Len(<<k, s>>) = 2 /\ <<k, s>>[1] = k
      OBVIOUS
    <3>6. store.keys[k] # Value(Secret(PlatformKey)) /\ file[Access(PlatformKey)] = <<k>>
      BY <3>1, <3>2, <3>4 DEF s
    <3> QED
      BY <3>4, <3>5, <3>6
  <2> QED
    BY <2>4, <2>5
<1> QED
  BY <1>1, <1>2, <1>3 DEF StorePrepared

\* Whatever is killed, lost, changed or brought up again, a service that runs is served, a preparation that
\* ended well has given everybody just his rights, and one that is refused has a reason (cmd_secrets, cmd_init).
THEOREM StoreStaysPrepared == SetupSpec => []StorePrepared
<1>1. SetupInit => SetupInv
  BY SetupInvStarts
<1>2. SetupInv /\ [SetupNext]_setupVars => SetupInv'
  BY SetupInvStep
<1>3. SetupInv => StorePrepared
  BY SetupInvHolds
<1> QED
  BY <1>1, <1>2, <1>3, PTL DEF SetupSpec

=============================================================================
