------------------------------- MODULE Catalog -------------------------------
(***************************************************************************)
(* The two commands that write the catalogue, each one transaction:        *)
(* catalog/load.py migrates the schema and writes the registry's entries   *)
(* as collections, discovery/materialize.py fetches the tile list of one   *)
(* materialized dataset and makes its items match.  Nothing keeps two of   *)
(* them from running at once but the row locks of PostgreSQL; every read   *)
(* sees what is committed at that moment (READ COMMITTED) and the own      *)
(* writes, which are kept with the task until it commits.                  *)
(*                                                                         *)
(* A row that is written as it is already there is left alone: pgstac      *)
(* deletes what differs from the new item, inserts it, and on a conflict   *)
(* does nothing.  An item of a tile carries nothing of the run that built  *)
(* it, so a run locks only the rows it inserts and those it takes out.     *)
(***************************************************************************)
EXTENDS Naturals, FiniteSets, Sequences, SequencesExt

CONSTANTS
  Tasks,       \* processes that run a command
  Datasets,
  Tiles,
  Listed,      \* the datasets an adapter materializes, with their tile lists
  Releases,    \* deployed code: the registry and the checksums of its migrations
  Versions,    \* numbers of migrations
  Nothing,     \* no entry, no file, no recorded version
  HasBlacklist,\* the datasets whose bucket has a list of withdrawn tiles
  MaxPercent,  \* MAX_NOT_LOADABLE_FRACTION, in percent
  MaxRuns, MaxLoads, MaxCommands, MaxDeploys, MaxWithdrawn  \* bounds

ASSUME CatalogAssumption ==
  /\ DOMAIN Listed \subseteq Datasets /\ HasBlacklist \subseteq DOMAIN Listed
  /\ IsFiniteSet(Tiles) /\ Listed \in [DOMAIN Listed -> Seq(SUBSET Tiles) \ {<<>>}]
  /\ Versions \subseteq Nat /\ MaxPercent \in 0..100
  /\ Nothing \notin Nat /\ Nothing # "federated"
  \* Two releases share a dataset.
  /\ \E d \in Datasets : \A r \in DOMAIN Releases : Releases[r].registry[d] # Nothing

VARIABLES
  release,     \* the release deployed, and how often another was
  source,      \* the bucket of each listed dataset
  applied,     \* earthx_migrations: the checksum recorded for a version
  effects,     \* how often the statements of a migration took effect
  collections, \* how pgstac holds the items of a dataset
  items,       \* pgstac.items
  rows,        \* earthx_materialize_runs, in the order of the commits
  task,        \* what each process does
  todo,        \* the tiles its statement has still to come to
  habit,       \* history: whether operators wait for a run of a dataset to end
  count,       \* history: runs and loads started
  loadedBy     \* history: the release of the last load that committed

vars == <<release, source, applied, effects, collections, items, rows, task, todo, habit, count, loadedBy>>
tables == <<applied, effects, collections, items, rows, loadedBy>>

Registry(r) == Releases[r].registry
Files(r) == Releases[r].files
Idle == [at |-> "idle"]
Busy(p) == task[p].at # "idle"
Go(p, to) == task' = [task EXCEPT ![p] = [@ EXCEPT !.at = to]] /\ UNCHANGED todo
Abandon(p) == task' = [task EXCEPT ![p] = Idle] /\ todo' = [todo EXCEPT ![p] = {}]

MoreMayStart == count.runs + count.loads < MaxCommands

Init ==
  /\ release \in [now : DOMAIN Releases, deploys : {0}]
  /\ source = [d \in DOMAIN Listed |-> [version |-> 1, withheld |-> {}, there |-> Listed[d][1]]]
  /\ applied = [v \in Versions |-> Nothing]
  /\ effects = [v \in Versions |-> 0]
  /\ collections = [d \in Datasets |-> Nothing]
  /\ items = [d \in Datasets |-> {}]
  /\ rows = <<>>
  /\ task = [p \in Tasks |-> Idle]
  /\ todo = [p \in Tasks |-> {}]
  /\ habit \in {"alone", "overlapping"}
  /\ count = [runs |-> 0, loads |-> 0]
  /\ loadedBy = Nothing

-----------------------------------------------------------------------------
(* The world around.                                                       *)
Deploy(r) ==
  /\ release.deploys < MaxDeploys /\ r # release.now
  /\ release' = [now |-> r, deploys |-> release.deploys + 1]
  /\ UNCHANGED <<source, tables, task, todo, habit, count>>

(* A new tile list; the bucket has the files of the tiles it adds.         *)
NewList(d) ==
  /\ source[d].version < Len(Listed[d])
  /\ source' = [source EXCEPT ![d].version = @ + 1,
                              ![d].there = @ \cup (Listed[d][source[d].version + 1] \ Listed[d][source[d].version])]
  /\ UNCHANGED <<release, tables, task, todo, habit, count>>

(* A tile is withdrawn by name, or its file is taken from the bucket.      *)
Lost(d) == (UNION {Listed[d][k] : k \in 1..source[d].version}) \ source[d].there
Withdraw(d, t) ==
  /\ Cardinality(source[d].withheld) + Cardinality(Lost(d)) < MaxWithdrawn
  /\ \/ /\ d \in HasBlacklist /\ t \notin source[d].withheld
        /\ source' = [source EXCEPT ![d].withheld = @ \cup {t}]
     \/ /\ t \in source[d].there
        /\ source' = [source EXCEPT ![d].there = @ \ {t}]
  /\ UNCHANGED <<release, tables, task, todo, habit, count>>

-----------------------------------------------------------------------------
(* load: apply_migrations, load_registry, commit.                          *)

Matches(r) == \A v \in Versions : applied[v] = Nothing \/ Files(r)[v] \in {Nothing, applied[v]}
Pending(r) == {v \in Versions : Files(r)[v] # Nothing /\ applied[v] = Nothing}

(* A file that is not the one applied ends the load before anything        *)
(* happens.                                                                *)
StartLoad(p) ==
  /\ ~Busy(p) /\ count.loads < MaxLoads /\ MoreMayStart /\ Matches(release.now)
  /\ task' = [task EXCEPT ![p] = [at |-> "migrating", release |-> release.now,
                                  pending |-> Pending(release.now), made |-> {}, gone |-> {}]]
  /\ count' = [count EXCEPT !.loads = @ + 1]
  /\ UNCHANGED <<release, source, tables, todo, habit>>

Loading(p) == task[p].at \in {"migrating", "registered", "removed"}

(* The row of a version is unique: a second load that writes it waits for  *)
(* the first and fails once that has committed.                            *)
RowIsThere(v) == applied[v] # Nothing
RowIsHeld(p, v) == \E q \in Tasks \ {p} : Loading(q) /\ v \in task[q].made

ApplyNext(p) ==
  /\ task[p].at = "migrating" /\ task[p].pending # {}
  /\ \E v \in task[p].pending :
     /\ \A w \in task[p].pending : v <= w
     /\ ~RowIsHeld(p, v)
     /\ IF RowIsThere(v) THEN Abandon(p)
        ELSE task' = [task EXCEPT ![p].pending = @ \ {v}, ![p].made = @ \cup {v}] /\ UNCHANGED todo
  /\ UNCHANGED <<release, source, tables, habit, count>>

(* The rows a load has written are its own until it commits.               *)
Registers(p, d) == task[p].at \in {"registered", "removed"} /\ Registry(task[p].release)[d] # Nothing

\* A mutant: the entries are written without waiting for those of another load.
RegisterAnyway(p) == task[p].at = "migrating"

FreeToRegister(p) ==
  \A q \in Tasks \ {p}, d \in Datasets : ~(Registers(q, d) /\ Registry(task[p].release)[d] # Nothing)

WriteCollections(p) ==
  /\ task[p].at = "migrating" /\ task[p].pending = {}
  /\ FreeToRegister(p)
  /\ Go(p, "registered")
  /\ UNCHANGED <<release, source, tables, habit, count>>

Gone(p) == {d \in Datasets : collections[d] = "federated" /\ Registry(task[p].release)[d] = Nothing}

(* remove_gone_collections: a collection goes with its items, once nobody  *)
(* writes items of it.                                                     *)
Writing(q, d) == task[q].at \in {"writing", "deleting"} /\ task[q].data = d
RemoveGone(p) ==
  /\ task[p].at = "registered"
  /\ \A d \in Gone(p), q \in Tasks : ~Writing(q, d)
  /\ task' = [task EXCEPT ![p].at = "removed", ![p].gone = Gone(p)]
  /\ UNCHANGED <<release, source, tables, todo, habit, count>>

CommitLoad(p) ==
  /\ task[p].at = "removed"
  /\ LET r == task[p].release IN
     /\ applied' = [v \in Versions |-> IF v \in task[p].made THEN Files(r)[v] ELSE applied[v]]
     /\ effects' = [v \in Versions |-> IF v \in task[p].made THEN effects[v] + 1 ELSE effects[v]]
     /\ collections' = [d \in Datasets |-> IF Registry(r)[d] # Nothing THEN Registry(r)[d]
                                           ELSE IF d \in task[p].gone THEN Nothing ELSE collections[d]]
     /\ items' = [d \in Datasets |-> IF d \in task[p].gone THEN {} ELSE items[d]]
     /\ loadedBy' = r
  /\ Abandon(p)
  /\ UNCHANGED <<release, source, rows, habit, count>>

-----------------------------------------------------------------------------
(* materialize: ask the source, write what changed, record the run.        *)
(* How many rows were recorded when a run began is kept for the            *)
(* properties.                                                             *)

Runs(d) == {p \in Tasks : Busy(p) /\ ~Loading(p) /\ task[p].data = d}

RowsOf(d) == {i \in DOMAIN rows : rows[i].data = d}
\* A mutant: the version asked of the source counts as recorded, whatever became of the run.
AskedVersion(d) == IF count.runs = 0 THEN Nothing ELSE source[d].version

(* last_source_version: that of the run that started last.                 *)
LastVersion(d) ==
  IF RowsOf(d) = {} THEN Nothing
  ELSE rows[CHOOSE i \in RowsOf(d) : \A j \in RowsOf(d) : rows[j].started <= rows[i].started].version

StartRun(p, d, force) ==
  /\ ~Busy(p) /\ count.runs < MaxRuns /\ MoreMayStart
  /\ Registry(release.now)[d] = "materialized"
  /\ habit = "alone" => Runs(d) = {}
  /\ task' = [task EXCEPT ![p] = [at |-> "asking", data |-> d, started |-> count.runs + 1,
                                  known |-> IF force THEN Nothing ELSE LastVersion(d),
                                  version |-> Nothing, listed |-> {}, withheld |-> {},
                                  new |-> {}, gone |-> {}, seen |-> Len(rows)]]
  /\ count' = [count EXCEPT !.runs = @ + 1]
  /\ UNCHANGED <<release, source, tables, todo, habit>>

(* The tile list, unless it is the version known.                          *)
Ask(p) ==
  /\ task[p].at = "asking"
  /\ LET d == task[p].data IN
     IF source[d].version = task[p].known THEN Go(p, "unchanged")
     ELSE /\ task' = [task EXCEPT ![p].at = "listed", ![p].version = source[d].version,
                                  ![p].listed = Listed[d][source[d].version]]
          /\ UNCHANGED todo
  /\ UNCHANGED <<release, source, tables, habit, count>>

ReadWithheld(p) ==
  /\ task[p].at = "listed"
  /\ task' = [task EXCEPT ![p].at = "warned", ![p].withheld = task[p].listed \cap source[task[p].data].withheld]
  /\ UNCHANGED <<release, source, tables, todo, habit, count>>

(* Tiles without a file and withheld ones are left out; too many of them   *)
(* mean that the run is broken.                                            *)
ReadBucket(p) ==
  /\ task[p].at = "warned"
  /\ LET left == (task[p].listed \ source[task[p].data].there) \cup task[p].withheld IN
     IF Cardinality(left) * 100 > MaxPercent * Cardinality(task[p].listed) THEN Abandon(p)
     ELSE task' = [task EXCEPT ![p].at = "fetched", ![p].withheld = left] /\ UNCHANGED todo
  /\ UNCHANGED <<release, source, tables, habit, count>>

Held(p) == task[p].listed \ task[p].withheld

(* A row another transaction has inserted or deleted is waited for.        *)
Inserts(q, d, t) == Writing(q, d) /\ t \in task[q].new
Deletes(q, d, t) == Writing(q, d) /\ t \in task[q].gone

(* upsert_items waits for a load that takes the collection away; without a *)
(* collection there is no partition to write to.                           *)
Write(p) ==
  /\ task[p].at = "fetched"
  /\ \A q \in Tasks : task[q].at = "removed" => task[p].data \notin task[q].gone
  /\ IF collections[task[p].data] = Nothing THEN Abandon(p)
     ELSE task' = [task EXCEPT ![p].at = "writing"] /\ todo' = [todo EXCEPT ![p] = Held(p)]
  /\ UNCHANGED <<release, source, tables, habit, count>>

(* ON CONFLICT DO NOTHING: of a tile that is there nothing is written.     *)
WriteTile(p, t) ==
  /\ task[p].at = "writing" /\ t \in todo[p]
  /\ LET d == task[p].data IN
     /\ \A q \in Tasks \ {p} : ~Inserts(q, d, t) /\ ~Deletes(q, d, t)
     /\ task' = [task EXCEPT ![p].new = IF t \in items[d] THEN @ ELSE @ \cup {t}]
  /\ todo' = [todo EXCEPT ![p] = @ \ {t}]
  /\ UNCHANGED <<release, source, tables, habit, count>>

\* A mutant: only the tiles the lists withhold are taken out again.
RestWithheld(p) == items[task[p].data] \cap task[p].withheld

(* delete_items_except, one statement: it takes out the rows committed     *)
(* when it began, but those another run has taken out meanwhile.           *)
Rest(p) == items[task[p].data] \ Held(p)

DeleteRest(p) ==
  /\ task[p].at = "writing" /\ todo[p] = {}
  /\ task' = [task EXCEPT ![p].at = "deleting"] /\ todo' = [todo EXCEPT ![p] = Rest(p)]
  /\ UNCHANGED <<release, source, tables, habit, count>>

DeleteTile(p, t) ==
  /\ task[p].at = "deleting" /\ t \in todo[p]
  /\ \A q \in Tasks \ {p} : ~Deletes(q, task[p].data, t)
  /\ task' = [task EXCEPT ![p].gone = @ \cup {t}]
  /\ todo' = [todo EXCEPT ![p] = @ \ {t}]
  /\ UNCHANGED <<release, source, tables, habit, count>>

Row(p, status, version) ==
  [data |-> task[p].data, started |-> task[p].started, status |-> status, version |-> version, held |-> Held(p),
   seen |-> task[p].seen]

CommitRun(p) ==
  /\ task[p].at = "deleting" /\ todo[p] = {}
  /\ items' = [items EXCEPT ![task[p].data] = (@ \ task[p].gone) \cup task[p].new]
  /\ rows' = Append(rows, Row(p, "loaded", task[p].version))
  /\ task' = [task EXCEPT ![p] = Idle]
  /\ todo' = [q \in Tasks |-> IF task[q].at = "deleting" /\ task[q].data = task[p].data THEN todo[q] \ task[p].gone
                              ELSE todo[q]]
  /\ UNCHANGED <<release, source, applied, effects, collections, habit, count, loadedBy>>

CommitUnchanged(p) ==
  /\ task[p].at = "unchanged"
  /\ rows' = Append(rows, Row(p, "unchanged", task[p].known))
  /\ Abandon(p)
  /\ UNCHANGED <<release, source, applied, effects, collections, items, habit, count, loadedBy>>

(* A statement or a request fails, or the process ends: what it wrote is   *)
(* gone.                                                                   *)
Fail(p) ==
  /\ Busy(p)
  /\ Abandon(p)
  /\ UNCHANGED <<release, source, tables, habit, count>>

LoadStep(p) == StartLoad(p) \/ ApplyNext(p) \/ WriteCollections(p) \/ RemoveGone(p) \/ CommitLoad(p)
RunStep(p) ==
  \/ \E d \in DOMAIN Listed, force \in BOOLEAN : StartRun(p, d, force)
  \/ Ask(p) \/ ReadWithheld(p) \/ ReadBucket(p) \/ Write(p) \/ DeleteRest(p) \/ CommitRun(p) \/ CommitUnchanged(p)
  \/ \E t \in todo[p] : WriteTile(p, t) \/ DeleteTile(p, t)

Next ==
  \/ \E r \in DOMAIN Releases : Deploy(r)
  \/ \E d \in DOMAIN Listed : NewList(d) \/ \E t \in UNION Range(Listed[d]) : Withdraw(d, t)
  \/ \E p \in Tasks : LoadStep(p) \/ RunStep(p) \/ Fail(p)

Spec == Init /\ [][Next]_vars

-----------------------------------------------------------------------------
(* check_item_holdings: an api or tiler of this release starts.            *)
Starts(r) == \A d \in Datasets : Nothing \in {collections[d], Registry(r)[d]} \/ collections[d] = Registry(r)[d]

(* Whatever else was loading: the load that committed last left a          *)
(* catalogue its release starts on, with every entry of its registry, no   *)
(* federated collection besides, and each migration of its files recorded  *)
(* as it is and in effect exactly once (load.py: "either the database ends *)
(* up matching the registry, or it is left exactly as it was").            *)
TheLastLoadHolds ==
  /\ loadedBy # Nothing =>
       /\ Starts(loadedBy)
       /\ \A d \in Datasets : Registry(loadedBy)[d] = Nothing => collections[d] # "federated"
       /\ \A d \in Datasets : Registry(loadedBy)[d] # Nothing => collections[d] # Nothing
       /\ \A v \in Versions : Files(loadedBy)[v] \in {Nothing, applied[v]}
  /\ \A v \in Versions : effects[v] = IF applied[v] = Nothing THEN 0 ELSE 1

LoadedRows(d) == {i \in RowsOf(d) : rows[i].status = "loaded"}

(* A run that committed while this one was under way decided otherwise     *)
(* about the tile.                                                         *)
Contested(j, t) ==
  \E k \in LoadedRows(rows[j].data) : rows[j].seen < k /\ k < j /\ (t \in rows[k].held) # (t \in rows[j].held)

TakenAway(d) == items[d] = {} /\ \E r \in DOMAIN Releases : Registry(r)[d] = Nothing

(* However runs overlap and wait for each other's rows, every tile is as   *)
(* the run that committed last decided, but where a run that committed     *)
(* while that one was under way decided otherwise; so after runs that      *)
(* follow one another the items are exactly the list of the last.  The     *)
(* only other end is that of a dataset a release does not list.            *)
ItemsAsLastWritten ==
  \A d \in Datasets : \A j \in LoadedRows(d) : (\A k \in LoadedRows(d) : k <= j) =>
    TakenAway(d) \/ \A t \in Tiles : (t \in items[d]) # (t \in rows[j].held) => Contested(j, t)

(* What materialize.py promises of every run ("either the database ends up *)
(* matching the source, or it is left exactly as it was").  It does not    *)
(* hold where runs overlap: a forced run of the list the items have        *)
(* inserts nothing and so locks none of them; a run of the next list adds  *)
(* its tiles, takes out those it has no more and commits; then the forced  *)
(* run takes out what that one has added.  The tiles both lists have are   *)
(* left, which is neither list.                                            *)
ItemsAreOneList ==
  \A d \in Datasets : items[d] = {} \/ \E i \in RowsOf(d) : rows[i].status = "loaded" /\ rows[i].held = items[d]

(* As long as the runs of a dataset follow one another, "unchanged" is     *)
(* true: the items are those the last load of that very version wrote,     *)
(* also where runs failed in between (migration 004: "the command reads    *)
(* its own last successful source_version from here"), unless a release    *)
(* that does not list the dataset has taken them all away.                 *)
UnchangedIsTrue ==
  habit = "alone" =>
    \A i \in DOMAIN rows : rows[i].status = "unchanged" =>
      \E j \in 1..(i - 1) :
        /\ rows[j].data = rows[i].data /\ rows[j].status = "loaded" /\ rows[j].version = rows[i].version
        /\ \A k \in j..i : rows[k].data = rows[i].data => rows[k].version = rows[i].version
        /\ i = Len(rows) => \/ items[rows[i].data] = rows[j].held
                            \/ TakenAway(rows[i].data)
=============================================================================
