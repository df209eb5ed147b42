# earthX: models, model checks and proofs

This directory holds TLA+ models of earthX, the TLC configurations that check them on small
instances, and theorems about them that TLAPS checks for instances of any size.  `PROJECT.json`
names, for every definition that stands for code, the lines it stands for, the hazards of the code
with the properties aimed at them, and for every property a slip in the code it would catch.  Paths
below are relative to the repository; files without a directory are under `backend/earthx`, the Python
package, and `frontend/src` is the browser's side.

1. [The system](#1-the-system)  2. [The modules](#2-the-modules)  3. [What the runs check](#3-what-the-runs-check)
4. [What is proved](#4-what-is-proved)  5. [Order of work](#5-order-of-work)
6. [What the models found](#6-what-the-models-found)  7. [What is not modelled](#7-what-is-not-modelled)

## 1. The system

earthX lets a browser search satellite scenes, look at them as map tiles, and order computations
on them.  An order may take minutes, so it goes through a queue in PostgreSQL to worker containers;
its result lies in an object store, and its progress comes back over server-sent events.

| component | code | state | what makes it hard | correct means |
|---|---|---|---|---|
| Job queue | `jobs/queue.py`, `jobs/submit.py`, migrations 006 and 015 | rows `earthx_run`, `earthx_job`, `earthx_recipe` | equal orders share a run; workers are late, twice or dead; every transaction runs at READ COMMITTED | one active run per key; caps hold; nobody's order is cancelled by another's dismissal; a late worker changes nothing |
| Clean-up | `jobs/cleanup.py` | the same rows, result objects | bytes lie outside the transaction; a deletion has a term and can be taken back; a hit may come meanwhile | a readable order has its bytes; what expired or was deleted goes, with its recipe |
| Worker | `jobs/worker.py`, `jobs/child.py` | slots, children, leases | crashes, lost connections, lost answers, a lease that runs out during an upload | every run ends; an attempt has one owner |
| Results taken home | `api/processing_route.py` from `job_result` on, `api/result_zip.py` | signed links, places for downloads, bundles, permalinks | a download outlives the rows it was laid out from; it breaks off and is resumed; the registry changes | a link works as long as it says; one archive, never parts of two; places come back |
| Job events | `api/job_events.py`, the stream in `api/processing_route.py` | `_subs`, `_count`, `_dirty`, `_wake`, one slot per client | lost notifications, reconnects, failed reads, state checked before an await | nobody's change is forgotten; states never go backwards; the room holds |
| Browser: jobs | `frontend/src/jobTracker.ts`, `jobShelf.ts`, `processingStore.ts` | entries of each tab, the shelf in `localStorage` | stream and polling overlap; answers arrive late; tabs overwrite each other | a late answer never replaces a newer state; everything settles |
| Search | `api/federating_client.py`, `api/mixed_search.py`, `adapters/`, `frontend/src/store.ts` | page markers, budgets, slots of the browser | sources fail or are slow one by one; the browser's fields change under an answer | no scene lost, repeated or dropped without a word |
| Search judged by the area | `api/aoi_cloud_filter.py`, `api/pass_filter.py`, `access/aoi_clouds.py`, `access/outlines.py`, `gateway/slots.py` | a clock and a budget per response; measures in the cache, reader slots per host | the clock runs out at any scene, a page ends within a day's scenes; a caller leaves while its threads read | every answer moves on; a verdict is about the whole pass and agrees with the pixels; slots come back |
| Cached answers, coverage | `api/coverage_route.py`, `catalog/coverage.py`, `catalog/search_cache.py` | one cache table | keys that leave out what the answer depends on; lifetimes by what was asked | an answer of the cache is an answer to the question, as recent as promised |
| Gateway | `gateway/client.py`, `gateway/policy.py` | starts per host, connections, robots rules and their locks | many tasks wait for one host; redirects; late wake-ups | nothing unchecked is reached; starts keep apart; everyone is answered |
| Geocoder | `adapters/nominatim.py`, `catalog/geocode_cache.py`, `api/geocode_route.py` | one row with the next free time; a pool | many processes share one outside limit | lookups handed over a second apart, quiet after a "429" |
| Tiles, mosaics, downloads | `api/tiler.py`, `api/mosaic_tiles.py` | shared fetches, fetch slots, the pool, one place for a large crop | one caller leaves while others wait for the same fetch; everyone waits for a connection | sharing harms nobody; everyone is answered |
| Result tiles | `api/result_tiles.py` | opened results, by two locks | an entry outlives the object | a tile only while the result is there |
| Orders | `api/intake.py`, `processing/`, `jobs/child.py`, `runner/` | a recipe; work files of a run | the plan drops, reorders and cuts steps; numbers of a pass feed the next; a run fails anywhere | the result is what the order says; the run's end tells the truth; promised memory suffices |
| Numbers of a band | `processing/statistics.py`, `processing/operators/normalize.py` | bins of a band, counted block by block | a percentile is found in two looks at the values; types, edges and empty bands differ | the numbers are those of all values at once |
| Catalogue | `catalog/load.py`, `catalog/schema.py`, `catalog/pgstac.py`, `discovery/materialize.py` | pgSTAC's rows, migrations, recorded runs | loads of two releases and listings of two versions overlap | the last load holds; items are as the last run decided |
| Registry | `catalog/registry.py`, `catalog/collection.py`, `api/main.py` | the entries of a release | an offer no route can serve | what a collection offers is answered |
| Object store | `compose/objectstore/bootstrap.py`, `objectstore/client.py` and `results.py` | secret files, keys, rights, the bucket's rule; results part by part | a step is killed anywhere and repeated; an answer is lost, an abandoned call is carried out late | whoever runs may do what it needs and no more; a result is there whole or not |
| Reading of pixels, map | `access/`, `readers/`, `frontend/src` | | | not modelled, section 7 |

The parts meet in few places.  The api and the slots share the tables of the queue and nothing else;
every change of a row sends a notification in its transaction, which wakes a slot or the job-event
hub; the worker, the clean-up and the downloads share the object store; the browser sees documents
only.  Everything that reaches the outside goes through the gateway.

The behaviours that decide the design, and where the models put them:

* *Two actors at one row.*  Two slots pick up at once; two callers dismiss the last two orders of a
  run; an order attaches to a run that ends, is cancelled or is swept; two releases load at once.  The
  code's answer is always the same: lock the row, then read what the decision rests on, in a statement
  of its own.
* *A worker that is late.*  A lease may run out during an upload, and another attempt may own the run
  when the first one comes back.  The code's answer is the attempt number in every `WHERE`.
* *Bytes beside rows.*  The object store takes part in no transaction.  Uploads come before the commit
  that points at them, deletions before the commit that forgets them, and each may fail alone.
* *Lost messages.*  A notification lost with its connection, an answer lost after a commit, a stream
  that breaks, an answer that comes after the question has become moot.
* *Deletions with a term.*  `DELETE` means cancel or delete by the state of the moment; a deletion can
  be taken back for a day, in another tab, by someone who has not heard of it yet.
* *One limit for many.*  A host's distance between starts, a place search per second over all
  processes, one pool of connections: reserved first, waited for afterwards, outside every lock.
* *A promise made before anything is read.*  The memory, the disk and the result of an order are told
  from the recipe alone; the run works from what the recipe kept of the scenes.

## 2. The modules

    JobPromise        what the service promises the caller of one order       (abstract)
    JobQueue          rows and transactions of the queue
      JobCleanup        + clean-up, result objects; implements JobPromise      JobCleanupProofs
        JobWorker         + the supervisors' slots                             QueueActorsProofs
        QueueTx           + the transactions statement by statement            QueueActorsProofs
        Delivery          + links, ZIPs, bundles, permalinks                   DeliveryProofs
    JobEvents         the hub that turns notifications into streams           JobEventsProofs
    JobPanel          one job in all tabs; its server is JobPromise's         BrowserProofs
    AoiFilter         one response judged scene by scene or pass by pass     BrowserProofs
    AoiMeasures       what such a judgement rests on: measures, their readers and their cache
    SearchWalk        a search walked page by page, browser and API          BrowserProofs
    CachedAnswers     pages, scenes and coverage through one cache table     GatewayProofs
    Gateway           requests hop by hop to other hosts
      Geocoder          + place searches and their shared slot                 GatewayProofs
    ResultSources     opened results, thread by thread
      Tiler             + every request of the tiler, with what they share TilerProofs
    CropRules, StepPlan, Upgrade, Runner, ExportRun, Intake, LocalRun
                      an order from its check to the end of its run
    BandNumbers       the numbers a step is given for a band
    Catalog           loads and materialize runs                              StoresProofs
    DatasetBook       a registry, and what its collections offer              StoresProofs
    ObjectStore       the store set up; a result uploaded and deleted         StoresProofs

Indented modules EXTEND the one above: a worker's step *is* a transaction of `JobQueue`, a download
reads the very rows the clean-up deletes, a lookup's request *is* one of the gateway's.  The right column
names the module with the theorems.  `MC*.tla` and
`*.cfg` are the instances for TLC.  Where one run asks about two independent modules, its `MC` module
has a variable `part`, and a behaviour moves one of them only.

### JobQueue

| state | code |
|---|---|
| `run[r]` | a row of `earthx_run`: `st` status, `key`, `recipe`, `attempt`, `cancel` (`cancel_requested`), `ready` (`not_before` has passed), `lease` (`lease_until` lies ahead), `result`, `expires`.  `"none"` is a number not handed out yet, `"gone"` a deleted row |
| `job[j]` | a row of `earthx_job`: its run, `dismissed`, `until` (`deleted_until`) |
| `recipes` | the rows of `earthx_recipe` |
| `now` | the clock of the database |

Every action is a committed transaction and is named for its function: `Claim`, `Heartbeat`,
`FinishSuccessful`, `FinishFailed`, `FinishCancelled`, `Release`, `RequeueExpired` (`queue.py`),
`Submit` with its three ways `SubmitHit`, `SubmitNew`, `SubmitAttach`, and `Dismiss`, `Restore`
(`submit.py`).  The common tail of all unsuccessful ends, `_lock_attempt` with what follows it, is
`EndAttempt`.  A lease and a backoff are a flag each that time takes away (`LeaseRunsOut`,
`BackoffEnds`): how long they last decides nothing but their order, and every order is possible.
Results are named by the attempt that uploaded them, because every upload draws a fresh random
`result_id`.

In `JobQueue` the workers are *any* workers: an attempt that was ever picked up may call at any later
time, as often as it likes.  What holds here holds for slow, doubled and resurrected workers alike.

A job may attach where a strict reading of one serial order would forbid it: `Submit` looks for a hit
and for an active run in two statements, so an order may miss a run that finishes in between and start
another one.  The model allows it, and `QueueTx` shows that this is all the statements add.

### JobCleanup

`cleanup_batch` as one step (`Cleanup`), and as one that rolls back after some of its deletions in the
object store (`CleanupFails`).  `Removal` follows the function: expired runs with all their jobs; of
jobs past their term, the runs nobody needs go whole, the others lose only these jobs and, if they
pointed at the recipe of one, point at the recipe of a job that stays (`heir`).  `SweepRecipes` deletes
what nobody refers to *after* these deletions.  `objects` is the bucket.

`Promise == INSTANCE JobPromise` maps every order to the status `job_status` would show, and to what
`restore` could bring back; `PromiseKept` says that queue, clean-up and any workers implement it.

### JobWorker

A slot is one thread: `pc` is its place in `_run_one`, `_watch`, `_conclude` and `_upload_and_finish`.  `Pick`
is `claim`; `Beat` and `Progress` bring the cancel flag to the child; `WatchEnds` is the end of the
loop for whatever reason (the child's last message, a crash, `max_seconds`, shutdown); `Conclude`
writes the end.  For `done`, `Uploaded`, `Close`, `Forget` and their failures follow the code from the
upload to the deletion of an upload nobody owns.  `Crash` is the death of the container or of the
slot's connection at any place.  `AnswerLost` is a commit whose answer never arrives.  The ghost
variable `unheard` remembers these and influences nothing.

### QueueTx

`tx[s]` is an open transaction: its place, the row it found, waits for or holds, and what it has read.
A statement judges rows by the snapshot it began with, waits for the row, and goes on with the newest
version if that still answers to its `WHERE` (PostgreSQL's READ COMMITTED); rows of *other* tables it
has read are not read again.  `FOR UPDATE`, `FOR SHARE`, `SKIP LOCKED`, `ON CONFLICT DO NOTHING`, the
advisory lock of `claim` and the three rounds of `_run_for` are modelled.  These rules are PostgreSQL's
and not in this repository; they are as its manual states them.

### Delivery

What a caller does with a result, read by read: `conn[c]` is the open request of client `c`, from its
reads of rows (`"status"`, `"recipe"`, `"read"`) over the look at the store (`"check"`) to the answer
on its way (`"send"`), byte by byte, from the segments still to be sent.  `url[c]` is the signed link it
holds, `list[b]` a bundle's or a permalink's row, `busy` the places of the download route in use, `book` the
release of the registry whose texts go into an archive.  A ZIP is laid out before it is sent, so its
bytes are known; a client that was cut off asks for the rest with `Range` and `If-Range` (`Resumes`), and
a strong tag decides whether it is the same archive (`Honours`); a range that begins behind its end is
refused (416, `RefuseSending`).
`Restart` is the api started again, which forgets connections and places but no row.  An archive has
one raster and one document per job; a request takes at most a tick (`Timely`).

### JobEvents

The hub's two tasks and the requests share one event loop, so what runs between two awaits is one
action: `MarkAll` and `Hear` of `_listen`, `TakeBatch`, `StartRead`, `Deliver`, `ReadFails`, `SleepEnds`
of `_fan_out`, `Ask`, `Register`, `TurnedAway` of `subscribe`.  `ReadRow` is the thread that reads.  A
job's row is a version number, the last one a final state, so "newer" is "greater".

### JobPanel

`entry[t]` is the `JobEntry` of tab `t`, `stored` what the shelf in `localStorage` keeps of it, `news`
a storage event that waits, `follow` the `trackJob` of the tab (and the one it may lose sight of),
`cancel` and `delete` a call on its way.  A call is answered at one moment (`Server...`) and its answer
is taken at a later one (`...Answer`); both the question and the answer may fail, and an action that
was carried out may be reported as failed.

The server's job moves by `JobPromise!Works`, so the tab is checked against what `JobCleanup` is shown
to implement and not against a friendlier server.

`OverMeansOver` is what a user relies on.  The other parts of `PanelInv` say why it holds: until the job
is over nothing anywhere tells of an end (`NothingFinalBefore`), a call is answered only by what it may
be answered by (`AnswersFit`), and a tab that shows an end has no follower with an older answer, but for
one that `restoreOne` lost sight of (`NoneLate`).

### AoiFilter, SearchWalk, CachedAnswers

`AoiFilter` is one response of a search whose scenes the API judges itself: `run_filter` scene by
scene, `run_pass_filter` for the passes of a UTC day, with the clock, the budget of scenes, the reads
ahead and what is carried over to the next page.  `resp` is the response at work, and its steps are
those of the two loops: `FetchPage`, `ReadOwn`, `TakeScene` and `LeavePage` of the one, `ReadDay`, `TakeDay`
and `LeaveDay` of the other, `EndResponse` of both; what was read ahead is in `resp.own`.

`SearchWalk` puts it into a search over several sources: the shares of a page, a page of each source,
the merge, the marker that binds each source's place to its own query, sources that fail and are
named, and on the browser's side the slots `"search"` and `"more"`, stop, changed fields and changed
datasets.  `CachedAnswers` is the way of pages, single scenes and coverages through the cache table:
the keys (`PageKey`, `ItemKey`, `DensityKey`, `GroundKey`), the lifetimes, the cache that cannot be
read or written, while scenes come and go at the source.

### AoiMeasures

`judging[t]` is one judgement of a pass or of a scene: the checks of the request, the cheap questions
(outlines, coverage, a property weighted by the scenes' places in the mosaic), then the lookup of a measure
(`LookUpMeasure`) or the reading of the pixels in a thread of a limited number (`EnterThread`).  The reading goes
stage by stage, files, levels, pixels, with a job per scene; `TakeSlot` and `GiveSlot` are the slots of a host, and
a job gives its slot back however it ends.  `TryEnds` tries once more if another try may do better, `StoreMeasure`
writes the row under `KeyOfMeasure`.  An area is the set of its places, a scene what lies at them.

### Gateway, Geocoder

`pc[r]` is the place of a request: checked, waiting for robots rules, for a connection, asleep until
its start, open, pausing before the next attempt.  Reading a robots.txt is a fetch nested in the
request that found it unread (`page[r]` keeps the hop that waits); it holds the host's robots lock and
needs a connection of its own.  `Space` is the reservation of a start: under the lock the code moves
the host's next start on, and sleeps outside it.  Time is relative: `due`, `left` and `slot` count
down, and a sleep may end up to `MaxLate` ticks late, as an event loop that is busy wakes late.
`Geocoder` adds the desk of a lookup before the gateway: the pooled connection it holds throughout,
the cache, `Reserve`, the sleep, `HandOver` to the gateway, `ToldToWait` with its push back.  A lookup that
was handed over may still wait there for the one connection its process has to that host.

### ResultSources, Tiler

`ResultSources` follows three threads through the shared entries of `api/result_tiles.py`: the lock of
the table, the lock of an entry, the head of the object, the signed address that is reused for a while.
`Tiler` has the requests of all kinds (tile, mosaic, order, bands, statistics, measure, crop) from
their first check to their answer, with what they share: the fetches of `ItemFetches` and who waits
for them, the fetch slots, the pool's connections (held over a call to the source), the place of the
one large crop.  `GiveUp` is a request that is cancelled.

### The orders

`CropRules` are the checks of areas and sizes; `StepPlan` is the planner with the operators, described
by the bands they read, add, change and drop; a band's value is a term over what was read.  `Upgrade`
rewrites documents of version 1 and gives their meaning by the operators of that version.  `Runner` is
a raster run: the plan, the mask, a pass per step that measures, work files, counts with their second
look, the COG, and the removal of everything else.  `ExportRun` writes the originals file by file into
one archive.  An image carries the type that each `mask_values` compared in (`compared`), because the type of
the array at hand decides which pixels it hides.  `Intake` takes an order from the first check over the fetches of its items, the versions
of its inputs and both estimates to the recipe in the queue and to the run.  `LocalRun` is the command
line: what a file from outside has to be, the folder file by file, the exit codes.

### BandNumbers

`counts` and `whole` are the two `BandStatistics` of a band, merged block by block in any order (`CountBlock`);
`EndCount` decides whether there is a second look, `LookAtBlock` fills the bins of `target`, `GiveNumbers`
writes what `_with_measured` makes of it.  A value is a place on a line of half steps: a `float32` at an even
place, what only a wider type holds at an odd one.  That keeps what the percentiles depend on, the order of the
values, the bin of each and whether a value is a `float32`, and leaves their bits out.  `Converted` is what the
step then makes of a value, as a fraction.

### Catalog, DatasetBook

`Catalog` has tasks that are loads (migrations with their bookkeeping, the entries, the collections
that go, one commit) or materialize runs (the last recorded version, the tile list, the blacklist, the
bucket's listing, the items, the row), at READ COMMITTED with their row locks; what a task has written
is its own until it commits.  A run writes and takes out tile by tile (`WriteTile`, `DeleteTile`) and waits for
a row another has inserted or taken out.  A row that is there already is neither written nor locked: this is
what pgstac's `upsert_items` does, which is not in this repository and modelled from its use and its documented
behaviour.  `DatasetBook` loads a candidate registry or refuses it, and then takes
up every offer that the collections of a loaded one make.  `IsEntry` is what the type of an entry promises
before any check of it runs.

### ObjectStore

`secrets` writes the files of the volumes one after another (`Look`, `Create`, `Fill`: a file is there before
its content is), `init` makes one request of the store after another (`Can`, `Effect`); `Killed` ends either
anywhere, and `Meddle` is the operator.  The second half of the
module is a result on its way into the bucket and out of it: a client makes one `Request` after another, `wire`
holds those it has given up on (`GivenUp`), and `Late` is the store doing one of them after the client went on.

## 3. What the runs check

Sizes are distinct states in thousands, times minutes and seconds of two workers.

| run | instance | asks |
|---|---|---|
| `queue` (`JobQueue`) | 3 runs, 3 orders, 1 shared key or an own one, 3 hosts, cap 2, 1 per host (1 548, 2:30) | who owns a run and who may end it; caps; what is over stays over |
| `delivery` (`Delivery`) | 2 runs, 2 orders, terms and lives of 1 to 3 ticks, links, ZIPs, bundles, one place (240, 2:00) | nothing goes too early, everything goes in the end, a link lasts, a resumed download is one archive, `PromiseKept` |
| `worker` (`JobWorker`) | 2 slots, 1 run, 2 orders, 2 attempts, clock to 2, lost answers (259, 1:30) | runs are kept from late slots, a readable order has its bytes, every accepted run ends |
| `lost_answer` (`JobWorker`) | 1 slot; a violation is expected | section 6 |
| `tx` (`QueueTx`) | 2 sessions, 2 runs, 2 orders; clock to 3 and clean-up with one run (555, 1:50) | every interleaving of statements commits steps of the queue |
| `events` (`JobEvents`) | 2 browsers on 1 job, 3 versions, room for 1 (59, 0:20) | room, no lost wake-up, no step back, whoever stays catches up |
| `panel` (`JobPanel`) | 2 tabs, 2 presses (189, 1:15) | no tab shows an end the job has not; no way back; everything settles |
| `search` (`SearchWalk`, `AoiFilter`; `CachedAnswers`) | 3 sources, 4 scenes of one of them judged, 3 steps of the user; 2 callers and 3 scenes through the cache (1 157, 2:30) | nothing twice, missed or dropped without a word; every answer moves on; the cache answers the question asked |
| `gateway` (`Geocoder`, `Gateway`) | 2 hosts; two harvests, two adapters or three lookups (439, 3:05) | starts and hand-overs apart, nothing unchecked reached, everyone answered |
| `tiler` (`Tiler`, `ResultSources`) | each kind of request alone, pairs, two triples; 3 calls for results (532, 2:50) | sharing harms nobody, served while there, everyone answered |
| `orders` (`Intake`, `Runner`, `ExportRun`, `StepPlan`, `Upgrade`, `LocalRun`; `AoiMeasures`; `BandNumbers`) | chains of up to 3 of 9 steps for 6 outputs; mosaics of 3; exports; documents of version 1; 2 judgements of 5 grounds; bands of 3 values (617, 1:20) | the result is what was ordered, the end tells the truth, memory was foreseen, an accepted order fits; verdicts agree with the pixels and slots come back; numbers are those of the whole band |
| `catalog` (`Catalog`; `DatasetBook`; `ObjectStore`) | 2 tasks, 2 datasets, 3 releases, 2 tile lists, nothing loaded yet or one load; registries of up to 2 entries; 2 buckets, 2 bring-ups; 2 uploads of 2 files (1 478, 1:45) | the last load holds, items are as last written, "unchanged" is true, what is offered is answered; who runs is served, a result is whole or gone |

Every property is there because a plausible slip in the code breaks it: `PROJECT.json` names, for each,
such a slip (a dropped re-check under the lock, a count taken before the lock, a missing mark after a
reconnect ...), and TLC finds the violation under the same configuration.  The slips stand in the
modules next to what they alter, under comments that call them mutants.

### The bounds

* `Runs`, `Jobs`: as many numbers and ids as are ever handed out; they are not reused, in the code and
  in the model.  Three runs are the fewest at which a cap of 2 can be overrun; two exports of their
  own key read from one host and everything else from hosts of its own, so that one time the cap of that host
  keeps a run back and another time the common cap does what no host does.  Three orders are the fewest at
  which one order on a run is dismissed, one deleted and one alive.  Two runs suffice for
  two of one key, one active and one finished.  `worker` has one run: its questions are about one run
  and many actors, and runs meet only at the caps and at the key, which `queue` and `tx` ask about.
* `ClaimBound` (attempts per run, not in `JobWorker`) is above `MaxAttempts` in `queue`,
  so that the check of the attempts decides before the bound does.  `JobWorker` needs none: there the
  number of attempts is bounded by the code, which is part of `AttemptsInOrder`.
* `MaxNow`, `ResultTTL`, `DeleteTerm`, `CacheMin`, `SignedLife`, `PermalinkLife`: the clock counts in
  the coarsest unit in which the terms differ, and `MaxNow` reaches past the end of a term and of a
  life in `delivery`, `worker` and `tx`; in `queue` only the terms' relation matters, and one tick
  tells a term counted from the creation from one counted from the end.
* A transaction takes less than a unit of the clock (`Time` in `QueueTx`), a request of a caller at
  most one (`Timely` in `Delivery`), a call of a browser less than a deletion's day (`TermEnds` in
  `JobPanel`).  With it, `FOR SHARE` on a cache hit (`submit.py`, `_run_for`) is never what saves a
  result, and the insert after a hit that was lost never happens: `CACHE_MIN_REMAINING` keeps a hit a
  day away from its expiry.
* `TimeOrTwoRuns` in `tx` is a constraint on the states explored: time passes, and the clean-up
  removes, with one run only; two runs meet, each attempted once, while no time passes.  The proof of
  `TransactionsAreSteps` knows no such bound.
* `Batch` is 1: every batch leaves something to the next, the harder case.
* `delivery` starts in three families of states: nothing yet; a job whose run has ended, with links
  and a ZIP to come; two results of one key with a bundle or without.  `MaxAsked` bounds what its
  clients ask for in all.  Starting late spares the states of the way there, which `queue` has.
* `Last` is 2 in `JobEvents`: two changes, one of them during a read of the other.  Both browsers
  follow one job; that one run's failed read delays no other run's followers is not checked.
* `Ends` is `{"successful"}` in `JobPanel`: the tab treats a failed job alike in every modelled place.
  `Breaks` is 1 (the code's 3): the first error of a stream hands over to asking.  `MaxPresses` is 2 in
  all tabs together, enough for any two actions to cross, among them reloads.
* `SearchWalk`: `UserSteps` 3 are a first page, a next one and one thing in between; four scenes of
  the judged source fill more than one response (`ResponseScenes` 3), a day holds up to two of them
  (`MaxDayScenes`), `SearchScenes` 4 is where a search gives up: at
  the last scene there is.  A search that gives up with scenes left is in the theorem, which knows no such bound
  (and in the same run with `SearchScenes` 3 and `ResponseScenes` 2, where no walk ends by itself).  `Attempts` 2 is the first try and one
  retry.  `CachedAnswers`: two lifetimes of 2 and 1, `MaxClock` past the longer one, one change at the
  source.
* `Gateway`: `MaxRedirects` 1, `MaxAttempts` 2, an interval of 1 on one host and none on the other,
  crawl delays at and above `MaxCrawlDelay`; `MaxLate` 1 is a late wake of a whole interval.
  `Geocoder`: slots of 2 ticks, a push back longer than anyone waits (`MaxWait`).
* `Tiler`: one fetch at a time, one connection, and requests for the same item, for neighbours and for
  too many: whoever waits, waits for someone.
* `orders`: `MaxOrderSteps` 3 of the code's limit, since a fault of a chain shows in what one step does
  to the next but one; blocks of a pass are 1 or 2, so a pass is whole or in parts; `MaxStock` 5 items.
* `Catalog`: loads and runs, three commands in all, one deployment and one withdrawal.  It starts with
  nothing, or with what a load of the first release left (`LoadedOnce`): from there three runs fit in, so that two
  may overlap over the items of a third.  The two tile lists share one tile and each has tiles of its own; with
  `MaxPercent` 40 (the code's 1) a run may leave one of three out.
* `ObjectStore`: `MaxUps` 2 and `MaxMeddles` 1 are a bring-up, a change and a second bring-up; `.env` names no
  key, half of one, or a whole one.  `Parts` `<<1, 0>>`: one file in parts and one put whole; `MaxAttempts` 2
  and `MaxLost` 2, so that every request may be lost once and repeated.
* `AoiMeasures`: two `Askers` that may ask for one measure or for two, `ReaderLimit` 2, so that they keep a slot
  from each other, and `ReadTries` 2 as in the code.  The grounds are an overlap, two systems with a host each,
  an outline or an asset that is missing, and a raster that ends before its outline.
* `BandNumbers`: `PerBin` 2 and `LastBin` 3 give bins below, within and beyond those with exact edges.  Three values
  in two blocks suffice for a rank in the middle of a bin, at its end and past it; one band has seven in three.
* Symmetry is used in `queue`, `tx`, `catalog`, among the callers of `search` and the askers of `orders`: these
  runs check invariants and action properties, no liveness, and no constant or initial state tells the
  symmetric ones apart.

### The fairness

* `delivery`: a batch of the clean-up runs and succeeds again and again (the supervisor's hourly task).
  Nothing is assumed of workers or callers.
* `WorkerFairness`: a slot thread that is not dead goes on (`SlotStep`; the watch ends because
  `max_seconds` kills the child), an idle slot picks up, some supervisor sweeps, an abandoned lease
  runs out and a backoff ends.  Heartbeats, the clean-up and the absence of crashes are not assumed: a
  slot may crash at every attempt.
* `JobEvents`: the loop gets to every task (weak); the connection comes up, a message on it is read and
  a read of a run succeeds if they are tried for ever (strong, for each run).  No client must stay, no
  job must change.
* `JobPanel`: callbacks run and calls are answered (weak); a poll that is repeated for ever is answered
  well at last, a waiting job is taken up and a running one ends (strong; the latter is what
  `EveryRunEnds` says of the workers).  The stream and the users are left to chance.
* `Geocoder`: time passes and a request that can go on does (weak): every call of the gateway has a
  timeout, every sleep ends, and a lock or a connection given back goes to somebody who waits.
* `Tiler`: a request and a fetch that can go on do (weak), for the same reason.  Callers may leave.
* `search`, `orders`, `catalog`, `queue` and `tx` state no fairness.  `EveryAnswerMovesOn` counts down a
  variant; in `orders` deadlock is checked, so an order never stops before its end.

Elsewhere deadlock is not checked: each instance really stops once its numbers, its clock or its
presses are used up.

## 4. What is proved

For any number of runs, orders, slots, sessions, clients, tabs, hosts, requests, processes and datasets,
any caps, intervals and terms:

| module | theorem | says |
|---|---|---|
| `JobCleanupProofs` | `QueueInvariant` | `Spec => []QueueInv` |
| | `NobodyCancelsAnother` | a run is dismissed only if every order on it was, and is asked to stop exactly when nobody wants it |
| | `LateResultsAreRefused` | a run closes with the result of the attempt that owns it |
| | `CapsAlwaysHold`, `OverStaysOver` | cap and host limit hold at any time; no step moves a run that is over |
| | `NothingEverDangles` | rows, recipes and objects belong together after every batch and every half of one |
| | `PromiseIsKept` | the queue with its clean-up implements `JobPromise` |
| `QueueActorsProofs` | `AttemptsStayInOrder` | no two slots hold one attempt; attempts beyond the bound were paid for by dismissals |
| | `RunsStayKept` | nobody takes a run from the slot whose lease holds, or from an order that wants it |
| | `ResultsStayThere` | what can be read, restored or joined has its bytes, but where an answer was lost |
| | `SessionsAreTold` | what a session locked, counted or drew is still as it read it |
| | `TransactionsAreSteps`, `StatementsImplement` | statements, however they fall, make steps of `JobCleanup` |
| | `StatementsKeepThePromise` | so nothing dangles and the promise holds between any two of them |
| `DeliveryProofs` | `LinksKeepTheirWord` | a signed link works for as long as it says |
| | `PlacesComeBack` | places of downloads are counted once and come back |
| | `ArchivesAreOne` | who resumes a download holds the beginning of one archive, of any length |
| | `DeliveryImplements`, `DeliveryKeepsThePromise` | links, ZIPs and lists leave rows, objects and the promise alone |
| `JobEventsProofs` | `HubInvariant`, `StatesGoForward` | places are counted, no change is forgotten, no step back |
| `BrowserProofs` | `PanelTellsTheTruth` | what a tab shows as over is over, in whatever order answers and other tabs' writes reach it |
| | `NothingComesBack` | no late answer moves a job that is over back to one that waits or runs |
| | `NothingMissedInASearch` | over all pages a scene is given once, and none is missed but those counted as unreadable |
| | `NothingLostInASearch` | a source is complete, open, named as failed, or at its limit; no marker of our own is refused |
| `GatewayProofs` | `HopsAreCleared` | no hop reaches an unlisted host, or an unread or forbidden page |
| | `StartsAndHandOversAreSpaced` | starts keep their interval up to one late wake, hand-overs of lookups a slot, and a 429 clears the line |
| | `AnswersStayHonest` | an answer from the cache is one to the asker's own question, complete where it says so, and not too old |
| `TilerProofs` | `SharingIsSafe` | one shared fetch per item, no more than there are places; who leaves harms nobody; one large crop at a time |
| | `ServedIsInStore` | no answer rests on older knowledge of the store than one HEAD is believed |
| `StoresProofs` | `LoadsHold`, `ListsAsLastWritten`, `UnchangedHolds` | the last load holds; every tile is as the last run decided, but where an overlapping one decided otherwise; "unchanged" stands on a loaded row |
| | `LoadedIsServed` | what the collections of a loaded registry offer is answered |
| | `ResultsStayWhole` | a result a run is closed with is whole, one that was deleted is gone |
| | `StoreStaysPrepared` | set up, killed and set up again, services keep what they need and get no more |

The assumptions are those the modules state on their constants, by name: `RunsAssumption`,
`KeysAssumption`, `LimitsAssumption`, `BatchAssumption`, `OrdersAssumption` (finitely many orders, where
they are counted), `DeliveryAssumption` (a link lives shorter than a deletion's term: 15 minutes and a
day), `FollowAssumption`, `GatewayAssumption`, `GeocoderAssumption` (a push back outlasts any wait that is
granted), `AnswersAssumption` (finitely many scenes; a row lives for some time, five minutes or a day),
`TilerAssumption`, `ResultSourcesAssumption`, `StoreTransferAssumption` (a result has a file),
`StoreSetupAssumption` (services are named apart from the platform) `CatalogAssumption` (two
releases share a dataset), `FilterAssumption`, `ShapesAssumption` (the scenes of an overpass share their verdict and
their block, as `pass_filter.py` cuts the blocks) and `SearchAssumption` (a page's limit, the sources and what
each holds are what the code can be given).  TLC evaluates each on
the instances.  `LoadedIsServed` assumes that every entry is `IsEntry`, which reading it into its type
ensures; TLC evaluates that of the registries of the run (`EntriesAsRead`).

### The arguments

*The queue.*  What one wants to know is `NobodyElseCancels`.  It is not inductive: a cancel dismisses a
waiting run when no other order on it is *alive*, that is neither dismissed nor deleted, and an order
that was deleted but not dismissed would be taken along.  `TermWithinLife` excludes it (an order on an
active run is not deleted).  That in turn survives a new run only because the new run's number has no
job on it yet, which is `JobsHaveRuns`, and survives an attach because a finished run never becomes
active.  That an attempt's end dismisses only what nobody wants is read under the lock, so it needs
nothing; that a retried or released run is still wanted needs `WorkIsWanted`, which ties the cancel
flag to the orders in both directions.  `OneActivePerKey` makes an attach find *the* run.
`QueueInv` is the conjunction.  There is a lemma per transaction, with one step per conjunct.
The caps are separate: only `Claim` enlarges the set of running runs, by one, after looking at both limits.

*The clean-up.*  `RecipeStays` says what every step of the queue leaves of a run's recipe, so a batch is
the only thing to look at: an expired run goes with all its orders, an order goes only when its term is
over, and a run that lost the order whose recipe it pointed at gets an `heir`'s.  The refinement maps an
order to its status; the one step that is not immediate is a batch, where a deleted order must be past
its term, which is what makes `restore` refuse it afterwards.

*The workers.*  A slot that comes late is harmless because numbers of attempts only grow: whoever picks
up draws one above all that were handed out, and an upload carries it.  `Allowed(r)`, the bound of
`AttemptsInOrder`, never shrinks while a run is there, since a dismissal stays recorded; a requeue needs
an attempt below it or a slot that was told to cancel, and that slot was told by a dismissal.  The bytes
of a run are only forgotten by the slot whose upload was refused, and uploads of two slots differ.

*The statements.*  `TxInv` says what a session may rely on between two of its statements.  What it holds
under a lock is as it read it (`Apart`: two sessions never hold what excludes the other; the advisory
lock of the pick-up and the unique index on active keys count as locks).  What it has only read may
have changed, but in few ways (`Holds` names what a step of one session leaves to the others), and its
next statement looks for each.  `KeysRunning` may have shrunk since it was counted, never grown, so a
cap judged on it is judged too strictly.  A commit is then the step of `JobCleanup` named after it, and
everything proved of that holds of the statements.

*Downloads.*  A link is checked when it is signed and used later, when the run it came from may have
been deleted.  `LinkInv` speaks of a time T: until T a result stays with its run, and an order that lives
or can be restored stays on it (`KeptTill`).  A deletion within a term of T cannot end it, and T is never
further away than a link lives.

*The bytes of an archive.*  What is left to send are segments, and what a client has are bytes of the parts they
are cut from.  `GoesOn` ties them: the first segment begins where the client stands, and each ends in the archive
where the next begins.  Cutting a range by bisection makes it so (`SegmentsGoOn`), a byte sent keeps it so and is
the next byte of the archive (`NextByteGoesOn`); whoever resumes with the validator has the same members, so the
same parts.  Where a part begins is a sum, and what an archive holds is put together member by member: both are
recursive definitions, and what they compute is shown for archives of any length by a smallest counterexample
(`StartsFollow`, `Flattened`, `ContentLies`).

*The hub.*  `NothingForgotten`: a follower that was not shown the row's version has a message under way, a
mark, a read that began after the change, or will be marked with everybody when the connection comes
up.  Each step moves the duty on.

*The tabs.*  `OverMeansOver` says nothing of the answers under way, and those decide it.  While the job waits
or runs, nothing that a tab could take speaks of an end (`NothingFinalBefore`): no answer, no shelf, and
no call is out that only an entry that is over makes.  So whatever makes an entry over comes after the
end; and from the end on no new answer says "waits" or "runs", so only old ones matter, and an entry
that turns over stops its follower in the same callback (`NoneLate`).  A tab whose job was brought back
by `restoreOne` is the exception: its follower may have been lost from the table before it was stopped,
which `NoWayBack` therefore excepts.  All that a tab does has one form, `TabChange`, and `TabChanges`
is proved once for it.

*The search.*  What a judged source has given is a sequence of scenes beside three counts, and one predicate
(`JudgedFits`) ties them: the given are distinct, lie within the filter and among the checked, and those missed
or broken are no more than the unreadable.  It holds of a page, of a response at work (`RespFits`), of what waits
to be merged (`OutFits`) and of what is shown, since each appends to the one before.  A marker fits if it stands
at the number of scenes checked (`CursorFits`), for other sources at the number given (`MarkerFits`); that is why
the next page goes on where the last ended.  By pass, the place is always the first of a block, and a block
is judged whole or not at all (`PassesWhole`).  Two walks may be under way at once, and a response belongs to the one
that still waits for it: `OwnerFits` and `SearchAlone` say that neither a stopped walk's response nor an old page
reaches the new list.

*The gateway.*  Starts are reserved under the host's lock and slept for outside it.  That the distances
hold nevertheless rests on a line: whoever sleeps is at least its interval before the next one in line,
and the last is before the next start that can be reserved (`InLine`, `SleeperFits`).  Nobody then has to
keep more distance from what started before it than it still sleeps, so when it wakes, late or not, the
distance has passed.  The slots of the place search form such a line too (`SlotInv`), across processes;
after a push back the line begins behind it.

*The catalogue.*  Loads register one after another, because two releases share a dataset and the row of
its collection stays locked to the commit.  Two runs of a dataset may write at once, since only rows that
differ are locked; but no row is in two hands (`HandsApart`), and nobody writes to what a load takes away
(`NoneTakenAway`).  A run knows which rows were committed when it began (`RunFits`).  While it writes, every tile
of its list is there, to be written, or the subject of a run that has committed since and decided otherwise
(`TilesFit`, `Overruled`); while it deletes, the same holds of every tile that is not on its list.  So its commit
leaves what `ItemsAsLastWritten` says, and a commit of another turns at most contested tiles.  `UnchangedHolds` has to say how far the recorded rows can be trusted while
runs follow one another, which is what `StandsOn` keeps.

*The tiler.*  That an item has one shared fetch rests on `running`: a live shared fetch is the one that is
entered there, so whoever asks meanwhile joins it, and it leaves the entry only when it ends.  The places of
the fetches are a finite set that grows by one while it is below the limit; the turn of the large crop is taken
before it is built and given back after.  Nobody is told `"cancelled"`, because a fetch is a task of its own and
goes on when the request that started it is gone.

*The shared entries.*  A thread may write into an entry after another has seen the object go.  An entry was checked
at a time when its object had been gone for a tick at most, since the question and the taking of its answer are
one tick apart (`Known`); it is believed for `HeadKept` from then on, by every thread that finds it, and a call
lasts a tick.

*The registry.*  `OfferedIsServed` speaks of some twenty checks in one module and of the routes in five others.
The proof goes offer by offer: what the route asks of the entry, and which check demands it.  A search under the
name of a measure needs the range, the classes and the format, all of which `WithinAoiFits` and `MaskFits` demand
together; that a filter of the entry is never taken for the coverage of the area needs the reserved prefix.  This
last step failed at first: the model had left out the check of the prefix, and no instance had a filter that bore
such a name.  The check is modelled now, and an entry that breaks it is among those TLC loads.

*Uploads and deletions.*  `ResultsWhole` is not inductive, for a request that was given up may still be carried out.
`RequestFits` says what such a request can do: complete a file with all its parts, or delete, which its client
asked for only after it had turned to the deletion.  So nothing late harms a result before its deletion, and the
parts are whole because they are asked for in their order (`EtagsFit`).  For the deletion, what `list_keys`
and the listing of uploads told is all there is, unless something came late (`Removing`).

*The set-up.*  `secrets` and `init` may be killed at any file or request and start again over what is there.  What
they find fits: an access key and a secret were drawn together or stand in `.env` together (`PairFits`), keys of
two owners differ because a drawn key is new (`Apart`), and what lies behind the file `secrets` works on is there
(`SecretsFit`).  `init` then makes progress that later requests leave alone: `DoneBefore` lists what each of its
requests brought about, and denying the rest takes nothing that was allowed.  A service that runs keeps its key,
because no file with content is ever written again (`IsServed`).

*The cache of answers.*  A row does not say who asked.  So the invariant (`AnswersInv`) says of every row that there
was a question with its key, a tick at which that question was answered so, and that it was written no later than
a call lasts after that (`RowFits`).  Whoever finds the row has the same key, and one key means one set of answers
and one lifetime (`OneKeyOneAnswer`); life and call together are never longer than the answer may be old
(`LifeIs`).  That a density which calls itself complete is exact, although the source's cap and a reduced area
both lose cells, is a matter of counting (`TallyTells`): counts that add up to all the scenes leave no cell out,
since every one of them stands for a scene of its own and a lost cell has a scene none stands for.

### Model-checked only

* `PersonalDataGoes`, `EveryRunEnds`, `FollowersCatchUp`, `PanelSettles`, `EveryoneIsAnswered`,
  `EveryoneAnswered`: liveness under fairness, which rests on ENABLED, is beyond the prover.
* `ResultAsMeant`, `MemoryForeseen`, `NumbersOfTheWhole`: they compare what folds and walks over chains of steps,
  blocks, values and texts compute, an induction over data.
* `EveryAnswerMovesOn`, and `VerdictsHold` and `StoredMeansItsKey` of `MeasuresHold`: not attempted.  The first needs the
  place of every answer against that of its question, beyond what `SearchInv` keeps.

## 5. Order of work

The order was by what a slip costs: a lost result or a foreign cancel first, then what leaves the
service (requests to others, archives), then what a user sees, then what is put right by the next load.
Each component was first checked by TLC, then, where the prover can, proved.

Next would be the measures: that a verdict rests on the row its key names (`StoredMeansItsKey`), and that
every answer of a search moves on, both from invariants that are there.

## 6. What the models found

Where the code does something else than a text of the repository says.  One run shows a violation:

* `lost_answer`.  If the connection breaks after PostgreSQL committed `finish_successful` and before the
  worker hears of it, the worker deletes the upload (`jobs/worker.py`, `_upload_and_finish`).  The run
  stays successful for a week and serves other orders, without its bytes.  Without such a loss the bytes
  are there (`ResultThereIfHeard`).

The following stand in the modules as definitions whose comment says that they do not hold, and why:

* `AtMostMaxAttempts` (`JobWorker`).  `finish_cancelled` puts a run that an order attached to back into
  the queue without comparing its attempt with `max_attempts`, so a run may be computed more often than the
  three times `docs/adr/0013-job-queue.md` names.  `AttemptsInOrder` has the bound that does hold.
* `StreamEndsWithJob` (`JobEvents`).  A job removed by the clean-up sends no message and the hub skips a
  job without a row: who follows it is told nothing.
* `LostMeansGone` (`JobPanel`).  A tab that asks while another tab's deletion stands is answered 404 and
  keeps the job as lost, for all tabs and beyond the restore.
* `CancelKeepsResults` (`JobPanel`).  "Cancel" asks for the state and then sends `DELETE`; a job that
  finishes in between is deleted, shown as cancelled and not offered for restore.
* `ComparedInOwnType` (`Runner`).  `processing/operators/mask_values.py:14-17` promises that a `float32` band is
  compared in `float32`.  It is compared in the type of the array at hand: `float64` behind a cut, where the array is a
  work file, and the common type beside a wider band.  So other pixels are hidden than in a chain that is not cut.
  `ResultIsTheRecipe` therefore takes the types as the run used them, and says that all else is as ordered.
* `FreeWhenHandedOver` (`Geocoder`).  `adapters/nominatim.py:14-16` promises one request per second at most, over all
  processes.  What is a slot apart is the hand-over to the gateway.  A process has one connection to that host
  (`_GEOCODER_CONNECTIONS_PER_HOST`, `api/dependencies.py:61`), and lookups wait for it after their slot
  (`gateway/client.py:219`): while one answer takes its time, others queue up behind it and then open back to back.
  `StartsAndHandOversSpaced` is about the hand-over.
* `ItemsAreOneList` (`Catalog`).  `discovery/materialize.py:9-11` promises that "either the database ends up matching the
  source, or it is left exactly as it was".  A forced run over a list whose items are there writes and locks none of
  them; a run of the next list may commit beside it, and what it added is then taken out.  The tiles both lists have
  are left, which is neither list, and later runs say "unchanged".  `ItemsAsLastWritten` says how far a commit can be
  trusted.
* `UrlsStayGood` (`ResultSources`).  A signed address kept for reuse may outlive its result's object.
* `ContinuesWhatIsShown` (`SearchWalk`).  "More" may continue a list of other fields than those shown.
* `FetchesBounded` (`Tiler`).  The fetches of one map view are not bounded as `api/mosaic_tiles.py` says,
  since the statistics of an area fetch outside that bound.

Seen while modelling, without a property (some cannot be reached by what callers are offered):

* *Orders.*  An order whose live `normalize` lists a band its output does not need is refused (422), also
  one of version 1 that ran, against `processing/upgrade.py`'s "bit for bit"; one that names a finer asset no
  step needs is read on a coarser grid than before; a dataset's band called `band_math` makes an upgraded
  chain refused; an order for an undescribed asset of several bands is accepted and fails as it runs; some
  chains are accepted that version 1 refused.  An asset whose bands are not counted is refused by the
  planner although the intake's comment lets it through.  Equal orders of an export share an archive,
  whose `recipe.json` carries the first order's `recipe_id`.  `plan_files` tells sizes apart more finely
  than the names it derives from them.  A local run whose `write_bytes` fails half-way leaves a partial
  `provenance.json`.
* *Numbers of a band.*  If one band of a measuring step has no valid value, no second look is made for any band
  (`processing/core.py`, `_measured`), and a band named before it whose percentiles are not those the first look
  carries (2 and 98) ends in a `KeyError` in place of the `RecipeInvalid` that `_band_values` announces: the end
  `"crashed"` of `BandNumbers`.  `PercentileRefinement` calls its result exact for every `float32` value, but one
  in an outermost bin is answered with the minimum or maximum.
* *Judging inside an area.*  The cached measure of a pass is keyed by the set of its scenes; their order in the
  mosaic is taken over all scenes of the pass that a search found, so one key may be stored under two orders
  (`access/aoi_clouds.py` says the order follows from the set).  `FILTERED_SOURCE_SECONDS`, "the longest a response
  can take", leaves out the wait for a reader's slot.  What `wait_for` cancels in `_judge_groups` is not among
  the tasks `settle` waits for.
* *Object store.*  A secret file left empty by a kill never heals by itself, and `init` refuses until someone
  deletes it; the keys of a deleted volume keep their rights in the bucket; a changed `S3_SECRET_KEY` in `.env` is
  ignored without a word, as only the access key is compared.
* *Downloads.*  A bundle answers 410, although other parts have results, if its first part loses its
  recipe between two reads; a file cleaned up between two looks gives a 500.
* *Browser.*  Loading a recipe while a start is under way leaves `starting` set; an order whose scenes
  cannot be selected has changed the dataset already, against "taken up as a whole"
  (`frontend/src/processingStore.ts`); an older load that answers late replaces a newer one.
* *Search.*  A page may repeat a scene if the source gets a new one while the first page is read; a broken
  cache table makes a coverage of our own catalogue fail, against "survivable" (`catalog/coverage.py`); keys
  of the cache name neither a source's collection nor its address; an older answer that ends later
  replaces a newer row.
* *Gateway.*  Failures of httpx that are no `TransportError` leave the reading of robots.txt without being
  remembered; the first page request does not wait for the delay its robots.txt has just named; crawl
  delays are never reset; a redirect of a lookup is a second request under one slot; places asked for
  faster than one a second push the slot ahead of the refused; a lookup holds a pooled connection
  throughout, against `catalog/geocode_cache.py`.  With a wake later than an interval, a start reserved
  later may come first: `StartsAndHandOversSpaced` speaks of the order of reservation.
* *Tiler.*  The scenes of a result are ordered among those the area touches, those of a mosaic's tiles among
  all, so a preview may show another scene on top.  Waiting too long for a connection gives a 500 for a single tile, a 503 elsewhere.
* *Catalogue.*  Of two runs that overlap the older listing may commit last and stay, while later runs say
  "unchanged" (against `discovery/materialize.py`); a tile withdrawn by the blacklist while the list's ETag
  stays is never removed; a dataset that leaves the materialized ones and comes back keeps its recorded
  runs; a migration with a number below the last one applied is applied late, in another order.
* *Registry.*  Some accepted entries make an offer that is answered 501: the coverage by our own SQL of a
  product without scenes, tiles of the `"legacy"` format.  Overlapping `band_units` patterns are accepted
  against the comment of `catalog/registry.py`.  `OfferedIsServed` excludes these offers by name.

Looked at and harmless: a hit whose last other order is deleted while the statement waits for the row
(the order is placed on a result that lives); the latest write of any tab wins in the shelf (as
`jobShelf.ts` says); the hub stops only after the server has ended its requests.

## 7. What is not modelled

| part | why |
|---|---|
| values of pixels, rounding of floating point, the histogram that is drawn, geometry, time zones | numbers; the models keep which scene, band, block and cell a value comes from, and in `BandNumbers` its order among the others |
| percentages, wording, logging, titles, translations | no property is about them |
| the slots' LISTEN thread | it only shortens a wait; `Pick` may happen at any time |
| attempts beyond the maximum in `requeue_expired` (`queue.py`) and an upload whose deletion fails | the bucket's life-cycle rule removes what nobody refers to; no state waits for it |
| `access/`, `readers/`, the cutting and merging of pixels | calls of GDAL and zarr without state of their own |
| what the statistics cache stores | a row per area, read or written, with no other actor; when it holds a connection is in `Tiler` |
| reduced levels of a measure, the coarser reading of `area_statistics` | a resolution chosen before the first read |
| `gateway/gdal.py`, name resolution | options of a library; the slots of `gateway/slots.py` are in `AoiMeasures` |
| map, layers, drawing and draft of an order in the browser | display |
| batches, groups, archive, a full or blocked `localStorage`, expiry by the clock in the browser | one job is followed in all its states; these concern lists of them or the storage itself |
| reading of the registry's YAML, `discovery/main.py` | parsing; a stub |
| native groups of a judged search, the ±90 days fallback, the search by name, a source that changes between two pages | section 2 names what stands for them |
