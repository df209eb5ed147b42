---------------------------- MODULE CachedAnswers ----------------------------
(***************************************************************************)
(* Questions the API answers through one cache of answers: a page of a     *)
(* source's search, one of its scenes, the density of its scenes over a    *)
(* grid (adapters/earth_search.py, adapters/earth_search_coverage.py) and, *)
(* for a product held in the own database, the ground its items cover      *)
(* (catalog/local_coverage.py); the coverage route (api/coverage_route.py) *)
(* reads what is asked and picks the way.  Several calls run at once, each *)
(* a read of the cache, a request or a query, and a write of the cache,    *)
(* while scenes come and go.                                               *)
(*                                                                         *)
(* A scene is a number, its place in the order of every page.  A question  *)
(* is one record for all kinds; what a kind does not use stands at rest.   *)
(***************************************************************************)
EXTENDS Integers, FiniteSets

CONSTANTS
  Dense, Grounds, Unanswered, \* datasets by the way of their coverage: at the source, as an area, none
  Timeless,        \* datasets without a time axis
  Filterable,      \* datasets that offer a search filter
  Places,          \* the cells of grid level 1; level 0 is one cell
  PlaceOf, DayOf,  \* of every scene
  ClearScenes,     \* scenes the search filter lets through
  FinestLevel,     \* max_geotile_level of every dataset
  WorldCap,        \* WORLD_LEVEL_CAP
  CellCap,         \* cells the source puts into one answer
  ThinPoints,      \* MAX_AOI_POINTS
  MaxPageSize,     \* MAX_LIMIT
  LongLife, ShortLife,  \* TTL_CLOSED_S = TTL_WORLD_OVERVIEW_S = TTL_ITEM_S, and TTL_OPEN_EDGE_S = AREA_TTL_S
  ClosedAfter,     \* CLOSED_WINDOW
  Topics,          \* sets of questions asked side by side
  FirstHeld,       \* the scenes of each dataset at the beginning
  Callers,
  Span,            \* bound: ticks a call lasts
  MaxClock, MaxNews, MaxCalls  \* bounds: ticks, ticks on which scenes come or go, calls

VARIABLES
  clock,
  held,    \* the scenes of every dataset at every tick so far
  rows,    \* public.earthx_search_cache
  call,    \* what each caller's call is about
  told,    \* the answer just given
  asked,   \* calls made
  topic    \* the questions asked

answerVars == <<clock, held, rows, call, told, asked, topic>>

AnyTime == [from |-> -1, to |-> -1]
Anywhere == [of |-> "none", covers |-> Places, points |-> 0]
Nowhere == [is |-> "nothing"]
OddRow == [is |-> "odd"]
NoCall == [at |-> "idle", status |-> 0]
CachedScenes == DOMAIN DayOf
Sets == Dense \cup Grounds \cup Unanswered

(* What a caller may ask: the cells of a coverage, a page or a scene.      *)
IsQuestion(q) ==
  /\ q = [kind |-> q.kind, d |-> q.d, zoom |-> q.zoom, area |-> q.area, window |-> q.window,
          filtered |-> q.filtered, marker |-> q.marker, limit |-> q.limit, id |-> q.id]
  /\ q.kind \in {"density", "page", "item"}
  /\ q.area = [of |-> q.area.of, covers |-> q.area.covers, points |-> q.area.points] /\ q.area.covers \subseteq Places
  /\ q.window = [from |-> q.window.from, to |-> q.window.to] /\ q.window.to \in Int

ASSUME AnswersAssumption ==
  /\ IsFiniteSet(CachedScenes) /\ FirstHeld \in [Sets -> SUBSET CachedScenes]
  /\ \A T \in Topics : \A q \in T : IsQuestion(q)
  /\ ShortLife \in Nat \ {0} /\ LongLife \in Nat /\ ShortLife <= LongLife  \* five minutes and a day
  /\ ClosedAfter \in Nat /\ Span \in Nat

----------------------------------------------------------------------------
(* What is asked.                                                          *)

IsCoverage(q) == q.kind = "density"

(* level_for_viewport                                                      *)
Lower(a, b) == IF a < b THEN a ELSE b
LevelFor(q) ==
  LET level == Lower(IF q.zoom < 0 THEN 0 ELSE q.zoom, FinestLevel)
  IN IF q.area = Anywhere THEN Lower(level, WorldCap) ELSE level

(* CoverageQuery and SearchParams check themselves; only the area way and  *)
(* the search look whether an outline crosses itself.                      *)
WindowFits(q) == q.window = AnyTime \/ q.window.from <= q.window.to
OutlineFits(a) == a.of # "crossed"
CoverageFits(q) == WindowFits(q) /\ (q.kind = "ground" => OutlineFits(q.area))
PageFits(q) == WindowFits(q) /\ OutlineFits(q.area) /\ q.limit \in 1..MaxPageSize
WellAsked(q) == (q.kind \in {"density", "ground"} => CoverageFits(q)) /\ (q.kind = "page" => PageFits(q))

(* A window on a dataset without a time axis is dropped and named.         *)
Ignored(q) == IF IsCoverage(q) /\ q.d \in Timeless /\ q.window # AnyTime THEN {"datetime"} ELSE {}

(* The coverage of a dataset is asked the way its entry names (_area_path).*)
Read(q) ==
  [q EXCEPT !.kind = IF IsCoverage(q) THEN (IF q.d \in Grounds THEN "ground" ELSE "density") ELSE q.kind,
            !.window = IF Ignored(q) = {} THEN q.window ELSE AnyTime]

(* An area is sent with POST: a GET takes the extent of the map only, which *)
(* lies on the grid of its level (is_map_extent).                          *)
IsMapExtent(a) == a.of = "extent"
AreaInUrl(via, q) == IsCoverage(q) /\ via = "GET" /\ q.area # Anywhere /\ ~IsMapExtent(q.area)

(* The dataset is one that is answered, and each filter one it offers.     *)
Refusal(via, q) ==
  IF AreaInUrl(via, q) THEN 400
  ELSE IF q.d \notin Sets THEN 404
  ELSE IF IsCoverage(q) /\ q.d \in Unanswered THEN 501
  ELSE IF q.filtered /\ q.d \notin Filterable THEN 400
  ELSE IF ~WellAsked(Read(q)) THEN 400
  ELSE 200

----------------------------------------------------------------------------
(* The keys of the cache.                                                  *)

(* A mutant: the search filters are left out of the key.                   *)
DensityKeyUnfiltered(q) == [q EXCEPT !.zoom = LevelFor(q), !.filtered = FALSE]

(* earth_search_coverage._cache_key: the level is the clamped one.         *)
DensityKey(q) == [q EXCEPT !.zoom = LevelFor(q)]

(* local_coverage._cache_key: an area does not depend on the level.        *)
GroundKey(q) == [q EXCEPT !.zoom = 0]

(* search_fingerprint and search_cache_key, item_cache_key.                *)
PageKey(q) == [q EXCEPT !.zoom = 0]
ItemKey(q) == [q EXCEPT !.zoom = 0, !.limit = 0, !.marker = 0]

KeyOf(q) ==
  CASE q.kind = "density" -> DensityKey(q)
    [] q.kind = "ground"  -> GroundKey(q)
    [] q.kind = "page"    -> PageKey(q)
    [] q.kind = "item"    -> ItemKey(q)

(* A mutant: a question of the whole world counts as the overview.         *)
IsUnfilteredAnywhere(q) == q.area = Anywhere

(* ttl_for_window, _ttl, AREA_TTL_S, TTL_ITEM_S                            *)
IsUnfiltered(q) == q.area = Anywhere /\ q.window = AnyTime /\ ~q.filtered
WindowLife(q, t) ==
  IF q.window # AnyTime /\ q.window.to < t - ClosedAfter THEN LongLife ELSE ShortLife
Lifetime(q, t) ==
  CASE q.kind = "density" -> IF IsUnfiltered(q) THEN LongLife ELSE WindowLife(q, t)
    [] q.kind = "ground"  -> ShortLife
    [] q.kind = "page"    -> WindowLife(q, t)
    [] q.kind = "item"    -> LongLife

----------------------------------------------------------------------------
(* What a source, or the own database, answers.                            *)

InWindow(q, s) == q.window = AnyTime \/ DayOf[s] \in q.window.from..q.window.to
Matching(q, there) ==
  {s \in there : /\ PlaceOf[s] \in q.area.covers
                 /\ InWindow(q, s)
                 /\ q.filtered => s \in ClearScenes}

CellOf(level, s) == IF level = 0 THEN "world" ELSE PlaceOf[s]
CountsOf(level, S) ==
  LET cells == {CellOf(level, s) : s \in S}
  IN {<<c, Cardinality({s \in S : CellOf(level, s) = c})>> : c \in cells}

(* _area_variants: the outline, thinned, then its box; a thinned outline   *)
(* may reach further than the one asked.                                   *)
Thinned(a) == {[a EXCEPT !.points = ThinPoints, !.covers = c] : c \in {a.covers, Places}}
Variants(a) ==
  {a} \cup (IF a.of # "aoi" THEN {}
            ELSE {[a EXCEPT !.of = "extent", !.covers = Places, !.points = 0]}
                   \cup (IF a.points > ThinPoints THEN Thinned(a) ELSE {}))

(* What GET /aggregate of the source may say of scenes: it leaves cells    *)
(* out beyond its cap, and may not say how many scenes there are.          *)
Buckets(level, S, reduced) ==
  LET all == CountsOf(level, S)
  IN {[is |-> "density", cells |-> C, total |-> n, simplified |-> reduced] :
        C \in {X \in SUBSET all : Cardinality(X) = Lower(Cardinality(all), CellCap)}, n \in {Cardinality(S), -1}}

(* A mutant: a reduced area is not noted.                                  *)
AggregationsUnmarked(q, there) ==
  UNION {Buckets(LevelFor(q), Matching([q EXCEPT !.area = a], there), FALSE) : a \in Variants(q.area)}

(* _storable notes a reduced area.                                         *)
Aggregations(q, there) ==
  UNION {Buckets(LevelFor(q), Matching([q EXCEPT !.area = a], there), a # q.area) : a \in Variants(q.area)}

(* _query_area: the union of the footprints, cut to the area.              *)
Ground(q, there) == [is |-> "ground", covered |-> {PlaceOf[s] : s \in Matching(q, there)}]

(* One page of the search: the scenes behind the marker, which is the last *)
(* one of the page before, and the marker of the next.                     *)
FirstOf(S, n) == {s \in S : Cardinality({r \in S : r <= s}) <= n}
Page(q, there) ==
  LET rest == {s \in Matching(q, there) : s > q.marker}
      items == FirstOf(rest, q.limit)
  IN [is |-> "page", items |-> items,
      next |-> IF items = rest THEN 0 ELSE CHOOSE s \in items : \A r \in items : r <= s]

Item(q, there) == IF q.id \in there THEN [is |-> "item", id |-> q.id] ELSE Nowhere

AnswersTo(q, there) ==
  CASE q.kind = "density" -> Aggregations(q, there)
    [] q.kind = "ground"  -> {Ground(q, there)}
    [] q.kind = "page"    -> {Page(q, there)}
    [] q.kind = "item"    -> {Item(q, there)}

(* check_completeness over the cells' own sum, a pair for each scene a     *)
(* cell counts; a total of -1 is none.                                     *)
Tally(C) == Cardinality(UNION {{c} \X (1..c[2]) : c \in C})
Completeness(v) ==
  IF v.is # "density" THEN "complete"
  ELSE IF v.simplified \/ v.total = -1 \/ Tally(v.cells) # v.total THEN "truncated" ELSE "complete"

----------------------------------------------------------------------------
(* A call.                                                                 *)

Live(key) == key \in DOMAIN rows /\ rows[key].until > clock

(* _is_usable, and the shape search_items and get_item ask of a row; the   *)
(* area way asks none and fails over an odd one.                           *)
Usable(v) == v # OddRow

Answer(r, q, status, v) ==
  /\ call' = [call EXCEPT ![r] = NoCall]
  /\ told' = [q |-> q, status |-> status, value |-> v]
Goes(r, c) ==
  /\ call' = [call EXCEPT ![r] = c]
  /\ told' = NoCall

(* The question is read and the cache looked into; a cache that cannot be  *)
(* read is passed over, but not on the area way (area_coverage asks it     *)
(* without cache_get).                                                     *)
Asks(r, q) == Goes(r, [at |-> "ask", q |-> q, since |-> clock])

LookInto(r, q) ==
  LET key == KeyOf(Read(q))
      own == Read(q).kind = "ground"
  IN \/ /\ Live(key)
        /\ IF Usable(rows[key].value) THEN Answer(r, q, 200, rows[key].value)
           ELSE IF own THEN Answer(r, q, 500, Nowhere)
           ELSE Asks(r, q)
     \/ ~Live(key) /\ Asks(r, q)
     \/ IF own THEN Answer(r, q, 500, Nowhere) ELSE Asks(r, q)

Enter(r) ==
  /\ call[r] = NoCall /\ asked < MaxCalls
  /\ \E q \in topic, via \in {"GET", "POST"} :
       \/ Refusal(via, q) # 200 /\ Answer(r, q, Refusal(via, q), Nowhere)
       \/ Refusal(via, q) = 200 /\ LookInto(r, q)
  /\ asked' = asked + 1
  /\ UNCHANGED <<clock, held, rows, topic>>

(* The request to the source, or the query; a scene that is not there is   *)
(* the source's 404 and is not kept.                                       *)
Fetch(r) ==
  /\ call[r].at = "ask"
  /\ \E v \in AnswersTo(Read(call[r].q), held[clock][call[r].q.d]) :
       IF v = Nowhere THEN Answer(r, call[r].q, 404, Nowhere)
       ELSE Goes(r, [at |-> "keep", q |-> call[r].q, value |-> v, since |-> call[r].since])
  /\ UNCHANGED <<clock, held, rows, asked, topic>>

SourceSilent(r) ==
  /\ call[r].at = "ask"
  /\ Answer(r, call[r].q, IF Read(call[r].q).kind = "ground" THEN 500 ELSE 502, Nowhere)
  /\ UNCHANGED <<clock, held, rows, asked, topic>>

(* The write of the cache, under the clock of its own statement, and the   *)
(* answer; whoever writes last stands.                                     *)
Store(r) ==
  LET q == Read(call[r].q)
  IN /\ call[r].at = "keep"
     /\ rows' = [k \in DOMAIN rows \cup {KeyOf(q)} |->
                   IF k = KeyOf(q) THEN [value |-> call[r].value, until |-> clock + Lifetime(q, clock)] ELSE rows[k]]
     /\ Answer(r, call[r].q, 200, call[r].value)
     /\ UNCHANGED <<clock, held, asked, topic>>

StoreFails(r) ==
  /\ call[r].at = "keep"
  /\ IF Read(call[r].q).kind = "ground" THEN Answer(r, call[r].q, 500, Nowhere) ELSE Answer(r, call[r].q, 200, call[r].value)
  /\ UNCHANGED <<clock, held, rows, asked, topic>>

----------------------------------------------------------------------------
(* Around the calls: time passes and a scene comes or goes.                *)

News == Cardinality({t \in 1..clock : held[t] # held[t - 1]})
NextHeld ==
  {held[clock]} \cup
    (IF News = MaxNews THEN {}
     ELSE {[held[clock] EXCEPT ![d] = IF s \in @ THEN @ \ {s} ELSE @ \cup {s}] : d \in {q.d : q \in topic}, s \in CachedScenes})

PassTime ==
  /\ clock < MaxClock
  /\ \A r \in Callers : call[r] # NoCall => clock < call[r].since + Span
  /\ clock' = clock + 1
  /\ \E h \in NextHeld : held' = [t \in 0..(clock + 1) |-> IF t = clock + 1 THEN h ELSE held[t]]
  /\ rows' = [k \in {x \in DOMAIN rows : rows[x].until > clock + 1} |-> rows[k]]
  /\ told' = NoCall
  /\ UNCHANGED <<call, asked, topic>>

CallStep(r) ==
  \/ Enter(r) \/ Fetch(r) \/ SourceSilent(r) \/ Store(r) \/ StoreFails(r)

(* At the beginning there may be a row another release wrote in another    *)
(* shape.                                                                  *)
AnswersInit ==
  /\ topic \in Topics
  /\ clock = 0
  /\ held = [t \in {0} |-> FirstHeld]
  /\ \E old \in {{}} \cup {{KeyOf(Read(q))} : q \in topic} : rows = [k \in old |-> [value |-> OddRow, until |-> LongLife]]
  /\ call = [r \in Callers |-> NoCall]
  /\ told = NoCall
  /\ asked = 0

AnswersNext ==
  \/ \E r \in Callers : CallStep(r)
  \/ PassTime

AnswersSpec == AnswersInit /\ [][AnswersNext]_answerVars

----------------------------------------------------------------------------
(* The property.                                                           *)

(* How old an answer may be (adr/0004 section 5, adr/0005 rule II): a day  *)
(* where nothing moves any more, for the world overview and for one scene, *)
(* else five minutes (a row counts before its end only); and the time of   *)
(* the call that fetched it.                                               *)
OldestFor(q, t) ==
  (IF q.kind = "item" \/ (IsCoverage(q) /\ q.d \in Dense /\ q.area = Anywhere /\ q.window = AnyTime /\ ~q.filtered)
      \/ (~(IsCoverage(q) /\ q.d \in Grounds) /\ q.window # AnyTime /\ q.window.to < t - ClosedAfter)
   THEN LongLife ELSE ShortLife) - 1 + Span

(* What was there of a question as it was asked, less the filters the      *)
(* answer says it left out.                                                *)
Meant(q, left) == IF "datetime" \in left THEN [q EXCEPT !.window = AnyTime] ELSE q

(* An answer of the question alone, to the scenes there were at one time:  *)
(* exact where it calls itself complete, and never with a scene in a cell  *)
(* or on a page that was not there.                                        *)
Tells(v, q, there) ==
  CASE v.is = "density" ->
         IF Completeness(v) = "complete" THEN v.cells = CountsOf(LevelFor(q), Matching(q, there))
         ELSE \A c \in v.cells : c[2] <= Cardinality({s \in Matching([q EXCEPT !.area = Anywhere], there) :
                                                        CellOf(LevelFor(q), s) = c[1]})
    [] v.is = "ground" -> v.covered = {PlaceOf[s] : s \in Matching(q, there)}
    [] v.is = "page"   -> v = Page(q, there)
    [] v.is = "item"   -> v.id = q.id /\ q.id \in there
    [] OTHER -> FALSE

(* Whatever ran at the same time and whoever wrote the row, an answer is   *)
(* one to the caller's own question and as recent as is promised           *)
(* (earth_search_coverage._cache_key, local_coverage._cache_key,           *)
(* federated_search.search_cache_key, ttl_for_window; check_completeness:  *)
(* a map that says it is complete is).                                     *)
AnswersAreHonest ==
  (told # NoCall /\ told.status = 200) =>
    LET q == Meant(told.q, Ignored(told.q))
        from == clock - OldestFor(q, clock)
    IN \E t \in (IF from < 0 THEN 0 ELSE from)..clock : Tells(told.value, q, held[t][q.d])
=============================================================================
