----------------------------- MODULE AoiFilter -----------------------------
(***************************************************************************)
(* One response of a search whose filter the API judges itself             *)
(* (src/backend/earthx/api/aoi_cloud_filter.py, pass_filter.py).  The      *)
(* source gives its scenes newest first in pages of PageSize; the API      *)
(* judges them one by one (run_filter) or by overpass, a UTC day at a time *)
(* (run_pass_filter), ends the response at the first of several limits,    *)
(* and the page marker (a cursor) says where the next response goes on.    *)
(* Readings run ahead of the scene that is taken.  A measure that is       *)
(* stored only saves a reading that could fail, and readings a response    *)
(* leaves behind only store theirs: both are outcomes a reading has anyway *)
(* and are left out.                                                       *)
(*                                                                         *)
(* Pixels, outlines and ranges are one verdict per scene (the scenes of a  *)
(* pass share theirs); the clock of a response is what the code asks of    *)
(* it: enough time for another page, less than FETCH_MARGIN_S, or over.    *)
(***************************************************************************)
EXTENDS Naturals, Sequences, FiniteSets, SequencesExt

CONSTANTS
  Total,           \* scenes the judged source holds
  PageSize,        \* PAGE_SIZE: scenes of a page of the source
  ResponseScenes,  \* RESPONSE_SCENES: scenes checked in one response
  SearchScenes,    \* SEARCH_SCENES: scenes checked in the whole search
  MaxDayScenes,    \* MAX_DAY_SCENES: scenes of one block
  Ahead,           \* CONCURRENT_READS: scenes measured ahead
  Gate,            \* CONCURRENT_PASSES: passes judged at once
  Attempts,        \* ATTEMPTS: tries of one reading
  SourceShapes     \* what the source may hold: a set of records, see ShapesAssumption

ASSUME FilterAssumption ==
  /\ {Total, PageSize, ResponseScenes, SearchScenes, MaxDayScenes, Ahead, Gate, Attempts} \subseteq Nat \ {0}

VARIABLES
  source,    \* the scenes: verdict, day and overpass of each, and whether an empty page may close the list
  resp,      \* the response being made
  timeLeft   \* time left of it

filterVars == <<source, resp, timeLeft>>

Scenes == 1..Total
None == [none |-> TRUE]

----------------------------------------------------------------------------
(* Pages and positions of the source.                                      *)

Smaller(a, b) == IF a < b THEN a ELSE b

Lowest(S) == CHOOSE x \in S : \A y \in S : x <= y

PageItems(page) == (page * PageSize + 1)..Smaller((page + 1) * PageSize, Total)

HasNextPage(page) ==
  \/ (page + 1) * PageSize < Total
  \/ source.tail /\ (page + 1) * PageSize = Total

Position(page, offset) == [page |-> page, offset |-> offset]

Before(pos) == pos.page * PageSize + pos.offset

(* Where the page after this one starts; None where the source ends.       *)
NextPage(page) == IF HasNextPage(page) THEN Position(page + 1, 0) ELSE None

----------------------------------------------------------------------------
(* The page marker and the counts it carries.                              *)

FirstCursor == [pos |-> Position(0, 0), checked |-> 0, found |-> 0, unreadable |-> 0]

(* What decode_cursor asks of a marker beside its key.                     *)
CursorReadable(cur) ==
  /\ cur.pos.offset < PageSize
  /\ cur.checked < SearchScenes
  /\ cur.found + cur.unreadable <= cur.checked

----------------------------------------------------------------------------
(* The response.                                                           *)

Idle == [st |-> "idle"]

InResponse == resp.st \in {"loop", "take", "judge"}

Done == \/ Len(resp.kept) >= resp.limit
        \/ resp.scenes >= ResponseScenes
        \/ resp.checked >= SearchScenes

BeginResponse(cur, limit, byPass) ==
  /\ resp.st = "idle"
  /\ resp' = [st |-> "loop", limit |-> limit, byPass |-> byPass, pos |-> cur.pos, fetched |-> FALSE, broken |-> FALSE,
              scenes |-> 0, checked |-> cur.checked, found |-> cur.found, unreadable |-> cur.unreadable,
              kept |-> <<>>, lost |-> {}, items |-> {}, own |-> <<>>]
  /\ timeLeft' = "long"
  /\ UNCHANGED <<source>>

(* The head of the loop: whether another page, or block, is asked for.     *)
GoesOn ==
  /\ resp.st = "loop" /\ ~resp.broken
  /\ resp.pos # None
  /\ ~Done
  /\ timeLeft # "over" \/ (resp.byPass /\ resp.scenes = 0)
  /\ ~(resp.fetched /\ timeLeft # "long")

(* A reading of a unit starts: stored and outlined units need no pixel.    *)
NewReading == [tries |-> 0, got |-> "none"]

(* Scenes measured ahead when `taken` of the page's slice are taken.       *)
Window(items, at, scenes, checked) ==
  LET allowance == Smaller(Smaller(ResponseScenes - scenes, SearchScenes - checked), Ahead)
  IN {{i} : i \in {j \in items : j < at + allowance}}

Opened(own, units) == [u \in DOMAIN own \union units |-> IF u \in DOMAIN own THEN own[u] ELSE NewReading]

NoReadings == [u \in {} |-> NewReading]


(* run_filter fetches a page and hands its rest to _take_page.             *)
FetchPage ==
  /\ GoesOn /\ ~resp.byPass
  /\ LET rest == {i \in PageItems(resp.pos.page) : i > Before(resp.pos)}
     IN resp' = [resp EXCEPT !.st = "take", !.fetched = TRUE, !.items = rest,
                   !.own = IF rest = {} THEN NoReadings
                           ELSE Opened(NoReadings, Window(rest, Lowest(rest), resp.scenes, resp.checked))]
  /\ UNCHANGED <<source, timeLeft>>

(* One try at a reading: an outline outside the coverage needs none; a     *)
(* broken asset is never tried again, any other failure once more.         *)
Tried(unit, reading) ==
  LET verdict == source.verdict[Lowest(unit)]
  IN  CASE verdict = "uncovered" -> {[reading EXCEPT !.got = "out"]}
        [] verdict = "broken"    -> {[reading EXCEPT !.got = "unreadable"]}
        [] OTHER -> {[reading EXCEPT !.got = verdict],
                     [tries |-> reading.tries + 1,
                      got |-> IF reading.tries + 1 >= Attempts THEN "unreadable" ELSE "none"]}

(* The units whose reading holds a place: all those opened of a page, and  *)
(* the first Gate unfinished passes of a block.                            *)
Unfinished == {u \in DOMAIN resp.own : resp.own[u].got = "none"}

Reading(u) ==
  /\ u \in Unfinished
  /\ resp.st = "judge" => Cardinality({w \in Unfinished : Lowest(w) < Lowest(u)}) < Gate

ReadOwn ==
  \E u \in IF InResponse THEN Unfinished ELSE {} :
    /\ Reading(u)
    /\ \E outcome \in Tried(u, resp.own[u]) : resp' = [resp EXCEPT !.own[u] = outcome]
    /\ UNCHANGED <<source, timeLeft>>

(* What one judged unit does to the counts and the scenes kept.            *)
TakenIn(r, unit, got) ==
  [r EXCEPT !.checked = @ + Cardinality(unit), !.scenes = @ + Cardinality(unit),
            !.found = IF got = "in" THEN @ + Cardinality(unit) ELSE @,
            !.unreadable = IF got = "unreadable" THEN @ + Cardinality(unit) ELSE @,
            !.lost = IF got = "unreadable" THEN @ \union unit ELSE @,
            !.kept = IF got = "in" THEN Append(@, Lowest(unit)) ELSE @]

(* The first scene, or block, of a response is waited for whatever the     *)
(* clock says.                                                             *)
OutOfTimeAtOnce == timeLeft = "over"

OutOfTime == timeLeft = "over" /\ resp.scenes > 0

(* The next scene of the page, once its reading is there.                  *)
TakeScene ==
  /\ resp.st = "take" /\ resp.items # {}
  /\ ~Done
  /\ ~OutOfTime
  /\ LET i == Lowest(resp.items)
         rest == resp.items \ {i}
     IN /\ resp.own[{i}].got # "none"
        /\ LET r == TakenIn(resp, {i}, resp.own[{i}].got)
               more == IF rest = {} \/ timeLeft = "over" \/ Len(r.kept) >= r.limit \/ r.scenes >= ResponseScenes \/ r.checked >= SearchScenes
                       THEN {}
                       ELSE Window(rest, i + 1, r.scenes, r.checked)
               \* a finished reading that was taken is of no further use
               open == [u \in DOMAIN resp.own \ {{i}} |-> resp.own[u]]
           IN resp' = [r EXCEPT !.items = rest, !.own = Opened(open, more)]
  /\ UNCHANGED <<source, timeLeft>>

(* _take_page ends: at the end of the slice run_filter goes to the next    *)
(* page, otherwise it stops at the first scene not taken.  Readings of     *)
(* scenes not taken are left to themselves.                                *)
LeavePage ==
  /\ resp.st = "take"
  /\ resp.items = {} \/ Done \/ OutOfTime
  /\ resp' = [resp EXCEPT !.st = "loop", !.own = NoReadings,
                !.pos = IF resp.items = {} THEN NextPage(resp.pos.page)
                        ELSE Position(resp.pos.page, Lowest(resp.items) - 1 - resp.pos.page * PageSize),
                !.broken = resp.items # {}, !.items = {}]
  /\ UNCHANGED <<source, timeLeft>>

(* _read_day: the scenes of one UTC day from the position on, across pages *)
(* of the source; a scene without a day (0) stands alone, a block is cut   *)
(* at MaxDayScenes.                                                        *)
BlockFrom(x, first) ==
  LET same(i) == \A j \in first..i : x.day[j] = x.day[first] /\ (j > first => x.day[j] # 0)
  IN {i \in Scenes : i >= first /\ i < first + MaxDayScenes /\ same(i)}

(* No overpass lies across the end of a block: the scenes of one follow    *)
(* each other on one day, and pass_filter.py (its text on the cut) has not *)
(* seen a day of more than MaxDayScenes.                                   *)
AreStarts(x, starts) ==
  /\ 1 \in starts
  /\ \A b \in starts :
       /\ LET next == b + Cardinality(BlockFrom(x, b)) IN next <= Total => next \in starts
       /\ \A i, j \in Scenes : x.pass[i] = x.pass[j] => (i < b <=> j < b)

ASSUME ShapesAssumption ==
  \A x \in SourceShapes :
    /\ x.verdict \in [Scenes -> {"in", "out", "uncovered", "broken"}]
    /\ \A i, j \in Scenes : x.pass[i] = x.pass[j] => x.verdict[i] = x.verdict[j]
    /\ \E starts \in SUBSET Scenes : AreStarts(x, starts)

Block(pos) == BlockFrom(source, Before(pos) + 1)

BehindBlockPage(block, pos) ==
  IF Before(pos) + Cardinality(block) >= Total THEN None
  ELSE Position((Before(pos) + Cardinality(block)) \div PageSize, 0)

BehindBlock(block, pos) ==
  LET last == Before(pos) + Cardinality(block)
  IN IF last >= Total THEN None ELSE Position(last \div PageSize, last % PageSize)

Passes(block) == {{j \in block : source.pass[j] = source.pass[i]} : i \in block}

(* An empty block (the source's closing page is empty) ends the list.      *)
ReadDay ==
  /\ GoesOn /\ resp.byPass
  /\ LET block == Block(resp.pos)
     IN resp' = IF block = {} THEN [resp EXCEPT !.fetched = TRUE, !.pos = None]
                ELSE [resp EXCEPT !.st = "judge", !.fetched = TRUE, !.items = block,
                                  !.own = Opened(NoReadings, Passes(block))]
  /\ UNCHANGED <<source, timeLeft>>

Fold(r, units) ==
  LET kept == UNION {u \in units : resp.own[u].got = "in"}
      lost == UNION {u \in units : resp.own[u].got = "unreadable"}
  IN [r EXCEPT !.checked = @ + Cardinality(r.items), !.scenes = @ + Cardinality(r.items),
               !.found = @ + Cardinality(kept), !.unreadable = @ + Cardinality(lost),
               !.lost = @ \union lost, !.kept = @ \o SetToSeq(kept)]

(* All passes of the block are judged.                                     *)
TakeDay ==
  /\ resp.st = "judge" /\ Unfinished = {}
  /\ resp' = [Fold(resp, DOMAIN resp.own) EXCEPT !.st = "loop", !.own = NoReadings, !.items = {},
                !.pos = BehindBlock(resp.items, resp.pos)]
  /\ UNCHANGED <<source, timeLeft>>

(* Out of time in a later block: it is left to the next response.          *)
LeaveDay ==
  /\ resp.st = "judge" /\ Unfinished # {}
  /\ OutOfTime
  /\ resp' = [resp EXCEPT !.st = "loop", !.own = NoReadings, !.items = {}, !.broken = TRUE]
  /\ UNCHANGED <<source, timeLeft>>

(* The clock moves while something is waited for; before the first page of *)
(* a response nothing is.                                                  *)
TimePasses ==
  /\ InResponse /\ resp.fetched
  /\ timeLeft' \in CASE timeLeft = "long" -> {"short", "over"} [] timeLeft = "short" -> {"over"} [] OTHER -> {}
  /\ UNCHANGED <<source, resp>>

NeverLimited == FALSE

LimitReached == resp.pos # None /\ resp.checked >= SearchScenes

(* The outcome: the scenes kept and the marker to go on with.              *)
EndResponse ==
  /\ resp.st = "loop" /\ ~GoesOn
  /\ resp' = [st |-> "done", kept |-> resp.kept, lost |-> resp.lost, byPass |-> resp.byPass, limited |-> LimitReached,
              checked |-> resp.checked, found |-> resp.found, unreadable |-> resp.unreadable,
              next |-> IF resp.pos = None \/ LimitReached THEN None
                       ELSE [pos |-> resp.pos, checked |-> resp.checked, found |-> resp.found,
                             unreadable |-> resp.unreadable]]
  /\ UNCHANGED <<source, timeLeft>>

(* The request is over before its response: the source fails while a page  *)
(* is asked for, the search's own budget for the source runs out, or the   *)
(* search fails at another source.                                         *)
AbortResponse ==
  /\ InResponse
  /\ resp' = Idle
  /\ UNCHANGED <<source, timeLeft>>

Steps ==
  \/ FetchPage \/ TakeScene \/ LeavePage
  \/ ReadDay \/ TakeDay \/ LeaveDay
  \/ ReadOwn \/ TimePasses \/ EndResponse

FilterInit ==
  /\ source \in SourceShapes
  /\ resp = Idle
  /\ timeLeft = "long"
============================================================================
