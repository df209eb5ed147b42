---------------------------- MODULE ResultSources ----------------------------
(* The results of jobs as the tiler reads them, api/result_tiles.py: threads of the  *)
(* tiler ask for the signed URLs of a result, and share a small cache of what the    *)
(* store said.  The lock guards the dictionary only: an entry is an object that      *)
(* several threads hold and write, field by field.                                   *)
EXTENDS Naturals, Sequences, FiniteSets

CONSTANTS
  Results,        \* result identifiers
  Calls,          \* calls of `urls`, each made once by some thread
  NoEntry,
  HeadKept,       \* ticks the answer of a HEAD is believed (60 s)
  UrlReused,      \* ticks a signed URL is handed out again (10 min)
  ResultLife,     \* ticks a result lives (RESULT_TTL, 7 days)
  MinRemaining,   \* ticks of its life a result must have left (MIN_REMAINING)
  CacheSize,
  MaxTime         \* bound: the clock of the instance

ASSUME ResultSourcesAssumption ==
  /\ NoEntry \notin Calls
  /\ {HeadKept, UrlReused, ResultLife, MinRemaining, CacheSize, MaxTime} \subseteq Nat \ {0}

VARIABLES
  time,      \* the clock
  removed,   \* result -> the time its files left the store, or MaxTime + 1
  entry,     \* call -> the entry it made: modified, checked, urls (when signed), signed
  kept,      \* result -> the call whose entry the cache holds, or NoEntry
  recent,    \* the cached results, the least recently used first
  call       \* call -> its result, its step, the entry in hand, what it answered

resVars == <<time, removed, entry, kept, recent, call>>

Never == MaxTime + 1
NoUrls == [modified |-> 0, checked |-> 0, urls |-> Never, signed |-> 0]

ResInit ==
  /\ time = 0
  /\ removed = [x \in Results |-> Never]
  /\ entry = [c \in Calls |-> NoUrls]
  /\ kept = [x \in Results |-> NoEntry]
  /\ recent = <<>>
  /\ call \in [Calls -> [result : Results, at : {"idle", "over"}, held : {NoEntry}, urls : {Never},
                         since : {0}, answer : {"none"}]]

There(x) == time < removed[x]

\* A finished call keeps its answer only.
Answer(c, a) ==
  call' = [call EXCEPT ![c] = [result |-> @.result, at |-> "over", held |-> NoEntry,
                               urls |-> Never, since |-> 0, answer |-> a]]

BelievedForever(e) == e # NoEntry

Believed(e) == e # NoEntry /\ time - entry[e].checked < HeadKept

\* The lock is held for the look into the dictionary alone.
Look(c) ==
  LET e == kept[call[c].result] IN
  /\ call[c].at = "idle"
  /\ call' = [call EXCEPT ![c].at = IF Believed(e) THEN "life" ELSE "ask",
                          ![c].held = e, ![c].since = time]
  /\ UNCHANGED <<time, removed, entry, kept, recent>>

\* A HEAD for both files; the new entry starts from the URLs of the old one, read
\* here, and from the time they were signed, read one step later.
AskStore(c) ==
  /\ call[c].at = "ask"
  /\ \/ /\ There(call[c].result)
        /\ call' = [call EXCEPT ![c].at = "copy",
                      ![c].urls = IF call[c].held = NoEntry THEN Never
                                  ELSE entry[call[c].held].urls]
     \/ ~There(call[c].result) /\ Answer(c, "not found")
     \/ Answer(c, "unavailable")
  /\ UNCHANGED <<time, removed, entry, kept, recent>>

Copy(c) ==
  /\ call[c].at = "copy"
  /\ entry' = [entry EXCEPT ![c] =
       [modified |-> 0, checked |-> time, urls |-> call[c].urls,
        signed |-> IF call[c].held = NoEntry THEN 0 ELSE entry[call[c].held].signed]]
  /\ call' = [call EXCEPT ![c].at = "life", ![c].held = c]
  /\ UNCHANGED <<time, removed, kept, recent>>

EndOf(e) == entry[e].modified + ResultLife
Ending(e) == EndOf(e) < time + MinRemaining
Fresh(e) == entry[e].urls # Never /\ time - entry[e].signed < UrlReused

TooLate(c) ==
  /\ call[c].at = "life" /\ Ending(call[c].held)
  /\ Answer(c, "expired")
  /\ UNCHANGED <<time, removed, entry, kept, recent>>

\* The entry into the cache, also over a newer one another thread put there; the
\* least recently used leaves.
Put(c) ==
  LET x == call[c].result
      used == Append(SelectSeq(recent, LAMBDA y : y # x), x)
      gone == IF Len(used) > CacheSize THEN {used[1]} ELSE {}
  IN
  /\ recent' = SelectSeq(used, LAMBDA y : y \notin gone)
  /\ kept' = [y \in Results |-> IF y \in gone THEN NoEntry
                                ELSE IF y = x THEN call[c].held ELSE kept[y]]
  /\ Answer(c, "urls")

Reuse(c) ==
  /\ call[c].at = "life" /\ ~Ending(call[c].held) /\ Fresh(call[c].held)
  /\ Put(c)
  /\ UNCHANGED <<time, removed, entry>>

\* Two assignments to an entry that other threads may hold.
SignUrls(c) ==
  /\ call[c].at = "life" /\ ~Ending(call[c].held) /\ ~Fresh(call[c].held)
  /\ entry' = [entry EXCEPT ![call[c].held].urls = time]
  /\ call' = [call EXCEPT ![c].at = "signed"]
  /\ UNCHANGED <<time, removed, kept, recent>>

NoteSigned(c) ==
  /\ call[c].at = "signed"
  /\ entry' = [entry EXCEPT ![call[c].held].signed = time]
  /\ Put(c)
  /\ UNCHANGED <<time, removed>>

Served(c) == Reuse(c) \/ NoteSigned(c)

UrlsStep(c) ==
  \/ Look(c) \/ AskStore(c) \/ Copy(c) \/ TooLate(c)
  \/ Reuse(c) \/ SignUrls(c) \/ NoteSigned(c)

\* The files leave the store: deleted with their job, or at the end of their life.
LeaveStore(x) ==
  /\ There(x)
  /\ removed' = [removed EXCEPT ![x] = time]
  /\ UNCHANGED <<time, entry, kept, recent, call>>

\* A call spans one tick at most.
Pass ==
  /\ time < MaxTime
  /\ \A c \in Calls : call[c].at \in {"idle", "over"} \/ call[c].since = time
  /\ time' = time + 1
  /\ removed' = [x \in Results |-> IF removed[x] = Never /\ time' >= ResultLife THEN time'
                                   ELSE removed[x]]
  /\ UNCHANGED <<entry, kept, recent, call>>

ResNext ==
  \/ \E c \in Calls : UrlsStep(c)
  \/ \E x \in Results : LeaveStore(x)
  \/ Pass

-----------------------------------------------------------------------------
(* Properties *)

\* A result is served only while the store has it, but for the time one HEAD is
\* believed and the length of the call that used it: whichever thread wrote which
\* entry into the cache, an answer never rests on older knowledge.
ServedWhileThere ==
  [][\A c \in Calls : Served(c) =>
       time <= removed[call[c].result] + HeadKept + 1]_resVars

\* "A signed URL is reused for 10 of its 15 minutes": no answer holds URLs signed
\* longer ago than that, the length of the call apart.
UrlsStayGood ==
  [][\A c \in Calls : Served(c) =>
       time <= entry[call[c].held].urls + UrlReused + 1]_resVars
=============================================================================
