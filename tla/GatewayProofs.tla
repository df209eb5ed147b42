---------------------------- MODULE GatewayProofs ----------------------------
(***************************************************************************)
(* Requests and place searches keep to the lists and to their distances,   *)
(* for any number of them, any hosts, intervals and delays of the loop.    *)
(*                                                                         *)
(* What makes the distances hold although a start is slept for outside     *)
(* the lock: the starts reserved at a host form a line.  Whoever sleeps is *)
(* at least its interval before the next in line, the last of them before  *)
(* the next start that can be reserved; and nobody has to keep more from   *)
(* the starts before it than it still sleeps.  The slots of the place      *)
(* search form such a line too.                                            *)
(*                                                                         *)
(* And answers from the cache of what sources were asked are honest: a row *)
(* was told of a question with its own key, and two questions with one key *)
(* have the same answers and the same lifetime.                            *)
(***************************************************************************)
EXTENDS Geocoder, CachedAnswers, FiniteSetTheorems, TLAPS

Verdicts == {"unread", "allows", "bars", "resting"}

GatewayTypes ==
  /\ kind \in Scenarios
  /\ pc \in [Requests -> {"idle", "checking", "robots", "connecting", "asleep", "open", "pausing", "done"}]
  /\ at \in [Requests -> AnyHost \cup {NoHost}]
  /\ hops \in [Requests -> Nat]
  /\ page \in [Requests -> [host : Hosts \cup {NoHost}, hops : Nat]]
  /\ left \in [Requests -> Int] /\ pace \in [Requests -> Nat]
  /\ due \in [Hosts -> Nat] /\ rules \in [Hosts -> Verdicts] /\ delay \in [Hosts -> Nat]
  /\ allowed \in SUBSET Hosts /\ owed \in [Hosts \cup Requests -> Nat]

----------------------------------------------------------------------------
(* Lists.                                                                  *)

(* A hop that was checked, and let by the host's robots.txt.               *)
Checked(r) == at[r] \in Hosts /\ (~ReadsRobots(r) => at[r] \in kind[r].within)
Cleared(r) == Checked(r) /\ (kind[r].robots /\ ~ReadsRobots(r) => at[r] \in allowed)

RequestCleared(r) ==
  /\ ReadsRobots(r) => page[r].host \in Hosts /\ page[r].host \in kind[r].within
  /\ pc[r] = "robots" => Checked(r) /\ ~ReadsRobots(r)
  /\ pc[r] \in {"connecting", "asleep", "pausing", "open"} => Cleared(r)

ClearedInv ==
  /\ \A r \in Requests : RequestCleared(r)
  /\ \A h \in Hosts : rules[h] = "allows" => h \in allowed

----------------------------------------------------------------------------
(* Starts.                                                                 *)

Asleep(r) == pc[r] = "asleep"

SleeperFits(r) ==
  /\ pace[r] > 0 /\ left[r] >= -MaxLate
  /\ left[r] + pace[r] <= due[at[r]]
  /\ owed[r] <= Larger(left[r], 0)

InLine(q, r) == left[q] + pace[q] <= left[r] \/ left[r] + pace[r] <= left[q]

SpacedInv ==
  /\ \A r \in Requests : Asleep(r) => SleeperFits(r)
  /\ \A q, r \in Requests : q # r /\ Asleep(q) /\ Asleep(r) /\ at[q] = at[r] => InLine(q, r)
  /\ \A h \in Hosts : owed[h] <= due[h] /\ (SpaceFor(h) = 0 => due[h] = 0)

----------------------------------------------------------------------------
(* Slots.                                                                  *)

Waits(r) == desk[r] = "asleep"

SlotTypes ==
  /\ desk \in [Requests -> {"none", "asked", "connected", "missed", "asleep", "handed", "over"}]
  /\ slot \in Nat /\ passed \in [handed : Nat, push : Nat]

(* Whoever is to be handed over has that long to wait.                     *)
LeftToAll(n) == slot >= n /\ \A r \in Requests : Waits(r) => left[r] >= n
LeftToLater(n) == slot >= n /\ \A r \in Requests : Waits(r) /\ r \notin early => left[r] >= n

SlotInv ==
  /\ \A r \in Requests :
       /\ desk[r] \in {"asked", "connected", "missed", "asleep"} => pc[r] = "idle"
       /\ desk[r] # "none" => r \in Lookups
       /\ Waits(r) => left[r] >= -MaxLate /\ left[r] + SlotTicks <= slot
  /\ \A q, r \in Requests :
       q # r /\ Waits(q) /\ Waits(r) => left[q] + SlotTicks <= left[r] \/ left[r] + SlotTicks <= left[q]
  /\ passed.handed >= SlotTicks - MaxLate \/ LeftToAll(SlotTicks - MaxLate - passed.handed)
  /\ passed.push >= PushBack \/ LeftToLater(PushBack - passed.push)

Inv == GatewayTypes /\ ClearedInv /\ SpacedInv /\ SlotTypes /\ SlotInv

-----------------------------------------------------------------------------
\* How a request ends, or goes on to its page

Ends(r) ==
  \E x \in Hosts \cup {NoHost}, n \in Nat, to \in {"done", "connecting"} :
    /\ pc' = [pc EXCEPT ![r] = to] /\ at' = [at EXCEPT ![r] = x]
    /\ hops' = [hops EXCEPT ![r] = n] /\ page' = [page EXCEPT ![r] = NoPage]
    /\ to = "connecting" => x \in Hosts /\ x \in kind[r].within /\ x \in allowed'
    /\ rules' \in [Hosts -> Verdicts] /\ delay' \in [Hosts -> Nat]
    /\ allowed \subseteq allowed' /\ allowed' \subseteq Hosts
    /\ \A h \in Hosts : (rules'[h] = "allows" => h \in allowed') /\ (delay'[h] = 0 => delay[h] = 0)

LEMMA FinishEnds ==
  ASSUME GatewayTypes, ClearedInv, NEW r \in Requests, NEW o, Finish(r, o), UNCHANGED <<rules, delay, allowed>>
  PROVE  Ends(r)
BY DEF GatewayTypes, ClearedInv, Finish, Ends

LEMMA JudgedEnds ==
  ASSUME GatewayTypes, ClearedInv, NEW r \in Requests, NEW h \in Hosts, NEW n \in Nat, NEW v, h \in kind[r].within,
         v = "allows" => h \in allowed, JudgedBy(r, h, n, v), UNCHANGED <<rules, delay, allowed>>
  PROVE  Ends(r)
<1>1. CASE v = "allows"
  BY <1>1 DEF GatewayTypes, ClearedInv, JudgedBy, Ends
<1>2. CASE v # "allows"
  BY <1>2, FinishEnds DEF JudgedBy
<1> QED
  BY <1>1, <1>2

LEMMA LearnEnds ==
  ASSUME GatewayTypes, ClearedInv, NEW r \in Requests, ReadsRobots(r),
         NEW verdict \in Verdicts, NEW crawl \in Nat, Learn(r, verdict, crawl)
  PROVE  Ends(r)
<1>1. PICK h : h = page[r].host
  OBVIOUS
<1>2. PICK v \in Verdicts : v = IF crawl > MaxCrawlDelay THEN "resting" ELSE verdict
  BY DEF Verdicts
<1>3. h \in Hosts /\ h \in kind[r].within /\ page[r].hops \in Nat
  BY <1>1 DEF ClearedInv, RequestCleared, GatewayTypes
<1>4. /\ rules' = [rules EXCEPT ![h] = v]
      /\ allowed' = IF v = "allows" THEN allowed \cup {h} ELSE allowed
      /\ delay' = [delay EXCEPT ![h] = IF v # "resting" /\ crawl > 0 THEN crawl ELSE @]
      /\ JudgedBy(r, h, page[r].hops, v)
  BY <1>1, <1>2 DEF Learn
<1>5. /\ rules' \in [Hosts -> Verdicts] /\ delay' \in [Hosts -> Nat]
      /\ allowed \subseteq allowed' /\ allowed' \subseteq Hosts /\ (v = "allows" => h \in allowed')
  BY <1>3, <1>4 DEF GatewayTypes
<1>6. ASSUME NEW g \in Hosts PROVE (rules'[g] = "allows" => g \in allowed') /\ (delay'[g] = 0 => delay[g] = 0)
  BY <1>3, <1>4 DEF GatewayTypes, ClearedInv
<1>7. CASE v = "allows"
  <2>1. /\ pc' = [pc EXCEPT ![r] = "connecting"] /\ at' = [at EXCEPT ![r] = h]
        /\ hops' = [hops EXCEPT ![r] = page[r].hops] /\ page' = [page EXCEPT ![r] = NoPage]
    BY <1>4, <1>7 DEF JudgedBy
  <2> QED
    BY <1>3, <1>5, <1>6, <1>7, <2>1 DEF Ends
<1>8. CASE v # "allows"
  <2>1. /\ pc' = [pc EXCEPT ![r] = "done"] /\ at' = [at EXCEPT ![r] = NoHost]
        /\ hops' = [hops EXCEPT ![r] = 0] /\ page' = [page EXCEPT ![r] = NoPage]
    BY <1>4, <1>8 DEF JudgedBy, Finish
  <2> QED
    BY <1>5, <1>6, <2>1 DEF Ends
<1> QED
  BY <1>7, <1>8

LEMMA FailedEnds ==
  ASSUME GatewayTypes, ClearedInv, NEW r \in Requests, NEW e, Failed(r, e)
  PROVE  Ends(r)
<1>1. CASE ~ReadsRobots(r)
  BY <1>1, FinishEnds DEF Failed
<1>2. CASE ReadsRobots(r) /\ e = "escaped"
  BY <1>2, FinishEnds DEF Failed, LearnNothing
<1>3. CASE ReadsRobots(r) /\ e # "escaped"
  <2>1. PICK v \in {"allows", "resting"} : Learn(r, v, 0)
    BY <1>3 DEF Failed
  <2> QED
    BY <1>3, <2>1, LearnEnds DEF Verdicts
<1> QED
  BY <1>1, <1>2, <1>3

-----------------------------------------------------------------------------
\* The steps of a request that start nothing

\* What all of them leave alone.
Still(r) ==
  /\ kind' = kind /\ due' = due /\ owed' = owed /\ pace' = pace
  /\ left' \in [Requests -> Int] /\ \A q \in Requests \ {r} : left'[q] = left[q]

\* A request that goes on to another hop, or another wait, and no host learns anything.
GoesOn(r) ==
  \E to \in {"checking", "robots", "connecting", "pausing"}, x \in AnyHost, n \in Nat,
     y \in [host : Hosts \cup {NoHost}, hops : Nat] :
    /\ pc' = [pc EXCEPT ![r] = to] /\ at' = [at EXCEPT ![r] = x]
    /\ hops' = [hops EXCEPT ![r] = n] /\ page' = [page EXCEPT ![r] = y]
    /\ UNCHANGED <<rules, delay, allowed>>
    /\ y # NoPage => y.host \in Hosts /\ y.host \in kind[r].within
    /\ to = "robots" => x \in Hosts /\ x \in kind[r].within /\ y = NoPage
    /\ to \in {"connecting", "pausing"} =>
         x \in Hosts /\ (y = NoPage => x \in kind[r].within /\ (kind[r].robots => x \in allowed))

LEMMA EndsKeep ==
  ASSUME GatewayTypes, ClearedInv, NEW r \in Requests, Still(r), Ends(r) \/ GoesOn(r)
  PROVE  /\ GatewayTypes' /\ ClearedInv' /\ pc'[r] \notin {"asleep", "open", "idle"}
         /\ \A q \in Requests \ {r} : pc'[q] = pc[q] /\ at'[q] = at[q]
         /\ \A h \in Hosts : delay'[h] = 0 => delay[h] = 0
<1>1. CASE Ends(r)
  <2>1. PICK x \in Hosts \cup {NoHost}, n \in Nat, to \in {"done", "connecting"} :
               /\ pc' = [pc EXCEPT ![r] = to] /\ at' = [at EXCEPT ![r] = x]
               /\ hops' = [hops EXCEPT ![r] = n] /\ page' = [page EXCEPT ![r] = NoPage]
               /\ to = "connecting" => x \in Hosts /\ x \in kind[r].within /\ x \in allowed'
               /\ rules' \in [Hosts -> Verdicts] /\ delay' \in [Hosts -> Nat]
               /\ allowed \subseteq allowed' /\ allowed' \subseteq Hosts
               /\ \A h \in Hosts : (rules'[h] = "allows" => h \in allowed') /\ (delay'[h] = 0 => delay[h] = 0)
    BY <1>1 DEF Ends
  <2>2. NoPage \in [host : Hosts \cup {NoHost}, hops : Nat]
    BY DEF NoPage
  <2>3. GatewayTypes'
    BY <2>1, <2>2 DEF GatewayTypes, Still, AnyHost
  <2>4. /\ pc'[r] = to /\ at'[r] = x /\ page'[r] = NoPage
        /\ \A q \in Requests \ {r} : pc'[q] = pc[q] /\ at'[q] = at[q] /\ page'[q] = page[q]
    BY <2>1 DEF GatewayTypes
  <2>5. kind' = kind
    BY DEF Still
  <2>6. RequestCleared(r)'
    BY <2>1, <2>4, <2>5 DEF RequestCleared, Cleared, Checked, ReadsRobots
  <2>7. \A q \in Requests \ {r} : RequestCleared(q)'
    BY <2>1, <2>4, <2>5 DEF ClearedInv, RequestCleared, Cleared, Checked, ReadsRobots
  <2> QED
    BY <2>1, <2>3, <2>4, <2>6, <2>7 DEF ClearedInv
<1>2. CASE GoesOn(r)
  <2>1. PICK to \in {"checking", "robots", "connecting", "pausing"}, x \in AnyHost, n \in Nat,
             y \in [host : Hosts \cup {NoHost}, hops : Nat] :
               /\ pc' = [pc EXCEPT ![r] = to] /\ at' = [at EXCEPT ![r] = x]
               /\ hops' = [hops EXCEPT ![r] = n] /\ page' = [page EXCEPT ![r] = y]
               /\ UNCHANGED <<rules, delay, allowed>>
               /\ y # NoPage => y.host \in Hosts /\ y.host \in kind[r].within
               /\ to = "robots" => x \in Hosts /\ x \in kind[r].within /\ y = NoPage
               /\ to \in {"connecting", "pausing"} =>
                    x \in Hosts /\ (y = NoPage => x \in kind[r].within /\ (kind[r].robots => x \in allowed))
    BY <1>2 DEF GoesOn
  <2>3. GatewayTypes'
    BY <2>1 DEF GatewayTypes, Still, AnyHost
  <2>4. /\ pc'[r] = to /\ at'[r] = x /\ page'[r] = y
        /\ \A q \in Requests \ {r} : pc'[q] = pc[q] /\ at'[q] = at[q] /\ page'[q] = page[q]
    BY <2>1 DEF GatewayTypes
  <2>5. kind' = kind
    BY DEF Still
  <2>6. RequestCleared(r)'
    BY <2>1, <2>4, <2>5 DEF RequestCleared, Cleared, Checked, ReadsRobots
  <2>7. \A q \in Requests \ {r} : RequestCleared(q)'
    BY <2>1, <2>4, <2>5 DEF ClearedInv, RequestCleared, Cleared, Checked, ReadsRobots
  <2> QED
    BY <2>1, <2>3, <2>4, <2>6, <2>7 DEF ClearedInv
<1> QED
  BY <1>1, <1>2

\* A request that is taken further without a start.
Quietly(r) == Still(r) /\ (Ends(r) \/ GoesOn(r))

LEMMA GoingOnIsQuiet ==
  ASSUME GatewayTypes, ClearedInv, NEW r \in Requests,
         \/ Clear(r) \/ ReadRules(r) \/ TryLater(r)
         \/ \E h \in AnyHost : Redirect(r, h) \/ Ask(r, h)
  PROVE  Quietly(r) /\ GoesOn(r)
<1>1. /\ at[r] \in AnyHost \cup {NoHost} /\ hops[r] \in Nat /\ left[r] \in Int
      /\ page[r] \in [host : Hosts \cup {NoHost}, hops : Nat]
      /\ pc = [pc EXCEPT ![r] = pc[r]] /\ at = [at EXCEPT ![r] = at[r]]
      /\ hops = [hops EXCEPT ![r] = hops[r]] /\ page = [page EXCEPT ![r] = page[r]]
  BY DEF GatewayTypes
<1>2. page[r] # NoPage => page[r].host \in Hosts /\ page[r].host \in kind[r].within
  BY DEF ClearedInv, RequestCleared, ReadsRobots
<1>3. Pause \in Int /\ MaxRedirects \in Nat
  BY GatewayAssumption
<1>4. Still(r)
  BY <1>3 DEF GatewayTypes, Still, hostVars, Clear, ReadRules, TryLater, Redirect, Ask
<1>5. CASE Clear(r)
  <2>1. PICK to \in {"robots", "connecting"} : to = IF AsksRobots(r) THEN "robots" ELSE "connecting"
    OBVIOUS
  <2>2. /\ pc' = [pc EXCEPT ![r] = to] /\ at' = [at EXCEPT ![r] = at[r]]
        /\ hops' = [hops EXCEPT ![r] = hops[r]] /\ page' = [page EXCEPT ![r] = page[r]]
        /\ UNCHANGED <<rules, delay, allowed>>
    BY <1>1, <1>5, <2>1 DEF Clear, hostVars
  <2>3. at[r] \in Hosts /\ (page[r] = NoPage => at[r] \in kind[r].within)
    BY <1>5 DEF Clear, OnLists, ReadsRobots
  <2>4. /\ to = "robots" => page[r] = NoPage
        /\ to = "connecting" => (page[r] = NoPage => ~kind[r].robots)
    BY <2>1 DEF AsksRobots, ReadsRobots
  <2>5. GoesOn(r)
    BY <1>1, <1>2, <2>2, <2>3, <2>4 DEF GoesOn, AnyHost
  <2> QED
    BY <1>4, <2>5 DEF Quietly
<1>6. CASE ReadRules(r)
  <2>1. at[r] \in Hosts /\ at[r] \in kind[r].within
    BY <1>6 DEF ReadRules, ClearedInv, RequestCleared, Checked
  <2>2. /\ pc' = [pc EXCEPT ![r] = "checking"] /\ at' = [at EXCEPT ![r] = at[r]]
        /\ hops' = [hops EXCEPT ![r] = 0] /\ page' = [page EXCEPT ![r] = [host |-> at[r], hops |-> hops[r]]]
        /\ UNCHANGED <<rules, delay, allowed>>
    BY <1>1, <1>6 DEF ReadRules
  <2>3. /\ [host |-> at[r], hops |-> hops[r]] \in [host : Hosts \cup {NoHost}, hops : Nat]
        /\ [host |-> at[r], hops |-> hops[r]].host = at[r]
    BY <1>1, <2>1
  <2>4. at[r] \in AnyHost
    BY <2>1 DEF AnyHost
  <2>5. GoesOn(r)
    BY <2>1, <2>2, <2>3, <2>4 DEF GoesOn
  <2> QED
    BY <1>4, <2>5 DEF Quietly
<1>7. CASE TryLater(r)
  <2>1. Cleared(r)
    BY <1>7 DEF TryLater, ClearedInv, RequestCleared
  <2>2. /\ pc' = [pc EXCEPT ![r] = "pausing"] /\ at' = [at EXCEPT ![r] = at[r]]
        /\ hops' = [hops EXCEPT ![r] = hops[r]] /\ page' = [page EXCEPT ![r] = page[r]]
        /\ UNCHANGED <<rules, delay, allowed>>
    BY <1>1, <1>7 DEF TryLater, hostVars
  <2>3. GoesOn(r)
    BY <1>1, <1>2, <2>1, <2>2 DEF GoesOn, Cleared, Checked, ReadsRobots, AnyHost
  <2> QED
    BY <1>4, <2>3 DEF Quietly
<1>8. ASSUME NEW h \in AnyHost, Redirect(r, h) \/ Ask(r, h) PROVE GoesOn(r)
  <2>1. PICK n \in Nat : n = hops[r] + 1
    BY <1>1
  <2>2. /\ pc' = [pc EXCEPT ![r] = "checking"] /\ at' = [at EXCEPT ![r] = h]
        /\ hops' = [hops EXCEPT ![r] = n] \/ hops' = [hops EXCEPT ![r] = hops[r]]
        /\ page' = [page EXCEPT ![r] = page[r]]
        /\ UNCHANGED <<rules, delay, allowed>>
    BY <1>1, <1>8, <2>1 DEF Redirect, Ask, hostVars
  <2> QED
    BY <1>1, <1>2, <2>2 DEF GoesOn
<1> QED
  BY <1>4, <1>5, <1>6, <1>7, <1>8 DEF Quietly

LEMMA EndingIsQuiet ==
  ASSUME GatewayTypes, ClearedInv, NEW r \in Requests,
         Refuse(r) \/ KnowRules(r) \/ Fail(r) \/ Succeed(r) \/ RefuseRedirect(r)
  PROVE  Quietly(r)
<1>1. Still(r)
  BY DEF GatewayTypes, Still, hostVars, Refuse, KnowRules, Fail, Succeed, RefuseRedirect
<1>2. CASE Refuse(r) \/ Fail(r) \/ RefuseRedirect(r)
  <2>1. PICK e : Failed(r, e)
    BY <1>2 DEF Refuse, Fail, RefuseRedirect
  <2> QED
    BY <1>1, <2>1, FailedEnds DEF Quietly
<1>3. CASE KnowRules(r)
  <2>1. at[r] \in Hosts /\ at[r] \in kind[r].within /\ hops[r] \in Nat
    BY <1>3 DEF KnowRules, ClearedInv, RequestCleared, Checked, GatewayTypes
  <2>2. PICK h \in Hosts : h = at[r]
    BY <2>1
  <2>3. rules[h] = "allows" => h \in allowed
    BY DEF ClearedInv
  <2>4. JudgedBy(r, h, hops[r], rules[h]) /\ UNCHANGED <<rules, delay, allowed>>
    BY <1>3, <2>2 DEF KnowRules, hostVars
  <2>5. Ends(r)
    BY <2>1, <2>2, <2>3, <2>4, JudgedEnds
  <2> QED
    BY <1>1, <2>5 DEF Quietly
<1>4. CASE Succeed(r)
  <2>1. CASE ReadsRobots(r)
    <3>1. PICK v \in Verdicts, crawl \in Nat : Learn(r, v, crawl)
      BY <1>4, <2>1, GatewayAssumption DEF Succeed, RobotsVerdicts, Verdicts
    <3> QED
      BY <1>1, <2>1, <3>1, LearnEnds DEF Quietly
  <2>2. CASE ~ReadsRobots(r)
    BY <1>1, <1>4, <2>2, FinishEnds DEF Succeed, Quietly
  <2> QED
    BY <2>1, <2>2
<1> QED
  BY <1>2, <1>3, <1>4

\* Whatever leaves the starts alone, and takes no host's distance away.
LEMMA QuietSpaced ==
  ASSUME GatewayTypes, GatewayTypes', SpacedInv, NEW r \in Requests, Still(r), pc'[r] # "asleep",
         \A q \in Requests \ {r} : pc'[q] = pc[q] /\ at'[q] = at[q],
         \A h \in Hosts : delay'[h] = 0 => delay[h] = 0
  PROVE  SpacedInv'
<1>1. Interval \in [Hosts -> Nat]
  BY GatewayAssumption
<1>2. ASSUME NEW q \in Requests, Asleep(q)'
      PROVE  Asleep(q) /\ q # r /\ at'[q] = at[q] /\ left'[q] = left[q]
  BY <1>2 DEF Asleep, Still
<1>3. due' = due /\ owed' = owed /\ pace' = pace
  BY DEF Still
<1>4. ASSUME NEW q \in Requests, Asleep(q)' PROVE SleeperFits(q)'
  BY <1>2, <1>3, <1>4 DEF SpacedInv, SleeperFits
<1>5. ASSUME NEW p \in Requests, NEW q \in Requests, p # q, Asleep(p)', Asleep(q)', at'[p] = at'[q]
      PROVE  InLine(p, q)'
  BY <1>2, <1>3, <1>5 DEF SpacedInv, InLine
<1>6. ASSUME NEW h \in Hosts PROVE owed'[h] <= due'[h] /\ (SpaceFor(h)' = 0 => due'[h] = 0)
  <2>1. delay[h] \in Nat /\ delay'[h] \in Nat /\ Interval[h] \in Nat
    BY <1>1 DEF GatewayTypes
  <2>2. SpaceFor(h)' = 0 => SpaceFor(h) = 0
    BY <2>1 DEF SpaceFor, Larger
  <2> QED
    BY <1>3, <2>2 DEF SpacedInv
<1> QED
  BY <1>4, <1>5, <1>6 DEF SpacedInv

-----------------------------------------------------------------------------
\* The steps that reserve a start, or make one

\* Who stays at its host, kept to the lists, with every other request where it was.
Stays(r) ==
  /\ UNCHANGED <<kind, at, hops, page, rules, delay, allowed>>
  /\ \A q \in Requests \ {r} : pc'[q] = pc[q] /\ left'[q] = left[q] /\ pace'[q] = pace[q]

LEMMA StaysCleared ==
  ASSUME GatewayTypes, ClearedInv, NEW r \in Requests, Stays(r),
         Cleared(r), ReadsRobots(r) => page[r].host \in Hosts /\ page[r].host \in kind[r].within,
         pc'[r] # "robots"
  PROVE  ClearedInv'
<1>1. \A q \in Requests : (Cleared(q)' <=> Cleared(q)) /\ (Checked(q)' <=> Checked(q)) /\ (ReadsRobots(q)' <=> ReadsRobots(q))
  BY DEF Stays, Cleared, Checked, ReadsRobots
<1>2. kind' = kind /\ page' = page /\ rules' = rules /\ allowed' = allowed
  BY DEF Stays
<1>3. \A q \in Requests : RequestCleared(q)'
  BY <1>1, <1>2 DEF Stays, ClearedInv, RequestCleared
<1> QED
  BY <1>2, <1>3 DEF ClearedInv

LEMMA SpaceKeeps ==
  ASSUME GatewayTypes, ClearedInv, SpacedInv, NEW r \in Requests, pc[r] \in {"connecting", "pausing"}, Space(r)
  PROVE  /\ GatewayTypes' /\ ClearedInv' /\ SpacedInv' /\ Stays(r) /\ pc'[r] \in {"asleep", "open"}
         /\ pc'[r] = "open" => owed[at[r]] = 0
<1>1. Cleared(r)
  BY DEF ClearedInv, RequestCleared
<1>2. PICK h \in Hosts : h = at[r]
  BY <1>1 DEF Cleared, Checked
<1>3. Interval \in [Hosts -> Nat] /\ MaxLate \in Nat /\ Hosts \cap Requests = {}
  BY GatewayAssumption
<1>4. PICK n \in Nat : n = SpaceFor(h)
  BY <1>3 DEF SpaceFor, Larger, GatewayTypes
<1>5. PICK d \in Nat : d = due[h]
  BY DEF GatewayTypes
<1>6. PICK o \in Nat : o = owed[h]
  BY DEF GatewayTypes
<1>7. o <= d /\ (n = 0 => d = 0)
  BY <1>4, <1>5, <1>6 DEF SpacedInv
<1>8. Stays(r)
  BY DEF Space, Stays, GatewayTypes
<1>9. \A g \in Hosts : SpaceFor(g)' = SpaceFor(g)
  BY <1>8 DEF Stays, SpaceFor
<1>10. \A q \in Requests : Asleep(q) /\ at[q] = h =>
         pace[q] > 0 /\ left[q] >= -MaxLate /\ left[q] + pace[q] <= d /\ owed[q] <= Larger(left[q], 0)
  BY <1>5 DEF SpacedInv, SleeperFits
<1>11. ~Asleep(r)
  BY DEF Asleep
<1>12. CASE ~(n > 0 /\ d > 0)
  <2>1. /\ pc' = [pc EXCEPT ![r] = "open"] /\ left' = [left EXCEPT ![r] = 0] /\ pace' = [pace EXCEPT ![r] = 0]
        /\ due' = [due EXCEPT ![h] = IF n = 0 THEN d ELSE d + n]
        /\ owed' = [owed EXCEPT ![h] = Larger(o, n - MaxLate)]
    BY <1>2, <1>4, <1>5, <1>6, <1>12 DEF Space, NextDue
  <2>2. d = 0 /\ o = 0
    BY <1>7, <1>12
  <2>3. PICK w \in Nat : w = Larger(o, n - MaxLate)
    <3>1. Larger(o, n - MaxLate) \in Nat
      BY <1>3 DEF Larger
    <3> QED
      BY <3>1
  <2>4. w <= n
    BY <1>3, <2>2, <2>3 DEF Larger
  <2>5. PICK e \in Nat : e = IF n = 0 THEN d ELSE d + n
    OBVIOUS
  <2>6. e = n
    BY <2>2, <2>5
  <2>7. due' = [due EXCEPT ![h] = e] /\ owed' = [owed EXCEPT ![h] = w]
    BY <2>1, <2>3, <2>5
  <2>8. GatewayTypes'
    BY <1>8, <2>1, <2>7 DEF GatewayTypes, Stays
  <2>9. pc'[r] = "open"
    BY <2>1 DEF GatewayTypes
  <2>10. ClearedInv'
    BY <1>1, <1>8, <2>9, StaysCleared DEF ClearedInv, RequestCleared
  <2>11. ASSUME NEW q \in Requests, Asleep(q)'
         PROVE  /\ q # r /\ Asleep(q) /\ at'[q] = at[q] /\ left'[q] = left[q] /\ pace'[q] = pace[q] /\ owed'[q] = owed[q]
    BY <1>3, <1>8, <2>7, <2>9, <2>11 DEF Asleep, Stays, GatewayTypes
  <2>12. ASSUME NEW q \in Requests, Asleep(q)' PROVE SleeperFits(q)'
    <3>1. SleeperFits(q) /\ left[q] \in Int /\ pace[q] \in Nat
      BY <2>11, <2>12 DEF SpacedInv, GatewayTypes
    <3>2. CASE at[q] = h
      <4>1. left[q] + pace[q] <= 0 /\ due'[h] = e
        BY <1>5, <2>2, <2>7, <3>1, <3>2 DEF SleeperFits, GatewayTypes
      <4> QED
        BY <2>11, <2>12, <3>1, <3>2, <4>1 DEF SleeperFits
    <3>3. CASE at[q] # h
      <4>1. due'[at[q]] = due[at[q]]
        BY <2>7, <3>1, <3>3, <2>11, <2>12 DEF ClearedInv, RequestCleared, Cleared, Checked, Asleep, GatewayTypes
      <4> QED
        BY <2>11, <2>12, <3>1, <4>1 DEF SleeperFits
    <3> QED
      BY <3>2, <3>3
  <2>13. ASSUME NEW p \in Requests, NEW q \in Requests, p # q, Asleep(p)', Asleep(q)', at'[p] = at'[q]
         PROVE  InLine(p, q)'
    BY <2>11, <2>13 DEF SpacedInv, InLine
  <2>14. ASSUME NEW g \in Hosts PROVE owed'[g] <= due'[g] /\ (SpaceFor(g)' = 0 => due'[g] = 0)
    <3>1. CASE g = h
      BY <1>4, <1>9, <2>4, <2>6, <2>7, <3>1 DEF GatewayTypes
    <3>2. CASE g # h
      BY <1>9, <2>7, <3>2 DEF SpacedInv, GatewayTypes
    <3> QED
      BY <3>1, <3>2
  <2> QED
    BY <1>2, <1>6, <1>8, <2>2, <2>8, <2>9, <2>10, <2>12, <2>13, <2>14 DEF SpacedInv
<1>13. CASE n > 0 /\ d > 0
  <2>1. /\ pc' = [pc EXCEPT ![r] = "asleep"] /\ left' = [left EXCEPT ![r] = d] /\ pace' = [pace EXCEPT ![r] = n]
        /\ due' = [due EXCEPT ![h] = d + n] /\ owed' = [owed EXCEPT ![r] = o]
    <3>1. SpaceFor(at[r]) = n /\ due[at[r]] = d /\ owed[at[r]] = o /\ at[r] = h /\ n # 0
      BY <1>2, <1>4, <1>5, <1>6, <1>13
    <3>2. pc' = [pc EXCEPT ![r] = "asleep"] /\ left' = [left EXCEPT ![r] = d] /\ pace' = [pace EXCEPT ![r] = n]
      BY <1>13, <3>1 DEF Space
    <3>3. owed' = [owed EXCEPT ![r] = o]
      BY <1>13, <3>1 DEF Space
    <3>4. due' = [due EXCEPT ![h] = d + n]
      BY <1>13, <3>1 DEF Space, NextDue
    <3> QED
      BY <3>2, <3>3, <3>4
  <2>2. d + n \in Nat
    OBVIOUS
  <2>3. GatewayTypes'
    BY <1>8, <2>1, <2>2 DEF GatewayTypes, Stays
  <2>4. /\ pc'[r] = "asleep" /\ left'[r] = d /\ pace'[r] = n /\ due'[h] = d + n /\ owed'[r] = o /\ at'[r] = h
        /\ \A q \in Requests \ {r} : owed'[q] = owed[q]
        /\ \A g \in Hosts : owed'[g] = owed[g] /\ (g # h => due'[g] = due[g])
    BY <1>2, <1>3, <1>8, <2>1 DEF GatewayTypes, Stays
  <2>5. ClearedInv'
    BY <1>1, <1>8, <2>4, StaysCleared DEF ClearedInv, RequestCleared
  <2>6. ASSUME NEW q \in Requests, q # r, Asleep(q)'
        PROVE  Asleep(q) /\ at'[q] = at[q] /\ left'[q] = left[q] /\ pace'[q] = pace[q] /\ owed'[q] = owed[q]
               /\ at[q] \in Hosts
    BY <1>8, <2>4, <2>6 DEF Asleep, Stays, ClearedInv, RequestCleared, Cleared, Checked
  <2>7. SleeperFits(r)'
    <3>1. o <= Larger(d, 0)
      BY <1>7 DEF Larger
    <3> QED
      BY <1>3, <1>7, <1>13, <2>4, <3>1 DEF SleeperFits, Larger
  <2>8. ASSUME NEW q \in Requests, q # r, Asleep(q)' PROVE SleeperFits(q)'
    <3>1. SleeperFits(q) /\ left[q] \in Int /\ pace[q] \in Nat /\ due[at[q]] \in Nat
      BY <2>6, <2>8 DEF SpacedInv, GatewayTypes
    <3>2. due'[at[q]] >= due[at[q]] /\ due'[at[q]] \in Nat
      <4>1. CASE at[q] = h
        BY <1>5, <2>4, <4>1
      <4>2. CASE at[q] # h
        BY <2>4, <2>6, <2>8, <3>1, <4>2
      <4> QED
        BY <4>1, <4>2
    <3> QED
      BY <2>6, <2>8, <3>1, <3>2 DEF SleeperFits
  <2>9. ASSUME NEW q \in Requests, q # r, Asleep(q)', at'[q] = h PROVE InLine(q, r)' /\ InLine(r, q)'
    BY <1>10, <2>4, <2>6, <2>9 DEF InLine
  <2>10. ASSUME NEW p \in Requests, NEW q \in Requests, p # q, Asleep(p)', Asleep(q)', at'[p] = at'[q]
         PROVE  InLine(p, q)'
    <3>1. CASE p = r \/ q = r
      BY <2>4, <2>9, <2>10, <3>1
    <3>2. CASE p # r /\ q # r
      BY <2>6, <2>10, <3>2 DEF SpacedInv, InLine
    <3> QED
      BY <3>1, <3>2
  <2>11. ASSUME NEW g \in Hosts PROVE owed'[g] <= due'[g] /\ (SpaceFor(g)' = 0 => due'[g] = 0)
    <3>1. CASE g = h
      BY <1>4, <1>6, <1>7, <1>9, <1>13, <2>4, <3>1
    <3>2. CASE g # h
      BY <1>9, <2>4, <3>2 DEF SpacedInv
    <3> QED
      BY <3>1, <3>2
  <2> QED
    BY <1>8, <2>3, <2>4, <2>5, <2>7, <2>8, <2>10, <2>11 DEF SpacedInv
<1> QED
  BY <1>12, <1>13

LEMMA StartKeeps ==
  ASSUME GatewayTypes, ClearedInv, SpacedInv, NEW r \in Requests, Start(r)
  PROVE  /\ GatewayTypes' /\ ClearedInv' /\ SpacedInv' /\ Stays(r) /\ pc'[r] = "open" /\ pc[r] = "asleep"
         /\ owed[r] = 0
<1>1. MaxLate \in Nat /\ Hosts \cap Requests = {}
  BY GatewayAssumption
<1>2. /\ pc[r] = "asleep" /\ left[r] <= 0 /\ Cleared(r) /\ Asleep(r) /\ SleeperFits(r)
      /\ ReadsRobots(r) => page[r].host \in Hosts /\ page[r].host \in kind[r].within
  BY DEF Start, ClearedInv, RequestCleared, SpacedInv, Asleep
<1>3. PICK h \in Hosts : h = at[r]
  BY <1>2 DEF Cleared, Checked
<1>4. PICK l \in Int, n \in Nat : l = left[r] /\ n = pace[r]
  BY DEF GatewayTypes
<1>5. l <= 0 /\ l >= -MaxLate /\ l + n <= due[h] /\ n > 0 /\ owed[r] <= Larger(l, 0)
  BY <1>2, <1>3, <1>4 DEF SleeperFits
<1>6. owed[r] = 0
  BY <1>4, <1>5 DEF Larger, GatewayTypes
<1>7. Stays(r)
  BY DEF Start, Stays, GatewayTypes
<1>8. pc'[r] = "open"
  BY DEF Start, GatewayTypes
<1>9. ClearedInv'
  BY <1>2, <1>7, <1>8, StaysCleared
<1>10. ASSUME NEW x \in Hosts \cup Requests
       PROVE  /\ owed'[x] = IF x = r THEN 0 ELSE IF x \in After(r) THEN Larger(owed[x], n - MaxLate) ELSE owed[x]
              /\ owed'[x] \in Nat
  BY <1>1, <1>4, <1>10 DEF Start, GatewayTypes, Larger
<1>11. owed' \in [Hosts \cup Requests -> Nat]
  BY <1>10 DEF Start
<1>12. GatewayTypes'
  <2>1. pc' = [pc EXCEPT ![r] = "open"] /\ left' = [left EXCEPT ![r] = 0] /\ pace' = [pace EXCEPT ![r] = 0] /\ due' = due
    BY DEF Start
  <2> QED
    BY <1>7, <1>11, <2>1 DEF GatewayTypes, Stays
<1>13. due' = due /\ \A g \in Hosts : SpaceFor(g)' = SpaceFor(g)
  BY <1>7 DEF Start, Stays, SpaceFor
<1>14. ASSUME NEW q \in Requests, Asleep(q)'
       PROVE  q # r /\ Asleep(q) /\ at'[q] = at[q] /\ left'[q] = left[q] /\ pace'[q] = pace[q] /\ SleeperFits(q)
              /\ left[q] \in Int /\ pace[q] \in Nat /\ owed[q] \in Nat
  BY <1>7, <1>8, <1>14 DEF Asleep, Stays, SpacedInv, GatewayTypes
<1>15. ASSUME NEW q \in Requests, Asleep(q)' PROVE SleeperFits(q)'
  <2>1. CASE q \in After(r)
    <3>1. at[q] = h /\ left[q] > l
      BY <1>1, <1>3, <1>4, <1>15, <2>1 DEF After
    <3>2. InLine(q, r)
      BY <1>2, <1>3, <1>14, <1>15, <3>1 DEF SpacedInv
    <3>3. l + n <= left[q]
      BY <1>4, <1>14, <1>15, <3>1, <3>2 DEF InLine
    <3>4. Larger(owed[q], n - MaxLate) <= Larger(left[q], 0)
      BY <1>1, <1>5, <1>14, <1>15, <3>3 DEF SleeperFits, Larger
    <3>5. owed'[q] = Larger(owed[q], n - MaxLate)
      BY <1>10, <1>14, <1>15, <2>1
    <3> QED
      BY <1>13, <1>14, <1>15, <3>4, <3>5 DEF SleeperFits
  <2>2. CASE q \notin After(r)
    BY <1>10, <1>13, <1>14, <1>15, <2>2 DEF SleeperFits
  <2> QED
    BY <2>1, <2>2
<1>16. ASSUME NEW p \in Requests, NEW q \in Requests, p # q, Asleep(p)', Asleep(q)', at'[p] = at'[q]
       PROVE  InLine(p, q)'
  BY <1>14, <1>16 DEF SpacedInv, InLine
<1>17. ASSUME NEW g \in Hosts PROVE owed'[g] <= due'[g] /\ (SpaceFor(g)' = 0 => due'[g] = 0)
  <2>1. owed[g] <= due[g] /\ (SpaceFor(g) = 0 => due[g] = 0) /\ owed[g] \in Nat /\ due[g] \in Nat
    BY DEF SpacedInv, GatewayTypes
  <2>2. CASE g = h
    BY <1>1, <1>5, <1>10, <1>13, <2>1, <2>2 DEF Larger
  <2>3. CASE g # h
    BY <1>1, <1>3, <1>10, <1>13, <2>1, <2>3 DEF After
  <2> QED
    BY <2>2, <2>3
<1> QED
  BY <1>2, <1>6, <1>7, <1>8, <1>9, <1>12, <1>15, <1>16, <1>17 DEF SpacedInv

\* A tick takes one from every wait, from every host and from whatever is owed.
LEMMA TickKeeps ==
  ASSUME GatewayTypes, ClearedInv, SpacedInv, NEW also, GatewayTickWith(also)
  PROVE  GatewayTypes' /\ ClearedInv' /\ SpacedInv'
<1>1. MaxLate \in Nat /\ Hosts \cap Requests = {}
  BY GatewayAssumption
<1>2. UNCHANGED <<kind, pc, at, hops, page, pace, rules, delay, allowed>>
  BY DEF GatewayTickWith
<1>3. \A h \in Hosts : due'[h] = Larger(due[h] - 1, 0) /\ due[h] \in Nat /\ due'[h] \in Nat
  BY DEF GatewayTickWith, GatewayTypes, Larger
<1>4. \A x \in Hosts \cup Requests : owed'[x] = Larger(owed[x] - 1, 0) /\ owed[x] \in Nat /\ owed'[x] \in Nat
  BY DEF GatewayTickWith, GatewayTypes, Larger
<1>5. GatewayTypes'
  <2>1. due' \in [Hosts -> Nat] /\ owed' \in [Hosts \cup Requests -> Nat]
    BY <1>3, <1>4 DEF GatewayTickWith
  <2>2. left' \in [Requests -> Int]
    BY DEF GatewayTickWith, GatewayTypes
  <2> QED
    BY <1>2, <2>1, <2>2 DEF GatewayTypes
<1>6. ClearedInv'
  BY <1>2 DEF ClearedInv, RequestCleared, Cleared, Checked, ReadsRobots
<1>7. ASSUME NEW q \in Requests, Asleep(q)'
      PROVE  /\ Asleep(q) /\ at'[q] = at[q] /\ pace'[q] = pace[q] /\ left'[q] = left[q] - 1 /\ left[q] > -MaxLate
             /\ SleeperFits(q) /\ left[q] \in Int /\ pace[q] \in Nat /\ at[q] \in Hosts
  BY <1>2, <1>7 DEF GatewayTickWith, Sleeping, Asleep, SpacedInv, GatewayTypes, ClearedInv, RequestCleared, Cleared, Checked
<1>8. ASSUME NEW q \in Requests, Asleep(q)' PROVE SleeperFits(q)'
  <2>1. due'[at[q]] = Larger(due[at[q]] - 1, 0) /\ due[at[q]] \in Nat
    BY <1>3, <1>7, <1>8
  <2>2. owed'[q] = Larger(owed[q] - 1, 0) /\ owed[q] \in Nat
    BY <1>4, <1>8
  <2>3. owed'[q] <= Larger(left'[q], 0)
    BY <1>7, <1>8, <2>2 DEF SleeperFits, Larger
  <2>4. left'[q] + pace'[q] <= due'[at'[q]]
    BY <1>7, <1>8, <2>1 DEF SleeperFits, Larger
  <2> QED
    BY <1>1, <1>7, <1>8, <2>3, <2>4 DEF SleeperFits
<1>9. ASSUME NEW p \in Requests, NEW q \in Requests, p # q, Asleep(p)', Asleep(q)', at'[p] = at'[q]
      PROVE  InLine(p, q)'
  BY <1>7, <1>9 DEF SpacedInv, InLine
<1>10. ASSUME NEW h \in Hosts PROVE owed'[h] <= due'[h] /\ (SpaceFor(h)' = 0 => due'[h] = 0)
  <2>1. SpaceFor(h)' = SpaceFor(h)
    BY <1>2 DEF SpaceFor
  <2>2. owed[h] <= due[h] /\ (SpaceFor(h) = 0 => due[h] = 0)
    BY DEF SpacedInv
  <2>3. due'[h] = Larger(due[h] - 1, 0) /\ owed'[h] = Larger(owed[h] - 1, 0) /\ due[h] \in Nat /\ owed[h] \in Nat
    BY <1>3, <1>4
  <2> QED
    BY <2>1, <2>2, <2>3 DEF Larger
<1> QED
  BY <1>5, <1>6, <1>8, <1>9, <1>10 DEF SpacedInv

LEMMA ExpireKeeps ==
  ASSUME GatewayTypes, ClearedInv, SpacedInv, NEW h \in Hosts, Expire(h)
  PROVE  GatewayTypes' /\ ClearedInv' /\ SpacedInv'
<1>1. /\ UNCHANGED <<kind, pc, at, hops, page, left, pace, due, delay, allowed, owed>>
      /\ rules' = [rules EXCEPT ![h] = "unread"]
  BY DEF Expire, requestVars
<1>2. GatewayTypes'
  BY <1>1 DEF GatewayTypes, Verdicts
<1>3. ClearedInv'
  BY <1>1 DEF GatewayTypes, ClearedInv, RequestCleared, Cleared, Checked, ReadsRobots
<1>4. SpacedInv'
  BY <1>1 DEF SpacedInv, Asleep, SleeperFits, InLine, SpaceFor
<1> QED
  BY <1>2, <1>3, <1>4

\* A wait that is no start leaves lists and starts alone.
LEMMA WaitKeeps ==
  ASSUME GatewayTypes, ClearedInv, SpacedInv, NEW r \in Requests, pc[r] = "idle",
         UNCHANGED <<kind, pc, at, hops, page, pace, due, rules, delay, allowed, owed>>,
         left' \in [Requests -> Int], \A q \in Requests \ {r} : left'[q] = left[q]
  PROVE  GatewayTypes' /\ ClearedInv' /\ SpacedInv'
<1>1. GatewayTypes'
  BY DEF GatewayTypes
<1>2. ClearedInv'
  BY DEF ClearedInv, RequestCleared, Cleared, Checked, ReadsRobots
<1>3. \A q \in Requests : Asleep(q)' => Asleep(q) /\ left'[q] = left[q]
  BY DEF Asleep
<1>4. SpacedInv'
  BY <1>3 DEF SpacedInv, SleeperFits, InLine, SpaceFor
<1> QED
  BY <1>1, <1>2, <1>4

-----------------------------------------------------------------------------
\* Slots

\* A step of the gateway proper is a step of a request that waits for no slot.
LEMMA ProceedsOutside ==
  ASSUME GatewayTypes, SlotTypes, SlotInv, NEW r \in Requests, desk[r] \notin {"asked", "connected", "missed", "asleep"},
         UNCHANGED <<kind, geocoderVars>>, \A q \in Requests \ {r} : pc'[q] = pc[q] /\ left'[q] = left[q]
  PROVE  SlotTypes' /\ SlotInv'
<1>1. UNCHANGED <<desk, slot, passed, early>> /\ Lookups' = Lookups
  BY DEF geocoderVars, Lookups
<1>2. \A q \in Requests : Waits(q)' => q # r /\ Waits(q) /\ left'[q] = left[q]
  BY <1>1 DEF Waits
<1>3. SlotTypes'
  BY <1>1 DEF SlotTypes
<1>4. ASSUME NEW q \in Requests
      PROVE  /\ desk'[q] \in {"asked", "connected", "missed", "asleep"} => pc'[q] = "idle"
             /\ desk'[q] # "none" => q \in Lookups'
             /\ Waits(q)' => left'[q] >= -MaxLate /\ left'[q] + SlotTicks <= slot'
  BY <1>1, <1>2 DEF SlotInv
<1>5. ASSUME NEW p \in Requests, NEW q \in Requests, p # q, Waits(p)', Waits(q)'
      PROVE  left'[p] + SlotTicks <= left'[q] \/ left'[q] + SlotTicks <= left'[p]
  BY <1>2, <1>5 DEF SlotInv
<1>6. passed'.handed >= SlotTicks - MaxLate \/ LeftToAll(SlotTicks - MaxLate - passed.handed)'
  BY <1>1, <1>2 DEF SlotInv, LeftToAll
<1>7. passed'.push >= PushBack \/ LeftToLater(PushBack - passed.push)'
  BY <1>1, <1>2 DEF SlotInv, LeftToLater
<1> QED
  BY <1>1, <1>3, <1>4, <1>5, <1>6, <1>7 DEF SlotInv

\* A lookup that goes on without a slot, or leaves its own.
LEMMA DeskMoves ==
  ASSUME GatewayTypes, SlotTypes, SlotInv, NEW r \in Requests, r \in Lookups,
         NEW d \in {"connected", "missed", "handed", "over"}, desk' = [desk EXCEPT ![r] = d],
         kind' = kind, \A q \in Requests \ {r} : pc'[q] = pc[q] /\ left'[q] = left[q],
         d \in {"connected", "missed"} => pc'[r] = "idle",
         UNCHANGED <<slot, passed, early>>
  PROVE  SlotTypes' /\ SlotInv'
<1>1. desk'[r] = d /\ (\A q \in Requests \ {r} : desk'[q] = desk[q]) /\ Lookups' = Lookups
  BY DEF SlotTypes, Lookups
<1>2. \A q \in Requests : Waits(q)' => q # r /\ Waits(q) /\ left'[q] = left[q]
  BY <1>1 DEF Waits
<1>3. SlotTypes'
  BY DEF SlotTypes
<1>4. ASSUME NEW q \in Requests
      PROVE  /\ desk'[q] \in {"asked", "connected", "missed", "asleep"} => pc'[q] = "idle"
             /\ desk'[q] # "none" => q \in Lookups'
             /\ Waits(q)' => left'[q] >= -MaxLate /\ left'[q] + SlotTicks <= slot'
  BY <1>1, <1>2 DEF SlotInv
<1>5. ASSUME NEW p \in Requests, NEW q \in Requests, p # q, Waits(p)', Waits(q)'
      PROVE  left'[p] + SlotTicks <= left'[q] \/ left'[q] + SlotTicks <= left'[p]
  BY <1>2, <1>5 DEF SlotInv
<1>6. passed'.handed >= SlotTicks - MaxLate \/ LeftToAll(SlotTicks - MaxLate - passed.handed)'
  BY <1>2 DEF SlotInv, LeftToAll
<1>7. passed'.push >= PushBack \/ LeftToLater(PushBack - passed.push)'
  BY <1>2 DEF SlotInv, LeftToLater
<1> QED
  BY <1>3, <1>4, <1>5, <1>6, <1>7 DEF SlotInv

LEMMA ReserveKeeps ==
  ASSUME Inv, NEW r \in Requests, Reserve(r)
  PROVE  Inv'
<1>1. SlotTicks \in Nat /\ SlotTicks > 0 /\ MaxLate \in Nat /\ MaxWait \in Nat /\ PushBack \in Nat
  BY GatewayAssumption, GeocoderAssumption
<1>2. GatewayTypes /\ ClearedInv /\ SpacedInv /\ SlotTypes /\ SlotInv
  BY DEF Inv
<1>3. pc[r] = "idle" /\ r \in Lookups /\ ~Waits(r) /\ slot \in Nat
  BY <1>2 DEF Reserve, SlotInv, SlotTypes, Waits
<1>4. UNCHANGED <<kind, pc, at, hops, page, pace, due, rules, delay, allowed, owed, passed>>
  BY DEF Reserve, hostVars
<1>5. left' \in [Requests -> Int] /\ \A q \in Requests \ {r} : left'[q] = left[q]
  BY <1>2, <1>3 DEF Reserve, GatewayTypes
<1>6. GatewayTypes' /\ ClearedInv' /\ SpacedInv'
  BY <1>2, <1>3, <1>4, <1>5, WaitKeeps
<1>7. slot' = slot + SlotTicks /\ early' = early \ {r}
  BY DEF Reserve, Reserved
<1>8. /\ desk' \in [Requests -> {"none", "asked", "connected", "missed", "asleep", "handed", "over"}]
      /\ desk'[r] \in {"asleep", "over"} /\ \A q \in Requests \ {r} : desk'[q] = desk[q]
      /\ desk'[r] = "asleep" => left'[r] = slot
  BY <1>2 DEF Reserve, Answered, SlotTypes, GatewayTypes
<1>9. Lookups' = Lookups
  BY <1>4 DEF Lookups
<1>10. ASSUME NEW q \in Requests, Waits(q)'
       PROVE  left'[q] \in Int /\ (q = r => left'[q] = slot)
              /\ (q # r => Waits(q) /\ left'[q] = left[q] /\ left[q] >= -MaxLate /\ left[q] + SlotTicks <= slot)
  BY <1>2, <1>5, <1>8, <1>10 DEF Waits, SlotInv, GatewayTypes
<1>11. SlotTypes'
  BY <1>1, <1>2, <1>3, <1>4, <1>7, <1>8 DEF SlotTypes
<1>12. ASSUME NEW q \in Requests
       PROVE  /\ desk'[q] \in {"asked", "connected", "missed", "asleep"} => pc'[q] = "idle"
              /\ desk'[q] # "none" => q \in Lookups'
              /\ Waits(q)' => left'[q] >= -MaxLate /\ left'[q] + SlotTicks <= slot'
  <2>1. /\ desk'[q] \in {"asked", "connected", "missed", "asleep"} => pc'[q] = "idle"
        /\ desk'[q] # "none" => q \in Lookups'
    BY <1>2, <1>3, <1>4, <1>8, <1>9 DEF SlotInv
  <2>2. ASSUME Waits(q)' PROVE left'[q] >= -MaxLate /\ left'[q] + SlotTicks <= slot'
    BY <1>1, <1>3, <1>7, <1>10, <2>2
  <2> QED
    BY <2>1, <2>2
<1>13. ASSUME NEW p \in Requests, NEW q \in Requests, p # q, Waits(p)', Waits(q)'
       PROVE  left'[p] + SlotTicks <= left'[q] \/ left'[q] + SlotTicks <= left'[p]
  <2>1. CASE p = r \/ q = r
    BY <1>10, <1>13, <2>1
  <2>2. CASE p # r /\ q # r
    BY <1>2, <1>10, <1>13, <2>2 DEF SlotInv
  <2> QED
    BY <2>1, <2>2
<1>14. ASSUME NEW n \in Int, LeftToAll(n) PROVE LeftToAll(n)'
  BY <1>1, <1>3, <1>7, <1>10, <1>14 DEF LeftToAll
<1>15. ASSUME NEW n \in Int, LeftToLater(n) PROVE LeftToLater(n)'
  BY <1>1, <1>3, <1>7, <1>10, <1>15 DEF LeftToLater
<1>16. passed.handed \in Nat /\ passed.push \in Nat /\ passed' = passed
  BY <1>2, <1>4 DEF SlotTypes
<1>17. passed'.handed >= SlotTicks - MaxLate \/ LeftToAll(SlotTicks - MaxLate - passed.handed)'
  BY <1>1, <1>2, <1>14, <1>16 DEF SlotInv
<1>18. passed'.push >= PushBack \/ LeftToLater(PushBack - passed.push)'
  BY <1>1, <1>2, <1>15, <1>16 DEF SlotInv
<1>19. SlotInv'
  BY <1>12, <1>13, <1>16, <1>17, <1>18 DEF SlotInv
<1> QED
  BY <1>6, <1>11, <1>19 DEF Inv

\* Whoever is handed over has slept for its slot, so nobody else has a near one; a
\* neighbour due before it would have been kept waiting past any late wake.
LEMMA HandOverKeeps ==
  ASSUME Inv, NEW r \in Requests, NEW h \in AnyHost, HandOver(r, h)
  PROVE  /\ Inv' /\ Quietly(r)
         /\ passed.handed >= SlotTicks - MaxLate
         /\ r \in early \/ passed.push >= PushBack
<1>1. SlotTicks \in Nat /\ SlotTicks > 0 /\ MaxLate \in Nat /\ PushBack \in Nat
  BY GatewayAssumption, GeocoderAssumption
<1>2. GatewayTypes /\ ClearedInv /\ SpacedInv /\ SlotTypes /\ SlotInv
  BY DEF Inv
<1>3. Waits(r) /\ left[r] <= 0 /\ left[r] \in Int /\ left[r] >= -MaxLate /\ left[r] + SlotTicks <= slot /\ r \in Lookups
  BY <1>2 DEF HandOver, Waits, SlotInv, GatewayTypes
<1>4. passed.handed \in Nat /\ passed.push \in Nat /\ slot \in Nat
  BY <1>2 DEF SlotTypes
<1>5. passed.handed >= SlotTicks - MaxLate
  BY <1>1, <1>2, <1>3, <1>4 DEF SlotInv, LeftToAll
<1>6. r \in early \/ passed.push >= PushBack
  BY <1>1, <1>2, <1>3, <1>4 DEF SlotInv, LeftToLater
<1>7. Quietly(r) /\ GoesOn(r)
  BY <1>2, GoingOnIsQuiet DEF HandOver
<1>8. /\ GatewayTypes' /\ ClearedInv' /\ pc'[r] \notin {"asleep", "open", "idle"}
      /\ \A q \in Requests \ {r} : pc'[q] = pc[q] /\ at'[q] = at[q]
      /\ \A g \in Hosts : delay'[g] = 0 => delay[g] = 0
  <2>1. Still(r) /\ (Ends(r) \/ GoesOn(r))
    BY <1>7 DEF Quietly
  <2> QED
    BY <1>2, <2>1, EndsKeep
<1>9. SpacedInv'
  BY <1>2, <1>7, <1>8, QuietSpaced DEF Quietly
<1>10. kind' = kind /\ left' = left /\ slot' = slot /\ early' = early /\ passed' = [passed EXCEPT !.handed = 0]
       /\ desk' = [desk EXCEPT ![r] = "handed"]
  BY DEF HandOver, Ask
<1>11. desk'[r] = "handed" /\ (\A q \in Requests \ {r} : desk'[q] = desk[q]) /\ Lookups' = Lookups
  BY <1>2, <1>10 DEF SlotTypes, Lookups
<1>12. passed'.handed = 0 /\ passed'.push = passed.push /\ SlotTypes'
  BY <1>2, <1>10 DEF SlotTypes
<1>13. ASSUME NEW q \in Requests, Waits(q)' PROVE q # r /\ Waits(q) /\ left'[q] = left[q] /\ left[q] \in Int
  BY <1>2, <1>10, <1>11, <1>13 DEF Waits, GatewayTypes
<1>14. ASSUME NEW q \in Requests
       PROVE  /\ desk'[q] \in {"asked", "connected", "missed", "asleep"} => pc'[q] = "idle"
              /\ desk'[q] # "none" => q \in Lookups'
              /\ Waits(q)' => left'[q] >= -MaxLate /\ left'[q] + SlotTicks <= slot'
  BY <1>2, <1>3, <1>8, <1>10, <1>11, <1>13 DEF SlotInv
<1>15. ASSUME NEW p \in Requests, NEW q \in Requests, p # q, Waits(p)', Waits(q)'
       PROVE  left'[p] + SlotTicks <= left'[q] \/ left'[q] + SlotTicks <= left'[p]
  BY <1>2, <1>13, <1>15 DEF SlotInv
<1>16. ASSUME 0 < SlotTicks - MaxLate PROVE LeftToAll(SlotTicks - MaxLate)'
  <2>1. ASSUME NEW q \in Requests, Waits(q)' PROVE left'[q] >= SlotTicks - MaxLate
    <3>1. /\ left[q] + SlotTicks <= left[r] \/ left[r] + SlotTicks <= left[q]
          /\ left[q] >= -MaxLate
      BY <1>2, <1>3, <1>13, <2>1 DEF SlotInv
    <3> QED
      BY <1>1, <1>3, <1>13, <1>16, <2>1, <3>1
  <2> QED
    BY <1>1, <1>3, <1>4, <1>10, <2>1 DEF LeftToAll
<1>17. passed'.handed >= SlotTicks - MaxLate \/ LeftToAll(SlotTicks - MaxLate - passed.handed)'
  BY <1>1, <1>12, <1>16 DEF LeftToAll
<1>18. passed'.push >= PushBack \/ LeftToLater(PushBack - passed.push)'
  BY <1>2, <1>10, <1>12, <1>13 DEF SlotInv, LeftToLater
<1>19. SlotInv'
  BY <1>14, <1>15, <1>17, <1>18 DEF SlotInv
<1> QED
  BY <1>5, <1>6, <1>7, <1>8, <1>9, <1>12, <1>19 DEF Inv

\* Whoever waits when "429" comes had reserved before; the pointer is further than the push back for the rest.
LEMMA ToldToWaitKeeps ==
  ASSUME GatewayTypes, SlotTypes, SlotInv, NEW r \in Requests, ToldToWait(r)
  PROVE  SlotTypes' /\ SlotInv'
<1>1. PushBack \in Nat /\ MaxLate \in Nat /\ SlotTicks \in Nat
  BY GatewayAssumption, GeocoderAssumption
<1>2. UNCHANGED <<kind, pc, left>>
  BY DEF ToldToWait, gatewayVars, requestVars
<1>3. /\ desk' = [desk EXCEPT ![r] = "over"] /\ slot' = slot + PushBack /\ passed' = [passed EXCEPT !.push = 0]
      /\ early' = {q \in Lookups : desk[q] \in {"asleep", "handed"}}
  BY DEF ToldToWait, Answered, PushedBack
<1>4. slot \in Nat /\ passed.handed \in Nat /\ passed.push \in Nat
  BY DEF SlotTypes
<1>5. desk'[r] = "over" /\ (\A q \in Requests \ {r} : desk'[q] = desk[q]) /\ Lookups' = Lookups
  BY <1>2, <1>3 DEF SlotTypes, Lookups
<1>6. passed'.handed = passed.handed /\ passed'.push = 0 /\ SlotTypes'
  BY <1>1, <1>3, <1>4 DEF SlotTypes
<1>7. ASSUME NEW q \in Requests, Waits(q)'
      PROVE  q # r /\ Waits(q) /\ left'[q] = left[q] /\ left[q] \in Int /\ q \in early'
             /\ left[q] >= -MaxLate /\ left[q] + SlotTicks <= slot
  BY <1>2, <1>3, <1>5, <1>7 DEF Waits, GatewayTypes, SlotInv
<1>8. desk[r] = "handed"
  BY DEF ToldToWait
<1>9. ASSUME NEW q \in Requests
      PROVE  /\ desk'[q] \in {"asked", "connected", "missed", "asleep"} => pc'[q] = "idle"
             /\ desk'[q] # "none" => q \in Lookups'
             /\ Waits(q)' => left'[q] >= -MaxLate /\ left'[q] + SlotTicks <= slot'
  <2>1. /\ desk'[q] \in {"asked", "connected", "missed", "asleep"} => pc'[q] = "idle"
        /\ desk'[q] # "none" => q \in Lookups'
    BY <1>2, <1>5, <1>8 DEF SlotInv
  <2>2. ASSUME Waits(q)' PROVE left'[q] >= -MaxLate /\ left'[q] + SlotTicks <= slot'
    BY <1>1, <1>3, <1>4, <1>7, <2>2
  <2> QED
    BY <2>1, <2>2
<1>10. ASSUME NEW p \in Requests, NEW q \in Requests, p # q, Waits(p)', Waits(q)'
       PROVE  left'[p] + SlotTicks <= left'[q] \/ left'[q] + SlotTicks <= left'[p]
  BY <1>7, <1>10 DEF SlotInv
<1>11. passed'.handed >= SlotTicks - MaxLate \/ LeftToAll(SlotTicks - MaxLate - passed.handed)'
  <2>1. ASSUME NEW n \in Int, LeftToAll(n) PROVE LeftToAll(n)'
    BY <1>1, <1>3, <1>4, <1>7, <2>1 DEF LeftToAll
  <2> QED
    BY <1>1, <1>4, <1>6, <2>1 DEF SlotInv
<1>12. LeftToLater(PushBack - passed.push)'
  BY <1>1, <1>3, <1>4, <1>6, <1>7 DEF LeftToLater
<1> QED
  BY <1>6, <1>9, <1>10, <1>11, <1>12 DEF SlotInv

LEMMA SlotTickKeeps ==
  ASSUME GatewayTypes, SlotTypes, SlotInv, Tick
  PROVE  SlotTypes' /\ SlotInv'
<1>1. SlotTicks \in Nat /\ MaxLate \in Nat /\ PushBack \in Nat
  BY GatewayAssumption, GeocoderAssumption
<1>2. UNCHANGED <<kind, pc, desk, early>> /\ slot' = Larger(slot - 1, 0)
      /\ passed' = [handed |-> Aged(passed.handed, SlotTicks), push |-> Aged(passed.push, PushBack)]
  BY DEF Tick, GatewayTickWith
<1>3. slot \in Nat /\ passed.handed \in Nat /\ passed.push \in Nat
  BY DEF SlotTypes
<1>4. slot' \in Nat /\ slot' >= slot - 1
  BY <1>2, <1>3 DEF Larger
<1>5. /\ passed'.handed \in Nat /\ passed'.push \in Nat
      /\ passed'.handed >= SlotTicks \/ passed'.handed = passed.handed + 1
      /\ passed'.push >= PushBack \/ passed'.push = passed.push + 1
  BY <1>1, <1>2, <1>3 DEF Aged
<1>6. SlotTypes'
  BY <1>1, <1>2, <1>4, <1>5 DEF SlotTypes
<1>7. ASSUME NEW q \in Requests, Waits(q)'
      PROVE  /\ Waits(q) /\ left'[q] = left[q] - 1 /\ left[q] \in Int /\ left[q] > -MaxLate
             /\ left[q] + SlotTicks <= slot
  BY <1>2, <1>7 DEF Waits, Tick, GatewayTickWith, GatewayTypes, SlotInv
<1>8. Lookups' = Lookups
  BY <1>2 DEF Lookups
<1>9. ASSUME NEW q \in Requests
      PROVE  /\ desk'[q] \in {"asked", "connected", "missed", "asleep"} => pc'[q] = "idle"
             /\ desk'[q] # "none" => q \in Lookups'
             /\ Waits(q)' => left'[q] >= -MaxLate /\ left'[q] + SlotTicks <= slot'
  <2>1. /\ desk'[q] \in {"asked", "connected", "missed", "asleep"} => pc'[q] = "idle"
        /\ desk'[q] # "none" => q \in Lookups'
    BY <1>2, <1>8 DEF SlotInv
  <2>2. ASSUME Waits(q)' PROVE left'[q] >= -MaxLate /\ left'[q] + SlotTicks <= slot'
    BY <1>1, <1>3, <1>4, <1>7, <2>2
  <2> QED
    BY <2>1, <2>2
<1>10. ASSUME NEW p \in Requests, NEW q \in Requests, p # q, Waits(p)', Waits(q)'
       PROVE  left'[p] + SlotTicks <= left'[q] \/ left'[q] + SlotTicks <= left'[p]
  <2>1. left[p] + SlotTicks <= left[q] \/ left[q] + SlotTicks <= left[p]
    BY <1>7, <1>10 DEF SlotInv
  <2> QED
    BY <1>1, <1>7, <1>10, <2>1
<1>11. passed'.handed >= SlotTicks - MaxLate \/ LeftToAll(SlotTicks - MaxLate - passed.handed)'
  <2>1. CASE passed'.handed >= SlotTicks \/ passed.handed >= SlotTicks - MaxLate
    BY <1>1, <1>3, <1>5, <2>1
  <2>2. CASE passed'.handed = passed.handed + 1 /\ LeftToAll(SlotTicks - MaxLate - passed.handed)
    BY <1>1, <1>3, <1>4, <1>7, <2>2 DEF LeftToAll
  <2> QED
    BY <1>5, <2>1, <2>2 DEF SlotInv
<1>12. passed'.push >= PushBack \/ LeftToLater(PushBack - passed.push)'
  <2>1. CASE passed'.push >= PushBack \/ passed.push >= PushBack
    BY <1>1, <1>3, <1>5, <2>1
  <2>2. CASE passed'.push = passed.push + 1 /\ LeftToLater(PushBack - passed.push)
    BY <1>1, <1>2, <1>3, <1>4, <1>7, <2>2 DEF LeftToLater
  <2> QED
    BY <1>5, <2>1, <2>2 DEF SlotInv
<1> QED
  BY <1>6, <1>9, <1>10, <1>11, <1>12 DEF SlotInv

-----------------------------------------------------------------------------
\* The invariant

LEMMA InitInv == ASSUME Init PROVE Inv
<1>1. GatewayTypes
  BY GatewayAssumption DEF Init, GatewayInit, GatewayTypes, NoPage, Verdicts
<1>2. ClearedInv
  BY DEF Init, GatewayInit, ClearedInv, RequestCleared, ReadsRobots
<1>3. SpacedInv
  BY DEF Init, GatewayInit, SpacedInv, Asleep
<1>4. SlotTypes
  BY GeocoderAssumption DEF Init, SlotTypes
<1>5. SlotInv
  BY GatewayAssumption, GeocoderAssumption DEF Init, GatewayInit, SlotInv, Waits
<1> QED
  BY <1>1, <1>2, <1>3, <1>4, <1>5 DEF Inv

\* What a step may do about starts and about hand-overs.
StartsWell ==
  \A r \in Requests : pc[r] # "open" /\ pc'[r] = "open" => owed[IF pc[r] = "asleep" THEN r ELSE at[r]] = 0

HandOversWell ==
  \A r \in Requests : desk[r] = "asleep" /\ desk'[r] = "handed" =>
    passed.handed >= SlotTicks - MaxLate /\ (r \in early \/ passed.push >= PushBack)

LEMMA ProceedKeeps ==
  ASSUME Inv, NEW r \in Requests, Proceed(r) \/ Plain(r), UNCHANGED geocoderVars
  PROVE  Inv' /\ StartsWell /\ HandOversWell
<1>1. GatewayTypes /\ ClearedInv /\ SpacedInv /\ SlotTypes /\ SlotInv
  BY DEF Inv
<1>2. desk[r] \notin {"asked", "connected", "missed", "asleep"}
  <2>1. CASE Proceed(r)
    <3>1. pc[r] # "idle"
      BY <2>1 DEF Proceed, Clear, Refuse, KnowRules, ReadRules, Connect, Start, TryLater, TryAgain, Fail, Succeed,
                  RefuseRedirect, Redirect
    <3> QED
      BY <1>1, <3>1 DEF SlotInv
  <2>2. CASE Plain(r)
    BY <1>1, <2>2 DEF Plain, SlotInv
  <2> QED
    BY <2>1, <2>2
<1>3. HandOversWell
  BY DEF HandOversWell, geocoderVars
<1>4. CASE Quietly(r)
  <2>1. Still(r) /\ (Ends(r) \/ GoesOn(r))
    BY <1>4 DEF Quietly
  <2>2. /\ GatewayTypes' /\ ClearedInv' /\ pc'[r] \notin {"asleep", "open", "idle"}
        /\ \A q \in Requests \ {r} : pc'[q] = pc[q] /\ at'[q] = at[q]
        /\ \A h \in Hosts : delay'[h] = 0 => delay[h] = 0
    BY <1>1, <2>1, EndsKeep
  <2>3. SpacedInv'
    BY <1>1, <2>1, <2>2, QuietSpaced
  <2>4. kind' = kind /\ \A q \in Requests \ {r} : left'[q] = left[q]
    BY <2>1 DEF Still
  <2>5. SlotTypes' /\ SlotInv'
    BY <1>1, <1>2, <2>2, <2>4, ProceedsOutside
  <2>6. StartsWell
    BY <2>2 DEF StartsWell
  <2> QED
    BY <1>3, <2>2, <2>3, <2>5, <2>6 DEF Inv
<1>5. CASE Connect(r) \/ TryAgain(r)
  <2>1. Space(r) /\ pc[r] \in {"connecting", "pausing"}
    BY <1>5 DEF Connect, TryAgain
  <2>2. /\ GatewayTypes' /\ ClearedInv' /\ SpacedInv' /\ Stays(r) /\ pc'[r] \in {"asleep", "open"}
        /\ pc'[r] = "open" => owed[at[r]] = 0
    BY <1>1, <2>1, SpaceKeeps
  <2>3. SlotTypes' /\ SlotInv'
    BY <1>1, <1>2, <2>2, ProceedsOutside DEF Stays
  <2>4. StartsWell
    BY <2>1, <2>2 DEF StartsWell, Stays
  <2> QED
    BY <1>3, <2>2, <2>3, <2>4 DEF Inv
<1>6. CASE Start(r)
  <2>1. GatewayTypes' /\ ClearedInv' /\ SpacedInv' /\ Stays(r) /\ pc'[r] = "open" /\ pc[r] = "asleep" /\ owed[r] = 0
    BY <1>1, <1>6, StartKeeps
  <2>2. SlotTypes' /\ SlotInv'
    BY <1>1, <1>2, <2>1, ProceedsOutside DEF Stays
  <2>3. StartsWell
    BY <2>1 DEF StartsWell, Stays
  <2> QED
    BY <1>3, <2>1, <2>2, <2>3 DEF Inv
<1>7. Quietly(r) \/ Connect(r) \/ TryAgain(r) \/ Start(r)
  BY <1>1, GoingOnIsQuiet, EndingIsQuiet DEF Proceed, Plain
<1> QED
  BY <1>4, <1>5, <1>6, <1>7

LEMMA LookupKeeps ==
  ASSUME Inv, NEW r \in Requests, LookupStep(r)
  PROVE  Inv' /\ StartsWell /\ HandOversWell
<1>1. GatewayTypes /\ ClearedInv /\ SpacedInv /\ SlotTypes /\ SlotInv
  BY DEF Inv
<1>2. CASE UNCHANGED gatewayVars /\ (ToldToWait(r) \/ GetConnection(r) \/ NoConnection(r) \/ LookUp(r)
                                      \/ CannotReserve(r) \/ Found(r) \/ NotFound(r))
  <2>1. UNCHANGED <<kind, pc, at, hops, page, left, pace, due, rules, delay, allowed, owed>>
    BY <1>2 DEF gatewayVars, requestVars, hostVars
  <2>2. GatewayTypes' /\ ClearedInv' /\ SpacedInv'
    BY <1>1, <2>1 DEF GatewayTypes, ClearedInv, RequestCleared, Cleared, Checked, ReadsRobots,
                      SpacedInv, Asleep, SleeperFits, InLine, SpaceFor
  <2>3. StartsWell
    BY <2>1 DEF StartsWell
  <2>4. CASE ToldToWait(r)
    <3>1. SlotTypes' /\ SlotInv'
      BY <1>1, <2>4, ToldToWaitKeeps
    <3>2. HandOversWell
      BY <1>1, <2>4 DEF HandOversWell, ToldToWait, Answered, SlotTypes
    <3> QED
      BY <2>2, <2>3, <3>1, <3>2 DEF Inv
  <2>5. CASE GetConnection(r) \/ NoConnection(r) \/ LookUp(r) \/ CannotReserve(r) \/ Found(r) \/ NotFound(r)
    <3>1. PICK d \in {"connected", "missed", "over"} : desk' = [desk EXCEPT ![r] = d] /\ (d # "over" => pc[r] = "idle")
      BY <1>1, <2>5 DEF GetConnection, NoConnection, LookUp, CannotReserve, Found, NotFound, Answered, SlotInv
    <3>2. UNCHANGED <<slot, passed, early>> /\ r \in Lookups
      BY <1>1, <2>5 DEF GetConnection, NoConnection, LookUp, CannotReserve, Found, NotFound, SlotInv
    <3>3. SlotTypes' /\ SlotInv'
      BY <1>1, <2>1, <3>1, <3>2, DeskMoves
    <3>4. HandOversWell
      BY <1>1, <3>1 DEF HandOversWell, SlotTypes
    <3> QED
      BY <2>2, <2>3, <3>3, <3>4 DEF Inv
  <2> QED
    BY <1>2, <2>4, <2>5
<1>3. CASE Reserve(r)
  <2>1. Inv'
    BY <1>3, ReserveKeeps
  <2>2. StartsWell
    BY <1>3 DEF StartsWell, Reserve
  <2>3. HandOversWell
    BY <1>1, <1>3 DEF HandOversWell, Reserve, Answered, SlotTypes
  <2> QED
    BY <2>1, <2>2, <2>3
<1>4. ASSUME NEW h \in AnyHost, HandOver(r, h) PROVE Inv' /\ StartsWell /\ HandOversWell
  <2>1. Inv' /\ Quietly(r) /\ passed.handed >= SlotTicks - MaxLate /\ (r \in early \/ passed.push >= PushBack)
    BY <1>4, HandOverKeeps
  <2>2. StartsWell
    BY <1>1, <1>4 DEF StartsWell, HandOver, Ask, GatewayTypes
  <2>3. HandOversWell
    BY <1>1, <1>4, <2>1 DEF HandOversWell, HandOver, SlotTypes
  <2> QED
    BY <2>1, <2>2, <2>3
<1>5. \/ UNCHANGED gatewayVars /\ (ToldToWait(r) \/ GetConnection(r) \/ NoConnection(r) \/ LookUp(r)
                                   \/ CannotReserve(r) \/ Found(r) \/ NotFound(r))
      \/ Reserve(r) \/ \E h \in AnyHost : HandOver(r, h)
  BY DEF LookupStep, GetConnection, NoConnection, LookUp, CannotReserve, Found, ToldToWait, NotFound
<1> QED
  BY <1>2, <1>3, <1>4, <1>5

LEMMA NextKeeps ==
  ASSUME Inv, [Next]_vars
  PROVE  Inv' /\ StartsWell /\ HandOversWell
<1>1. GatewayTypes /\ ClearedInv /\ SpacedInv /\ SlotTypes /\ SlotInv
  BY DEF Inv
<1>2. CASE \E r \in Requests : Step(r) \/ (Plain(r) /\ UNCHANGED geocoderVars)
  BY <1>2, ProceedKeeps, LookupKeeps DEF Step
<1>3. CASE Tick
  <2>1. GatewayTypes' /\ ClearedInv' /\ SpacedInv'
    BY <1>1, <1>3, TickKeeps DEF Tick
  <2>2. SlotTypes' /\ SlotInv'
    BY <1>1, <1>3, SlotTickKeeps
  <2>3. StartsWell /\ HandOversWell
    BY <1>3 DEF StartsWell, HandOversWell, Tick, GatewayTickWith
  <2> QED
    BY <2>1, <2>2, <2>3 DEF Inv
<1>4. ASSUME UNCHANGED <<kind, pc, left, desk, slot, passed, early>>
      PROVE  SlotTypes' /\ SlotInv' /\ StartsWell /\ HandOversWell
  <2>1. SlotTypes'
    BY <1>1, <1>4 DEF SlotTypes
  <2>2. SlotInv'
    BY <1>1, <1>4 DEF SlotInv, Waits, Lookups, LeftToAll, LeftToLater
  <2> QED
    BY <1>4, <2>1, <2>2 DEF StartsWell, HandOversWell
<1>5. ASSUME NEW h \in Hosts, Expire(h), UNCHANGED geocoderVars PROVE Inv' /\ StartsWell /\ HandOversWell
  <2>1. GatewayTypes' /\ ClearedInv' /\ SpacedInv'
    BY <1>1, <1>5, ExpireKeeps
  <2>2. UNCHANGED <<kind, pc, left, desk, slot, passed, early>>
    BY <1>5 DEF Expire, requestVars, geocoderVars
  <2> QED
    BY <1>4, <2>1, <2>2 DEF Inv
<1>6. CASE ForgetPlace \/ UNCHANGED vars
  <2>1. UNCHANGED <<kind, pc, at, hops, page, left, pace, due, rules, delay, allowed, owed, desk, slot, passed, early>>
    BY <1>6 DEF ForgetPlace, vars, gatewayVars, requestVars, hostVars, geocoderVars
  <2>2. GatewayTypes' /\ ClearedInv' /\ SpacedInv'
    BY <1>1, <2>1 DEF GatewayTypes, ClearedInv, RequestCleared, Cleared, Checked, ReadsRobots,
                      SpacedInv, Asleep, SleeperFits, InLine, SpaceFor
  <2> QED
    BY <1>4, <2>1, <2>2 DEF Inv
<1> QED
  BY <1>2, <1>3, <1>5, <1>6 DEF Next

-----------------------------------------------------------------------------
\* What holds for every gateway and every place search

(* Wherever redirects lead, and whoever forgets or reads a robots.txt in   *)
(* between, no hop reaches a host it was not cleared for.                  *)
THEOREM HopsAreCleared == Spec => []EveryHopCleared
<1>1. Inv => EveryHopCleared
  BY DEF Inv, ClearedInv, RequestCleared, Cleared, Checked, EveryHopCleared
<1> QED
  BY <1>1, InitInv, NextKeeps, PTL DEF Spec

(* For any number of requests, retries and late wakes: starts at a host,   *)
(* the hand-overs of place searches to the gateway and the quiet after a   *)
(* "429" all keep their distance.                                          *)
THEOREM StartsAndHandOversAreSpaced == Spec => StartsAndHandOversSpaced
<1>1. Inv /\ [Next]_vars =>
        [\A r \in Requests :
           pc[r] # "open" /\ pc'[r] = "open" => owed[IF pc[r] = "asleep" THEN r ELSE at[r]] = 0]_gatewayVars
  BY NextKeeps DEF StartsWell
<1>2. Inv /\ [Next]_vars =>
        [\A r \in Requests : desk[r] = "asleep" /\ desk'[r] = "handed" => passed.handed >= SlotTicks - MaxLate]_vars
  BY NextKeeps DEF HandOversWell
<1>3. Inv /\ [Next]_vars =>
        [\A r \in Requests : desk[r] = "asleep" /\ desk'[r] = "handed" => r \in early \/ passed.push >= PushBack]_vars
  BY NextKeeps DEF HandOversWell
<1>4. Spec => []Inv
  BY InitInv, NextKeeps, PTL DEF Spec
<1>5. Spec => StartsKeepApart
  BY <1>1, <1>4, PTL DEF Spec, StartsKeepApart
<1>6. Spec => HandOversKeepApart
  BY <1>2, <1>4, PTL DEF Spec, HandOversKeepApart
<1>7. Spec => QuietAfterBusy
  BY <1>3, <1>4, PTL DEF Spec, QuietAfterBusy
<1> QED
  BY <1>5, <1>6, <1>7 DEF StartsAndHandOversSpaced
----------------------------------------------------------------------------
(* Answers from the cache.                                                 *)

\* A question as it is put to a source: its way is known, a window that plays no part is gone.
IsRead(q) ==
  /\ q = [kind |-> q.kind, d |-> q.d, zoom |-> q.zoom, area |-> q.area, window |-> q.window,
          filtered |-> q.filtered, marker |-> q.marker, limit |-> q.limit, id |-> q.id]
  /\ q.kind \in {"density", "ground", "page", "item"}
  /\ q.area = [of |-> q.area.of, covers |-> q.area.covers, points |-> q.area.points] /\ q.area.covers \subseteq Places
  /\ q.window.to \in Int

\* The same question but for the zoom.
AtZoom(q, z) ==
  [kind |-> q.kind, d |-> q.d, zoom |-> z, area |-> q.area, window |-> q.window,
   filtered |-> q.filtered, marker |-> q.marker, limit |-> q.limit, id |-> q.id]

LEMMA ReadIs ==
  ASSUME NEW q, IsQuestion(q)
  PROVE  /\ IsRead(Read(q))
         /\ Read(q) = [kind |-> IF IsCoverage(q) /\ q.d \in Grounds THEN "ground" ELSE q.kind, d |-> q.d, zoom |-> q.zoom,
                       area |-> q.area, window |-> IF Ignored(q) = {} THEN q.window ELSE AnyTime,
                       filtered |-> q.filtered, marker |-> q.marker, limit |-> q.limit, id |-> q.id]
<1> DEFINE way    == IF IsCoverage(q) THEN (IF q.d \in Grounds THEN "ground" ELSE "density") ELSE q.kind
           window == IF Ignored(q) = {} THEN q.window ELSE AnyTime
           y == [kind |-> way, d |-> q.d, zoom |-> q.zoom, area |-> q.area, window |-> window,
                 filtered |-> q.filtered, marker |-> q.marker, limit |-> q.limit, id |-> q.id]
<1>1. Read(q) = [q EXCEPT !.kind = way, !.window = window]
  BY DEF Read
<1>2. way = (IF IsCoverage(q) /\ q.d \in Grounds THEN "ground" ELSE q.kind)
  BY DEF IsCoverage
<1>3. way \in {"density", "ground", "page", "item"}
  BY DEF IsQuestion
<1>4. window.to \in Int
  BY DEF IsQuestion, AnyTime
<1> HIDE DEF way, window
<1>5. ASSUME NEW a, NEW b, NEW c, NEW e, NEW f, NEW g, NEW h, NEW i, NEW j, NEW u, NEW w, NEW z,
             z = [kind |-> a, d |-> b, zoom |-> c, area |-> e, window |-> f, filtered |-> g, marker |-> h, limit |-> i, id |-> j]
      PROVE  [z EXCEPT !.kind = u, !.window = w]
               = [kind |-> u, d |-> b, zoom |-> c, area |-> e, window |-> w, filtered |-> g, marker |-> h, limit |-> i, id |-> j]
  <2>1. [z EXCEPT !.kind = u]
          = [kind |-> u, d |-> b, zoom |-> c, area |-> e, window |-> f, filtered |-> g, marker |-> h, limit |-> i, id |-> j]
    BY <1>5
  <2>2. ASSUME NEW x,
               x = [kind |-> u, d |-> b, zoom |-> c, area |-> e, window |-> f, filtered |-> g, marker |-> h, limit |-> i, id |-> j]
        PROVE  [x EXCEPT !.window = w]
                 = [kind |-> u, d |-> b, zoom |-> c, area |-> e, window |-> w, filtered |-> g, marker |-> h, limit |-> i, id |-> j]
    BY <2>2
  <2> QED
    BY <2>1, <2>2, Zenon
<1>6. Read(q) = y
  BY <1>1, <1>5, Zenon DEF IsQuestion
<1>7. y.kind = way /\ y.area = q.area /\ y.window = window
  OBVIOUS
<1>8. y = [kind |-> y.kind, d |-> y.d, zoom |-> y.zoom, area |-> y.area, window |-> y.window,
           filtered |-> y.filtered, marker |-> y.marker, limit |-> y.limit, id |-> y.id]
  OBVIOUS
<1> HIDE DEF y
<1>9. IsRead(y)
  BY <1>3, <1>4, <1>7, <1>8 DEF IsRead, IsQuestion
<1> QED
  BY <1>2, <1>6, <1>9 DEF window, y

\* What a key tells of the question it is made from: all that the answer depends on.
LEMMA KeyIs ==
  ASSUME NEW q, IsRead(q)
  PROVE  /\ KeyOf(q).kind = q.kind /\ KeyOf(q).d = q.d /\ KeyOf(q).area = q.area /\ KeyOf(q).window = q.window
         /\ KeyOf(q).filtered = q.filtered /\ KeyOf(q).id = q.id
         /\ q.kind = "page" => KeyOf(q).marker = q.marker /\ KeyOf(q).limit = q.limit
         /\ q.kind = "density" => KeyOf(q).zoom = LevelFor(q)
<1> USE DEF IsRead
<1>1. CASE q.kind = "density"
  BY <1>1 DEF KeyOf, DensityKey
<1>2. CASE q.kind = "ground"
  BY <1>2 DEF KeyOf, GroundKey
<1>3. CASE q.kind = "page"
  BY <1>3 DEF KeyOf, PageKey
<1>4. CASE q.kind = "item"
  BY <1>4 DEF KeyOf, ItemKey
<1> QED
  BY <1>1, <1>2, <1>3, <1>4

\* What matches a question is told by its area, its window and its filter, a page also by where it begins and how long it is.
LEMMA SameMatching ==
  ASSUME NEW p, NEW q, p.area = q.area, p.window = q.window, p.filtered = q.filtered
  PROVE  \A there : /\ Matching(p, there) = Matching(q, there)
                    /\ p.marker = q.marker /\ p.limit = q.limit => Page(p, there) = Page(q, there)
<1> SUFFICES ASSUME NEW there
             PROVE  /\ Matching(p, there) = Matching(q, there)
                    /\ p.marker = q.marker /\ p.limit = q.limit => Page(p, there) = Page(q, there)
  OBVIOUS
<1>1. Matching(p, there) = Matching(q, there)
  BY DEF Matching, InWindow
<1>2. ASSUME p.marker = q.marker, p.limit = q.limit PROVE Page(p, there) = Page(q, there)
  <2> DEFINE Rest(x) == {s \in Matching(x, there) : s > x.marker}
             Shown(x) == FirstOf(Rest(x), x.limit)
  <2>1. Rest(p) = Rest(q)
    BY <1>1, <1>2
  <2> HIDE DEF Rest
  <2>2. Shown(p) = Shown(q)
    BY <1>2, <2>1, Zenon
  <2>3. \A x : Page(x, there) = [is |-> "page", items |-> Shown(x),
                                 next |-> IF Shown(x) = Rest(x) THEN 0 ELSE CHOOSE s \in Shown(x) : \A r \in Shown(x) : r <= s]
    BY Zenon DEF Page, Rest
  <2> HIDE DEF Shown
  <2> QED
    BY <2>1, <2>2, <2>3, Zenon
<1> QED
  BY <1>1, <1>2

\* Whose key is one, is told the same.
LEMMA OneKeyOneAnswer ==
  ASSUME NEW p, IsRead(p), NEW q, IsRead(q), KeyOf(p) = KeyOf(q)
  PROVE  /\ p.d = q.d
         /\ \A there : AnswersTo(p, there) = AnswersTo(q, there)
         /\ \A t : Lifetime(p, t) = Lifetime(q, t)
<1>1. /\ p.kind = q.kind /\ p.d = q.d /\ p.area = q.area /\ p.window = q.window /\ p.filtered = q.filtered /\ p.id = q.id
      /\ p.kind = "page" => p.marker = q.marker /\ p.limit = q.limit
      /\ p.kind = "density" => LevelFor(p) = LevelFor(q)
  BY KeyIs
<1>2. \A there : Matching(p, there) = Matching(q, there)
  BY <1>1 DEF Matching, InWindow
<1>3. \A a, there : Matching([p EXCEPT !.area = a], there) = Matching([q EXCEPT !.area = a], there)
  BY <1>1 DEF Matching, InWindow, IsRead
<1>4. ASSUME NEW there, p.kind = "density" PROVE Aggregations(p, there) = Aggregations(q, there)
  <2>1. \A a : Buckets(LevelFor(p), Matching([p EXCEPT !.area = a], there), a # p.area)
                = Buckets(LevelFor(q), Matching([q EXCEPT !.area = a], there), a # q.area)
    BY <1>1, <1>3, <1>4, Zenon
  <2>2. ASSUME NEW v PROVE v \in Aggregations(p, there) <=> v \in Aggregations(q, there)
    <3>1. \A x : v \in Aggregations(x, there)
                   <=> \E a \in Variants(x.area) : v \in Buckets(LevelFor(x), Matching([x EXCEPT !.area = a], there), a # x.area)
      BY Zenon DEF Aggregations
    <3>2. Variants(p.area) = Variants(q.area)
      BY <1>1, Zenon
    <3> QED
      BY <2>1, <3>1, <3>2, ZenonT(40)
  <2> QED
    BY <2>2, Zenon
<1>5. ASSUME NEW there, p.kind = "page" PROVE Page(p, there) = Page(q, there)
  BY <1>1, <1>5, SameMatching
<1>6. ASSUME NEW there PROVE Ground(p, there) = Ground(q, there) /\ Item(p, there) = Item(q, there)
  BY <1>1, <1>2, Zenon DEF Ground, Item
<1>7. ASSUME NEW there PROVE AnswersTo(p, there) = AnswersTo(q, there)
  BY <1>1, <1>4, <1>5, <1>6 DEF AnswersTo, IsRead
<1>8. ASSUME NEW t PROVE Lifetime(p, t) = Lifetime(q, t)
  BY <1>1 DEF Lifetime, WindowLife, IsUnfiltered
<1> QED
  BY <1>1, <1>7, <1>8

\* A cell's count is the number of scenes in it, and that of one that is counted no less than one.
LEMMA CountIs ==
  ASSUME NEW level, NEW S, IsFiniteSet(S), NEW c \in CountsOf(level, S)
  PROVE  /\ c = <<c[1], Cardinality({s \in S : CellOf(level, s) = c[1]})>>
         /\ IsFiniteSet({s \in S : CellOf(level, s) = c[1]})
         /\ c[2] \in Nat
         /\ \E s \in S : CellOf(level, s) = c[1]
<1>1. PICK x \in {CellOf(level, s) : s \in S} : c = <<x, Cardinality({s \in S : CellOf(level, s) = x})>>
  BY Zenon DEF CountsOf
<1>2. c[1] = x /\ c[2] = Cardinality({s \in S : CellOf(level, s) = x})
  BY <1>1
<1>3. IsFiniteSet({s \in S : CellOf(level, s) = x}) /\ Cardinality({s \in S : CellOf(level, s) = x}) \in Nat
  BY FS_Subset, FS_CardinalityType
<1> QED
  BY <1>1, <1>2, <1>3

\* Counts that leave out a cell add up to fewer scenes than there are: each pair of a cell and
\* a number up to its count stands for a scene of its own, and the cell left out has one that none stands for.
LEMMA TallyTells ==
  ASSUME NEW level, NEW S, IsFiniteSet(S), NEW C \in SUBSET CountsOf(level, S), Tally(C) = Cardinality(S)
  PROVE  C = CountsOf(level, S)
<1> SUFFICES ASSUME NEW lost \in CountsOf(level, S), lost \notin C PROVE FALSE
  OBVIOUS
<1> DEFINE In(c) == {s \in S : CellOf(level, s) = c[1]}
           Pairs == UNION {{c} \X (1..c[2]) : c \in C}
           named == [c \in C |-> CHOOSE b : b \in Bijection(1..c[2], In(c))]
           stands == [p \in Pairs |-> named[p[1]][p[2]]]
<1>1. PICK s0 \in S : CellOf(level, s0) = lost[1]
  BY CountIs
<1>2. ASSUME NEW c \in C PROVE named[c] \in Bijection(1..c[2], In(c))
  <2>1. c[2] = Cardinality(In(c)) /\ IsFiniteSet(In(c))
    BY CountIs
  <2>2. ExistsBijection(1..c[2], In(c))
    BY <2>1, FS_CardinalityType
  <2> QED
    BY <2>2 DEF ExistsBijection
<1> HIDE DEF named
<1>3. ASSUME NEW c \in C
      PROVE  /\ \A i \in 1..c[2] : named[c][i] \in S /\ CellOf(level, named[c][i]) = c[1]
             /\ \A i, j \in 1..c[2] : named[c][i] = named[c][j] => i = j
  <2>1. named[c] \in [1..c[2] -> In(c)] /\ \A i, j \in 1..c[2] : named[c][i] = named[c][j] => i = j
    BY <1>2 DEF Bijection, Injection, IsInjective
  <2>2. \A i \in 1..c[2] : named[c][i] \in In(c)
    BY <2>1
  <2> QED
    BY <2>1, <2>2
<1>4. ASSUME NEW p \in Pairs PROVE p[1] \in C /\ p[2] \in 1..p[1][2] /\ p = <<p[1], p[2]>>
  <2>1. PICK c \in C : p \in {c} \X (1..c[2])
    OBVIOUS
  <2> QED
    BY <2>1
<1>5. ASSUME NEW c \in C, NEW d \in CountsOf(level, S), c[1] = d[1] PROVE c = d
  <2>1. c \in CountsOf(level, S)
    OBVIOUS
  <2>2. c = <<c[1], Cardinality(In(c))>> /\ d = <<d[1], Cardinality(In(d))>>
    BY <2>1, CountIs
  <2>3. In(c) = In(d)
    BY <1>5
  <2> QED
    BY <1>5, <2>2, <2>3, Zenon
<1> HIDE DEF Pairs
<1>6. stands \in Injection(Pairs, S \ {s0})
  <2>1. ASSUME NEW p \in Pairs PROVE stands[p] \in S \ {s0}
    <3>1. stands[p] \in S /\ CellOf(level, stands[p]) = p[1][1]
      BY <1>3, <1>4
    <3>2. p[1][1] # lost[1]
      BY <1>4, <1>5
    <3> QED
      BY <1>1, <3>1, <3>2
  <2>2. ASSUME NEW p \in Pairs, NEW r \in Pairs, stands[p] = stands[r] PROVE p = r
    <3>1. CellOf(level, stands[p]) = p[1][1] /\ CellOf(level, stands[r]) = r[1][1]
      BY <1>3, <1>4
    <3>2. p[1] = r[1]
      BY <1>4, <1>5, <2>2, <3>1
    <3>3. p[2] \in 1..p[1][2] /\ r[2] \in 1..p[1][2] /\ named[p[1]][p[2]] = named[p[1]][r[2]]
      BY <1>4, <2>2, <3>2
    <3>4. p[2] = r[2]
      BY <1>3, <1>4, <3>3
    <3> QED
      BY <1>4, <3>2, <3>4
  <2>3. stands \in [Pairs -> S \ {s0}]
    BY <2>1
  <2> QED
    BY <2>2, <2>3 DEF Injection, IsInjective
<1>7. IsFiniteSet(S \ {s0}) /\ Cardinality(S \ {s0}) = Cardinality(S) - 1 /\ Cardinality(S) \in Nat
  BY FS_RemoveElement, FS_CardinalityType
<1>8. IsFiniteSet(Pairs) /\ Cardinality(Pairs) <= Cardinality(S \ {s0})
  BY <1>6, <1>7, FS_Injection
<1>9. Tally(C) = Cardinality(Pairs)
  BY DEF Tally, Pairs
<1> QED
  BY <1>7, <1>8, <1>9

\* A question that is not refused, and the question as it was meant.
Accepted(q) == IsQuestion(q) /\ q.d \in Sets /\ (IsCoverage(q) => q.d \notin Unanswered)
AsMeant(q) == Meant(q, Ignored(q))

LEMMA MeantIs ==
  ASSUME NEW q, IsQuestion(q)
  PROVE  /\ AsMeant(q).kind = q.kind /\ AsMeant(q).d = q.d /\ AsMeant(q).id = q.id
         /\ AsMeant(q).window = Read(q).window /\ AsMeant(q).area = Read(q).area /\ AsMeant(q).filtered = Read(q).filtered
         /\ AsMeant(q).marker = Read(q).marker /\ AsMeant(q).limit = Read(q).limit
         /\ LevelFor(AsMeant(q)) = LevelFor(Read(q))
         /\ Read(q).d = q.d /\ Read(q).id = q.id
         /\ \A a : [AsMeant(q) EXCEPT !.area = a].area = a
                   /\ [AsMeant(q) EXCEPT !.area = a].window = AsMeant(q).window
                   /\ [AsMeant(q) EXCEPT !.area = a].filtered = AsMeant(q).filtered
<1>1. "datetime" \in Ignored(q) <=> Ignored(q) # {}
  BY DEF Ignored
<1>2. AsMeant(q) = [q EXCEPT !.window = Read(q).window]
  <2>1. CASE Ignored(q) = {}
    <3>1. [q EXCEPT !.window = q.window] = q
      BY DEF IsQuestion
    <3> QED
      BY <1>1, <2>1, <3>1, ReadIs DEF AsMeant, Meant
  <2>2. CASE Ignored(q) # {}
    BY <1>1, <2>2, ReadIs DEF AsMeant, Meant
  <2> QED
    BY <2>1, <2>2
<1>3. ASSUME NEW a, NEW b, NEW c, NEW e, NEW f, NEW g, NEW h, NEW i, NEW j, NEW w, NEW z,
             z = [kind |-> a, d |-> b, zoom |-> c, area |-> e, window |-> f, filtered |-> g, marker |-> h, limit |-> i, id |-> j]
      PROVE  [z EXCEPT !.window = w]
               = [kind |-> a, d |-> b, zoom |-> c, area |-> e, window |-> w, filtered |-> g, marker |-> h, limit |-> i, id |-> j]
  BY <1>3
<1>4. AsMeant(q) = [kind |-> q.kind, d |-> q.d, zoom |-> q.zoom, area |-> q.area, window |-> Read(q).window,
                    filtered |-> q.filtered, marker |-> q.marker, limit |-> q.limit, id |-> q.id]
  BY <1>2, <1>3, Zenon DEF IsQuestion
<1>5. Read(q).area = q.area /\ Read(q).zoom = q.zoom /\ Read(q).filtered = q.filtered /\ Read(q).marker = q.marker
      /\ Read(q).limit = q.limit /\ Read(q).d = q.d /\ Read(q).id = q.id
  BY ReadIs
<1>6. LevelFor(AsMeant(q)) = LevelFor(Read(q))
  BY <1>4, <1>5 DEF LevelFor
<1>7. \A a : [AsMeant(q) EXCEPT !.area = a].area = a
             /\ [AsMeant(q) EXCEPT !.area = a].window = AsMeant(q).window
             /\ [AsMeant(q) EXCEPT !.area = a].filtered = AsMeant(q).filtered
  BY <1>4
<1> QED
  BY <1>4, <1>5, <1>6, <1>7

\* No row lives longer than its answer may be old, and a row's life is a day at the most and five minutes at the least.
LEMMA LifeIs ==
  ASSUME NEW q, Accepted(q), NEW s \in Nat, NEW c \in Nat, s <= c
  PROVE  /\ Lifetime(Read(q), s) \in Nat /\ OldestFor(AsMeant(q), c) \in Nat
         /\ Lifetime(Read(q), s) - 1 + Span <= OldestFor(AsMeant(q), c)
         /\ Span <= OldestFor(AsMeant(q), c)
<1> DEFINE k == Read(q)
           m == AsMeant(q)
<1>1. m.kind = q.kind /\ m.d = q.d /\ m.window = k.window /\ m.area = k.area /\ m.filtered = k.filtered
  BY MeantIs DEF Accepted
<1>2. IsRead(k) /\ k.kind = (IF IsCoverage(q) /\ q.d \in Grounds THEN "ground" ELSE q.kind)
  BY ReadIs DEF Accepted
<1>3. k.window.to < s - ClosedAfter => k.window.to < c - ClosedAfter
  BY <1>2, AnswersAssumption DEF IsRead
<1> HIDE DEF k, m
<1>4. Lifetime(k, s) \in {ShortLife, LongLife}
  BY <1>2 DEF Lifetime, WindowLife, IsRead
<1>5. OldestFor(m, c) \in {ShortLife - 1 + Span, LongLife - 1 + Span}
  BY DEF OldestFor
<1>6. Lifetime(k, s) = LongLife => OldestFor(m, c) = LongLife - 1 + Span \/ LongLife = ShortLife
  <2>1. CASE k.kind = "density"
    <3>1. IsCoverage(m) /\ q.d \in Dense /\ q.d \notin Grounds
      BY <1>1, <1>2, <2>1 DEF IsCoverage, Accepted, Sets
    <3> QED
      BY <1>1, <1>3, <2>1, <3>1 DEF Lifetime, WindowLife, IsUnfiltered, OldestFor
  <2>2. CASE k.kind = "ground"
    BY <2>2 DEF Lifetime
  <2>3. CASE k.kind = "page"
    BY <1>1, <1>2, <1>3, <2>3 DEF Lifetime, WindowLife, OldestFor, IsCoverage
  <2>4. CASE k.kind = "item"
    BY <1>1, <1>2, <2>4 DEF OldestFor
  <2> QED
    BY <1>2, <2>1, <2>2, <2>3, <2>4 DEF IsRead
<1> QED
  BY <1>4, <1>5, <1>6, AnswersAssumption DEF k, m

LEMMA LifeNow ==
  ASSUME NEW q, Accepted(q), NEW c \in Nat
  PROVE  OldestFor(AsMeant(q), c) \in Nat /\ Span <= OldestFor(AsMeant(q), c)
<1>1. c <= c
  OBVIOUS
<1> QED
  BY <1>1, LifeIs, Zenon

\* However an area is reduced, it stays on the map.
LEMMA VariantIs ==
  ASSUME NEW q, IsRead(q), NEW a \in Variants(q.area)
  PROVE  a.covers \subseteq Places
<1> DEFINE z == q.area
<1>1. z = [of |-> z.of, covers |-> z.covers, points |-> z.points] /\ z.covers \subseteq Places
  BY DEF IsRead
<1> HIDE DEF z
<1>2. CASE a = z
  BY <1>1, <1>2
<1>3. CASE a = [z EXCEPT !.of = "extent", !.covers = Places, !.points = 0]
  BY <1>1, <1>3
<1>4. CASE a \in Thinned(z)
  <2>1. PICK c \in {z.covers, Places} : a = [z EXCEPT !.points = ThinPoints, !.covers = c]
    BY <1>4 DEF Thinned
  <2>2. a.covers = c
    BY <1>1, <2>1
  <2> QED
    BY <1>1, <2>1, <2>2
<1> QED
  BY <1>2, <1>3, <1>4 DEF Variants, z

\* An answer tells what was there when it was fetched: the cells that call themselves complete all of
\* it, and cells of a reduced area or beyond the cap no more than what was there anywhere.
LEMMA WhatAnAnswerTells ==
  ASSUME NEW q, Accepted(q), NEW there \in SUBSET CachedScenes,
         NEW v \in AnswersTo(Read(q), there), v # Nowhere
  PROVE  Tells(v, AsMeant(q), there)
<1> DEFINE k == Read(q)
           m == AsMeant(q)
<1>1. /\ m.kind = q.kind /\ m.d = q.d /\ m.id = q.id /\ m.window = k.window /\ m.area = k.area /\ m.filtered = k.filtered
      /\ m.marker = k.marker /\ m.limit = k.limit /\ LevelFor(m) = LevelFor(k) /\ k.id = q.id
      /\ \A a : [m EXCEPT !.area = a].area = a /\ [m EXCEPT !.area = a].window = m.window
               /\ [m EXCEPT !.area = a].filtered = m.filtered
  BY MeantIs DEF Accepted
<1>2. IsRead(k)
  BY ReadIs DEF Accepted
<1>3. v \in AnswersTo(k, there)
  OBVIOUS
<1> HIDE DEF k, m
<1>4. Matching(m, there) = Matching(k, there)
  BY <1>1, SameMatching
<1>5. CASE k.kind = "density"
  <2>1. v \in Aggregations(k, there)
    BY <1>3, <1>5 DEF AnswersTo
  <2>2. PICK a \in Variants(k.area) : v \in Buckets(LevelFor(k), Matching([k EXCEPT !.area = a], there), a # k.area)
    BY <2>1, Zenon DEF Aggregations
  <2> DEFINE L == LevelFor(k)
             S == Matching([k EXCEPT !.area = a], there)
             Everywhere == Matching([m EXCEPT !.area = Anywhere], there)
  <2>3. PICK C \in SUBSET CountsOf(L, S), n \in {Cardinality(S), -1} :
               v = [is |-> "density", cells |-> C, total |-> n, simplified |-> a # k.area]
    BY <2>2 DEF Buckets
  <2>4. v.is = "density" /\ v.cells = C /\ v.total = n /\ (v.simplified <=> a # k.area)
    BY <2>3
  <2>5. [k EXCEPT !.area = a].area = a /\ [k EXCEPT !.area = a].window = k.window /\ [k EXCEPT !.area = a].filtered = k.filtered
    BY <1>2 DEF IsRead
  <2>6. S \subseteq there /\ IsFiniteSet(S) /\ IsFiniteSet(Everywhere)
    <3>1. S \subseteq there /\ Everywhere \subseteq there
      BY DEF Matching
    <3> QED
      BY <3>1, AnswersAssumption, FS_Subset
  <2>7. S \subseteq Everywhere
    BY <1>1, <1>2, <2>5, VariantIs DEF Matching, InWindow, Anywhere
  <2> HIDE DEF L, S, Everywhere
  <2>8. ASSUME Completeness(v) = "complete" PROVE C = CountsOf(L, Matching(m, there))
    <3>1. a = k.area /\ n # -1 /\ Tally(C) = n
      BY <2>4, <2>8 DEF Completeness
    <3>2. S = Matching(k, there)
      BY <2>5, <3>1, SameMatching DEF S
    <3>3. C = CountsOf(L, S)
      BY <2>3, <2>6, <3>1, TallyTells
    <3> QED
      BY <1>4, <3>2, <3>3
  <2>9. ASSUME NEW c \in C PROVE c[2] <= Cardinality({s \in Everywhere : CellOf(L, s) = c[1]})
    <3>1. c = <<c[1], Cardinality({s \in S : CellOf(L, s) = c[1]})>>
      BY <2>3, <2>6, CountIs
    <3>2. IsFiniteSet({s \in Everywhere : CellOf(L, s) = c[1]})
      BY <2>6, FS_Subset
    <3>3. {s \in S : CellOf(L, s) = c[1]} \in SUBSET {s \in Everywhere : CellOf(L, s) = c[1]}
      BY <2>7
    <3>4. Cardinality({s \in S : CellOf(L, s) = c[1]}) <= Cardinality({s \in Everywhere : CellOf(L, s) = c[1]})
      BY <3>2, <3>3, FS_Subset
    <3> QED
      BY <3>1, <3>4
  <2> QED
    BY <1>1, <2>4, <2>8, <2>9 DEF Tells, L, Everywhere, m
<1>6. CASE k.kind = "ground"
  <2>1. v = Ground(k, there)
    BY <1>3, <1>6 DEF AnswersTo
  <2>2. v.is = "ground" /\ v.covered = {PlaceOf[s] : s \in Matching(k, there)}
    BY <2>1 DEF Ground
  <2> QED
    BY <1>4, <2>2 DEF Tells, m
<1>7. CASE k.kind = "page"
  <2>1. v = Page(k, there)
    BY <1>3, <1>7 DEF AnswersTo
  <2>2. v.is = "page"
    BY <2>1 DEF Page
  <2>3. v = Page(m, there)
    BY <1>1, <2>1, SameMatching
  <2> QED
    BY <2>2, <2>3 DEF Tells, m
<1>8. CASE k.kind = "item"
  <2>1. v = Item(k, there)
    BY <1>3, <1>8 DEF AnswersTo
  <2>2. k.id \in there /\ v = [is |-> "item", id |-> k.id]
    BY <2>1 DEF Item
  <2>3. v.is = "item" /\ v.id = m.id /\ m.id \in there
    BY <1>1, <2>2
  <2> QED
    BY <2>3 DEF Tells, m
<1> QED
  BY <1>2, <1>5, <1>6, <1>7, <1>8 DEF IsRead

\* What was told of a question at a tick.
ToldAt(v, q, t) == v \in AnswersTo(Read(q), held[t][q.d]) /\ v # Nowhere

\* A row was written under its own question's key no later than a call lasts after it was fetched.
RowFits(k) ==
  \/ rows[k].value = OddRow
  \/ \E q \in topic, s, t \in 0..clock :
       /\ Accepted(q) /\ k = KeyOf(Read(q)) /\ rows[k].until = s + Lifetime(Read(q), s)
       /\ t <= s /\ s <= t + Span /\ ToldAt(rows[k].value, q, t)

AskFits(c) == c.q \in topic /\ Accepted(c.q) /\ c.since \in 0..clock /\ clock <= c.since + Span
KeepFits(c) == AskFits(c) /\ \E t \in c.since..clock : ToldAt(c.value, c.q, t)

AnswerTypes ==
  /\ clock \in Nat /\ topic \in Topics /\ \A t \in 0..clock : held[t] \in [Sets -> SUBSET CachedScenes]
  /\ call = [r \in Callers |-> call[r]]

CallsFit == \A r \in Callers : (call[r].at = "ask" => AskFits(call[r])) /\ (call[r].at = "keep" => KeepFits(call[r]))

AnswersInv == AnswerTypes /\ CallsFit /\ (\A k \in DOMAIN rows : RowFits(k)) /\ AnswersAreHonest

LEMMA AnswersInitInv == AnswersInit => AnswersInv
<1> SUFFICES ASSUME AnswersInit PROVE AnswersInv
  OBVIOUS
<1> USE DEF AnswersInit
<1>1. AnswerTypes
  BY AnswersAssumption DEF AnswerTypes
<1>2. CallsFit
  BY DEF CallsFit, NoCall
<1>3. \A k \in DOMAIN rows : RowFits(k)
  <2>1. PICK old : rows = [k \in old |-> [value |-> OddRow, until |-> LongLife]]
    OBVIOUS
  <2>2. ASSUME NEW k \in DOMAIN rows PROVE rows[k].value = OddRow
    BY <2>1
  <2> QED
    BY <2>2 DEF RowFits
<1>4. AnswersAreHonest
  BY DEF AnswersAreHonest
<1> QED
  BY <1>1, <1>2, <1>3, <1>4 DEF AnswersInv

\* An answer is honest when it was told of the question and not too long ago.
LEMMA AnswerKeeps ==
  ASSUME AnswerTypes, CallsFit, UNCHANGED <<clock, held, topic>>, NEW r \in Callers, NEW q, NEW status, NEW v,
         Answer(r, q, status, v),
         status = 200 => /\ Accepted(q)
                         /\ \E t \in 0..clock : clock <= t + OldestFor(AsMeant(q), clock) /\ ToldAt(v, q, t)
  PROVE  AnswerTypes' /\ CallsFit' /\ AnswersAreHonest'
<1>1. \A x \in Callers : call'[x] = IF x = r THEN NoCall ELSE call[x]
  BY DEF Answer, AnswerTypes
<1>2. AnswerTypes'
  BY DEF Answer, AnswerTypes
<1>3. CallsFit'
  BY <1>1 DEF CallsFit, NoCall, AskFits, KeepFits, ToldAt
<1>4. ASSUME status = 200
      PROVE  \E t \in 0..clock : clock - OldestFor(AsMeant(q), clock) <= t /\ Tells(v, AsMeant(q), held[t][AsMeant(q).d])
  <2>1. PICK t \in 0..clock : clock <= t + OldestFor(AsMeant(q), clock) /\ ToldAt(v, q, t)
    BY <1>4
  <2>2. Accepted(q) /\ AsMeant(q).d = q.d
    BY <1>4, MeantIs DEF Accepted
  <2>3. held[t][q.d] \in SUBSET CachedScenes
    BY <2>2 DEF AnswerTypes, Accepted
  <2>4. Tells(v, AsMeant(q), held[t][q.d])
    BY <2>1, <2>2, <2>3, WhatAnAnswerTells DEF ToldAt
  <2>5. OldestFor(AsMeant(q), clock) \in Nat
    BY <2>2, LifeNow, Zenon DEF AnswerTypes
  <2> QED
    BY <2>1, <2>2, <2>4, <2>5 DEF AnswerTypes
<1>5. AnswersAreHonest'
  <2>1. told'.q = q /\ told'.status = status /\ told'.value = v
    BY DEF Answer
  <2>2. CASE status = 200
    <3>1. PICK t \in 0..clock : clock - OldestFor(AsMeant(q), clock) <= t /\ Tells(v, AsMeant(q), held[t][AsMeant(q).d])
      BY <1>4, <2>2
    <3> DEFINE from == clock - OldestFor(AsMeant(q), clock)
    <3>2. from \in Int
      <4>1. OldestFor(AsMeant(q), clock) \in Nat /\ clock \in Nat
        BY <2>2, LifeNow, Zenon DEF AnswerTypes
      <4> QED
        BY <4>1
    <3>3. t \in (IF from < 0 THEN 0 ELSE from)..clock
      BY <3>1, <3>2
    <3> QED
      BY <2>1, <3>1, <3>3, Zenon DEF AnswersAreHonest, AsMeant
  <2>3. CASE status # 200
    BY <2>1, <2>3 DEF AnswersAreHonest
  <2> QED
    BY <2>2, <2>3
<1> QED
  BY <1>2, <1>3, <1>5

\* A call that goes on tells nothing yet.
LEMMA GoesKeeps ==
  ASSUME AnswerTypes, CallsFit, UNCHANGED <<clock, held, topic>>, NEW r \in Callers, NEW c, Goes(r, c),
         c.at = "ask" => AskFits(c), c.at = "keep" => KeepFits(c)
  PROVE  AnswerTypes' /\ CallsFit' /\ AnswersAreHonest'
<1>1. \A x \in Callers : call'[x] = IF x = r THEN c ELSE call[x]
  BY DEF Goes, AnswerTypes
<1>2. AnswerTypes'
  BY DEF Goes, AnswerTypes
<1>3. CallsFit'
  BY <1>1 DEF CallsFit, AskFits, KeepFits, ToldAt
<1>4. AnswersAreHonest'
  BY DEF AnswersAreHonest, Goes
<1> QED
  BY <1>2, <1>3, <1>4

\* Rows nobody touches stay as they are.
LEMMA RowsKept ==
  ASSUME \A k \in DOMAIN rows : RowFits(k), UNCHANGED <<clock, held, rows, topic>>
  PROVE  (\A k \in DOMAIN rows : RowFits(k))'
BY DEF RowFits, ToldAt

\* An answer that stands in the cache was told of whatever question has its key.
LEMMA RowTells ==
  ASSUME AnswersInv, NEW q, Accepted(q), Live(KeyOf(Read(q))), Usable(rows[KeyOf(Read(q))].value)
  PROVE  \E t \in 0..clock : clock <= t + OldestFor(AsMeant(q), clock) /\ ToldAt(rows[KeyOf(Read(q))].value, q, t)
<1> DEFINE key == KeyOf(Read(q))
<1>1. key \in DOMAIN rows /\ rows[key].until > clock /\ rows[key].value # OddRow /\ RowFits(key)
  BY DEF Live, Usable, AnswersInv
<1>2. PICK p \in topic, s, t \in 0..clock :
       /\ Accepted(p) /\ key = KeyOf(Read(p)) /\ rows[key].until = s + Lifetime(Read(p), s)
       /\ t <= s /\ s <= t + Span /\ ToldAt(rows[key].value, p, t)
  BY <1>1 DEF RowFits
<1>3. IsRead(Read(p)) /\ IsRead(Read(q)) /\ Read(p).d = p.d /\ Read(q).d = q.d
  BY <1>2, ReadIs DEF Accepted
<1>4. p.d = q.d /\ (\A there : AnswersTo(Read(p), there) = AnswersTo(Read(q), there)) /\ Lifetime(Read(p), s) = Lifetime(Read(q), s)
  BY <1>2, <1>3, OneKeyOneAnswer
<1>5. ToldAt(rows[key].value, q, t)
  BY <1>2, <1>4 DEF ToldAt
<1>6. clock \in Nat /\ s \in Nat /\ t \in Nat /\ s <= clock
  BY <1>2 DEF AnswersInv, AnswerTypes
<1>7. /\ Lifetime(Read(q), s) \in Nat /\ OldestFor(AsMeant(q), clock) \in Nat
      /\ Lifetime(Read(q), s) - 1 + Span <= OldestFor(AsMeant(q), clock)
  BY <1>6, LifeIs
<1>8. clock <= t + OldestFor(AsMeant(q), clock)
  BY <1>1, <1>2, <1>4, <1>6, <1>7, AnswersAssumption
<1> QED
  BY <1>5, <1>8

LEMMA EnterKeeps ==
  ASSUME AnswersInv, NEW r \in Callers, Enter(r)
  PROVE  AnswersInv'
<1>1. AnswerTypes /\ CallsFit /\ (\A k \in DOMAIN rows : RowFits(k)) /\ UNCHANGED <<clock, held, rows, topic>>
  BY DEF Enter, AnswersInv
<1>2. PICK q \in topic, via \in {"GET", "POST"} :
         \/ Refusal(via, q) # 200 /\ Answer(r, q, Refusal(via, q), Nowhere)
         \/ Refusal(via, q) = 200 /\ LookInto(r, q)
  BY DEF Enter
<1>3. CASE Refusal(via, q) # 200 /\ Answer(r, q, Refusal(via, q), Nowhere)
  <2>1. AnswerTypes' /\ CallsFit' /\ AnswersAreHonest'
    BY <1>1, <1>3, AnswerKeeps
  <2> QED
    BY <1>1, <2>1, RowsKept DEF AnswersInv
<1>4. CASE Refusal(via, q) = 200 /\ LookInto(r, q)
  <2>1. Accepted(q)
    <3>1. IsQuestion(q)
      BY <1>1, AnswersAssumption DEF AnswerTypes
    <3> QED
      BY <1>4, <3>1 DEF Accepted, Refusal
  <2>2. \/ Live(KeyOf(Read(q))) /\ Usable(rows[KeyOf(Read(q))].value) /\ Answer(r, q, 200, rows[KeyOf(Read(q))].value)
        \/ Answer(r, q, 500, Nowhere)
        \/ Asks(r, q)
    BY <1>4 DEF LookInto
  <2>3. CASE Live(KeyOf(Read(q))) /\ Usable(rows[KeyOf(Read(q))].value) /\ Answer(r, q, 200, rows[KeyOf(Read(q))].value)
    <3>1. PICK v : v = rows[KeyOf(Read(q))].value
      OBVIOUS
    <3>2. \E t \in 0..clock : clock <= t + OldestFor(AsMeant(q), clock) /\ ToldAt(v, q, t)
      BY <2>1, <2>3, <3>1, RowTells
    <3>3. Answer(r, q, 200, v)
      BY <2>3, <3>1
    <3>4. AnswerTypes' /\ CallsFit' /\ AnswersAreHonest'
      BY <1>1, <2>1, <3>2, <3>3, AnswerKeeps
    <3> QED
      BY <1>1, <3>4, RowsKept DEF AnswersInv
  <2>4. CASE Answer(r, q, 500, Nowhere)
    <3>1. AnswerTypes' /\ CallsFit' /\ AnswersAreHonest'
      BY <1>1, <2>4, AnswerKeeps
    <3> QED
      BY <1>1, <3>1, RowsKept DEF AnswersInv
  <2>5. CASE Asks(r, q)
    <3>1. PICK c : c = [at |-> "ask", q |-> q, since |-> clock]
      OBVIOUS
    <3>2. Goes(r, c) /\ c.at = "ask"
      BY <2>5, <3>1 DEF Asks
    <3>3. AskFits(c)
      BY <1>1, <2>1, <3>1, AnswersAssumption DEF AskFits, AnswerTypes
    <3>4. AnswerTypes' /\ CallsFit' /\ AnswersAreHonest'
      BY <1>1, <3>2, <3>3, GoesKeeps
    <3> QED
      BY <1>1, <3>4, RowsKept DEF AnswersInv
  <2> QED
    BY <2>2, <2>3, <2>4, <2>5
<1> QED
  BY <1>2, <1>3, <1>4

LEMMA FetchKeeps ==
  ASSUME AnswersInv, NEW r \in Callers, Fetch(r)
  PROVE  AnswersInv'
<1>1. AnswerTypes /\ CallsFit /\ (\A k \in DOMAIN rows : RowFits(k)) /\ UNCHANGED <<clock, held, rows, topic>>
  BY DEF Fetch, AnswersInv
<1>2. PICK q, since : q = call[r].q /\ since = call[r].since
  OBVIOUS
<1>3. q \in topic /\ Accepted(q) /\ since \in 0..clock /\ clock <= since + Span
  BY <1>1, <1>2 DEF Fetch, CallsFit, AskFits
<1>4. PICK v \in AnswersTo(Read(q), held[clock][q.d]) :
         IF v = Nowhere THEN Answer(r, q, 404, Nowhere) ELSE Goes(r, [at |-> "keep", q |-> q, value |-> v, since |-> since])
  BY <1>2 DEF Fetch
<1>5. AnswerTypes' /\ CallsFit' /\ AnswersAreHonest'
  <2>1. CASE v = Nowhere
    <3>1. Answer(r, q, 404, Nowhere)
      BY <1>4, <2>1
    <3> QED
      BY <1>1, <3>1, AnswerKeeps
  <2>2. CASE v # Nowhere
    <3>1. PICK c : c = [at |-> "keep", q |-> q, value |-> v, since |-> since]
      OBVIOUS
    <3>2. c.at = "keep" /\ c.q = q /\ c.value = v /\ c.since = since /\ Goes(r, c)
      BY <1>4, <2>2, <3>1
    <3>3. KeepFits(c)
      <4>1. AskFits(c)
        BY <1>3, <3>2 DEF AskFits
      <4>2. clock \in c.since..clock
        BY <1>1, <1>3, <3>2 DEF AnswerTypes
      <4> QED
        BY <2>2, <3>2, <4>1, <4>2 DEF KeepFits, ToldAt
    <3> QED
      BY <1>1, <3>2, <3>3, GoesKeeps
  <2> QED
    BY <2>1, <2>2
<1> QED
  BY <1>1, <1>5, RowsKept DEF AnswersInv

LEMMA SilentKeeps ==
  ASSUME AnswersInv, NEW r \in Callers, SourceSilent(r)
  PROVE  AnswersInv'
<1>1. AnswerTypes /\ CallsFit /\ (\A k \in DOMAIN rows : RowFits(k)) /\ UNCHANGED <<clock, held, rows, topic>>
  BY DEF SourceSilent, AnswersInv
<1>2. PICK q, status : status # 200 /\ Answer(r, q, status, Nowhere)
  BY DEF SourceSilent
<1>3. AnswerTypes' /\ CallsFit' /\ AnswersAreHonest'
  BY <1>1, <1>2, AnswerKeeps
<1> QED
  BY <1>1, <1>3, RowsKept DEF AnswersInv

\* What a call that is about to write has in hand.
LEMMA InHand ==
  ASSUME AnswersInv, NEW r \in Callers, call[r].at = "keep"
  PROVE  /\ call[r].q \in topic /\ Accepted(call[r].q)
         /\ \E t \in 0..clock : /\ clock <= t + Span /\ clock <= t + OldestFor(AsMeant(call[r].q), clock)
                                 /\ ToldAt(call[r].value, call[r].q, t)
<1>1. KeepFits(call[r]) /\ clock \in Nat
  BY DEF AnswersInv, CallsFit, AnswerTypes
<1>2. PICK t \in call[r].since..clock : ToldAt(call[r].value, call[r].q, t)
  BY <1>1 DEF KeepFits
<1>3. call[r].q \in topic /\ Accepted(call[r].q) /\ call[r].since \in 0..clock /\ clock <= call[r].since + Span
  BY <1>1 DEF KeepFits, AskFits
<1>4. OldestFor(AsMeant(call[r].q), clock) \in Nat /\ Span <= OldestFor(AsMeant(call[r].q), clock)
  BY <1>1, <1>3, LifeNow, Zenon
<1>5. t \in 0..clock /\ clock <= t + Span /\ clock <= t + OldestFor(AsMeant(call[r].q), clock)
  BY <1>1, <1>2, <1>3, <1>4, AnswersAssumption
<1> QED
  BY <1>2, <1>3, <1>5

LEMMA StoreKeeps ==
  ASSUME AnswersInv, NEW r \in Callers, Store(r)
  PROVE  AnswersInv'
<1>1. AnswerTypes /\ CallsFit /\ (\A k \in DOMAIN rows : RowFits(k)) /\ UNCHANGED <<clock, held, topic>>
  BY DEF Store, AnswersInv
<1>2. PICK q, v : q = call[r].q /\ v = call[r].value
  OBVIOUS
<1>3. PICK t \in 0..clock : clock <= t + Span /\ clock <= t + OldestFor(AsMeant(q), clock) /\ ToldAt(v, q, t)
  BY <1>2, InHand DEF Store
<1>4. q \in topic /\ Accepted(q)
  BY <1>2, InHand DEF Store
<1>5. Answer(r, q, 200, v)
  BY <1>2 DEF Store
<1>6. AnswerTypes' /\ CallsFit' /\ AnswersAreHonest'
  BY <1>1, <1>3, <1>4, <1>5, AnswerKeeps
<1>7. (\A k \in DOMAIN rows : RowFits(k))'
  <2> DEFINE key == KeyOf(Read(q))
  <2>1. rows' = [k \in DOMAIN rows \cup {key} |->
                   IF k = key THEN [value |-> v, until |-> clock + Lifetime(Read(q), clock)] ELSE rows[k]]
    BY <1>2 DEF Store
  <2>2. RowFits(key)'
    <3>1. rows'[key].value = v /\ rows'[key].until = clock + Lifetime(Read(q), clock)
      BY <2>1
    <3>2. clock \in 0..clock /\ t <= clock
      BY <1>1 DEF AnswerTypes
    <3>3. ToldAt(v, q, t)'
      BY <1>1, <1>3 DEF ToldAt
    <3> HIDE DEF key
    <3> QED
      BY <1>1, <1>3, <1>4, <3>1, <3>2, <3>3 DEF RowFits, ToldAt, key
  <2>3. ASSUME NEW k \in DOMAIN rows, k # key PROVE RowFits(k)'
    <3>1. rows'[k] = rows[k]
      BY <2>1, <2>3
    <3> QED
      BY <1>1, <3>1 DEF RowFits, ToldAt
  <2>4. DOMAIN rows' = DOMAIN rows \cup {key}
    BY <2>1
  <2> QED
    BY <2>2, <2>3, <2>4
<1> QED
  BY <1>6, <1>7 DEF AnswersInv

LEMMA StoreFailsKeeps ==
  ASSUME AnswersInv, NEW r \in Callers, StoreFails(r)
  PROVE  AnswersInv'
<1>1. AnswerTypes /\ CallsFit /\ (\A k \in DOMAIN rows : RowFits(k)) /\ UNCHANGED <<clock, held, rows, topic>>
  BY DEF StoreFails, AnswersInv
<1>2. PICK q, v : q = call[r].q /\ v = call[r].value
  OBVIOUS
<1>3. Accepted(q) /\ \E t \in 0..clock : clock <= t + OldestFor(AsMeant(q), clock) /\ ToldAt(v, q, t)
  BY <1>2, InHand DEF StoreFails
<1>4. Answer(r, q, 500, Nowhere) \/ Answer(r, q, 200, v)
  BY <1>2 DEF StoreFails
<1>5. AnswerTypes' /\ CallsFit' /\ AnswersAreHonest'
  <2>1. CASE Answer(r, q, 500, Nowhere)
    BY <1>1, <2>1, AnswerKeeps
  <2>2. CASE Answer(r, q, 200, v)
    BY <1>1, <1>3, <2>2, AnswerKeeps
  <2> QED
    BY <1>4, <2>1, <2>2
<1> QED
  BY <1>1, <1>5, RowsKept DEF AnswersInv

LEMMA TimeKeeps ==
  ASSUME AnswersInv, PassTime
  PROVE  AnswersInv'
<1>1. AnswerTypes /\ CallsFit /\ (\A k \in DOMAIN rows : RowFits(k)) /\ UNCHANGED <<call, topic>> /\ clock' = clock + 1 /\ told' = NoCall
  BY DEF PassTime, AnswersInv
<1>2. PICK h \in NextHeld : held' = [t \in 0..(clock + 1) |-> IF t = clock + 1 THEN h ELSE held[t]]
  BY DEF PassTime
<1>3. clock \in Nat /\ clock' \in Nat
  BY <1>1 DEF AnswerTypes
<1>4. h \in [Sets -> SUBSET CachedScenes]
  <2>1. held[clock] \in [Sets -> SUBSET CachedScenes]
    BY <1>1, <1>3 DEF AnswerTypes
  <2>2. CASE h = held[clock]
    BY <2>1, <2>2
  <2>3. ASSUME NEW d, NEW s \in CachedScenes,
               h = [held[clock] EXCEPT ![d] = IF s \in @ THEN @ \ {s} ELSE @ \cup {s}]
        PROVE  h \in [Sets -> SUBSET CachedScenes]
    BY <2>1, <2>3
  <2>4. h # held[clock] => \E d \in {q.d : q \in topic}, s \in CachedScenes :
                              h = [held[clock] EXCEPT ![d] = IF s \in @ THEN @ \ {s} ELSE @ \cup {s}]
    BY <1>2 DEF NextHeld
  <2> QED
    BY <2>2, <2>3, <2>4
<1>5. \A t \in 0..clock : t \in 0..clock' /\ held'[t] = held[t]
  BY <1>1, <1>2, <1>3
<1>6. AnswerTypes'
  <2>1. \A t \in 0..clock' : held'[t] \in [Sets -> SUBSET CachedScenes]
    BY <1>1, <1>2, <1>3, <1>4 DEF AnswerTypes
  <2> QED
    BY <1>1, <1>3, <2>1 DEF AnswerTypes
<1>7. \A v, q : \A t \in 0..clock : ToldAt(v, q, t) => ToldAt(v, q, t)'
  BY <1>5 DEF ToldAt
<1>8. CallsFit'
  <2>1. ASSUME NEW r \in Callers, call[r].at \in {"ask", "keep"}, AskFits(call[r]) PROVE AskFits(call[r])'
    <3>1. call[r] # NoCall
      BY <2>1 DEF NoCall
    <3>2. clock < call[r].since + Span
      BY <3>1 DEF PassTime
    <3> QED
      BY <1>1, <1>3, <2>1, <3>2, AnswersAssumption DEF AskFits
  <2>2. ASSUME NEW r \in Callers, call[r].at = "keep", KeepFits(call[r]) PROVE KeepFits(call[r])'
    <3>1. AskFits(call[r])'
      BY <2>1, <2>2 DEF KeepFits
    <3>2. PICK c : c = call[r] /\ c = call'[r]
      BY <1>1
    <3>3. PICK t \in c.since..clock : ToldAt(c.value, c.q, t)
      BY <2>2, <3>2 DEF KeepFits
    <3>4. c.since \in 0..clock
      BY <2>2, <3>2 DEF KeepFits, AskFits
    <3>5. t \in 0..clock /\ t \in c.since..clock'
      BY <1>1, <1>3, <3>3, <3>4
    <3>6. ToldAt(c.value, c.q, t)'
      BY <1>7, <3>3, <3>5
    <3> QED
      BY <3>1, <3>2, <3>5, <3>6 DEF KeepFits, ToldAt
  <2> QED
    BY <1>1, <2>1, <2>2 DEF CallsFit, KeepFits
<1>9. (\A k \in DOMAIN rows : RowFits(k))'
  <2>1. ASSUME NEW k \in DOMAIN rows' PROVE RowFits(k)'
    <3>1. k \in DOMAIN rows /\ rows'[k] = rows[k]
      BY DEF PassTime
    <3>2. CASE rows[k].value = OddRow
      BY <3>1, <3>2 DEF RowFits
    <3>3. CASE rows[k].value # OddRow
      <4>1. PICK q \in topic, s, t \in 0..clock :
              /\ Accepted(q) /\ k = KeyOf(Read(q)) /\ rows[k].until = s + Lifetime(Read(q), s)
              /\ t <= s /\ s <= t + Span /\ ToldAt(rows[k].value, q, t)
        BY <1>1, <3>1, <3>3 DEF RowFits
      <4>2. ToldAt(rows[k].value, q, t)' /\ s \in 0..clock' /\ t \in 0..clock'
        BY <1>5, <3>1, <4>1 DEF ToldAt
      <4> QED
        BY <1>1, <3>1, <4>1, <4>2 DEF RowFits
    <3> QED
      BY <3>2, <3>3
  <2> QED
    BY <2>1
<1>10. AnswersAreHonest'
  BY <1>1 DEF AnswersAreHonest
<1> QED
  BY <1>6, <1>8, <1>9, <1>10 DEF AnswersInv

\* An answer is one to the caller's own question, exact where it calls itself complete and as recent as is
\* promised, whoever wrote it and whatever ran at the same time (earth_search_coverage._cache_key,
\* local_coverage._cache_key, federated_search.search_cache_key, ttl_for_window, check_completeness).
THEOREM AnswersStayHonest == AnswersSpec => []AnswersAreHonest
<1>1. AnswersInv /\ [AnswersNext]_answerVars => AnswersInv'
  <2> SUFFICES ASSUME AnswersInv, [AnswersNext]_answerVars PROVE AnswersInv'
    OBVIOUS
  <2>1. ASSUME NEW r \in Callers, CallStep(r) PROVE AnswersInv'
    BY <2>1, EnterKeeps, FetchKeeps, SilentKeeps, StoreKeeps, StoreFailsKeeps DEF CallStep
  <2>2. CASE PassTime
    BY <2>2, TimeKeeps
  <2>3. CASE UNCHANGED answerVars
    BY <2>3 DEF answerVars, AnswersInv, AnswerTypes, CallsFit, AskFits, KeepFits, RowFits, ToldAt, AnswersAreHonest
  <2> QED
    BY <2>1, <2>2, <2>3 DEF AnswersNext
<1>2. AnswersInv => AnswersAreHonest
  BY DEF AnswersInv
<1> QED
  BY <1>1, <1>2, AnswersInitInv, PTL DEF AnswersSpec
=============================================================================
