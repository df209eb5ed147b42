------------------------------ MODULE Gateway ------------------------------
(***************************************************************************)
(* The one client that fetches (gateway/client.py).  A request goes hop by *)
(* hop: every hop is checked, its host's robots.txt asked where the policy *)
(* obeys them, then one of the host's connections is taken and attempts    *)
(* are made, their starts spaced per host.  Reading a robots.txt is itself *)
(* such a fetch, nested in the request that finds it unread and holding    *)
(* the host's robots lock.                                                 *)
(*                                                                         *)
(* Time is relative: what is due counts down with Tick.  A sleep may end   *)
(* up to MaxLate ticks late, as an event loop that is busy wakes late.     *)
(***************************************************************************)
EXTENDS Integers, FiniteSets

CONSTANTS
  Requests,
  Hosts,         \* the allowlist of the policy
  Foreign,       \* a host that is not on it
  Scenarios,     \* how each request that is made is: [robots, retry, within, limit, slot]
  MaxRedirects, MaxAttempts,
  Interval,      \* interval_for: the policy's spacing of each host
  CrawlDelays,   \* what a robots.txt may ask for
  MaxCrawlDelay,
  Pause,         \* _wait, between two attempts
  MaxLate,
  NoHost

ASSUME GatewayAssumption ==
  /\ MaxAttempts \in Nat \ {0} /\ MaxRedirects \in Nat
  /\ Interval \in [Hosts -> Nat] /\ CrawlDelays \subseteq Nat
  /\ MaxCrawlDelay \in Nat /\ Pause \in Nat /\ MaxLate \in Nat
  /\ Foreign \notin Hosts /\ NoHost \notin Hosts \cup {Foreign} \cup Requests /\ Hosts \cap Requests = {}
  /\ \A s \in Scenarios :
       /\ DOMAIN s \subseteq Requests
       /\ \A r \in DOMAIN s : s[r] \in [robots : BOOLEAN, retry : BOOLEAN, within : SUBSET Hosts,
                                               limit : Nat \ {0}, slot : BOOLEAN]

VARIABLES
  kind,     \* how each request is made, limit being max_connections_per_host of its process
  pc,       \* where each request stands
  at,       \* the host of the hop
  hops,     \* redirects of this fetch so far
  try,      \* attempt of this hop
  page,     \* while a robots.txt is read: the hop that waits for it
  left,     \* ticks a sleep has left
  pace,     \* the interval the present start was reserved with
  result,
  due,      \* _next_start, in ticks from now
  lock,     \* _robots_locks: who holds a host's
  rules,    \* _robots
  delay,    \* _crawl_delays
  allowed,  \* history: hosts whose robots.txt ever let us
  owed      \* history: ticks that a request asleep, and the next to reserve at a host, has to keep
            \* from the starts reserved before it, one late wake granted

requestVars == <<kind, pc, at, hops, try, page, left, pace, result>>
hostVars == <<due, lock, rules, delay, allowed, owed>>
gatewayVars == <<requestVars, hostVars>>

AnyHost == Hosts \cup {Foreign}
NoPage == [host |-> NoHost, hops |-> 0]
Nobody == NoHost

Larger(a, b) == IF a > b THEN a ELSE b

(* A fetch of a robots.txt, nested in a request for a page.                *)
ReadsRobots(r) == page[r] # NoPage

\* A mutant: a connection is taken before robots.txt is asked.
HoldersSinceCheck(h) ==
  {r \in Requests : \/ at[r] = h /\ pc[r] \in {"robots", "asleep", "open", "pausing"}
                    \/ page[r].host = h}

(* Who has one of the host's connections: from before the first attempt    *)
(* to after the last, the pauses between them included.                    *)
Holders(h) == {r \in Requests : at[r] = h /\ pc[r] \in {"asleep", "open", "pausing"}}

----------------------------------------------------------------------------
(* How a request ends, or a nested fetch returns to it.                    *)

(* What callers tell apart.                                                *)
Told(outcome) == IF outcome \in {"ok", "busy"} THEN outcome ELSE "failed"

Finish(r, outcome) ==
  /\ pc' = [pc EXCEPT ![r] = "done"]
  /\ result' = [result EXCEPT ![r] = Told(outcome)]
  /\ page' = [page EXCEPT ![r] = NoPage]
  /\ at' = [at EXCEPT ![r] = NoHost]
  /\ hops' = [hops EXCEPT ![r] = 0]

(* _check_robots once the rules are there: without another wait.           *)
JudgedBy(r, host, hop, verdict) ==
  IF verdict = "allows"
  THEN /\ pc' = [pc EXCEPT ![r] = "connecting"]
       /\ at' = [at EXCEPT ![r] = host]
       /\ hops' = [hops EXCEPT ![r] = hop]
       /\ page' = [page EXCEPT ![r] = NoPage]
       /\ UNCHANGED result
  ELSE Finish(r, verdict)

(* _robots_for, _fetch_robots: the rules are kept, the lock given back.    *)
Learn(r, verdict, crawl) ==
  LET h == page[r].host
      v == IF crawl > MaxCrawlDelay THEN "resting" ELSE verdict
  IN /\ rules' = [rules EXCEPT ![h] = v]
     /\ allowed' = IF v = "allows" THEN allowed \cup {h} ELSE allowed
     /\ delay' = [delay EXCEPT ![h] = IF v # "resting" /\ crawl > 0 THEN crawl ELSE @]
     /\ lock' = [lock EXCEPT ![h] = Nobody]
     /\ JudgedBy(r, h, page[r].hops, v)

LearnNothing(r) ==
  /\ lock' = [lock EXCEPT ![page[r].host] = Nobody]
  /\ UNCHANGED <<rules, allowed, delay>>

(* An error of a fetch.  One _fetch_robots does not expect leaves the      *)
(* rules unread and goes to the caller.                                    *)
Failed(r, error) ==
  IF ~ReadsRobots(r) THEN Finish(r, error) /\ UNCHANGED <<lock, rules, allowed, delay>>
  ELSE IF error = "escaped" THEN Finish(r, error) /\ LearnNothing(r)
  ELSE Learn(r, IF error = "gone" THEN "allows" ELSE "resting", 0)

----------------------------------------------------------------------------
(* One hop.                                                                *)

Ask(r, h) ==
  /\ pc[r] = "idle"
  /\ pc' = [pc EXCEPT ![r] = "checking"]
  /\ at' = [at EXCEPT ![r] = h]
  /\ UNCHANGED <<kind, hops, try, page, left, pace, result, hostVars>>

(* inspect_url, by the process's policy and the caller's narrower one.     *)
OnLists(r) == at[r] \in Hosts /\ (ReadsRobots(r) \/ at[r] \in kind[r].within)

(* What a name may resolve to; one address nobody may reach is enough.     *)
Addresses == {"public", "private", "none"}

Refuse(r) ==
  /\ pc[r] = "checking"
  /\ ~OnLists(r) \/ \E a \in Addresses : a # "public"
  /\ Failed(r, "rejected")
  /\ UNCHANGED <<kind, try, left, pace, due, owed>>

\* A mutant: a redirect is not asked for.
AsksRobotsFirst(r) == kind[r].robots /\ ~ReadsRobots(r) /\ hops[r] = 0

(* Every hop but those of a robots.txt itself.  A page that lies at the    *)
(* path of the robots.txt is let through too; no caller names one.         *)
AsksRobots(r) == kind[r].robots /\ ~ReadsRobots(r)

Clear(r) ==
  /\ pc[r] = "checking"
  /\ OnLists(r)
  /\ pc' = [pc EXCEPT ![r] = IF AsksRobots(r) THEN "robots" ELSE "connecting"]
  /\ UNCHANGED <<kind, at, hops, try, page, left, pace, result, hostVars>>

KnowRules(r) ==
  /\ pc[r] = "robots"
  /\ lock[at[r]] = Nobody
  /\ rules[at[r]] # "unread"
  /\ JudgedBy(r, at[r], hops[r], rules[at[r]])
  /\ UNCHANGED <<kind, try, left, pace, hostVars>>

ReadRules(r) ==
  /\ pc[r] = "robots"
  /\ lock[at[r]] = Nobody
  /\ rules[at[r]] = "unread"
  /\ lock' = [lock EXCEPT ![at[r]] = r]
  /\ page' = [page EXCEPT ![r] = [host |-> at[r], hops |-> hops[r]]]
  /\ hops' = [hops EXCEPT ![r] = 0]
  /\ pc' = [pc EXCEPT ![r] = "checking"]
  /\ UNCHANGED <<kind, at, try, left, pace, result, due, rules, delay, allowed, owed>>

----------------------------------------------------------------------------
(* Attempts.                                                               *)

\* A mutant: the next start is counted from now.
NextDueFromNow(h, interval) == interval

(* The next start is due an interval after this one.                       *)
NextDue(h, interval) == due[h] + interval

(* _space: the start is reserved under the lock and slept for outside it.  *)
SpaceFor(h) == Larger(Interval[h], delay[h])

Space(r) ==
  LET h == at[r]
      interval == SpaceFor(h)
      sleeps == interval > 0 /\ due[h] > 0
  IN /\ due' = [due EXCEPT ![h] = IF interval = 0 THEN @ ELSE NextDue(h, interval)]
     /\ pc' = [pc EXCEPT ![r] = IF sleeps THEN "asleep" ELSE "open"]
     /\ left' = [left EXCEPT ![r] = IF sleeps THEN due[h] ELSE 0]
     /\ pace' = [pace EXCEPT ![r] = IF sleeps THEN interval ELSE 0]
     /\ owed' = IF sleeps THEN [owed EXCEPT ![r] = owed[h]] ELSE [owed EXCEPT ![h] = Larger(@, interval - MaxLate)]
     /\ UNCHANGED <<kind, at, hops, page, result, lock, rules, delay, allowed>>

Connect(r) ==
  /\ pc[r] = "connecting"
  /\ Cardinality(Holders(at[r])) < kind[r].limit
  /\ Space(r)
  /\ UNCHANGED try

(* Whoever reserved a start at the host of r after it, or has yet to.      *)
After(r) == {at[r]} \cup {q \in Requests : pc[q] = "asleep" /\ at[q] = at[r] /\ left[q] > left[r]}

Start(r) ==
  /\ pc[r] = "asleep"
  /\ left[r] <= 0
  /\ pc' = [pc EXCEPT ![r] = "open"]
  /\ left' = [left EXCEPT ![r] = 0]
  /\ owed' = [x \in Hosts \cup Requests |->
                IF x = r THEN 0 ELSE IF x \in After(r) THEN Larger(owed[x], pace[r] - MaxLate) ELSE owed[x]]
  /\ pace' = [pace EXCEPT ![r] = 0]
  /\ UNCHANGED <<kind, at, hops, try, page, result, due, lock, rules, delay, allowed>>

(* A timeout, a lost connection or a RETRY_STATUS is tried again if the    *)
(* caller said so; never for a robots.txt.                                 *)
MayRetry(r) == kind[r].retry /\ ~ReadsRobots(r) /\ try[r] < MaxAttempts

TryLater(r) ==
  /\ pc[r] = "open"
  /\ MayRetry(r)
  /\ pc' = [pc EXCEPT ![r] = "pausing"]
  /\ left' = [left EXCEPT ![r] = Pause]
  /\ UNCHANGED <<kind, at, hops, try, page, pace, result, hostVars>>

TryAgain(r) ==
  /\ pc[r] = "pausing"
  /\ left[r] <= 0
  /\ try' = [try EXCEPT ![r] = @ + 1]
  /\ Space(r)

(* The last attempt: "busy" is a RETRY_STATUS, "gone" a 4xx but 429,       *)
(* "fault" another status, "unreachable" a timeout or a lost connection,   *)
(* "large" a body past the limit, "escaped" what httpx raises besides.     *)
Fail(r) ==
  /\ pc[r] = "open"
  /\ try' = [try EXCEPT ![r] = 1]
  /\ \/ \E e \in {"gone", "fault", "large", "escaped"} : Failed(r, e)
     \/ ~MayRetry(r) /\ \E e \in {"busy", "unreachable"} : Failed(r, e)
  /\ UNCHANGED <<kind, left, pace, due, owed>>

(* What a robots.txt may say of the path asked for.                        *)
RobotsVerdicts == {"allows", "bars"}

Succeed(r) ==
  /\ pc[r] = "open"
  /\ try' = [try EXCEPT ![r] = 1]
  /\ IF ReadsRobots(r)
     THEN \E v \in RobotsVerdicts, crawl \in CrawlDelays : Learn(r, v, crawl)
     ELSE Finish(r, "ok") /\ UNCHANGED <<lock, rules, allowed, delay>>
  /\ UNCHANGED <<kind, left, pace, due, owed>>

(* A Location that is missing, or a redirect that would drop the body, is  *)
(* a "fault" of Fail.                                                      *)
Redirect(r, h) ==
  /\ pc[r] = "open"
  /\ try' = [try EXCEPT ![r] = 1]
  /\ hops[r] < MaxRedirects
  /\ at' = [at EXCEPT ![r] = h]
  /\ hops' = [hops EXCEPT ![r] = @ + 1]
  /\ pc' = [pc EXCEPT ![r] = "checking"]
  /\ UNCHANGED <<kind, page, left, pace, result, hostVars>>

RefuseRedirect(r) ==
  /\ pc[r] = "open"
  /\ try' = [try EXCEPT ![r] = 1]
  /\ hops[r] = MaxRedirects
  /\ Failed(r, "redirects")
  /\ UNCHANGED <<kind, left, pace, due, owed>>

(* A robots.txt is kept for 24 hours at most.                              *)
Expire(h) ==
  /\ rules[h] # "unread"
  /\ rules' = [rules EXCEPT ![h] = "unread"]
  /\ UNCHANGED <<requestVars, due, lock, delay, allowed, owed>>

----------------------------------------------------------------------------
Sleeping(r) == pc[r] \in {"asleep", "pausing"}

(* A tick; the requests of "also" sleep outside the gateway.               *)
GatewayTickWith(also) ==
  /\ \A r \in Requests : Sleeping(r) => left[r] > -MaxLate
  /\ left' = [r \in Requests |-> IF Sleeping(r) \/ r \in also THEN left[r] - 1 ELSE left[r]]
  /\ due' = [h \in Hosts |-> Larger(due[h] - 1, 0)]
  /\ owed' = [x \in Hosts \cup Requests |-> Larger(owed[x] - 1, 0)]
  /\ UNCHANGED <<kind, pc, at, hops, try, page, pace, result, lock, rules, delay, allowed>>

GatewayInit ==
  /\ kind \in Scenarios
  /\ pc = [r \in Requests |-> "idle"]
  /\ at = [r \in Requests |-> NoHost]
  /\ hops = [r \in Requests |-> 0]
  /\ try = [r \in Requests |-> 1]
  /\ page = [r \in Requests |-> NoPage]
  /\ left = [r \in Requests |-> 0]
  /\ pace = [r \in Requests |-> 0]
  /\ result = [r \in Requests |-> "none"]
  /\ due = [h \in Hosts |-> 0]
  /\ lock = [h \in Hosts |-> Nobody]
  /\ rules = [h \in Hosts |-> "unread"]
  /\ delay = [h \in Hosts |-> 0]
  /\ allowed = {}
  /\ owed = [x \in Hosts \cup Requests |-> 0]

(* What a request does once it was made.                                   *)
Proceed(r) ==
  \/ Clear(r) \/ Refuse(r) \/ KnowRules(r) \/ ReadRules(r) \/ Connect(r)
  \/ Start(r) \/ TryLater(r) \/ TryAgain(r) \/ Fail(r) \/ Succeed(r)
  \/ RefuseRedirect(r) \/ \E h \in AnyHost : Redirect(r, h)

----------------------------------------------------------------------------
(* Properties.                                                             *)

(* However many requests wait, are retried or wake late: a start at a host *)
(* keeps from every start reserved before it the interval that one was     *)
(* given, up to one late wake; lateness does not add up (_space: "six      *)
(* concurrent requests still start one interval apart").                   *)
StartsKeepApart ==
  [][\A r \in Requests :
       pc[r] # "open" /\ pc'[r] = "open" => owed[IF pc[r] = "asleep" THEN r ELSE at[r]] = 0]_gatewayVars

(* No hop of a request, wherever redirects lead, reaches a host off the    *)
(* allowlist or off the caller's own narrower list, nor - where robots.txt *)
(* is obeyed - a page of a host that never let us (_send, _check_robots).  *)
EveryHopCleared ==
  \A r \in Requests : pc[r] = "open" =>
    /\ at[r] \in Hosts
    /\ ~ReadsRobots(r) => at[r] \in kind[r].within
    /\ kind[r].robots /\ ~ReadsRobots(r) => at[r] \in allowed
=============================================================================
