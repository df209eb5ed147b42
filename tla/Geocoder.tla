------------------------------ MODULE Geocoder ------------------------------
(***************************************************************************)
(* Place searches (api/geocode_route.py, adapters/nominatim.py) on top of  *)
(* the gateway.  A lookup takes a pooled database connection for its whole *)
(* life, asks the cache, reserves a slot of the one pointer every process  *)
(* shares (catalog/geocode_cache.py), sleeps until then and hands its      *)
(* request to the gateway once.  There it may still wait for the one       *)
(* connection to the host, and follows redirects.                          *)
(* A "429" pushes the pointer back.                                        *)
(*                                                                         *)
(* A lookup is a request of the gateway whose kind has a slot.             *)
(***************************************************************************)
EXTENDS Gateway

CONSTANTS
  PoolSize,   \* connections of the pool
  SlotTicks,  \* one second, the distance of two slots
  MaxWait,    \* MAX_WAIT_S
  PushBack    \* PUSH_BACK_ON_429_S

ASSUME GeocoderAssumption ==
  /\ PoolSize \in Nat \ {0} /\ SlotTicks \in Nat \ {0}
  /\ MaxWait \in Nat /\ PushBack \in Nat /\ PushBack > MaxWait

VARIABLES
  desk,     \* where each lookup stands outside the gateway
  slot,     \* next_slot, in ticks from now
  stored,   \* whether the cache holds the answer
  passed,   \* history: ticks passed the last lookup was handed over, and passed a push back
  early     \* history: the lookups that had reserved before the last push back

geocoderVars == <<desk, slot, stored, passed, early>>
vars == <<gatewayVars, geocoderVars>>

Lookups == {r \in DOMAIN kind : kind[r].slot}
Connections == {r \in Requests : desk[r] \in {"connected", "missed", "asleep", "handed"}}

Answered(r) == desk' = [desk EXCEPT ![r] = "over"]

(* The pool hands out a connection, or does not in time.                   *)
GetConnection(r) ==
  /\ r \in Lookups /\ desk[r] = "asked"
  /\ Cardinality(Connections) < PoolSize
  /\ desk' = [desk EXCEPT ![r] = "connected"]
  /\ UNCHANGED <<gatewayVars, slot, stored, passed, early>>

NoConnection(r) ==
  /\ r \in Lookups /\ desk[r] = "asked"
  /\ Answered(r)
  /\ UNCHANGED <<gatewayVars, slot, stored, passed, early>>

(* A cache that cannot be read is a miss.                                  *)
LookUp(r) ==
  /\ desk[r] = "connected"
  /\ \/ stored /\ Answered(r)
     \/ desk' = [desk EXCEPT ![r] = "missed"]
  /\ UNCHANGED <<gatewayVars, slot, stored, passed, early>>

(* reserve: always moves the pointer, also for a caller that will not wait *)
(* that long.                                                              *)
Reserved == slot + SlotTicks

Reserve(r) ==
  /\ desk[r] = "missed"
  /\ slot' = Reserved
  /\ IF slot > MaxWait
     THEN Answered(r) /\ UNCHANGED left
     ELSE /\ desk' = [desk EXCEPT ![r] = "asleep"]
          /\ left' = [left EXCEPT ![r] = slot]
  /\ early' = early \ {r}
  /\ UNCHANGED <<kind, pc, at, hops, try, page, pace, result, hostVars, stored, passed>>

CannotReserve(r) ==
  /\ desk[r] = "missed"
  /\ Answered(r)
  /\ UNCHANGED <<gatewayVars, slot, stored, passed, early>>

HandOver(r, h) ==
  /\ desk[r] = "asleep" /\ left[r] <= 0 /\ h \in kind[r].within
  /\ Ask(r, h)
  /\ desk' = [desk EXCEPT ![r] = "handed"]
  /\ passed' = [passed EXCEPT !.handed = 0]
  /\ UNCHANGED <<slot, stored, early>>

(* The answer is kept if the cache can be written.                         *)
Found(r) ==
  /\ desk[r] = "handed" /\ pc[r] = "done" /\ result[r] = "ok"
  /\ Answered(r)
  /\ stored' \in {stored, TRUE}
  /\ UNCHANGED <<gatewayVars, slot, passed, early>>

\* A mutant: the pointer is pushed back less than a lookup may wait.
PushedBackLate == Larger(slot, PushBack - MaxWait)

(* push_back: the pointer moves by at least PUSH_BACK_ON_429_S.            *)
PushedBack == slot + PushBack

(* 429: other lookups may hold slots they reserved before.                 *)
ToldToWait(r) ==
  /\ desk[r] = "handed" /\ pc[r] = "done" /\ result[r] = "busy"
  /\ Answered(r)
  /\ slot' = PushedBack
  /\ passed' = [passed EXCEPT !.push = 0]
  /\ early' = {q \in Lookups : desk[q] \in {"asleep", "handed"}}
  /\ UNCHANGED <<gatewayVars, stored>>

(* Any other error, and a push back that the database does not take.       *)
NotFound(r) ==
  /\ desk[r] = "handed" /\ pc[r] = "done" /\ result[r] # "ok"
  /\ Answered(r)
  /\ UNCHANGED <<gatewayVars, slot, stored, passed, early>>

ForgetPlace ==
  /\ stored
  /\ stored' = FALSE
  /\ UNCHANGED <<gatewayVars, desk, slot, passed, early>>

----------------------------------------------------------------------------
Plain(r) == r \in DOMAIN kind \ Lookups /\ \E h \in AnyHost : Ask(r, h)

Aged(n, cap) == IF n < cap THEN n + 1 ELSE n

Tick ==
  /\ \A r \in Requests : desk[r] = "asleep" => left[r] > -MaxLate
  /\ GatewayTickWith({r \in Requests : desk[r] = "asleep"})
  /\ slot' = Larger(slot - 1, 0)
  /\ passed' = [handed |-> Aged(passed.handed, SlotTicks), push |-> Aged(passed.push, PushBack)]
  /\ UNCHANGED <<desk, stored, early>>

Init ==
  /\ GatewayInit
  /\ desk = [r \in Requests |-> IF r \in Lookups THEN "asked" ELSE "none"]
  /\ slot = 0
  /\ stored = FALSE
  /\ passed = [handed |-> SlotTicks, push |-> PushBack]
  /\ early = {}

LookupStep(r) ==
  \/ GetConnection(r) \/ NoConnection(r) \/ LookUp(r) \/ Reserve(r) \/ CannotReserve(r)
  \/ Found(r) \/ ToldToWait(r) \/ NotFound(r)
  \/ \E h \in AnyHost : HandOver(r, h)

Step(r) == LookupStep(r) \/ (Proceed(r) /\ UNCHANGED geocoderVars)

Next ==
  \/ \E r \in Requests : Step(r)
  \/ \E r \in Requests : Plain(r) /\ UNCHANGED geocoderVars
  \/ \E h \in Hosts : Expire(h) /\ UNCHANGED geocoderVars
  \/ ForgetPlace
  \/ Tick

(* Tasks run, answers come or time out, and time goes on.                  *)
Fairness == WF_vars(Tick) /\ \A r \in Requests : WF_vars(Step(r))

Spec == Init /\ [][Next]_vars /\ Fairness

----------------------------------------------------------------------------
(* Properties.                                                             *)

(* Lookups of all processes are handed to the gateway a second apart, up   *)
(* to one late wake, whichever of them were refused, failed or told to     *)
(* wait in between (geocode, reserve).  The requests themselves may start  *)
(* closer together: see FreeWhenHandedOver.                                *)
HandOversKeepApart ==
  [][\A r \in Requests : desk[r] = "asleep" /\ desk'[r] = "handed" => passed.handed >= SlotTicks - MaxLate]_vars

(* Does not hold, and so is no property of a run.  nominatim.py:14-16      *)
(* promises at most one request per second, summed over every process.     *)
(* That would follow if a lookup that is handed over found its connection  *)
(* free.  But a process has one connection to the host, an answer may take *)
(* ten seconds, and then the lookups that were handed over meanwhile start *)
(* back to back; a redirect is a further request without a slot.           *)
FreeWhenHandedOver ==
  \A r \in Lookups : desk[r] = "handed" /\ hops[r] = 0 /\ pc[r] = "connecting" => Cardinality(Holders(at[r])) < kind[r].limit

(* After a "429" nobody who reserves later is handed over before the push  *)
(* back is over; only slots given before it may still be used (push_back). *)
QuietAfterBusy ==
  [][\A r \in Requests :
       desk[r] = "asleep" /\ desk'[r] = "handed" => r \in early \/ passed.push >= PushBack]_vars

(* Every start at a host keeps its distance from the starts before it,     *)
(* every hand-over of a lookup from the hand-overs, and both to the pauses *)
(* the servers ask for (_space, reserve, push_back).                       *)
StartsAndHandOversSpaced == StartsKeepApart /\ HandOversKeepApart /\ QuietAfterBusy

(* Every request and every place search ends, all tasks having a limited   *)
(* number of them: the lock of a robots.txt, the connections it is read    *)
(* through, the retries, and the pool's connections that are held while a  *)
(* slot is waited for, never wait for each other in a ring.                *)
Busy(r) == pc[r] \notin {"idle", "done"} \/ desk[r] \notin {"none", "over"}

EveryoneIsAnswered == <>[](\A r \in Requests : ~Busy(r))
=============================================================================
