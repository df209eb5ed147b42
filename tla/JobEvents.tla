------------------------------ MODULE JobEvents ------------------------------
(***************************************************************************)
(* The progress of jobs for browsers (api/job_events.py, and the stream in *)
(* api/processing_route.py): one LISTEN connection per process, one reader *)
(* of rows, and a slot of one state per client.                            *)
(*                                                                         *)
(* The queue commits a change and its message together; a message names a  *)
(* run and reaches the process only while its connection stands.  The two  *)
(* tasks of the hub and the requests share one event loop, so what runs    *)
(* between two awaits is one action.  The row of a job is read in a thread *)
(* and counts as a version: each change of a job is a newer one.           *)
(***************************************************************************)
EXTENDS Integers, FiniteSets

CONSTANTS
  Clients,       \* browsers
  Jobs, Runs,
  JobOf,         \* the job a browser follows
  RunOf,         \* the run a job hangs on
  Last,          \* versions of a row: 0 .. Last, the last one is a final state
  MaxFollowers   \* MAX_FOLLOWERS

ASSUME FollowAssumption ==
  /\ IsFiniteSet(Clients)
  /\ JobOf \in [Clients -> Jobs] /\ RunOf \in [Jobs -> Runs]
  /\ Last \in Nat /\ MaxFollowers \in Nat

Gone   == Last + 1    \* the row of the job was deleted
Nothing == -1         \* an empty slot, or a browser that was shown nothing yet

VARIABLES
  row,       \* the committed version of each job's row
  conn,      \* "down"; "listening": LISTEN stands; "up": every run was marked since
  notices,   \* runs of messages that arrived on the connection and are not read yet
  up,        \* the hub's tasks run (start .. stop)
  dirty, wake,     \* _dirty, _wake
  fan, batch,      \* the fan-out task: where it is, and what is left of its round
  reads,     \* reads of rows that have not been handed out
  pc,        \* a client's request
  count,     \* _count
  slot,      \* Subscription._latest
  shown      \* the newest version a browser was sent, over all its connections

hubVars    == <<conn, notices, up>>
fanVars    == <<dirty, wake, fan, batch, reads>>
clientVars == <<pc, count, slot, shown>>
vars       == <<row, hubVars, fanVars, clientVars>>

Read == [run : Runs, to : SUBSET Clients, done : BOOLEAN, got : [Jobs -> 0 .. Gone]]

Run(c)      == RunOf[JobOf[c]]
Registered  == {c \in Clients : pc[c] \in {"in", "closed"}}
Subs(r)     == {c \in Registered : Run(c) = r}

Init ==
  /\ row = [j \in Jobs |-> 0]
  /\ conn = "down" /\ notices = {} /\ up = TRUE
  /\ dirty = {} /\ wake = FALSE /\ fan = "wait" /\ batch = {} /\ reads = {}
  /\ pc = [c \in Clients |-> "out"] /\ count = 0
  /\ slot = [c \in Clients |-> Nothing] /\ shown = [c \in Clients |-> Nothing]

-----------------------------------------------------------------------------
(* The queue: some jobs of a run change, with one message for the run.      *)

Sent(r) == notices' = IF conn = "down" THEN notices ELSE notices \cup {r}

Change(r) ==
  /\ \E changed \in SUBSET {j \in Jobs : RunOf[j] = r /\ row[j] < Last} \ {{}}, final \in BOOLEAN :
       row' = [j \in Jobs |-> IF j \notin changed THEN row[j] ELSE IF final THEN Last ELSE row[j] + 1]
  /\ Sent(r)
  /\ UNCHANGED <<conn, up, fanVars, clientVars>>

\* The clean-up deletes a job that is over or never ran; it sends no message.
Remove(j) ==
  /\ row[j] \in {0, Last}
  /\ row' = [row EXCEPT ![j] = Gone]
  /\ UNCHANGED <<hubVars, fanVars, clientVars>>

-----------------------------------------------------------------------------
(* The listener *)

\* A run somebody follows is to be read again.
Mark(R) ==
  LET followed == {r \in R : Subs(r) # {}}
  IN  dirty' = dirty \cup followed /\ wake' = (wake \/ followed # {})

ListenStands ==
  /\ up /\ conn = "down"
  /\ conn' = "listening"
  /\ UNCHANGED <<row, notices, up, fanVars, clientVars>>

\* A mutant: after a reconnect the hub waits for the next message.
MarkNone ==
  /\ up /\ conn = "listening"
  /\ conn' = "up"
  /\ UNCHANGED <<row, notices, up, fanVars, clientVars>>

MarkAll ==
  /\ up /\ conn = "listening"
  /\ conn' = "up"
  /\ Mark(Runs)
  /\ UNCHANGED <<row, notices, up, fan, batch, reads, clientVars>>

Hear(r) ==
  /\ up /\ conn = "up" /\ r \in notices
  /\ notices' = notices \ {r}
  /\ Mark({r})
  /\ UNCHANGED <<row, conn, up, fan, batch, reads, clientVars>>

\* The connection breaks, with what arrived on it.
Drop ==
  /\ conn # "down"
  /\ conn' = "down" /\ notices' = {}
  /\ UNCHANGED <<row, up, fanVars, clientVars>>

-----------------------------------------------------------------------------
(* The fan-out *)

\* A mutant: a round does not wait for its reads (a task for each).
NeverBusy == FALSE
Busy == reads # {}

TakeBatch ==
  /\ up /\ fan = "wait" /\ wake
  /\ fan' = "work" /\ batch' = dirty
  /\ dirty' = {} /\ wake' = FALSE
  /\ UNCHANGED <<row, hubVars, reads, clientVars>>

StartRead(r) ==
  /\ up /\ fan = "work" /\ ~Busy /\ r \in batch
  /\ batch' = batch \ {r}
  /\ reads' = IF Subs(r) = {} THEN reads
              ELSE reads \cup {[run |-> r, to |-> Subs(r), done |-> FALSE, got |-> [j \in Jobs |-> 0]]}
  /\ UNCHANGED <<row, hubVars, dirty, wake, fan, clientVars>>

BatchDone ==
  /\ up /\ fan = "work" /\ ~Busy /\ batch = {}
  /\ fan' = "wait"
  /\ UNCHANGED <<row, hubVars, dirty, wake, batch, reads, clientVars>>

\* In the thread: the rows as they are now.
ReadRow(x) ==
  /\ x \in reads /\ ~x.done
  /\ reads' = (reads \ {x}) \cup {[x EXCEPT !.done = TRUE, !.got = row]}
  /\ UNCHANGED <<row, hubVars, dirty, wake, fan, batch, clientVars>>

\* Back in the loop: the newest state in the slot of each client that followed the run
\* when the read began; a job without a row leaves its slot as it is.
Deliver(x) ==
  /\ up /\ x \in reads /\ x.done
  /\ reads' = reads \ {x}
  /\ slot' = [c \in Clients |-> IF c \in x.to /\ x.got[JobOf[c]] # Gone
                                THEN x.got[JobOf[c]] ELSE slot[c]]
  /\ UNCHANGED <<row, hubVars, dirty, wake, fan, batch, pc, count, shown>>

\* A mutant: the run is not tried again.
GiveUp(x) ==
  /\ up /\ x \in reads /\ ~x.done
  /\ reads' = reads \ {x}
  /\ fan' = "sleep"
  /\ UNCHANGED <<row, hubVars, dirty, wake, batch, clientVars>>

\* The read fails: the run stays marked, the task sleeps and wakes itself.
ReadFails(x) ==
  /\ up /\ x \in reads /\ ~x.done
  /\ reads' = reads \ {x}
  /\ dirty' = dirty \cup {x.run}
  /\ fan' = "sleep"
  /\ UNCHANGED <<row, hubVars, wake, batch, clientVars>>

SleepEnds ==
  /\ up /\ fan = "sleep"
  /\ fan' = "work" /\ wake' = TRUE
  /\ UNCHANGED <<row, hubVars, dirty, batch, reads, clientVars>>

-----------------------------------------------------------------------------
(* A client's request *)

Room == count < MaxFollowers

\* subscribe, up to its await: the run of the job is looked up in a thread.  A job found
\* then was there when the request came, for a deleted row never returns.  The server
\* ends every request before it stops the hub.
Ask(c) ==
  /\ up /\ pc[c] = "out" /\ Room /\ row[JobOf[c]] # Gone
  /\ pc' = [pc EXCEPT ![c] = "looking"]
  /\ UNCHANGED <<row, hubVars, fanVars, count, slot, shown>>

\* After the await: the room is checked again.  The queue may be out of reach, the job
\* unknown, the process full: the client is turned away.
TurnedAway(c) ==
  /\ pc[c] = "looking"
  /\ pc' = [pc EXCEPT ![c] = "out"]
  /\ UNCHANGED <<row, hubVars, fanVars, count, slot, shown>>

Register(c) ==
  /\ up /\ pc[c] = "looking" /\ Room
  /\ pc' = [pc EXCEPT ![c] = "in"] /\ count' = count + 1
  /\ slot' = [slot EXCEPT ![c] = Nothing]
  /\ dirty' = dirty \cup {Run(c)} /\ wake' = TRUE
  /\ UNCHANGED <<row, hubVars, fan, batch, reads, shown>>

\* The stream takes the newest state and sends it; it ends with a final one.
Take(c) ==
  /\ pc[c] = "in" /\ slot[c] # Nothing
  /\ shown' = [shown EXCEPT ![c] = slot[c]]
  /\ slot' = [slot EXCEPT ![c] = Nothing]
  /\ pc' = IF slot[c] = Last THEN [pc EXCEPT ![c] = "closed"] ELSE pc
  /\ UNCHANGED <<row, hubVars, fanVars, count>>

\* The stream has ended or the browser has left: the slot is out of the hub, a read on
\* its way puts its state nowhere.
Unsubscribe(c) ==
  /\ c \in Registered
  /\ pc' = [pc EXCEPT ![c] = "out"] /\ count' = count - 1
  /\ slot' = [slot EXCEPT ![c] = Nothing]
  /\ reads' = {[x EXCEPT !.to = @ \ {c}] : x \in reads}
  /\ UNCHANGED <<row, hubVars, dirty, wake, fan, batch, shown>>

\* The process shuts down: the tasks are cancelled, every stream is ended.
Stop ==
  /\ up
  /\ up' = FALSE /\ conn' = "down" /\ notices' = {}
  /\ pc' = [c \in Clients |-> IF pc[c] = "in" THEN "closed" ELSE pc[c]]
  /\ UNCHANGED <<row, fanVars, count, slot, shown>>

-----------------------------------------------------------------------------

FanOut ==
  \/ TakeBatch \/ BatchDone \/ SleepEnds
  \/ \E r \in Runs : StartRead(r)
  \/ \E x \in reads : Deliver(x)

Next ==
  \/ \E r \in Runs : Change(r)
  \/ \E j \in Jobs : Remove(j)
  \/ ListenStands \/ MarkAll \/ Drop \/ Stop
  \/ \E r \in Runs : Hear(r)
  \/ FanOut
  \/ \E x \in reads : ReadRow(x) \/ ReadFails(x)
  \/ \E c \in Clients : Ask(c) \/ TurnedAway(c) \/ Register(c) \/ Take(c) \/ Unsubscribe(c)

\* The event loop gets to every task; a connection comes up and a read succeeds now and
\* then if they are tried again and again.  Nothing makes a client stay or leave.
Fairness ==
  /\ WF_vars(ListenStands) /\ SF_vars(MarkAll)
  /\ \A r \in Runs : SF_vars(Hear(r))
  /\ WF_vars(FanOut)
  /\ \A r \in Runs : SF_vars(\E x \in reads : x.run = r /\ ReadRow(x))
  /\ \A c \in Clients : WF_vars(Take(c))

Spec == Init /\ [][Next]_vars /\ Fairness

-----------------------------------------------------------------------------
(* Properties *)

TypeOK ==
  /\ row \in [Jobs -> 0 .. Gone]
  /\ conn \in {"down", "listening", "up"} /\ notices \subseteq Runs /\ up \in BOOLEAN
  /\ dirty \subseteq Runs /\ wake \in BOOLEAN
  /\ fan \in {"wait", "work", "sleep"} /\ batch \subseteq Runs
  /\ reads \subseteq Read
  /\ pc \in [Clients -> {"out", "looking", "in", "closed"}]
  /\ count \in Nat
  /\ slot \in [Clients -> Nothing .. Last] /\ shown \in [Clients -> Nothing .. Last]

\* The process never serves more streams than it will, also when many clients ask while
\* the look-ups of others are on their way, and its counter forgets no stream that ends
\* in any way (subscribe, unsubscribe).
FollowersCounted == count = Cardinality(Registered) /\ count <= MaxFollowers

\* No lost wake-up: a client whose slot is behind its row has a read, a mark, a message or
\* a connection still to come that brings it forward (_listen, _fan_out, subscribe).
Coming(c) ==
  LET r == Run(c)  v == row[JobOf[c]]
  IN  \/ r \in dirty \/ r \in batch
      \/ \E x \in reads : x.run = r /\ c \in x.to /\ (x.done => x.got[JobOf[c]] = v)
      \/ conn = "up" => r \in notices

NothingForgotten ==
  /\ up => \A c \in Clients :
       pc[c] = "in" /\ row[JobOf[c]] # Gone
         => slot[c] = row[JobOf[c]] \/ shown[c] = row[JobOf[c]] \/ Coming(c)
  /\ dirty # {} => wake \/ fan = "sleep"
  /\ batch # {} => fan # "wait"

\* One read at a time, and what it found is no older than what its clients have in their
\* slots or were sent; nobody holds a state the row has not had.
StatesInOrder ==
  /\ \A x, y \in reads : x = y
  /\ \A c \in Clients :
       /\ shown[c] <= row[JobOf[c]] /\ slot[c] <= row[JobOf[c]]
       /\ slot[c] # Nothing => shown[c] <= slot[c]
  /\ \A x \in reads : x.done =>
       /\ \A j \in Jobs : x.got[j] <= row[j]
       /\ \A c \in x.to : shown[c] <= x.got[JobOf[c]] /\ slot[c] <= x.got[JobOf[c]]

\* The hub counts its followers rightly, owes none of them a change it does not know of, and
\* hands states out in the order in which they were (follow, _reconnect, _round).
HubKeepsTrack == TypeOK /\ FollowersCounted /\ NothingForgotten /\ StatesInOrder

\* A browser never sees an old state after a newer one, also over several connections
\* (one reader in the process).
NeverBackwards == [][\A c \in Clients : shown'[c] >= shown[c]]_vars

\* Whoever keeps following a job is told its newest state in the end, and its stream ends
\* with a final one, however often the connection breaks or a read fails.
CaughtUp(c) == shown[c] = row[JobOf[c]] /\ row[JobOf[c]] # Last
FollowersCatchUp ==
  \A c \in Clients :
    pc[c] = "in" ~> pc[c] # "in" \/ CaughtUp(c) \/ row[JobOf[c]] = Gone \/ ~up

\* What the docstring of the stream says: "the stream ends with the job".
StreamEndsWithJob ==
  \A c \in Clients : pc[c] = "in" /\ row[JobOf[c]] = Gone ~> pc[c] # "in"
=============================================================================
