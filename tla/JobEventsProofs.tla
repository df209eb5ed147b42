-------------------------- MODULE JobEventsProofs --------------------------
(* Theorems about the job-event hub, for any number of clients, jobs and   *)
(* runs, any number of versions of a row and any room.                     *)
EXTENDS JobEvents, FiniteSetTheorems, TLAPS

USE DEF Gone, Nothing

LEMMA InitHub == Init => HubKeepsTrack
<1> SUFFICES ASSUME Init PROVE HubKeepsTrack
  OBVIOUS
<1>1. TypeOK
  <2>a. Init => row \in [Jobs -> 0 .. Gone]
    BY FollowAssumption DEF Init
  <2>b. slot \in [Clients -> Nothing .. Last] /\ shown \in [Clients -> Nothing .. Last]
    BY FollowAssumption DEF Init
  <2>c. reads \subseteq Read /\ count \in Nat
    BY DEF Init
  <2>d. pc \in [Clients -> {"out", "looking", "in", "closed"}]
    BY DEF Init
  <2> QED
    BY <2>a, <2>b, <2>c, <2>d DEF Init, TypeOK
<1>2. FollowersCounted
  <2>1. Registered = {}
    BY DEF Init, Registered
  <2> QED
    BY <2>1, FS_EmptySet, FollowAssumption DEF Init, FollowersCounted
<1>3. NothingForgotten
  BY FollowAssumption DEF Init, NothingForgotten
<1>4. StatesInOrder
  BY FollowAssumption DEF Init, StatesInOrder
<1> QED
  BY <1>1, <1>2, <1>3, <1>4 DEF HubKeepsTrack

-----------------------------------------------------------------------------
(* Types *)

LEMMA SomebodyCounted ==
  ASSUME TypeOK, FollowersCounted, NEW c \in Registered
  PROVE  count > 0 /\ IsFiniteSet(Registered)
<1>1. IsFiniteSet(Registered)
  <2>1. Registered \subseteq Clients
    BY DEF Registered
  <2> QED
    BY <2>1, FollowAssumption, FS_Subset
<1>2. Registered # {} => Cardinality(Registered) # 0
  BY <1>1, FS_EmptySet
<1> QED
  BY <1>1, <1>2 DEF FollowersCounted, TypeOK

LEMMA TypeKept ==
  ASSUME TypeOK, FollowersCounted, [Next]_vars
  PROVE  TypeOK'
<1> USE FollowAssumption DEF TypeOK, hubVars, fanVars, clientVars
<1>1. ASSUME NEW r \in Runs, Change(r) PROVE TypeOK'
  BY <1>1 DEF Change, Sent
<1>2. ASSUME NEW j \in Jobs, Remove(j) PROVE TypeOK'
  BY <1>2 DEF Remove
<1>3. CASE ListenStands \/ Drop \/ Stop
  BY <1>3 DEF ListenStands, Drop, Stop
<1>4. CASE MarkAll
  BY <1>4 DEF MarkAll, Mark
<1>5. ASSUME NEW r \in Runs, Hear(r) PROVE TypeOK'
  BY <1>5 DEF Hear, Mark
<1>6. CASE TakeBatch \/ BatchDone \/ SleepEnds
  BY <1>6 DEF TakeBatch, BatchDone, SleepEnds
<1>7. ASSUME NEW r \in Runs, StartRead(r) PROVE TypeOK'
  <2>1. [run |-> r, to |-> Subs(r), done |-> FALSE, got |-> [j \in Jobs |-> 0]] \in Read
    BY DEF Read, Subs, Registered
  <2> QED
    BY <1>7, <2>1 DEF StartRead
<1>8. ASSUME NEW x \in reads, Deliver(x) PROVE TypeOK'
  <2>1. \A c \in Clients : x.got[JobOf[c]] \in 0 .. Gone
    BY DEF Read
  <2> QED
    BY <1>8, <2>1 DEF Deliver
<1>9. ASSUME NEW x \in reads, ReadRow(x) PROVE TypeOK'
  <2>1. [x EXCEPT !.done = TRUE, !.got = row] \in Read
    BY DEF Read
  <2> QED
    BY <1>9, <2>1 DEF ReadRow
<1>10. ASSUME NEW x \in reads, ReadFails(x) PROVE TypeOK'
  <2>1. x.run \in Runs
    BY DEF Read
  <2> QED
    BY <1>10, <2>1 DEF ReadFails
<1>11. ASSUME NEW c \in Clients, Ask(c) \/ TurnedAway(c) PROVE TypeOK'
  BY <1>11 DEF Ask, TurnedAway
<1>12. ASSUME NEW c \in Clients, Register(c) PROVE TypeOK'
  <2>1. Run(c) \in Runs
    BY DEF Run
  <2> QED
    BY <1>12, <2>1 DEF Register
<1>13. ASSUME NEW c \in Clients, Take(c) PROVE TypeOK'
  BY <1>13 DEF Take
<1>14. ASSUME NEW c \in Clients, Unsubscribe(c) PROVE TypeOK'
  <2>1. \A x \in reads : [x EXCEPT !.to = @ \ {c}] \in Read
    BY DEF Read
  <2>2. count > 0
    BY <1>14, SomebodyCounted DEF Unsubscribe
  <2> QED
    BY <1>14, <2>1, <2>2 DEF Unsubscribe
<1>15. CASE UNCHANGED vars
  BY <1>15 DEF vars
<1> QED
  BY <1>1, <1>2, <1>3, <1>4, <1>5, <1>6, <1>7, <1>8, <1>9, <1>10, <1>11, <1>12, <1>13, <1>14, <1>15
  DEF Next, FanOut

-----------------------------------------------------------------------------
(* Room *)

\* Only Register lets somebody in, and only Unsubscribe out.
LEMMA CountKept ==
  ASSUME TypeOK, FollowersCounted, [Next]_vars
  PROVE  FollowersCounted'
<1>1. IsFiniteSet(Registered)
  <2>1. Registered \subseteq Clients
    BY DEF Registered
  <2> QED
    BY <2>1, FollowAssumption, FS_Subset
<1>2. ASSUME NEW c \in Clients, Register(c) PROVE FollowersCounted'
  <2>1. Registered' = Registered \cup {c} /\ c \notin Registered
    BY <1>2 DEF Register, Registered, TypeOK
  <2>2. Cardinality(Registered') = Cardinality(Registered) + 1
    BY <1>1, <2>1, FS_AddElement
  <2> QED
    BY <1>2, <2>2, FollowAssumption DEF Register, Room, FollowersCounted, TypeOK
<1>3. ASSUME NEW c \in Clients, Unsubscribe(c) PROVE FollowersCounted'
  <2>1. Registered' = Registered \ {c} /\ c \in Registered
    BY <1>3 DEF Unsubscribe, Registered, TypeOK
  <2>2. Cardinality(Registered') = Cardinality(Registered) - 1
    BY <1>1, <2>1, FS_RemoveElement
  <2>3. count' = count - 1
    BY <1>3 DEF Unsubscribe
  <2> QED
    BY <2>2, <2>3, FollowAssumption DEF FollowersCounted, TypeOK
<1>4. ASSUME Registered' = Registered, count' = count PROVE FollowersCounted'
  BY <1>4 DEF FollowersCounted
<1>5. ASSUME NEW c \in Clients, Take(c) PROVE FollowersCounted'
  <2>1. Registered' = Registered
    BY <1>5 DEF Take, Registered, TypeOK
  <2> QED
    BY <1>4, <1>5, <2>1 DEF Take
<1>6. ASSUME NEW c \in Clients, Ask(c) \/ TurnedAway(c) PROVE FollowersCounted'
  <2>1. Registered' = Registered
    BY <1>6 DEF Ask, TurnedAway, Registered, TypeOK
  <2> QED
    BY <1>4, <1>6, <2>1 DEF Ask, TurnedAway
<1>7. CASE Stop
  <2>1. Registered' = Registered
    BY <1>7 DEF Stop, Registered, TypeOK
  <2> QED
    BY <1>4, <1>7, <2>1 DEF Stop
<1>8. CASE UNCHANGED <<pc, count>>
  BY <1>4, <1>8 DEF Registered
<1>9. CASE \/ UNCHANGED vars \/ ListenStands \/ MarkAll \/ Drop \/ FanOut
           \/ \E r \in Runs : Change(r) \/ Hear(r)
           \/ \E j \in Jobs : Remove(j)
           \/ \E x \in reads : ReadRow(x) \/ ReadFails(x)
  BY <1>8, <1>9 DEF vars, clientVars, ListenStands, MarkAll, Drop, FanOut, TakeBatch, BatchDone, SleepEnds,
     StartRead, Deliver, Change, Hear, Remove, ReadRow, ReadFails
<1> QED
  BY <1>2, <1>3, <1>5, <1>6, <1>7, <1>9 DEF Next

-----------------------------------------------------------------------------
(* The order of states *)

\* Rows only grow, and one read at a time is made, filled and handed out.
LEMMA OrderKept ==
  ASSUME TypeOK, StatesInOrder, [Next]_vars
  PROVE  StatesInOrder'
<1> USE FollowAssumption DEF hubVars, fanVars, clientVars
<1>1. ASSUME NEW r \in Runs, Change(r) PROVE StatesInOrder'
  <2>1. \A j \in Jobs : row[j] <= row'[j]
    BY <1>1 DEF Change, TypeOK
  <2>2. \A x \in reads : x.got \in [Jobs -> 0 .. Gone]
    BY DEF TypeOK, Read
  <2>3. row' \in [Jobs -> 0 .. Gone]
    BY <1>1, TypeKept DEF TypeOK, Change
  <2> QED
    BY <1>1, <2>1, <2>2, <2>3 DEF Change, StatesInOrder, TypeOK
<1>2. ASSUME NEW j \in Jobs, Remove(j) PROVE StatesInOrder'
  <2>1. \A i \in Jobs : row[i] <= row'[i]
    BY <1>2 DEF Remove, TypeOK
  <2>2. \A x \in reads : x.got \in [Jobs -> 0 .. Gone]
    BY DEF TypeOK, Read
  <2>3. row' \in [Jobs -> 0 .. Gone]
    BY <1>2 DEF TypeOK, Remove
  <2> QED
    BY <1>2, <2>1, <2>2, <2>3 DEF Remove, StatesInOrder, TypeOK
<1>3. ASSUME NEW r \in Runs, StartRead(r) PROVE StatesInOrder'
  <2>1. \A x, y \in reads' : x = y
    BY <1>3 DEF StartRead, Busy
  <2>2. \A x \in reads' : ~x.done
    BY <1>3 DEF StartRead, Busy
  <2> QED
    BY <1>3, <2>1, <2>2 DEF StartRead, StatesInOrder
<1>4. ASSUME NEW x \in reads, ReadRow(x) PROVE StatesInOrder'
  <2> DEFINE z == [x EXCEPT !.done = TRUE, !.got = row]
  <2>1. reads' = {z}
    <3>1. \A y \in reads : y = x
      BY DEF StatesInOrder
    <3> QED
      BY <1>4, <3>1 DEF ReadRow
  <2>2. z.got = row /\ z.to \subseteq Clients
    BY DEF TypeOK, Read
  <2>3. /\ \A j \in Jobs : row[j] <= row[j]
        /\ \A c \in Clients : shown[c] <= row[JobOf[c]] /\ slot[c] <= row[JobOf[c]]
    BY DEF StatesInOrder, TypeOK
  <2>4. \A y \in reads' : /\ \A j \in Jobs : y.got[j] <= row[j]
                         /\ \A c \in y.to : shown[c] <= y.got[JobOf[c]] /\ slot[c] <= y.got[JobOf[c]]
    <3> HIDE DEF z
    <3> QED
      BY <2>1, <2>2, <2>3
  <2>5. \A u, y \in reads' : u = y
    BY <2>1
  <2>6. UNCHANGED <<row, slot, shown>>
    BY <1>4 DEF ReadRow
  <2>7. \A c \in Clients :
          /\ shown'[c] <= row'[JobOf[c]] /\ slot'[c] <= row'[JobOf[c]]
          /\ slot'[c] # Nothing => shown'[c] <= slot'[c]
    BY <2>6 DEF StatesInOrder
  <2>8. \A y \in reads' : y.done => /\ \A j \in Jobs : y.got[j] <= row'[j]
                                   /\ \A c \in y.to : shown'[c] <= y.got[JobOf[c]] /\ slot'[c] <= y.got[JobOf[c]]
    BY <2>4, <2>6
  <2> QED
    BY <2>5, <2>7, <2>8 DEF StatesInOrder
<1>5. ASSUME NEW x \in reads, Deliver(x) PROVE StatesInOrder'
  <2>1. reads' = {}
    BY <1>5 DEF Deliver, StatesInOrder
  <2>2. x.got \in [Jobs -> 0 .. Gone] /\ x.to \subseteq Clients
    BY DEF TypeOK, Read
  <2> QED
    BY <1>5, <2>1, <2>2 DEF Deliver, StatesInOrder, TypeOK
<1>6. ASSUME NEW x \in reads, ReadFails(x) PROVE StatesInOrder'
  BY <1>6 DEF ReadFails, StatesInOrder
<1>7. ASSUME NEW c \in Clients, Register(c) PROVE StatesInOrder'
  <2>1. \A x \in reads : x.got \in [Jobs -> 0 .. Gone]
    BY DEF TypeOK, Read
  <2> QED
    BY <1>7, <2>1 DEF Register, StatesInOrder, TypeOK
<1>8. ASSUME NEW c \in Clients, Take(c) PROVE StatesInOrder'
  <2>1. \A x \in reads : x.got \in [Jobs -> 0 .. Gone] /\ x.to \subseteq Clients
    BY DEF TypeOK, Read
  <2> QED
    BY <1>8, <2>1 DEF Take, StatesInOrder, TypeOK
<1>9. ASSUME NEW c \in Clients, Unsubscribe(c) PROVE StatesInOrder'
  <2>1. \A x \in reads : x.got \in [Jobs -> 0 .. Gone] /\ x.to \subseteq Clients
    BY DEF TypeOK, Read
  <2>2. \A x \in reads : /\ [x EXCEPT !.to = @ \ {c}].done = x.done
                         /\ [x EXCEPT !.to = @ \ {c}].got = x.got
                         /\ [x EXCEPT !.to = @ \ {c}].to = x.to \ {c}
    BY DEF TypeOK, Read
  <2>3. \A y \in reads' : \E x \in reads : y = [x EXCEPT !.to = @ \ {c}]
    BY <1>9 DEF Unsubscribe
  <2>4. \A x, y \in reads' : x = y
    BY <2>3 DEF StatesInOrder
  <2>5. \A y \in reads' : y.done => /\ \A j \in Jobs : y.got[j] <= row[j]
                                   /\ \A d \in y.to : shown[d] <= y.got[JobOf[d]] /\ slot'[d] <= y.got[JobOf[d]]
    <3> SUFFICES ASSUME NEW x \in reads, x.done
                 PROVE  /\ \A j \in Jobs : x.got[j] <= row[j]
                        /\ \A d \in x.to \ {c} : shown[d] <= x.got[JobOf[d]] /\ slot'[d] <= x.got[JobOf[d]]
      <4>1. TAKE y \in reads'
      <4>2. PICK x \in reads : y = [x EXCEPT !.to = @ \ {c}]
        BY <2>3
      <4>3. y.done = x.done /\ y.got = x.got /\ y.to = x.to \ {c}
        BY <2>2, <4>2
      <4> QED
        BY <4>3
    <3>1. \A d \in x.to \ {c} : d \in Clients /\ slot'[d] = slot[d]
      BY <1>9, <2>1 DEF Unsubscribe, TypeOK
    <3> QED
      BY <3>1 DEF StatesInOrder
  <2>6. slot'[c] = Nothing /\ \A d \in Clients \ {c} : slot'[d] = slot[d]
    BY <1>9 DEF Unsubscribe, TypeOK
  <2> QED
    BY <1>9, <2>4, <2>5, <2>6 DEF Unsubscribe, StatesInOrder, TypeOK
<1>10. CASE UNCHANGED <<row, reads, slot, shown>>
  BY <1>10 DEF StatesInOrder
<1>11. CASE \/ UNCHANGED vars \/ ListenStands \/ MarkAll \/ Drop \/ Stop \/ TakeBatch \/ BatchDone \/ SleepEnds
            \/ \E r \in Runs : Hear(r)
            \/ \E c \in Clients : Ask(c) \/ TurnedAway(c)
  BY <1>10, <1>11 DEF vars, ListenStands, MarkAll, Drop, Stop, TakeBatch, BatchDone, SleepEnds, Hear, Ask, TurnedAway
<1> QED
  BY <1>1, <1>2, <1>3, <1>4, <1>5, <1>6, <1>7, <1>8, <1>9, <1>11 DEF Next, FanOut

-----------------------------------------------------------------------------
(* Nothing is forgotten *)

Owed(c) ==
  pc[c] = "in" /\ row[JobOf[c]] # Gone
    => slot[c] = row[JobOf[c]] \/ shown[c] = row[JobOf[c]] \/ Coming(c)

LEMMA OwedKept ==
  ASSUME TypeOK, StatesInOrder, up => \A c \in Clients : Owed(c), batch # {} => fan # "wait", [Next]_vars,
         NEW c \in Clients, up'
  PROVE  Owed(c)'
<1> USE FollowAssumption DEF hubVars, fanVars, clientVars
<1>r. Run(c) \in Runs /\ Run(c)' = Run(c) /\ JobOf[c] \in Jobs
  BY DEF Run
<1>0. up /\ Owed(c)
  <2>1. ~up => ~up'
    BY DEF TypeOK, Next, FanOut, vars, Change, Remove, ListenStands, MarkAll, Drop, Stop, Hear, TakeBatch, BatchDone,
       SleepEnds, StartRead, Deliver, ReadRow, ReadFails, Ask, TurnedAway, Register, Take, Unsubscribe
  <2> QED
    BY <2>1
<1>1. ASSUME NEW r \in Runs, Change(r) PROVE Owed(c)'
  <2>1. CASE Run(c) = r
    BY <1>r, <1>1, <2>1 DEF Change, Sent, Owed, Coming
  <2>2. CASE Run(c) # r
    <3>1. row'[JobOf[c]] = row[JobOf[c]]
      BY <1>1, <2>2 DEF Change, Run, TypeOK
    <3> QED
      BY <1>r, <1>0, <1>1, <3>1 DEF Change, Sent, Owed, Coming
  <2> QED
    BY <2>1, <2>2
<1>2. ASSUME NEW j \in Jobs, Remove(j) PROVE Owed(c)'
  <2>1. row'[JobOf[c]] \in {Gone, row[JobOf[c]]}
    BY <1>2 DEF Remove, TypeOK
  <2> QED
    BY <1>r, <1>0, <1>2, <2>1 DEF Remove, Owed, Coming
<1>3. CASE ListenStands \/ Drop
  BY <1>r, <1>3 DEF ListenStands, Drop, Owed, Coming
<1>4. CASE MarkAll
  <2>1. pc[c] = "in" => Run(c) \in dirty'
    BY <1>r, <1>4 DEF MarkAll, Mark, Subs, Registered
  <2> QED
    BY <1>r, <1>4, <2>1 DEF MarkAll, Owed, Coming
<1>5. ASSUME NEW r \in Runs, Hear(r) PROVE Owed(c)'
  <2>1. pc[c] = "in" /\ Run(c) = r => Run(c) \in dirty'
    BY <1>r, <1>5 DEF Hear, Mark, Subs, Registered
  <2>2. dirty \subseteq dirty' /\ (Run(c) # r => (Run(c) \in notices => Run(c) \in notices'))
    BY <1>5 DEF Hear, Mark
  <2> QED
    BY <1>r, <1>0, <1>5, <2>1, <2>2 DEF Hear, Owed, Coming
<1>6. CASE TakeBatch
  <2>1. batch = {} /\ batch' = dirty
    BY <1>6 DEF TakeBatch
  <2> QED
    BY <1>r, <1>0, <1>6, <2>1 DEF TakeBatch, Owed, Coming
<1>7. CASE BatchDone \/ SleepEnds
  BY <1>r, <1>0, <1>7 DEF BatchDone, SleepEnds, Owed, Coming
<1>8. ASSUME NEW r \in Runs, StartRead(r) PROVE Owed(c)'
  <2>1. CASE Run(c) = r /\ pc[c] = "in"
    <3> DEFINE z == [run |-> r, to |-> Subs(r), done |-> FALSE, got |-> [j \in Jobs |-> 0]]
    <3>1. c \in Subs(r)
      BY <2>1 DEF Subs, Registered
    <3>2. z \in reads' /\ z.run = r /\ c \in z.to /\ ~z.done
      BY <1>8, <3>1 DEF StartRead
    <3> HIDE DEF z
    <3> QED
      BY <1>r, <2>1, <3>2 DEF Owed, Coming
  <2>2. CASE Run(c) # r
    BY <1>r, <1>0, <1>8, <2>2 DEF StartRead, Busy, Owed, Coming
  <2>3. CASE pc[c] # "in"
    BY <1>8, <2>3 DEF StartRead, Owed
  <2> QED
    BY <2>1, <2>2, <2>3
<1>9. ASSUME NEW x \in reads, ReadRow(x) PROVE Owed(c)'
  <2> DEFINE z == [x EXCEPT !.done = TRUE, !.got = row]
  <2>1. z \in reads' /\ z.run = x.run /\ z.to = x.to /\ z.got = row
    BY <1>9 DEF ReadRow, TypeOK, Read
  <2>2. \A y \in reads : y = x
    BY DEF StatesInOrder
  <2>3. UNCHANGED <<row, conn, notices, dirty, batch, pc, slot, shown>>
    BY <1>9 DEF ReadRow
  <2> HIDE DEF z
  <2>4. Coming(c) => Coming(c)'
    BY <1>r, <2>1, <2>2, <2>3 DEF Coming
  <2> QED
    BY <1>0, <2>3, <2>4 DEF Owed
<1>10. ASSUME NEW x \in reads, Deliver(x) PROVE Owed(c)'
  <2>1. x.done /\ (\A y \in reads : y = x) /\ x.got[JobOf[c]] \in 0 .. Gone
    BY <1>r, <1>10 DEF Deliver, StatesInOrder, TypeOK, Read
  <2>2. slot'[c] = IF c \in x.to /\ x.got[JobOf[c]] # Gone THEN x.got[JobOf[c]] ELSE slot[c]
    BY <1>10 DEF Deliver
  <2>3. UNCHANGED <<row, conn, notices, dirty, batch, pc, shown>>
    BY <1>10 DEF Deliver
  <2>4. c \in x.to => slot[c] <= x.got[JobOf[c]] /\ x.got[JobOf[c]] <= row[JobOf[c]]
    BY <1>r, <2>1 DEF StatesInOrder
  <2>5. row[JobOf[c]] \in 0 .. Gone /\ slot[c] \in Nothing .. Last
    BY <1>r DEF TypeOK
  <2>6. slot[c] = row[JobOf[c]] => slot'[c] = row[JobOf[c]]
    BY <2>1, <2>2, <2>4, <2>5
  <2>7. Coming(c) /\ row[JobOf[c]] # Gone => slot'[c] = row[JobOf[c]] \/ Coming(c)'
    BY <1>r, <2>1, <2>2, <2>3 DEF Coming
  <2> QED
    BY <1>0, <2>3, <2>6, <2>7 DEF Owed
<1>11. ASSUME NEW x \in reads, ReadFails(x) PROVE Owed(c)'
  <2>1. x.run \in dirty' /\ dirty \subseteq dirty' /\ \A y \in reads : y = x
    BY <1>11 DEF ReadFails, StatesInOrder
  <2> QED
    BY <1>r, <1>0, <1>11, <2>1 DEF ReadFails, Owed, Coming
<1>12. ASSUME NEW d \in Clients, Ask(d) \/ TurnedAway(d) PROVE Owed(c)'
  <2>1. pc'[c] = "in" => pc[c] = "in"
    BY <1>12 DEF Ask, TurnedAway, TypeOK
  <2> QED
    BY <1>r, <1>0, <1>12, <2>1 DEF Ask, TurnedAway, Owed, Coming
<1>13. ASSUME NEW d \in Clients, Register(d) PROVE Owed(c)'
  <2>1. CASE d = c
    BY <1>r, <1>13, <2>1 DEF Register, Owed, Coming
  <2>2. CASE d # c
    <3>1. pc'[c] = pc[c] /\ slot'[c] = slot[c] /\ dirty \subseteq dirty'
      BY <1>13, <2>2 DEF Register, TypeOK
    <3> QED
      BY <1>r, <1>0, <1>13, <3>1 DEF Register, Owed, Coming
  <2> QED
    BY <2>1, <2>2
<1>14. ASSUME NEW d \in Clients, Take(d) PROVE Owed(c)'
  <2>1. UNCHANGED <<row, conn, notices, dirty, batch, reads>>
    BY <1>14 DEF Take
  <2>2. Coming(c)' <=> Coming(c)
    BY <1>r, <2>1 DEF Coming
  <2>3. pc'[c] = "in" => pc[c] = "in"
    BY <1>14 DEF Take, TypeOK
  <2>4. CASE d = c
    <3>1. shown'[c] = slot[c] /\ slot[c] # Nothing
      BY <1>14, <2>4 DEF Take, TypeOK
    <3>2. shown[c] <= slot[c] /\ slot[c] <= row[JobOf[c]]
      BY <3>1 DEF StatesInOrder
    <3>3. shown[c] = row[JobOf[c]] => slot[c] = row[JobOf[c]]
      BY <1>r, <3>2 DEF TypeOK
    <3> QED
      BY <1>0, <2>1, <2>2, <2>3, <3>1, <3>3 DEF Owed
  <2>5. CASE d # c
    BY <1>0, <1>14, <2>1, <2>2, <2>3, <2>5 DEF Take, Owed, TypeOK
  <2> QED
    BY <2>4, <2>5
<1>15. ASSUME NEW d \in Clients, Unsubscribe(d) PROVE Owed(c)'
  <2>1. CASE d = c
    BY <1>15, <2>1 DEF Unsubscribe, Owed, TypeOK
  <2>2. CASE d # c
    <3>1. pc'[c] = pc[c] /\ slot'[c] = slot[c] /\ UNCHANGED <<row, conn, notices, dirty, batch, shown>>
      BY <1>15, <2>2 DEF Unsubscribe, TypeOK
    <3>2. ASSUME NEW x \in reads, c \in x.to
          PROVE  \E y \in reads' : y.run = x.run /\ c \in y.to /\ y.done = x.done /\ y.got = x.got
      <4> DEFINE y == [x EXCEPT !.to = @ \ {d}]
      <4>1. y \in reads'
        BY <1>15 DEF Unsubscribe
      <4>2. y.run = x.run /\ c \in y.to /\ y.done = x.done /\ y.got = x.got
        BY <2>2, <3>2 DEF TypeOK, Read
      <4> QED
        BY <4>1, <4>2
    <3>3. Coming(c) => Coming(c)'
      BY <1>r, <3>1, <3>2 DEF Coming
    <3> QED
      BY <1>0, <3>1, <3>3 DEF Owed
  <2> QED
    BY <2>1, <2>2
<1>16. CASE Stop
  BY <1>16 DEF Stop
<1>17. CASE UNCHANGED vars
  BY <1>r, <1>0, <1>17 DEF vars, Owed, Coming
<1> QED
  BY <1>1, <1>2, <1>3, <1>4, <1>5, <1>6, <1>7, <1>8, <1>9, <1>10, <1>11, <1>12, <1>13, <1>14, <1>15, <1>16, <1>17
  DEF Next, FanOut

LEMMA ForgottenKept ==
  ASSUME TypeOK, StatesInOrder, NothingForgotten, [Next]_vars
  PROVE  NothingForgotten'
<1> USE FollowAssumption DEF hubVars, fanVars, clientVars
<1>1. up' => \A c \in Clients : Owed(c)'
  BY OwedKept DEF NothingForgotten, Owed
<1>2. dirty' # {} => wake' \/ fan' = "sleep"
  BY DEF TypeOK, NothingForgotten, Next, FanOut, vars, Change, Remove, ListenStands, MarkAll, Mark, Drop, Stop, Hear,
     TakeBatch, BatchDone, SleepEnds, StartRead, Deliver, ReadRow, ReadFails, Ask, TurnedAway, Register, Take, Unsubscribe
<1>3. batch' # {} => fan' # "wait"
  BY DEF NothingForgotten, Next, FanOut, vars, Change, Remove, ListenStands, MarkAll, Drop, Stop, Hear,
     TakeBatch, BatchDone, SleepEnds, StartRead, Deliver, ReadRow, ReadFails, Ask, TurnedAway, Register, Take, Unsubscribe
<1> QED
  BY <1>1, <1>2, <1>3 DEF NothingForgotten, Owed

-----------------------------------------------------------------------------

\* At every moment the hub counts its followers rightly, never serves more than MAX_FOLLOWERS,
\* owes none of them a change it does not know of, and holds states in the order in which they
\* were: whatever the connections, the failing reads and the clients do (_listen, _fan_out,
\* subscribe, unsubscribe).
THEOREM HubInvariant == Spec => []HubKeepsTrack
<1>1. HubKeepsTrack /\ [Next]_vars => HubKeepsTrack'
  BY TypeKept, CountKept, OrderKept, ForgottenKept DEF HubKeepsTrack
<1> QED
  BY InitHub, <1>1, PTL DEF Spec

\* No browser is shown a state older than one it was sent before, on this connection or an
\* earlier one (follow, one reader in the process).
THEOREM StatesGoForward == Spec => NeverBackwards
<1>1. HubKeepsTrack /\ [Next]_vars => [\A c \in Clients : shown'[c] >= shown[c]]_vars
  <2> SUFFICES ASSUME HubKeepsTrack, Next PROVE \A c \in Clients : shown'[c] >= shown[c]
    OBVIOUS
  <2> USE DEF hubVars, fanVars, clientVars
  <2>1. \A c \in Clients : shown[c] \in Int
    BY FollowAssumption DEF HubKeepsTrack, TypeOK
  <2>2. ASSUME NEW d \in Clients, Take(d) PROVE \A c \in Clients : shown'[c] >= shown[c]
    <3>1. shown[d] <= slot[d]
      BY <2>2 DEF Take, HubKeepsTrack, StatesInOrder
    <3>2. \A c \in Clients : shown'[c] = IF c = d THEN slot[d] ELSE shown[c]
      BY <2>2 DEF Take, HubKeepsTrack, TypeOK
    <3>3. slot[d] \in Int
      BY FollowAssumption DEF HubKeepsTrack, TypeOK
    <3> QED
      BY <2>1, <3>1, <3>2, <3>3
  <2>3. CASE UNCHANGED shown
    BY <2>1, <2>3
  <2> QED
    BY <2>2, <2>3 DEF Next, FanOut, Change, Remove, ListenStands, MarkAll, Drop, Stop, Hear, TakeBatch, BatchDone,
       SleepEnds, StartRead, Deliver, ReadRow, ReadFails, Ask, TurnedAway, Register, Unsubscribe
<1> QED
  BY HubInvariant, <1>1, PTL DEF Spec, NeverBackwards
=============================================================================
