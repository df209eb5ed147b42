--------------------------- MODULE DeliveryProofs ---------------------------
(***************************************************************************)
(* Proofs about the results a caller takes home, for every number of       *)
(* clients, links and lists: a signed link works for as long as it says,   *)
(* the places of the downloads are counted right, and whoever resumes a    *)
(* download holds the beginning of one archive.                            *)
(*                                                                         *)
(* The invariant behind the links speaks of a time: until T a result stays *)
(* with its run, and an order that lives or can be restored stays on it.   *)
(* A deletion within DELETE_TERM of T cannot end it, and T is never        *)
(* further away, for a link lives shorter than the term.                   *)
(*                                                                         *)
(* The invariant behind the archives follows the bytes: what is left to    *)
(* send begins where the client stands, each segment where the one before  *)
(* it ends.  What a recursive definition of the layout computes is shown   *)
(* by a smallest counterexample.                                           *)
(***************************************************************************)
EXTENDS Delivery, JobCleanupProofs, WellFoundedInduction

USE DEF Active, Over, Rows, NoTerm, NoResult, NoKey

-----------------------------------------------------------------------------
(* Requests *)

\* What a client has open: nothing, a request that reads rows, one that looks at the store, or an
\* answer on its way.
Reading(q)  == /\ q = [pc |-> q.pc, kind |-> q.kind, seen |-> q.seen, since |-> q.since, jobs |-> q.jobs]
               /\ q.pc \in {"status", "recipe", "read"}
Checking(q) == q = [pc |-> "check", since |-> q.since, members |-> q.members, open |-> q.open]
Sent(q)     == q = [pc |-> "send", of |-> q.of, rest |-> q.rest, begun |-> q.begun]

\* A link is asked for one job, and its request carries what it read of it.
LinkRead(q) ==
  \E j \in Jobs : \E why, body, o, ends :
    LET p == [job |-> j, why |-> why, body |-> body, object |-> o, expires |-> ends]
    IN  /\ q.jobs = <<j>>
        /\ IF q.pc = "status" THEN q.seen = <<>> ELSE q.seen = <<p>>

ConnOK(q) ==
  \/ q \in {Off, Idle} \/ Checking(q) \/ Sent(q)
  \/ Reading(q) /\ (q.kind = "link" => LinkRead(q))

Frames ==
  /\ DOMAIN conn = Clients /\ DOMAIN url = Clients /\ DOMAIN list = Lists
  /\ \A c \in Clients : ConnOK(conn[c])

\* Every step is one of the queue with its clean-up, or leaves it alone.
LEMMA DeliveryIsCleanup ==
  ASSUME [DeliveryNext]_allVars
  PROVE  [CleanupNext]_cleanupVars
BY DEF DeliveryNext, CleanupNext, CleanupBatch, allVars

\* The client of a request that moves to an answer of the right shape.
LEMMA Moves ==
  ASSUME Frames, NEW c \in Clients, NEW y, ConnOK(y), conn' = [conn EXCEPT ![c] = y]
  PROVE  /\ DOMAIN conn' = Clients /\ \A d \in Clients : ConnOK(conn'[d])
         /\ \A d \in Clients \ {c} : conn'[d] = conn[d]
BY DEF Frames

\* The fields of an open request, one by one.
LEMMA PcMoves ==
  ASSUME NEW a, NEW k, NEW n, NEW t, NEW js, NEW pc,
         NEW q, q = [pc |-> a, kind |-> k, seen |-> n, since |-> t, jobs |-> js]
  PROVE  [q EXCEPT !.pc = pc] = [pc |-> pc, kind |-> k, seen |-> n, since |-> t, jobs |-> js]
OBVIOUS

LEMMA SeenMoves ==
  ASSUME NEW a, NEW k, NEW n, NEW t, NEW js, NEW s,
         NEW q, q = [pc |-> a, kind |-> k, seen |-> n, since |-> t, jobs |-> js]
  PROVE  [q EXCEPT !.seen = s] = [pc |-> a, kind |-> k, seen |-> s, since |-> t, jobs |-> js]
OBVIOUS

LEMMA ReadingMoves ==
  ASSUME NEW q, Reading(q), NEW pc, NEW s
  PROVE  [q EXCEPT !.pc = pc, !.seen = s]
           = [pc |-> pc, kind |-> q.kind, seen |-> s, since |-> q.since, jobs |-> q.jobs]
<1>1. PICK a, k, n, t, js : q = [pc |-> a, kind |-> k, seen |-> n, since |-> t, jobs |-> js]
  BY DEF Reading
<1>2. q.kind = k /\ q.since = t /\ q.jobs = js
  BY <1>1
<1>3. [q EXCEPT !.pc = pc, !.seen = s] = [pc |-> pc, kind |-> k, seen |-> s, since |-> t, jobs |-> js]
  <2>1. [q EXCEPT !.pc = pc] = [pc |-> pc, kind |-> k, seen |-> n, since |-> t, jobs |-> js]
    BY <1>1, PcMoves
  <2>2. ASSUME NEW z, z = [pc |-> pc, kind |-> k, seen |-> n, since |-> t, jobs |-> js]
        PROVE  [z EXCEPT !.seen = s] = [pc |-> pc, kind |-> k, seen |-> s, since |-> t, jobs |-> js]
    BY <2>2, SeenMoves
  <2> QED
    BY <2>1, <2>2, Zenon
<1> QED
  BY <1>2, <1>3

\* The same of what is sent.
LEMMA SentMoves ==
  ASSUME NEW q, Sent(q), NEW n
  PROVE  ConnOK([q EXCEPT !.rest = n, !.begun = TRUE])
<1>1. PICK o, m, b : q = [pc |-> "send", of |-> o, rest |-> m, begun |-> b]
  BY DEF Sent
<1>2. ASSUME NEW z, z = [pc |-> "send", of |-> o, rest |-> n, begun |-> b], NEW begun
      PROVE  ConnOK([z EXCEPT !.begun = begun])
  <2>1. [z EXCEPT !.begun = begun] = [pc |-> "send", of |-> o, rest |-> n, begun |-> begun]
    BY <1>2
  <2>2. ConnOK([pc |-> "send", of |-> o, rest |-> n, begun |-> begun])
    BY DEF ConnOK, Sent
  <2> QED
    BY <2>1, <2>2, Zenon
<1>3. [q EXCEPT !.rest = n] = [pc |-> "send", of |-> o, rest |-> n, begun |-> b]
  BY <1>1
<1> QED
  BY <1>2, <1>3, Zenon

\* A request moves its own client alone, to an answer of the shape it should have.
LEMMA ServeFrames ==
  ASSUME Frames, NEW c \in Clients, Serve(c)
  PROVE  Frames' /\ \A d \in Clients \ {c} : conn'[d] = conn[d]
<1> DEFINE q    == conn[c]
           Done == /\ DOMAIN conn' = Clients /\ \A d \in Clients : ConnOK(conn'[d])
                   /\ \A d \in Clients \ {c} : conn'[d] = conn[d]
<1>0. ConnOK(q)
  BY DEF Frames
<1>i. ConnOK(Idle) /\ (End(c) => Done)
  <2>1. ConnOK(Idle)
    BY DEF ConnOK
  <2> QED
    BY <2>1, Moves DEF End, Go
<1>1. ASSUME Ask(c) PROVE Done
  <2>1. PICK w \in Wants[c] \ {[kind |-> "permalink"]} :
          Go(c, [pc |-> "status", kind |-> w.kind, seen |-> <<>>, since |-> now,
                 jobs |-> IF w.kind = "bundle" THEN list[w.list].jobs ELSE w.jobs])
    BY <1>1 DEF Ask
  <2> DEFINE y == [pc |-> "status", kind |-> w.kind, seen |-> <<>>, since |-> now,
                   jobs |-> IF w.kind = "bundle" THEN list[w.list].jobs ELSE w.jobs]
  <2>2. w.kind = "link" => \E j \in Jobs : w.jobs = <<j>>
    <3>1. w \in Want
      BY DeliveryAssumption
    <3> QED
      BY <3>1 DEF Want
  <2>3. Reading(y)
    BY DEF Reading
  <2>4. y.kind = "link" => LinkRead(y)
    BY <2>2 DEF LinkRead
  <2>5. ConnOK(y) /\ Go(c, y)
    BY <2>1, <2>3, <2>4 DEF ConnOK
  <2> HIDE DEF y
  <2> QED
    BY <2>5, Moves DEF Go
<1>2. ASSUME ReadStatus(c) PROVE Done
  <2> DEFINE p == Seen(q.jobs[Len(q.seen) + 1])
             s == Append(q.seen, p)
             y == [q EXCEPT !.pc = "recipe", !.seen = s]
  <2>1. q.pc = "status" /\ (End(c) \/ Go(c, y))
    BY <1>2 DEF ReadStatus
  <2>2. Reading(q) /\ (q.kind = "link" => LinkRead(q))
    BY <1>0, <2>1 DEF ConnOK, Off, Idle, Checking, Sent
  <2>3. y = [pc |-> "recipe", kind |-> q.kind, seen |-> s, since |-> q.since, jobs |-> q.jobs]
    BY <2>2, ReadingMoves
  <2>4. ASSUME q.kind = "link" PROVE \E j \in Jobs : q.jobs = <<j>> /\ s = <<Seen(j)>>
    <3>1. PICK j \in Jobs : q.jobs = <<j>> /\ q.seen = <<>>
      BY <2>1, <2>2, <2>4 DEF LinkRead
    <3>2. p = Seen(j)
      BY <3>1
    <3> QED
      BY <3>1, <3>2
  <2> HIDE DEF y, s
  <2>5. Reading(y)
    BY <2>3 DEF Reading
  <2>6. ASSUME q.kind = "link" PROVE LinkRead(y)
    BY <2>3, <2>4, <2>6 DEF LinkRead, Seen
  <2>7. ConnOK(y)
    BY <2>3, <2>5, <2>6 DEF ConnOK
  <2> QED
    BY <1>i, <2>1, <2>7, Moves DEF Go, End
<1>3. ASSUME ReadRecipe(c) PROVE Done
  <2> DEFINE n == Len(q.seen)
             at == IF n < Len(q.jobs) THEN "status" ELSE "read"
             found == job[q.seen[n].job].st = "there"
             s == [q.seen EXCEPT ![n].body = found]
             y == [q EXCEPT !.pc = at, !.seen[n].body = found]
  <2>1. q.pc = "recipe" /\ Go(c, y)
    BY <1>3 DEF ReadRecipe
  <2>2. Reading(q) /\ (q.kind = "link" => LinkRead(q))
    BY <1>0, <2>1 DEF ConnOK, Off, Idle, Checking, Sent
  <2>3. y = [pc |-> at, kind |-> q.kind, seen |-> s, since |-> q.since, jobs |-> q.jobs]
    <3>1. y = [q EXCEPT !.pc = at, !.seen = s]
      <4>1. [q EXCEPT !.pc = at].seen = q.seen
        BY <2>2 DEF Reading
      <4> QED
        BY <4>1
    <3> HIDE DEF q, at, s, y
    <3> QED
      BY <2>2, <3>1, ReadingMoves, Zenon
  <2>4. ASSUME q.kind = "link"
        PROVE  at = "read" /\ \E j \in Jobs : \E why, body, o, ends :
                 q.jobs = <<j>> /\ s = << [job |-> j, why |-> why, body |-> body, object |-> o, expires |-> ends] >>
    <3>1. PICK j \in Jobs : \E why, body, o, ends : q.jobs = <<j>> /\
            q.seen = << [job |-> j, why |-> why, body |-> body, object |-> o, expires |-> ends] >>
      BY <2>1, <2>2, <2>4 DEF LinkRead
    <3>2. PICK why, body, o, ends :
            q.jobs = <<j>> /\ q.seen = << [job |-> j, why |-> why, body |-> body, object |-> o, expires |-> ends] >>
      BY <3>1
    <3>3. n = 1 /\ Len(q.jobs) = 1
      BY <3>2
    <3>4. s = << [job |-> j, why |-> why, body |-> found, object |-> o, expires |-> ends] >>
      BY <3>2, <3>3
    <3>5. at = "read"
      BY <3>3
    <3> HIDE DEF found, s, at
    <3> QED
      BY <3>2, <3>4, <3>5
  <2> HIDE DEF y, s
  <2>5. at \in {"status", "read"}
    OBVIOUS
  <2> HIDE DEF at
  <2>6. Reading(y)
    BY <2>3, <2>5 DEF Reading
  <2>7. ASSUME q.kind = "link" PROVE LinkRead(y)
    BY <2>3, <2>4, <2>7 DEF LinkRead
  <2>8. ConnOK(y)
    BY <2>3, <2>6, <2>7 DEF ConnOK
  <2> QED
    BY <2>1, <2>8, Moves DEF Go
<1>4. ASSUME Sign(c) \/ CreateBundle(c) \/ StoreSilent(c) \/ RefuseSending(c) \/ SentAll(c) \/ BreakOff(c) PROVE Done
  BY <1>4, <1>i DEF Sign, CreateBundle, StoreSilent, RefuseSending, SentAll, BreakOff
<1>5. ASSUME LayOut(c) PROVE Done
  <2>1. ASSUME NEW t, NEW ms, NEW os, Go(c, [pc |-> "check", since |-> t, members |-> ms, open |-> os]) PROVE Done
    <3>1. ConnOK([pc |-> "check", since |-> t, members |-> ms, open |-> os])
      BY DEF ConnOK, Checking
    <3> QED
      BY <2>1, <3>1, Moves DEF Go
  <2> HIDE DEF Done
  <2> QED
    BY <1>5, <1>i, <2>1 DEF LayOut
<1>6. ASSUME CheckStored(c) PROVE Done
  <2>1. q.pc = "check" /\ \E o \in q.open : Go(c, [q EXCEPT !.open = @ \ {o}]) \/ End(c)
    BY <1>6 DEF CheckStored
  <2>2. Checking(q)
    BY <1>0, <2>1 DEF ConnOK, Off, Idle, Reading, Sent
  <2>3. PICK t, ms, os : q = [pc |-> "check", since |-> t, members |-> ms, open |-> os]
    BY <2>2 DEF Checking
  <2>4. ASSUME NEW o, Go(c, [q EXCEPT !.open = @ \ {o}]) PROVE Done
    <3>1. [q EXCEPT !.open = @ \ {o}] = [pc |-> "check", since |-> t, members |-> ms, open |-> os \ {o}]
      BY <2>3
    <3>2. ConnOK([pc |-> "check", since |-> t, members |-> ms, open |-> os \ {o}])
      BY DEF ConnOK, Checking
    <3> QED
      BY <2>4, <3>1, <3>2, Moves DEF Go
  <2> HIDE DEF Done
  <2> QED
    BY <1>i, <2>1, <2>4
<1>7. ASSUME CreatePermalink(c) \/ DeletePermalink(c) PROVE Done
  BY <1>7 DEF CreatePermalink, DeletePermalink, Frames
<1>8. ASSUME StartSending(c) PROVE Done
  <2>1. ASSUME NEW ms, NEW first, NEW last, Go(c, Sending(ms, first, last)) PROVE Done
    <3>1. ConnOK(Sending(ms, first, last))
      BY DEF ConnOK, Sent, Sending
    <3> QED
      BY <2>1, <3>1, Moves DEF Go
  <2> HIDE DEF Done
  <2> QED
    BY <1>8, <2>1 DEF StartSending
<1>9. ASSUME SendByte(c) PROVE Done
  <2> DEFINE y == [q EXCEPT !.rest = Onward(q.rest), !.begun = TRUE]
  <2>1. q.pc = "send" /\ Go(c, y)
    BY <1>9 DEF SendByte
  <2>2. Sent(q)
    BY <1>0, <2>1 DEF ConnOK, Off, Idle, Reading, Checking
  <2>3. ConnOK(y)
    BY <2>2, SentMoves
  <2> HIDE DEF y
  <2> QED
    BY <2>1, <2>3, Moves DEF Go
<1>10. Done
  <2> HIDE DEF Done
  <2> QED
    BY <1>1, <1>2, <1>3, <1>4, <1>5, <1>6, <1>7, <1>8, <1>9 DEF Serve
<1>11. DOMAIN url' = Clients /\ DOMAIN list' = Lists
  BY DEF Serve, Ask, ReadStatus, ReadRecipe, Sign, CreateBundle, CreatePermalink, DeletePermalink, LayOut, CheckStored,
     StoreSilent, StartSending, RefuseSending, SendByte, SentAll, BreakOff, Frames
<1> QED
  BY <1>10, <1>11 DEF Frames

LEMMA StepFrames ==
  ASSUME Frames, [DeliveryNext]_allVars
  PROVE  Frames'
<1>1. ASSUME UNCHANGED <<conn, url>>, DOMAIN list' = DOMAIN list PROVE Frames'
  BY <1>1 DEF Frames
<1>2. CASE CleanupBatch
  BY <1>1, <1>2 DEF CleanupBatch, SweepLists, Frames
<1>3. CASE \E c \in Clients : Serve(c)
  BY <1>3, ServeFrames
<1>4. CASE Restart
  BY <1>4 DEF Restart, Frames, ConnOK
<1>5. CASE UNCHANGED deliveryVars
  BY <1>1, <1>5 DEF deliveryVars
<1> QED
  BY <1>2, <1>3, <1>4, <1>5 DEF DeliveryNext, allVars

LEMMA InitFrames == DeliveryInit => Frames
BY DEF DeliveryInit, Begin, Frames, ConnOK

-----------------------------------------------------------------------------
(* The places of the downloads *)

Downloading == {c \in Clients : conn[c].pc = "send"}

PlacesInv == Frames /\ PlacesKept

\* What a step does to the places: one client takes one or gives its own back, or all are free.
LEMMA PlacesMove ==
  ASSUME PlacesInv, [DeliveryNext]_allVars,
         \/ busy' = busy /\ Downloading' = Downloading
         \/ busy' = 0 /\ Downloading' = {}
         \/ \E c \in Clients \ Downloading :
              busy < MaxDownloads /\ busy' = busy + 1 /\ Downloading' = Downloading \cup {c}
         \/ \E c \in Downloading : Free /\ Downloading' = Downloading \ {c}
  PROVE  PlacesAreGivenBack'
<1>0. /\ IsFiniteSet(Downloading) /\ Cardinality(Downloading) \in Nat
      /\ busy = Cardinality(Downloading) /\ busy <= MaxDownloads /\ MaxDownloads \in Nat
  <2>1. IsFiniteSet(Downloading)
    BY DeliveryAssumption, FS_Subset DEF Downloading
  <2>2. busy = Cardinality(Downloading)
    BY DEF PlacesInv, PlacesKept, PlacesAreGivenBack, Downloading
  <2>3. busy <= MaxDownloads /\ MaxDownloads \in Nat
    BY DeliveryAssumption DEF PlacesInv, PlacesKept, PlacesAreGivenBack
  <2> QED
    BY <2>1, <2>2, <2>3, FS_CardinalityType
<1>1. busy' = Cardinality(Downloading') /\ busy' <= MaxDownloads
  <2>1. CASE busy' = busy /\ Downloading' = Downloading
    BY <1>0, <2>1
  <2>2. CASE busy' = 0 /\ Downloading' = {}
    BY <1>0, <2>2, FS_EmptySet
  <2>3. ASSUME NEW c \in Clients \ Downloading, busy < MaxDownloads, busy' = busy + 1, Downloading' = Downloading \cup {c}
        PROVE  busy' = Cardinality(Downloading') /\ busy' <= MaxDownloads
    <3>1. Cardinality(Downloading \cup {c}) = Cardinality(Downloading) + 1
      BY <1>0, FS_AddElement
    <3> QED
      BY <1>0, <2>3, <3>1
  <2>4. ASSUME NEW c \in Downloading, Free, Downloading' = Downloading \ {c}
        PROVE  busy' = Cardinality(Downloading') /\ busy' <= MaxDownloads
    <3>1. Cardinality(Downloading \ {c}) = Cardinality(Downloading) - 1
      BY <1>0, FS_RemoveElement
    <3>2. Cardinality(Downloading) # 0
      BY <1>0, FS_EmptySet
    <3>3. busy' = busy - 1
      BY <1>0, <2>4, <3>2 DEF Free, Greater
    <3> QED
      BY <1>0, <2>4, <3>1, <3>3
  <2> QED
    BY <2>1, <2>2, <2>3, <2>4
<1> QED
  BY <1>1 DEF PlacesAreGivenBack, Downloading

LEMMA ServePlaces ==
  ASSUME PlacesInv, NEW c \in Clients, Serve(c)
  PROVE  \/ busy' = busy /\ Downloading' = Downloading
         \/ c \notin Downloading /\ busy < MaxDownloads /\ busy' = busy + 1 /\ Downloading' = Downloading \cup {c}
         \/ c \in Downloading /\ Free /\ Downloading' = Downloading \ {c}
<1> DEFINE Done == \/ busy' = busy /\ Downloading' = Downloading
                   \/ c \notin Downloading /\ busy < MaxDownloads /\ busy' = busy + 1 /\ Downloading' = Downloading \cup {c}
                   \/ c \in Downloading /\ Free /\ Downloading' = Downloading \ {c}
<1>0. Frames /\ DOMAIN conn = Clients /\ \A d \in Clients \ {c} : conn'[d] = conn[d]
  BY ServeFrames DEF PlacesInv, Frames
<1>s. /\ conn'[c].pc = "send" /\ conn[c].pc # "send" => c \notin Downloading /\ Downloading' = Downloading \cup {c}
      /\ conn'[c].pc # "send" /\ conn[c].pc = "send" => c \in Downloading /\ Downloading' = Downloading \ {c}
      /\ (conn'[c].pc = "send" <=> conn[c].pc = "send") => Downloading' = Downloading
  BY <1>0 DEF Downloading
<1>e. End(c) => conn'[c].pc # "send"
  BY <1>0 DEF End, Go, Idle
<1>1. ASSUME Ask(c) PROVE Done
  <2>1. conn[c].pc # "send" /\ conn'[c].pc # "send" /\ busy' = busy
    BY <1>0, <1>1 DEF Ask, Go, Idle
  <2> QED
    BY <1>s, <2>1
<1>2. ASSUME ReadStatus(c) \/ ReadRecipe(c) PROVE Done
  <2>1. conn[c].pc # "send" /\ busy' = busy /\ ConnOK(conn[c])
    BY <1>0, <1>2 DEF ReadStatus, ReadRecipe, Frames
  <2>2. Reading(conn[c])
    BY <1>2, <2>1 DEF ReadStatus, ReadRecipe, ConnOK, Off, Idle, Checking, Sent
  <2>3. \A pc, s : [conn[c] EXCEPT !.pc = pc, !.seen = s].pc = pc
    <3> SUFFICES ASSUME NEW pc, NEW s PROVE [conn[c] EXCEPT !.pc = pc, !.seen = s].pc = pc
      OBVIOUS
    <3> QED
      BY <2>2, ReadingMoves
  <2>4. conn'[c].pc # "send"
    <3>1. CASE ReadStatus(c)
      BY <1>0, <1>e, <2>3, <3>1 DEF ReadStatus, Go
    <3>2. CASE ReadRecipe(c)
      BY <1>0, <2>2, <3>2 DEF ReadRecipe, Go, Reading
    <3> QED
      BY <1>2, <3>1, <3>2
  <2> QED
    BY <1>s, <2>1, <2>4
<1>3. ASSUME Sign(c) \/ CreateBundle(c) \/ StoreSilent(c) \/ RefuseSending(c) PROVE Done
  <2>1. conn[c].pc # "send" /\ End(c) /\ busy' = busy
    BY <1>3 DEF Sign, CreateBundle, StoreSilent, RefuseSending
  <2> QED
    BY <1>e, <1>s, <2>1
<1>4. ASSUME LayOut(c) PROVE Done
  <2>1. conn[c].pc # "send" /\ conn'[c].pc # "send" /\ busy' = busy
    BY <1>0, <1>4, <1>e DEF LayOut, Go
  <2> QED
    BY <1>s, <2>1
<1>5. ASSUME CheckStored(c) PROVE Done
  <2>1. conn[c].pc = "check" /\ busy' = busy /\ Checking(conn[c])
    BY <1>0, <1>5 DEF CheckStored, Frames, ConnOK, Off, Idle, Reading, Sent
  <2>2. conn'[c].pc # "send"
    BY <1>0, <1>5, <1>e, <2>1 DEF CheckStored, Go, Checking
  <2> QED
    BY <1>s, <2>1, <2>2
<1>6. ASSUME CreatePermalink(c) \/ DeletePermalink(c) PROVE Done
  BY <1>6 DEF CreatePermalink, DeletePermalink, Downloading
<1>7. ASSUME StartSending(c) PROVE Done
  <2>1. conn[c].pc # "send" /\ busy < MaxDownloads /\ busy' = busy + 1
    BY <1>7 DEF StartSending
  <2>2. conn'[c].pc = "send"
    BY <1>0, <1>7 DEF StartSending, Go, Sending
  <2> QED
    BY <1>s, <2>1, <2>2
<1>8. ASSUME SendByte(c) PROVE Done
  <2>1. conn[c].pc = "send" /\ busy' = busy /\ Sent(conn[c])
    BY <1>0, <1>8 DEF SendByte, Frames, ConnOK, Off, Idle, Reading, Checking
  <2>2. conn'[c].pc = "send"
    BY <1>0, <1>8, <2>1 DEF SendByte, Go, Sent
  <2> QED
    BY <1>s, <2>1, <2>2
<1>9. ASSUME SentAll(c) \/ BreakOff(c) PROVE Done
  <2>1. conn[c].pc = "send" /\ End(c) /\ Free
    BY <1>9 DEF SentAll, BreakOff, FreePlace
  <2> QED
    BY <1>e, <1>s, <2>1
<1> HIDE DEF Done
<1> QED
  BY <1>1, <1>2, <1>3, <1>4, <1>5, <1>6, <1>7, <1>8, <1>9 DEF Serve, Done

LEMMA ServeTypes ==
  ASSUME PlacesInv, NEW c \in Clients, Serve(c)
  PROVE  (\A b \in Lists : list'[b].st \in {"none", "bundle", "permalink", "gone"}) /\ book' = book
<1>1. DOMAIN list = Lists /\ \A b \in Lists : list[b].st \in {"none", "bundle", "permalink", "gone"}
  BY DEF PlacesInv, PlacesKept, DeliveryTypeOK, Frames
<1>2. CASE CreateBundle(c)
  <2>1. ASSUME NEW b, NEW js, NEW e, list' = [list EXCEPT ![b] = [st |-> "bundle", jobs |-> js, expires |-> e]]
        PROVE  \A d \in Lists : list'[d].st \in {"none", "bundle", "permalink", "gone"}
    BY <1>1, <2>1
  <2>2. CASE UNCHANGED list
    BY <1>1, <1>2, <2>2 DEF CreateBundle
  <2>3. UNCHANGED list \/ \E b \in Lists : \E e : list' = [list EXCEPT ![b] = [st |-> "bundle", jobs |-> conn[c].jobs, expires |-> e]]
    BY <1>2, Zenon DEF CreateBundle
  <2>4. book' = book
    BY <1>2 DEF CreateBundle
  <2> QED
    BY <2>1, <2>2, <2>3, <2>4, Zenon
<1>3. CASE CreatePermalink(c)
  BY <1>1, <1>3 DEF CreatePermalink
<1>4. CASE DeletePermalink(c)
  BY <1>1, <1>4 DEF DeletePermalink
<1>5. CASE ~(CreateBundle(c) \/ CreatePermalink(c) \/ DeletePermalink(c))
  BY <1>1, <1>5 DEF Serve, Ask, ReadStatus, ReadRecipe, Sign, LayOut, CheckStored, StoreSilent, StartSending, RefuseSending,
     SendByte, SentAll, BreakOff
<1> QED
  BY <1>2, <1>3, <1>4, <1>5

LEMMA PlacesStep ==
  ASSUME PlacesInv, [DeliveryNext]_allVars
  PROVE  PlacesInv'
<1>1. Frames'
  BY StepFrames DEF PlacesInv
<1>2. \A c \in Clients : conn'[c].pc \in {"off", "idle", "status", "recipe", "read", "check", "send"}
  BY <1>1 DEF Frames, ConnOK, Off, Idle, Reading, Checking, Sent
<1>3. ASSUME UNCHANGED <<conn, busy>> PROVE PlacesAreGivenBack'
  BY <1>3 DEF PlacesInv, PlacesKept, PlacesAreGivenBack
<1>4. CASE CleanupBatch
  <2>1. \A b \in Lists : list'[b].st \in {"none", "bundle", "permalink", "gone"}
    BY <1>4 DEF CleanupBatch, SweepLists, PlacesInv, PlacesKept, DeliveryTypeOK
  <2> QED
    BY <1>1, <1>2, <1>3, <1>4, <2>1 DEF CleanupBatch, PlacesInv, PlacesKept, DeliveryTypeOK
<1>5. ASSUME NEW c \in Clients, Serve(c) PROVE PlacesInv'
  <2>1. (\A b \in Lists : list'[b].st \in {"none", "bundle", "permalink", "gone"}) /\ book' \in 0 .. MaxBook
    BY <1>5, ServeTypes DEF PlacesInv, PlacesKept, DeliveryTypeOK
  <2>2. PlacesAreGivenBack'
    BY <1>5, ServePlaces, PlacesMove DEF PlacesInv
  <2> QED
    BY <1>1, <1>2, <2>1, <2>2 DEF PlacesInv, PlacesKept, DeliveryTypeOK
<1>6. CASE Restart
  <2>1. busy' = 0 /\ Downloading' = {}
    BY <1>6 DEF Restart, Downloading, Off, Idle
  <2>2. book' \in 0 .. MaxBook /\ list' = list
    BY <1>6, DeliveryAssumption DEF Restart, PlacesInv, PlacesKept, DeliveryTypeOK
  <2> QED
    BY <1>1, <1>2, <2>1, <2>2, PlacesMove DEF PlacesInv, PlacesKept, DeliveryTypeOK
<1>7. CASE UNCHANGED deliveryVars
  BY <1>1, <1>2, <1>3, <1>7 DEF deliveryVars, PlacesInv, PlacesKept, DeliveryTypeOK
<1> QED
  BY <1>4, <1>5, <1>6, <1>7 DEF DeliveryNext, allVars

\* However a download ends, and however many run at once, its place is counted once and comes
\* back, also over a new start of the api: so four broken downloads never close the route.
THEOREM PlacesComeBack == DeliverySpec => []PlacesKept
<1>1. DeliveryInit => PlacesInv
  <2> SUFFICES ASSUME DeliveryInit PROVE PlacesInv
    OBVIOUS
  <2>1. {c \in Clients : conn[c].pc = "send"} = {}
    BY DEF DeliveryInit, Off, Idle
  <2>2. PlacesAreGivenBack
    <3>1. busy = 0 /\ 0 <= MaxDownloads
      BY DeliveryAssumption DEF DeliveryInit, Begin
    <3>2. Cardinality({}) = 0
      BY FS_EmptySet
    <3> QED
      BY <2>1, <3>1, <3>2, Zenon DEF PlacesAreGivenBack
  <2>3. DeliveryTypeOK
    BY DeliveryAssumption DEF DeliveryInit, Begin, DeliveryTypeOK, NoList, Off, Idle
  <2> QED
    BY <2>2, <2>3, InitFrames DEF PlacesInv, PlacesKept
<1> QED
  BY <1>1, PlacesStep, PTL DEF DeliverySpec, PlacesInv

-----------------------------------------------------------------------------
(* The links *)

\* An order on the run reads its result at least until T, and may be deleted on the way.
KeptTill(o, T) ==
  /\ T <= now + DeleteTerm
  /\ now <= T => \E r \in Runs :
       /\ run[r].st = "successful" /\ o = ResultOf(r) /\ T <= run[r].expires
       /\ \E j \in On(r) : Alive(j) \/ job[j].until >= T

Horizon(q) == Earlier(q.since + DeleteTerm, q.seen[1].expires)

\* A request is begun at most a tick ago, and what it will link is kept: signing looks at the end
\* of the result once more, at nothing else.
Timed(q) == q.pc \notin {"off", "idle", "send"} => q.since \in Nat /\ q.since \in {now - 1, now}

Linkable(q) ==
  q.pc \in {"recipe", "read"} /\ q.kind = "link" =>
    q.seen[1].expires \in Nat /\ KeptTill(q.seen[1].object, Horizon(q))

InTime == \A c \in Clients : Timed(conn[c])

LinksKept ==
  /\ \A c \in Clients : Linkable(conn[c])
  /\ \A c \in Clients : \A u \in url[c] : u.till \in Nat /\ KeptTill(u.object, u.till)

LinkInv == NothingDangles /\ Frames /\ InTime /\ LinksKept

\* A job on a finished run keeps its place, and keeps the result as long as it did, or a term longer.
LEMMA JobHolds ==
  ASSUME QueueInv, [Next]_queueVars, NEW j \in Jobs, NEW r \in Runs, job[j].run = r, run[r].st = "successful",
         NEW T \in Nat, T <= now + DeleteTerm, T <= run[r].expires, Alive(j) \/ job[j].until >= T
  PROVE  job'[j].run = r /\ (Alive(j)' \/ job'[j].until >= T)
<1>0. /\ job[j] \in JobRow /\ job[j].st = "there" /\ run[r] \in RunRow /\ now \in Nat /\ DeleteTerm \in Nat
      /\ DOMAIN job = Jobs /\ r # NoRun /\ ~job[j].dismissed
  <2>1. job[j].st = "there"
    BY RunsAssumption DEF QueueInv, JobsHaveRuns
  <2>2. job[j].until >= T => job[j].until # NoTerm
    OBVIOUS
  <2>3. ~job[j].dismissed
    BY <2>2 DEF Alive, QueueInv, TermWithinLife
  <2> QED
    BY <2>1, <2>3, LimitsAssumption, RunsAssumption DEF QueueInv, TypeOK
<1>1. CASE job'[j] = job[j]
  BY <1>0, <1>1 DEF Alive
<1>2. ASSUME NEW i \in Jobs \ {j}, ApiCall(i) PROVE job'[j] = job[j]
  BY <1>0, <1>2 DEF ApiCall, Submit, SubmitHit, SubmitNew, SubmitAttach, Place, Dismiss, DismissFinished, Cancel, Restore
<1>3. ASSUME NEW k, Submit(j, k) PROVE FALSE
  BY <1>0, <1>3 DEF Submit
<1>4. ASSUME Dismiss(j) PROVE job'[j].run = r /\ (Alive(j)' \/ job'[j].until >= T)
  <2>1. DismissFinished(j)
    BY <1>4 DEF Dismiss, Cancel
  <2>2. job' = [job EXCEPT ![j].until = Earlier(now + DeleteTerm, run[r].expires)]
    BY <2>1 DEF DismissFinished
  <2>3. Earlier(now + DeleteTerm, run[r].expires) >= T
    BY <1>0 DEF Earlier, RunRow
  <2> QED
    BY <1>0, <2>2, <2>3 DEF JobRow
<1>5. ASSUME Restore(j) PROVE job'[j].run = r /\ (Alive(j)' \/ job'[j].until >= T)
  <2>1. job' = [job EXCEPT ![j].until = NoTerm]
    BY <1>5 DEF Restore
  <2> QED
    BY <1>0, <2>1 DEF JobRow, Alive
<1>6. CASE ~\E i \in Jobs : ApiCall(i)
  <2>1. job' = job
    BY <1>6 DEF Next, QueueStep, Claim, WorkerCall, Heartbeat, FinishFailed, Release, RequeueExpired, EndAttempt,
       FinishCancelled, FinishSuccessful, LeaseRunsOut, BackoffEnds, Tick, queueVars
  <2> QED
    BY <1>1, <2>1
<1> QED
  BY <1>1, <1>2, <1>3, <1>4, <1>5, <1>6 DEF ApiCall

\* What is kept till T stays so, whatever is deleted, restored, computed or cleaned up.
LEMMA KeptTillStays ==
  ASSUME NothingDangles, [CleanupNext]_cleanupVars, NEW o, NEW T \in Nat, KeptTill(o, T)
  PROVE  KeptTill(o, T)'
<1>0. /\ QueueInv /\ now \in Nat /\ DeleteTerm \in Nat /\ T <= now + DeleteTerm
      /\ \A q \in Runs : run[q] \in RunRow /\ run[q].expires \in Nat
  <2>1. QueueInv /\ TypeOK
    BY DEF NothingDangles, QueueInv
  <2>2. \A q \in Runs : run[q] \in RunRow
    BY <2>1 DEF TypeOK
  <2> QED
    BY <2>1, <2>2, LimitsAssumption DEF TypeOK, KeptTill, RunRow
<1>1. CASE [Next]_queueVars
  <2>1. now' = now \/ now' = now + 1
    BY <1>1, TimeGoesOn
  <2> SUFFICES ASSUME now' <= T
               PROVE  \E r \in Runs : /\ run'[r].st = "successful" /\ o = ResultOf(r)' /\ T <= run'[r].expires
                                      /\ \E j \in On(r)' : Alive(j)' \/ job'[j].until >= T
    BY <1>0, <2>1 DEF KeptTill
  <2>2. PICK r \in Runs : /\ run[r].st = "successful" /\ o = ResultOf(r) /\ T <= run[r].expires
                          /\ \E j \in On(r) : Alive(j) \/ job[j].until >= T
    BY <1>0, <2>1 DEF KeptTill
  <2>3. PICK j \in On(r) : Alive(j) \/ job[j].until >= T
    BY <2>2
  <2>4. run'[r] = run[r]
    BY <1>0, <1>1, <2>2, StepKeepsOver DEF QueueInv
  <2>5. j \in On(r)' /\ (Alive(j)' \/ job'[j].until >= T)
    BY <1>0, <1>1, <2>2, <2>3, JobHolds DEF On
  <2> QED
    BY <2>2, <2>4, <2>5 DEF ResultOf
<1>2. CASE Cleanup
  <2>1. PICK gone \in SUBSET Runs : BatchTakes(gone)
    BY <1>0, <1>2, BatchEffect
  <2>2. now' = now
    BY <2>1 DEF BatchTakes
  <2> SUFFICES ASSUME now <= T
               PROVE  \E r \in Runs : /\ run'[r].st = "successful" /\ o = ResultOf(r)' /\ T <= run'[r].expires
                                      /\ \E j \in On(r)' : Alive(j)' \/ job'[j].until >= T
    BY <1>0, <2>2 DEF KeptTill
  <2>3. PICK r \in Runs : /\ run[r].st = "successful" /\ o = ResultOf(r) /\ T <= run[r].expires
                          /\ \E j \in On(r) : Alive(j) \/ job[j].until >= T
    BY DEF KeptTill
  <2>4. PICK j \in On(r) : Alive(j) \/ job[j].until >= T
    BY <2>3
  <2>5. job[j] \in JobRow /\ job[j].run = r /\ j \in Jobs
    BY <1>0, <2>4 DEF On, QueueInv, TypeOK
  <2>6. ~Due(j) /\ (Alive(j) \/ Waiting(j))
    BY <1>0, <2>4, <2>5 DEF Due, Alive, Waiting, JobRow
  <2>7. r \in Joinable
    BY <1>0, <2>3, <2>4, <2>6 DEF Joinable, Serves, Needed
  <2>8. r \notin gone
    BY <2>1, <2>7 DEF BatchTakes, Joinable, NoRunRow
  <2>9. run'[r].st = run[r].st /\ run'[r].result = run[r].result /\ run'[r].expires = run[r].expires
    BY <2>1, <2>8 DEF BatchTakes
  <2>10. job'[j] = job[j]
    BY <2>1, <2>4, <2>6, <2>8 DEF BatchTakes
  <2> QED
    BY <2>3, <2>4, <2>5, <2>9, <2>10 DEF ResultOf, On, Alive
<1>3. CASE UNCHANGED queueVars
  BY <1>1, <1>3
<1> QED
  BY <1>1, <1>2, <1>3 DEF CleanupNext, CleanupFails, Next, Deliver, cleanupVars, queueVars

LEMMA KeptTillLess ==
  ASSUME NothingDangles, NEW o, NEW T \in Nat, KeptTill(o, T), NEW S \in Nat, S <= T
  PROVE  KeptTill(o, S)
<1>1. /\ now \in Nat /\ DeleteTerm \in Nat
      /\ \A r \in Runs : run[r] \in RunRow
      /\ \A j \in Jobs : job[j] \in JobRow
  BY LimitsAssumption DEF NothingDangles, QueueInv, TypeOK
<1>2. S <= now + DeleteTerm
  BY <1>1 DEF KeptTill
<1>3. ASSUME now <= S
      PROVE  \E r \in Runs : /\ run[r].st = "successful" /\ o = ResultOf(r) /\ S <= run[r].expires
                             /\ \E j \in On(r) : Alive(j) \/ job[j].until >= S
  <2>1. PICK r \in Runs : /\ run[r].st = "successful" /\ o = ResultOf(r) /\ T <= run[r].expires
                          /\ \E j \in On(r) : Alive(j) \/ job[j].until >= T
    BY <1>1, <1>3 DEF KeptTill
  <2>2. PICK j \in On(r) : Alive(j) \/ job[j].until >= T
    BY <2>1
  <2>3. run[r].expires \in Nat /\ job[j].until \in Nat \cup {NoTerm}
    BY <1>1 DEF RunRow, JobRow, On
  <2>4. S <= run[r].expires /\ (Alive(j) \/ job[j].until >= S)
    BY <2>1, <2>2, <2>3
  <2> QED
    BY <2>1, <2>2, <2>4
<1> QED
  BY <1>2, <1>3 DEF KeptTill

\* A link that was given keeps its object while it lives.
LEMMA KeptLinksLast == LinkInv => LinksLast
<1> SUFFICES ASSUME LinkInv, NEW c \in Clients, NEW u \in url[c], u.till >= now PROVE u.object \in objects
  BY DEF LinksLast
<1>1. now \in Nat /\ u.till \in Nat /\ KeptTill(u.object, u.till)
  BY DEF LinkInv, LinksKept, NothingDangles, QueueInv, TypeOK
<1>2. PICK r \in Runs : /\ run[r].st = "successful" /\ u.object = ResultOf(r) /\ u.till <= run[r].expires
                        /\ \E j \in On(r) : Alive(j) \/ job[j].until >= u.till
  BY <1>1 DEF KeptTill
<1>3. PICK j \in On(r) : Alive(j) \/ job[j].until >= u.till
  BY <1>2
<1>4. run[r] \in RunRow /\ job[j] \in JobRow
  BY DEF LinkInv, NothingDangles, QueueInv, TypeOK, On
<1>5. run[r].expires \in Nat /\ job[j].until \in Nat \cup {NoTerm}
  BY <1>4 DEF RunRow, JobRow
<1>6. Needed(r) /\ run[r].expires >= now
  BY <1>1, <1>2, <1>3, <1>5 DEF Needed, Waiting
<1> QED
  BY <1>2, <1>6 DEF LinkInv, NothingDangles, ResultThere, Served

LEMMA SameKept ==
  ASSUME UNCHANGED cleanupVars, NEW o, NEW T
  PROVE  KeptTill(o, T)' <=> KeptTill(o, T)
BY DEF KeptTill, cleanupVars, ResultOf, On, Alive

\* The client of a request that moves to an answer in time, and to one that may be linked.
LEMMA LinksMove ==
  ASSUME LinkInv, UNCHANGED <<cleanupVars, url>>, NEW c \in Clients, NEW y, Timed(y), Linkable(y),
         conn' = [conn EXCEPT ![c] = y]
  PROVE  InTime' /\ LinksKept'
<1>0. DOMAIN conn = Clients /\ now' = now
  BY DEF LinkInv, Frames, cleanupVars
<1>1. ASSUME NEW d \in Clients PROVE Timed(conn[d])' /\ Linkable(conn[d])'
  <2>1. PICK z : z = conn'[d] /\ Timed(z) /\ Linkable(z)
    BY <1>0 DEF LinkInv, InTime, LinksKept
  <2>2. Timed(z)' /\ Linkable(z)'
    BY <1>0, <2>1, SameKept DEF Timed, Linkable, Horizon
  <2> QED
    BY <2>1, <2>2
<1>2. ASSUME NEW d \in Clients, NEW u \in url'[d] PROVE u.till \in Nat /\ KeptTill(u.object, u.till)'
  BY <1>2, SameKept DEF LinkInv, LinksKept
<1> QED
  BY <1>1, <1>2 DEF InTime, LinksKept

\* What a request for a link read of its job is kept as long as the clock may run before it signs.
LEMMA SeenIsKept ==
  ASSUME NothingDangles, NEW j \in Jobs, WhyNot(j) \in {None, "unsupported"}, NEW t \in Nat, t <= now
  PROVE  /\ Seen(j).expires \in Nat
         /\ KeptTill(Seen(j).object, Earlier(t + DeleteTerm, Seen(j).expires))
<1> DEFINE r == job[j].run
<1>1. /\ job[j].st = "there" /\ ~job[j].dismissed /\ job[j].until = NoTerm
      /\ ~(run[r].expires - now < MinRemaining) /\ run[r].st = "successful"
  BY DEF WhyNot, None
<1>2. r \in Runs /\ now \in Nat /\ DeleteTerm \in Nat
  BY <1>1, LimitsAssumption DEF NothingDangles, QueueInv, TypeOK, JobsHaveRuns
<1>3. run[r].expires \in Nat
  <2>1. run[r] \in RunRow
    BY <1>2 DEF NothingDangles, QueueInv, TypeOK
  <2> QED
    BY <2>1 DEF RunRow
<1>4. Seen(j).expires = run[r].expires /\ Seen(j).object = ResultOf(r)
  BY <1>1 DEF Seen
<1>5. j \in On(r) /\ Alive(j)
  BY <1>1 DEF On, Alive
<1> DEFINE T == Earlier(t + DeleteTerm, run[r].expires)
<1>6. T <= now + DeleteTerm /\ T <= run[r].expires
  BY <1>2, <1>3 DEF Earlier
<1>7. KeptTill(ResultOf(r), T)
  <2> HIDE DEF T, r
  <2> QED
    BY <1>1, <1>2, <1>5, <1>6 DEF KeptTill
<1> QED
  BY <1>3, <1>4, <1>7

LEMMA ServeLinks ==
  ASSUME LinkInv, NEW c \in Clients, Serve(c), UNCHANGED cleanupVars
  PROVE  InTime' /\ LinksKept'
<1> DEFINE q    == conn[c]
           Done == InTime' /\ LinksKept'
<1>0. /\ ConnOK(q) /\ Timed(q) /\ Linkable(q) /\ NothingDangles
      /\ now \in Nat /\ DeleteTerm \in Nat /\ now' = now /\ DOMAIN conn = Clients /\ DOMAIN url = Clients
  BY LimitsAssumption DEF LinkInv, Frames, InTime, LinksKept, NothingDangles, QueueInv, TypeOK, cleanupVars
<1>i. Timed(Idle) /\ Linkable(Idle)
  BY DEF Timed, Linkable, Idle
<1>e. End(c) /\ UNCHANGED url => Done
  BY <1>i, LinksMove DEF End, Go
<1>1. ASSUME Ask(c) PROVE Done
  <2>1. PICK w \in Wants[c] \ {[kind |-> "permalink"]} :
          Go(c, [pc |-> "status", kind |-> w.kind, seen |-> <<>>, since |-> now,
                 jobs |-> IF w.kind = "bundle" THEN list[w.list].jobs ELSE w.jobs])
    BY <1>1 DEF Ask
  <2> DEFINE y == [pc |-> "status", kind |-> w.kind, seen |-> <<>>, since |-> now,
                   jobs |-> IF w.kind = "bundle" THEN list[w.list].jobs ELSE w.jobs]
  <2>2. Timed(y) /\ Linkable(y) /\ conn' = [conn EXCEPT ![c] = y] /\ UNCHANGED url
    BY <1>0, <1>1, <2>1 DEF Timed, Linkable, Go, Ask
  <2> HIDE DEF y
  <2> QED
    BY <2>2, LinksMove
<1>2. ASSUME ReadStatus(c) PROVE Done
  <2> DEFINE p == Seen(q.jobs[Len(q.seen) + 1])
             s == Append(q.seen, p)
             y == [q EXCEPT !.pc = "recipe", !.seen = s]
  <2>1. /\ q.pc = "status" /\ UNCHANGED url
        /\ IF Refused(q, p.why) THEN End(c) ELSE Go(c, y)
    BY <1>2 DEF ReadStatus
  <2>2. Reading(q) /\ (q.kind = "link" => LinkRead(q))
    BY <1>0, <2>1 DEF ConnOK, Off, Idle, Checking, Sent
  <2>3. y = [pc |-> "recipe", kind |-> q.kind, seen |-> s, since |-> q.since, jobs |-> q.jobs]
    BY <2>2, ReadingMoves
  <2>4. q.since \in Nat /\ q.since \in {now - 1, now} /\ q.since <= now
    BY <1>0, <2>1 DEF Timed
  <2>5. ASSUME q.kind = "link", ~Refused(q, p.why)
        PROVE  s[1].expires \in Nat /\ KeptTill(s[1].object, Earlier(q.since + DeleteTerm, s[1].expires))
    <3>1. PICK j \in Jobs : q.jobs = <<j>> /\ q.seen = <<>>
      BY <2>1, <2>2, <2>5 DEF LinkRead
    <3>2. p = Seen(j) /\ s[1] = Seen(j)
      BY <3>1
    <3>3. WhyNot(j) \in {None, "unsupported"}
      BY <2>5, <3>2 DEF Refused, Single, Seen
    <3> QED
      BY <1>0, <2>4, <3>2, <3>3, SeenIsKept
  <2> HIDE DEF y, s, p
  <2>6. Timed(y)
    BY <2>3, <2>4 DEF Timed
  <2>7. ASSUME ~Refused(q, p.why) PROVE Linkable(y)
    BY <2>3, <2>5, <2>7 DEF Linkable, Horizon
  <2> QED
    BY <1>e, <2>1, <2>6, <2>7, LinksMove DEF Go
<1>3. ASSUME ReadRecipe(c) PROVE Done
  <2> DEFINE n == Len(q.seen)
             at == IF n < Len(q.jobs) THEN "status" ELSE "read"
             found == job[q.seen[n].job].st = "there"
             s == [q.seen EXCEPT ![n].body = found]
             y == [q EXCEPT !.pc = at, !.seen[n].body = found]
  <2>1. q.pc = "recipe" /\ Go(c, y) /\ UNCHANGED url
    BY <1>3 DEF ReadRecipe
  <2>2. Reading(q) /\ (q.kind = "link" => LinkRead(q))
    BY <1>0, <2>1 DEF ConnOK, Off, Idle, Checking, Sent
  <2>3. y = [pc |-> at, kind |-> q.kind, seen |-> s, since |-> q.since, jobs |-> q.jobs]
    <3>1. y = [q EXCEPT !.pc = at, !.seen = s]
      <4>1. [q EXCEPT !.pc = at].seen = q.seen
        BY <2>2 DEF Reading
      <4> QED
        BY <4>1
    <3> HIDE DEF q, at, s, y
    <3> QED
      BY <2>2, <3>1, ReadingMoves, Zenon
  <2>4. q.since \in Nat /\ q.since \in {now - 1, now}
    BY <1>0, <2>1 DEF Timed
  <2>5. ASSUME q.kind = "link"
        PROVE  s[1].expires = q.seen[1].expires /\ s[1].object = q.seen[1].object
    <3>1. PICK j \in Jobs : \E why, body, o, ends : q.jobs = <<j>> /\
            q.seen = << [job |-> j, why |-> why, body |-> body, object |-> o, expires |-> ends] >>
      BY <2>1, <2>2, <2>5 DEF LinkRead
    <3>2. PICK why, body, o, ends :
            q.jobs = <<j>> /\ q.seen = << [job |-> j, why |-> why, body |-> body, object |-> o, expires |-> ends] >>
      BY <3>1
    <3>3. s = << [job |-> j, why |-> why, body |-> found, object |-> o, expires |-> ends] >>
      BY <3>2
    <3> HIDE DEF found, s
    <3> QED
      BY <3>2, <3>3
  <2> HIDE DEF y, s, at
  <2>6. Timed(y)
    BY <2>3, <2>4 DEF Timed
  <2>7. Linkable(y)
    BY <1>0, <2>1, <2>3, <2>5 DEF Linkable, Horizon
  <2> QED
    BY <2>1, <2>6, <2>7, LinksMove DEF Go
<1>4. ASSUME Sign(c) PROVE Done
  <2> DEFINE p == q.seen[1]
             T == Earlier(now + SignedLife, p.expires)
  <2>1. /\ q.pc = "read" /\ q.kind = "link" /\ conn' = [conn EXCEPT ![c] = Idle]
        /\ url' = url \/ url' = [url EXCEPT ![c] = {[object |-> p.object, till |-> T]}]
    BY <1>4 DEF Sign, Till, End, Go
  <2>2. p.expires \in Nat /\ KeptTill(p.object, Horizon(q))
    BY <1>0, <2>1 DEF Linkable
  <2>3. T \in Nat /\ Horizon(q) \in Nat /\ T <= Horizon(q)
    <3>1. q.since \in Nat /\ q.since \in {now - 1, now}
      BY <1>0, <2>1 DEF Timed
    <3>2. SignedLife \in Nat /\ SignedLife < DeleteTerm
      BY DeliveryAssumption
    <3> HIDE DEF p, q
    <3>3. Horizon(q) = Earlier(q.since + DeleteTerm, p.expires)
      BY DEF Horizon, p
    <3> QED
      BY <1>0, <2>2, <3>1, <3>2, <3>3 DEF Earlier
  <2>4. KeptTill(p.object, T)
    BY <1>0, <2>2, <2>3, KeptTillLess
  <2> HIDE DEF p, T
  <2>5. PICK o, S : o = p.object /\ S = T
    OBVIOUS
  <2>6. \A d \in Clients : Timed(conn[d])' /\ Linkable(conn[d])'
    <3> SUFFICES ASSUME NEW d \in Clients PROVE Timed(conn[d])' /\ Linkable(conn[d])'
      OBVIOUS
    <3>1. PICK z : z = conn'[d] /\ Timed(z) /\ Linkable(z)
      BY <1>0, <1>i, <2>1 DEF LinkInv, InTime, LinksKept
    <3>2. Timed(z)' /\ Linkable(z)'
      BY <1>0, <3>1, SameKept DEF Timed, Linkable, Horizon
    <3> QED
      BY <3>1, <3>2
  <2>7. ASSUME NEW d \in Clients, NEW u \in url'[d] PROVE u.till \in Nat /\ KeptTill(u.object, u.till)'
    <3>1. u.till \in Nat /\ KeptTill(u.object, u.till)
      <4>1. CASE u \in url[d]
        BY <4>1 DEF LinkInv, LinksKept
      <4>2. CASE u \notin url[d]
        <5>1. u = [object |-> o, till |-> S]
          BY <1>0, <2>1, <2>5, <2>7, <4>2
        <5>2. u.object = o /\ u.till = S
          BY <5>1
        <5> QED
          BY <2>3, <2>4, <2>5, <5>2
      <4> QED
        BY <4>1, <4>2
    <3> QED
      BY <3>1, SameKept
  <2> QED
    BY <2>6, <2>7 DEF InTime, LinksKept
<1>5. ASSUME CreateBundle(c) \/ StoreSilent(c) \/ RefuseSending(c) \/ SentAll(c) \/ BreakOff(c) PROVE Done
  BY <1>5, <1>e DEF CreateBundle, StoreSilent, RefuseSending, SentAll, BreakOff
<1>6. ASSUME LayOut(c) PROVE Done
  <2>0. q.pc = "read" /\ UNCHANGED url
    BY <1>6 DEF LayOut
  <2>1. ASSUME NEW ms, NEW os, Go(c, [pc |-> "check", since |-> q.since, members |-> ms, open |-> os]) PROVE Done
    <3> DEFINE y == [pc |-> "check", since |-> q.since, members |-> ms, open |-> os]
    <3>1. Timed(y) /\ Linkable(y)
      BY <1>0, <2>0 DEF Timed, Linkable
    <3>2. conn' = [conn EXCEPT ![c] = y]
      BY <2>1 DEF Go
    <3> HIDE DEF y
    <3> QED
      BY <2>0, <3>1, <3>2, LinksMove
  <2> HIDE DEF Done
  <2> QED
    BY <1>6, <1>e, <2>0, <2>1 DEF LayOut
<1>7. ASSUME CheckStored(c) PROVE Done
  <2>1. q.pc = "check" /\ UNCHANGED url /\ \E o \in q.open : Go(c, [q EXCEPT !.open = @ \ {o}]) \/ End(c)
    BY <1>7 DEF CheckStored
  <2>2. Checking(q)
    BY <1>0, <2>1 DEF ConnOK, Off, Idle, Reading, Sent
  <2>3. PICK t, ms, os : q = [pc |-> "check", since |-> t, members |-> ms, open |-> os]
    BY <2>2 DEF Checking
  <2>4. ASSUME NEW o, Go(c, [q EXCEPT !.open = @ \ {o}]) PROVE Done
    <3> DEFINE y == [pc |-> "check", since |-> t, members |-> ms, open |-> os \ {o}]
    <3>1. [q EXCEPT !.open = @ \ {o}] = y
      BY <2>3
    <3>2. q.since = t /\ Timed(y) /\ Linkable(y)
      BY <1>0, <2>3 DEF Timed, Linkable
    <3> HIDE DEF y
    <3> QED
      BY <2>1, <2>4, <3>1, <3>2, LinksMove DEF Go
  <2> HIDE DEF Done
  <2> QED
    BY <1>e, <2>1, <2>4
<1>8. ASSUME UNCHANGED conn, UNCHANGED url PROVE Done
  <2>1. ASSUME NEW d \in Clients PROVE Timed(conn[d])' /\ Linkable(conn[d])'
    <3>1. PICK z : z = conn[d] /\ Timed(z) /\ Linkable(z)
      BY DEF LinkInv, InTime, LinksKept
    <3>2. Timed(z)' /\ Linkable(z)'
      BY <1>0, <3>1, SameKept DEF Timed, Linkable, Horizon
    <3> QED
      BY <1>8, <3>1, <3>2
  <2>2. ASSUME NEW d \in Clients, NEW u \in url'[d] PROVE u.till \in Nat /\ KeptTill(u.object, u.till)'
    BY <1>8, <2>2, SameKept DEF LinkInv, LinksKept
  <2> QED
    BY <2>1, <2>2 DEF InTime, LinksKept
<1>9. ASSUME StartSending(c) PROVE Done
  <2>1. ASSUME NEW ms, NEW first, NEW last, Go(c, Sending(ms, first, last)) PROVE Done
    <3> DEFINE y == Sending(ms, first, last)
    <3>1. Timed(y) /\ Linkable(y)
      BY DEF Timed, Linkable, Sending
    <3> HIDE DEF y
    <3> QED
      BY <1>9, <2>1, <3>1, LinksMove DEF Go, StartSending, y
  <2> HIDE DEF Done
  <2> QED
    BY <1>9, <2>1 DEF StartSending
<1>10. ASSUME SendByte(c) PROVE Done
  <2> DEFINE y == [q EXCEPT !.rest = Onward(q.rest), !.begun = TRUE]
  <2>1. q.pc = "send" /\ Go(c, y) /\ UNCHANGED url
    BY <1>10 DEF SendByte
  <2>2. Sent(q)
    BY <1>0, <2>1 DEF ConnOK, Off, Idle, Reading, Checking
  <2>3. y.pc = "send"
    BY <2>1, <2>2 DEF Sent
  <2> HIDE DEF y
  <2>4. Timed(y) /\ Linkable(y)
    BY <2>3 DEF Timed, Linkable
  <2> QED
    BY <2>1, <2>4, LinksMove DEF Go
<1> HIDE DEF Done
<1>11. Done
  BY <1>1, <1>2, <1>3, <1>4, <1>5, <1>6, <1>7, <1>8, <1>9, <1>10 DEF Serve, CreatePermalink, DeletePermalink
<1> QED
  BY <1>11 DEF Done

\* While no request moves, the queue and the clean-up keep what links say and will say.
LEMMA QuietKeepsLinks ==
  ASSUME LinkInv, [CleanupNext]_cleanupVars, UNCHANGED <<conn, url>>, now' = now \/ (now' = now + 1 /\ Timely)
  PROVE  InTime' /\ LinksKept'
<1>0. NothingDangles /\ now \in Nat /\ DeleteTerm \in Nat
  BY LimitsAssumption DEF LinkInv, NothingDangles, QueueInv, TypeOK
<1>1. ASSUME NEW d \in Clients PROVE Timed(conn[d])' /\ Linkable(conn[d])'
  <2>1. PICK z : z = conn[d] /\ ConnOK(z) /\ Timed(z) /\ Linkable(z)
    BY DEF LinkInv, Frames, InTime, LinksKept
  <2>2. Timed(z)'
    BY <1>0, <2>1 DEF Timed, Timely, Waits
  <2>3. ASSUME z.pc \in {"recipe", "read"}, z.kind = "link"
        PROVE  z.seen[1].expires \in Nat /\ KeptTill(z.seen[1].object, Horizon(z))'
    <3>1. z.seen[1].expires \in Nat /\ KeptTill(z.seen[1].object, Horizon(z)) /\ z.since \in Nat
      BY <2>1, <2>3 DEF Linkable, Timed
    <3>2. Horizon(z) \in Nat
      BY <1>0, <3>1 DEF Horizon, Earlier
    <3> QED
      BY <1>0, <3>1, <3>2, KeptTillStays
  <2>4. Linkable(z)'
    BY <2>3 DEF Linkable
  <2> QED
    BY <2>1, <2>2, <2>4
<1>2. ASSUME NEW d \in Clients, NEW u \in url'[d] PROVE u.till \in Nat /\ KeptTill(u.object, u.till)'
  BY <1>0, <1>2, KeptTillStays DEF LinkInv, LinksKept
<1> QED
  BY <1>1, <1>2 DEF InTime, LinksKept

LEMMA StepLinks ==
  ASSUME LinkInv, [DeliveryNext]_allVars
  PROVE  LinkInv'
<1>1. NothingDangles' /\ Frames'
  BY DeliveryIsCleanup, StepDangles, StepFrames DEF LinkInv
<1>2. ASSUME NEW c \in Clients, Serve(c), UNCHANGED cleanupVars PROVE InTime' /\ LinksKept'
  BY <1>2, ServeLinks
<1>3. ASSUME CleanupBatch PROVE InTime' /\ LinksKept'
  BY <1>3, DeliveryIsCleanup, QuietKeepsLinks DEF CleanupBatch, Cleanup
<1>4. ASSUME UNCHANGED deliveryVars, UNCHANGED now \/ (Tick /\ Timely) PROVE InTime' /\ LinksKept'
  BY <1>4, DeliveryIsCleanup, QuietKeepsLinks DEF deliveryVars, Tick
<1>5. ASSUME Restart, UNCHANGED cleanupVars PROVE InTime' /\ LinksKept'
  <2>1. ASSUME NEW d \in Clients PROVE Timed(conn[d])' /\ Linkable(conn[d])'
    BY <1>5 DEF Restart, Timed, Linkable, Off, Idle
  <2>2. ASSUME NEW d \in Clients, NEW u \in url'[d] PROVE u.till \in Nat /\ KeptTill(u.object, u.till)'
    BY <1>5, <2>2, SameKept DEF Restart, LinkInv, LinksKept
  <2> QED
    BY <2>1, <2>2 DEF InTime, LinksKept
<1>6. \/ UNCHANGED deliveryVars /\ (UNCHANGED now \/ (Tick /\ Timely))
      \/ CleanupBatch
      \/ Restart /\ UNCHANGED cleanupVars
      \/ \E c \in Clients : Serve(c) /\ UNCHANGED cleanupVars
  <2>1. ASSUME NEW r \in Runs, QueueStep(r) PROVE UNCHANGED now
    BY <2>1 DEF QueueStep, Claim, WorkerCall, Heartbeat, FinishFailed, Release, RequeueExpired, EndAttempt,
       FinishCancelled, LeaseRunsOut, BackoffEnds
  <2>2. ASSUME NEW j \in Jobs, ApiCall(j) PROVE UNCHANGED now
    BY <2>2 DEF ApiCall, Submit, SubmitHit, SubmitNew, SubmitAttach, Place, Dismiss, Restore
  <2> QED
    BY <2>1, <2>2 DEF DeliveryNext, Deliver, FinishSuccessful, CleanupFails, queueVars, allVars, cleanupVars
<1> QED
  BY <1>1, <1>2, <1>3, <1>4, <1>5, <1>6 DEF LinkInv

\* A link works for as long as it says: whatever is deleted, taken back or cleaned up meanwhile,
\* and however the terms of the store, the results and the deletions lie, if only a link lives
\* shorter than a deleted order can be restored (signed_download, DELETE_TERM).
THEOREM LinksKeepTheirWord == DeliverySpec => []LinksLast
<1>1. DeliveryInit => LinkInv
  <2> SUFFICES ASSUME DeliveryInit PROVE LinkInv
    OBVIOUS
  <2>1. NothingDangles /\ Frames
    BY InitDangles, InitFrames DEF DeliveryInit
  <2>2. \A c \in Clients : Timed(conn[c]) /\ Linkable(conn[c]) /\ url[c] = {}
    BY DEF DeliveryInit, Begin, Timed, Linkable, Off, Idle
  <2> QED
    BY <2>1, <2>2 DEF LinkInv, InTime, LinksKept
<1>2. LinkInv => LinksLast
  BY KeptLinksLast
<1> QED
  BY <1>1, <1>2, StepLinks, PTL DEF DeliverySpec

\* Downloads, links and lists leave the queue and its clean-up as they are: the whole implements
\* them, so its tables and objects agree and callers get what they were promised.
THEOREM DeliveryImplements == DeliverySpec => CleanupSpec
<1>1. DeliveryInit => CleanupInit
  BY DEF DeliveryInit
<1> QED
  BY <1>1, DeliveryIsCleanup, PTL DEF DeliverySpec, CleanupSpec

THEOREM DeliveryKeepsThePromise == DeliverySpec => []NothingDangles /\ PromiseKept
BY DeliveryImplements, NothingEverDangles, PromiseIsKept, PTL

-----------------------------------------------------------------------------
(* The bytes of an archive *)

\* A set of numbers has a smallest one.
LEMMA SmallestOne ==
  ASSUME NEW S \in SUBSET Nat, S # {}
  PROVE  \E x \in S : \A y \in S : x <= y
<1> DEFINE Less == OpToRel(<, Nat)
<1>0. \A x, y \in Nat : x < y => <<x, y>> \in Less
  <2> TAKE x \in Nat, y \in Nat
  <2> HAVE x < y
  <2>1. <<x, y>>[1] < <<x, y>>[2] /\ <<x, y>> \in Nat \X Nat
    OBVIOUS
  <2> QED
    BY <2>1, Zenon DEF OpToRel
<1>1. \E x \in S : \A y \in S : ~(<<y, x>> \in Less)
  BY NatLessThanWellFounded, WFMin
<1> HIDE DEF Less
<1>2. PICK x \in S : \A y \in S : ~(<<y, x>> \in Less)
  BY <1>1
<1>3. \A y \in S : ~(y < x)
  BY <1>0, <1>2
<1> QED
  BY <1>2, <1>3

\* One of a set of numbers below a bound is the largest.
LEMMA LargestOne ==
  ASSUME NEW n \in Nat, NEW S \in SUBSET (0 .. n), S # {}
  PROVE  \E x \in S : \A y \in S : y <= x
<1> DEFINE T == {n - x : x \in S}
<1>0. \A x \in S : x \in Nat /\ x <= n /\ n - x \in Nat
  OBVIOUS
<1>1. T \in SUBSET Nat /\ T # {}
  BY <1>0
<1>2. PICK t \in T : \A u \in T : t <= u
  BY <1>1, SmallestOne
<1>3. PICK x \in S : t = n - x
  BY <1>2
<1>4. ASSUME NEW y \in S PROVE y <= x
  <2>1. n - y \in T
    BY <1>4
  <2>2. n - x <= n - y
    BY <1>2, <1>3, <2>1
  <2> QED
    BY <1>0, <1>3, <1>4, <2>2
<1> QED
  BY <1>3, <1>4

\* What FlattenSeq builds on its way, and that it ends with all of it.
Flattens(f, ss) ==
  /\ DOMAIN f = 1 .. Len(ss) /\ f[1] = ss[1]
  /\ \A i \in 2 .. Len(ss) : f[i] = f[i - 1] \o ss[i]

LEMMA Flattened ==
  ASSUME NEW X, NEW ss \in Seq(Seq(X)), ss # <<>>
  PROVE  \E f : Flattens(f, ss) /\ f \in [1 .. Len(ss) -> Seq(X)] /\ FlattenSeq(ss) = f[Len(ss)]
<1> DEFINE Upto(f, n) == DOMAIN f = 1 .. n /\ \A i \in 1 .. n : f[i] = IF i = 1 THEN ss[i] ELSE f[i - 1] \o ss[i]
           there(n)   == \E f \in [1 .. n -> Seq(X)] : Upto(f, n)
<1>0. Len(ss) \in Nat \ {0} /\ \A i \in 1 .. Len(ss) : ss[i] \in Seq(X)
  OBVIOUS
<1>1. there(1)
  <2> DEFINE f == [i \in 1 .. 1 |-> ss[1]]
  <2>1. f \in [1 .. 1 -> Seq(X)]
    BY <1>0
  <2>2. Upto(f, 1)
    OBVIOUS
  <2> QED
    BY <2>1, <2>2
<1>2. ASSUME NEW n \in 1 .. Len(ss), n + 1 <= Len(ss), there(n) PROVE there(n + 1)
  <2>1. PICK f \in [1 .. n -> Seq(X)] : Upto(f, n)
    BY <1>2
  <2> DEFINE g == [i \in 1 .. n + 1 |-> IF i <= n THEN f[i] ELSE f[n] \o ss[n + 1]]
  <2>2. f[n] \in Seq(X) /\ ss[n + 1] \in Seq(X) /\ f[n] \o ss[n + 1] \in Seq(X)
    <3>1. f[n] \in Seq(X)
      BY <2>1
    <3>2. ss[n + 1] \in Seq(X)
      BY <1>0, <1>2
    <3> QED
      BY <3>1, <3>2
  <2>3. g \in [1 .. n + 1 -> Seq(X)]
    BY <2>2
  <2>4. ASSUME NEW i \in 1 .. n + 1 PROVE g[i] = IF i = 1 THEN ss[i] ELSE g[i - 1] \o ss[i]
    <3>1. CASE i <= n
      <4>1. f[i] = IF i = 1 THEN ss[i] ELSE f[i - 1] \o ss[i]
        <5>1. i \in 1 .. n
          BY <3>1
        <5> HIDE DEF there
        <5> QED
          BY <2>1, <5>1, Zenon
      <4>2. i # 1 => g[i - 1] = f[i - 1]
        BY <3>1
      <4> QED
        BY <3>1, <4>1, <4>2
    <3>2. CASE i = n + 1
      BY <3>2
    <3> QED
      BY <3>1, <3>2
  <2>5. Upto(g, n + 1)
    BY <2>4
  <2> HIDE DEF g
  <2> QED
    BY <2>3, <2>5
<1>3. there(Len(ss))
  <2> SUFFICES ASSUME ~there(Len(ss)) PROVE FALSE
    OBVIOUS
  <2> DEFINE S == {n \in 1 .. Len(ss) : ~there(n)}
  <2> HIDE DEF there
  <2>1. S # {} /\ S \in SUBSET Nat
    BY <1>0
  <2>2. PICK n \in S : \A m \in S : n <= m
    BY <2>1, SmallestOne
  <2>3. n # 1 /\ n - 1 \in 1 .. Len(ss) /\ n - 1 \notin S
    BY <1>1, <2>2
  <2>4. there(n - 1)
    BY <2>3
  <2>5. there((n - 1) + 1)
    BY <1>2, <2>2, <2>3, <2>4
  <2> QED
    BY <2>2, <2>5
<1> DEFINE Onwards(f) == [i \in 1 .. Len(ss) |-> IF i = 1 THEN ss[i] ELSE f[i - 1] \o ss[i]]
           all == CHOOSE f : f = Onwards(f)
<1>4. all = Onwards(all)
  <2>1. PICK f \in [1 .. Len(ss) -> Seq(X)] : Upto(f, Len(ss))
    BY <1>3
  <2>2. f = Onwards(f)
    BY <2>1
  <2> HIDE DEF Onwards
  <2> QED
    BY <2>2
<1>5. FlattenSeq(ss) = all[Len(ss)]
  BY <1>0 DEF FlattenSeq
<1> HIDE DEF all
<1>6. DOMAIN all = 1 .. Len(ss) /\ \A i \in 1 .. Len(ss) : all[i] = IF i = 1 THEN ss[i] ELSE all[i - 1] \o ss[i]
  <2> DEFINE r == Onwards(all)
  <2>1. DOMAIN r = 1 .. Len(ss) /\ \A i \in 1 .. Len(ss) : r[i] = IF i = 1 THEN ss[i] ELSE all[i - 1] \o ss[i]
    OBVIOUS
  <2>2. r = all
    BY <1>4
  <2> HIDE DEF r
  <2> QED
    BY <2>1, <2>2
<1>7. Flattens(all, ss)
  <2>0. 1 \in 1 .. Len(ss) /\ \A i \in 2 .. Len(ss) : i \in 1 .. Len(ss) /\ i # 1
    BY <1>0
  <2>1. all[1] = ss[1] /\ \A i \in 2 .. Len(ss) : i \in 1 .. Len(ss) /\ i # 1
    BY <1>6, <2>0
  <2> QED
    BY <1>6, <2>1 DEF Flattens
<1>8. \A i \in 1 .. Len(ss) : all[i] \in Seq(X)
  <2> SUFFICES ASSUME {i \in 1 .. Len(ss) : all[i] \notin Seq(X)} # {} PROVE FALSE
    OBVIOUS
  <2> DEFINE S == {k \in 1 .. Len(ss) : all[k] \notin Seq(X)}
  <2>0. S \in SUBSET Nat /\ S # {}
    BY <1>0
  <2>1. PICK i \in S : \A k \in S : i <= k
    BY <2>0, SmallestOne
  <2>2. i # 1
    BY <1>0, <1>6, <2>1
  <2>3. all[i - 1] \in Seq(X) /\ ss[i] \in Seq(X)
    <3>1. i \in 1 .. Len(ss) /\ i - 1 \in 1 .. Len(ss) /\ ~(i <= i - 1)
      BY <1>0, <2>1, <2>2
    <3>2. i - 1 \notin S
      BY <2>1, <3>1
    <3> QED
      BY <1>0, <3>1, <3>2
  <2>4. all[i] = all[i - 1] \o ss[i]
    BY <1>6, <2>1, <2>2
  <2>5. all[i] \in Seq(X)
    BY <2>3, <2>4
  <2> QED
    BY <2>1, <2>5
<1>9. all = [i \in 1 .. Len(ss) |-> all[i]]
  <2> DEFINE r == Onwards(all)
  <2>1. r = [i \in 1 .. Len(ss) |-> r[i]]
    OBVIOUS
  <2>2. r = all
    BY <1>4
  <2> HIDE DEF r
  <2> QED
    BY <2>1, <2>2
<1> HIDE DEF Onwards
<1>10. all \in [1 .. Len(ss) -> Seq(X)]
  BY <1>8, <1>9
<1> QED
  BY <1>5, <1>7, <1>10

LEMMA FlattenedIsSeq ==
  ASSUME NEW X, NEW ss \in Seq(Seq(X))
  PROVE  FlattenSeq(ss) \in Seq(X)
<1>1. CASE ss = <<>>
  BY <1>1 DEF FlattenSeq
<1>2. CASE ss # <<>>
  <2>1. Len(ss) \in 1 .. Len(ss)
    BY <1>2
  <2>2. PICK f : f \in [1 .. Len(ss) -> Seq(X)] /\ FlattenSeq(ss) = f[Len(ss)]
    BY <1>2, Flattened
  <2> QED
    BY <2>1, <2>2
<1> QED
  BY <1>1, <1>2

\* Parts with a size each, as an archive has them.
AreParts(ps) == (\E X : ps \in Seq(X)) /\ ps # <<>> /\ \A k \in DOMAIN ps : ps[k].size \in Nat \ {0}

LEMMA PartsAreNumbered ==
  ASSUME NEW ps, AreParts(ps)
  PROVE  Len(ps) \in Nat \ {0} /\ DOMAIN ps = 1 .. Len(ps) /\ \A k \in 1 .. Len(ps) : ps[k].size \in Nat \ {0}
<1>1. PICK X : ps \in Seq(X)
  BY DEF AreParts
<1>2. Len(ps) \in Nat \ {0} /\ DOMAIN ps = 1 .. Len(ps)
  BY <1>1 DEF AreParts
<1> QED
  BY <1>2 DEF AreParts

\* Every part begins where the one before it ends.
LEMMA StartsFollow ==
  ASSUME NEW ps, AreParts(ps)
  PROVE  /\ Starts(ps) \in [1 .. Len(ps) + 1 -> Nat] /\ Starts(ps)[1] = 0
         /\ \A k \in 1 .. Len(ps) : Starts(ps)[k + 1] = Starts(ps)[k] + ps[k].size
<1> DEFINE N == Len(ps) + 1
           Upto(f, n) == DOMAIN f = 1 .. n /\ \A k \in 1 .. n : f[k] = IF k = 1 THEN 0 ELSE f[k - 1] + ps[k - 1].size
           there(n)   == \E f \in [1 .. n -> Nat] : Upto(f, n)
<1>0. N \in Nat \ {0} /\ \A k \in 1 .. N : k # 1 => k - 1 \in 1 .. N /\ ps[k - 1].size \in Nat
  BY PartsAreNumbered
<1>s. \A k \in 1 .. N : k + 1 <= N => ps[k].size \in Nat
  BY PartsAreNumbered
<1> HIDE DEF N
<1>1. there(1)
  <2> DEFINE f == [k \in 1 .. 1 |-> 0]
  <2>1. f \in [1 .. 1 -> Nat] /\ Upto(f, 1)
    OBVIOUS
  <2> QED
    BY <2>1
<1>2. ASSUME NEW n \in 1 .. N, n + 1 <= N, there(n) PROVE there(n + 1)
  <2>1. PICK f \in [1 .. n -> Nat] : Upto(f, n)
    BY <1>2
  <2>0. n \in Nat \ {0} /\ n + 1 \in 1 .. N
    BY <1>0, <1>2
  <2> DEFINE e == f[n] + ps[n].size
             g == [k \in 1 .. n + 1 |-> IF k <= n THEN f[k] ELSE e]
  <2>2. e \in Nat
    <3>1. f[n] \in Nat
      BY <2>0, <2>1
    <3>2. ps[n].size \in Nat
      BY <1>s, <2>0, <1>2
    <3> QED
      BY <3>1, <3>2
  <2>3. g \in [1 .. n + 1 -> Nat]
    BY <2>2
  <2>4. ASSUME NEW k \in 1 .. n + 1 PROVE g[k] = IF k = 1 THEN 0 ELSE g[k - 1] + ps[k - 1].size
    <3>1. CASE k <= n
      <4>1. k \in 1 .. n
        BY <3>1
      <4>2. f[k] = IF k = 1 THEN 0 ELSE f[k - 1] + ps[k - 1].size
        <5> HIDE DEF there
        <5> QED
          BY <2>1, <4>1, Zenon
      <4>3. k # 1 => g[k - 1] = f[k - 1]
        BY <3>1
      <4> QED
        BY <3>1, <4>2, <4>3
    <3>2. CASE k = n + 1
      <4>1. k # 1 /\ k - 1 = n /\ g[n] = f[n] /\ g[k] = e
        BY <2>0, <3>2
      <4> QED
        BY <4>1
    <3> QED
      BY <2>0, <3>1, <3>2
  <2>5. Upto(g, n + 1)
    BY <2>4
  <2> HIDE DEF g
  <2> QED
    BY <2>3, <2>5
<1>3. there(N)
  <2> SUFFICES ASSUME ~there(N) PROVE FALSE
    OBVIOUS
  <2> DEFINE S == {n \in 1 .. N : ~there(n)}
  <2> HIDE DEF there
  <2>1. S # {} /\ S \in SUBSET Nat
    BY <1>0
  <2>2. PICK n \in S : \A m \in S : n <= m
    BY <2>1, SmallestOne
  <2>3. n # 1 /\ n - 1 \in 1 .. N /\ n - 1 \notin S
    BY <1>0, <1>1, <2>2
  <2>4. there(n - 1)
    BY <2>3
  <2>5. there((n - 1) + 1)
    BY <1>2, <2>2, <2>3, <2>4
  <2> QED
    BY <2>2, <2>5
<1> DEFINE Onwards(f) == [k \in 1 .. N |-> IF k = 1 THEN 0 ELSE f[k - 1] + ps[k - 1].size]
           all == CHOOSE f : f = Onwards(f)
<1>4. all = Onwards(all)
  <2>1. PICK f \in [1 .. N -> Nat] : Upto(f, N)
    BY <1>3
  <2>2. f = Onwards(f)
    BY <2>1
  <2> HIDE DEF Onwards
  <2> QED
    BY <2>2
<1>5. Starts(ps) = all
  BY DEF Starts, N
<1> HIDE DEF all
<1>6. /\ DOMAIN all = 1 .. N /\ all = [k \in 1 .. N |-> all[k]]
      /\ \A k \in 1 .. N : all[k] = IF k = 1 THEN 0 ELSE all[k - 1] + ps[k - 1].size
  <2> DEFINE r == Onwards(all)
  <2>1. /\ DOMAIN r = 1 .. N /\ r = [k \in 1 .. N |-> r[k]]
        /\ \A k \in 1 .. N : r[k] = IF k = 1 THEN 0 ELSE all[k - 1] + ps[k - 1].size
    OBVIOUS
  <2>2. r = all
    BY <1>4
  <2> HIDE DEF r
  <2> QED
    BY <2>1, <2>2
<1> HIDE DEF Onwards
<1>7. \A k \in 1 .. N : all[k] \in Nat
  <2> SUFFICES ASSUME {k \in 1 .. N : all[k] \notin Nat} # {} PROVE FALSE
    OBVIOUS
  <2> DEFINE S == {k \in 1 .. N : all[k] \notin Nat}
  <2>0. S \in SUBSET Nat /\ S # {}
    BY <1>0
  <2>1. PICK k \in S : \A i \in S : k <= i
    BY <2>0, SmallestOne
  <2>2. k # 1
    <3>1. 1 \in 1 .. N
      BY <1>0
    <3>2. all[1] = 0
      BY <1>6, <3>1
    <3> QED
      BY <2>1, <3>2
  <2>3. k - 1 \in 1 .. N /\ ps[k - 1].size \in Nat /\ ~(k <= k - 1)
    BY <1>0, <2>1, <2>2
  <2>4. all[k - 1] \in Nat
    BY <2>1, <2>3
  <2>5. all[k] = all[k - 1] + ps[k - 1].size
    BY <1>6, <2>1, <2>2
  <2> QED
    BY <2>1, <2>3, <2>4, <2>5
<1>8. all \in [1 .. N -> Nat] /\ all[1] = 0
  BY <1>0, <1>6, <1>7
<1>9. ASSUME NEW k \in 1 .. Len(ps) PROVE all[k + 1] = all[k] + ps[k].size
  <2>1. k + 1 \in 1 .. N /\ k + 1 # 1 /\ (k + 1) - 1 = k
    BY PartsAreNumbered DEF N
  <2>2. all[k + 1] = IF k + 1 = 1 THEN 0 ELSE all[(k + 1) - 1] + ps[(k + 1) - 1].size
    BY <1>6, <2>1, Zenon
  <2> QED
    BY <2>1, <2>2
<1> QED
  BY <1>5, <1>8, <1>9 DEF N

\* What comes later begins behind what comes before it.
LEMMA StartsGrow ==
  ASSUME NEW ps, AreParts(ps), NEW i \in 1 .. Len(ps), NEW k \in 1 .. Len(ps) + 1, i < k
  PROVE  Starts(ps)[i] + ps[i].size <= Starts(ps)[k]
<1> DEFINE s == Starts(ps)
<1>0. Len(ps) \in Nat \ {0} /\ s \in [1 .. Len(ps) + 1 -> Nat]
      /\ \A j \in 1 .. Len(ps) : s[j + 1] = s[j] + ps[j].size /\ ps[j].size \in Nat \ {0}
  BY PartsAreNumbered, StartsFollow
<1> HIDE DEF s
<1> DEFINE S == {j \in 1 .. Len(ps) + 1 : i < j /\ ~(s[i] + ps[i].size <= s[j])}
<1> SUFFICES ASSUME S # {} PROVE FALSE
  BY DEF s
<1>1. S \in SUBSET Nat
  BY <1>0
<1>2. PICK j \in S : \A h \in S : j <= h
  BY <1>1, SmallestOne
<1>3. j \in Nat /\ j - 1 \in 1 .. Len(ps) /\ (j - 1) + 1 = j /\ i \in Nat
  BY <1>0, <1>2
<1>4. s[j] = s[j - 1] + ps[j - 1].size /\ ps[j - 1].size \in Nat /\ s[j - 1] \in Nat
  <2>1. s[(j - 1) + 1] = s[j - 1] + ps[j - 1].size /\ ps[j - 1].size \in Nat
    BY <1>0, <1>3
  <2>2. s[j - 1] \in Nat
    <3>1. j - 1 \in 1 .. Len(ps) + 1
      BY <1>0, <1>3
    <3> QED
      BY <1>0, <3>1
  <2> QED
    BY <1>3, <2>1, <2>2
<1>5. s[i] \in Nat /\ ps[i].size \in Nat
  <2>1. i \in 1 .. Len(ps) + 1
    BY <1>0
  <2> QED
    BY <1>0, <2>1
<1>6. CASE j - 1 = i
  BY <1>2, <1>4, <1>5, <1>6
<1>7. CASE j - 1 # i
  <2>1. i < j - 1 /\ j - 1 \in 1 .. Len(ps) + 1 /\ ~(j <= j - 1)
    BY <1>0, <1>2, <1>3, <1>7
  <2>2. s[i] + ps[i].size <= s[j - 1]
    BY <1>2, <2>1
  <2>3. \A a, b, c, d \in Nat : a + b <= c => a + b <= c + d
    OBVIOUS
  <2>4. s[i] + ps[i].size <= s[j - 1] + ps[j - 1].size
    BY <1>4, <1>5, <2>2, <2>3
  <2> QED
    BY <1>2, <1>4, <2>4
<1> QED
  BY <1>6, <1>7

LEMMA Appended ==
  ASSUME NEW X, NEW a \in Seq(X), NEW b \in Seq(X)
  PROVE  /\ Len(a \o b) = Len(a) + Len(b)
         /\ \A n \in 1 .. Len(a) : (a \o b)[n] = a[n]
         /\ \A n \in 1 .. Len(b) : (a \o b)[Len(a) + n] = b[n]
OBVIOUS

\* A byte of a part is where its part begins in the archive, and its place in the part further on.
LEMMA ContentLies ==
  ASSUME NEW ms, AreParts(Parts(ms))
  PROVE  /\ \E X : Content(ms) \in Seq(X)
         /\ Len(Content(ms)) = Total(ms) /\ Total(ms) \in Nat
         /\ \A k \in 1 .. Len(Parts(ms)) : \A i \in 1 .. Parts(ms)[k].size :
              Content(ms)[Starts(Parts(ms))[k] + i] = [part |-> Parts(ms)[k], at |-> i - 1]
<1> DEFINE ps == Parts(ms)
           N  == Len(ps)
           s  == Starts(ps)
           byte(k, i) == [part |-> ps[k], at |-> i - 1]
           X  == [part : {ps[k] : k \in 1 .. N}, at : Nat]
           bs == [k \in 1 .. N |-> [i \in 1 .. ps[k].size |-> byte(k, i)]]
<1>0. /\ N \in Nat \ {0} /\ DOMAIN ps = 1 .. N /\ s \in [1 .. N + 1 -> Nat] /\ s[1] = 0
      /\ \A k \in 1 .. N : s[k + 1] = s[k] + ps[k].size /\ ps[k].size \in Nat \ {0}
  BY PartsAreNumbered, StartsFollow
<1>1. Content(ms) = FlattenSeq(bs) /\ Total(ms) = s[N + 1]
  BY <1>0 DEF Content, Total
<1>g. ASSUME NEW j \in 1 .. N, NEW k \in 1 .. N + 1, j < k PROVE s[j] + ps[j].size <= s[k]
  BY <1>g, StartsGrow
<1> HIDE DEF ps, N, s
<1>2. \A k \in 1 .. N : /\ bs[k] \in Seq(X) /\ Len(bs[k]) = ps[k].size
                        /\ \A i \in 1 .. ps[k].size : bs[k][i] = byte(k, i)
  <2> SUFFICES ASSUME NEW k \in 1 .. N
               PROVE  /\ bs[k] \in Seq(X) /\ Len(bs[k]) = ps[k].size
                      /\ \A i \in 1 .. ps[k].size : bs[k][i] = byte(k, i)
    OBVIOUS
  <2>1. ps[k].size \in Nat
    BY <1>0
  <2>2. bs[k] = [i \in 1 .. ps[k].size |-> byte(k, i)]
    OBVIOUS
  <2>3. \A i \in 1 .. ps[k].size : byte(k, i) \in X
    BY <2>1
  <2> HIDE DEF bs, byte, X
  <2> QED
    BY <2>1, <2>2, <2>3
<1>3. bs \in Seq(Seq(X)) /\ Len(bs) = N /\ bs # <<>>
  <2>1. DOMAIN bs = 1 .. N
    OBVIOUS
  <2>2. bs = [k \in 1 .. N |-> bs[k]]
    OBVIOUS
  <2>3. \A k \in 1 .. N : bs[k] \in Seq(X)
    BY <1>2
  <2> HIDE DEF bs, X, byte
  <2>4. bs \in Seq(Seq(X))
    BY <1>0, <2>2, <2>3
  <2>5. Len(bs) = N
    BY <1>0, <2>1
  <2>6. N # 0 /\ Len(<<>>) = 0
    BY <1>0
  <2> QED
    BY <2>4, <2>5, <2>6
<1> HIDE DEF bs, X
<1>4. PICK f : Flattens(f, bs) /\ f \in [1 .. Len(bs) -> Seq(X)] /\ FlattenSeq(bs) = f[Len(bs)]
  BY <1>3, Flattened
<1> DEFINE laid(k) == /\ Len(f[k]) = s[k + 1]
                      /\ \A j \in 1 .. k : \A i \in 1 .. ps[j].size : f[k][s[j] + i] = byte(j, i)
<1>5. f[1] = bs[1] /\ \A k \in 1 .. N : f[k] \in Seq(X) /\ (k # 1 => k - 1 \in 1 .. N /\ f[k] = f[k - 1] \o bs[k])
  <2>1. f[1] = bs[1] /\ \A k \in 2 .. N : f[k] = f[k - 1] \o bs[k]
    BY <1>3, <1>4 DEF Flattens
  <2>2. \A k \in 1 .. N : f[k] \in Seq(X)
    BY <1>3, <1>4
  <2>3. ASSUME NEW k \in 1 .. N, k # 1 PROVE k \in 2 .. N /\ k - 1 \in 1 .. N
    BY <1>0, <2>3
  <2> QED
    BY <2>1, <2>2, <2>3
<1>6. laid(1)
  <2>1. 1 \in 1 .. N /\ s[1 + 1] = s[1] + ps[1].size /\ s[1] = 0 /\ ps[1].size \in Nat
    BY <1>0
  <2>2. Len(f[1]) = ps[1].size /\ \A i \in 1 .. ps[1].size : f[1][i] = byte(1, i)
    BY <1>2, <1>5, <2>1
  <2>3. ASSUME NEW i \in 1 .. ps[1].size PROVE f[1][s[1] + i] = byte(1, i)
    BY <2>1, <2>2
  <2>4. Len(f[1]) = s[1 + 1]
    BY <2>1, <2>2
  <2>5. \A j \in 1 .. 1 : j = 1
    OBVIOUS
  <2> HIDE DEF byte
  <2> QED
    BY <2>3, <2>4, <2>5
<1>7. ASSUME NEW k \in 1 .. N, k # 1, laid(k - 1) PROVE laid(k)
  <2>0. k \in Nat /\ k - 1 \in 1 .. N /\ (k - 1) + 1 = k
    BY <1>0, <1>7
  <2>1. f[k - 1] \in Seq(X) /\ bs[k] \in Seq(X) /\ f[k] = f[k - 1] \o bs[k] /\ Len(bs[k]) = ps[k].size
    BY <1>2, <1>5, <1>7, <2>0
  <2>2. s[k] \in Nat /\ ps[k].size \in Nat /\ s[k + 1] = s[k] + ps[k].size /\ Len(f[k - 1]) = s[k]
    <3>1. k \in 1 .. N + 1
      BY <1>0
    <3>2. s[k] \in Nat
      BY <1>0, <3>1
    <3>3. Len(f[k - 1]) = s[(k - 1) + 1]
      BY <1>7
    <3> QED
      BY <1>0, <2>0, <3>2, <3>3
  <2> HIDE DEF byte
  <2>j. /\ Len(f[k]) = Len(f[k - 1]) + Len(bs[k])
        /\ \A n \in 1 .. Len(f[k - 1]) : f[k][n] = f[k - 1][n]
        /\ \A n \in 1 .. Len(bs[k]) : f[k][Len(f[k - 1]) + n] = bs[k][n]
    <3> DEFINE a == f[k - 1]
               b == bs[k]
    <3>1. a \in Seq(X) /\ b \in Seq(X) /\ f[k] = a \o b
      BY <2>1
    <3> HIDE DEF a, b
    <3>2. /\ Len(a \o b) = Len(a) + Len(b)
          /\ \A n \in 1 .. Len(a) : (a \o b)[n] = a[n]
          /\ \A n \in 1 .. Len(b) : (a \o b)[Len(a) + n] = b[n]
      BY <3>1, Appended
    <3>3. /\ Len(f[k]) = Len(a) + Len(b)
          /\ \A n \in 1 .. Len(a) : f[k][n] = a[n]
          /\ \A n \in 1 .. Len(b) : f[k][Len(a) + n] = b[n]
      BY <3>1, <3>2, Zenon
    <3> QED
      BY <3>3, Zenon DEF a, b
  <2>3. Len(f[k]) = s[k + 1]
    BY <2>1, <2>2, <2>j
  <2>4. ASSUME NEW j \in 1 .. k, NEW i \in 1 .. ps[j].size PROVE f[k][s[j] + i] = byte(j, i)
    <3>0. j \in 1 .. N /\ ps[j].size \in Nat /\ s[j] \in Nat
      <4>1. j \in 1 .. N /\ j \in 1 .. N + 1
        BY <1>0
      <4> QED
        BY <1>0, <4>1
    <3>1. CASE j = k
      <4>1. f[k][s[k] + i] = bs[k][i]
        BY <2>1, <2>2, <2>j, <3>1
      <4>2. bs[k][i] = byte(k, i)
        BY <1>2, <3>1
      <4> HIDE DEF byte
      <4> QED
        BY <3>1, <4>1, <4>2
    <3>2. CASE j # k
      <4>1. j \in 1 .. k - 1 /\ j < k /\ k \in 1 .. N + 1
        BY <1>0, <2>0, <3>2
      <4>2. s[j] + ps[j].size <= s[k]
        BY <1>g, <3>0, <4>1
      <4>3. s[j] + i \in 1 .. s[k]
        BY <2>2, <3>0, <4>2
      <4>4. f[k][s[j] + i] = f[k - 1][s[j] + i]
        BY <2>2, <2>j, <4>3
      <4>5. f[k - 1][s[j] + i] = byte(j, i)
        BY <1>7, <4>1
      <4> HIDE DEF byte
      <4> QED
        BY <4>4, <4>5
    <3> QED
      BY <3>1, <3>2
  <2> HIDE DEF byte
  <2> QED
    BY <2>3, <2>4
<1>8. laid(N)
  <2> SUFFICES ASSUME ~laid(N) PROVE FALSE
    OBVIOUS
  <2> DEFINE S == {k \in 1 .. N : ~laid(k)}
  <2> HIDE DEF laid
  <2>1. S # {} /\ S \in SUBSET Nat
    <3>1. N \in 1 .. N
      BY <1>0
    <3> QED
      BY <3>1
  <2>2. PICK k \in S : \A j \in S : k <= j
    BY <2>1, SmallestOne
  <2>3. k # 1 /\ k - 1 \in 1 .. N /\ ~(k <= k - 1)
    BY <1>0, <1>6, <2>2
  <2>4. laid(k - 1)
    BY <2>2, <2>3
  <2> QED
    BY <1>7, <2>2, <2>3, <2>4
<1>9. Content(ms) = f[N] /\ f[N] \in Seq(X) /\ s[N + 1] \in Nat
  BY <1>0, <1>1, <1>3, <1>4, <1>5
<1> HIDE DEF byte
<1>10. \A k \in 1 .. N : \A i \in 1 .. ps[k].size : Content(ms)[s[k] + i] = byte(k, i)
  BY <1>8, <1>9
<1> QED
  BY <1>1, <1>8, <1>9, <1>10 DEF ps, N, s, byte

\* Members as an archive has them: a sequence of something with a size each.
Sized(ms) == (\E X : ms \in Seq(X)) /\ \A i \in DOMAIN ms : ms[i].size \in Nat \ {0}

LEMMA SizedHasParts ==
  ASSUME NEW ms, Sized(ms)
  PROVE  AreParts(Parts(ms))
<1> DEFINE head(i) == [size |-> 1, object |-> NoObject, says |-> <<"header", ms[i]>>]
           data(i) == [size |-> ms[i].size, object |-> ms[i].object, says |-> <<"data", ms[i]>>]
           ss      == [i \in DOMAIN ms |-> <<head(i), data(i)>>]
           end     == [size |-> 1, object |-> NoObject, says |-> <<"directory", ms>>]
           X       == {head(i) : i \in DOMAIN ms} \cup {data(i) : i \in DOMAIN ms}
           Y       == X \cup {end}
<1>1. Len(ms) \in Nat /\ DOMAIN ms = 1 .. Len(ms)
  BY DEF Sized
<1>2. Parts(ms) = FlattenSeq(ss) \o <<end>>
  BY DEF Parts
<1>3. \A x \in Y : x.size \in Nat \ {0}
  BY DEF Sized
<1>4. \A i \in DOMAIN ms : ss[i] \in Seq(X)
  <2> SUFFICES ASSUME NEW i \in DOMAIN ms PROVE <<head(i), data(i)>> \in Seq(X)
    OBVIOUS
  <2>1. head(i) \in X /\ data(i) \in X
    OBVIOUS
  <2> HIDE DEF head, data, X
  <2> QED
    BY <2>1
<1>5. ss \in Seq(Seq(X)) /\ Len(ss) = Len(ms)
  <2>1. DOMAIN ss = 1 .. Len(ms) /\ ss = [i \in 1 .. Len(ms) |-> ss[i]]
    BY <1>1
  <2> HIDE DEF ss, X
  <2> QED
    BY <1>1, <1>4, <2>1
<1> HIDE DEF ss, end, X
<1>6. FlattenSeq(ss) \in Seq(X)
  BY <1>5, FlattenedIsSeq
<1>7. FlattenSeq(ss) \in Seq(Y) /\ <<end>> \in Seq(Y)
  BY <1>6
<1> HIDE DEF Y
<1>8. Parts(ms) \in Seq(Y) /\ Parts(ms) # <<>>
  BY <1>2, <1>7
<1>9. \A k \in DOMAIN Parts(ms) : Parts(ms)[k] \in Y
  BY <1>8
<1> QED
  BY <1>3, <1>8, <1>9 DEF AreParts

\* Where the parts of an archive lie, all in one place.
LEMMA LiesIn ==
  ASSUME NEW ms, Sized(ms), NEW ps, ps = Parts(ms), NEW s, s = Starts(ps)
  PROVE  /\ Len(ps) \in Nat \ {0} /\ DOMAIN ps = 1 .. Len(ps)
         /\ \A k \in 1 .. Len(ps) : /\ s[k] \in Nat /\ s[k + 1] \in Nat /\ s[k + 1] = s[k] + ps[k].size
                                    /\ ps[k].size \in Nat \ {0} /\ s[k + 1] <= Total(ms)
         /\ s[1] = 0 /\ Total(ms) = s[Len(ps) + 1] /\ Total(ms) \in Nat \ {0}
<1>0. AreParts(ps)
  BY SizedHasParts
<1>1. /\ Len(ps) \in Nat \ {0} /\ DOMAIN ps = 1 .. Len(ps) /\ s \in [1 .. Len(ps) + 1 -> Nat] /\ s[1] = 0
      /\ \A k \in 1 .. Len(ps) : s[k + 1] = s[k] + ps[k].size /\ ps[k].size \in Nat \ {0}
  BY <1>0, PartsAreNumbered, StartsFollow
<1>2. Total(ms) = s[Len(ps) + 1]
  BY DEF Total
<1>3. ASSUME NEW k \in 1 .. Len(ps) PROVE s[k] \in Nat /\ s[k + 1] \in Nat /\ s[k + 1] <= Total(ms)
  <2>1. k \in 1 .. Len(ps) + 1 /\ k + 1 \in 1 .. Len(ps) + 1 /\ Len(ps) + 1 \in 1 .. Len(ps) + 1 /\ k < Len(ps) + 1
    BY <1>1
  <2>2. s[k] + ps[k].size <= s[Len(ps) + 1]
    BY <1>0, <2>1, StartsGrow
  <2> QED
    BY <1>1, <1>2, <2>1, <2>2
<1>4. Total(ms) \in Nat \ {0}
  <2>1. 1 \in 1 .. Len(ps)
    BY <1>1
  <2>2. s[1 + 1] = s[1] + ps[1].size /\ ps[1].size \in Nat \ {0} /\ s[1 + 1] <= Total(ms)
    BY <1>1, <1>3, <2>1
  <2>3. Total(ms) \in Nat
    <3>1. Len(ps) + 1 \in 1 .. Len(ps) + 1
      BY <1>1
    <3> QED
      BY <1>1, <1>2, <3>1
  <2> QED
    BY <1>1, <2>2, <2>3
<1> QED
  BY <1>1, <1>2, <1>3, <1>4

\* Part of a part, that is still to be sent.
IsPiece(r, part) ==
  \E low, high \in Nat : r = [part |-> part, low |-> low, high |-> high] /\ low < high /\ high <= part.size

\* The segments that go on behind the first n bytes of an archive, without a gap.
GoesOn(rest, ms, n) ==
  LET ps == Parts(ms)
      s  == Starts(ps)
  IN  /\ \E X : rest \in Seq(X)
      /\ \E h \in Nat :
           /\ \A i \in 1 .. Len(rest) : h + i \in 1 .. Len(ps) /\ IsPiece(rest[i], ps[h + i])
           /\ rest # <<>> => n = s[h + 1] + rest[1].low
           /\ \A i \in 1 .. Len(rest) - 1 : s[h + i] + rest[i].high = s[h + i + 1] + rest[i + 1].low

\* The part a byte lies in is found.
LEMMA BegunIsFound ==
  ASSUME NEW ms, Sized(ms), NEW n \in Nat, n < Total(ms)
  PROVE  LET k == BegunAt(Parts(ms), n)  s == Starts(Parts(ms))
         IN  k \in 1 .. Len(Parts(ms)) /\ s[k] <= n /\ n < s[k + 1]
<1> DEFINE ps == Parts(ms)
           s  == Starts(ps)
           N  == Len(ps)
           Holds(k) == s[k] <= n /\ (k = N \/ n < s[k + 1])
<1>0. /\ N \in Nat \ {0} /\ DOMAIN ps = 1 .. N /\ s[1] = 0 /\ Total(ms) = s[N + 1]
      /\ \A k \in 1 .. N : s[k] \in Nat /\ s[k + 1] \in Nat
  BY LiesIn
<1>1. BegunAt(ps, n) = CHOOSE k \in DOMAIN ps : Holds(k)
  BY DEF BegunAt
<1> HIDE DEF ps, s, N
<1> DEFINE S == {k \in 1 .. N : s[k] <= n}
<1>2. S \in SUBSET (0 .. N) /\ S # {}
  <2>1. 1 \in S
    BY <1>0
  <2> QED
    BY <1>0, <2>1
<1>3. PICK k \in S : \A i \in S : i <= k
  BY <1>0, <1>2, LargestOne
<1>4. k \in 1 .. N /\ Holds(k)
  <2>1. k \in 1 .. N /\ s[k] <= n
    BY <1>3
  <2>2. ASSUME k # N PROVE n < s[k + 1]
    <3>1. k + 1 \in 1 .. N /\ ~(k + 1 <= k)
      BY <1>0, <2>1, <2>2
    <3>2. ~(s[k + 1] <= n)
      BY <1>3, <3>1
    <3>3. s[k + 1] \in Nat
      BY <1>0, <3>1
    <3> QED
      BY <3>2, <3>3
  <2> QED
    BY <2>1, <2>2
<1> HIDE DEF Holds
<1>5. BegunAt(ps, n) \in 1 .. N /\ Holds(BegunAt(ps, n))
  BY <1>0, <1>1, <1>4
<1>6. \A j \in 1 .. N : Holds(j) => s[j] <= n /\ n < s[j + 1]
  BY <1>0 DEF Holds
<1> QED
  BY <1>5, <1>6 DEF ps, s, N

\* The segments of bytes first .. last begin with the first of them and leave no gap.
LEMMA SegmentsGoOn ==
  ASSUME NEW ms, Sized(ms), NEW first \in Nat, NEW last \in Nat, first <= last, last < Total(ms)
  PROVE  GoesOn(Segments(ms, first, last), ms, first)
<1> DEFINE ps      == Parts(ms)
           s       == Starts(ps)
           N       == Len(ps)
           from    == BegunAt(ps, first)
           to      == BegunAt(ps, last)
           low(k)  == Greater(first, s[k]) - s[k]
           high(k) == Earlier(last + 1, s[k] + ps[k].size) - s[k]
           seg(n)  == [part |-> ps[from + n - 1], low |-> low(from + n - 1), high |-> high(from + n - 1)]
           rest    == [n \in 1 .. to - from + 1 |-> seg(n)]
           X       == {seg(n) : n \in 1 .. to - from + 1}
<1>0. /\ N \in Nat \ {0} /\ DOMAIN ps = 1 .. N
      /\ \A k \in 1 .. N : s[k] \in Nat /\ s[k + 1] \in Nat /\ s[k + 1] = s[k] + ps[k].size /\ ps[k].size \in Nat \ {0}
  BY LiesIn
<1>1. from \in 1 .. N /\ s[from] <= first /\ first < s[from + 1]
  <2>1. first < Total(ms) /\ Total(ms) \in Nat
    BY LiesIn
  <2> QED
    BY <2>1, BegunIsFound
<1>2. to \in 1 .. N /\ s[to] <= last /\ last < s[to + 1]
  BY BegunIsFound
<1>3. Segments(ms, first, last) = rest
  BY DEF Segments
<1>g. \A j \in 1 .. N : \A k \in 1 .. N : j < k => s[j + 1] <= s[k]
  <2> SUFFICES ASSUME NEW j \in 1 .. N, NEW k \in 1 .. N, j < k PROVE s[j + 1] <= s[k]
    OBVIOUS
  <2>1. k \in 1 .. N + 1
    BY <1>0
  <2>2. s[j] + ps[j].size <= s[k]
    BY <2>1, SizedHasParts, StartsGrow
  <2> QED
    BY <1>0, <2>2
<1> HIDE DEF ps, s, N, from, to
\* What each segment holds, by its part.
<1>4. \A k \in from .. to : /\ k \in 1 .. N /\ low(k) \in Nat /\ high(k) \in Nat
                            /\ low(k) < high(k) /\ high(k) <= ps[k].size
                            /\ (k = from => s[k] + low(k) = first)
                            /\ (k # from => low(k) = 0)
                            /\ (k # to => high(k) = ps[k].size)
  <2> SUFFICES ASSUME NEW k \in from .. to
               PROVE  /\ k \in 1 .. N /\ low(k) \in Nat /\ high(k) \in Nat
                      /\ low(k) < high(k) /\ high(k) <= ps[k].size
                      /\ (k = from => s[k] + low(k) = first)
                      /\ (k # from => low(k) = 0)
                      /\ (k # to => high(k) = ps[k].size)
    OBVIOUS
  <2>0. k \in 1 .. N
    BY <1>0, <1>1, <1>2
  <2>1. s[k] \in Nat /\ s[k + 1] \in Nat /\ s[k + 1] = s[k] + ps[k].size /\ ps[k].size \in Nat \ {0}
    BY <1>0, <2>0
  <2>2. first < s[k + 1] /\ (k # from => first < s[k])
    <3>1. CASE k = from
      BY <1>1, <3>1
    <3>2. CASE k # from
      <4>1. from < k /\ s[from + 1] <= s[k]
        BY <1>1, <1>2, <1>g, <2>0, <3>2
      <4>2. s[from + 1] \in Nat
        BY <1>0, <1>1
      <4> QED
        BY <1>1, <2>1, <4>1, <4>2
    <3> QED
      BY <3>1, <3>2
  <2>3. s[k] <= last /\ (k # to => s[k + 1] <= last)
    <3>1. CASE k = to
      BY <1>2, <3>1
    <3>2. CASE k # to
      <4>1. k < to /\ s[k + 1] <= s[to]
        BY <1>1, <1>2, <1>g, <2>0, <3>2
      <4>2. s[to] \in Nat
        BY <1>0, <1>2
      <4> QED
        BY <1>2, <2>1, <4>1, <4>2
    <3> QED
      BY <3>1, <3>2
  <2>4. k = from => s[k] <= first
    BY <1>1
  <2> DEFINE a == s[k]
             b == ps[k].size
  <2>5. a \in Nat /\ b \in Nat \ {0} /\ first < a + b /\ (k # from => first < a) /\ (k = from => a <= first)
        /\ a <= last /\ (k # to => a + b <= last)
    BY <2>1, <2>2, <2>3, <2>4
  <2>6. low(k) = (IF first >= a THEN first ELSE a) - a
        /\ high(k) = (IF last + 1 <= a + b THEN last + 1 ELSE a + b) - a
    BY DEF Greater, Earlier
  <2> HIDE DEF a, b, low, high
  <2>7. /\ low(k) \in Nat /\ high(k) \in Nat /\ low(k) < high(k) /\ high(k) <= b
        /\ (k = from => a + low(k) = first) /\ (k # from => low(k) = 0) /\ (k # to => high(k) = b)
    BY <2>5, <2>6
  <2> QED
    BY <2>0, <2>7 DEF a, b
<1> HIDE DEF low, high
<1>5. from <= to /\ from \in Nat \ {0} /\ to \in Nat
  <2>1. CASE from <= to
    BY <1>0, <1>1, <1>2, <2>1
  <2>2. CASE ~(from <= to)
    <3>1. to < from /\ s[to + 1] <= s[from]
      BY <1>0, <1>1, <1>2, <1>g, <2>2
    <3>2. s[to + 1] \in Nat /\ s[from] \in Nat
      BY <1>0, <1>1, <1>2
    <3> QED
      BY <1>1, <1>2, <3>1, <3>2
  <2> QED
    BY <2>1, <2>2
<1>6. rest \in Seq(X) /\ Len(rest) = to - from + 1 /\ \A n \in 1 .. Len(rest) : rest[n] = seg(n)
  <2>1. DOMAIN rest = 1 .. to - from + 1 /\ \A n \in 1 .. to - from + 1 : rest[n] = seg(n) /\ seg(n) \in X
    OBVIOUS
  <2>2. rest = [n \in 1 .. to - from + 1 |-> rest[n]]
    OBVIOUS
  <2> HIDE DEF rest, seg, X
  <2> QED
    BY <1>5, <2>1, <2>2
<1> HIDE DEF rest, X
<1> DEFINE h == from - 1
<1>7. h \in Nat /\ h + 1 = from
  BY <1>5
<1>8. \A n \in 1 .. Len(rest) : h + n \in from .. to /\ from + n - 1 = h + n
  BY <1>5, <1>6
<1> HIDE DEF h
<1>9. \A n \in 1 .. Len(rest) : rest[n] = [part |-> ps[h + n], low |-> low(h + n), high |-> high(h + n)]
  <2> TAKE n \in 1 .. Len(rest)
  <2>1. rest[n] = seg(n) /\ from + n - 1 = h + n
    BY <1>6, <1>8
  <2> QED
    BY <2>1
<1> HIDE DEF seg
<1>10. \A n \in 1 .. Len(rest) : h + n \in 1 .. N /\ IsPiece(rest[n], ps[h + n])
  <2> TAKE n \in 1 .. Len(rest)
  <2>1. h + n \in from .. to
    BY <1>8
  <2>2. h + n \in 1 .. N /\ low(h + n) \in Nat /\ high(h + n) \in Nat /\ low(h + n) < high(h + n) /\ high(h + n) <= ps[h + n].size
    BY <1>4, <2>1
  <2> QED
    BY <1>9, <2>2 DEF IsPiece
<1>11. first = s[h + 1] + rest[1].low
  <2>1. 1 \in 1 .. Len(rest) /\ h + 1 = from /\ from \in from .. to
    BY <1>5, <1>6, <1>7
  <2>2. rest[1].low = low(h + 1)
    <3>1. rest[1] = [part |-> ps[h + 1], low |-> low(h + 1), high |-> high(h + 1)]
      BY <1>9, <2>1
    <3> QED
      BY <3>1
  <2> QED
    BY <1>4, <2>1, <2>2
<1>12. \A n \in 1 .. Len(rest) - 1 : s[h + n] + rest[n].high = s[h + n + 1] + rest[n + 1].low
  <2> TAKE n \in 1 .. Len(rest) - 1
  <2>0. n \in 1 .. Len(rest) /\ n + 1 \in 1 .. Len(rest) /\ h + (n + 1) = h + n + 1 /\ h + n # to /\ h + n + 1 # from
    BY <1>5, <1>6, <1>7
  <2>1. h + n \in from .. to /\ h + n + 1 \in from .. to
    BY <1>8, <2>0
  <2>2. rest[n].high = high(h + n)
    <3>1. rest[n] = [part |-> ps[h + n], low |-> low(h + n), high |-> high(h + n)]
      BY <1>9, <2>0
    <3> QED
      BY <3>1
  <2>3. rest[n + 1].low = low(h + (n + 1))
    <3>1. rest[n + 1] = [part |-> ps[h + (n + 1)], low |-> low(h + (n + 1)), high |-> high(h + (n + 1))]
      BY <1>9, <2>0
    <3> QED
      BY <3>1
  <2>4. high(h + n) = ps[h + n].size /\ low(h + n + 1) = 0 /\ h + n \in 1 .. N
    BY <1>4, <2>0, <2>1
  <2>5. s[h + n + 1] = s[h + n] + ps[h + n].size /\ s[h + n + 1] \in Nat
    BY <1>0, <2>4
  <2> QED
    BY <2>0, <2>2, <2>3, <2>4, <2>5
<1>13. rest # <<>> => first = s[h + 1] + rest[1].low
  BY <1>11
<1>14. GoesOn(rest, ms, first)
  BY <1>6, <1>7, <1>10, <1>12, <1>13 DEF GoesOn, ps, s, N
<1> QED
  BY <1>3, <1>14

\* Byte by byte what is left goes on, and each byte is the next one of the archive.
LEMMA NextByteGoesOn ==
  ASSUME NEW ms, Sized(ms), NEW n \in Nat, NEW rest, GoesOn(rest, ms, n), rest # <<>>
  PROVE  /\ [part |-> Head(rest).part, at |-> Head(rest).low] = Content(ms)[n + 1]
         /\ n + 1 <= Total(ms)
         /\ GoesOn(Onward(rest), ms, n + 1)
<1> DEFINE ps == Parts(ms)
           s  == Starts(ps)
           N  == Len(ps)
<1>0. /\ N \in Nat \ {0} /\ Total(ms) \in Nat
      /\ \A k \in 1 .. N : /\ s[k] \in Nat /\ s[k + 1] \in Nat /\ s[k + 1] = s[k] + ps[k].size
                           /\ ps[k].size \in Nat \ {0} /\ s[k + 1] <= Total(ms)
  BY LiesIn
<1>1. PICK X : rest \in Seq(X)
  BY DEF GoesOn
<1>2. PICK h \in Nat : /\ \A i \in 1 .. Len(rest) : h + i \in 1 .. N /\ IsPiece(rest[i], ps[h + i])
                       /\ n = s[h + 1] + rest[1].low
                       /\ \A i \in 1 .. Len(rest) - 1 : s[h + i] + rest[i].high = s[h + i + 1] + rest[i + 1].low
  BY DEF GoesOn
<1>c. \A k \in 1 .. N : \A i \in 1 .. ps[k].size : Content(ms)[s[k] + i] = [part |-> ps[k], at |-> i - 1]
  BY SizedHasParts, ContentLies
<1> HIDE DEF ps, s, N
<1>3. Len(rest) \in Nat \ {0} /\ Head(rest) = rest[1] /\ 1 \in 1 .. Len(rest)
  BY <1>1
<1>4. h + 1 \in 1 .. N /\ IsPiece(rest[1], ps[h + 1])
  BY <1>2, <1>3
<1>5. PICK low, high \in Nat : /\ rest[1] = [part |-> ps[h + 1], low |-> low, high |-> high]
                               /\ low < high /\ high <= ps[h + 1].size
  BY <1>4 DEF IsPiece
<1>6. n = s[h + 1] + low /\ rest[1].low = low /\ rest[1].high = high /\ rest[1].part = ps[h + 1]
  BY <1>2, <1>5
<1>7. s[h + 1] \in Nat /\ ps[h + 1].size \in Nat /\ s[h + 1] + ps[h + 1].size <= Total(ms)
  <2>1. s[(h + 1) + 1] = s[h + 1] + ps[h + 1].size /\ s[(h + 1) + 1] <= Total(ms) /\ s[h + 1] \in Nat /\ ps[h + 1].size \in Nat
    BY <1>0, <1>4
  <2> QED
    BY <2>1
<1>8. n + 1 <= Total(ms)
  BY <1>0, <1>5, <1>6, <1>7
<1>9. Content(ms)[n + 1] = [part |-> ps[h + 1], at |-> low]
  <2>1. low + 1 \in 1 .. ps[h + 1].size /\ s[h + 1] + (low + 1) = n + 1 /\ (low + 1) - 1 = low
    BY <1>5, <1>6, <1>7
  <2>2. Content(ms)[s[h + 1] + (low + 1)] = [part |-> ps[h + 1], at |-> (low + 1) - 1]
    BY <1>4, <1>c, <2>1
  <2> QED
    BY <2>1, <2>2
<1>10. CASE low + 1 < high
  <2> DEFINE r == [part |-> ps[h + 1], low |-> low + 1, high |-> high]
             z == <<r>> \o Tail(rest)
  <2>1. Onward(rest) = z
    <3>1. [rest[1] EXCEPT !.low = @ + 1] = r
      BY <1>5
    <3> QED
      BY <1>3, <1>6, <1>10, <3>1 DEF Onward
  <2>2. IsPiece(r, ps[h + 1])
    BY <1>5, <1>10 DEF IsPiece
  <2>3. r.low = low + 1 /\ r.high = high
    OBVIOUS
  <2> HIDE DEF r
  <2>4. /\ z \in Seq(X \cup {r}) /\ Len(z) = Len(rest) /\ z # <<>> /\ z[1] = r
        /\ \A i \in 1 .. Len(rest) : i # 1 => z[i] = rest[i]
    <3>1. Tail(rest) \in Seq(X \cup {r}) /\ Len(Tail(rest)) = Len(rest) - 1 /\ <<r>> \in Seq(X \cup {r}) /\ Len(<<r>>) = 1
          /\ <<r>>[1] = r /\ \A i \in 1 .. Len(rest) - 1 : Tail(rest)[i] = rest[i + 1]
      BY <1>1, <1>3
    <3> DEFINE tl == Tail(rest)
    <3> HIDE DEF tl
    <3>2. /\ Len(<<r>> \o tl) = 1 + Len(tl) /\ (<<r>> \o tl)[1] = r /\ <<r>> \o tl \in Seq(X \cup {r})
          /\ \A i \in 1 .. Len(tl) : (<<r>> \o tl)[1 + i] = tl[i]
      BY <3>1 DEF tl
    <3>3. ASSUME NEW i \in 1 .. Len(rest), i # 1 PROVE z[i] = rest[i]
      <4>1. i - 1 \in 1 .. Len(rest) - 1 /\ 1 + (i - 1) = i /\ (i - 1) + 1 = i
        BY <1>3, <3>3
      <4>2. (<<r>> \o tl)[1 + (i - 1)] = tl[i - 1]
        BY <3>1, <3>2, <4>1 DEF tl
      <4>3. tl[i - 1] = rest[(i - 1) + 1]
        BY <3>1, <4>1 DEF tl
      <4> QED
        BY <4>1, <4>2, <4>3 DEF tl
    <3>4. Len(z) = Len(rest) /\ z[1] = r /\ z \in Seq(X \cup {r})
      BY <1>3, <3>1, <3>2 DEF tl
    <3> QED
      BY <1>3, <3>3, <3>4
  <2> HIDE DEF z
  <2>5. ASSUME NEW i \in 1 .. Len(z) PROVE h + i \in 1 .. N /\ IsPiece(z[i], ps[h + i])
    BY <1>2, <1>4, <2>2, <2>4
  <2>6. ASSUME NEW i \in 1 .. Len(z) - 1 PROVE s[h + i] + z[i].high = s[h + i + 1] + z[i + 1].low
    <3>1. i \in 1 .. Len(rest) - 1 /\ i \in 1 .. Len(rest) /\ i + 1 \in 1 .. Len(rest) /\ i + 1 # 1
      BY <1>3, <2>4
    <3>2. z[i + 1] = rest[i + 1]
      BY <2>4, <3>1
    <3>3. z[i].high = rest[i].high
      BY <1>6, <2>3, <2>4, <3>1
    <3>4. s[h + i] + rest[i].high = s[h + i + 1] + rest[i + 1].low
      BY <1>2, <3>1
    <3> QED
      BY <3>2, <3>3, <3>4
  <2>7. n + 1 = s[h + 1] + z[1].low
    <3>1. z[1].low = low + 1
      BY <2>3, <2>4
    <3>2. s[h + 1] \in Nat /\ n = s[h + 1] + low /\ low \in Nat
      BY <1>6, <1>7
    <3>3. n + 1 = s[h + 1] + (low + 1)
      BY <3>2
    <3> QED
      BY <3>1, <3>3
  <2>8. GoesOn(z, ms, n + 1)
    BY <2>4, <2>5, <2>6, <2>7 DEF GoesOn, ps, s, N
  <2> QED
    BY <1>3, <1>6, <1>8, <1>9, <2>1, <2>8
<1>11. CASE ~(low + 1 < high)
  <2> DEFINE z == Tail(rest)
  <2>1. Onward(rest) = z /\ high = low + 1
    BY <1>3, <1>5, <1>6, <1>11 DEF Onward
  <2>2. z \in Seq(X) /\ Len(z) = Len(rest) - 1 /\ \A i \in 1 .. Len(rest) - 1 : z[i] = rest[i + 1]
    BY <1>1, <1>3
  <2> HIDE DEF z
  <2>3. h + 1 \in Nat /\ \A i \in Nat : (h + 1) + i = h + (i + 1) /\ h + i + 1 = h + (i + 1)
    OBVIOUS
  <2>4. ASSUME NEW i \in 1 .. Len(z) PROVE (h + 1) + i \in 1 .. N /\ IsPiece(z[i], ps[(h + 1) + i])
    <3>1. i + 1 \in 1 .. Len(rest) /\ i \in 1 .. Len(rest) - 1 /\ i \in Nat
      BY <1>3, <2>2
    <3>2. h + (i + 1) \in 1 .. N /\ IsPiece(rest[i + 1], ps[h + (i + 1)])
      BY <1>2, <3>1
    <3> QED
      BY <2>2, <2>3, <3>1, <3>2
  <2>5. ASSUME NEW i \in 1 .. Len(z) - 1 PROVE s[(h + 1) + i] + z[i].high = s[(h + 1) + i + 1] + z[i + 1].low
    <3>1. i + 1 \in 1 .. Len(rest) - 1 /\ i \in 1 .. Len(rest) - 1 /\ i \in Nat /\ i + 1 \in Nat
      BY <1>3, <2>2
    <3>2. s[h + (i + 1)] + rest[i + 1].high = s[h + (i + 1) + 1] + rest[(i + 1) + 1].low
      BY <1>2, <3>1
    <3>3. z[i] = rest[i + 1] /\ z[i + 1] = rest[(i + 1) + 1]
      BY <2>2, <3>1
    <3> QED
      BY <2>3, <3>1, <3>2, <3>3
  <2>6. ASSUME z # <<>> PROVE n + 1 = s[(h + 1) + 1] + z[1].low
    <3>1. 1 \in 1 .. Len(rest) - 1
      BY <1>3, <2>2, <2>6
    <3>2. s[h + 1] + rest[1].high = s[h + 1 + 1] + rest[1 + 1].low
      BY <1>2, <3>1
    <3>3. z[1] = rest[1 + 1]
      BY <2>2, <3>1
    <3>4. n + 1 = s[h + 1] + high
      <4>1. s[h + 1] \in Nat /\ n = s[h + 1] + low
        BY <1>6, <1>7
      <4> QED
        BY <2>1, <4>1
    <3>5. n + 1 = s[h + 1 + 1] + z[1].low
      BY <1>6, <3>2, <3>3, <3>4, Zenon
    <3> QED
      BY <3>5
  <2>7. GoesOn(z, ms, n + 1)
    BY <2>2, <2>3, <2>4, <2>5, <2>6 DEF GoesOn, ps, s, N
  <2> QED
    BY <1>3, <1>6, <1>8, <1>9, <2>1, <2>7
<1> QED
  BY <1>10, <1>11

\* What a job adds to an archive.
LEMMA JobMembersAre ==
  ASSUME NEW folder, NEW p
  PROVE  \E a, b : JobMembers(folder, p) = <<a, b>> /\ a.size \in Nat \ {0} /\ b.size \in Nat \ {0}
<1> DEFINE a == Stored(<<folder, "result.tif">>, p.object)
           b == OfBytes(<<folder, "recipe.json">>, {<<p.job, book>>})
<1>1. JobMembers(folder, p) = <<a, b>>
  BY DEF JobMembers
<1>2. a.size \in Nat \ {0} /\ b.size \in Nat \ {0}
  BY DeliveryAssumption DEF Stored, OfBytes
<1> HIDE DEF a, b
<1> QED
  BY <1>1, <1>2

LEMMA JobMembersAreSized ==
  ASSUME NEW folder, NEW p
  PROVE  Sized(JobMembers(folder, p))
<1>1. PICK a, b : JobMembers(folder, p) = <<a, b>> /\ a.size \in Nat \ {0} /\ b.size \in Nat \ {0}
  BY JobMembersAre
<1>2. <<a, b>> \in Seq({a, b})
  OBVIOUS
<1>3. DOMAIN <<a, b>> = {1, 2} /\ <<a, b>>[1] = a /\ <<a, b>>[2] = b
  OBVIOUS
<1>4. \A i \in DOMAIN <<a, b>> : <<a, b>>[i].size \in Nat \ {0}
  BY <1>1, <1>3
<1> QED
  BY <1>1, <1>2, <1>4 DEF Sized

LEMMA BundlesAreSized ==
  ASSUME NEW X, NEW seen \in Seq(X), NEW found
  PROVE  Sized(BundleMembers(seen, found))
<1> DEFINE first   == CHOOSE i \in KeptParts(seen) : \A k \in KeptParts(seen) : i <= k
           folder  == <<seen[first].job, Len(seen)>>
           inside  == Included(seen, found)
           out     == DOMAIN seen \ inside
           at(n)   == SetToSortSeq(inside, <)[n]
           pair(n) == JobMembers(<<folder, at(n)>>, seen[at(n)])
           parts   == [n \in 1 .. Cardinality(inside) |-> pair(n)]
           missing == Missing(folder, seen, out, found)
           rest    == IF out = {} THEN <<>> ELSE <<missing>>
           Y       == {pair(n)[1] : n \in 1 .. Cardinality(inside)} \cup {pair(n)[2] : n \in 1 .. Cardinality(inside)}
           Z       == Y \cup {missing}
<1>1. BundleMembers(seen, found) = FlattenSeq(parts) \o rest
  BY Zenon DEF BundleMembers
<1>2. Cardinality(inside) \in Nat
  <2>1. IsFiniteSet(1 .. Len(seen)) /\ DOMAIN seen = 1 .. Len(seen)
    BY FS_Interval
  <2>2. inside \subseteq DOMAIN seen
    BY DEF Included, KeptParts
  <2> QED
    BY <2>1, <2>2, FS_Subset, FS_CardinalityType
<1>3. \A n \in 1 .. Cardinality(inside) : \E a, b : pair(n) = <<a, b>> /\ a.size \in Nat \ {0} /\ b.size \in Nat \ {0}
  BY JobMembersAre
<1>4. missing.size = 1
  BY DEF Missing, OfBytes
<1> HIDE DEF pair, missing, inside
<1>5. \A x \in Z : x.size \in Nat \ {0}
  BY <1>3, <1>4
<1>6. \A n \in 1 .. Cardinality(inside) : parts[n] \in Seq(Y)
  <2> SUFFICES ASSUME NEW n \in 1 .. Cardinality(inside) PROVE pair(n) \in Seq(Y)
    OBVIOUS
  <2>1. PICK a, b : pair(n) = <<a, b>>
    BY <1>3
  <2>2. a \in Y /\ b \in Y
    BY <2>1
  <2> HIDE DEF Y
  <2> QED
    BY <2>1, <2>2
<1>7. parts \in Seq(Seq(Y))
  <2>1. DOMAIN parts = 1 .. Cardinality(inside) /\ parts = [n \in 1 .. Cardinality(inside) |-> parts[n]]
    OBVIOUS
  <2> HIDE DEF parts, Y
  <2> QED
    BY <1>2, <1>6, <2>1
<1> HIDE DEF parts, Y
<1>8. FlattenSeq(parts) \in Seq(Y)
  BY <1>7, FlattenedIsSeq
<1>9. FlattenSeq(parts) \in Seq(Z) /\ rest \in Seq(Z)
  <2> DEFINE all == FlattenSeq(parts)
  <2> HIDE DEF all, out
  <2>1. all \in Seq(Z) /\ <<>> \in Seq(Z) /\ <<missing>> \in Seq(Z)
    BY <1>8 DEF all
  <2> QED
    BY <2>1 DEF all
<1> HIDE DEF rest, Z
<1>10. BundleMembers(seen, found) \in Seq(Z)
  BY <1>1, <1>9
<1> QED
  BY <1>5, <1>10 DEF Sized

-----------------------------------------------------------------------------
(* What a client holds of an archive *)

\* The beginning of the archive it was told the validator of.
Begins(f) ==
  /\ f = [of |-> f.of, got |-> f.got, whole |-> f.whole]
  /\ Sized(f.of)
  /\ (\E X : f.got \in Seq(X)) /\ Len(f.got) <= Total(f.of)
  /\ \A i \in 1 .. Len(f.got) : f.got[i] = Content(f.of)[i]
  /\ f.whole => Len(f.got) = Total(f.of)

\* What a request holds fits it: the rows it read, the archive it laid out, and, once it is
\* answered, the archive the client has begun, from where the client stands.
Fitting(q, f) ==
  /\ q.pc \in {"status", "recipe", "read"} => \E X : q.seen \in Seq(X)
  /\ q.pc = "check" => Sized(q.members)
  /\ q.pc = "send" => q.of = f.of /\ GoesOn(q.rest, f.of, Len(f.got))

ArchiveInv ==
  /\ Frames /\ DOMAIN file = Clients
  /\ \A c \in Clients : Begins(file[c]) /\ Fitting(conn[c], file[c])

LEMMA BeginsOneArchive == ArchiveInv => OneArchive
<1> SUFFICES ASSUME ArchiveInv, NEW c \in Clients
             PROVE  /\ IsPrefix(file[c].got, Content(file[c].of))
                    /\ file[c].whole => file[c].got = Content(file[c].of)
  BY DEF OneArchive
<1> DEFINE f == file[c]
           g == f.got
           a == Content(f.of)
<1>1. Begins(f)
  BY DEF ArchiveInv
<1>2. (\E X : a \in Seq(X)) /\ Len(a) = Total(f.of) /\ Total(f.of) \in Nat
  BY <1>1, SizedHasParts, ContentLies DEF Begins
<1>3. /\ \E X : g \in Seq(X)
      /\ Len(g) <= Len(a) /\ (f.whole => Len(g) = Len(a))
      /\ \A i \in 1 .. Len(g) : g[i] = a[i]
  BY <1>1, <1>2 DEF Begins
<1> HIDE DEF f, g, a
<1>4. IsPrefix(g, a)
  <2>1. \A i \in 1 .. Len(g) : SubSeq(g, 1, Len(g))[i] = SubSeq(a, 1, Len(g))[i]
    BY <1>2, <1>3
  <2> QED
    BY <1>2, <1>3, <2>1 DEF IsPrefix
<1>5. ASSUME f.whole PROVE g = a
  BY <1>2, <1>3, <1>5
<1> QED
  BY <1>4, <1>5 DEF f, g, a

\* An answer that begins at byte n of the archive it is of.
LEMMA SendingServes ==
  ASSUME NEW ms, Sized(ms), NEW first \in Nat, NEW last \in Nat, first <= last, last < Total(ms),
         NEW f, f.of = ms, Len(f.got) = first
  PROVE  Fitting(Sending(ms, first, last), f)
<1>1. GoesOn(Segments(ms, first, last), ms, first)
  BY SegmentsGoOn
<1>2. /\ Sending(ms, first, last).pc = "send" /\ Sending(ms, first, last).of = ms
      /\ Sending(ms, first, last).rest = Segments(ms, first, last)
  BY DEF Sending, ETag
<1> QED
  BY <1>1, <1>2 DEF Fitting

LEMMA NothingBegins == Begins(NoFile)
<1>1. <<>> \in Seq({})
  OBVIOUS
<1>2. Sized(<<>>)
  BY <1>1 DEF Sized
<1>3. Total(<<>>) \in Nat
  BY <1>2, LiesIn
<1> QED
  BY <1>1, <1>2, <1>3 DEF Begins, NoFile

\* One client's request moves on, and what it holds of an archive with it.
LEMMA ArchiveMoves ==
  ASSUME ArchiveInv, NEW c \in Clients, Frames', \A d \in Clients \ {c} : conn'[d] = conn[d],
         DOMAIN file' = Clients, \A d \in Clients \ {c} : file'[d] = file[d],
         Begins(file'[c]), Fitting(conn'[c], file'[c])
  PROVE  ArchiveInv'
<1>1. \A d \in Clients : Begins(file'[d]) /\ Fitting(conn'[d], file'[d])
  BY DEF ArchiveInv
<1> QED
  BY <1>1 DEF ArchiveInv

LEMMA ServeArchive ==
  ASSUME ArchiveInv, NEW c \in Clients, Serve(c)
  PROVE  ArchiveInv'
<1> DEFINE q == conn[c]
           f == file[c]
<1>0. /\ Frames /\ DOMAIN conn = Clients /\ DOMAIN file = Clients /\ ConnOK(q) /\ Begins(f) /\ Fitting(q, f)
      /\ Frames' /\ \A d \in Clients \ {c} : conn'[d] = conn[d]
  BY ServeFrames DEF ArchiveInv, Frames
<1>k. ASSUME file' = file, Fitting(conn'[c], f) PROVE ArchiveInv'
  BY <1>0, <1>k, ArchiveMoves
<1>e. ASSUME End(c), file' = file PROVE ArchiveInv'
  <2>1. conn'[c].pc = "idle"
    BY <1>0, <1>e DEF End, Go, Idle
  <2>2. Fitting(conn'[c], f)
    BY <2>1 DEF Fitting
  <2> QED
    BY <1>e, <1>k, <2>2
<1>g. ASSUME NEW y, Go(c, y) PROVE conn'[c] = y
  BY <1>0, <1>g DEF Go
<1>1. CASE Ask(c)
  <2>1. conn'[c].pc = "status" /\ conn'[c].seen = <<>> /\ file' = file
    BY <1>0, <1>1 DEF Ask, Go
  <2>2. <<>> \in Seq({})
    OBVIOUS
  <2>3. Fitting(conn'[c], f)
    BY <2>1, <2>2 DEF Fitting
  <2> QED
    BY <1>k, <2>1, <2>3
<1>2. CASE ReadStatus(c)
  <2> DEFINE p == Seen(q.jobs[Len(q.seen) + 1])
             s == Append(q.seen, p)
             y == [q EXCEPT !.pc = "recipe", !.seen = s]
  <2>1. q.pc = "status" /\ (End(c) \/ Go(c, y)) /\ file' = file
    BY <1>2 DEF ReadStatus
  <2>2. Reading(q)
    BY <1>0, <2>1 DEF ConnOK, Off, Idle, Checking, Sent
  <2>3. y = [pc |-> "recipe", kind |-> q.kind, seen |-> s, since |-> q.since, jobs |-> q.jobs]
    BY <2>2, ReadingMoves
  <2>4. PICK X : q.seen \in Seq(X)
    BY <1>0, <2>1 DEF Fitting
  <2> HIDE DEF y, p
  <2>5. s \in Seq(X \cup {p})
    BY <2>4
  <2> HIDE DEF s
  <2>6. Fitting(y, f)
    BY <2>3, <2>5 DEF Fitting
  <2> QED
    BY <1>e, <1>g, <1>k, <2>1, <2>6
<1>3. CASE ReadRecipe(c)
  <2> DEFINE n == Len(q.seen)
             at == IF n < Len(q.jobs) THEN "status" ELSE "read"
             found == job[q.seen[n].job].st = "there"
             x == [q.seen[n] EXCEPT !.body = found]
             s == [q.seen EXCEPT ![n].body = found]
             y == [q EXCEPT !.pc = at, !.seen[n].body = found]
  <2>1. q.pc = "recipe" /\ Go(c, y) /\ file' = file
    BY <1>3 DEF ReadRecipe
  <2>2. Reading(q)
    BY <1>0, <2>1 DEF ConnOK, Off, Idle, Checking, Sent
  <2>3. y = [pc |-> at, kind |-> q.kind, seen |-> s, since |-> q.since, jobs |-> q.jobs]
    <3>1. y = [q EXCEPT !.pc = at, !.seen = s]
      <4>1. [q EXCEPT !.pc = at].seen = q.seen
        BY <2>2 DEF Reading
      <4> QED
        BY <4>1
    <3> HIDE DEF q, at, s, y
    <3> QED
      BY <2>2, <3>1, ReadingMoves, Zenon
  <2>4. PICK X : q.seen \in Seq(X)
    BY <1>0, <2>1 DEF Fitting
  <2>5. s = [q.seen EXCEPT ![n] = x]
    OBVIOUS
  <2> HIDE DEF y, x, s
  <2>6. s \in Seq(X \cup {x})
    <3>1. q.seen \in [1 .. Len(q.seen) -> X \cup {x}] /\ Len(q.seen) \in Nat
      BY <2>4
    <3>2. s \in [1 .. Len(q.seen) -> X \cup {x}]
      BY <2>5, <3>1, Zenon
    <3> HIDE DEF q
    <3> QED
      BY <3>1, <3>2
  <2>7. Fitting(y, f)
    BY <2>3, <2>6 DEF Fitting
  <2> QED
    BY <1>g, <1>k, <2>1, <2>7
<1>4. CASE Sign(c) \/ CreateBundle(c) \/ StoreSilent(c) \/ RefuseSending(c) \/ BreakOff(c)
  BY <1>4, <1>e DEF Sign, CreateBundle, StoreSilent, RefuseSending, BreakOff
<1>5. CASE LayOut(c)
  <2>1. ASSUME NEW t, NEW ms, NEW os, Sized(ms), Go(c, [pc |-> "check", since |-> t, members |-> ms, open |-> os])
        PROVE  Fitting(conn'[c], f)
    <3>1. conn'[c] = [pc |-> "check", since |-> t, members |-> ms, open |-> os]
      BY <1>g, <2>1
    <3> QED
      BY <2>1, <3>1 DEF Fitting
  <2>2. q.pc = "read" /\ file' = file
    BY <1>5 DEF LayOut
  <2>3. PICK X : q.seen \in Seq(X)
    BY <1>0, <2>2 DEF Fitting
  <2>4. /\ Sized(JobMembers(<<q.seen[1].job>>, q.seen[1]))
        /\ \A found : Sized(BundleMembers(q.seen, found))
    BY <2>3, JobMembersAreSized, BundlesAreSized
  <2>5. End(c) \/ Fitting(conn'[c], f)
    <3>1. PICK found \in SUBSET Undated :
            \/ End(c)
            \/ Go(c, [pc |-> "check", since |-> q.since, members |-> JobMembers(<<q.seen[1].job>>, q.seen[1]),
                      open |-> {q.seen[1].object}])
            \/ Go(c, [pc |-> "check", since |-> q.since, members |-> BundleMembers(q.seen, found),
                      open |-> {q.seen[i].object : i \in Included(q.seen, found)}])
      BY <1>5 DEF LayOut
    <3> QED
      BY <2>1, <2>4, <3>1
  <2> QED
    BY <1>e, <1>k, <2>2, <2>5
<1>6. CASE CheckStored(c)
  <2>1. q.pc = "check" /\ (End(c) \/ \E o \in q.open : Go(c, [q EXCEPT !.open = @ \ {o}])) /\ file' = file
    BY <1>6 DEF CheckStored
  <2>2. Checking(q)
    BY <1>0, <2>1 DEF ConnOK, Off, Idle, Reading, Sent
  <2>3. ASSUME NEW o, Go(c, [q EXCEPT !.open = @ \ {o}]) PROVE Fitting(conn'[c], f)
    <3>1. conn'[c] = [q EXCEPT !.open = @ \ {o}]
      BY <1>g, <2>3
    <3>2. conn'[c].pc = "check" /\ conn'[c].members = q.members
      BY <2>2, <3>1 DEF Checking
    <3> QED
      BY <1>0, <2>1, <3>2 DEF Fitting
  <2> QED
    BY <1>e, <1>k, <2>1, <2>3
<1>7. CASE CreatePermalink(c) \/ DeletePermalink(c)
  <2>1. conn' = conn /\ file' = file
    BY <1>7 DEF CreatePermalink, DeletePermalink
  <2> QED
    BY <1>0, <1>k, <2>1
<1>8. CASE StartSending(c)
  <2> DEFINE ms == q.members
  <2>1. q.pc = "check"
    BY <1>8 DEF StartSending
  <2>2. Sized(ms) /\ Total(ms) \in Nat \ {0}
    BY <1>0, <2>1, LiesIn DEF Fitting
  <2>3. CASE Resumes(c) /\ Honours(c, ms)
    <3>1. PICK r \in Ranges(c) :
            LET range == ByteRange(r[1], r[2], Total(ms))
            IN  r[1] < Total(ms) /\ Go(c, Sending(ms, range[1], range[2]))
      BY <1>8, <2>3 DEF StartSending
    <3>2. file' = file
      BY <1>8, <2>3 DEF StartSending
    <3>3. f.of = ms /\ Len(f.got) \in Nat
      BY <1>0, <2>3 DEF Honours, ETag, Begins
    <3> DEFINE n == Len(f.got)
    <3>4. r = <<n, ToTheEnd>> \/ r = <<n, n>>
      BY DEF Ranges
    <3> DEFINE last == ByteRange(r[1], r[2], Total(ms))[2]
    <3>5. n < Total(ms) /\ Go(c, Sending(ms, n, last))
      BY <3>1, <3>4 DEF ByteRange
    <3>6. last \in Nat /\ n <= last /\ last < Total(ms)
      BY <2>2, <3>3, <3>4, <3>5 DEF ByteRange, ToTheEnd, Earlier
    <3> HIDE DEF last
    <3>7. Fitting(Sending(ms, n, last), f)
      BY <2>2, <3>3, <3>6, SendingServes
    <3> QED
      BY <1>g, <1>k, <3>2, <3>5, <3>7
  <2>4. CASE ~(Resumes(c) /\ Honours(c, ms))
    <3> DEFINE g    == [of |-> ms, got |-> <<>>, whole |-> FALSE]
               last == Total(ms) - 1
    <3>1. Go(c, Sending(ms, 0, last)) /\ file' = [file EXCEPT ![c] = g]
      BY <1>8, <2>4 DEF StartSending, ETag
    <3>2. last \in Nat /\ 0 <= last /\ last < Total(ms)
      BY <2>2
    <3>3. g.of = ms /\ Len(g.got) = 0 /\ g.got = <<>> /\ g.whole = FALSE
      OBVIOUS
    <3>4. <<>> \in Seq({})
      OBVIOUS
    <3>5. g = [of |-> g.of, got |-> g.got, whole |-> g.whole]
      OBVIOUS
    <3> HIDE DEF last, ms, g
    <3>6. Fitting(Sending(ms, 0, last), g)
      BY <2>2, <3>2, <3>3, SendingServes
    <3>7. Begins(g)
      BY <2>2, <3>3, <3>4, <3>5 DEF Begins
    <3>8. DOMAIN file' = Clients /\ file'[c] = g /\ \A d \in Clients \ {c} : file'[d] = file[d]
      BY <1>0, <3>1
    <3>9. conn'[c] = Sending(ms, 0, last)
      BY <1>g, <3>1
    <3> QED
      BY <1>0, <3>6, <3>7, <3>8, <3>9, ArchiveMoves
  <2> QED
    BY <2>3, <2>4
<1>9. CASE SendByte(c)
  <2> DEFINE s == Head(q.rest)
             b == [part |-> s.part, at |-> s.low]
             n == Len(f.got)
             y == [q EXCEPT !.rest = Onward(q.rest), !.begun = TRUE]
             g == [of |-> f.of, got |-> Append(f.got, b), whole |-> f.whole]
  <2>1. q.pc = "send" /\ q.rest # <<>> /\ Go(c, y)
    BY <1>9 DEF SendByte
  <2>2. file' = [file EXCEPT ![c] = g]
    <3>1. file' = [file EXCEPT ![c].got = Append(@, b)]
      BY <1>9 DEF SendByte
    <3>2. [f EXCEPT !.got = Append(f.got, b)] = g
      <4>1. PICK o, p, w : f = [of |-> o, got |-> p, whole |-> w]
        BY <1>0 DEF Begins
      <4>2. ASSUME NEW u PROVE [f EXCEPT !.got = u] = [of |-> f.of, got |-> u, whole |-> f.whole]
        BY <4>1
      <4> HIDE DEF f, b
      <4> QED
        BY <4>2, Zenon
    <3> HIDE DEF g, b
    <3> QED
      BY <1>0, <3>1, <3>2
  <2>3. q.of = f.of /\ GoesOn(q.rest, f.of, n)
    BY <1>0, <2>1 DEF Fitting
  <2>4. Sent(q)
    BY <1>0, <2>1 DEF ConnOK, Off, Idle, Reading, Checking
  <2>5. y.pc = "send" /\ y.of = q.of /\ y.rest = Onward(q.rest)
    BY <2>4 DEF Sent
  <2>6. PICK X : f.got \in Seq(X)
    BY <1>0 DEF Begins
  <2>7. /\ b = Content(f.of)[n + 1] /\ n + 1 <= Total(f.of) /\ GoesOn(Onward(q.rest), f.of, n + 1)
        /\ n \in Nat /\ Total(f.of) \in Nat /\ Sized(f.of)
    <3>1. n \in Nat /\ Sized(f.of)
      BY <1>0, <2>6 DEF Begins
    <3>2. Total(f.of) \in Nat
      BY <3>1, LiesIn
    <3> QED
      BY <2>1, <2>3, <3>1, <3>2, NextByteGoesOn
  <2>8. g.of = f.of /\ g.got = Append(f.got, b) /\ g.whole = f.whole /\ g = [of |-> g.of, got |-> g.got, whole |-> g.whole]
    OBVIOUS
  <2> HIDE DEF b, y, g
  <2>9. /\ Append(f.got, b) \in Seq(X \cup {b}) /\ Len(Append(f.got, b)) = n + 1
        /\ \A i \in 1 .. n + 1 : Append(f.got, b)[i] = IF i = n + 1 THEN b ELSE f.got[i]
    BY <2>6
  <2>10. \A i \in 1 .. n : f.got[i] = Content(f.of)[i]
    BY <1>0 DEF Begins
  <2>11. Begins(g)
    <3>1. \A i \in 1 .. Len(g.got) : g.got[i] = Content(g.of)[i]
      BY <2>7, <2>8, <2>9, <2>10
    <3>2. ~f.whole
      BY <1>0, <2>7 DEF Begins
    <3> QED
      BY <2>7, <2>8, <2>9, <3>1, <3>2 DEF Begins
  <2>12. Fitting(y, g)
    BY <2>3, <2>5, <2>7, <2>8, <2>9 DEF Fitting
  <2>13. DOMAIN file' = Clients /\ file'[c] = g /\ \A d \in Clients \ {c} : file'[d] = file[d]
    BY <1>0, <2>2
  <2>14. conn'[c] = y
    BY <1>g, <2>1
  <2> QED
    BY <1>0, <2>11, <2>12, <2>13, <2>14, ArchiveMoves
<1>10. CASE SentAll(c)
  <2> DEFINE w == Len(f.got) = Total(f.of)
             g == [of |-> f.of, got |-> f.got, whole |-> w]
  <2>1. End(c)
    BY <1>10 DEF SentAll
  <2>2. file' = [file EXCEPT ![c] = g]
    <3>1. file' = [file EXCEPT ![c].whole = w]
      BY <1>10 DEF SentAll
    <3>2. [f EXCEPT !.whole = w] = g
      <4>1. PICK o, p, v : f = [of |-> o, got |-> p, whole |-> v]
        BY <1>0 DEF Begins
      <4>2. ASSUME NEW u PROVE [f EXCEPT !.whole = u] = [of |-> f.of, got |-> f.got, whole |-> u]
        BY <4>1
      <4> HIDE DEF w, f
      <4> QED
        BY <4>2, Zenon
    <3> HIDE DEF g, w
    <3> QED
      BY <1>0, <3>1, <3>2
  <2>3. g.of = f.of /\ g.got = f.got /\ (g.whole <=> w) /\ g = [of |-> g.of, got |-> g.got, whole |-> g.whole]
    OBVIOUS
  <2> HIDE DEF g
  <2>4. Begins(g)
    BY <1>0, <2>3 DEF Begins
  <2>5. conn'[c].pc = "idle"
    BY <1>0, <2>1 DEF End, Go, Idle
  <2>6. Fitting(conn'[c], g)
    BY <2>5 DEF Fitting
  <2>7. DOMAIN file' = Clients /\ file'[c] = g /\ \A d \in Clients \ {c} : file'[d] = file[d]
    BY <1>0, <2>2
  <2> QED
    BY <1>0, <2>4, <2>6, <2>7, ArchiveMoves
<1> QED
  BY <1>1, <1>2, <1>3, <1>4, <1>5, <1>6, <1>7, <1>8, <1>9, <1>10 DEF Serve

LEMMA StepArchive ==
  ASSUME ArchiveInv, [DeliveryNext]_allVars
  PROVE  ArchiveInv'
<1>1. Frames'
  BY StepFrames DEF ArchiveInv
<1>2. ASSUME UNCHANGED <<conn, file>> PROVE ArchiveInv'
  BY <1>1, <1>2 DEF ArchiveInv
<1>3. CASE CleanupBatch
  BY <1>2, <1>3 DEF CleanupBatch
<1>4. CASE \E c \in Clients : Serve(c)
  BY <1>4, ServeArchive
<1>5. CASE Restart
  <2>1. file' = file /\ \A c \in Clients : conn'[c] \in {Off, Idle}
    BY <1>5 DEF Restart
  <2>2. \A c \in Clients : Fitting(conn'[c], file[c])
    BY <2>1 DEF Fitting, Off, Idle
  <2> QED
    BY <1>1, <2>1, <2>2 DEF ArchiveInv
<1>6. CASE UNCHANGED deliveryVars
  BY <1>2, <1>6 DEF deliveryVars
<1> QED
  BY <1>3, <1>4, <1>5, <1>6 DEF DeliveryNext, allVars

\* Whatever range a client asks for, however often an answer breaks off, and whatever happens to
\* rows, files and texts meanwhile: who goes on with the validator it was given holds the
\* beginning of one archive, and what it takes for whole is whole, for archives of any length.
THEOREM ArchivesAreOne == DeliverySpec => []OneArchive
<1>1. DeliveryInit => ArchiveInv
  <2> SUFFICES ASSUME DeliveryInit PROVE ArchiveInv
    OBVIOUS
  <2>1. DOMAIN file = Clients /\ \A c \in Clients : file[c] = NoFile /\ conn[c] \in {Off, Idle}
    BY DEF DeliveryInit, Begin
  <2>2. \A c \in Clients : Fitting(conn[c], NoFile)
    BY <2>1 DEF Fitting, Off, Idle
  <2> QED
    BY <2>1, <2>2, InitFrames, NothingBegins DEF ArchiveInv
<1> QED
  BY <1>1, StepArchive, BeginsOneArchive, PTL DEF DeliverySpec
=============================================================================
