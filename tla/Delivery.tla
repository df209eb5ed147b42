------------------------------ MODULE Delivery ------------------------------
(***************************************************************************)
(* What a caller takes home of finished jobs (api/processing_route.py from *)
(* job_result on, api/result_zip.py, jobs/bundles.py, jobs/permalinks.py   *)
(* and the signing in objectstore/results.py), over the queue, the         *)
(* clean-up and the object store of JobCleanup.                            *)
(*                                                                         *)
(* A link is a signed URL of the store.  A ZIP is laid out before a byte   *)
(* of it is read: from the rows as they are now, the reported sizes and    *)
(* the registry's texts; the rasters come from the store while it is sent. *)
(* A bundle keeps a list of jobs only, its ZIP is laid out whenever it is  *)
(* read.  Between two awaits of a request the rows, the store and other    *)
(* requests move.                                                          *)
(*                                                                         *)
(* A byte of an archive is named by the part it lies in and its place in   *)
(* it; headers, documents and the directory count one byte each, a raster  *)
(* RasterBytes.                                                            *)
(***************************************************************************)
EXTENDS JobCleanup, SequencesExt

CONSTANTS
  Clients,        \* browsers and download managers
  Wants,          \* what a client may ask for, see Want
  Managers,       \* clients that fetch an archive in pieces, as download managers do
  Lists,          \* identifiers of bundles and permalinks that can be drawn
  Unmeasured,     \* runs that ended before the supervisor measured its files
  Undated,        \* jobs placed before the years of their scenes were kept
  MinRemaining,   \* MIN_REMAINING, 60 s
  SignedLife,     \* SIGNED_URL_TTL, 15 minutes
  PermalinkLife,  \* permalinks.TTL, 30 days
  MaxDownloads,   \* MAX_BUNDLE_DOWNLOADS
  RasterBytes,
  MaxBundleBytes, \* MAX_BUNDLE_BYTES
  MaxBook,        \* bound on the releases of the registry in Spec
  MaxAsked        \* bound on the requests of a client in Spec

Want == [kind : {"link", "zip"}, jobs : {<<j>> : j \in Jobs}]
        \cup [kind : {"new bundle"}, jobs : Seq(Jobs)]
        \cup [kind : {"bundle"}, list : Lists] \cup [kind : {"permalink"}]

ASSUME DeliveryAssumption ==
  /\ IsFiniteSet(Clients)
  /\ \A c \in Clients : Wants[c] \subseteq Want
  /\ MinRemaining \in Nat \ {0} /\ SignedLife \in Nat \ {0} /\ PermalinkLife \in Nat \ {0}
  /\ SignedLife < DeleteTerm  \* 15 minutes and a day
  /\ MaxDownloads \in Nat /\ RasterBytes \in Nat \ {0} /\ MaxBundleBytes \in Nat /\ MaxBook \in Nat

VARIABLES
  list,    \* rows of earthx_bundle and earthx_permalink
  book,    \* the release of the registry, whose texts go into the documents
  conn,    \* the request a client has open
  asked,   \* how many it has sent
  busy,    \* DownloadSlots.busy
  url,     \* the last signed URL a client was given
  file     \* what a client has of an archive: the validator it came with, its bytes

deliveryVars == <<list, book, conn, asked, busy, url, file>>
allVars      == <<cleanupVars, deliveryVars>>

None     == "none"
NoObject == <<NoRun, NoResult>>
NoText   == {}
ToTheEnd == -1    \* a range without a last byte
Off  == [pc |-> "off"]     \* a client that never asks
Idle == [pc |-> "idle"]

NoList      == [st |-> "none"]
NoFile      == [of |-> <<>>, got |-> <<>>, whole |-> FALSE]

-----------------------------------------------------------------------------
(* A job as the api reads it *)

Export(r) == run[r].key \in Jobs

\* _why_not, and the refusals of job_result in the same order.
WhyNot(j) ==
  LET r == job[j].run
  IN  IF job[j].st # "there" \/ job[j].dismissed \/ job[j].until # NoTerm THEN "unavailable"
      ELSE IF run[r].expires - now < MinRemaining THEN "expired"
      ELSE IF run[r].st = "failed"                THEN "failed"
      ELSE IF run[r].st # "successful"            THEN "unfinished"
      ELSE IF Export(r) \/ r \in Unmeasured       THEN "unsupported"
      ELSE None

\* A part of a list: the job, why it has no result, its result and the result's end, and
\* whether its recipe was found.
Seen(j) ==
  [job |-> j, why |-> WhyNot(j), body |-> FALSE,
   object  |-> IF job[j].st = "there" THEN ResultOf(job[j].run) ELSE NoObject,
   expires |-> IF job[j].st = "there" THEN run[job[j].run].expires ELSE 0]

-----------------------------------------------------------------------------
(* result_zip.py: the archive *)

\* A member: its name in the archive, its size, and its bytes: of a stored object, or
\* built here.  What decides its name and its bytes decides its CRC too.
Stored(name, o)   == [name |-> name, size |-> RasterBytes, object |-> o, text |-> NoText]
OfBytes(name, t)  == [name |-> name, size |-> 1, object |-> NoObject, text |-> t]

\* _job_members
JobMembers(folder, p) ==
  << Stored(<<folder, "result.tif">>, p.object),
     OfBytes(<<folder, "recipe.json">>, {<<p.job, book>>}) >>

\* The parts of the archive: header and bytes of every member, then the directory.
Parts(ms) ==
  FlattenSeq([i \in DOMAIN ms |->
    << [size |-> 1, object |-> NoObject, says |-> <<"header", ms[i]>>],
       [size |-> ms[i].size, object |-> ms[i].object, says |-> <<"data", ms[i]>>] >>])
  \o << [size |-> 1, object |-> NoObject, says |-> <<"directory", ms>>] >>

\* Where each part begins; what would follow the last one begins at the total.
Starts(ps) ==
  LET starts[k \in 1 .. Len(ps) + 1] == IF k = 1 THEN 0 ELSE starts[k - 1] + ps[k - 1].size
  IN  starts
Total(ms) == Starts(Parts(ms))[Len(Parts(ms)) + 1]

\* _etag: the validator is the members themselves.
ETag(ms) == ms

Greater(s, t) == IF s >= t THEN s ELSE t

\* The last part that begins at or before byte n (bisect).
BegunAt(ps, n) ==
  LET starts == Starts(ps)
  IN  CHOOSE k \in DOMAIN ps : starts[k] <= n /\ (k = Len(ps) \/ n < starts[k + 1])

\* Layout.segments: bytes first .. last, from the part the first of them lies in to the part the
\* last one lies in, cut at both ends.
Segments(ms, first, last) ==
  LET ps     == Parts(ms)
      starts == Starts(ps)
      from   == BegunAt(ps, first)
      to     == BegunAt(ps, last)
  IN  [n \in 1 .. to - from + 1 |->
         LET k == from + n - 1
         IN  [part |-> ps[k], low |-> Greater(first, starts[k]) - starts[k],
              high |-> Earlier(last + 1, starts[k] + ps[k].size) - starts[k]]]

\* byte_range for "first-last" and "first-": the range to send, cut to the end; one behind the
\* end is refused (416).
ByteRange(first, last, total) ==
  <<first, IF last = ToTheEnd THEN total - 1 ELSE Earlier(last, total - 1)>>

-----------------------------------------------------------------------------
(* A request *)

Go(c, state) == conn' = [conn EXCEPT ![c] = state]
End(c)       == Go(c, Idle)

\* What follows the check of a path and body; a bundle's row is read first.
Ask(c) ==
  /\ conn[c] = Idle /\ asked[c] < MaxAsked
  /\ asked' = [asked EXCEPT ![c] = @ + 1]
  /\ \E w \in Wants[c] \ {[kind |-> "permalink"]} :
       /\ w.kind = "bundle" => list[w.list].st = "bundle" /\ list[w.list].expires > now
       /\ Go(c, [pc |-> "status", kind |-> w.kind, seen |-> <<>>, since |-> now,
                 jobs |-> IF w.kind = "bundle" THEN list[w.list].jobs ELSE w.jobs])
  /\ UNCHANGED <<list, book, busy, url, file>>

Single(q) == q.kind \in {"link", "zip"}

\* Only an export has a link and no ZIP of its own.
Refused(q, why) ==
  /\ Single(q) /\ why # None
  /\ ~(q.kind = "link" /\ why = "unsupported")

\* job_status of the next job; job_result and its checks answer at once.
ReadStatus(c) ==
  LET q == conn[c]  p == Seen(q.jobs[Len(q.seen) + 1])
  IN  /\ q.pc = "status"
      /\ IF Refused(q, p.why) THEN End(c)
         ELSE Go(c, [q EXCEPT !.pc = "recipe", !.seen = Append(@, p)])
      /\ UNCHANGED <<asked, list, book, busy, url, file>>

\* job_recipe of the same job, another statement.
ReadRecipe(c) ==
  LET q == conn[c]  n == Len(q.seen)
  IN  /\ q.pc = "recipe"
      /\ Go(c, [q EXCEPT !.pc = IF n < Len(q.jobs) THEN "status" ELSE "read",
                         !.seen[n].body = job[q.seen[n].job].st = "there"])
      /\ UNCHANGED <<asked, list, book, busy, url, file>>

\* A mutant: the URL lives as long as the result would.
TillOfResult(p) == p.expires
Till(p) == Earlier(now + SignedLife, p.expires)

\* signed_download: checked again, for the row was read a while ago.
Sign(c) ==
  LET q == conn[c]  p == q.seen[1]
  IN  /\ q.pc = "read" /\ q.kind = "link"
      /\ url' = IF p.expires - now < MinRemaining THEN url
                ELSE [url EXCEPT ![c] = {[object |-> p.object, till |-> Till(p)]}]
      /\ End(c)
      /\ UNCHANGED <<asked, list, book, busy, file>>

-----------------------------------------------------------------------------
(* Bundles and permalinks *)

KeptParts(seen) == {i \in DOMAIN seen : seen[i].why = None}

\* create_bundle: no list with an export, none that is empty or too large; it lives as long as
\* the first of its results that ends.
CreateBundle(c) ==
  LET q    == conn[c]
      kept == KeptParts(q.seen)
      fits == Cardinality(kept) * RasterBytes <= MaxBundleBytes
      ends == {q.seen[i].expires : i \in kept}
  IN  /\ q.pc = "read" /\ q.kind = "new bundle"
      /\ \/ /\ kept # {} /\ fits /\ \A i \in DOMAIN q.seen : q.seen[i].why # "unsupported"
            /\ \E b \in Lists :
                 /\ list[b] = NoList
                 /\ list' = [list EXCEPT ![b] =
                      [st |-> "bundle", jobs |-> q.jobs, expires |-> CHOOSE e \in ends : \A f \in ends : e <= f]]
         \/ /\ kept = {} \/ ~fits \/ \E i \in DOMAIN q.seen : q.seen[i].why = "unsupported"
            /\ UNCHANGED list
      /\ End(c)
      /\ UNCHANGED <<asked, book, busy, url, file>>

\* create: an order and a view, for its own term.
CreatePermalink(c) ==
  \E p \in Lists :
    /\ conn[c] = Idle /\ [kind |-> "permalink"] \in Wants[c]
    /\ list[p] = NoList
    /\ list' = [list EXCEPT ![p] = [st |-> "permalink", jobs |-> <<>>, expires |-> now + PermalinkLife]]
    /\ UNCHANGED <<asked, book, conn, busy, url, file>>

\* delete, by whoever has the key.
DeletePermalink(c) ==
  \E p \in Lists :
    /\ conn[c] = Idle
    /\ list[p].st = "permalink" /\ list[p].expires > now
    /\ list' = [list EXCEPT ![p] = [st |-> "gone"]]
    /\ UNCHANGED <<asked, book, conn, busy, url, file>>

-----------------------------------------------------------------------------
(* Laying out a ZIP *)

\* _with_derived_years asks the source for the dates a job did not keep; it may not answer.
Dated(seen, found) == {i \in DOMAIN seen : seen[i].job \notin Undated \/ seen[i].job \in found}

Missing(folder, seen, out, found) ==
  OfBytes(<<folder, "MISSING.txt">>,
    {<<i, IF seen[i].why # None THEN seen[i].why
          ELSE IF ~seen[i].body THEN "unavailable" ELSE "undated">> : i \in out})

\* The parts that go in: with a result, a recipe and, if the attribution asks for them, years.
Included(seen, found) == {i \in KeptParts(seen) : seen[i].body} \cap Dated(seen, found)

\* The members of a bundle's ZIP (_lay_out_parts, read_bundle); the folder is named for the first
\* part that has a result and for the number of parts.
BundleMembers(seen, found) ==
  LET first  == CHOOSE i \in KeptParts(seen) : \A k \in KeptParts(seen) : i <= k
      folder == <<seen[first].job, Len(seen)>>
      inside == Included(seen, found)
      out    == DOMAIN seen \ inside
      parts  == [n \in 1 .. Cardinality(inside) |->
                   JobMembers(<<folder, SetToSortSeq(inside, <)[n]>>, seen[SetToSortSeq(inside, <)[n]])]
  IN  FlattenSeq(parts) \o (IF out = {} THEN <<>> ELSE <<Missing(folder, seen, out, found)>>)

\* 410: no part has a result; or the first that has one lost its recipe meanwhile.
Unnamed(seen) ==
  KeptParts(seen) = {}
  \/ ~seen[CHOOSE i \in KeptParts(seen) : \A k \in KeptParts(seen) : i <= k].body

LayOut(c) ==
  LET q == conn[c]
  IN  /\ q.pc = "read" /\ q.kind \in {"zip", "bundle"}
      /\ \E found \in SUBSET Undated :
           IF q.kind = "zip"
           THEN IF Included(q.seen, found) = {} THEN End(c)
                ELSE Go(c, [pc |-> "check", since |-> q.since, members |-> JobMembers(<<q.seen[1].job>>, q.seen[1]),
                            open |-> {q.seen[1].object}])
           ELSE IF Unnamed(q.seen) \/ Included(q.seen, found) = {} THEN End(c)
                ELSE Go(c, [pc |-> "check", since |-> q.since, members |-> BundleMembers(q.seen, found),
                            open |-> {q.seen[i].object : i \in Included(q.seen, found)}])
      /\ UNCHANGED <<asked, list, book, busy, url, file>>

\* _check_stored: one file is there with its reported size ...
CheckStored(c) ==
  /\ conn[c].pc = "check"
  /\ \E o \in conn[c].open :
       IF o \in objects THEN Go(c, [conn[c] EXCEPT !.open = @ \ {o}]) ELSE End(c)
  /\ UNCHANGED <<asked, list, book, busy, url, file>>

\* ... or the store does not answer.
StoreSilent(c) ==
  /\ conn[c].pc = "check" /\ conn[c].open # {}
  /\ End(c)
  /\ UNCHANGED <<asked, list, book, busy, url, file>>

-----------------------------------------------------------------------------
(* Sending it *)

\* A mutant: a range is honoured whatever the validator.
HonoursAny(c, ms) == TRUE

\* If-Range: a range counts only for the archive the client began with.
Honours(c, ms) == file[c].of = ETag(ms)

\* A client that has a piece of an archive asks for the rest, or for the next byte only.
Resumes(c) == file[c].got # <<>> /\ ~file[c].whole
Ranges(c)  ==
  LET n == Len(file[c].got)  IN {<<n, ToTheEnd>>} \cup (IF c \in Managers THEN {<<n, n>>} ELSE {})

Sending(ms, first, last) == [pc |-> "send", of |-> ETag(ms), rest |-> Segments(ms, first, last), begun |-> FALSE]

\* _zip_response: the whole (200), or the one range (206), if a place is free; no await lies
\* between the check of the place and the answer.
StartSending(c) ==
  LET ms == conn[c].members
  IN  /\ conn[c].pc = "check" /\ conn[c].open = {}
      /\ busy < MaxDownloads
      /\ busy' = busy + 1
      /\ IF Resumes(c) /\ Honours(c, ms)
         THEN /\ \E r \in Ranges(c) :
                   LET range == ByteRange(r[1], r[2], Total(ms))
                   IN  r[1] < Total(ms) /\ Go(c, Sending(ms, range[1], range[2]))
              /\ UNCHANGED file
         ELSE /\ Go(c, Sending(ms, 0, Total(ms) - 1))
              /\ file' = [file EXCEPT ![c] = [of |-> ETag(ms), got |-> <<>>, whole |-> FALSE]]
      /\ UNCHANGED <<asked, list, book, url>>

\* 416: the range begins behind the end of the archive the client began with.
BehindTheEnd(c) ==
  Resumes(c) /\ Honours(c, conn[c].members) /\ \A r \in Ranges(c) : r[1] >= Total(conn[c].members)

\* ... or 503: as many as it can.
RefuseSending(c) ==
  /\ conn[c].pc = "check" /\ conn[c].open = {}
  /\ BehindTheEnd(c) \/ busy >= MaxDownloads
  /\ End(c)
  /\ UNCHANGED <<asked, list, book, busy, url, file>>


\* The segments without the first of their bytes.
Onward(rest) ==
  LET s == Head(rest)
  IN  IF s.low + 1 < s.high THEN <<[s EXCEPT !.low = @ + 1]>> \o Tail(rest) ELSE Tail(rest)

\* The next byte: from memory, or from an object that is still there.
SendByte(c) ==
  LET q == conn[c]  s == Head(q.rest)
  IN  /\ q.pc = "send" /\ q.rest # <<>>
      /\ s.part.object \in objects \cup {NoObject}
      /\ file' = [file EXCEPT ![c].got = Append(@, [part |-> s.part, at |-> s.low])]
      /\ Go(c, [q EXCEPT !.rest = Onward(@), !.begun = TRUE])
      /\ UNCHANGED <<asked, list, book, busy, url>>

Free == busy' = Greater(busy - 1, 0)

\* A mutant: the place is given back by the generator, which a client that leaves at once never starts.
FreeIfStarted(c) == busy' = IF ~conn[c].begun THEN busy ELSE Greater(busy - 1, 0)

\* However the answer ends, its place is free again (_SlotResponse).
FreePlace(c) == Free

\* The promised length was sent.
SentAll(c) ==
  /\ conn[c].pc = "send" /\ conn[c].rest = <<>>
  /\ file' = [file EXCEPT ![c].whole = Len(file[c].got) = Total(file[c].of)]
  /\ FreePlace(c) /\ End(c)
  /\ UNCHANGED <<asked, list, book, url>>

\* The client leaves, or the store fails or ends a file early: the answer breaks off, and the
\* client sees that it is short.
BreakOff(c) ==
  /\ conn[c].pc = "send"
  /\ FreePlace(c) /\ End(c)
  /\ UNCHANGED <<asked, list, book, url, file>>

\* The api is started again, maybe with other texts: every answer breaks off.
Restart ==
  /\ book < MaxBook /\ \E c \in Clients : conn[c] # Off
  /\ book' = book + 1 /\ busy' = 0
  /\ conn' = [c \in Clients |-> IF conn[c] = Off THEN Off ELSE Idle]
  /\ UNCHANGED <<asked, list, url, file>>

-----------------------------------------------------------------------------

Serve(c) ==
  \/ Ask(c) \/ ReadStatus(c) \/ ReadRecipe(c) \/ Sign(c) \/ CreateBundle(c)
  \/ LayOut(c) \/ CheckStored(c) \/ StoreSilent(c)
  \/ CreatePermalink(c) \/ DeletePermalink(c)
  \/ StartSending(c) \/ RefuseSending(c) \/ SendByte(c) \/ SentAll(c) \/ BreakOff(c)

\* The lists a batch of the clean-up takes along, some of each table.
OverLists(st) == {b \in Lists : list[b].st = st /\ list[b].expires < now}

\* A mutant: the batch forgets the bundles.
SweepPermalinks ==
  \E ps \in UpTo(OverLists("permalink")) :
    list' = [b \in Lists |-> IF b \in ps THEN [st |-> "gone"] ELSE list[b]]

SweepLists ==
  \E bs \in UpTo(OverLists("bundle")), ps \in UpTo(OverLists("permalink")) :
    list' = [b \in Lists |-> IF b \in bs \cup ps THEN [st |-> "gone"] ELSE list[b]]

CleanupBatch == Cleanup /\ SweepLists /\ UNCHANGED <<asked, book, conn, busy, url, file>>

\* A request is answered, or its answer begun, within a tick.
Waits(c) == conn[c].pc \notin {"off", "idle", "send"}
Timely   == {c \in Clients : Waits(c) /\ conn[c].since # now} = {}

DeliveryNext ==
  \/ /\ \/ \E r \in Runs : \/ QueueStep(r) /\ UNCHANGED objects
                           \/ \E a \in Attempts(r) : Deliver(r, a)
        \/ \E j \in Jobs : ApiCall(j) /\ UNCHANGED objects
        \/ Tick /\ Timely /\ UNCHANGED objects
        \/ CleanupFails
     /\ UNCHANGED deliveryVars
  \/ CleanupBatch
  \/ (\E c \in Clients : Serve(c)) /\ UNCHANGED cleanupVars
  \/ Restart /\ UNCHANGED cleanupVars

\* Nothing was given or sent yet; the clients have so many requests behind them, the registry so
\* many releases.
Begin(lists, behind, releases) ==
  /\ list = lists /\ book = releases /\ busy = 0 /\ asked = [c \in Clients |-> behind]
  /\ url = [c \in Clients |-> {}] /\ file = [c \in Clients |-> NoFile]

DeliveryInit ==
  /\ CleanupInit /\ Begin([b \in Lists |-> NoList], 0, 0)
  /\ conn \in [Clients -> {Off, Idle}]

DeliverySpec == DeliveryInit /\ [][DeliveryNext]_allVars

-----------------------------------------------------------------------------
(* Properties *)

\* What a place is for: no download is forgotten and none counted twice, however it ended, so
\* four broken downloads do not close the route for good (DownloadSlots, _SlotResponse).
PlacesAreGivenBack == busy = Cardinality({c \in Clients : conn[c].pc = "send"}) /\ busy <= MaxDownloads

DeliveryTypeOK ==
  /\ \A b \in Lists : list[b].st \in {"none", "bundle", "permalink", "gone"}
  /\ book \in 0 .. MaxBook
  /\ \A c \in Clients : conn[c].pc \in {"off", "idle", "status", "recipe", "read", "check", "send"}

PlacesKept == DeliveryTypeOK /\ PlacesAreGivenBack

\* The archive as it is meant: every member's header and bytes, then the directory.
Content(ms) ==
  LET ps == Parts(ms)
  IN  FlattenSeq([k \in DOMAIN ps |-> [i \in 1 .. ps[k].size |-> [part |-> ps[k], at |-> i - 1]]])

\* However often a download breaks off and is resumed, and whatever was deleted, restored,
\* cleaned up or released meanwhile, a client that resumes with the validator it was given holds
\* the beginning of one archive, and what it takes for whole is whole (Layout, _requested_range,
\* _archive_bytes).
OneArchive ==
  \A c \in Clients :
    LET f == file[c]
    IN  f.of # <<>> =>
          /\ IsPrefix(f.got, Content(f.of))
          /\ f.whole => f.got = Content(f.of)

\* A link that was handed out works for as long as it says, also when the job is deleted at once
\* or its end is near: no clean-up takes the object before (signed_download, DELETE_TERM).
LinksLast ==
  \A c \in Clients : \A u \in url[c] : u.till >= now => u.object \in objects

\* Rows and recipes, and lists of jobs and kept orders with an area, are personal data: again and
\* again nothing is left past its term, whatever fails on the way (cleanup_batch).
PersonalDataGoes == []<>(Settled /\ OverLists("bundle") \cup OverLists("permalink") = {})
=============================================================================
