---------------------------- MODULE ObjectStore -----------------------------
(***************************************************************************)
(* The object store is prepared at every `docker compose up` by two one-   *)
(* shot steps of compose/objectstore/bootstrap.py: `secrets` writes the    *)
(* files that are missing, `init` tells the store of keys, rights and the  *)
(* bucket's rule.  Then the services start, each with a key of its own.    *)
(* A step may be killed anywhere, and an answer of the store may be lost.  *)
(* An operator changes .env, deletes volumes that nobody uses, removes     *)
(* half a pair of files and has given keys more rights than they need.     *)
(***************************************************************************)
EXTENDS Naturals, Sequences, FiniteSets

CONSTANTS Services,   \* processes with a key of their own, in the order of SERVICE_KEYS
          Needs,      \* the rights each of them needs
          Writer,     \* the one that checks the bucket's rule before it starts
          Buckets,    \* names of buckets
          EnvKeys,    \* the key and secret in .env: <<>> for none, <<k>> for one of them only, or <<k, s>>
          MaxUps,     \* bound on the times it is brought up
          MaxMeddles  \* bound on what an operator does in between

Served == {Services[i] : i \in DOMAIN Services}
PlatformKey == "platform"

ASSUME StoreSetupAssumption ==
  /\ Services \in Seq(STRING) /\ PlatformKey \notin Served
  /\ \A i \in DOMAIN Services : Needs[Services[i]] \subseteq {"read", "write"}
  /\ Buckets \subseteq Nat \ {0} /\ 1 \in Buckets   \* the bucket of an older installation
  /\ \A p \in EnvKeys : p \in Seq(1..9) /\ Len(p) <= 2
  /\ MaxUps \in Nat /\ MaxMeddles \in Nat

VARIABLES file,      \* the volumes: what each file holds, <<>> where there is none
          store,     \* Garage: keys with their secrets, rights, the bucket's rule
          up,        \* the step that is running
          service,   \* the key, secret and bucket a process was started with, <<>> if it is down
          ups        \* ups, draws and meddling so far
setupVars == <<file, store, up, service, ups>>

Owners == Served \cup {PlatformKey}
Access(o) == <<o, "access_key">>
Secret(o) == <<o, "secret_key">>
Token == <<"garage", "admin_token">>
Rpc == <<"garage", "rpc_secret">>
BucketFile == <<"garage", "s3_bucket">>
PairOf(o) == {Access(o), Secret(o)}
VolumeFiles == {Token, Rpc, BucketFile} \cup UNION {PairOf(o) : o \in Owners}

Missing == <<>>
Empty == <<0>>     \* created, not yet written
Written(f) == file[f] \notin {Missing, Empty}

Rights == {"read", "write", "owner"}
Allowed(o) == IF o = PlatformKey THEN Rights ELSE Needs[o]

Off(why) == [at |-> "off", why |-> why]
Running == up.at # "off"

NoStore == [keys |-> [k \in {} |-> 0], rights |-> [k \in {} |-> [b \in Buckets |-> {}]], rule |-> [b \in {} |-> ""]]

\* A new installation, or one from before the services had keys.
SetupInit ==
  /\ \/ file = [f \in VolumeFiles |-> Missing] /\ store = NoStore
     \/ /\ file = [f \in VolumeFiles |-> IF f \in {Token, Rpc} \cup PairOf(PlatformKey) THEN <<10>>
                                   ELSE IF f = BucketFile THEN <<1>> ELSE Missing]
        /\ store = [keys |-> [k \in {10} |-> 10], rights |-> [k \in {10} |-> [b \in Buckets |-> IF b = 1 THEN Rights ELSE {}]],
                    rule |-> [b \in {1} |-> "none"]]
  /\ up = Off("new") /\ service = [s \in Served |-> <<>>]
  /\ ups = [done |-> 0, drawn |-> 10, meddled |-> 0]

-----------------------------------------------------------------------------
(* secrets                                                                  *)

\* The order in which cmd_secrets looks at its files.
Order ==
  <<Rpc, Token, Access(PlatformKey), Secret(PlatformKey), BucketFile>>
    \o [i \in 1 .. 2 * Len(Services) |->
          IF i % 2 = 1 THEN Access(Services[(i + 1) \div 2]) ELSE Secret(Services[i \div 2])]

BringUp(key, bucket) ==
  /\ ~Running /\ ups.done < MaxUps
  /\ ups' = [ups EXCEPT !.done = @ + 1]
  /\ up' = IF Len(key) = 1 THEN Off("refused")
           ELSE [at |-> "secrets", next |-> 1, value |-> <<>>, key |-> key, bucket |-> bucket]
  /\ UNCHANGED <<file, store, service>>

At == Order[up.next]
IsPair(f) == \E o \in Owners : f = Access(o)

\* What stands in the way of a pair or of a file that is there.
Contradicts ==
  \/ IsPair(At) /\ (file[At] = Missing) # (file[Order[up.next + 1]] = Missing)
  \/ At = Access(PlatformKey) /\ file[At] # Missing /\ up.key # <<>> /\ file[At] # <<up.key[1]>>
  \/ At = BucketFile /\ file[At] # Missing /\ file[At] # <<up.bucket>>

\* The next file of the order, or the next step.
Past(n) == IF up.next + n <= Len(Order) THEN [up EXCEPT !.next = @ + n, !.value = <<>>]
           ELSE [at |-> "init", next |-> 1, bucket |-> up.bucket]

\* What is written where a file is missing; both files of a pair are drawn at once.
NewValues ==
  IF At = BucketFile THEN <<up.bucket>>
  ELSE IF At = Access(PlatformKey) /\ up.key # <<>> THEN up.key
  ELSE IF IsPair(At) THEN <<ups.drawn + 1, ups.drawn + 1>> ELSE <<ups.drawn + 1>>

Look ==
  /\ up.at = "secrets" /\ up.value = <<>>
  /\ IF Contradicts THEN up' = Off("refused") /\ UNCHANGED ups
     ELSE IF file[At] # Missing THEN up' = Past(IF IsPair(At) THEN 2 ELSE 1) /\ UNCHANGED ups
     ELSE /\ up' = [up EXCEPT !.value = NewValues]
          /\ ups' = [ups EXCEPT !.drawn = @ + 1]
  /\ UNCHANGED <<file, store, service>>

\* _write_secret_file: the file is created, and nobody else's, before it is written.
Create ==
  /\ up.at = "secrets" /\ up.value # <<>> /\ file[At] = Missing
  /\ file' = [file EXCEPT ![At] = Empty]
  /\ UNCHANGED <<store, up, service, ups>>

Fill ==
  /\ up.at = "secrets" /\ up.value # <<>> /\ file[At] = Empty
  /\ file' = [file EXCEPT ![At] = <<Head(up.value)>>]
  /\ up' = IF Len(up.value) = 2 THEN [up EXCEPT !.next = @ + 1, !.value = Tail(@)] ELSE Past(1)
  /\ UNCHANGED <<store, service, ups>>

\* The disk is full: the file goes again.
WriteFails ==
  /\ up.at = "secrets" /\ up.value # <<>> /\ file[At] = Empty
  /\ file' = [file EXCEPT ![At] = Missing]
  /\ up' = Off("failed")
  /\ UNCHANGED <<store, service, ups>>

-----------------------------------------------------------------------------
(* init                                                                     *)

Steps ==
  <<<<"key", PlatformKey>>, <<"bucket", PlatformKey>>, <<"allow", PlatformKey>>>>
    \o [i \in 1 .. 3 * Len(Services) |->
          <<(<<"key", "allow", "deny">>)[((i - 1) % 3) + 1], Services[((i + 2) \div 3)]>>]
    \o <<<<"rule", PlatformKey>>>>

Value(f) == file[f][1]
Known(k) == k \in DOMAIN store.keys

\* A mutant: a key the store knows is taken as it is.
KeyThere(o) == Written(Access(o)) /\ Written(Secret(o))
\* The store refuses an empty key or secret; one it knows with another secret is not replaced.
Usable(o) ==
  /\ Written(Access(o)) /\ Written(Secret(o))
  /\ Known(Value(Access(o))) => store.keys[Value(Access(o))] = Value(Secret(o))

ImportKey(o) ==
  LET k == Value(Access(o))  with == DOMAIN store.keys \cup {k}
  IN  store' = IF Known(k) THEN store
               ELSE [store EXCEPT !.keys = [x \in with |-> IF x = k THEN Value(Secret(o)) ELSE @[x]],
                                  !.rights = [x \in with |-> IF x = k THEN [b \in Buckets |-> {}] ELSE @[x]]]

CreateBucket ==
  LET b == Value(BucketFile)
  IN  store' = IF b \in DOMAIN store.rule THEN store
               ELSE [store EXCEPT !.rule = [x \in DOMAIN @ \cup {b} |-> IF x = b THEN "none" ELSE @[x]]]

Allow(o) == store' = [store EXCEPT !.rights[Value(Access(o))][Value(BucketFile)] = @ \cup Allowed(o)]

DenyRest(o) == store' = [store EXCEPT !.rights[Value(Access(o))][Value(BucketFile)] = @ \cap Allowed(o)]

\* UpdateBucket replaces all rules; the rule is then read back.
SetRule == store' = [store EXCEPT !.rule[Value(BucketFile)] = "results-7d"]

Effect(what, o) ==
  \/ what = "key" /\ ImportKey(o)
  \/ what = "bucket" /\ CreateBucket
  \/ what = "allow" /\ Allow(o)
  \/ what = "deny" /\ DenyRest(o)
  \/ what = "rule" /\ SetRule

Can(what, o) == Written(Token) /\ Written(BucketFile) /\ (what = "key" => Usable(o))

\* A request is answered, or its answer is lost; then the step ends with an error.
InitStep ==
  /\ up.at = "init"
  /\ LET what == Steps[up.next][1]  o == Steps[up.next][2]
     IN  \/ /\ Can(what, o) /\ Effect(what, o)
            /\ up' \in {Off("failed"),
                        IF up.next < Len(Steps) THEN [up EXCEPT !.next = @ + 1]
                        ELSE [at |-> "start", bucket |-> up.bucket]}
         \/ ~Can(what, o) /\ up' = Off("refused") /\ UNCHANGED store
  /\ UNCHANGED <<file, service, ups>>

\* A step is killed, or a request fails before it does anything.
Killed ==
  /\ up.at \in {"secrets", "init", "start"}
  /\ up' = Off("killed")
  /\ UNCHANGED <<file, store, service, ups>>

-----------------------------------------------------------------------------
(* The services and the operator                                            *)

\* StoreConfig.from_environ, and open_object_store of the worker.  A process that is up stays as
\* it was started, unless its settings have changed.
Start(s) ==
  /\ up.at = "start"
  /\ service[s] # <<>> => service[s][3] # up.bucket
  /\ Written(Access(s)) /\ Written(Secret(s))
  /\ s = Writer => store.rule[up.bucket] = "results-7d"
  /\ service' = [service EXCEPT ![s] = <<Value(Access(s)), Value(Secret(s)), up.bucket>>]
  /\ UNCHANGED <<file, store, up, ups>>

Stop(s) ==
  /\ service[s] # <<>> /\ ~Running
  /\ service' = [service EXCEPT ![s] = <<>>]
  /\ UNCHANGED <<file, store, up, ups>>

\* A volume goes when nobody uses it, and half a pair when somebody is told to remove it.
Meddle ==
  /\ ~Running /\ ups.meddled < MaxMeddles
  /\ \/ \E s \in Served : /\ service[s] = <<>>
                          /\ file' = [f \in VolumeFiles |-> IF f \in PairOf(s) THEN Missing ELSE file[f]]
                          /\ UNCHANGED store
     \/ /\ file' = [f \in VolumeFiles |-> IF f \in UNION {PairOf(s) : s \in Served} THEN file[f] ELSE Missing]
        /\ UNCHANGED store
     \/ \E f \in VolumeFiles : file[f] = Empty /\ file' = [file EXCEPT ![f] = Missing] /\ UNCHANGED store
     \/ \E s \in Served : /\ Written(Access(s)) /\ Written(BucketFile) /\ Known(Value(Access(s)))
                          /\ store' = [store EXCEPT !.rights[Value(Access(s))][Value(BucketFile)] = Rights]
                          /\ UNCHANGED file
  /\ ups' = [ups EXCEPT !.meddled = @ + 1]
  /\ UNCHANGED <<up, service>>

SetupNext ==
  \/ \E key \in EnvKeys, b \in Buckets : BringUp(key, b)
  \/ Look \/ Create \/ Fill \/ WriteFails \/ InitStep \/ Killed \/ Meddle
  \/ \E s \in Served : Start(s) \/ Stop(s)

SetupSpec == SetupInit /\ [][SetupNext]_setupVars

-----------------------------------------------------------------------------
(* Properties                                                               *)

Belong(k, s) == k = s \/ <<k, s>> \in EnvKeys

\* The store takes what the services were started with, for as long as they run: no later step,
\* finished, killed or refused, takes a key, a right they need or the rule from under them.
RunningServicesAreServed ==
  \A s \in Served : service[s] # <<>> =>
    LET k == service[s][1]  b == service[s][3]
    IN  /\ Known(k) /\ store.keys[k] = service[s][2]
        /\ Needs[s] \subseteq store.rights[k][b]
        /\ store.rule[b] = "results-7d"

\* Once `init` has ended well every key has exactly its rights and belongs to its secret.
ReadyMeansReady ==
  up.at = "start" =>
    \A o \in Owners :
      /\ Belong(Value(Access(o)), Value(Secret(o)))
      /\ store.keys[Value(Access(o))] = Value(Secret(o))
      /\ store.rights[Value(Access(o))][Value(BucketFile)] = Allowed(o)
      /\ Value(BucketFile) = up.bucket

\* `init` refuses only a file that was left empty, or a key of .env the store knows with another secret.
RefusedForAReason ==
  (up.at = "init" /\ ~Can(Steps[up.next][1], Steps[up.next][2])) =>
    \/ \E f \in VolumeFiles : file[f] = Empty
    \/ \E p \in EnvKeys : Len(p) = 2 /\ file[Access(PlatformKey)] = <<p[1]>> /\ store.keys[p[1]] # Value(Secret(PlatformKey))

\* Whatever is interrupted, changed or lost while the store is prepared, again and again: services that
\* run keep what they need, nobody keeps more than that once it is done, and it fails for a reason only.
StorePrepared == RunningServicesAreServed /\ ReadyMeansReady /\ RefusedForAReason

-----------------------------------------------------------------------------
(***************************************************************************)
(* A result goes up file by file and is deleted again, over requests that  *)
(* the client tries up to three times.  A request that was given up may    *)
(* never have arrived, may have been carried out without an answer, or     *)
(* may still be carried out later, after its retries or after the deletion *)
(* of all that went up.                                                    *)
(***************************************************************************)

CONSTANTS Uploaders,    \* attempts of runs, each with a result of its own
          Parts,        \* the files of a result in order: the parts of each, 0 for one small enough to be put
          MaxAttempts,  \* tries of one request
          MaxLost       \* bound on requests given up

ASSUME StoreTransferAssumption ==
  Parts \in Seq(Nat) \ {<<>>} /\ MaxAttempts \in Nat \ {0} /\ MaxLost \in Nat

VARIABLES objects,  \* the bucket: the parts each file of a result consists of, <<>> for none
          uploads,  \* multipart uploads that are open, known to their client or not
          wire,     \* requests that were given up and may still be carried out
          client,   \* per attempt: what it is doing
          made,     \* uploads opened so far
          lost      \* requests given up so far
transferVars == <<objects, uploads, wire, client, made, lost>>

Names == DOMAIN Parts
Results == Uploaders
\* A mutant: the attempts of a run upload to one place.
ResultOfRun(u) == CHOOSE x \in Uploaders : TRUE
ResultOf(u) == u   \* new_result_id: random, never derived from the run

Content(n) == [k \in 1 .. (IF Parts[n] = 0 THEN 1 ELSE Parts[n]) |-> k]
Whole(r) == \A n \in Names : objects[r][n] = Content(n)
AllGone(r) == (\A n \in Names : objects[r][n] = <<>>) /\ (\A x \in uploads : x.result # r)

\* The file it is at, the upload it knows and the parts answered for; when deleting, what it was told is there.
NewClient == [pc |-> "upload", file |-> 1, upload |-> 0, etags |-> <<>>, tries |-> 0, listed |-> {},
              closed |-> FALSE, late |-> FALSE]

TransferInit ==
  /\ objects = [r \in Results |-> [n \in Names |-> <<>>]]
  /\ uploads = {} /\ wire = {} /\ made = 0 /\ lost = 0
  /\ client = [u \in Uploaders |-> NewClient]

-----------------------------------------------------------------------------
(* The store                                                                *)

Me(u) == client[u]
Req(op, u, n, no, parts) ==
  [op |-> op, result |-> ResultOf(u), name |-> n, no |-> no, parts |-> parts, names |-> Me(u).listed]

Open(q) == {x \in uploads : x.no = q.no}

\* An upload that is not there is an error, and not tried again.
Answers(q) == q.op \in {"part", "complete", "abort"} => Open(q) # {}

CarriedOut(q) ==
  /\ objects' = CASE q.op = "put" -> [objects EXCEPT ![q.result][q.name] = Content(q.name)]
                  [] q.op = "complete" /\ Open(q) # {} -> [objects EXCEPT ![q.result][q.name] = q.parts]
                  [] q.op = "delete" -> [objects EXCEPT ![q.result] = [n \in Names |-> IF n \in q.names THEN <<>> ELSE @[n]]]
                  [] OTHER -> objects
  /\ uploads' = CASE q.op = "create" -> uploads \cup {[result |-> q.result, name |-> q.name, no |-> made + 1]}
                  [] q.op \in {"complete", "abort"} -> uploads \ Open(q)
                  [] OTHER -> uploads
  /\ made' = IF q.op = "create" THEN made + 1 ELSE made

-----------------------------------------------------------------------------
(* The client                                                               *)

Multipart(u) == Parts[Me(u).file] > 0

\* The request an attempt makes where it is.
Request(u) ==
  LET c == Me(u)
  IN  CASE c.pc = "abort" -> Req("abort", u, c.file, c.upload, <<>>)
        [] c.pc = "delete" -> Req("delete", u, 0, 0, <<>>)
        [] c.pc = "abortAll" -> Req("abort", u, 0, CHOOSE x \in c.listed : TRUE, <<>>)
        [] c.pc = "upload" -> IF ~Multipart(u) THEN Req("put", u, c.file, 0, <<>>)
                              ELSE IF c.upload = 0 THEN Req("create", u, c.file, 0, <<>>)
                              ELSE IF Len(c.etags) < Parts[c.file] THEN Req("part", u, c.file, c.upload, <<Len(c.etags) + 1>>)
                              ELSE Req("complete", u, c.file, c.upload, c.etags)

Asking(u) == Me(u).pc \in {"upload", "abort", "delete", "abortAll"}
Goes(u, c) == client' = [client EXCEPT ![u] = [c EXCEPT !.tries = 0]]

\* The next file, or the end of the upload.
NextFile(c) ==
  [c EXCEPT !.upload = 0, !.etags = <<>>, !.file = @ + 1, !.pc = IF c.file = Len(Parts) THEN "close" ELSE "upload"]

\* _forget; what it was at counts no more.
Forgetting(c) == [NewClient EXCEPT !.pc = "forget", !.upload = c.upload, !.closed = c.closed]

\* upload_result and delete_result after an answer.
Onward(u, q) ==
  LET c == Me(u)
  IN  CASE c.pc = "abort" -> Forgetting(c)
        [] c.pc = "delete" -> [c EXCEPT !.pc = "uploads"]
        [] c.pc = "abortAll" -> [c EXCEPT !.listed = @ \ {q.no}, !.pc = IF c.listed = {q.no} THEN "forgotten" ELSE "abortAll"]
        [] q.op = "create" -> [c EXCEPT !.upload = made + 1]
        [] q.op = "part" -> [c EXCEPT !.etags = @ \o q.parts]
        [] OTHER -> NextFile(c)

\* An error: an upload that was opened is aborted, whose own error does not count; then all that went up is
\* deleted.  A deletion that fails is left to the bucket's rule.
Fails(u) ==
  LET c == Me(u)
  IN  IF c.pc = "upload" /\ c.upload # 0 THEN [c EXCEPT !.pc = "abort"]
      ELSE IF c.pc \in {"upload", "abort"} THEN Forgetting(c)
      ELSE [c EXCEPT !.pc = "left"]

Answered(u) ==
  /\ Asking(u)
  /\ LET q == Request(u)
     IN CarriedOut(q) /\ Goes(u, IF Answers(q) THEN Onward(u, q) ELSE Fails(u))
  /\ UNCHANGED <<wire, lost>>

\* A request is given up; standard mode tries again, up to MaxAttempts in all.
GivenUp(u) ==
  /\ Asking(u) /\ lost < MaxLost
  /\ wire' = wire \cup {Request(u)} /\ lost' = lost + 1
  /\ IF Me(u).tries + 1 < MaxAttempts THEN client' = [client EXCEPT ![u].tries = @ + 1] ELSE Goes(u, Fails(u))
  /\ UNCHANGED <<objects, uploads, made>>

\* The store refuses at once: the key may not, or an error that is not tried again; or a listing fails for good.
Refused(u) ==
  /\ Asking(u) \/ Me(u).pc \in {"forget", "uploads"}
  /\ Goes(u, Fails(u))
  /\ UNCHANGED <<objects, uploads, wire, made, lost>>

\* Of the objects to delete some are named in Errors: the others are gone.
DeletedInPart(u) ==
  /\ Me(u).pc = "delete"
  /\ \E some \in (SUBSET Me(u).listed) \ {Me(u).listed} :
       objects' = [objects EXCEPT ![ResultOf(u)] = [n \in Names |-> IF n \in some THEN <<>> ELSE @[n]]]
  /\ Goes(u, Fails(u))
  /\ UNCHANGED <<uploads, wire, made, lost>>

\* The run is closed with the result, or another attempt owns it: then all is deleted.
Close(u) ==
  /\ Me(u).pc = "close"
  /\ \E closed \in BOOLEAN : Goes(u, IF closed THEN [Me(u) EXCEPT !.closed = TRUE, !.pc = "kept"] ELSE Forgetting(Me(u)))
  /\ UNCHANGED <<objects, uploads, wire, made, lost>>

\* The clean-up removes a result, and tries again at the next batch if that fails.
Expire(u) ==
  /\ Me(u).closed /\ Me(u).pc \in {"kept", "left"}
  /\ Goes(u, Forgetting(Me(u)))
  /\ UNCHANGED <<objects, uploads, wire, made, lost>>

\* delete_result: what is there is listed, and deleted; then the open uploads, the unknown ones too.
ListObjects(u) ==
  /\ Me(u).pc = "forget"
  /\ LET there == {n \in Names : objects[ResultOf(u)][n] # <<>>}
     IN  Goes(u, [Me(u) EXCEPT !.listed = there, !.pc = IF there = {} THEN "uploads" ELSE "delete"])
  /\ UNCHANGED <<objects, uploads, wire, made, lost>>

\* A mutant: only the upload the client knows of is aborted.
KnownUpload(u) == {x.no : x \in {y \in uploads : y.result = ResultOf(u) /\ y.no = Me(u).upload}}
OpenUploads(u) == {x.no : x \in {y \in uploads : y.result = ResultOf(u)}}

ListUploads(u) ==
  /\ Me(u).pc = "uploads"
  /\ LET there == OpenUploads(u)
     IN  Goes(u, [Me(u) EXCEPT !.listed = there, !.pc = IF there = {} THEN "forgotten" ELSE "abortAll"])
  /\ UNCHANGED <<objects, uploads, wire, made, lost>>

\* The network delivers a request that was given up, or never does.
Deleting == {"delete", "uploads", "abortAll", "forgotten", "left"}
Late(q) ==
  /\ wire' = wire \ {q}
  /\ \/ CarriedOut(q)
     \/ UNCHANGED <<objects, uploads, made>>
  /\ client' = [u \in Uploaders |-> IF ResultOf(u) = q.result /\ Me(u).pc \in Deleting
                                    THEN [Me(u) EXCEPT !.late = TRUE] ELSE Me(u)]
  /\ UNCHANGED lost

TransferNext ==
  \/ \E u \in Uploaders : \/ Answered(u) \/ GivenUp(u) \/ Refused(u) \/ DeletedInPart(u)
                          \/ Close(u) \/ Expire(u) \/ ListObjects(u) \/ ListUploads(u)
  \/ \E q \in wire : Late(q)

TransferSpec == TransferInit /\ [][TransferNext]_transferVars

-----------------------------------------------------------------------------
(* Properties                                                               *)

\* Whatever was tried again, lost or came late, of this attempt or of another one of its run: a result
\* a run was closed with is whole, and what was deleted without an error is gone, uploads nobody knew
\* of with it, unless a request that had been given up was carried out meanwhile.
ResultsWhole ==
  /\ \A u \in Uploaders : Me(u).pc \in {"close", "kept"} => Whole(ResultOf(u))
  /\ \A u \in Uploaders : Me(u).pc = "forgotten" /\ ~Me(u).late => AllGone(ResultOf(u))
=============================================================================
