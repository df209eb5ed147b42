----------------------------- MODULE SearchWalk -----------------------------
(***************************************************************************)
(* A search of the browser (frontend/src/store.ts, api.ts) walked page by  *)
(* page through the search route (api/federating_client.py,                *)
(* api/mixed_search.py): the collections of a search are a few sources,    *)
(* each asked for its share of every page, and the page marker carries     *)
(* where each stands and which have failed.  At most one source is judged  *)
(* by the API itself; its response is made by the steps of AoiFilter.      *)
(*                                                                         *)
(* Collections are numbers in the order of their ids.  A source is the set *)
(* of its collections (a native group is answered in one call).  A source  *)
(* holds Holds[source] scenes of any search, numbered from 1 on.  A walk   *)
(* the browser started is in slot "search" (runSearch) or "more"           *)
(* (loadMore).                                                             *)
(***************************************************************************)
EXTENDS AoiFilter

CONSTANTS
  Native, Federated,  \* collections of the platform's own database, and of other sources
  HasTime,            \* collections with a time axis
  KeyOrder,           \* all sources in the order of their keys as text, which a marker lists them in
  Judged,             \* the federated collection whose filters the API may judge
  IdSets, Areas,      \* the choices of collections and of areas (with dates) the user makes
  FirstFields,        \* what the fields may show at first
  Filters,            \* what is set for Judged: "none", "plain", "scene" (within the AOI), "pass"
  Holds,              \* scenes of a source that answers by itself
  PageLimit,          \* limit of one page
  MaxItems,           \* MAX_SEARCH_ITEMS of one walk
  UserSteps           \* bound on what the user does

VARIABLES
  fields,   \* what the control panel shows: collections, area with dates, filters
  ctx,      \* searchContext: the search on screen
  walks,    \* the walk of each slot
  owner,    \* whose response AoiFilter makes
  budget    \* steps the user may still take

walkVars == <<fields, ctx, walks, owner, budget>>
searchVars == <<walkVars, filterVars>>

Slots == {"search", "more"}
NoOwner == "nobody"

----------------------------------------------------------------------------
(* Sources of a search, shares of a page.                                  *)

Judges(q) == Judged \in q.ids /\ q.flt \in {"scene", "pass"}
IsJudged(q, k) == k = {Judged} /\ Judges(q)

(* _partition_sources: the own collections with and without a time axis,   *)
(* then the others by id.                                                  *)
Keys(q) ==
  ({q.ids \cap Native \cap HasTime, (q.ids \cap Native) \ HasTime} \ {{}}) \cup {{c} : c \in q.ids \cap Federated}

InFrontAtFirst(j, k) ==
  \/ j \subseteq Native /\ (j \subseteq HasTime \/ k \subseteq Federated)
  \/ j \cup k \subseteq Federated /\ \E a \in j, b \in k : a < b

(* From the second page on the sources stand in the order of the marker.   *)
InFrontLater(j, k) == \E m, n \in DOMAIN KeyOrder : m < n /\ KeyOrder[m] = j /\ KeyOrder[n] = k

IsMixed(q) == Cardinality(Keys(q)) > 1

Lone(q) == CHOOSE k \in Keys(q) : TRUE

ASSUME SearchAssumption ==
  /\ Native \cap Federated = {} /\ Judged \in Federated
  /\ PageLimit \in Nat
  /\ FirstFields \subseteq [ids : IdSets, area : Areas, flt : Filters]
  /\ \A ids \in IdSets :
       /\ IsFiniteSet(ids) /\ ids # {} /\ ids \subseteq Native \cup Federated
       /\ \A k \in Keys([ids |-> ids]) : Holds[k] \in Nat

(* compute_shares: the first sources get one more where the division has a *)
(* rest.                                                                   *)
Shares(keys, first) ==
  LET n == Cardinality(keys)
      place(k) == Cardinality({j \in keys \ {k} : IF first THEN InFrontAtFirst(j, k) ELSE InFrontLater(j, k)})
  IN [k \in keys |-> PageLimit \div n + (IF place(k) < PageLimit % n THEN 1 ELSE 0)]

----------------------------------------------------------------------------
(* Page markers.  A source's own marker is bound to the search as that     *)
(* source is asked it; the database's is not.                              *)

AskedOf(q, k) ==
  IF k \subseteq Native THEN "pgstac"
  ELSE [area |-> IF k \subseteq HasTime THEN q.area ELSE "any time",
        flt |-> IF Judged \in k THEN q.flt ELSE "none"]

Marker(q, k, at) == [of |-> AskedOf(q, k), at |-> at]

MixedToken(q, pending, failed) == [of |-> q, s |-> pending, f |-> failed]

OwnReadable(q, k, m) ==
  m # None => /\ m.of = AskedOf(q, k)
              /\ IsJudged(q, k) => CursorReadable(m.at)

(* decode_mixed_token, and what a lone search asks of its marker.          *)
Accepts(q, token) ==
  token # None =>
    IF IsMixed(q)
    THEN /\ "s" \in DOMAIN token
         /\ token.of = q
         /\ DOMAIN token.s \cup token.f # {}
         /\ DOMAIN token.s \subseteq Keys(q) /\ token.f \subseteq Keys(q)
         /\ \A k \in DOMAIN token.s : OwnReadable(q, k, token.s[k])
    ELSE "s" \notin DOMAIN token /\ OwnReadable(q, Lone(q), token)

Started(m) == IF m = None THEN 0 ELSE m.at

----------------------------------------------------------------------------
(* The browser.                                                            *)

NoWalk == [none |-> TRUE]
NoCtx == [none |-> TRUE]
NoReq == [none |-> TRUE]
NoCounts == [checked |-> 0, found |-> 0, unreadable |-> 0, limited |-> FALSE]

Searching == walks["search"] # NoWalk
LoadingMore == walks["more"] # NoWalk /\ ~walks["more"].stale

EmptyCtx(q) ==
  [q |-> q, got |-> [k \in Keys(q) |-> <<>>], token |-> None, open |-> {}, named |-> {}, counts |-> NoCounts]

(* All scenes of the results, of whatever source.                          *)
Loaded(c) == UNION {{<<k, n>> : n \in DOMAIN c.got[k]} : k \in DOMAIN c.got}

NewWalk(base, token) ==
  [q |-> base.q, base |-> base, seen |-> base, token |-> token, flt |-> fields.flt, stale |-> FALSE, req |-> NoReq]

(* stopWalk: the walk of a search the API judges ends where it stands, its *)
(* request is dropped; what the server makes of it nobody reads.           *)
Stoppable(s) == walks[s] # NoWalk /\ Judges(walks[s].q)
WalksStopped == [s \in Slots |-> IF Stoppable(s) THEN NoWalk ELSE walks[s]]
OwnerStopped == IF owner \in Slots /\ Stoppable(owner) THEN NoOwner ELSE owner

(* forgetSearch: besides, walks that answer later find their search gone.  *)
SearchForgotten(ws) == [s \in Slots |-> IF ws[s] = NoWalk THEN NoWalk ELSE [ws[s] EXCEPT !.stale = TRUE]]

TokenDropped == IF ctx = NoCtx THEN NoCtx ELSE [ctx EXCEPT !.token = None]

UserStep == budget > 0 /\ budget' = budget - 1

ChangeArea ==
  /\ UserStep
  /\ \E a \in Areas \ {fields.area} : fields' = [fields EXCEPT !.area = a]
  /\ ctx' = TokenDropped
  /\ walks' = WalksStopped
  /\ owner' = OwnerStopped
  /\ UNCHANGED filterVars

(* Only a search on screen of this dataset is dropped; while the first     *)
(* answer is on its way the walk itself finds the change.                  *)
ChangeFilters ==
  /\ UserStep
  /\ \E f \in Filters \ {fields.flt} : fields' = [fields EXCEPT !.flt = f]
  /\ IF ctx # NoCtx /\ Judged \in ctx.q.ids
     THEN ctx' = TokenDropped /\ walks' = WalksStopped /\ owner' = OwnerStopped
     ELSE UNCHANGED <<ctx, walks, owner>>
  /\ UNCHANGED filterVars

(* Another choice of datasets drops the results, as "Clear all" does.      *)
ChooseDatasets ==
  /\ UserStep
  /\ \E ids \in IdSets \ {fields.ids} : fields' = [fields EXCEPT !.ids = ids]
  /\ ctx' = NoCtx
  /\ walks' = SearchForgotten(WalksStopped)
  /\ owner' = OwnerStopped
  /\ UNCHANGED filterVars

RunSearch ==
  /\ UserStep
  /\ ~Searching
  /\ ctx' = NoCtx
  /\ walks' = [SearchForgotten(WalksStopped) EXCEPT !["search"] = NewWalk(EmptyCtx(fields), None)]
  /\ owner' = OwnerStopped
  /\ UNCHANGED <<fields, filterVars>>

(* (One walk at most continues a search that is gone: a bound.)            *)
LoadMore ==
  /\ UserStep
  /\ ctx # NoCtx /\ ctx.token # None
  /\ ~LoadingMore /\ ~Searching
  /\ walks["more"] = NoWalk
  /\ walks' = [walks EXCEPT !["more"] = NewWalk(ctx, ctx.token)]
  /\ UNCHANGED <<fields, ctx, owner, filterVars>>

StopSearch ==
  /\ UserStep
  /\ \E s \in Slots : Stoppable(s)
  /\ walks' = WalksStopped
  /\ owner' = OwnerStopped
  /\ UNCHANGED <<fields, ctx, filterVars>>

User == ChangeArea \/ ChangeFilters \/ ChooseDatasets \/ RunSearch \/ LoadMore \/ StopSearch

----------------------------------------------------------------------------
(* One page: the request is read, every open source asked for its share.   *)

NoOut == [k \in {} |-> {}]

AskPage(s) ==
  LET w == walks[s]
      q == w.q
      pend == IF w.token # None /\ IsMixed(q) THEN w.token.s ELSE [k \in Keys(q) |-> w.token]
  IN /\ w # NoWalk /\ w.req = NoReq
     /\ Accepts(q, w.token)
     /\ walks' = [walks EXCEPT ![s].req =
                    [pend |-> pend, share |-> Shares(DOMAIN pend, w.token = None), out |-> NoOut,
                     failed |-> IF IsMixed(q) /\ w.token # None THEN w.token.f ELSE {}]]
     /\ UNCHANGED <<fields, ctx, owner, budget, filterVars>>

Awaited(s, k) ==
  /\ walks[s] # NoWalk /\ walks[s].req # NoReq
  /\ k \in DOMAIN walks[s].req.pend \ DOMAIN walks[s].req.out

Put(s, k, out) ==
  walks' = [walks EXCEPT ![s].req.out = [x \in DOMAIN @ \cup {k} |-> IF x = k THEN out ELSE @[x]]]

FailedSource == [items |-> <<>>, next |-> None, failed |-> TRUE, counts |-> NoCounts]

(* A source with no share is not asked and stays where it is.              *)
PassOver(s, k) ==
  /\ Awaited(s, k)
  /\ walks[s].req.share[k] = 0
  /\ Put(s, k, [items |-> <<>>, next |-> walks[s].req.pend[k], failed |-> FALSE, counts |-> NoCounts])
  /\ UNCHANGED <<fields, ctx, owner, budget, filterVars>>

(* _native_group_page, _federated_search_raw: the next scenes.  A source   *)
(* may link a further page behind its last scene.                          *)
AnswerPlain(s, k) ==
  LET w == walks[s]
      at == Started(w.req.pend[k])
      n == Smaller(w.req.share[k], Holds[k] - at)
  IN /\ Awaited(s, k) /\ ~IsJudged(w.q, k)
     /\ w.req.share[k] > 0
     /\ \E linked \in IF at + n < Holds[k] THEN {TRUE} ELSE {FALSE, n = w.req.share[k]} :
          Put(s, k, [items |-> [i \in 1..n |-> at + i], failed |-> FALSE, counts |-> NoCounts,
                     next |-> IF linked THEN Marker(w.q, k, at + n) ELSE None])
     /\ UNCHANGED <<fields, ctx, owner, budget, filterVars>>

(* In a mixed search a source that fails is left out from here on.         *)
SourceFails(s, k) ==
  /\ Awaited(s, k) /\ IsMixed(walks[s].q) /\ k \subseteq Federated
  /\ walks[s].req.share[k] > 0
  /\ Put(s, k, FailedSource)
  /\ IF IsJudged(walks[s].q, k)
     THEN owner = s /\ owner' = NoOwner /\ AbortResponse
     ELSE UNCHANGED <<owner, filterVars>>
  /\ UNCHANGED <<fields, ctx, budget>>

BeginJudged(s) ==
  LET w == walks[s]
      k == {Judged}
  IN /\ owner = NoOwner
     /\ Awaited(s, k) /\ IsJudged(w.q, k) /\ w.req.share[k] > 0
     /\ BeginResponse(IF w.req.pend[k] = None THEN FirstCursor ELSE w.req.pend[k].at, w.req.share[k], w.q.flt = "pass")
     /\ owner' = s
     /\ UNCHANGED <<fields, ctx, walks, budget>>

JudgeOn == Steps /\ UNCHANGED walkVars

Counted(r) == [checked |-> r.checked, found |-> r.found, unreadable |-> r.unreadable, limited |-> r.limited]

TakeOutcome(s) ==
  LET k == {Judged}
  IN /\ owner = s /\ resp.st = "done"
     /\ Put(s, k, [items |-> resp.kept, failed |-> FALSE, counts |-> Counted(resp),
                   next |-> IF resp.next = None THEN None ELSE Marker(walks[s].q, k, resp.next)])
     /\ owner' = NoOwner
     /\ resp' = Idle
     /\ UNCHANGED <<fields, ctx, budget, source, timeLeft>>

(* The answer of a request the browser dropped.                            *)
DropOutcome ==
  /\ owner = NoOwner /\ resp.st = "done"
  /\ resp' = Idle
  /\ UNCHANGED <<walkVars, source, timeLeft>>

----------------------------------------------------------------------------
(* The answer, and what the browser does with it.                          *)

(* _mixed_page and the lone search: what the page carries on.              *)
NextPendingAsked(req) ==
  LET open == {k \in DOMAIN req.out : ~req.out[k].failed /\ req.out[k].next # None} IN [k \in open |-> req.out[k].next]

NextPending(req) ==
  LET open == {k \in DOMAIN req.out : ~req.out[k].failed /\ (req.out[k].next # None \/ req.share[k] = 0)}
  IN [k \in open |-> req.out[k].next]

NextToken(q, req) ==
  LET pending == NextPending(req)
  IN IF DOMAIN pending = {} THEN None
     ELSE IF IsMixed(q) THEN MixedToken(q, pending, req.failed \cup {k \in DOMAIN req.out : req.out[k].failed})
     ELSE pending[Lone(q)]

(* searchAllPages: what the walk has with this page (PagesSoFar).  The     *)
(* browser leaves out a scene it already has; it is kept here, so that the *)
(* properties would show it.                                               *)
WithPage(w) ==
  LET req == w.req
      judged == {k \in DOMAIN req.out : IsJudged(w.q, k) /\ req.share[k] > 0 /\ ~req.out[k].failed}
  IN [w.seen EXCEPT !.got = [k \in DOMAIN @ |-> IF k \in DOMAIN req.out THEN @[k] \o req.out[k].items ELSE @[k]],
                    !.token = NextToken(w.q, req),
                    !.open = UNION DOMAIN NextPending(req),
                    !.named = @ \cup req.failed \cup {k \in DOMAIN req.out : req.out[k].failed},
                    !.counts = IF judged = {} THEN @ ELSE req.out[{Judged}].counts]

WalkOver(w, page) == page.token = None \/ Cardinality(Loaded(page)) >= Cardinality(Loaded(w.base)) + MaxItems

AllAnswered(s) ==
  /\ walks[s] # NoWalk /\ walks[s].req # NoReq
  /\ DOMAIN walks[s].req.out = DOMAIN walks[s].req.pend

(* A plain walk shows nothing before its end.                              *)
GoOn(s) ==
  LET page == WithPage(walks[s])
  IN /\ AllAnswered(s) /\ ~Judges(walks[s].q)
     /\ ~WalkOver(walks[s], page)
     /\ walks' = [walks EXCEPT ![s].seen = page, ![s].token = page.token, ![s].req = NoReq]
     /\ UNCHANGED <<fields, ctx, owner, budget, filterVars>>

(* runSearch compares the filters with those it started with, loadMore the *)
(* token with the one on screen; results that were dropped stay dropped.   *)
FinishWalk(s) ==
  LET w == walks[s]
      page == WithPage(w)
      kept == IF s = "search" THEN fields.flt = w.flt ELSE ctx # NoCtx /\ ctx.token = w.base.token
  IN /\ AllAnswered(s) /\ ~Judges(w.q)
     /\ WalkOver(w, page)
     /\ ctx' = IF w.stale THEN ctx ELSE [page EXCEPT !.token = IF kept THEN @ ELSE None]
     /\ walks' = [walks EXCEPT ![s] = NoWalk]
     /\ UNCHANGED <<fields, owner, budget, filterVars>>

(* walkAoiSearch shows every page; a first search whose filters changed    *)
(* ends with its first page.                                               *)
ShowPage(s) ==
  LET w == walks[s]
      page == WithPage(w)
      kept == s = "search" => fields.flt = w.flt
  IN /\ AllAnswered(s) /\ Judges(w.q)
     /\ ctx' = [page EXCEPT !.token = IF kept THEN @ ELSE None]
     /\ walks' = [walks EXCEPT ![s] =
                    IF ~kept \/ WalkOver(w, page) THEN NoWalk
                    ELSE [w EXCEPT !.seen = page, !.token = page.token, !.req = NoReq]]
     /\ UNCHANGED <<fields, owner, budget, filterVars>>

(* The request fails as a whole: the database, or the only source, or a    *)
(* marker the server does not take.  What was loaded stays.                *)
AfterFailure(s) ==
  IF walks[s].stale THEN ctx
  ELSE IF s = "more" \/ (ctx # NoCtx /\ Loaded(ctx) # {})
       THEN [(IF Judges(walks[s].q) THEN ctx ELSE walks[s].base) EXCEPT !.token = None]
  ELSE NoCtx

RequestFails(s) ==
  /\ walks[s] # NoWalk
  /\ \/ walks[s].req = NoReq /\ ~Accepts(walks[s].q, walks[s].token)
     \/ /\ walks[s].req # NoReq
        /\ \E k \in DOMAIN walks[s].req.pend : Awaited(s, k) /\ (~IsMixed(walks[s].q) \/ k \subseteq Native)
  /\ ctx' = AfterFailure(s)
  /\ walks' = [walks EXCEPT ![s] = NoWalk]
  /\ IF owner = s THEN owner' = NoOwner /\ IF InResponse THEN AbortResponse ELSE resp' = Idle /\ UNCHANGED <<source, timeLeft>>
     ELSE UNCHANGED <<owner, filterVars>>
  /\ UNCHANGED <<fields, budget>>

Serve(s) ==
  \/ AskPage(s)
  \/ \E k \in Keys(walks[s].q) : PassOver(s, k) \/ AnswerPlain(s, k)
  \/ BeginJudged(s) \/ TakeOutcome(s)
  \/ GoOn(s) \/ FinishWalk(s) \/ ShowPage(s)

ServerFails(s) == RequestFails(s) \/ \E k \in Keys(walks[s].q) : SourceFails(s, k)

WalkInit ==
  /\ FilterInit
  /\ fields \in FirstFields
  /\ ctx = NoCtx
  /\ walks = [s \in Slots |-> NoWalk]
  /\ owner = NoOwner
  /\ budget = UserSteps

WalkNext ==
  \/ User
  \/ \E s \in {x \in Slots : walks[x] # NoWalk} : Serve(s) \/ ServerFails(s)
  \/ JudgeOn
  \/ DropOutcome

WalkSpec == WalkInit /\ [][WalkNext]_searchVars

----------------------------------------------------------------------------
(* The properties.                                                         *)

Verdicts(V, upTo) == {i \in Scenes : i <= upTo /\ source.verdict[i] \in V}

IsRun(seq) == \A i \in DOMAIN seq : seq[i] = i

(* Over all pages, "Load more" and page sizes of one search, a source that *)
(* answers by itself has given its scenes from the first on, each once and *)
(* none left out; one that is judged exactly the scenes within the filter  *)
(* among those it says it has checked, but for those it counts as          *)
(* unreadable, and never a part of an overpass (aoi_cloud_filter.py        *)
(* run_filter: misses none and repeats none; pass_filter.py run_pass_filter).*)
NoneTwiceNoneMissed ==
  ctx # NoCtx =>
    \A k \in Keys(ctx.q) :
      LET mine == ctx.got[k]
          given == {mine[i] : i \in DOMAIN mine}
          within == Verdicts({"in"}, ctx.counts.checked)
      IN /\ ~IsJudged(ctx.q, k) => IsRun(mine)
         /\ IsJudged(ctx.q, k) =>
              /\ Len(mine) = Cardinality(given)
              /\ given \subseteq within
              /\ ctx.counts.found = Cardinality(given)
              /\ Cardinality(within \ given) + Cardinality(Verdicts({"broken"}, ctx.counts.checked)) <= ctx.counts.unreadable
              /\ ctx.q.flt = "pass" =>
                   \A i \in given : \A j \in within : source.pass[i] = source.pass[j] => j \in given

(* A source is complete on screen, or the answer says why it is not: it is *)
(* open (a next page may bring more), named as failed, or its search       *)
(* reached the limit of scenes checked.                                    *)
CompleteOrSaid ==
  ctx # NoCtx =>
    \A k \in Keys(ctx.q) \ ctx.named :
      k \subseteq ctx.open \/
        IF IsJudged(ctx.q, k) THEN ctx.counts.checked = Total \/ ctx.counts.limited
        ELSE Len(ctx.got[k]) = Holds[k]

(* Every marker the platform gave is one it takes back from the browser,   *)
(* at any page, share and state of the sources (decode_mixed_token,        *)
(* decode_page_token, decode_cursor refuse what is not theirs).            *)
OwnMarkersAccepted ==
  /\ \A s \in Slots : walks[s] # NoWalk => Accepts(walks[s].q, walks[s].token)
  /\ ctx # NoCtx => Accepts(ctx.q, ctx.token)

(* Nothing is lost without a word (_mixed_page: incomplete and             *)
(* open_collections of every page), and no walk ends at a marker of the    *)
(* platform's own that it no longer takes.                                 *)
NothingLostSilently == CompleteOrSaid /\ OwnMarkersAccepted

(* Every answer moves the walk on: it closes a source or puts its marker   *)
(* further, also where it brings no scene and the clock ran out before the *)
(* first one (run_filter waits for the first scene of a response whatever  *)
(* the time; searchAllPages asks on as long as there is a marker).         *)
Place(q, k, m) == IF m = None THEN 0 ELSE IF IsJudged(q, k) THEN Before(m.at.pos) ELSE m.at

Standings(q, token) ==
  IF token = None THEN [k \in Keys(q) |-> 0]
  ELSE IF IsMixed(q) THEN [k \in DOMAIN token.s |-> Place(q, k, token.s[k])]
  ELSE [k \in Keys(q) |-> Place(q, k, token)]

EveryAnswerMovesOn ==
  [][\A s \in Slots :
       walks[s] # NoWalk /\ walks'[s] # NoWalk /\ walks[s].req # NoReq /\ walks'[s].req = NoReq /\ walks'[s].base = walks[s].base
         => LET old == Standings(walks[s].q, walks[s].token)
                new == Standings(walks[s].q, walks'[s].token)
            IN /\ DOMAIN new \subseteq DOMAIN old
               /\ \A k \in DOMAIN new : new[k] >= old[k]
               /\ \E k \in DOMAIN old : k \in DOMAIN new => new[k] > old[k]]_searchVars

(* What "Load more" would go on with is the search the fields show (the    *)
(* comment on dropPageToken: with another AOI or other dates it cannot be  *)
(* continued).                                                             *)
ContinuesWhatIsShown == ctx # NoCtx /\ ctx.token # None => ctx.q.area = fields.area
============================================================================
