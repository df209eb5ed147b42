---------------------------- MODULE MCSearchWalk ----------------------------
(* Search instances of two parts that meet in nothing but the sources they *)
(* ask.  "walk": two own collections (with and without a time axis) and    *)
(* one that is judged, of four scenes in pages of two.  "answers": two     *)
(* callers of the cache of answers, over sets of questions whose keys      *)
(* could be taken for one another.                                         *)
EXTENDS SearchWalk, CachedAnswers

VARIABLE part

MCHolds == [k \in {{1}, {2}, {3}} |-> IF k = {1} THEN 3 ELSE IF k = {2} THEN 1 ELSE Total]

MCShapes ==
  { [verdict |-> <<"in", "in", "out", "in">>, day |-> <<1, 1, 1, 2>>, pass |-> <<1, 1, 2, 3>>, tail |-> FALSE],
    [verdict |-> <<"uncovered", "in", "broken", "in">>, day |-> <<1, 2, 0, 3>>, pass |-> <<1, 2, 3, 4>>, tail |-> TRUE] }

MCKeyOrder == <<{3}, {1}, {2}>>

MCIdSets == {{3}, {1, 2, 3}}

MCFirstFields == [ids : MCIdSets, area : {"here"}, flt : {"scene", "pass", "none"}]

----------------------------------------------------------------------------
MCPlaceOf == <<"west", "east", "west">>
MCDayOf == <<0, 0, 1>>
MCFirstHeld == [d \in Sets |-> IF d = "s2" THEN {1, 2} ELSE IF d = "dem" THEN {1} ELSE {}]

Question(kind, d) ==
  [kind |-> kind, d |-> d, zoom |-> 0, area |-> Anywhere, window |-> AnyTime,
   filtered |-> FALSE, marker |-> 0, limit |-> 0, id |-> 0]

DayZero == [from |-> 0, to |-> 0]
ViewOfAll == [of |-> "extent", covers |-> Places, points |-> 0]
DrawnWest == [of |-> "aoi", covers |-> {"west"}, points |-> 2]

S2 == Question("density", "s2")
Dem == Question("density", "dem")
Page1 == [Question("page", "s2") EXCEPT !.limit = 1]

MCTopics ==
  { {S2, [S2 EXCEPT !.zoom = 1], [S2 EXCEPT !.filtered = TRUE]},
    {[S2 EXCEPT !.zoom = 1, !.area = ViewOfAll]},
    {[S2 EXCEPT !.zoom = 1, !.area = DrawnWest]},
    {S2, [S2 EXCEPT !.window = DayZero], Question("density", "other")},
    {Dem, [Dem EXCEPT !.zoom = 1, !.area = DrawnWest], [Dem EXCEPT !.window = DayZero]},
    {Page1, [Page1 EXCEPT !.marker = 1], [Page1 EXCEPT !.limit = 2]},
    {[Page1 EXCEPT !.limit = 2, !.window = DayZero], [Page1 EXCEPT !.limit = 2, !.filtered = TRUE],
     [Question("item", "s2") EXCEPT !.id = 1]} }

SameCallers == Permutations(Callers)

WalkRests ==
  /\ source = (CHOOSE x \in SourceShapes : TRUE) /\ resp = Idle /\ timeLeft = "long"
  /\ fields = (CHOOSE f \in FirstFields : TRUE) /\ ctx = NoCtx
  /\ walks = [s \in Slots |-> NoWalk] /\ owner = NoOwner /\ budget = 0

CallersRest ==
  /\ topic = {} /\ clock = 0 /\ asked = 0 /\ told = NoCall
  /\ held = [t \in {0} |-> FirstHeld] /\ rows = [k \in {} |-> Nowhere]
  /\ call = [r \in Callers |-> NoCall]

MCInit ==
  \/ part = "walk" /\ WalkInit /\ CallersRest
  \/ part = "answers" /\ WalkRests /\ AnswersInit

MCNext ==
  \/ part = "walk" /\ WalkNext /\ UNCHANGED <<answerVars, part>>
  \/ part = "answers" /\ AnswersNext /\ UNCHANGED <<searchVars, part>>

MCSpec == MCInit /\ [][MCNext]_<<searchVars, answerVars, part>>
=============================================================================
