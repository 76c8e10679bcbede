---------------------------- MODULE BridgeSelection ----------------------------
(***************************************************************************)
(* Choosing bridges for the gaps of a fixed route (src/src/preview.rs).    *)
(*                                                                         *)
(* mode "automatic": gap by gap from the left, the best candidate that     *)
(* beats the direct transition is inserted while the budget lasts.         *)
(* mode "exact": a beam search over the gaps for a given number of         *)
(* additions, one or several per gap, optionally with an opening and a     *)
(* closing track, for which the whole search is repeated with fewer        *)
(* internal additions.                                                     *)
(*                                                                         *)
(* Gaps are numbered by their place in the original route.  States of the  *)
(* beam are kept per number of additions; the code's threads expand them   *)
(* in parallel and collect in order, which the sets here leave open.       *)
(***************************************************************************)
EXTENDS BridgeEvaluation

CONSTANT Jobs

VARIABLES
  job,
  pc,
  gap,        \* the gap that is looked at
  route,      \* the evolving route of the automatic mode
  decisions,  \* what was decided for each gap, in order
  choices,    \* the uses of the endpoints still to be searched, in order
  states,     \* the beam: [route, selections], selections a sequence by gap
  seen,       \* the most additions any state had in the searches so far
  variants,   \* complete results: [route, selections, opening, closing]
  outcome     \* the selected variant, or none
vars == <<job, pc, gap, route, decisions, choices, states, seen, variants, outcome>>

None == [route |-> <<>>, selections |-> <<>>, opening |-> 0, closing |-> 0]
Gaps(j) == 1..(Len(j.route) - 1)

Objective(j, r) == GapSearchObjective(j, j.route, r)

\* Where gap g begins and ends in a route that has it.
PlaceOf(r, track) == CHOOSE i \in DOMAIN r : r[i] = track
LeftPlace(j, r, g) == PlaceOf(r, j.route[g])
RightPlace(j, r, g) == PlaceOf(r, j.route[g + 1]) - 1

\* How many internal additions are left to find with this use of endpoints.
InternalRequested(j, choice) == j.requested - Cardinality(choice)

\* The uses of the allowed endpoints, the closing one varying fastest.
EndpointChoices(j) ==
  LET closing == IF j.closing = {} THEN <<{}>> ELSE <<{}, {"closing"}>>
      opening == IF j.opening = {} THEN <<{}>> ELSE <<{}, {"opening"}>>
  IN SelectSeq(FlattenSeq([o \in DOMAIN opening |->
                             [c \in DOMAIN closing |-> opening[o] \cup closing[c]]]),
               LAMBDA choice : Cardinality(choice) <= j.requested)

\* The candidates of a gap: the best of the eligible ones for the original
\* route, at least ten times as many as are retained when guidance asks for
\* shares of them.
AcousticLimit(j) ==
  LET baseline == Min({Cardinality(j.eligible), j.shortlist})
  IN Min({Cardinality(j.eligible),
          IF j.targetShares THEN Larger(baseline, 10 * j.candidateLimit) ELSE baseline})

GapCandidates(j) ==
  [g \in Gaps(j) |->
     ShortlistCandidates(j, j.route, g, j.eligible, AcousticLimit(j))]

\* The reference population: the route's own tracks, or the library when they
\* make no distribution.
Measured(j) ==
  LET own == FrozenReference(j, j.route, Elements(j.route))
  IN [j EXCEPT !.reference =
        IF Cardinality(DOMAIN own) >= 2 THEN own
        ELSE FrozenReference(j, j.route, j.eligible \cup Elements(j.route))]

Prepared(j) == [Measured(j) EXCEPT !.candidates = GapCandidates(Measured(j))]

Start(j) == {[route |-> j.route, selections |-> <<>>]}

Init ==
  /\ \E j \in Jobs : job = Prepared(j)
  /\ pc = job.mode
  /\ gap = 1
  /\ route = job.route
  /\ decisions = <<>>
  /\ choices = IF job.mode = "automatic" THEN <<>> ELSE EndpointChoices(job)
  /\ states = Start(job)
  /\ seen = 0
  /\ variants = {}
  /\ outcome = None

-----------------------------------------------------------------------------
\* Automatic bridges.
Added(j, r) == Len(r) - Len(j.route)

DirectObjective(j, g) ==
  LET direct == DirectDistance(j, j.route, g) IN LocalObjective(direct, direct)

Improves(j, g, e) ==
  LocalObjective(e.left + e.right, Larger(e.left, e.right)) < DirectObjective(j, g)

Triggers(j, g) == Percentile(j, DirectDistance(j, j.route, g)) > j.trigger

Decision(g, reason, selected) ==
  [gap |-> g, reason |-> reason, selected |-> selected]

NoEvaluation == [candidate |-> 0]

BudgetSpent(j, r) == Added(j, r) >= j.maximum

AutomaticGap ==
  LET position == RightPlace(job, route, gap)
      matrix == GapContextMatrix(job, route, position)
      ranked == RankForEvolvingRoute(job, matrix, route, position,
                                     job.candidates[gap], "full bridge")
      improving == SelectSeq(ranked, LAMBDA e : e.accepted /\ Improves(job, gap, e))
      Decide(reason) ==
        /\ decisions' = Append(decisions, Decision(gap, reason, NoEvaluation))
        /\ UNCHANGED route
  IN /\ pc = "automatic"
     /\ gap \in Gaps(job)
     /\ gap' = gap + 1
     /\ IF ~Triggers(job, gap) THEN Decide("below-threshold")
        ELSE IF BudgetSpent(job, route) THEN Decide("budget-exhausted")
        ELSE IF job.candidates[gap] = {} THEN Decide("no-eligible-candidate")
        ELSE IF improving # <<>>
        THEN /\ route' = Inserted(route, position, improving[1].candidate)
             /\ decisions' = Append(decisions, Decision(gap, "selected", improving[1]))
        ELSE IF \A k \in DOMAIN ranked : ~ranked[k].repeatSafe
        THEN Decide("repeat-conflict")
        ELSE IF \A k \in DOMAIN ranked : ~ranked[k].accepted
        THEN Decide("acoustic-rejected")
        ELSE Decide("no-improvement")
     /\ UNCHANGED <<job, pc, choices, states, seen, variants, outcome>>

FinishAutomatic ==
  /\ pc = "automatic"
  /\ gap \notin Gaps(job)
  /\ outcome' = [None EXCEPT !.route = route]
  /\ pc' = "done"
  /\ UNCHANGED <<job, gap, route, decisions, choices, states, seen, variants>>

-----------------------------------------------------------------------------
\* The exact-count beam search.
StateKey(j, s) == <<Objective(j, s.route)>> \o s.route

Skipped(s) == [s EXCEPT !.selections = Append(@, <<>>)]

UniqueCandidates(j) == UNION {j.candidates[g] : g \in Gaps(j)}

StructuralUpperBound(j) ==
  Min({Cardinality(Gaps(j)) * j.perGap, Cardinality(UniqueCandidates(j))})

\* States that can no longer reach the count are dropped, unless no state can.
\* Mutant: a state is dropped one gap too early.
MaySkipTooLate(j, s, requested) ==
  LET reachable == Cardinality(Gaps(j)) - Len(s.selections) - 1
  IN Added(j, s.route) + reachable > requested

MaySkip(j, s, requested) ==
  LET reachable == Cardinality(Gaps(j)) - Len(s.selections) - 1
  IN \/ requested > StructuralUpperBound(j)
     \/ Added(j, s.route) + reachable >= requested

\* At most one bridge in gap g.
ExpandSingle(j, s, g, requested) ==
  LET position == RightPlace(j, s.route, g)
      ranked == RankForEvolvingRoute(j, GapContextMatrix(j, s.route, position),
                                     s.route, position, j.candidates[g],
                                     "full bridge")
      accepted == SelectSeq(ranked, LAMBDA e : e.accepted)
      taken == IF Added(j, s.route) >= requested THEN <<>>
               ELSE SubSeq(accepted, 1, Min({Len(accepted), j.candidateLimit}))
  IN {x \in {Skipped(s)} : MaySkip(j, s, requested)} \cup
     {[route |-> Inserted(s.route, position, taken[k].candidate),
       selections |-> Append(s.selections, <<taken[k].candidate>>)] :
        k \in DOMAIN taken}

\* A path of several bridges in gap g, left to right; a path may be left where
\* its last track reaches the right anchor.
PathSteps(j, path, g, matrix) ==
  LET position == RightPlace(j, path.route, g)
      ranked == RankForEvolvingRoute(j, matrix, path.route, position,
                                     j.candidates[g], "reachable from left")
      reachable == SelectSeq(ranked,
                             LAMBDA e : Accepts("reachable from left", j, e))
  IN {[route |-> Inserted(path.route, position, reachable[k].candidate),
       tracks |-> Append(path.tracks, reachable[k].candidate),
       connected |-> reachable[k].accepted] :
        k \in 1..Min({Len(reachable), j.candidateLimit})}

ExpandMulti(j, s, g, requested) ==
  LET matrix == GapContextMatrix(j, s.route, LeftPlace(j, s.route, g))
      depthLimit == Min({SaturatingSub(requested, Added(j, s.route)), j.perGap})
      frontier[depth \in 0..depthLimit] ==
        IF depth = 0
        THEN {[route |-> s.route, tracks |-> <<>>, connected |-> TRUE]}
        ELSE Least(UNION {PathSteps(j, path, g, matrix) : path \in frontier[depth - 1]},
                   j.beamWidth, LAMBDA path : StateKey(j, path))
  IN {[route |-> path.route, selections |-> Append(s.selections, path.tracks)] :
        path \in {p \in UNION {frontier[d] : d \in 0..depthLimit} : p.connected}}

Expand(j, s, g, requested) ==
  IF j.perGap = 1 THEN ExpandSingle(j, s, g, requested)
  ELSE ExpandMulti(j, s, g, requested)

\* The beam keeps the best states of every number of additions.
Pruned(j, expanded) ==
  UNION {Least({s \in expanded : Added(j, s.route) = n}, j.beamWidth,
               LAMBDA s : StateKey(j, s)) :
           n \in {Added(j, s.route) : s \in expanded}}

MostAdded(j, S) == Max({0} \cup {Added(j, s.route) : s \in S})

ExpandGap ==
  /\ pc = "exact"
  /\ choices # <<>>
  /\ gap \in Gaps(job)
  /\ LET expanded == UNION {Expand(job, s, gap, InternalRequested(job, Head(choices))) :
                              s \in states}
     IN /\ states' = Pruned(job, expanded)
        /\ seen' = IF job.perGap = 1 THEN Larger(seen, MostAdded(job, expanded)) ELSE seen
  /\ gap' = gap + 1
  /\ UNCHANGED <<job, pc, route, decisions, choices, variants, outcome>>

-----------------------------------------------------------------------------
\* The last check: every bridge is judged again, the route around it complete.
Without(r, place) == RemoveAt(r, place)

FinalEvaluation(j, r, g, c) ==
  LET place == PlaceOf(r, c)
      rest == Without(r, place)
      matrix == GapContextMatrix(j, rest, LeftPlace(j, rest, g))
  IN EvaluateCandidate(j, matrix, rest, place - 1, c)

\* Mutant: the bridges are only looked up.
FinalExactDecisionsLooked(j, r, selections) ==
  \A g \in DOMAIN selections : Elements(selections[g]) \subseteq Elements(r)

FinalExactDecisions(j, r, selections) ==
  \A g \in DOMAIN selections :
    \A c \in Elements(selections[g]) : FinalEvaluation(j, r, g, c).accepted

\* The best state with the requested number of additions, if there is one.
Matching(j, requested) == {s \in states : Added(j, s.route) = requested}

\* The openings a route may have: the ranked ones, or none.
Openings(j, choice, r) ==
  IF "opening" \in choice
  THEN {e.candidate : e \in Elements(RankEndpointForRoute(j, r, "opening", j.opening))}
  ELSE {0}
Closings(j, choice, r) ==
  IF "closing" \in choice
  THEN {e.candidate : e \in Elements(RankEndpointForRoute(j, r, "closing", j.closing))}
  ELSE {0}

Opened(r, c) == IF c = 0 THEN r ELSE <<c>> \o r
Closed(r, c) == IF c = 0 THEN r ELSE Append(r, c)

\* The endpoints around an internal result; a variant whose bridges do not
\* survive their new context is left out.
EndpointVariants(j, choice, s) ==
  LET all == UNION {{[route |-> Closed(Opened(s.route, o), c),
                      selections |-> s.selections, opening |-> o, closing |-> c] :
                       c \in Closings(j, choice, Opened(s.route, o))} :
                    o \in Openings(j, choice, s.route)}
  IN {v \in all : FinalExactDecisions(j, v.route, v.selections)}

HasEndpoints(j) == j.opening \cup j.closing # {}

\* One search ends: its best state is checked, and the endpoints are put on.
FinishExact ==
  LET choice == Head(choices)
      matching == Matching(job, InternalRequested(job, choice))
      best == Best(matching, LAMBDA s : StateKey(job, s))
      found == IF HasEndpoints(job) THEN EndpointVariants(job, choice, best)
               ELSE {[route |-> best.route, selections |-> best.selections,
                      opening |-> 0, closing |-> 0]}
      most == Larger(seen, MostAdded(job, states))
  IN /\ pc = "exact"
     /\ choices # <<>>
     /\ gap \notin Gaps(job)
     /\ IF matching = {}
        THEN UNCHANGED <<pc, variants>> /\ seen' = most
        ELSE IF job.perGap > 1 /\ ~FinalExactDecisions(job, best.route, best.selections)
        THEN pc' = "rejected late" /\ UNCHANGED <<variants, seen>>
        ELSE /\ variants' = variants \cup found
             /\ seen' = Larger(most, MostAdded(job, found))
             /\ UNCHANGED pc
     /\ choices' = Tail(choices)
     /\ gap' = 1
     /\ states' = Start(job)
     /\ UNCHANGED <<job, route, decisions, outcome>>

SelectVariant ==
  /\ pc = "exact"
  /\ choices = <<>>
  /\ outcome' = IF variants = {} THEN None
                ELSE Best(variants, LAMBDA v : StateKey(job, v))
  /\ pc' = "done"
  /\ UNCHANGED <<job, gap, route, decisions, choices, states, seen, variants>>

Stopped == pc \in {"done", "rejected late"} /\ UNCHANGED vars

SelectionStep ==
  \/ AutomaticGap \/ FinishAutomatic
  \/ ExpandGap \/ FinishExact \/ SelectVariant

Next == SelectionStep \/ Stopped

Spec == Init /\ [][Next]_vars

-----------------------------------------------------------------------------
Generated(j, r) == Elements(r) \ Elements(j.route)

\* Every variable has its type, and no route grows past its budget.
TypeOK ==
  /\ pc \in {"automatic", "exact", "done", "rejected late"}
  /\ gap \in 1..Len(job.route)
  /\ Elements(route) \subseteq DOMAIN job.tracks
  /\ job.mode = "automatic" => Added(job, route) <= job.maximum
  /\ \A s \in states : Added(job, s.route) <= job.requested
  /\ \A k \in DOMAIN decisions : decisions[k].gap \in Gaps(job)
  /\ pc = "exact" => \A s \in states : Len(s.selections) = gap - 1
  /\ seen \in Nat

\* Whatever is returned keeps the original route as it is, repeats no track,
\* and has every addition outside the windows of everything around it, those
\* that were added after it included (insertions are only checked one by one,
\* bridge.rs:337-378).
ResultKeepsRouteAndWindows ==
  (pc = "done" /\ outcome # None) =>
    LET r == outcome.route
    IN /\ SelectSeq(r, LAMBDA t : t \in Elements(job.route)) = job.route
       /\ Cardinality(Elements(r)) = Len(r)
       /\ \A i \in DOMAIN r :
            r[i] \in Generated(job, r) => RepeatSafeAt(job, r, i)

\* An exact result has the requested number of additions, and every bridge in it
\* is acceptable in the final route, not only in the route it was chosen in
\* (the single-bridge search has no final check of its own,
\* preview.rs:2281-2480).
ExactBridgesHoldInFinalRoute ==
  (pc = "done" /\ outcome # None /\ job.mode = "exact") =>
    /\ Added(job, outcome.route) = job.requested
    /\ \A g \in DOMAIN outcome.selections :
         \A c \in Elements(outcome.selections[g]) :
           FinalEvaluation(job, outcome.route, g, c).accepted

\* The evaluations an automatic selection reports were made while the route
\* still grew; they are those of the final route, and each beats the direct
\* transition of its gap (select_automatic_bridges).
AutomaticEvaluationsAreFinal ==
  (pc = "done" /\ job.mode = "automatic") =>
    \A k \in DOMAIN decisions :
      decisions[k].reason = "selected" =>
        LET d == decisions[k]
            final == FinalEvaluation(job, route, d.gap, d.selected.candidate)
        IN /\ final = d.selected
           /\ final.accepted
           /\ Improves(job, d.gap, final)
           /\ Percentile(job, DirectDistance(job, job.route, d.gap)) > job.trigger

\* A search that returns no route names a largest number of additions below
\* the requested one, which the caller reports as what was possible
\* (maximum_additions_found).
ShortfallIsBelowRequest ==
  (pc = "done" /\ job.mode = "exact" /\ outcome = None) => seen < job.requested

\* With a beam and a candidate limit that cut nothing, the single-bridge search
\* returns the best of all acceptable insertions.
Insertions(j) == [Gaps(j) -> UniqueCandidates(j) \cup {0}]
RouteWith(j, choice) ==
  FlattenSeq([i \in DOMAIN j.route |->
    IF i \in Gaps(j) /\ choice[i] # 0 THEN <<j.route[i], choice[i]>> ELSE <<j.route[i]>>])
AcceptableRoutes(j) ==
  {RouteWith(j, choice) :
     choice \in {c \in Insertions(j) :
       /\ Cardinality({g \in Gaps(j) : c[g] # 0}) = j.requested
       /\ \A g \in Gaps(j) : c[g] # 0 => c[g] \in j.candidates[g]
       /\ \A g, h \in Gaps(j) : g # h /\ c[g] # 0 => c[g] # c[h]
       /\ \A g \in Gaps(j) :
            c[g] # 0 => FinalEvaluation(j, RouteWith(j, c), g, c[g]).accepted}}

WideExactSearchIsBest ==
  (/\ pc = "done" /\ job.mode = "exact" /\ job.wide
   /\ job.perGap = 1 /\ ~HasEndpoints(job)) =>
     LET all == AcceptableRoutes(job)
     IN IF all = {} THEN outcome = None
        ELSE outcome.route = Best(all, LAMBDA r : <<Objective(job, r)>> \o r)

\* The search's states are well-formed and a result keeps route and windows.
SelectionSound == TypeOK /\ ResultKeepsRouteAndWindows

\* In either mode the evaluations a result reports hold in the final route, and
\* a search without a result names a number below the requested one.
ReportedBridgesHold ==
  ExactBridgesHoldInFinalRoute /\ AutomaticEvaluationsAreFinal /\ ShortfallIsBelowRequest
=============================================================================
