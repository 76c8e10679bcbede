---------------------------- MODULE MultiGapPlanner ----------------------------
(***************************************************************************)
(* Global planning across all gaps of a fixed source route                 *)
(* (src/src/multi_gap.rs).  A beam of partial routes crosses the gaps from *)
(* left to right; each gap is crossed by the anchored path search.  The    *)
(* "exact" policy inserts the same number of tracks into every gap; the    *)
(* "repair" policy tries total budgets from the spacing lower bound upward *)
(* and keeps one beam per total.                                           *)
(*                                                                         *)
(* A planning request is the record                                        *)
(*   [tracks, w, history, source, candidates, distance, policy, perGap,    *)
(*    maxAdded, candidateLimit, beam, alternatives, variation]             *)
(* where candidates[g] maps the candidates of gap g to their guidance      *)
(* adjustment.  As in AnchoredPath a sorted, truncated vector of states is *)
(* a set; progress events and search statistics are left out.              *)
(***************************************************************************)
EXTENDS AnchoredPath

CONSTANTS
  PlanRequests,    \* the planning requests considered
  MaxTracksPerGap  \* MAX_TRACKS_PER_GAP

\* Tracks are numbers, a leg has a length or is unreachable, and every gap has
\* finitely many candidates, each with its guidance adjustment.
IsPlanRequest(req) ==
  /\ req.source \in Seq(Nat) /\ req.history \in Seq(Nat)
  /\ DOMAIN req.candidates = 1..Len(req.candidates)
  /\ \A g \in DOMAIN req.candidates :
       /\ DOMAIN req.candidates[g] \subseteq Nat /\ IsFiniteSet(DOMAIN req.candidates[g])
       /\ req.candidates[g] \in [DOMAIN req.candidates[g] -> Int]
  /\ req.w \in [artist : Nat, album : Nat, track : Nat]
  /\ \A a, b \in DOMAIN req.tracks : req.distance[<<a, b>>] \in Nat \cup {Unreachable}
  /\ req.policy \in {"exact", "repair"}
  /\ req.perGap \in Nat /\ req.maxAdded \in Nat /\ req.candidateLimit \in Nat
  /\ req.beam \in Nat /\ req.alternatives \in Nat /\ req.variation \in Nat

ASSUME PlanRequestsAssumption == \A req \in PlanRequests : IsPlanRequest(req)

VARIABLES
  request,   \* the argument, never changed
  budget,    \* the total additions being tried (repair)
  gap,       \* the gap the beam crosses next
  states,    \* the retained partial routes
  plan,      \* the chosen complete route, or NoPlan
  pc

args == <<request>>
vars == <<request, budget, gap, states, plan, pc>>

NoPlan == [route |-> <<>>]

Gaps(req) == 1..(Len(req.source) - 1)

StateKey(s) == <<s.worst, s.sum, -s.guidance>> \o s.route

-----------------------------------------------------------------------------
TypeOK ==
  /\ request \in PlanRequests
  /\ budget \in 0..request.maxAdded
  /\ gap \in 1..Larger(1, Len(request.source))
  /\ \A s \in states :
       /\ Len(s.gaps) = gap - 1
       /\ Len(s.route) = gap + s.added
  /\ plan = NoPlan \/ plan \in states
  /\ pc \in {"validate", "plan", "done", "failed"}

StartState(req) ==
  [route |-> <<req.source[1]>>, gaps |-> <<>>, added |-> 0,
   sum |-> 0, worst |-> 0, guidance |-> 0]

ValidPlanRequest(req) ==
  /\ Len(req.source) >= 2
  /\ Len(req.candidates) = Len(req.source) - 1
  /\ IF req.policy = "exact" THEN req.perGap \in 1..MaxTracksPerGap
                             ELSE req.maxAdded > 0
  /\ req.candidateLimit > 0 /\ req.beam > 0 /\ req.alternatives > 0
  /\ req.variation <= 100
  /\ Elements(req.source \o req.history)
       \cup UNION {DOMAIN req.candidates[g] : g \in DOMAIN req.candidates}
       \subseteq DOMAIN req.tracks

-----------------------------------------------------------------------------
\* Mutant: the gap's own repeats are reserved for once more.
MinimumFromGap(req, g) ==
  MinimumRepeatSpacing(SubSeq(req.source, g, Len(req.source)), req.tracks, req.w)

\* The additions the members from gap g's right end onward still need.
MinimumAfterGap(req, g) ==
  MinimumRepeatSpacing(SubSeq(req.source, g + 1, Len(req.source)),
                       req.tracks, req.w)

MaxIntermediates(req, total, g, state) ==
  IF req.policy = "exact" THEN req.perGap
  ELSE SaturatingSub(SaturatingSub(total, state.added), MinimumAfterGap(req, g))
\* Mutant: tracks inserted into earlier gaps stay available.
PathRequestReusing(req, total, g, state) ==
  [tracks |-> req.tracks, w |-> req.w, distance |-> req.distance,
   history |-> req.history, prefix |-> state.route,
   unavailable |-> req.source,
   left |-> req.source[g], right |-> req.source[g + 1],
   candidates |-> req.candidates[g], exempt |-> 0,
   max |-> MaxIntermediates(req, total, g, state),
   candidateLimit |-> req.candidateLimit, beam |-> req.beam,
   alternatives |-> req.alternatives, variation |-> 0]

PathRequest(req, total, g, state) ==
  [tracks |-> req.tracks, w |-> req.w, distance |-> req.distance,
   history |-> req.history, prefix |-> state.route,
   unavailable |-> req.source \o state.route,
   left |-> req.source[g], right |-> req.source[g + 1],
   candidates |-> req.candidates[g], exempt |-> 0,
   max |-> MaxIntermediates(req, total, g, state),
   candidateLimit |-> req.candidateLimit, beam |-> req.beam,
   alternatives |-> req.alternatives, variation |-> 0]

Fits(req, total, state, option) ==
  IF req.policy = "exact" THEN Len(option.intermediates) = req.perGap
  ELSE state.added + Len(option.intermediates) <= total
\* Mutant: the bottleneck of the last gap replaces that of the route.
JoinedForgettingWorst(state, option) ==
  [route |-> option.route,
   gaps |-> Append(state.gaps, option.intermediates),
   added |-> state.added + Len(option.intermediates),
   sum |-> state.sum + option.sum,
   worst |-> option.worst,
   guidance |-> state.guidance + option.guidance]

Joined(state, option) ==
  [route |-> option.route,
   gaps |-> Append(state.gaps, option.intermediates),
   added |-> state.added + Len(option.intermediates),
   sum |-> state.sum + option.sum,
   worst |-> Larger(state.worst, option.worst),
   guidance |-> state.guidance + option.guidance]

Expanded(req, total, g, state) ==
  {Joined(state, option) : option \in
     {o \in AnchoredPaths(PathRequest(req, total, g, state)) :
        Fits(req, total, state, o)}}

\* Repair keeps a beam of its own for every number of additions.
Retained(req, total, expanded) ==
  IF req.policy = "exact" THEN Least(expanded, req.beam, StateKey)
  ELSE UNION {Least({s \in expanded : s.added = count}, req.beam, StateKey) :
                count \in 0..total}

-----------------------------------------------------------------------------
Generated(state) == FlattenSeq(state.gaps)

\* The members of a route that belong to S, in the order of the route.
MembersIn(S, route) ==
  LET kept[n \in 0..Len(route)] ==
        IF n = 0 THEN <<>>
        ELSE IF route[n] \in S THEN Append(kept[n - 1], route[n]) ELSE kept[n - 1]
  IN kept[Len(route)]

ShapeValid(req, state) ==
  IF req.policy = "exact"
  THEN /\ Len(state.route) = Len(req.source) + req.perGap * (Len(req.source) - 1)
       /\ \A g \in DOMAIN state.gaps : Len(state.gaps[g]) = req.perGap
  ELSE /\ state.added <= req.maxAdded
       /\ Len(state.route) = Len(req.source) + state.added
       /\ Len(Generated(state)) = state.added

\* The final proof: final_route_valid and repair_final_route_valid.
FinalRouteValid(req, state) ==
  LET sources == Elements(req.source)
      whole == req.history \o state.route
  IN /\ ShapeValid(req, state)
     /\ Len(state.gaps) = Len(req.candidates)
     /\ MembersIn(sources, state.route) = req.source
     /\ Elements(Generated(state)) \cap sources = {}
     /\ IsInjective(Generated(state))
     /\ \A position \in (Len(req.history) + 1)..Len(whole) :
          PositionRepeatSafe(whole, req.tracks, req.w, position)

\* Repair keeps only the least total; with variation, any of the best states
\* may come first in the order of the hashed keys.
SelectionPool(req, valid) ==
  LET least == Min({s.added : s \in valid})
      ranked == IF req.policy = "exact" THEN valid
                ELSE {s \in valid : s.added = least}
      best == CHOOSE b \in ranked : Least(ranked, 1, StateKey) = {b}
      quality == Cardinality({s \in ranked : /\ 100 * s.worst <= 102 * best.worst
                                             /\ 100 * s.sum <= 105 * best.sum})
  IN Least(ranked,
                IF req.variation = 0 THEN 1
                ELSE 1 + ((quality - 1) * req.variation) \div 100,
                StateKey)

-----------------------------------------------------------------------------
Init ==
  /\ request \in PlanRequests
  /\ budget = 0
  /\ gap = 1
  /\ states = {}
  /\ plan = NoPlan
  /\ pc = "validate"

Fail ==
  /\ pc' = "failed"
  /\ UNCHANGED <<budget, gap, states>>

Attempt(total) ==
  /\ budget' = total
  /\ gap' = 1
  /\ states' = {StartState(request)}
  /\ pc' = "plan"
\* Mutant: the budgets start one above the lower bound.
BeginAboveMinimum ==
  LET total == IF request.policy = "exact" THEN 0
               ELSE MinimumRepeatSpacing(request.source, request.tracks, request.w) + 1
  IN /\ pc = "validate"
     /\ IF ValidPlanRequest(request) /\ total <= request.maxAdded
        THEN Attempt(total) ELSE Fail
     /\ UNCHANGED <<args, plan>>

Begin ==
  LET total == IF request.policy = "exact" THEN 0
               ELSE MinimumRepeatSpacing(request.source, request.tracks, request.w)
  IN /\ pc = "validate"
     /\ IF ValidPlanRequest(request) /\ total <= request.maxAdded
        THEN Attempt(total) ELSE Fail
     /\ UNCHANGED <<args, plan>>

\* No state is left: repair goes on to the next budget, exact planning fails.
NoCompleteRoute ==
  /\ IF request.policy = "repair" /\ budget < request.maxAdded
     THEN Attempt(budget + 1)
     ELSE Fail
  /\ UNCHANGED <<args, plan>>

\* The inner search turns down a gap whose two anchors are the same track; the
\* whole plan then fails, whatever budget is left.
RejectGap ==
  /\ pc = "plan"
  /\ gap \in Gaps(request)
  /\ \E s \in states : ~ValidRequest(PathRequest(request, budget, gap, s))
  /\ Fail
  /\ UNCHANGED <<args, plan>>

CrossGap ==
  LET expanded == UNION {Expanded(request, budget, gap, s) : s \in states}
      retained == Retained(request, budget, expanded)
  IN /\ pc = "plan"
     /\ gap \in Gaps(request)
     /\ \A s \in states : ValidRequest(PathRequest(request, budget, gap, s))
     /\ \/ /\ retained = {}
           /\ NoCompleteRoute
        \/ /\ retained # {}
           /\ states' = retained
           /\ gap' = gap + 1
           /\ UNCHANGED <<args, budget, plan, pc>>

Prove ==
  LET valid == {s \in states : FinalRouteValid(request, s)}
  IN /\ pc = "plan"
     /\ gap \notin Gaps(request)
     /\ \/ /\ valid = {}
           /\ NoCompleteRoute
        \/ /\ valid # {}
           /\ plan' \in SelectionPool(request, valid)
           /\ states' = valid
           /\ pc' = "done"
           /\ UNCHANGED <<args, budget, gap>>

Next == Begin \/ RejectGap \/ CrossGap \/ Prove

Spec == Init /\ [][Next]_vars

-----------------------------------------------------------------------------
(***************************************************************************)
(* The reference: every way to fill the gaps of the source route, judged   *)
(* pair by pair on the finished route.                                     *)
(***************************************************************************)
GapFills(req, g) ==
  LET free == DOMAIN req.candidates[g] \ Elements(req.source)
      most == IF req.policy = "exact" THEN req.perGap
              ELSE Min({req.maxAdded, Cardinality(free)})
      least == IF req.policy = "exact" THEN req.perGap ELSE 0
  IN {fill \in UNION {[1..n -> free] : n \in least..most} : IsInjective(fill)}

Fillings(req) ==
  {f \in [Gaps(req) -> UNION {GapFills(req, g) : g \in Gaps(req)}] :
     /\ \A g \in Gaps(req) : f[g] \in GapFills(req, g)
     /\ IsInjective(FlattenSeq(f))
     /\ req.policy = "repair" => Len(FlattenSeq(f)) <= req.maxAdded}

RouteOf(req, f) ==
  <<req.source[1]>> \o
  FlattenSeq([g \in Gaps(req) |-> Append(f[g], req.source[g + 1])])

\* Repeats inside the history are tolerated, all others are not.
RouteSafe(req, route) ==
  LET whole == req.history \o route
  IN \A j \in (Len(req.history) + 1)..Len(whole) :
       \A i \in 1..(j - 1) :
         PairSafe(req.tracks, req.w, whole[i], whole[j], j - i)

RouteLegs(req, route) ==
  [i \in 1..(Len(route) - 1) |-> req.distance[<<route[i], route[i + 1]>>]]

\* The adjustments of the tracks inserted into a gap, added up.
GapGuidance(req, g, fill) == Total([i \in DOMAIN fill |-> req.candidates[g][fill[i]]])

PlanOf(req, f) ==
  LET legs == RouteLegs(req, RouteOf(req, f))
  IN [route |-> RouteOf(req, f), gaps |-> f, added |-> Len(FlattenSeq(f)),
      sum |-> Total(legs), worst |-> Max(Range(legs)),
      guidance |-> Total([g \in Gaps(req) |-> GapGuidance(req, g, f[g])])]

GoodPlans(req) ==
  {PlanOf(req, f) : f \in
     {h \in Fillings(req) :
        /\ RouteSafe(req, RouteOf(req, h))
        /\ Unreachable \notin Range(RouteLegs(req, RouteOf(req, h)))}}

BestPlans(req) ==
  LET good == GoodPlans(req)
      least == Min({p.added : p \in good})
  IN Least({p \in good : p.added = least}, 1, StateKey)

\* Whatever the beams prune, a returned plan fills the gaps of the untouched
\* source route with distinct candidates of those gaps, respects every repeat
\* window against the history and inside the route, and carries the sum,
\* bottleneck and guidance of exactly that route.
PlanSound == pc = "done" => plan \in GoodPlans(request)

FirstTrackSafe(req) ==
  LET whole == Append(req.history, req.source[1])
  IN PositionRepeatSafe(whole, req.tracks, req.w, Len(whole))

\* Gap by gap checking is complete: a route that crossed all gaps can fail the
\* final proof only because its first track repeats the immutable history, in
\* which case every route fails it and no budget helps.
OnlyFirstTrackFailsLate ==
  (pc = "plan" /\ gap \notin Gaps(request)) =>
    \A s \in states :
      FinalRouteValid(request, s) <=> FirstTrackSafe(request)

\* The ways to fill a gap up to the limit of the policy, the unfinished ones too.
OpenFills(req, g) ==
  LET free == DOMAIN req.candidates[g] \ Elements(req.source)
      most == Min({IF req.policy = "exact" THEN req.perGap ELSE req.maxAdded,
                   Cardinality(free)})
  IN {fill \in UNION {[1..n -> free] : n \in 0..most} : IsInjective(fill)}

\* The ways to cross the first g gaps, the last of them perhaps unfinished.
Crossings(req, g) ==
  {f \in [1..g -> UNION {OpenFills(req, k) : k \in 1..g}] :
     /\ \A k \in 1..(g - 1) : f[k] \in GapFills(req, k)
     /\ f[g] \in OpenFills(req, g)
     /\ IsInjective(FlattenSeq(f))
     /\ req.policy = "repair" => Len(FlattenSeq(f)) <= req.maxAdded}

\* Neither a beam nor a list of options has to drop anything.
WidePlan(req) ==
  \A g \in Gaps(req) :
    /\ req.candidateLimit >= Cardinality(DOMAIN req.candidates[g])
    /\ req.beam >= Cardinality(Crossings(req, g))
    /\ req.alternatives >= Cardinality(Crossings(req, g))

NoEqualNeighbours(req) ==
  \A g \in Gaps(req) : req.source[g] # req.source[g + 1]

\* A repair does not leave part of the budget it succeeds with, since all smaller
\* budgets have failed.
BudgetIsSpent ==
  (pc = "done" /\ request.policy = "repair") => plan.added = budget

\* With limits wide enough to keep everything this holds; with a narrow beam it
\* does not, although there is a beam for every number of additions: a state the
\* smaller budget could not afford may push another out of the beam, and with it
\* the one that stood in the way of the plan.
RepairSpendsItsBudget == WidePlan(request) => BudgetIsSpent

\* With limits wide enough to keep everything, planning is exact: it fails only
\* when no plan exists, uses the least number of additions, and returns the best
\* plan of that size; neither the lower bound the budgets start from nor the
\* additions reserved for later gaps ever cut the best plan off.
WidePlanIsBest ==
  (pc \in {"done", "failed"} /\ ValidPlanRequest(request) /\ WidePlan(request)
     /\ NoEqualNeighbours(request)) =>
    IF GoodPlans(request) = {} THEN pc = "failed"
    ELSE /\ pc = "done"
         /\ request.variation = 0 => plan \in BestPlans(request)
         /\ \A best \in BestPlans(request) : plan.added = best.added

\* The planner's states are well-formed and a returned plan is sound.
PlannerSound == TypeOK /\ PlanSound
=============================================================================
