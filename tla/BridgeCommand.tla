----------------------------- MODULE BridgeCommand -----------------------------
(***************************************************************************)
(* The selection phase of the bridge command (src/src/main.rs): which of   *)
(* the selections runs on a base route, with which budget, and what is     *)
(* proved of its result before it is published.                            *)
(*                                                                         *)
(* command "automatic", "exact_count": one selection of BridgeSelection.   *)
(* "repeat_window_repair", "fixed_gap_count": one plan over all gaps, each *)
(* bridge of which is judged again in the finished route.                  *)
(* "automatic_improvement": a repair, an automatic selection, or both with *)
(* one budget, the selection on the gaps of the repaired route.            *)
(*                                                                         *)
(* The planner is known by what MultiGapPlanner promises of it: it returns *)
(* some sound plan, or none, whatever its beams prune.                     *)
(***************************************************************************)
EXTENDS BridgeSelection

VARIABLES
  stage,    \* where the command is, or how it was refused
  request,  \* the job on the base route; the selection's may have another
  planned   \* the tracks a plan puts into each gap of the base route

commandVars == <<vars, stage, request, planned>>

Refusals ==
  {"anchor conflict", "gap conflict", "not needed", "budget insufficient",
   "insufficient candidates", "no plan"}
LateFailures == {"rejected late", "proof failed"}

RouteRepeatSafe(j, r) == \A i \in DOMAIN r : RepeatSafeAt(j, r, i)

\* Commands that are meant for a base route with repeats.
RepeatsExcused(j) ==
  \/ j.command \in {"fixed_gap_count", "repeat_window_repair"}
  \/ j.command = "automatic_improvement" /\ j.satisfy

Needed(j) == MinimumRepeatSpacing(j.route, j.tracks, j.windows)

\* An improvement that goes to the automatic selection at once.
SmoothingOnly(j) ==
  /\ j.command = "automatic_improvement"
  /\ j.satisfy => (j.smooth /\ Needed(j) = 0)

Spaces(j) ==
  /\ j.command \in {"repeat_window_repair", "automatic_improvement"}
  /\ ~SmoothingOnly(j)

-----------------------------------------------------------------------------
\* The preflight compares source tracks at the greatest distance the bridges
\* can put between them, before the library is even opened.
ProjectedConflict(j, perGap) ==
  \E l, r \in DOMAIN j.route :
    l < r /\ ~PairSafe(j.tracks, j.windows, j.route[l], j.route[r],
                       (r - l) * (perGap + 1))

PreflightFixedGapRepeatBudget(j) ==
  j.command \in {"fixed_gap_count", "exact_count"} => ~ProjectedConflict(j, j.perGap)

\* An order for fixed gaps is searched with windows divided by the step.
ProjectedWindows(j) ==
  [j EXCEPT !.windows.artist = @ \div (j.perGap + 1),
            !.windows.album = @ \div (j.perGap + 1)]

-----------------------------------------------------------------------------
\* The planner's leg: scored in the matrix of the gap its last source track
\* begins, as the base route has it.
PlannedLeg(j, r, position) ==
  LET passed == {g \in Gaps(j) : \E i \in 1..position : r[i] = j.route[g]}
      matrix == GapContextMatrix(j, j.route, Max(passed))
  IN ContextualDistance(j, matrix, Prefix(r, position), r[position + 1])

PlannedRoute(j, p) ==
  <<j.route[1]>> \o FlattenSeq([g \in Gaps(j) |-> Append(p[g], j.route[g + 1])])

Additions(p) == Len(FlattenSeq(p))

\* All ways to put distinct candidates into the gaps.
Fills(j) ==
  LET free(g) == j.candidates[g] \ Elements(j.route)
      lengths == IF j.command = "fixed_gap_count" THEN {j.perGap}
                 ELSE 0..(IF j.command = "exact_count" THEN j.perGap ELSE j.maximum)
      fill(g) == {f \in UNION {[1..n -> free(g)] : n \in lengths} : IsInjective(f)}
  IN {p \in [Gaps(j) -> UNION {fill(g) : g \in Gaps(j)}] :
        /\ \A g \in Gaps(j) : p[g] \in fill(g)
        /\ IsInjective(FlattenSeq(p))
        /\ Spaces(j) => Additions(p) <= j.maximum}

SafeFills(j) ==
  {p \in Fills(j) :
     LET r == PlannedRoute(j, p)
     IN \A i \in DOMAIN r : PositionRepeatSafe(r, j.tracks, j.windows, i)}

\* What the planner may return: plan_fixed_gap_count and
\* plan_repeat_window_repair, whatever their limits.
SoundPlans(j) ==
  {p \in SafeFills(j) :
     LET r == PlannedRoute(j, p)
     IN \A i \in 1..(Len(r) - 1) : Percentile(j, PlannedLeg(j, r, i)) <= j.maxLeg}

\* Mutant: the matrix is that of the finished route.
PlannedEvaluationRematrixed(j, r, g, c) ==
  LET place == PlaceOf(r, c)
      rest == Without(r, place)
  IN EvaluateCandidate(j, GapContextMatrix(j, rest, LeftPlace(j, rest, g)), rest,
                       place - 1, c)

\* Every planned bridge is judged in the finished route, with the matrix its gap
\* has in the base route.
PlannedEvaluation(j, r, g, c) ==
  LET place == PlaceOf(r, c)
  IN EvaluateCandidate(j, GapContextMatrix(j, j.route, g), Without(r, place),
                       place - 1, c)

FinalAcceptance(j) ==
  IF j.command = "fixed_gap_count" THEN "full bridge" ELSE "path legs"

FinalPlannedDecisions(j, p) ==
  \A g \in Gaps(j) : \A c \in Elements(p[g]) :
    Accepts(FinalAcceptance(j), j, PlannedEvaluation(j, PlannedRoute(j, p), g, c))

-----------------------------------------------------------------------------
\* The gaps, candidates and budget of the smoothing that follows a repair; the
\* reference stays that of the base route.
Smoothed(j, r) ==
  LET next == [j EXCEPT !.route = r, !.eligible = @ \ Elements(r),
                        !.maximum = @ - Added(j, r)]
  IN [next EXCEPT !.candidates = GapCandidates(next)]

SmoothsAfter(j, r) ==
  j.command = "automatic_improvement" /\ j.smooth /\ Added(j, r) < j.maximum

UniqueEnough(j) ==
  Cardinality(UniqueCandidates(j)) >=
    IF Spaces(j) THEN Needed(j) ELSE j.perGap * Cardinality(Gaps(j))

\* The independent proof of a finished route.
AcceptanceProof(r) ==
  /\ SelectSeq(r, LAMBDA t : t \in Elements(request.route)) = request.route
  /\ Cardinality(Elements(r)) = Len(r)
  /\ r[1] = request.route[1] /\ Last(r) = Last(request.route)
  /\ job.command = "fixed_gap_count" =>
       \A g \in DOMAIN planned : Len(planned[g]) = job.perGap
  /\ RouteRepeatSafe(job, r)

-----------------------------------------------------------------------------
CommandInit ==
  /\ Init
  /\ stage = "enter"
  /\ request = job
  /\ planned = <<>>

Leave(how) == stage' = how /\ UNCHANGED <<vars, request, planned>>

\* The reasons to refuse a base route, in the order of the code.
Refusal(j) ==
  CASE ~PreflightFixedGapRepeatBudget(j) -> "gap conflict"
    [] ~RepeatsExcused(j) /\ ~RouteRepeatSafe(j, j.route) -> "anchor conflict"
    [] Spaces(j) /\ Needed(j) = 0 ->
         IF j.command = "repeat_window_repair" THEN "not needed" ELSE "finished"
    [] Spaces(j) /\ Needed(j) > j.maximum -> "budget insufficient"
    [] (Spaces(j) \/ j.command = "fixed_gap_count") /\ ~UniqueEnough(j) ->
         "insufficient candidates"
    [] OTHER -> "none"

Plans(j) == Spaces(j) \/ j.command = "fixed_gap_count"

\* An improvement that needs no spacing and wants no smoothing changes nothing.
Refuse ==
  /\ stage = "enter"
  /\ Refusal(job) # "none"
  /\ Leave(Refusal(job))

EnterSelection ==
  /\ stage = "enter"
  /\ Refusal(job) = "none" /\ ~Plans(job)
  /\ Leave("select")

EnterPlanning ==
  /\ stage = "enter"
  /\ Refusal(job) = "none" /\ Plans(job)
  /\ Leave("plan")

NoPlanFound == stage = "plan" /\ Leave("no plan")

\* A plan is found and judged, and an improvement goes on with the gaps of the
\* planned route.
Plan ==
  /\ stage = "plan"
  /\ \E p \in SoundPlans(job) :
       LET r == PlannedRoute(job, p)
       IN /\ planned' = p
          /\ IF ~FinalPlannedDecisions(job, p)
             THEN stage' = "rejected late" /\ UNCHANGED <<job, route>>
             ELSE /\ route' = r
                  /\ IF SmoothsAfter(job, r)
                     THEN job' = Smoothed(job, r) /\ stage' = "select"
                     ELSE stage' = "prove" /\ UNCHANGED job
  /\ UNCHANGED <<pc, gap, decisions, choices, states, seen, variants, outcome, request>>

Select ==
  /\ stage = "select"
  /\ SelectionStep
  /\ UNCHANGED <<request, planned>>
  /\ stage' = CASE pc' = "rejected late" -> pc'
                [] pc' = "done" -> IF job.command = "automatic_improvement"
                                   THEN "prove" ELSE "finished"
                [] OTHER -> "select"

\* A smoothing without spacing is only checked for repeats, everything else for
\* all of the proof.
Prove ==
  /\ stage = "prove"
  /\ Leave(IF \/ planned = <<>> /\ RouteRepeatSafe(job, route)
              \/ planned # <<>> /\ AcceptanceProof(route)
           THEN "finished" ELSE "proof failed")

CommandStopped ==
  stage \in {"finished"} \cup Refusals \cup LateFailures /\ UNCHANGED commandVars

CommandNext ==
  \/ Refuse \/ EnterSelection \/ EnterPlanning
  \/ NoPlanFound \/ Plan \/ Select \/ Prove
  \/ CommandStopped

CommandSpec == CommandInit /\ [][CommandNext]_commandVars

-----------------------------------------------------------------------------
\* The command's own variables have their types.
CommandTypeOK ==
  /\ stage \in {"enter", "plan", "select", "prove", "finished"} \cup
               Refusals \cup LateFailures
  /\ Elements(request.route) \subseteq Elements(job.route)
  /\ planned = <<>> \/ Len(planned) = Len(request.route) - 1

\* A plan that was found is published: the planner accepts the legs that the
\* final decisions of a repair accept, two pieces of code that look for the
\* matrix of a leg in two ways (preview.rs:93-134, 1096-1201), the smoothing
\* that follows undoes nothing of it, and the last proof never finds a fault.
\* Only a plan with a fixed number per gap, or a search with several, may be
\* rejected late, by the detour.
PlansSurviveTheirProof ==
  /\ stage # "proof failed"
  /\ stage = "rejected late" => ~Spaces(request)

\* Spacing and smoothing share one budget, and the result keeps every window,
\* the one for the same track included, between all of its tracks.
BudgetIsShared ==
  (stage = "finished" /\ (planned # <<>> \/ SmoothingOnly(job))) =>
    /\ job.command # "fixed_gap_count" => Added(request, route) <= request.maximum
    /\ \A i \in DOMAIN route :
         PositionRepeatSafe(route, job.tracks, job.windows, i)

\* A request refused for its repeats or its candidates, before anything is
\* scored, has no fill of its gaps that keeps the windows; and a base route is
\* refused for fixed gaps exactly when the search for an order, with its divided
\* windows, would not return it.
RefusalsAreJustified ==
  /\ stage \in {"gap conflict", "budget insufficient", "insufficient candidates"} =>
       SafeFills(job) = {}
  /\ (stage = "enter" /\ job.command = "fixed_gap_count") =>
       (ProjectedConflict(job, job.perGap) <=>
          ~RouteRepeatSafe(ProjectedWindows(job), job.route))

\* The evaluations reported for spacing bridges were made before smoothing; this
\* asks that their legs are still acceptable in the published route.
SpacingLegsHoldAfterSmoothing ==
  (stage = "finished" /\ job.command = "automatic_improvement") =>
    \A g \in DOMAIN planned : \A c \in Elements(planned[g]) :
      LET evaluation ==
            EvaluateCandidate(job, GapContextMatrix(job, request.route, g),
                              Without(route, PlaceOf(route, c)), PlaceOf(route, c) - 1, c)
      IN Accepts("path legs", job, evaluation)

\* The command's part of the selections: what they return is sound, a plan is
\* never lost, the budget is shared and refusals are justified.
CommandSound ==
  /\ SelectionSound /\ CommandTypeOK
  /\ PlansSurviveTheirProof /\ BudgetIsShared /\ RefusalsAreJustified
=============================================================================
