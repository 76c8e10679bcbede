---------------------------- MODULE DestinationRoute ----------------------------
(***************************************************************************)
(* Destination routes: from a locked start into an immutable block of      *)
(* tracks and, optionally, back to a locked rejoin track, with generated   *)
(* tracks only in front of and behind the block (preflight, validation and *)
(* choice in src/src/main.rs, search in src/src/preview.rs).               *)
(*                                                                         *)
(* A job is a request with its data:                                       *)
(*   [tracks, w, history, source, start, destination, block, rejoin, mode, *)
(*    count, minimum, maximum, caution, trigger, eligible, shortlist,      *)
(*    candidateLimit, beam, guidance, models, reference]                   *)
(* where `block` may be empty (then `destination` is the block), `models`  *)
(* is the sequence of different distance functions, the governing one      *)
(* first, and absent numbers are NotGiven.  A job's candidates are those   *)
(* of the two boundaries.  Percentiles and the trigger are hundredths.     *)
(* Variation is off; the return searches of the outward options run in     *)
(* parallel and end in any order.                                          *)
(***************************************************************************)
EXTENDS AnchoredPath

CONSTANTS
  Jobs,                \* the requests considered
  MaxTracksPerGap      \* MAX_EXACT_TRACKS_PER_GAP

VARIABLES
  job,
  pc,
  direct,    \* the options of the search without additions (automatic mode)
  pending,   \* outward options whose return search has not ended
  found,     \* complete options found so far
  options,   \* the best option of every count, in order of the counts
  fallback,  \* the best-effort choice so far
  outcome    \* the chosen option
vars == <<job, pc, direct, pending, found, options, fallback, outcome>>

Absent == 0
NotGiven == -1
NoOption == [route |-> <<>>]
Given(number, default) == IF number = NotGiven THEN default ELSE number

\* What a job consists of; nothing here says that the request is valid.
IsJob(j) ==
  /\ j.history \in Seq(Nat) /\ j.source \in Seq(Nat) /\ j.block \in Seq(Nat)
  /\ j.start \in Nat /\ j.destination \in Nat /\ j.rejoin \in Nat
  /\ j.w \in [artist : Nat, album : Nat, track : Nat]
  /\ j.eligible \subseteq Nat /\ IsFiniteSet(j.eligible)
  /\ Elements(j.history) \cup Elements(j.source) \cup j.eligible \subseteq DOMAIN j.tracks
  /\ \A c \in j.eligible : j.guidance[c] \in Int
  /\ Len(j.models) \in Nat /\ DOMAIN j.models = 1..Len(j.models) /\ Len(j.models) >= 1
  /\ \A m \in DOMAIN j.models : \A a, b \in DOMAIN j.tracks :
       j.models[m][<<a, b>>] \in Nat \cup {Unreachable}
  /\ {j.count, j.minimum, j.maximum} \subseteq Nat \cup {NotGiven}
  /\ j.candidateLimit \in Nat \ {0} /\ j.beam \in Nat \ {0} /\ j.shortlist \in Nat
  /\ j.trigger \in Int /\ IsFiniteSet(j.reference)

ASSUME JobsAssumption == \A j \in Jobs : IsJob(j)

Position(s, x) == CHOOSE i \in DOMAIN s : s[i] = x /\ \A k \in 1..(i - 1) : s[k] # x

-----------------------------------------------------------------------------
\* The anchors.
Block(j) == IF j.block = <<>> THEN <<j.destination>> ELSE j.block
Rejoins(j) == j.rejoin # Absent
StartPosition(j) == Position(j.source, j.start)
FirstPosition(j) == Position(j.source, j.destination)
LastPosition(j) == FirstPosition(j) + Len(Block(j)) - 1

\* validation: start, block and rejoin are the last source tracks, in order.
AnchorsValid(j) ==
  /\ {j.start} \cup Elements(Block(j)) \subseteq Elements(j.source)
  /\ Head(Block(j)) = j.destination
  /\ \A i \in DOMAIN Block(j) :
       Position(j.source, Block(j)[i]) = FirstPosition(j) + i - 1
  /\ FirstPosition(j) = StartPosition(j) + 1
  /\ IF Rejoins(j)
     THEN /\ j.rejoin \in Elements(j.source)
          /\ Position(j.source, j.rejoin) = LastPosition(j) + 1
          /\ Position(j.source, j.rejoin) = Len(j.source)
     ELSE LastPosition(j) = Len(j.source)

Valid(j) ==
  /\ j.mode \in {"automatic", "exact"}
  /\ j.caution \in {"absent", "normal", "cautious"}
  /\ j.mode = "exact" => j.caution = "absent" /\ j.minimum = NotGiven
  /\ AnchorsValid(j)
  /\ Given(j.maximum, 0) <= MaxTracksPerGap
  /\ Given(j.minimum, 0) <= Given(j.maximum, 0)
  /\ j.mode = "exact" => Given(j.count, 0) <= Given(j.maximum, 0)
  \* the search's own settings
  /\ j.maximum # NotGiven
  /\ j.mode = "exact" => j.count # NotGiven

-----------------------------------------------------------------------------
\* The preflight: how many intermediates the fixed tracks need at least.
MinimumAfterConflict(position, length, window) ==
  SaturatingSub(window + 1, length - position + 1)

\* Mutant: a conflict at the very edge of the window is overlooked.
RepeatRequirementTooWide(j, before, track) ==
  Max({0} \cup {MinimumAfterConflict(i, Len(before),
                  RequiredWindow(j.tracks, j.w, before[i], track)) + 1 :
                  i \in {k \in DOMAIN before :
                           RequiredWindow(j.tracks, j.w, before[k], track) > 0}})

RepeatRequirement(j, before, track) ==
  Max({0} \cup {MinimumAfterConflict(i, Len(before),
                  RequiredWindow(j.tracks, j.w, before[i], track)) :
                  i \in {k \in DOMAIN before :
                           RequiredWindow(j.tracks, j.w, before[k], track) > 0}})

\* The preflight looks at requests of the expected shape only.
PreflightJudges(j) ==
  LET last == FirstPosition(j) + Larger(1, Len(j.block)) - 1
  IN /\ {j.start, j.destination} \subseteq Elements(j.source)
     /\ StartPosition(j) + 1 = FirstPosition(j)
     /\ last <= Len(j.source)
     /\ \A i \in DOMAIN j.block : j.block[i] = j.source[FirstPosition(j) + i - 1]
     /\ IF Rejoins(j)
        THEN /\ j.rejoin \in Elements(j.source)
             /\ Position(j.source, j.rejoin) = last + 1
             /\ last + 1 = Len(j.source)
        ELSE last = Len(j.source)

OutwardMinimum(j) ==
  LET before == j.history \o SubSeq(j.source, 1, StartPosition(j))
  IN Max({SaturatingSub(RepeatRequirement(j, before, Block(j)[i]), i - 1) :
            i \in DOMAIN Block(j)})

ReturnMinimum(j) ==
  IF ~Rejoins(j) THEN 0
  ELSE Max({SaturatingSub(RepeatRequirement(j, <<Block(j)[i]>>, j.rejoin),
                          Len(Block(j)) - i) : i \in DOMAIN Block(j)})

PreflightBudget(j) == Given(IF j.mode = "exact" THEN j.count ELSE j.maximum, 0)

PreflightRejects(j) ==
  PreflightJudges(j) /\ OutwardMinimum(j) + ReturnMinimum(j) > PreflightBudget(j)

-----------------------------------------------------------------------------
\* The candidates of a boundary: those near its left end, those near its right
\* end, and then those near both.
Governing(j, left, right) == j.models[1][<<left, right>>]

DestinationPrefilter(j, left, right, limit) ==
  LET quota == Min({Larger(limit \div 4, 1), Cardinality(j.eligible)})
      ends == Least(j.eligible, quota, LAMBDA c : <<Governing(j, left, c), c>>)
              \cup Least(j.eligible, quota, LAMBDA c : <<Governing(j, c, right), c>>)
      middle == Least(j.eligible \ ends, SaturatingSub(limit, Cardinality(ends)),
                      LAMBDA c : <<Larger(Governing(j, left, c), Governing(j, c, right)),
                                   Governing(j, left, c) + Governing(j, c, right), c>>)
  IN IF Cardinality(j.eligible) <= limit THEN j.eligible ELSE ends \cup middle

BoundaryCandidates(j, left, right) ==
  [c \in DestinationPrefilter(j, left, right, j.shortlist) |-> j.guidance[c]]

-----------------------------------------------------------------------------
\* One boundary is a path search between anchors.
SearchRequest(j, prefix, right, unavailable, exempt, max) ==
  [tracks |-> j.tracks, w |-> j.w, history |-> j.history, prefix |-> prefix,
   unavailable |-> unavailable, left |-> Last(prefix), right |-> right,
   candidates |-> BoundaryCandidates(j, Last(prefix), right),
   distance |-> j.models[1], exempt |-> exempt, max |-> max,
   candidateLimit |-> j.candidateLimit, beam |-> j.beam, alternatives |-> 1,
   variation |-> 0]

\* What the search of a boundary ends with: every bridge is judged again in the
\* route it is part of, by its repeats only, since all acoustic limits are off.
FinalDecisionsHold(j, route, bridges) ==
  \A c \in bridges :
    /\ Cardinality({i \in DOMAIN route : route[i] = c}) = 1
    /\ RepeatWindowsSafeAt(route, j.tracks, j.w, Position(route, c))

AllFinal(j, S) == \A o \in S : FinalDecisionsHold(j, o.route, Elements(o.intermediates))

Outward(j, maximum) ==
  AnchoredPaths(SearchRequest(j, SubSeq(j.source, 1, StartPosition(j)),
                                   Head(Block(j)), j.source, 0, maximum))

WithBlock(j, outward) == outward.route \o Tail(Block(j))

\* The return search shares the budget and may not use the outward tracks; the
\* context up to the start is not compared with the rejoin track.
Returning(j, maximum, outward) ==
  AnchoredPaths(
    SearchRequest(j, WithBlock(j, outward), j.rejoin, j.source \o outward.route,
                  Len(j.history) + StartPosition(j),
                  SaturatingSub(maximum, Len(outward.intermediates))))

\* Every generated track is apart from everything, what was heard included.
GeneratedRepeatSafe(j, route) ==
  LET whole == j.history \o route
  IN \A i \in (Len(j.history) + 1)..Len(whole) :
       whole[i] \notin Elements(j.source) =>
         PositionRepeatSafe(whole, j.tracks, j.w, i)

\* Mutant: what was heard is forgotten.
BlockContextSafeInRoute(j, route) ==
  LET before == SubSeq(route, 1, Position(route, j.destination) - 1)
  IN \A b \in DOMAIN Block(j), i \in DOMAIN before :
       PairSafe(j.tracks, j.w, before[i], Block(j)[b], Len(before) - i + b)

\* Mutant: distances one too small.
BlockContextSafeTooNear(j, route) ==
  LET before == j.history \o SubSeq(route, 1, Position(route, j.destination) - 1)
  IN \A b \in DOMAIN Block(j), i \in DOMAIN before :
       PairSafe(j.tracks, j.w, before[i], Block(j)[b], Len(before) - i + b - 1)

\* The block is apart from all that is before it.
BlockContextSafe(j, route) ==
  LET before == j.history \o SubSeq(route, 1, Position(route, j.destination) - 1)
  IN \A b \in DOMAIN Block(j), i \in DOMAIN before :
       PairSafe(j.tracks, j.w, before[i], Block(j)[b], Len(before) - i + b)

\* The edges that were routed: from the start to the block, and back.
EdgesBetween(route, a, b) == [i \in 1..(b - a) |-> <<route[a + i - 1], route[a + i]>>]

BoundaryEdges(j, route) ==
  EdgesBetween(route, Position(route, j.start), Position(route, j.destination)) \o
  IF Rejoins(j)
  THEN EdgesBetween(route, Position(route, Last(Block(j))), Position(route, j.rejoin))
  ELSE <<>>

CompleteOption(j, route, count) ==
  LET edges == BoundaryEdges(j, route)
      legs == [i \in DOMAIN edges |-> j.models[1][edges[i]]]
  IN [route |-> route, count |-> count, sum |-> Total(legs),
      worst |-> Max({0} \cup Elements(legs))]

Bridges(j, route) == Elements(route) \ Elements(j.source)

\* What one outward option contributes.
Combined(j, maximum, outward) ==
  LET returns == IF Rejoins(j)
                 THEN {[route |-> r.route,
                        count |-> Len(outward.intermediates) + Len(r.intermediates)] :
                         r \in Returning(j, maximum, outward)}
                 ELSE {[route |-> WithBlock(j, outward),
                        count |-> Len(outward.intermediates)]}
  IN {CompleteOption(j, o.route, o.count) :
        o \in {r \in returns : GeneratedRepeatSafe(j, r.route)
                               /\ BlockContextSafe(j, r.route)}}

CombinedIsFinal(j, maximum, outward) ==
  /\ Rejoins(j) => AllFinal(j, Returning(j, maximum, outward))
  /\ \A o \in Combined(j, maximum, outward) :
       FinalDecisionsHold(j, o.route, Bridges(j, o.route))

OptionKey(o) == <<o.worst, o.sum>> \o o.route

BestByCount(S) ==
  Sorted({Best({o \in S : o.count = n}, OptionKey) : n \in {o.count : o \in S}},
         LAMBDA o : <<o.count>>)

DestinationOptions(j, maximum) ==
  BestByCount(UNION {Combined(j, maximum, o) : o \in Outward(j, maximum)})

-----------------------------------------------------------------------------
\* How good a route is: the percentiles of its edges among the distances from
\* their left tracks, under the governing model or under all models.
EdgePercentile(j, model, e) ==
  LET population == j.reference \ {e[1]}
      below == Cardinality({c \in population : model[<<e[1], c>>] < model[<<e[1], e[2]>>]})
  IN Min({100, (100 * below) \div Larger(1, Cardinality(population) - 1)})

WorstPercentile(j, model, route) ==
  Max({EdgePercentile(j, model, e) : e \in Elements(BoundaryEdges(j, route))})

Cautious(j) == j.caution = "cautious"

Quality(j, route) ==
  LET judged == IF Cautious(j) THEN Len(j.models) ELSE 1
      percentiles == [m \in 1..judged |-> WorstPercentile(j, j.models[m], route)]
  IN [worst |-> Max(Elements(percentiles)), sum |-> Total(percentiles),
      transition |-> CompleteOption(j, route, 0).worst]

DisagreementThreshold == 25
MinimumImprovement == 1

DisagreementTriggersSearch(j) ==
  /\ Cautious(j)
  /\ \E m \in DOMAIN j.models :
       Gap(WorstPercentile(j, j.models[1], j.source),
           WorstPercentile(j, j.models[m], j.source)) >= DisagreementThreshold

BetterQuality(candidate, candidateCount, incumbent, incumbentCount) ==
  LexBefore(<<candidate.worst, candidate.sum, candidate.transition, candidateCount>>,
            <<incumbent.worst, incumbent.sum, incumbent.transition, incumbentCount>>)

\* Mutant: the direct route has no advantage.
BetterBestEffortAlways(j, candidate, candidateCount, incumbent, incumbentCount) ==
  BetterQuality(candidate, candidateCount, incumbent, incumbentCount)

BetterBestEffort(j, candidate, candidateCount, incumbent, incumbentCount) ==
  /\ (Cautious(j) /\ incumbentCount = 0 /\ candidateCount > 0) =>
       candidate.worst <= incumbent.worst - MinimumImprovement
  /\ BetterQuality(candidate, candidateCount, incumbent, incumbentCount)

-----------------------------------------------------------------------------
Init ==
  /\ job \in Jobs
  /\ pc = "preflight"
  /\ direct = <<>>
  /\ pending = {}
  /\ found = {}
  /\ options = <<>>
  /\ fallback = NoOption
  /\ outcome = NoOption

Idle == UNCHANGED <<job, direct, pending, found, options, fallback, outcome>>

Preflight ==
  /\ pc = "preflight"
  /\ pc' = IF PreflightRejects(job) THEN "unsatisfiable" ELSE "validate"
  /\ Idle

Validate ==
  /\ pc = "validate"
  /\ pc' = IF ~Valid(job) THEN "invalid"
           ELSE IF job.mode = "automatic" THEN "direct" ELSE "outward"
  /\ Idle

Maximum == IF job.mode = "automatic" THEN job.maximum ELSE job.count
Minimum == Given(job.minimum, 0)

\* The direct route is taken at once when it is good enough and nobody objects.
Direct ==
  /\ pc = "direct"
  /\ direct' = DestinationOptions(job, 0)
  /\ IF /\ direct' # <<>>
        /\ Minimum = 0
        /\ Quality(job, job.source).worst <= job.trigger
        /\ ~DisagreementTriggersSearch(job)
     THEN outcome' = direct'[1] /\ pc' = "done"
     ELSE pc' = "outward" /\ UNCHANGED outcome
  /\ UNCHANGED <<job, pending, found, options, fallback>>

SearchOutward ==
  /\ pc = "outward"
  /\ LET outward == Outward(job, Maximum)
     IN IF AllFinal(job, outward)
        THEN pending' = outward /\ pc' = "return"
        ELSE pc' = "failed" /\ UNCHANGED pending
  /\ UNCHANGED <<job, direct, found, options, fallback, outcome>>

SearchReturn(outward) ==
  /\ pc = "return"
  /\ outward \in pending
  /\ pending' = pending \ {outward}
  /\ IF CombinedIsFinal(job, Maximum, outward)
     THEN found' = found \cup Combined(job, Maximum, outward) /\ UNCHANGED pc
     ELSE pc' = "failed" /\ UNCHANGED found
  /\ UNCHANGED <<job, direct, options, fallback, outcome>>

\* The direct route is the best effort to begin with, when it is permitted.
SearchedDirect(sorted) ==
  IF sorted # <<>> /\ sorted[1].count = 0 THEN <<sorted[1]>> ELSE direct

\* The direct route is not compared with itself.
IsRival(o) == o.count >= Larger(1, Minimum)

Collect ==
  /\ pc = "return"
  /\ pending = {}
  /\ options' = BestByCount({o \in found : job.mode = "exact" \/ IsRival(o)})
  /\ fallback' = IF job.mode = "automatic" /\ Minimum = 0
                    /\ SearchedDirect(BestByCount(found)) # <<>>
                 THEN SearchedDirect(BestByCount(found))[1] ELSE NoOption
  /\ pc' = "compare"
  /\ UNCHANGED <<job, direct, pending, found, outcome>>

\* Exact: the option with the count asked for, if there is one.
ChooseExact ==
  /\ pc = "compare"
  /\ job.mode = "exact"
  /\ LET asked == {o \in Elements(options) : o.count = job.count}
     IN outcome' = IF asked = {} THEN NoOption ELSE CHOOSE o \in asked : TRUE
  /\ pc' = "done"
  /\ UNCHANGED <<job, direct, pending, found, options, fallback>>

\* Automatic: the first option that meets the target, by increasing count.
CompareOption ==
  /\ pc = "compare"
  /\ job.mode = "automatic"
  /\ options # <<>>
  /\ LET option == Head(options)
         quality == Quality(job, option.route)
     IN /\ fallback' =
             IF \/ fallback = NoOption
                \/ BetterBestEffort(job, quality, option.count,
                                    Quality(job, fallback.route), fallback.count)
             THEN option ELSE fallback
        /\ IF quality.worst <= job.trigger
           THEN outcome' = option /\ pc' = "done"
           ELSE UNCHANGED <<outcome, pc>>
  /\ options' = Tail(options)
  /\ UNCHANGED <<job, direct, pending, found>>

\* No option is left: the best effort, or none.
ChooseFallback ==
  /\ pc = "compare"
  /\ job.mode = "automatic"
  /\ options = <<>>
  /\ outcome' = fallback
  /\ pc' = IF fallback = NoOption THEN "not found" ELSE "done"
  /\ UNCHANGED <<job, direct, pending, found, options, fallback>>

Stopped ==
  /\ pc \in {"unsatisfiable", "invalid", "failed", "not found", "done"}
  /\ UNCHANGED vars

Next ==
  \/ Preflight \/ Validate \/ Direct \/ SearchOutward
  \/ \E outward \in pending : SearchReturn(outward)
  \/ Collect \/ ChooseExact \/ CompareOption \/ ChooseFallback
  \/ Stopped

Spec == Init /\ [][Next]_vars

-----------------------------------------------------------------------------
(***************************************************************************)
(* The reference: every route that puts different eligible tracks in front *)
(* of and behind the block, judged pair by pair.                           *)
(***************************************************************************)
Injections(S, n) == {s \in [1..n -> S] : IsInjective(s)}

\* All ways to spend exactly n tracks.
Spendings(j, n) ==
  {s \in Injections(j.eligible \ Elements(j.source), n) \X (0..n) : ~Rejoins(j) => s[2] = n}

RouteOf(j, spending) ==
  LET generated == spending[1] out == spending[2]
  IN SubSeq(j.source, 1, StartPosition(j)) \o SubSeq(generated, 1, out) \o Block(j)
     \o SubSeq(generated, out + 1, Len(generated))
     \o (IF Rejoins(j) THEN <<j.rejoin>> ELSE <<>>)

PairsApart(j, whole, Relevant(_, _)) ==
  \A b \in DOMAIN whole : \A a \in 1..(b - 1) :
    Relevant(a, b) => PairSafe(j.tracks, j.w, whole[a], whole[b], b - a)

GeneratedApart(j, route) ==
  LET whole == j.history \o route
      New(i) == i > Len(j.history) /\ whole[i] \notin Elements(j.source)
  IN PairsApart(j, whole, LAMBDA a, b : New(a) \/ New(b))

AnchorsApart(j, route) ==
  LET whole == j.history \o route
      context == Len(j.history) + StartPosition(j)
      first == Len(j.history) + Position(route, j.destination)
      block == first..(first + Len(Block(j)) - 1)
  IN PairsApart(j, whole, LAMBDA a, b :
       \/ b \in block /\ a < first
       \/ b = Len(whole) /\ Rejoins(j) /\ a > context)

Permitted(j) ==
  IF j.mode = "exact" THEN {j.count} ELSE Given(j.minimum, 0)..j.maximum

GoodRoutes(j, n) ==
  {r \in {RouteOf(j, s) : s \in Spendings(j, n)} :
     GeneratedApart(j, r) /\ AnchorsApart(j, r)}

\* Every variable has its type, and no option has spent more than the budget.
TypeOK ==
  /\ pc \in {"preflight", "validate", "direct", "outward", "return", "compare",
             "unsatisfiable", "invalid", "failed", "not found", "done"}
  /\ \A o \in found :
       o.count \in 0..Maximum /\ Len(o.route) = Len(job.source) + o.count
  /\ \A k \in DOMAIN options : options[k] \in found
  /\ \A o \in pending : o.route # <<>>

\* The preflight turns a request down only when no route within its budget
\* satisfies the windows, whichever tracks are used (its arithmetic,
\* main.rs:411-551, knows the fixed tracks and the budget only).
RejectedIsInfeasible ==
  (pc = "unsatisfiable" /\ Valid(job)) =>
    \A n \in Permitted(job) : GoodRoutes(job, n) = {}

\* No request gets to the search without having been judged by the preflight:
\* the shapes it passes over are those the command turns down later
\* (main.rs:413-501 and 7690-7847 describe the same shape twice).
SearchedIsJudged ==
  pc \notin {"preflight", "validate", "unsatisfiable", "invalid"} =>
    PreflightJudges(job) /\ ~PreflightRejects(job)

\* A chosen route is one of the reference's routes with a permitted count; the
\* tracks generated on the way back are apart from those of the way out although
\* the two searches know different parts of the route (preview.rs:1555-1862).
OutcomeIsSafe ==
  (pc = "done" /\ outcome # NoOption) =>
    /\ outcome.count \in Permitted(job)
    /\ outcome.route \in GoodRoutes(job, outcome.count)

\* The final decisions inside the searches never fail: an error there would end
\* the whole command although other counts may have a route.
NeverFailsLate == pc # "failed"

\* An automatic route meets the target with the fewest permitted additions of
\* all the options, or is a best effort: none of the options meets it, none is
\* better, and a cautious request gives the direct route up only for a gain.
Candidates == BestByCount(found)
AutomaticOutcome ==
  (pc = "done" /\ job.mode = "automatic" /\ found # {}) =>
    LET mine == Quality(job, outcome.route)
        Rival(k) == Quality(job, Candidates[k].route)
        rivals == {k \in DOMAIN Candidates : IsRival(Candidates[k])}
    IN IF mine.worst <= job.trigger /\ outcome.count > 0
       THEN \A k \in rivals :
              Candidates[k].count < outcome.count => Rival(k).worst > job.trigger
       ELSE /\ \A k \in rivals : Rival(k).worst > job.trigger
            /\ outcome.count > 0 =>
                 /\ \A k \in rivals : mine.worst <= Rival(k).worst
                 /\ (Minimum = 0 /\ Cautious(job) /\ direct # <<>>) =>
                      mine.worst < Quality(job, job.source).worst

\* With limits that cut nothing, a single destination and no way back, each
\* count's option is the best of all routes with that count: no path is lost to
\* the order in which a layer is filled, and the checks behind the search drop
\* none of its options.
CutsNothing(j) ==
  /\ Cardinality(j.eligible) <= j.shortlist
  /\ Cardinality(j.eligible) <= j.candidateLimit
  /\ j.beam >= Cardinality(UNION {Injections(j.eligible \ Elements(j.source), n) :
                                   n \in 0..j.count})

Travelled(j, route) == \A e \in Elements(BoundaryEdges(j, route)) : j.models[1][e] # Unreachable

WideOptionsAreBest ==
  (pc = "compare" /\ job.mode = "exact" /\ CutsNothing(job) /\ ~Rejoins(job)
   /\ Len(Block(job)) = 1) =>
     \A n \in 0..Maximum :
       LET all == {CompleteOption(job, r, n) :
                     r \in {g \in GoodRoutes(job, n) : Travelled(job, g)}}
           mine == {options[k] : k \in {i \in DOMAIN options : options[i].count = n}}
       IN IF all = {} THEN mine = {}
          ELSE \E o \in all : mine = {o} /\ \A p \in all : ~LexBefore(<<p.worst, p.sum>>,
                                                                     <<o.worst, o.sum>>)

\* What the documentation says: a conflict between the context that is played
\* already and the destination does not make the insertion of bridges
\* impossible.
ContextConflictIsNoObstacle ==
  (pc = "unsatisfiable" /\ Valid(job)) =>
    \A n \in Permitted(job) \ {0} :
      {r \in {RouteOf(job, s) : s \in Spendings(job, n)} : GeneratedApart(job, r)} = {}

\* The preflight's arithmetic refuses only the impossible, and nothing reaches
\* the search past it.
PreflightIsRight == RejectedIsInfeasible /\ SearchedIsJudged

\* The search's states are well-formed, a chosen route is safe, and no search
\* fails for a decision that only its end reveals.
DestinationSound == TypeOK /\ OutcomeIsSafe /\ NeverFailsLate
=============================================================================
