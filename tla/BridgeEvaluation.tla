--------------------------- MODULE BridgeEvaluation ---------------------------
(***************************************************************************)
(* How a candidate for a gap is judged (src/src/bridge.rs): the two legs   *)
(* it would make are scored in the context of the route as it is, compared *)
(* with a frozen population of distances, and checked against the repeat   *)
(* windows.  Distances are data (the adaptive scorer of bliss-mixer-core), *)
(* computed from a feature matrix's seeds and the recent tracks.           *)
(*                                                                         *)
(* A job `j` is a record; of its fields this module reads tracks, windows, *)
(* seedLimit, frozen (gap_context_mode), maxLeg, maxDetour, shift and      *)
(* weight (guidance of a candidate), reference (the frozen population) and *)
(* percent, minimumPool (variation).  Percentiles are counted in elements  *)
(* of the reference, and so are the limits they are compared with.         *)
(***************************************************************************)
EXTENDS RepeatWindows, Orders

CONSTANTS
  AdaptiveDistance(_, _, _, _),  \* job, seeds of the matrix, seeds, candidate
  VariationKey(_, _, _, _)       \* job, route, position, candidate

\* The place of an insertion is the number of tracks before it.
Prefix(route, position) == SubSeq(route, 1, position)
Inserted(route, position, c) == InsertAt(route, position + 1, c)

RecentContext(j, prefix) ==
  SubSeq(prefix, SaturatingSub(Len(prefix), j.seedLimit) + 1, Len(prefix))

Rolling == <<>>

\* The seeds of the matrix all legs of a gap are scored with, or none when
\* every leg has the matrix of its own context.
GapContextMatrix(j, route, position) ==
  IF j.frozen THEN RecentContext(j, Prefix(route, position)) ELSE Rolling

ContextualDistance(j, matrix, prefix, c) ==
  LET seeds == RecentContext(j, prefix)
  IN AdaptiveDistance(j, IF matrix = Rolling THEN seeds ELSE matrix, seeds, c)

-----------------------------------------------------------------------------
\* Every original candidate in every original context it is not part of.
FrozenReference(j, route, candidates) ==
  LET contexts == {<<position, c>> \in (1..(Len(route) - 1)) \X candidates :
                     c \notin Elements(RecentContext(j, Prefix(route, position)))}
  IN [context \in contexts |->
        ContextualDistance(j, Rolling, Prefix(route, context[1]), context[2])]

\* The percentile, counted in elements of the reference.
Percentile(j, distance) ==
  Cardinality({context \in DOMAIN j.reference : j.reference[context] < distance})

DirectDistance(j, route, position) ==
  ContextualDistance(j, Rolling, Prefix(route, position), route[position + 1])

RepeatSafeAt(j, route, position) ==
  RepeatWindowsSafeAt(route, j.tracks, j.windows, position)

RepeatSafeInsertion(j, route, position, c) ==
  /\ c \notin Elements(route)
  /\ RepeatSafeAt(j, Inserted(route, position, c), position + 1)

EvaluateCandidate(j, matrix, route, position, c) ==
  LET tentative == Inserted(route, position, c)
      left == ContextualDistance(j, matrix, Prefix(route, position), c)
      right == ContextualDistance(j, matrix, Prefix(tentative, position + 1),
                                  tentative[position + 2])
      safe == RepeatSafeInsertion(j, route, position, c)
      legs == [left |-> Percentile(j, left), right |-> Percentile(j, right)]
      max == Larger(legs.left, legs.right)
      detour == legs.left + legs.right
  IN [candidate |-> c, left |-> left, right |-> right, leftPercentile |-> legs.left,
      max |-> max, detour |-> detour, repeatSafe |-> safe,
      accepted |-> safe /\ max <= j.maxLeg /\ detour <= j.maxDetour]

Flag(condition) == IF condition THEN 0 ELSE 1

RankCandidates(j, matrix, route, position, candidates) ==
  Sorted({EvaluateCandidate(j, matrix, route, position, c) : c \in candidates},
         LAMBDA e : <<Flag(e.accepted), e.max, e.detour, e.candidate>>)

\* The shortlist of a gap of the original route, all candidates when they fit.
ShortlistCandidates(j, route, position, candidates, limit) ==
  IF Cardinality(candidates) <= limit THEN candidates
  ELSE LET ranked == RankCandidates(j, Rolling, route, position, candidates)
       IN {ranked[k].candidate : k \in 1..limit}

-----------------------------------------------------------------------------
\* Endpoints have one leg, out of the opening or into the closing track.
EvaluateEndpoint(j, route, slot, c) ==
  LET tentative == IF slot = "opening" THEN <<c>> \o route ELSE Append(route, c)
      distance == IF slot = "opening"
                  THEN ContextualDistance(j, Rolling, <<c>>, route[1])
                  ELSE ContextualDistance(j, Rolling, route, c)
      safe == /\ c \notin Elements(route)
              /\ RepeatSafeAt(j, tentative,
                              IF slot = "opening" THEN 1 ELSE Len(tentative))
  IN [candidate |-> c, distance |-> distance, max |-> Percentile(j, distance),
      repeatSafe |-> safe, accepted |-> safe /\ Percentile(j, distance) <= j.maxLeg]

RankEndpoints(j, route, slot, candidates) ==
  Sorted({EvaluateEndpoint(j, route, slot, c) : c \in candidates},
         LAMBDA e : <<Flag(e.accepted), e.max, e.candidate>>)

-----------------------------------------------------------------------------
\* Guidance lowers a percentile by a bounded shift and divides it by a weight,
\* here a multiplication by its inverse.
RankGuidedShortlist(j, evaluations) ==
  Sorted({evaluations[k] : k \in DOMAIN evaluations},
         LAMBDA e : <<(e.max - j.shift[e.candidate]) * j.inverseWeight[e.candidate],
                      e.max, e.candidate>>)

\* Which evaluations a search takes.
Accepts(acceptance, j, e) ==
  CASE acceptance = "full bridge" -> e.accepted
    [] acceptance = "reachable from left" -> e.repeatSafe /\ e.leftPercentile <= j.maxLeg
    [] acceptance = "path legs" -> e.repeatSafe /\ e.max <= j.maxLeg

VariedPoolLength(j, accepted) ==
  IF accepted = 0 \/ j.percent = 0 THEN Min({accepted, 1})
  ELSE LET ceiling == Min({accepted, 32})
           floor == Larger(1, Min({j.minimumPool, ceiling}))
       IN floor + ((ceiling - floor) * j.percent) \div 100

\* The first `pool` elements in the order the seed gives them.
Shuffled(j, ranked, pool, route, position) ==
  IF pool <= 1 THEN ranked
  ELSE LET place == Sorted(1..pool,
                           LAMBDA k : <<VariationKey(j, route, position,
                                                     ranked[k].candidate), k>>)
       IN [k \in DOMAIN ranked |-> IF k <= pool THEN ranked[place[k]] ELSE ranked[k]]

\* Accepted candidates first, in the order of guidance, the best of them
\* shuffled.
RankForEvolvingRoute(j, matrix, route, position, candidates, acceptance) ==
  LET evaluations == RankCandidates(j, matrix, route, position, candidates)
      guided == RankGuidedShortlist(j, evaluations)
      taken == SelectSeq(guided, LAMBDA e : Accepts(acceptance, j, e))
      others == SelectSeq(guided, LAMBDA e : ~Accepts(acceptance, j, e))
  IN Shuffled(j, taken \o others, VariedPoolLength(j, Len(taken)), route, position)

RankEndpointForRoute(j, route, slot, candidates) ==
  LET ranked == RankEndpoints(j, route, slot, candidates)
      accepted == Len(SelectSeq(ranked, LAMBDA e : e.accepted))
      position == IF slot = "opening" THEN 0 ELSE Len(route)
      shuffled == Shuffled(j, ranked, VariedPoolLength(j, accepted), route, position)
  IN SubSeq(shuffled, 1, Min({accepted, j.candidateLimit}))

-----------------------------------------------------------------------------
\* What a sequence of legs costs: their sum and twice the worst of them.
LocalObjective(sum, worst) == sum + 2 * worst

\* The objective of a whole route.  With a frozen context, every leg of a source
\* gap has the matrix of the gap's left anchor.
LegDistance(j, source, route, position) ==
  LET at(track) == CHOOSE i \in DOMAIN route : route[i] = track
      holding == {g \in 1..(Len(source) - 1) :
                    at(source[g]) <= position /\ position < at(source[g + 1])}
      matrix == IF ~j.frozen \/ holding = {} THEN Rolling
                ELSE GapContextMatrix(j, route, at(source[Min(holding)]))
  IN ContextualDistance(j, matrix, Prefix(route, position), route[position + 1])

GapSearchObjective(j, source, route) ==
  LET legs == [p \in 1..(Len(route) - 1) |-> LegDistance(j, source, route, p)]
  IN LocalObjective(FoldFunction(LAMBDA leg, total : leg + total, 0, legs),
                    FoldFunction(LAMBDA leg, worst : Larger(leg, worst), 0, legs))
=============================================================================
