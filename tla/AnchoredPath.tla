----------------------------- MODULE AnchoredPath -----------------------------
(***************************************************************************)
(* The bounded path search between two immutable anchors                   *)
(* (src/src/anchored_path.rs).  For every number of intermediates from the *)
(* least the repeat windows allow up to the requested maximum, a layered   *)
(* beam search grows partial paths from the left anchor and keeps the best *)
(* complete ones.                                                          *)
(*                                                                         *)
(* A request is the record                                                 *)
(*   [tracks, w, history, prefix, unavailable, left, right, candidates,    *)
(*    distance, exempt, max, candidateLimit, beam, alternatives,           *)
(*    variation]                                                           *)
(* where candidates maps a candidate track to its guidance adjustment,     *)
(* distance maps a pair of tracks to the length of that leg, and exempt is *)
(* the length of the context the right anchor is not compared with.        *)
(*                                                                         *)
(* States in a layer are distinct and totally ordered, so a sorted and     *)
(* truncated vector of them is the set of its least elements.  The search  *)
(* statistics and progress events are left out.                            *)
(***************************************************************************)
EXTENDS RepeatWindows, Orders

Unreachable == -1   \* a leg whose score is not a finite number

-----------------------------------------------------------------------------
\* The fixed adjacent scorer: a leg depends on its two ends.
ScoreLeg(req, path, next) == req.distance[<<Last(path), next>>]

PartialKey(s) == <<s.lowerWorst, s.lowerSum, -s.guidance>> \o s.intermediates

CompleteKey(s) == <<s.worst, s.sum, -s.guidance>> \o s.intermediates

-----------------------------------------------------------------------------
Available(req) == DOMAIN req.candidates \ Elements(req.unavailable)

StructuralUpperBound(req) == Min({req.max, Cardinality(Available(req))})

RepeatPrefix(req) == req.history \o req.prefix

GeneratedPositionsRepeatSafe(req, route, first, count) ==
  \A position \in first..(first + count - 1) :
    PositionRepeatSafe(route, req.tracks, req.w, position)
\* Mutant: the right anchor is compared with the path only.
RightAnchorRepeatSafeInPath(req, route) ==
  LET suffix == SubSeq(route, Len(RepeatPrefix(req)) + 1, Len(route))
  IN PositionRepeatSafe(suffix, req.tracks, req.w, Len(suffix))

\* Only the context behind the exempt prefix is compared with the anchor.
RightAnchorRepeatSafe(req, route) ==
  LET suffix == SubSeq(route, Min({req.exempt, Len(route) - 1}) + 1, Len(route))
  IN PositionRepeatSafe(suffix, req.tracks, req.w, Len(suffix))
\* Mutant: the least number of intermediates counts the anchor itself.
MinimumDestinationPositions(req) ==
  LET before == RepeatPrefix(req)
  IN Max({0} \cup
         {SaturatingSub(
            RequiredWindow(req.tracks, req.w, before[i], req.right) + 1,
            Len(before) - i) : i \in (req.exempt + 1)..Len(before)})

MinimumDestinationIntermediates(req) ==
  LET before == RepeatPrefix(req)
  IN Max({0} \cup
         {SaturatingSub(
            RequiredWindow(req.tracks, req.w, before[i], req.right) + 1,
            Len(before) + 1 - i) : i \in (req.exempt + 1)..Len(before)})

ConflictsWithDestination(req, candidate, distance) ==
  ~ArtistAndAlbumApart(req.tracks, req.w, candidate, req.right, distance)

\* May `candidate` become the next intermediate of `state`?
MayExtend(req, requested, state, candidate) ==
  LET path == RepeatPrefix(req) \o state.intermediates
      remaining == requested - Len(state.intermediates)
  IN /\ candidate \notin Elements(state.intermediates)
     /\ ~ConflictsWithDestination(req, candidate, remaining)
     /\ GeneratedPositionsRepeatSafe(req, Append(path, candidate),
                                     Len(path) + 1, 1)
     /\ ScoreLeg(req, path, candidate) # Unreachable

\* The bottleneck estimate spreads the rest of the way over the remaining legs;
\* all states of a layer have the same number of them, so it is kept multiplied
\* by that number instead of divided.
Extended(req, requested, state, candidate) ==
  LET path == req.prefix \o state.intermediates
      edge == ScoreLeg(req, path, candidate)
      direct == ScoreLeg(req, Append(path, candidate), req.right)
      rest == IF direct = Unreachable THEN 0 ELSE direct
      worst == Larger(state.worst, edge)
  IN [intermediates |-> Append(state.intermediates, candidate),
      sum           |-> state.sum + edge,
      worst         |-> worst,
      lowerSum      |-> state.sum + edge + rest,
      lowerWorst    |-> Larger(worst * (requested - Len(state.intermediates)),
                               rest),
      guidance      |-> state.guidance + req.candidates[candidate]]

EmptyPath ==
  [intermediates |-> <<>>, sum |-> 0, worst |-> 0, lowerSum |-> 0,
   lowerWorst |-> 0, guidance |-> 0]

Variants(req, requested, state) ==
  {Extended(req, requested, state, candidate) : candidate \in
     {c \in Available(req) : MayExtend(req, requested, state, c)}}

NextFrontier(req, requested, frontier) ==
  Least(UNION {Least(Variants(req, requested, state), req.candidateLimit,
                     PartialKey) : state \in frontier},
        req.beam, PartialKey)

-----------------------------------------------------------------------------
Closes(req, requested, state) ==
  LET before == RepeatPrefix(req)
      route == before \o state.intermediates \o <<req.right>>
  IN /\ GeneratedPositionsRepeatSafe(req, route, Len(before) + 1, requested)
     /\ RightAnchorRepeatSafe(req, route)
     /\ ScoreLeg(req, req.prefix \o state.intermediates, req.right)
          # Unreachable

\* The option a state becomes when its last leg reaches the right anchor.
Option(req, state) ==
  LET path == req.prefix \o state.intermediates
      edge == ScoreLeg(req, path, req.right)
  IN [intermediates |-> state.intermediates,
      route         |-> Append(path, req.right),
      sum           |-> state.sum + edge,
      worst         |-> Larger(state.worst, edge),
      guidance      |-> state.guidance]

\* The two limits are 2% and 5% above the best path.  The states that satisfy
\* both are counted, and the count is used as the length of a prefix.
QualityBandLength(complete) ==
  LET best == CHOOSE b \in complete :
                \A o \in complete \ {b} : LexBefore(CompleteKey(b), CompleteKey(o))
  IN Cardinality({o \in complete : /\ 100 * o.worst <= 102 * best.worst
                                   /\ 100 * o.sum <= 105 * best.sum})

VariedPoolLength(accepted, variation) ==
  IF accepted = 0 \/ variation = 0 THEN Min({accepted, 1})
  ELSE 1 + ((Min({accepted, 32}) - 1) * variation) \div 100

\* The options that may be returned for one count.  The variation key is a
\* hash: which members of the pool come first is left open.
Selections(req, complete) ==
  IF complete = {} THEN {{}}
  ELSE LET pool == Least(complete,
                         Larger(VariedPoolLength(QualityBandLength(complete),
                                                 req.variation),
                                req.alternatives),
                         CompleteKey)
       IN IF req.variation = 0
          THEN {Least(pool, req.alternatives, CompleteKey)}
          ELSE kSubset(Min({req.alternatives, Cardinality(pool)}), pool)

Complete(req, requested, frontier) ==
  {Option(req, state) : state \in {s \in frontier : Closes(req, requested, s)}}

DirectOptions(req) == Complete(req, 0, {EmptyPath})

FirstCount(req) == Larger(MinimumDestinationIntermediates(req), 1)

\* The frontier after `requested` layers.
LastFrontier(req, requested) ==
  LET after[layer \in 0..requested] ==
        IF layer = 0 THEN {EmptyPath}
        ELSE NextFrontier(req, requested, after[layer - 1])
  IN after[requested]

\* Everything a search without variation returns.  An outer planner calls it as
\* one function; AnchoredPathSearch takes it step by step.
AnchoredPaths(req) ==
  DirectOptions(req) \cup
  UNION UNION {Selections(req, Complete(req, n, LastFrontier(req, n))) :
                 n \in FirstCount(req)..StructuralUpperBound(req)}

ValidRequest(req) ==
  /\ req.prefix # <<>> /\ Last(req.prefix) = req.left
  /\ req.left # req.right
  /\ req.candidateLimit > 0 /\ req.beam > 0 /\ req.alternatives > 0
  /\ req.variation <= 100
  /\ Elements(req.prefix \o req.history \o req.unavailable)
       \cup {req.left, req.right} \cup DOMAIN req.candidates
       \subseteq DOMAIN req.tracks

\* Tracks are numbers, a leg has a length or is unreachable, and only context
\* that exists can be exempt from the comparison with the right anchor.
IsRequest(req) ==
  /\ req.history \in Seq(Nat) /\ req.prefix \in Seq(Nat) /\ req.unavailable \in Seq(Nat)
  /\ req.left \in Nat /\ req.right \in Nat
  /\ DOMAIN req.candidates \subseteq Nat /\ IsFiniteSet(DOMAIN req.candidates)
  /\ req.candidates \in [DOMAIN req.candidates -> Int]
  /\ req.w \in [artist : Nat, album : Nat, track : Nat]
  /\ \A a, b \in DOMAIN req.tracks : req.distance[<<a, b>>] \in Nat \cup {Unreachable}
  /\ req.exempt \in 0..Len(RepeatPrefix(req))
  /\ req.max \in Nat /\ req.candidateLimit \in Nat /\ req.beam \in Nat
  /\ req.alternatives \in Nat /\ req.variation \in Nat

-----------------------------------------------------------------------------
(***************************************************************************)
(* The reference: every path that inserts distinct available candidates    *)
(* between the anchors, judged pair by pair on the finished route.         *)
(***************************************************************************)
Paths(req, n) ==
  {path \in [1..n -> Available(req)] : IsInjective(path)}

\* Every pair with an inserted member is apart, and the right anchor is apart
\* from everything behind the exempt prefix.
PathSafe(req, path) ==
  LET before == RepeatPrefix(req)
      route == before \o path \o <<req.right>>
  IN \A j \in (Len(before) + 1)..Len(route) :
       \A i \in 1..(j - 1) :
         (j = Len(route) /\ i <= req.exempt) \/
         PairSafe(req.tracks, req.w, route[i], route[j], j - i)

Legs(req, path) ==
  LET whole == <<req.left>> \o path \o <<req.right>>
  IN [i \in 1..(Len(path) + 1) |-> req.distance[<<whole[i], whole[i + 1]>>]]

PathReachable(req, path) == Unreachable \notin Range(Legs(req, path))

PathOption(req, path) ==
  [intermediates |-> path,
   route         |-> req.prefix \o path \o <<req.right>>,
   sum           |-> Total(Legs(req, path)),
   worst         |-> Max(Range(Legs(req, path))),
   guidance      |-> Total([i \in DOMAIN path |-> req.candidates[path[i]]])]

GoodPaths(req, n) ==
  {PathOption(req, path) :
     path \in {p \in Paths(req, n) : PathSafe(req, p) /\ PathReachable(req, p)}}

\* Nothing is dropped by the beam.
Wide(req) ==
  /\ req.candidateLimit >= Cardinality(Available(req))
  /\ req.beam >= Cardinality(UNION {Paths(req, n) : n \in 0..req.max})
=============================================================================
