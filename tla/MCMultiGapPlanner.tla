--------------------------- MODULE MCMultiGapPlanner ---------------------------
(* Tracks 1 to 3 are the source members, 4 to 6 the candidates, 7 history.    *)
(* All artist patterns of the sources and two of the candidates are tried,     *)
(* with both policies, limits that do and do not prune, and candidate lists    *)
(* that force the gaps to compete for the same tracks.                         *)
EXTENDS MultiGapPlanner

MCTrack(artist, album) == [artist |-> artist, repeatKeys |-> {}, album |-> album]

MCTracks(sources, candidates) ==
  [t \in 1..7 |->
     CASE t <= 3 -> MCTrack(sources[t], IF t = 3 THEN "x" ELSE NoKey)
       [] t \in 4..6 -> MCTrack(candidates[t], IF t = 5 THEN "x" ELSE NoKey)
       [] OTHER -> MCTrack("a", NoKey)]

MCDistance ==
  [p \in (1..7) \X (1..7) |->
     IF p = <<4, 2>> THEN -1 ELSE (3 * p[1] + 5 * p[2]) % 7]

MCWindows ==
  { [artist |-> 2, album |-> 1, track |-> 0],
    [artist |-> 1, album |-> 3, track |-> 2] }

MCLists ==
  { <<4 :> 0 @@ 5 :> 1, 4 :> 0 @@ 6 :> 0>>,
    <<4 :> 0 @@ 5 :> 0 @@ 6 :> 0, 2 :> 0 @@ 4 :> 1 @@ 5 :> 0 @@ 6 :> 0>> }

MCLimits == { <<6, 300, 300>>, <<2, 1, 1>>, <<2, 2, 2>> }

MCPlan(source, sources, candidates, w, history, lists, policy, count, limits, variation) ==
  [tracks |-> MCTracks(sources, candidates), w |-> w, history |-> history,
   source |-> source, candidates |-> lists, distance |-> MCDistance,
   policy |-> policy, perGap |-> IF policy = "exact" THEN count ELSE 0,
   maxAdded |-> IF policy = "repair" THEN count ELSE 0,
   candidateLimit |-> limits[1], beam |-> limits[2],
   alternatives |-> limits[3], variation |-> variation]

MCSources == [1..3 -> {"a", "b"}]

MCCandidates == {[t \in 4..6 |-> "c"], [t \in 4..6 |-> IF t = 4 THEN "a" ELSE "d"]}

MCPlanned ==
  {MCPlan(<<1, 2, 3>>, sources, candidates, w, history, lists, p[1], p[2], limits, 0) :
     sources \in MCSources, candidates \in MCCandidates, w \in MCWindows,
     history \in {<<>>, <<6, 7>>}, lists \in MCLists,
     p \in {<<"exact", 1>>, <<"repair", 3>>, <<"repair", 1>>}, limits \in MCLimits}

MCOne(source, policy, count, variation) ==
  MCPlan(source, [t \in 1..3 |-> IF t = 2 THEN "b" ELSE "a"], [t \in 4..6 |-> "c"],
         CHOOSE w \in MCWindows : w.artist = 2, <<>>,
         CHOOSE l \in MCLists : Cardinality(DOMAIN l[1]) = 3,
         policy, count, <<6, 300, 300>>, variation)

\* A source member that comes back, equal neighbours, requests that are turned
\* down, and variation.
MCOther ==
  {MCOne(<<1, 2, 1>>, "repair", 3, 0), MCOne(<<1, 1, 2>>, "repair", 3, 0),
   MCOne(<<1, 2, 8>>, "repair", 3, 0), MCOne(<<1, 2, 3>>, "repair", 0, 0),
   MCOne(<<1, 2, 3>>, "exact", 9, 0), MCOne(<<1, 2, 3>>, "repair", 3, 100),
   MCOne(<<1, 2, 3>>, "exact", 1, 60)}

\* A beam of one.  With two additions, track 7 leads to a cheaper middle than 9
\* and 10, which pushes theirs out of the beam and then fails at the last gap.
\* With three, track 6 pushes 7 out in time, and 9 and 10 are found.
MCBeamDistance ==
  [p \in (1..10) \X (1..10) |->
     CASE p \in {<<1, 2>>, <<2, 3>>, <<2, 7>>, <<7, 3>>, <<3, 9>>, <<8, 4>>} -> 10
       [] p \in {<<1, 6>>, <<6, 2>>} -> 5
       [] p = <<3, 8>> -> 15
       [] p \in {<<9, 4>>, <<9, 10>>, <<10, 4>>, <<4, 5>>} -> 20
       [] OTHER -> 40]

MCNarrowBeam ==
  { [tracks |-> [t \in 1..10 |-> MCTrack(CASE t \in {2, 4} -> "a"
                                          [] t \in {5, 8} -> "e"
                                          [] OTHER -> ToString(t), NoKey)],
     w |-> [artist |-> 3, album |-> 0, track |-> 0], history |-> <<>>,
     source |-> <<1, 2, 3, 4, 5>>,
     candidates |-> <<6 :> 0, 7 :> 0, 8 :> 0 @@ 9 :> 0 @@ 10 :> 0, <<>> >>,
     distance |-> MCBeamDistance, policy |-> "repair", perGap |-> 0, maxAdded |-> 3,
     candidateLimit |-> 10, beam |-> 1, alternatives |-> 1, variation |-> 0] }

MCPlanRequests == MCPlanned \cup MCOther \cup MCNarrowBeam
=============================================================================
