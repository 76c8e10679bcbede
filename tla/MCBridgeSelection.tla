--------------------------- MODULE MCBridgeSelection ---------------------------
(***************************************************************************)
(* Routes of four tracks (three gaps), or of two, with three candidates.   *)
(* A track's feature is a number; the distance from a context grows with   *)
(* the distance from its first and its last track and depends a little on  *)
(* the matrix, so that a context that changes changes the evaluations.     *)
(***************************************************************************)
EXTENDS BridgeCommand

MCAdaptiveDistance(j, matrix, seeds, c) ==
  LET f == j.feature
  IN 2 * Gap(f[seeds[Len(seeds)]], f[c]) + Gap(f[seeds[1]], f[c])
     + 3 * ((f[matrix[1]] + f[c]) % 4)

MCVariationKey(j, r, position, c) ==
  (7 * c + 3 * position + 5 * Len(r) + j.seed) % 11

Artist(key) == [artist |-> key, repeatKeys |-> {}, album |-> NoKey]
Table(keys) == [t \in DOMAIN keys |-> Artist(keys[t])]

Features == { <<0, 6, 12, 3, 9, 4, 2>>, <<5, 0, 9, 2, 7, 4, 8>>,
              <<0, 8, 1, 9, 4, 5, 5>> }
Artists == { <<"p", "q", "r", "s", "t", "u", "v">>,
             <<"p", "q", "s", "r", "t", "s", "t">> }

Base ==
  [command |-> "exact_count", mode |-> "exact", satisfy |-> FALSE, smooth |-> TRUE,
   route |-> <<1, 2, 3, 4>>, eligible |-> 5..7,
   shortlist |-> 9, targetShares |-> FALSE, candidates |-> <<>>, reference |-> <<>>,
   tracks |-> <<>>, windows |-> [artist |-> 2, album |-> 0, track |-> 0],
   feature |-> <<>>, seedLimit |-> 2, frozen |-> FALSE, maxLeg |-> 5, maxDetour |-> 9,
   shift |-> [c \in 1..7 |-> 0], inverseWeight |-> [c \in 1..7 |-> 1],
   percent |-> 0, minimumPool |-> 2, seed |-> 0, opening |-> {}, closing |-> {},
   trigger |-> 1, maximum |-> 2, requested |-> 2, perGap |-> 1,
   candidateLimit |-> 3, beamWidth |-> 40, wide |-> TRUE]

Data ==
  {[Base EXCEPT !.feature = f, !.tracks = Table(a), !.frozen = z,
                !.windows.artist = w, !.maxLeg = leg] :
     f \in Features, a \in Artists, z \in BOOLEAN, w \in {1, 3}, leg \in {3, 5}}

Guided == [c \in 1..7 |-> IF c = 5 THEN 3 ELSE 0]
Narrow(j) == [j EXCEPT !.candidateLimit = 1, !.beamWidth = 1, !.wide = FALSE]

Automatic(command) ==
  {[j EXCEPT !.command = command, !.mode = "automatic"] : j \in Data}

AutomaticJobs ==
  {[j EXCEPT !.eligible = {}] : j \in Automatic("automatic")} \cup
  {[j EXCEPT !.maximum = m, !.trigger = t] :
     j \in Automatic("automatic"), m \in 1..2, t \in {1, 3}} \cup
  {[j EXCEPT !.maxLeg = 7, !.maxDetour = 14] : j \in Automatic("automatic")} \cup
  {[j EXCEPT !.shift = Guided, !.percent = 100, !.seed = s,
             !.shortlist = 2, !.targetShares = (s = 1)] :
     j \in Automatic("automatic"), s \in 0..1}

ExactJobs ==
  {[j EXCEPT !.requested = n] : j \in Data, n \in 0..3} \cup
  {[j EXCEPT !.route = <<1, 2>>, !.requested = 1] : j \in Data} \cup
  {[Narrow(j) EXCEPT !.requested = n, !.percent = 50] : j \in Data, n \in 1..2}

MultiJobs ==
  {[j EXCEPT !.requested = n, !.perGap = 2, !.beamWidth = 2, !.wide = FALSE,
             !.maxDetour = d] : j \in Data, n \in 2..3, d \in {4, 7}}

EndpointJobs ==
  {[j EXCEPT !.requested = n, !.opening = {6, 7}, !.closing = c, !.perGap = p,
             !.beamWidth = 2, !.wide = FALSE] :
     j \in Data, n \in 1..2, c \in {{}, {5, 7}}, p \in 1..2}

\* Base routes whose artists repeat next to each other or one further away.
Repeating(a) == [Table(a) EXCEPT ![1] = [@ EXCEPT !.album = "x"],
                                 ![3] = [@ EXCEPT !.album = "x"]]
RepeatingArtists == { <<"p", "p", "q", "r", "s", "t", "u">>,
                      <<"p", "q", "q", "p", "q", "t", "u">>,
                      <<"p", "q", "r", "q", "t", "t", "p">> }

Spaced(command, f) ==
  {[Base EXCEPT !.command = command, !.mode = "automatic", !.feature = f,
                !.tracks = Repeating(a), !.frozen = z, !.maxLeg = 5, !.maxDetour = 8,
                !.windows = [artist |-> w, album |-> w - 1, track |-> 1]] :
     a \in RepeatingArtists, z \in BOOLEAN, w \in 1..2}

RepairJobs ==
  {[j EXCEPT !.maximum = m, !.eligible = e, !.maxLeg = leg] :
     j \in UNION {Spaced("repeat_window_repair", f) : f \in Features},
     m \in 1..3, e \in {5..7, {5}}, leg \in {2, 3, 6}}

ImprovementJobs ==
  {[j EXCEPT !.satisfy = goals[1], !.smooth = goals[2], !.maximum = m] :
     j \in UNION {Spaced("automatic_improvement", f) : f \in Features}
             \cup Automatic("automatic_improvement"),
     goals \in {<<TRUE, TRUE>>, <<TRUE, FALSE>>, <<FALSE, TRUE>>}, m \in 1..3}

\* Smoothing bridges in front of a spacing bridge: MCImprovedLegs.cfg.
ImprovedLegsJobs ==
  {[j EXCEPT !.satisfy = TRUE, !.maximum = 3, !.maxLeg = 3, !.trigger = 0,
             !.frozen = FALSE] :
     j \in Spaced("automatic_improvement", <<0, 6, 12, 2, 4, 3, 8>>)}

FixedGapJobs ==
  {[j EXCEPT !.mode = "exact", !.route = s[1], !.perGap = s[2], !.maxDetour = d] :
     j \in UNION {Spaced("fixed_gap_count", f) : f \in Features}, d \in {5, 8},
     s \in {<< <<1, 2>>, 2>>, << <<1, 2, 3>>, 1>>, << <<1, 2, 3, 4>>, 1>>,
            << <<1, 2, 3, 4>>, 2>>}}

MCJobs ==
  AutomaticJobs \cup ExactJobs \cup MultiJobs \cup EndpointJobs \cup
  RepairJobs \cup ImprovementJobs \cup FixedGapJobs
=============================================================================
