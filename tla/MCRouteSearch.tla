---------------------------- MODULE MCRouteSearch ----------------------------
(* Four tracks whose artists and albums repeat in several ways, windows that   *)
(* leave many, few or no orders, scores with ties, a context of one or of two  *)
(* tracks, no restart or one, and requests that are turned down.               *)
EXTENDS RouteSearch

MCTrack(artist, album) == [artist |-> artist, repeatKeys |-> {}, album |-> album]

\* A letter per artist; the first and the last track may share an album.
MCTracks(artists, album) ==
  [i \in DOMAIN artists |->
     MCTrack(artists[i], IF i \in {1, Len(artists)} THEN album ELSE NoKey)]

\* The order of the caller is the shortest, or all orders are equally long.
MCDistances ==
  { [p \in (1..4) \X (1..4) |->
       IF p[1] < p[2] THEN 4 * (p[2] - p[1]) ELSE 5 * (p[1] - p[2])],
    [p \in (1..4) \X (1..4) |-> 1] }

MCWindows == { [artist |-> 1, album |-> 0], [artist |-> 2, album |-> 3] }

MCRequest(tracks, w, seedLimit, learned, picks, distance) ==
  LET n == Len(tracks)
  IN [tracks |-> tracks, w |-> w, seedLimit |-> seedLimit, learned |-> learned,
      picks |-> picks, distance |-> distance,
      intensity |-> SubSeq(<<600, 0, 900, 300>>, 1, n),
      byIntensity |-> IF n = 4 THEN <<2, 4, 1, 3>> ELSE [i \in 1..n |-> i],
      target |-> SubSeq(<<200, 500, 800, 300>>, 1, n)]

MCArtists ==
  { <<"a", "b", "c", "d">>, <<"a", "a", "b", "b">>, <<"a", "b", "b", "c">>,
    <<"a", "a", "a", "b">> }

MCSearched ==
  {MCRequest(MCTracks(artists, album), w, seedLimit, 20, <<>>, distance) :
     artists \in MCArtists, album \in {"x", NoKey}, w \in MCWindows,
     seedLimit \in {1, 2}, distance \in MCDistances}

MCRestarted ==
  {MCRequest(MCTracks(artists, "x"), w, 1, 20, <<picks>>,
             CHOOSE d \in MCDistances : d[2, 1] = 5) :
     artists \in {<<"a", "b", "b", "c">>, <<"a", "a", "b", "b">>}, w \in MCWindows,
     picks \in {<<2, 1, 1, 1>>, <<1, 3, 2, 1>>}}

MCRefused ==
  {MCRequest(MCTracks(<<"a">>, "x"), w, 1, 20, <<>>, distance) :
     w \in MCWindows, distance \in MCDistances}
  \cup {MCRequest(MCTracks(<<"a", "b", "b", "c">>, "x"), w, p[1], p[2], <<>>, distance) :
          w \in MCWindows, p \in {<<0, 20>>, <<1, 101>>}, distance \in MCDistances}

\* An order exists, but no single move leads there and all scores are equal.
MCTied ==
  {MCRequest(MCTracks(<<"a", "b", "b", "c">>, NoKey), w, 1, 20, <<>>,
             CHOOSE d \in MCDistances : d[2, 1] = 1) : w \in MCWindows}

MCRequests == MCSearched \cup MCRestarted \cup MCRefused
=============================================================================
