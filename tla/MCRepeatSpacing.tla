--------------------------- MODULE MCRepeatSpacing ---------------------------
(* Every route of up to four members over three tracks, one of them outside  *)
(* the table, for windows that overlap in different ways.                     *)
EXTENDS RepeatSpacing

MCTrack(artist, keys, album) ==
  [artist |-> artist, repeatKeys |-> keys, album |-> album]

MCSourceRoutes == UNION {[1..n -> 1..3] : n \in 0..4}

MCTrackTables ==
  { <<MCTrack("a", {}, "x"), MCTrack("b", {}, "x"), MCTrack("a", {}, NoKey)>>,
    <<MCTrack("a", {"k"}, NoKey), MCTrack("b", {"k", "m"}, NoKey)>>,
    <<MCTrack(VariousArtists, {}, "x"), MCTrack(VariousArtists, {}, NoKey),
      MCTrack(NoKey, {}, "x")>> }

MCWindowChoices ==
  { [artist |-> 2, album |-> 1, track |-> 3],
    [artist |-> 0, album |-> 3, track |-> 0],
    [artist |-> 1, album |-> 0, track |-> 2] }

MCPositions == 1..9
=============================================================================
