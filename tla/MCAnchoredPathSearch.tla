------------------------- MODULE MCAnchoredPathSearch -------------------------
(* Tracks 1 and 2 are context, 3 the left anchor, 4 to 6 candidates, 7 the    *)
(* right anchor.  Every assignment of two artists is tried, with a shared      *)
(* album, windows that reach across the whole path, an unreachable leg, a      *)
(* candidate that was heard recently, and limits that do and do not prune.     *)
EXTENDS AnchoredPathSearch

MCTracks(artists) ==
  [t \in 1..7 |-> [artist     |-> IF t = 7 THEN "a" ELSE artists[t],
                   repeatKeys |-> IF t \in {2, 6} /\ artists[2] = "a"
                                  THEN {"k"} ELSE {},
                   album      |-> IF t \in {5, 7} THEN "x" ELSE NoKey]]

\* Few distinct lengths, so that ties are common.
MCNear == [p \in (1..7) \X (1..7) |-> (3 * p[1] + 5 * p[2]) % 4]

\* Track 5 cannot follow track 4, and the direct leg is missing.
MCBroken ==
  [p \in (1..7) \X (1..7) |->
     IF p \in {<<4, 5>>, <<3, 7>>} THEN Unreachable ELSE (p[1] * p[2]) % 5]

MCWindows ==
  { [artist |-> 2, album |-> 1, track |-> 0],
    [artist |-> 1, album |-> 2, track |-> 3] }

MCLimits == { <<6, 20, 2>>, <<2, 2, 1>>, <<1, 2, 2>> }

MCRequest(artists, w, distance, history, exempt, limits, variation) ==
  [tracks |-> MCTracks(artists), w |-> w, distance |-> distance,
   history |-> history, prefix |-> <<2, 3>>, unavailable |-> <<3, 7, 2>>,
   left |-> 3, right |-> 7,
   candidates |-> [t \in {2, 4, 5, 6} |-> IF t = 5 THEN 1 ELSE 0],
   exempt |-> exempt, max |-> 3,
   candidateLimit |-> limits[1], beam |-> limits[2],
   alternatives |-> limits[3], variation |-> variation]

MCGood ==
  {MCRequest(artists, w, distance, history, exempt, limits, 0) :
     artists \in [1..6 -> {"a", "b"}], w \in MCWindows,
     distance \in {MCNear, MCBroken}, history \in {<<1>>, <<4>>},
     exempt \in {0, 2}, limits \in MCLimits}

MCPlain == MCRequest([t \in 1..6 |-> "b"], CHOOSE w \in MCWindows : TRUE,
                     MCNear, <<1>>, 0, <<6, 20, 2>>, 60)

\* Requests the validation turns down, and one that asks for variation.
MCOther ==
  {MCPlain, [MCPlain EXCEPT !.left = 4], [MCPlain EXCEPT !.beam = 0],
   [MCPlain EXCEPT !.history = <<8>>]}

MCRequests == MCGood \cup MCOther

\* Three one-track paths with bottlenecks 100, 101, 102 and sums 120, 200, 121.
MCBandDistance ==
  [p \in (1..7) \X (1..7) |->
     CASE p[1] = 3 -> [t \in 1..7 |-> CASE t = 4 -> 100 [] t = 5 -> 101
                                          [] t = 6 -> 102 [] OTHER -> 400][p[2]]
       [] p[2] = 7 -> [t \in 1..7 |-> CASE t = 4 -> 20 [] t = 5 -> 99
                                          [] t = 6 -> 19 [] OTHER -> 400][p[1]]
       [] OTHER -> 400]

MCBandRequests ==
  {MCRequest(artists, [artist |-> 1, album |-> 0, track |-> 0],
             MCBandDistance, <<1>>, 0, <<6, 20, 1>>, variation) :
     artists \in [1..6 -> {"a", "b"}], variation \in {50, 100}}
=============================================================================
