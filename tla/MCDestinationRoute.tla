-------------------------- MODULE MCDestinationRoute --------------------------
(***************************************************************************)
(* Tracks 1 and 2 are context, 3 is the start, 4 and 5 the block, 6 the    *)
(* rejoin track, 7 to 10 may be inserted.  Budgets go up to 3 tracks.      *)
(***************************************************************************)
EXTENDS DestinationRoute

Track(artist, album) == [artist |-> artist, repeatKeys |-> {}, album |-> album]

\* The artists of tracks 1..6, then of the candidates.
Casts ==
  { <<"a", "b", "c", "d", "e", "f", "g", "h", "i", "j">>,
    <<"d", "b", "c", "d", "e", "f", "g", "h", "g", "i">>,
    <<"a", "e", "c", "d", "e", "d", "g", "h", "i", "b">>,
    <<"a", "d", "c", "d", "e", "c", "g", "e", "f", "g">> }

Table(cast) ==
  [t \in 1..10 |-> Track(cast[t], IF t \in {2, 8, 4} THEN "x" ELSE NoKey)]

Distance(k) ==
  [p \in (1..10) \X (1..10) |-> ((p[1] * (3 + k)) + (p[2] * (5 + 2 * k))) % 11]

Base ==
  [tracks |-> <<>>, w |-> <<>>, history |-> <<1>>, source |-> <<>>, start |-> 3,
   destination |-> 4, block |-> <<>>, rejoin |-> Absent, mode |-> "exact", count |-> 2,
   minimum |-> NotGiven, maximum |-> 3, caution |-> "absent", trigger |-> 40,
   eligible |-> 7..10, shortlist |-> 9, candidateLimit |-> 4, beam |-> 60,
   guidance |-> [c \in 7..10 |-> 0], models |-> <<Distance(0), Distance(1)>>,
   reference |-> 3..10]

Windows ==
  { [artist |-> 2, album |-> 0, track |-> 0], [artist |-> 3, album |-> 2, track |-> 1],
    [artist |-> 5, album |-> 0, track |-> 9] }

Shapes ==
  { [Base EXCEPT !.source = <<2, 3, 4>>],
    [Base EXCEPT !.source = <<3, 4, 5>>, !.block = <<4, 5>>, !.history = <<8, 2>>],
    [Base EXCEPT !.source = <<3, 4, 6>>, !.rejoin = 6],
    [Base EXCEPT !.source = <<2, 3, 4, 5, 6>>, !.block = <<4, 5>>, !.rejoin = 6] }

Data == {[s EXCEPT !.tracks = Table(c), !.w = w] : s \in Shapes, c \in Casts, w \in Windows}

ExactJobs == {[d EXCEPT !.count = n] : d \in Data, n \in 0..3}

AutomaticJobs ==
  {[d EXCEPT !.mode = "automatic", !.minimum = m, !.caution = c, !.trigger = t,
             !.models = <<Distance(k), Distance(k + 1)>>] :
     d \in Data, m \in {NotGiven, 1}, c \in {"absent", "cautious"}, t \in {40, 80},
     k \in 0..1}

NarrowJobs ==
  {[d EXCEPT !.shortlist = 2, !.candidateLimit = 2, !.beam = 2,
             !.guidance = [c \in 7..10 |-> c % 3]] : d \in Data}

\* Some legs have no length.
BrokenLegs(f) == [p \in DOMAIN f |-> IF p \in {<<3, 7>>, <<8, 4>>, <<9, 10>>, <<3, 4>>}
                                    THEN Unreachable ELSE f[p]]

BrokenJobs == {[d EXCEPT !.models = <<BrokenLegs(Distance(0))>>] : d \in Data}

\* Requests that are turned down, and one whose source lacks a track.
Odd ==
  LET d == CHOOSE x \in Data : x.rejoin = 6 /\ x.block = <<4, 5>>
  IN {[d EXCEPT !.rejoin = Absent], [d EXCEPT !.block = <<5, 4>>], [d EXCEPT !.block = <<4>>],
      [d EXCEPT !.block = <<5>>], [d EXCEPT !.start = 2], [d EXCEPT !.start = 7],
      [d EXCEPT !.rejoin = 7], [d EXCEPT !.rejoin = 2], [d EXCEPT !.destination = 5],
      [d EXCEPT !.block = <<4, 5, 6>>], [d EXCEPT !.block = <<4, 5, 6>>, !.rejoin = Absent],
      [d EXCEPT !.block = <<4, 6, 5>>, !.rejoin = Absent],
      [d EXCEPT !.block = <<4, 5, 6, 7>>], [d EXCEPT !.maximum = NotGiven],
      [d EXCEPT !.minimum = 1], [d EXCEPT !.count = NotGiven], [d EXCEPT !.mode = "none"],
      [d EXCEPT !.mode = "automatic", !.minimum = 4], [d EXCEPT !.block = <<>>],
      [d EXCEPT !.maximum = 9], [d EXCEPT !.caution = "normal"]}

\* Few tracks to insert, or none.
PoorJobs ==
  {[d EXCEPT !.mode = "automatic", !.eligible = e, !.caution = c, !.trigger = 60] :
     d \in Data, e \in {{}, {7}, {9, 10}}, c \in {"normal", "cautious"}}

MCJobs ==
  PoorJobs \cup ExactJobs \cup AutomaticJobs \cup NarrowJobs \cup BrokenJobs \cup Odd
=============================================================================
