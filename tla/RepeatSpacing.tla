---------------------------- MODULE RepeatSpacing ----------------------------
(***************************************************************************)
(* minimum_repeat_spacing_additions of src/src/multi_gap.rs: the number of *)
(* tracks that must at least be inserted between the members of a fixed    *)
(* source route before its repeats respect the windows.  The two nested    *)
(* loops are the actions AdvanceRight and RelaxLeft; positions are counted *)
(* from 1 here, from 0 in the code.                                        *)
(***************************************************************************)
EXTENDS RepeatWindows

CONSTANTS
  SourceRoutes,   \* the source routes considered, sequences of track indices
  TrackTables,    \* the track tables considered
  WindowChoices,  \* the window settings considered
  Positions       \* route positions over which a placement is looked for

ASSUME SpacingAssumption ==
  /\ \A source \in SourceRoutes : source \in Seq(Nat)
  /\ \A w \in WindowChoices : w \in [artist : Nat, album : Nat, track : Nat]
  /\ Positions \subseteq Nat

VARIABLES
  source, tracks, windows,   \* the call's arguments, never changed
  cumulative,                \* cumulative[i]: additions needed before source[i]
  left, right,               \* the loop counters
  pc

args == <<source, tracks, windows>>
vars == <<source, tracks, windows, cumulative, left, right, pc>>

Members == 1..Len(source)

TypeOK ==
  /\ source \in SourceRoutes
  /\ tracks \in TrackTables
  /\ windows \in WindowChoices
  /\ cumulative \in [Members -> Nat]
  /\ right \in 1..Larger(1, Len(source))
  /\ left \in 1..right
  /\ pc \in {"validate", "relax", "done", "invalid"}

-----------------------------------------------------------------------------
Init ==
  /\ source \in SourceRoutes
  /\ tracks \in TrackTables
  /\ windows \in WindowChoices
  /\ cumulative = [i \in Members |-> 0]
  /\ left = 1
  /\ right = 1
  /\ pc = "validate"

Validate ==
  /\ pc = "validate"
  /\ pc' = IF \A i \in Members : source[i] \in DOMAIN tracks
           THEN "relax" ELSE "invalid"
  /\ UNCHANGED <<args, cumulative, left, right>>

\* Mutant: the next member starts from zero.
AdvanceRightWithoutInheriting ==
  /\ pc = "relax"
  /\ left = right
  /\ right < Len(source)
  /\ right' = right + 1
  /\ left' = 1
  /\ UNCHANGED <<args, cumulative, pc>>

\* The inner loop is over: the next member inherits its neighbour's total.
AdvanceRight ==
  /\ pc = "relax"
  /\ left = right
  /\ right < Len(source)
  /\ right' = right + 1
  /\ left' = 1
  /\ cumulative' = [cumulative EXCEPT ![right + 1] = cumulative[right]]
  /\ UNCHANGED <<args, pc>>

\* Mutants: the window counted one too wide, and one too narrow.
RequiredTooWide(l, r) ==
  SaturatingSub(RequiredWindow(tracks, windows, source[l], source[r]) + 2, r - l)

RequiredTooNarrow(l, r) ==
  SaturatingSub(RequiredWindow(tracks, windows, source[l], source[r]), r - l)

Required(l, r) ==
  SaturatingSub(RequiredWindow(tracks, windows, source[l], source[r]) + 1, r - l)

Conflicting(l, r) == RequiredWindow(tracks, windows, source[l], source[r]) > 0

RelaxLeft ==
  /\ pc = "relax"
  /\ left < right
  /\ left' = left + 1
  /\ cumulative' =
       IF Conflicting(left, right)
       THEN [cumulative EXCEPT
               ![right] = Larger(@, cumulative[left] + Required(left, right))]
       ELSE cumulative
  /\ UNCHANGED <<args, right, pc>>

Finish ==
  /\ pc = "relax"
  /\ left = right
  /\ right >= Len(source)
  /\ pc' = "done"
  /\ UNCHANGED <<args, cumulative, left, right>>

Next == Validate \/ AdvanceRight \/ RelaxLeft \/ Finish

Spec == Init /\ [][Next]_vars

\* The value the function returns.
Minimum == IF source = <<>> THEN 0 ELSE cumulative[Len(source)]

-----------------------------------------------------------------------------
(***************************************************************************)
(* A placement says at which position of the finished route each source    *)
(* member stands.  It is admissible when the source order is kept and no   *)
(* two members repeat within a window, whatever is inserted between them.  *)
(***************************************************************************)
Admissible(place) ==
  /\ \A i \in 1..(Len(source) - 1) : place[i] < place[i + 1]
  /\ \A l, r \in Members :
       l < r => PairSafe(tracks, windows, source[l], source[r],
                         place[r] - place[l])

Additions(place) ==
  IF source = <<>> THEN 0
  ELSE place[Len(source)] - place[1] - (Len(source) - 1)

\* The placement the computed totals describe.
TightPlacement == [i \in Members |-> i + cumulative[i]]

\* The returned number is a lower bound: no admissible placement of the whole
\* source route gets by with fewer insertions (the early rejection of
\* plan_repeat_window_repair and the pruning of later gaps rely on it).
LowerBound ==
  pc = "done" =>
    \A place \in [Members -> Positions] :
      Admissible(place) => Minimum <= Additions(place)

\* The returned number is reached: inserting exactly as many tracks before
\* each member as the totals say satisfies every window, so an error that
\* reports it never overstates what is needed.
Attained ==
  pc = "done" =>
    /\ Admissible(TightPlacement)
    /\ Additions(TightPlacement) = Minimum

\* The loops compute the recurrence other modules use as a function: what each
\* inner loop has left behind is the final total of its member.
ComputesRecurrence ==
  pc = "done" => Minimum = MinimumRepeatSpacing(source, tracks, windows)
=============================================================================
