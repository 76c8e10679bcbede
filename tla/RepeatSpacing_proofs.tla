------------------------- MODULE RepeatSpacing_proofs -------------------------
(***************************************************************************)
(* The number minimum_repeat_spacing_additions returns is exactly the      *)
(* least number of insertions, for every source route, track table and     *)
(* window setting.  TLC checks LowerBound and Attained on short routes;    *)
(* here they follow from an inductive invariant.                           *)
(***************************************************************************)
EXTENDS RepeatSpacing, Operators_proofs

\* Between the first `right` members the totals never decrease.
Monotone ==
  \A i, j \in Members : i <= j /\ j <= right => cumulative[i] <= cumulative[j]

\* Every pair the loops have visited is spaced by its own requirement.
Relaxed ==
  \A l, r \in Members :
    /\ l < r
    /\ r < right \/ (r = right /\ l < left)
    /\ Conflicting(l, r)
    => cumulative[l] + Required(l, r) <= cumulative[r]

\* No admissible placement inserts less before any of the first members.
Bounded ==
  \A place \in [Members -> Positions] :
    Admissible(place) =>
      \A i \in Members :
        i <= right => cumulative[i] <= place[i] - place[1] - (i - 1)

Started == pc = "validate" => right = 1 /\ left = 1

Ended == pc = "done" => left = right /\ right >= Len(source)

IInv ==
  /\ TypeOK
  /\ Started
  /\ Ended
  /\ 1 \in Members => cumulative[1] = 0
  /\ Monotone
  /\ Relaxed
  /\ Bounded

-----------------------------------------------------------------------------
\* The applicable window is a natural number.
LEMMA WindowIsNat ==
  ASSUME NEW table, NEW a, NEW b,
         NEW w \in [artist : Nat, album : Nat, track : Nat]
  PROVE  RequiredWindow(table, w, a, b) \in Nat
BY DEF RequiredWindow, Larger

\* The single applicable window stands for the three separate tests: beyond
\* it a pair is safe.
LEMMA BeyondWindowIsSafe ==
  ASSUME NEW table, NEW a, NEW b, NEW d \in Int,
         NEW w \in [artist : Nat, album : Nat, track : Nat],
         d > RequiredWindow(table, w, a, b)
  PROVE  PairSafe(table, w, a, b, d)
BY DEF RequiredWindow, Larger, PairSafe, ArtistAndAlbumApart, SameTrackApart

\* ... and a safe pair to which some window applies stands beyond it.
LEMMA SafeIsBeyondWindow ==
  ASSUME NEW table, NEW a, NEW b, NEW d \in Int,
         NEW w \in [artist : Nat, album : Nat, track : Nat],
         PairSafe(table, w, a, b, d),
         RequiredWindow(table, w, a, b) > 0
  PROVE  d > RequiredWindow(table, w, a, b)
BY DEF RequiredWindow, Larger, PairSafe, ArtistAndAlbumApart, SameTrackApart

\* Requirements are natural numbers, so adding them never lowers a total.
LEMMA RequiredIsNat ==
  ASSUME TypeOK, NEW l \in Members, NEW r \in Members
  PROVE  /\ RequiredWindow(tracks, windows, source[l], source[r]) \in Nat
         /\ l < r => Required(l, r) \in Nat
<1>1. windows \in [artist : Nat, album : Nat, track : Nat]
  BY SpacingAssumption DEF TypeOK
<1>2. RequiredWindow(tracks, windows, source[l], source[r]) \in Nat
  BY <1>1, WindowIsNat
<1> QED
  BY <1>2 DEF Required, SaturatingSub, Members

\* The arithmetic of one comparison: a right member placed beyond the window of
\* its left partner leaves room for the partner's total and the requirement.
LEMMA LargerWithin ==
  ASSUME NEW cl \in Nat, NEW cr \in Nat, NEW pl \in Nat, NEW pr \in Nat,
         NEW first \in Nat, NEW l \in Nat, NEW r \in Nat, NEW window \in Nat,
         cl <= pl - first - (l - 1), cr <= pr - first - (r - 1),
         pr - pl > window
  PROVE  Larger(cr, cl + (window + 1 - (r - l))) <= pr - first - (r - 1)
BY DEF Larger

\* The source route is a finite sequence.
LEMMA LengthIsNat ==
  ASSUME TypeOK
  PROVE  Len(source) \in Nat
BY SpacingAssumption DEF TypeOK

\* The state before the first step satisfies the invariant.
LEMMA InitIInv == Init => IInv
<1> SUFFICES ASSUME Init PROVE IInv
  OBVIOUS
<1>1. Len(source) \in Nat
  BY SpacingAssumption DEF Init
<1>2. TypeOK
  BY <1>1 DEF Init, TypeOK, Members, Larger
<1>3. Started /\ Ended /\ (1 \in Members => cumulative[1] = 0)
  BY DEF Init, Started, Ended, Members
<1>4. Monotone /\ Relaxed
  BY <1>1 DEF Init, Monotone, Relaxed, Members
<1>5. Bounded
  <2> SUFFICES ASSUME NEW place \in [Members -> Positions],
                      NEW i \in Members, i <= right
               PROVE  cumulative[i] <= place[i] - place[1] - (i - 1)
    BY DEF Bounded
  <2>1. i = 1 /\ cumulative[i] = 0
    BY <1>1 DEF Init, Members
  <2>2. place[1] \in Nat
    BY <2>1, SpacingAssumption
  <2> QED
    BY <2>1, <2>2
<1> QED
  BY <1>2, <1>3, <1>4, <1>5 DEF IInv

\* Moving on to the next member: it inherits its neighbour's total.
LEMMA AdvanceRightIInv == IInv /\ AdvanceRight => IInv'
<1> SUFFICES ASSUME IInv, AdvanceRight PROVE IInv'
  OBVIOUS
<1> USE DEF IInv
<1>1. Len(source) \in Nat /\ right \in Nat /\ Members' = Members
  BY LengthIsNat DEF AdvanceRight, TypeOK, Members, args, Larger
<1>2. right \in Members /\ right + 1 \in Members /\ 1 \in Members
  BY <1>1 DEF AdvanceRight, TypeOK, Members
<1>3. /\ cumulative' \in [Members -> Nat]
      /\ cumulative'[right + 1] = cumulative[right]
      /\ \A i \in Members : i # right + 1 => cumulative'[i] = cumulative[i]
  BY <1>1, <1>2 DEF AdvanceRight, TypeOK
<1>4. TypeOK'
  BY <1>1, <1>2, <1>3 DEF AdvanceRight, TypeOK, Members, args, Larger
<1>5. Started' /\ Ended'
  BY DEF AdvanceRight, Started, Ended
<1>6. (1 \in Members => cumulative[1] = 0)'
  BY <1>1, <1>2, <1>3 DEF Members
<1>7. Monotone'
  BY <1>1, <1>2, <1>3 DEF Monotone, AdvanceRight, Members, TypeOK
<1>8. Relaxed'
  <2> SUFFICES ASSUME NEW l \in Members, NEW r \in Members, l < r,
                      r < right' \/ (r = right' /\ l < left'),
                      Conflicting(l, r)'
               PROVE  cumulative'[l] + Required(l, r)' <= cumulative'[r]
    BY <1>1 DEF Relaxed
  <2>1. r < right + 1 /\ l \in Nat /\ r \in Nat
    BY <1>1 DEF AdvanceRight, Members
  <2>2. Conflicting(l, r) /\ Required(l, r)' = Required(l, r)
    BY DEF AdvanceRight, args, Conflicting, Required
  <2>3. cumulative[l] + Required(l, r) <= cumulative[r]
    BY <1>1, <2>1, <2>2 DEF Relaxed, AdvanceRight
  <2> QED
    BY <1>1, <1>3, <2>1, <2>2, <2>3 DEF Members
<1>9. Bounded'
  <2> SUFFICES ASSUME NEW place \in [Members -> Positions],
                      Admissible(place)',
                      NEW i \in Members, i <= right'
               PROVE  cumulative'[i] <= place[i] - place[1] - (i - 1)
    BY <1>1 DEF Bounded
  <2>1. Admissible(place)
    BY DEF Admissible, AdvanceRight, args, Members
  <2>2. \A j \in Members : place[j] \in Nat
    BY SpacingAssumption
  <2>3. CASE i <= right
    BY <1>1, <1>3, <2>1, <2>3 DEF Bounded, Members
  <2>4. CASE i = right + 1
    <3>1. cumulative[right] <= place[right] - place[1] - (right - 1)
      BY <1>1, <1>2, <2>1 DEF Bounded
    <3>2. place[right] < place[right + 1]
      BY <1>1, <1>2, <2>1 DEF Admissible, AdvanceRight, Members
    <3> QED
      BY <1>1, <1>2, <1>3, <2>2, <2>4, <3>1, <3>2 DEF TypeOK
  <2> QED
    BY <1>1, <2>3, <2>4 DEF AdvanceRight, Members
<1> QED
  BY <1>4, <1>5, <1>6, <1>7, <1>8, <1>9

\* Comparing one more left member with the current one.
LEMMA RelaxLeftIInv == IInv /\ RelaxLeft => IInv'
<1> SUFFICES ASSUME IInv, RelaxLeft PROVE IInv'
  OBVIOUS
<1> USE DEF IInv
<1>1. /\ Len(source) \in Nat /\ right \in Nat /\ left \in Nat
      /\ Members' = Members
      /\ left < right
  BY LengthIsNat DEF RelaxLeft, TypeOK, Members, args, Larger
<1>2. left \in Members /\ right \in Members /\ 1 \in Members /\ right # 1
  BY <1>1 DEF TypeOK, Members, Larger
<1> DEFINE total == IF Conflicting(left, right)
                    THEN Larger(cumulative[right],
                                cumulative[left] + Required(left, right))
                    ELSE cumulative[right]
<1>3. Required(left, right) \in Nat
  BY <1>1, <1>2, RequiredIsNat
<1>4. total \in Nat /\ cumulative[right] <= total
  BY <1>2, <1>3 DEF TypeOK, Larger
<1>5. /\ cumulative' \in [Members -> Nat]
      /\ cumulative'[right] = total
      /\ \A i \in Members : i # right => cumulative'[i] = cumulative[i]
  BY <1>2, <1>3 DEF RelaxLeft, TypeOK, Larger
<1> HIDE DEF total
<1>6. TypeOK'
  BY <1>1, <1>2, <1>5 DEF RelaxLeft, TypeOK, Members, args, Larger
<1>7. Started' /\ Ended' /\ (1 \in Members => cumulative[1] = 0)'
  BY <1>1, <1>2, <1>5 DEF RelaxLeft, Started, Ended
<1>8. Monotone'
  <2> SUFFICES ASSUME NEW i \in Members, NEW j \in Members,
                      i <= j, j <= right'
               PROVE  cumulative'[i] <= cumulative'[j]
    BY <1>1 DEF Monotone
  <2>1. j <= right /\ i \in Nat /\ j \in Nat /\ cumulative[i] <= cumulative[j]
    BY DEF RelaxLeft, Monotone, Members
  <2> QED
    BY <1>1, <1>2, <1>4, <1>5, <2>1 DEF TypeOK
<1>9. Relaxed'
  <2> SUFFICES ASSUME NEW l \in Members, NEW r \in Members, l < r,
                      r < right' \/ (r = right' /\ l < left'),
                      Conflicting(l, r)'
               PROVE  cumulative'[l] + Required(l, r)' <= cumulative'[r]
    BY <1>1 DEF Relaxed
  <2>1. Conflicting(l, r) /\ Required(l, r)' = Required(l, r)
    BY DEF RelaxLeft, args, Conflicting, Required
  <2>2. l \in Nat /\ r \in Nat /\ l # right /\ r <= right
    BY <1>1 DEF RelaxLeft, Members
  <2>3. Required(l, r) \in Nat
    BY RequiredIsNat
  <2>4. CASE r < right \/ l < left
    <3>1. cumulative[l] + Required(l, r) <= cumulative[r]
      BY <1>1, <2>1, <2>2, <2>4 DEF Relaxed
    <3> QED
      BY <1>2, <1>4, <1>5, <2>1, <2>2, <2>3, <3>1 DEF TypeOK
  <2>5. CASE r = right /\ l = left
    <3>1. cumulative[left] + Required(left, right) <= total
      BY <1>2, <1>3, <2>1, <2>5 DEF total, Larger, TypeOK
    <3> QED
      BY <1>2, <1>5, <2>1, <2>2, <2>5, <3>1
  <2> QED
    BY <1>1, <2>2, <2>4, <2>5 DEF RelaxLeft
<1>10. Bounded'
  <2> SUFFICES ASSUME NEW place \in [Members -> Positions],
                      Admissible(place)',
                      NEW i \in Members, i <= right'
               PROVE  cumulative'[i] <= place[i] - place[1] - (i - 1)
    BY <1>1 DEF Bounded
  <2>1. Admissible(place)
    BY DEF Admissible, RelaxLeft, args, Members
  <2>2. \A j \in Members : place[j] \in Nat
    BY SpacingAssumption
  <2>3. \A j \in Members :
          j <= right => cumulative[j] <= place[j] - place[1] - (j - 1)
    BY <2>1 DEF Bounded
  <2>4. CASE i # right
    BY <1>5, <2>3, <2>4 DEF RelaxLeft
  <2>5. CASE i = right
    <3>1. total <= place[right] - place[1] - (right - 1)
      <4> DEFINE window == RequiredWindow(tracks, windows,
                                          source[left], source[right])
      <4>1. window \in Nat
        BY <1>2, RequiredIsNat
      <4>2. cumulative[left] <= cumulative[right]
        BY <1>1, <1>2 DEF Monotone
      <4>3. /\ cumulative[left] <= place[left] - place[1] - (left - 1)
            /\ cumulative[right] <= place[right] - place[1] - (right - 1)
        BY <1>1, <1>2, <2>3
      <4>4. ASSUME window > 0
            PROVE  place[right] - place[left] > window
        <5>1. PairSafe(tracks, windows, source[left], source[right],
                       place[right] - place[left])
          BY <1>1, <1>2, <2>1 DEF Admissible
        <5>2. windows \in [artist : Nat, album : Nat, track : Nat]
          BY SpacingAssumption DEF TypeOK
        <5>3. place[right] - place[left] \in Int
          BY <1>2, <2>2
        <5> QED
          BY <4>4, <5>1, <5>2, <5>3, SafeIsBeyondWindow
      <4>5. CASE ~Conflicting(left, right)
        BY <4>3, <4>5 DEF total
      <4>6. CASE Conflicting(left, right)
        <5>1. window > 0 /\ place[right] - place[left] > window
          BY <4>4, <4>6 DEF Conflicting
        <5>2. Required(left, right) = SaturatingSub(window + 1, right - left)
          BY DEF Required
        <5>3. /\ cumulative[left] \in Nat /\ cumulative[right] \in Nat
              /\ place[left] \in Nat /\ place[right] \in Nat
              /\ place[1] \in Nat
          BY <1>2, <2>2 DEF TypeOK
        <5>4. total = Larger(cumulative[right],
                             cumulative[left] + Required(left, right))
          BY <4>6 DEF total
        <5> HIDE DEF window
        <5>5. CASE window + 1 >= right - left
          <6>1. Required(left, right) = window + 1 - (right - left)
            BY <1>1, <4>1, <5>2, <5>5 DEF SaturatingSub
          <6> QED
            BY <1>1, <4>1, <4>3, <5>1, <5>3, <5>4, <6>1, LargerWithin
        <5>6. CASE ~(window + 1 >= right - left)
          <6>1. Required(left, right) = 0
            BY <5>2, <5>6 DEF SaturatingSub
          <6> QED
            BY <1>1, <4>2, <4>3, <5>3, <5>4, <6>1 DEF Larger
        <5> QED
          BY <5>5, <5>6
      <4> QED
        BY <4>5, <4>6
    <3> QED
      BY <1>5, <2>5, <3>1
  <2> QED
    BY <2>4, <2>5
<1> QED
  BY <1>6, <1>7, <1>8, <1>9, <1>10

\* The remaining steps leave the totals alone.
LEMMA OtherIInv == IInv /\ (Validate \/ Finish \/ UNCHANGED vars) => IInv'
<1> SUFFICES ASSUME IInv, Validate \/ Finish \/ UNCHANGED vars PROVE IInv'
  OBVIOUS
<1>1. UNCHANGED <<source, tracks, windows, cumulative, left, right>>
  BY DEF Validate, Finish, vars, args
<1>2. TypeOK'
  BY <1>1 DEF IInv, TypeOK, Validate, Finish, vars, Members
<1>3. Started' /\ Ended'
  BY <1>1 DEF IInv, Started, Ended, Validate, Finish, vars
<1>4. (1 \in Members => cumulative[1] = 0)' /\ Monotone' /\ Relaxed'
  BY <1>1 DEF IInv, Monotone, Relaxed, Members, Conflicting, Required
<1>5. Bounded'
  BY <1>1 DEF IInv, Bounded, Admissible, Members
<1> QED
  BY <1>2, <1>3, <1>4, <1>5 DEF IInv

\* The invariant holds throughout the computation.
THEOREM Invariance == Spec => []IInv
<1>1. IInv /\ [Next]_vars => IInv'
  BY AdvanceRightIInv, RelaxLeftIInv, OtherIInv DEF Next
<1> QED
  BY InitIInv, <1>1, PTL DEF Spec

\* Type correctness of the loop's variables.
THEOREM TypeCorrect == Spec => []TypeOK
<1>1. IInv => TypeOK
  BY DEF IInv
<1> QED
  BY Invariance, <1>1, PTL

\* No admissible placement of the source route inserts fewer tracks than
\* minimum_repeat_spacing_additions returns.
THEOREM MinimumIsLowerBound == Spec => []LowerBound
<1>1. IInv => LowerBound
  <2> SUFFICES ASSUME IInv, pc = "done",
                      NEW place \in [Members -> Positions], Admissible(place)
               PROVE  Minimum <= Additions(place)
    BY DEF LowerBound
  <2>1. CASE source = <<>>
    BY <2>1 DEF Minimum, Additions
  <2>2. CASE source # <<>>
    <3>1. Len(source) \in Members /\ Len(source) <= right
      BY <2>2, SpacingAssumption DEF IInv, TypeOK, Ended, Members, Larger
    <3>2. cumulative[Len(source)]
            <= place[Len(source)] - place[1] - (Len(source) - 1)
      BY <3>1 DEF IInv, Bounded
    <3> QED
      BY <2>2, <3>2 DEF Minimum, Additions
  <2> QED
    BY <2>1, <2>2
<1> QED
  BY Invariance, <1>1, PTL

\* Inserting what the totals say satisfies every window and adds up to the
\* returned number: the lower bound is attained.
THEOREM MinimumIsAttained == Spec => []Attained
<1>1. IInv => Attained
  <2> SUFFICES ASSUME IInv, pc = "done"
               PROVE  /\ Admissible(TightPlacement)
                      /\ Additions(TightPlacement) = Minimum
    BY DEF Attained
  <2>1. Len(source) \in Nat /\ right \in Nat /\ Len(source) <= right
    BY LengthIsNat DEF IInv, Ended, TypeOK, Larger
  <2>2. \A i \in Members : /\ i \in Nat /\ cumulative[i] \in Nat /\ i <= right
                           /\ TightPlacement[i] = i + cumulative[i]
    BY <2>1 DEF IInv, TypeOK, Members, TightPlacement
  <2>3. \A i, j \in Members : i <= j => cumulative[i] <= cumulative[j]
    BY <2>2 DEF IInv, Monotone
  <2>4. \A i \in 1..(Len(source) - 1) : TightPlacement[i] < TightPlacement[i + 1]
    BY <2>1, <2>2, <2>3 DEF Members
  <2>5. ASSUME NEW l \in Members, NEW r \in Members, l < r
        PROVE  PairSafe(tracks, windows, source[l], source[r],
                        TightPlacement[r] - TightPlacement[l])
    <3> DEFINE window == RequiredWindow(tracks, windows, source[l], source[r])
    <3>1. window \in Nat
      BY RequiredIsNat DEF IInv
    <3>2. cumulative[l] <= cumulative[r]
      BY <2>2, <2>3, <2>5
    <3>3. window > 0 => cumulative[l] + Required(l, r) <= cumulative[r]
      BY <2>1, <2>2, <2>5 DEF IInv, Relaxed, Conflicting, Ended
    <3>4. Required(l, r) = SaturatingSub(window + 1, r - l)
      BY DEF Required
    <3>5. /\ TightPlacement[r] - TightPlacement[l] \in Int
          /\ TightPlacement[r] - TightPlacement[l] > window
      <4> HIDE DEF window
      <4> QED
        BY <2>2, <2>5, <3>1, <3>2, <3>3, <3>4 DEF SaturatingSub
    <3>6. windows \in [artist : Nat, album : Nat, track : Nat]
      BY SpacingAssumption DEF IInv, TypeOK
    <3> QED
      BY <3>5, <3>6, BeyondWindowIsSafe
  <2>6. Additions(TightPlacement) = Minimum
    <3>1. CASE source = <<>>
      BY <3>1 DEF Additions, Minimum
    <3>2. CASE source # <<>>
      <4>1. Len(source) \in Members /\ 1 \in Members
        BY <2>1, <3>2, SpacingAssumption DEF IInv, TypeOK, Members
      <4>2. cumulative[1] = 0
        BY <4>1 DEF IInv
      <4> QED
        BY <2>2, <3>2, <4>1, <4>2 DEF Additions, Minimum
    <3> QED
      BY <3>1, <3>2
  <2> QED
    BY <2>4, <2>5, <2>6 DEF Admissible
<1> QED
  BY Invariance, <1>1, PTL

-----------------------------------------------------------------------------
(***************************************************************************)
(* The loops compute the recurrence that other modules use.                *)
(***************************************************************************)
\* A total is no larger than it must be: the member inherits it, or one of its
\* repeats demands it.
Earned ==
  \A r \in Members :
    1 < r /\ r <= right =>
      \/ cumulative[r] = cumulative[r - 1]
      \/ \E l \in Members :
           l < r /\ Conflicting(l, r) /\ cumulative[r] = cumulative[l] + Required(l, r)

EInv == IInv /\ Earned

LEMMA InitEInv == Init => EInv
<1> SUFFICES ASSUME Init PROVE EInv
  OBVIOUS
<1>1. IInv /\ Len(source) \in Nat
  BY InitIInv, SpacingAssumption DEF Init
<1>2. Earned
  BY <1>1 DEF Init, Earned, Members
<1> QED
  BY <1>1, <1>2 DEF EInv

LEMMA AdvanceRightEarned ==
  ASSUME EInv, AdvanceRight
  PROVE  Earned'
<1>1. Len(source) \in Nat /\ right \in Nat /\ Members' = Members /\ right' = right + 1
  BY LengthIsNat DEF AdvanceRight, EInv, IInv, TypeOK, Members, args, Larger
<1>2. right \in Members /\ right + 1 \in Members
  BY <1>1 DEF AdvanceRight, EInv, IInv, TypeOK, Members
<1>3. /\ cumulative'[right + 1] = cumulative[right]
      /\ \A i \in Members : i # right + 1 => cumulative'[i] = cumulative[i]
  BY <1>1, <1>2 DEF AdvanceRight, EInv, IInv, TypeOK
<1> SUFFICES ASSUME NEW r \in Members, 1 < r, r <= right'
             PROVE  \/ cumulative'[r] = cumulative'[r - 1]
                    \/ \E l \in Members : /\ l < r /\ Conflicting(l, r)'
                                          /\ cumulative'[r] = cumulative'[l] + Required(l, r)'
  BY <1>1 DEF Earned
<1>4. r \in Nat /\ r - 1 \in Members
  BY <1>1 DEF Members
<1>5. CASE r = right + 1
  <2>1. r - 1 = right /\ right # right + 1
    BY <1>1, <1>5
  <2> QED
    BY <1>2, <1>3, <1>5, <2>1
<1>6. CASE r <= right
  <2>1. cumulative'[r] = cumulative[r] /\ cumulative'[r - 1] = cumulative[r - 1]
    BY <1>1, <1>3, <1>4, <1>6
  <2>2. CASE cumulative[r] = cumulative[r - 1]
    BY <2>1, <2>2
  <2>3. CASE cumulative[r] # cumulative[r - 1]
    <3>1. PICK l \in Members :
            l < r /\ Conflicting(l, r) /\ cumulative[r] = cumulative[l] + Required(l, r)
      BY <1>6, <2>3 DEF EInv, Earned
    <3>2. cumulative'[l] = cumulative[l]
      BY <1>1, <1>3, <1>4, <1>6, <3>1 DEF Members
    <3>3. Conflicting(l, r)' /\ Required(l, r)' = Required(l, r)
      BY <3>1 DEF AdvanceRight, args, Conflicting, Required
    <3> QED
      BY <2>1, <3>1, <3>2, <3>3
  <2> QED
    BY <2>2, <2>3
<1> QED
  BY <1>1, <1>4, <1>5, <1>6

LEMMA RelaxLeftEarned ==
  ASSUME EInv, RelaxLeft
  PROVE  Earned'
<1>1. /\ Len(source) \in Nat /\ right \in Nat /\ left \in Nat
      /\ Members' = Members /\ right' = right
      /\ left < right
  BY LengthIsNat DEF RelaxLeft, EInv, IInv, TypeOK, Members, args, Larger
<1>2. left \in Members /\ right \in Members
  BY <1>1 DEF EInv, IInv, TypeOK, Members, Larger
<1>3. /\ cumulative'[right] =
           IF Conflicting(left, right)
           THEN Larger(cumulative[right], cumulative[left] + Required(left, right))
           ELSE cumulative[right]
      /\ \A i \in Members : i # right => cumulative'[i] = cumulative[i]
  BY <1>2 DEF RelaxLeft, EInv, IInv, TypeOK
<1>4. ASSUME NEW l, NEW r
      PROVE  (Conflicting(l, r)' <=> Conflicting(l, r)) /\ Required(l, r)' = Required(l, r)
  BY DEF RelaxLeft, args, Conflicting, Required
<1> SUFFICES ASSUME NEW r \in Members, 1 < r, r <= right'
             PROVE  \/ cumulative'[r] = cumulative'[r - 1]
                    \/ \E l \in Members : /\ l < r /\ Conflicting(l, r)'
                                          /\ cumulative'[r] = cumulative'[l] + Required(l, r)'
  BY <1>1 DEF Earned
<1>5. r \in Nat /\ r - 1 \in Members /\ r - 1 # right /\ r <= right
  BY <1>1 DEF Members
<1>6. cumulative'[r - 1] = cumulative[r - 1]
  BY <1>3, <1>5
<1>7. CASE cumulative'[r] = cumulative[r]
  <2>1. CASE cumulative[r] = cumulative[r - 1]
    BY <1>6, <1>7, <2>1
  <2>2. CASE cumulative[r] # cumulative[r - 1]
    <3>1. PICK l \in Members :
            l < r /\ Conflicting(l, r) /\ cumulative[r] = cumulative[l] + Required(l, r)
      BY <1>5, <2>2 DEF EInv, Earned
    <3>2. cumulative'[l] = cumulative[l]
      BY <1>1, <1>3, <1>5, <3>1 DEF Members
    <3> QED
      BY <1>4, <1>7, <3>1, <3>2
  <2> QED
    BY <2>1, <2>2
<1>8. CASE cumulative'[r] # cumulative[r]
  <2>1. /\ r = right /\ Conflicting(left, right)
        /\ cumulative'[r] = cumulative[left] + Required(left, right)
    BY <1>3, <1>8 DEF Larger
  <2>2. cumulative'[left] = cumulative[left]
    BY <1>1, <1>2, <1>3
  <2> QED
    BY <1>1, <1>2, <1>4, <2>1, <2>2
<1> QED
  BY <1>7, <1>8

\* Every total is inherited or demanded, throughout the computation.
THEOREM EarnedInvariance == Spec => []EInv
<1>1. IInv /\ [Next]_vars => IInv'
  BY AdvanceRightIInv, RelaxLeftIInv, OtherIInv DEF Next
<1>2. ASSUME EInv, Validate \/ Finish \/ UNCHANGED vars PROVE Earned'
  <2>1. UNCHANGED <<source, tracks, windows, cumulative, left, right>>
    BY <1>2 DEF Validate, Finish, vars, args
  <2> QED
    BY <1>2, <2>1 DEF EInv, Earned, Members, Conflicting, Required
<1>3. EInv /\ [Next]_vars => EInv'
  BY <1>1, <1>2, AdvanceRightEarned, RelaxLeftEarned DEF Next, EInv
<1> QED
  BY InitEInv, <1>3, PTL DEF Spec

\* The totals of the recurrence are the only function that satisfies it, and
\* what the loops leave behind satisfies it.
LEMMA TotalsAre ==
  ASSUME EInv, pc = "done", source # <<>>
  PROVE  RepeatSpacingTotals(source, tracks, windows) = cumulative
<1> DEFINE n == Len(source)
           Window(l, r) == RequiredWindow(tracks, windows, source[l], source[r])
           Demands(f, r) == {f[r - 1]} \cup
                              {f[l] + SaturatingSub(Window(l, r) + 1, r - l) :
                                 l \in {m \in 1..(r - 1) : Window(m, r) > 0}}
           Step(f, r) == IF r = 1 THEN 0 ELSE Max(Demands(f, r))
<1>1. /\ n \in Nat /\ right \in Nat /\ n <= right /\ Members = 1..n /\ n >= 1
      /\ cumulative \in [1..n -> Nat] /\ left = right
  BY LengthIsNat, SpacingAssumption DEF EInv, IInv, TypeOK, Ended, Members, Larger
<1>2. ASSUME NEW r \in 1..n, r # 1
      PROVE  Max(Demands(cumulative, r)) = cumulative[r]
  <2>1. r \in Nat /\ r - 1 \in 1..n /\ r <= right /\ 1 < r
    BY <1>1, <1>2
  <2>2. cumulative[r] \in Demands(cumulative, r)
    <3>1. CASE cumulative[r] = cumulative[r - 1]
      BY <3>1
    <3>2. CASE cumulative[r] # cumulative[r - 1]
      <4>1. PICK l \in Members :
              l < r /\ Conflicting(l, r) /\ cumulative[r] = cumulative[l] + Required(l, r)
        BY <1>1, <2>1, <3>2 DEF EInv, Earned
      <4>2. l \in {m \in 1..(r - 1) : Window(m, r) > 0}
        BY <1>1, <2>1, <4>1 DEF Conflicting
      <4>3. cumulative[r] = cumulative[l] + SaturatingSub(Window(l, r) + 1, r - l)
        BY <4>1 DEF Required
      <4> QED
        BY <4>2, <4>3
    <3> QED
      BY <3>1, <3>2
  <2>3. ASSUME NEW y \in Demands(cumulative, r) PROVE cumulative[r] >= y /\ y \in Nat
    <3>1. CASE y = cumulative[r - 1]
      BY <1>1, <2>1, <3>1 DEF EInv, IInv, Monotone
    <3>2. CASE y # cumulative[r - 1]
      <4>1. PICK l \in 1..(r - 1) :
              Window(l, r) > 0 /\ y = cumulative[l] + SaturatingSub(Window(l, r) + 1, r - l)
        BY <3>2
      <4>2. l \in Members /\ r \in Members /\ l < r /\ Conflicting(l, r)
        BY <1>1, <2>1, <4>1 DEF Conflicting
      <4>3. y = cumulative[l] + Required(l, r) /\ Required(l, r) \in Nat
        BY <4>1, <4>2, RequiredIsNat DEF Required, EInv, IInv
      <4>4. cumulative[l] + Required(l, r) <= cumulative[r]
        BY <1>1, <2>1, <4>2 DEF EInv, IInv, Relaxed
      <4> QED
        BY <1>1, <4>2, <4>3, <4>4
    <3> QED
      BY <3>1, <3>2
  <2> DEFINE S == Demands(cumulative, r)
  <2>4. cumulative[r] \in S /\ \A y \in S : cumulative[r] >= y /\ y \in Nat
    BY <2>2, <2>3
  <2> HIDE DEF S
  <2>5. cumulative[r] \in S /\ \A y \in S : cumulative[r] >= y
    BY <2>4
  <2>6. \A x \in S : (\A y \in S : x >= y) => x = cumulative[r]
    BY <2>4
  <2>7. Max(S) = cumulative[r]
    BY <2>5, <2>6 DEF Max
  <2> QED
    BY <2>7 DEF S
<1>3. 1 \in Members /\ cumulative[1] = 0
  BY <1>1 DEF EInv, IInv
<1> DEFINE Computed(f) == f = [r \in 1..n |-> Step(f, r)]
<1>4. Computed(cumulative)
  <2>1. \A r \in 1..n : cumulative[r] = Step(cumulative, r)
    BY <1>2, <1>3
  <2> HIDE DEF Step
  <2> QED
    BY <1>1, <2>1
<1> DEFINE total == RepeatSpacingTotals(source, tracks, windows)
<1>5. total = CHOOSE f : Computed(f)
  BY DEF RepeatSpacingTotals
<1>6. Computed(total)
  <2> HIDE DEF Computed, total
  <2> QED
    BY <1>4, <1>5
<1> HIDE DEF total
<1>7. /\ DOMAIN total = 1..n
      /\ \A r \in 1..n : total[r] = Step(total, r)
  <2> HIDE DEF Step
  <2> QED
    BY <1>6
<1> DEFINE Differ == {r \in 1..n : total[r] # cumulative[r]}
<1>8. ASSUME Differ # {} PROVE FALSE
  <2>1. Differ \in SUBSET Nat
    BY <1>1
  <2> HIDE DEF Differ
  <2>2. PICK r \in Differ : \A q \in Differ : r <= q
    BY <1>8, <2>1, LeastNatural
  <2>3. r \in 1..n /\ total[r] # cumulative[r]
    BY DEF Differ
  <2>4. ASSUME NEW q \in 1..n, q < r PROVE total[q] = cumulative[q]
    <3>1. q \notin Differ
      BY <2>2, <2>3, <2>4
    <3> QED
      BY <3>1 DEF Differ
  <2>5. CASE r = 1
    <3>1. total[r] = 0
      BY <1>7, <2>3, <2>5
    <3> QED
      BY <1>3, <2>3, <2>5, <3>1
  <2>6. CASE r # 1
    <3>1. r - 1 \in 1..n /\ r - 1 < r
      BY <1>1, <2>3, <2>6
    <3>2. total[r - 1] = cumulative[r - 1]
      BY <2>4, <3>1
    <3>3. \A l \in 1..(r - 1) : total[l] = cumulative[l]
      BY <1>1, <2>3, <2>4
    <3>4. Demands(total, r) = Demands(cumulative, r)
      <4> HIDE DEF Window
      <4> QED
        BY <3>2, <3>3
    <3>5. total[r] = Max(Demands(total, r))
      BY <1>7, <2>3, <2>6
    <3>6. Max(Demands(cumulative, r)) = cumulative[r]
      BY <1>2, <2>3, <2>6
    <3> QED
      BY <2>3, <3>4, <3>5, <3>6
  <2> QED
    BY <2>5, <2>6
<1>9. \A r \in 1..n : total[r] = cumulative[r]
  BY <1>8
<1>10. total = [r \in 1..n |-> total[r]]
  <2> HIDE DEF Step
  <2> QED
    BY <1>6
<1>11. cumulative = [r \in 1..n |-> cumulative[r]]
  BY <1>1
<1>12. total = cumulative
  BY <1>9, <1>10, <1>11
<1> QED
  BY <1>12 DEF total

\* The number minimum_repeat_spacing_additions returns is the value of the
\* recurrence with which the planners of the other modules are modelled.
THEOREM LoopsComputeRecurrence == Spec => []ComputesRecurrence
<1>1. EInv => ComputesRecurrence
  <2> SUFFICES ASSUME EInv, pc = "done"
               PROVE  Minimum = MinimumRepeatSpacing(source, tracks, windows)
    BY DEF ComputesRecurrence
  <2>1. CASE source = <<>>
    BY <2>1 DEF Minimum, MinimumRepeatSpacing
  <2>2. CASE source # <<>>
    BY <2>2, TotalsAre DEF Minimum, MinimumRepeatSpacing
  <2> QED
    BY <2>1, <2>2
<1> QED
  BY <1>1, EarnedInvariance, PTL
=============================================================================
