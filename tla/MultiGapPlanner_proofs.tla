------------------------ MODULE MultiGapPlanner_proofs ------------------------
(***************************************************************************)
(* Proofs about the multi-gap planner and the search it calls: every       *)
(* partial route in the beam fills the gaps it has crossed, so a returned  *)
(* plan is sound; only the first track can fail the final proof; with wide *)
(* limits planning is exact; and so, step by step, is the search of a gap. *)
(***************************************************************************)
EXTENDS MultiGapPlanner, AnchoredPathSearch, Operators_proofs

-----------------------------------------------------------------------------
(***************************************************************************)
(* MembersIn keeps the members of a set; what is appended from outside the *)
(* set changes nothing.                                                    *)
(***************************************************************************)
KeepStep(S, route) ==
  [p \in Seq(Nat) \X (1..Len(route)) |->
     IF route[p[2]] \in S THEN Append(p[1], route[p[2]]) ELSE p[1]]

LEMMA MembersAreRun ==
  ASSUME NEW S, NEW route \in Seq(Nat)
  PROVE  \E g : /\ IsRun(g, Seq(Nat), Len(route), <<>>, KeepStep(S, route))
                /\ MembersIn(S, route) = g[Len(route)]
<1> DEFINE n == Len(route)
           T == Seq(Nat)
           start == <<>>
           step == KeepStep(S, route)
<1>1. n \in Nat /\ start \in T /\ n \in 0..n
  OBVIOUS
<1>2. step \in [T \X (1..n) -> T]
  <2>1. \A p \in T \X (1..n) :
          (IF route[p[2]] \in S THEN Append(p[1], route[p[2]]) ELSE p[1]) \in T
    OBVIOUS
  <2> QED
    BY <2>1 DEF KeepStep
<1>3. \A x \in T, m \in 1..n :
        step[<<x, m>>] = IF route[m] \in S THEN Append(x, route[m]) ELSE x
  BY DEF KeepStep
<1> DEFINE Computed(f) ==
             f = [m \in 0..n |->
                    IF m = 0 THEN <<>>
                    ELSE IF route[m] \in S THEN Append(f[m - 1], route[m]) ELSE f[m - 1]]
           kept == CHOOSE f : Computed(f)
<1>4. MembersIn(S, route) = kept[n]
  BY DEF MembersIn
<1> HIDE DEF n, T, step
<1>5. PICK g : IsRun(g, T, n, start, step)
  BY <1>1, <1>2, RunExists
<1>6. g[0] = start
  BY <1>1, <1>5, RunStarts
<1>7. \A m \in 0..n : g[m] \in T
  BY <1>1, <1>5, RunStays
<1>8. \A m \in 1..n : g[m] = step[<<g[m - 1], m>>]
  BY <1>1, <1>5, RunSteps
<1>9. Computed(g)
  <2>1. ASSUME NEW m \in 0..n
        PROVE  g[m] = IF m = 0 THEN <<>>
                      ELSE IF route[m] \in S THEN Append(g[m - 1], route[m]) ELSE g[m - 1]
    <3>1. CASE m = 0
      BY <1>6, <3>1
    <3>2. CASE m # 0
      <4>1. m \in 1..n /\ m - 1 \in 0..n
        BY <1>1, <3>2
      <4>2. g[m] = step[<<g[m - 1], m>>] /\ g[m - 1] \in T
        BY <1>7, <1>8, <4>1
      <4>3. step[<<g[m - 1], m>>]
              = IF route[m] \in S THEN Append(g[m - 1], route[m]) ELSE g[m - 1]
        BY <1>3, <4>1, <4>2
      <4> QED
        BY <3>2, <4>2, <4>3
    <3> QED
      BY <3>1, <3>2
  <2>2. g = [m \in 0..n |-> g[m]]
    BY <1>5 DEF IsRun
  <2> QED
    BY <2>1, <2>2
<1>10. Computed(kept)
  <2> HIDE DEF Computed
  <2> QED
    BY <1>9
<1> HIDE DEF kept
<1>11. TakesSteps(kept, T, n, start, step)
  <2>1. kept[0] = start
    BY <1>1, <1>10
  <2>2. ASSUME NEW m \in 1..n, kept[m - 1] \in T
        PROVE  kept[m] = step[<<kept[m - 1], m>>]
    <3>1. m \in 0..n /\ m # 0
      BY <1>1
    <3>2. kept[m] = IF route[m] \in S THEN Append(kept[m - 1], route[m]) ELSE kept[m - 1]
      BY <1>10, <3>1
    <3> QED
      BY <1>3, <2>2, <3>2
  <2> QED
    BY <2>1, <2>2 DEF TakesSteps
<1>12. \A m \in 0..n : g[m] = kept[m]
  BY <1>1, <1>5, <1>11, RunsAgree
<1>13. MembersIn(S, route) = g[n]
  BY <1>1, <1>4, <1>12
<1> QED
  BY <1>5, <1>13 DEF n, T, step

LEMMA MembersAreSeq ==
  ASSUME NEW S, NEW route \in Seq(Nat)
  PROVE  MembersIn(S, route) \in Seq(Nat)
<1> DEFINE n == Len(route)
           T == Seq(Nat)
           start == <<>>
           step == KeepStep(S, route)
<1>1. PICK g : IsRun(g, T, n, start, step) /\ MembersIn(S, route) = g[n]
  BY MembersAreRun
<1>2. n \in Nat /\ n \in 0..n
  OBVIOUS
<1> HIDE DEF n, T, step, start
<1>3. \A m \in 0..n : g[m] \in T
  BY <1>1, <1>2, RunStays
<1> QED
  BY <1>1, <1>2, <1>3 DEF T

\* The run over a longer route passes through the members of the shorter one.
LEMMA LongerRun ==
  ASSUME NEW S, NEW route \in Seq(Nat), NEW more \in Seq(Nat), Len(route) <= Len(more),
         \A i \in 1..Len(route) : more[i] = route[i]
  PROVE  \E f : /\ IsRun(f, Seq(Nat), Len(more), <<>>, KeepStep(S, more))
                /\ MembersIn(S, more) = f[Len(more)]
                /\ MembersIn(S, route) = f[Len(route)]
<1> DEFINE k == Len(route)
           n == Len(more)
           T == Seq(Nat)
           start == <<>>
           short == KeepStep(S, route)
           long == KeepStep(S, more)
<1>1. k \in Nat /\ n \in Nat /\ k \in 0..n /\ k \in 0..k
  OBVIOUS
<1>2. PICK g : IsRun(g, T, k, start, short) /\ MembersIn(S, route) = g[k]
  BY MembersAreRun
<1>3. PICK f : IsRun(f, T, n, start, long) /\ MembersIn(S, more) = f[n]
  BY MembersAreRun
<1>4. \A x \in T, m \in 1..k :
        short[<<x, m>>] = IF route[m] \in S THEN Append(x, route[m]) ELSE x
  BY DEF KeepStep
<1>5. \A x \in T, m \in 1..n :
        long[<<x, m>>] = IF more[m] \in S THEN Append(x, more[m]) ELSE x
  BY DEF KeepStep
<1>6. \A m \in 1..k : m \in 1..n /\ more[m] = route[m]
  BY <1>1
<1> HIDE DEF k, n, T, start, short, long
<1>7. g[0] = start
  BY <1>1, <1>2, RunStarts
<1>8. \A m \in 0..k : g[m] \in T
  BY <1>1, <1>2, RunStays
<1>9. \A m \in 1..k : g[m] = short[<<g[m - 1], m>>]
  BY <1>1, <1>2, RunSteps
<1>10. ASSUME NEW m \in 1..k PROVE g[m] = long[<<g[m - 1], m>>]
  <2>1. m - 1 \in 0..k
    BY <1>1
  <2>2. g[m - 1] \in T
    BY <1>8, <2>1
  <2>3. short[<<g[m - 1], m>>]
          = IF route[m] \in S THEN Append(g[m - 1], route[m]) ELSE g[m - 1]
    BY <1>4, <2>2
  <2>4. long[<<g[m - 1], m>>]
          = IF more[m] \in S THEN Append(g[m - 1], more[m]) ELSE g[m - 1]
    BY <1>5, <1>6, <2>2
  <2> QED
    BY <1>6, <1>9, <2>3, <2>4
<1>11. TakesSteps(g, T, k, start, long)
  BY <1>7, <1>10 DEF TakesSteps
<1>12. \A m \in 0..k : f[m] = g[m]
  BY <1>1, <1>3, <1>11, RunsAgree
<1>13. MembersIn(S, route) = f[k]
  BY <1>1, <1>2, <1>12
<1> QED
  BY <1>3, <1>13 DEF k, n, T, start, long

LEMMA OutsidersAreDropped ==
  ASSUME NEW S, NEW route \in Seq(Nat), NEW more \in Seq(Nat), Len(route) <= Len(more),
         \A i \in 1..Len(route) : more[i] = route[i],
         \A i \in (Len(route) + 1)..Len(more) : more[i] \notin S
  PROVE  MembersIn(S, more) = MembersIn(S, route)
<1> DEFINE k == Len(route)
           n == Len(more)
           T == Seq(Nat)
           start == <<>>
           long == KeepStep(S, more)
<1>1. k \in Nat /\ n \in Nat /\ k <= n
  OBVIOUS
<1>2. PICK f : /\ IsRun(f, T, n, start, long)
               /\ MembersIn(S, more) = f[n]
               /\ MembersIn(S, route) = f[k]
  BY LongerRun
<1>3. \A x \in T, m \in 1..n :
        long[<<x, m>>] = IF more[m] \in S THEN Append(x, more[m]) ELSE x
  BY DEF KeepStep
<1>4. \A m \in (k + 1)..n : more[m] \notin S
  OBVIOUS
<1> HIDE DEF k, n, T, start, long
<1>5. \A m \in 0..n : f[m] \in T
  BY <1>1, <1>2, RunStays
<1>6. \A m \in 1..n : f[m] = long[<<f[m - 1], m>>]
  BY <1>1, <1>2, RunSteps
<1> DEFINE Bad == {m \in k..n : f[m] # f[k]}
<1>7. ASSUME Bad # {} PROVE FALSE
  <2>1. Bad \in SUBSET Nat
    BY <1>1
  <2> HIDE DEF Bad
  <2>2. PICK m \in Bad : \A l \in Bad : m <= l
    BY <1>7, <2>1, LeastNatural
  <2>3. m \in k..n /\ f[m] # f[k]
    BY DEF Bad
  <2>4. m # k
    BY <2>3
  <2>5. /\ m - 1 \in k..n /\ ~(m <= m - 1) /\ m \in 1..n /\ m - 1 \in 0..n
        /\ m \in (k + 1)..n
    BY <1>1, <2>3, <2>4
  <2>6. f[m - 1] = f[k]
    BY <2>2, <2>5 DEF Bad
  <2>7. f[m - 1] \in T
    BY <1>5, <2>5
  <2>8. long[<<f[m - 1], m>>] = f[m - 1]
    BY <1>3, <1>4, <2>5, <2>7
  <2> QED
    BY <1>6, <2>3, <2>5, <2>6, <2>8
<1>8. n \in k..n
  BY <1>1
<1> QED
  BY <1>2, <1>7, <1>8

LEMMA InsiderIsKept ==
  ASSUME NEW S, NEW route \in Seq(Nat), NEW x \in Nat, x \in S
  PROVE  MembersIn(S, Append(route, x)) = Append(MembersIn(S, route), x)
<1> DEFINE k == Len(route)
           n == k + 1
           more == Append(route, x)
           T == Seq(Nat)
           start == <<>>
           long == KeepStep(S, more)
<1>1. /\ k \in Nat /\ n \in Nat /\ k <= n /\ more \in Seq(Nat) /\ Len(more) = n
      /\ \A i \in 1..k : more[i] = route[i]
      /\ more[n] = x /\ n \in 1..n /\ n - 1 = k /\ k \in 0..n
  BY AppendProperties
<1>2. PICK f : /\ IsRun(f, T, n, start, long)
               /\ MembersIn(S, more) = f[n]
               /\ MembersIn(S, route) = f[k]
  <2> HIDE DEF more, n
  <2>1. PICK f : /\ IsRun(f, T, Len(more), start, long)
                 /\ MembersIn(S, more) = f[Len(more)]
                 /\ MembersIn(S, route) = f[Len(route)]
    BY <1>1, LongerRun
  <2> QED
    BY <1>1, <2>1
<1>3. \A y \in T, m \in 1..n :
        long[<<y, m>>] = IF more[m] \in S THEN Append(y, more[m]) ELSE y
  <2> HIDE DEF more, n
  <2> QED
    BY <1>1 DEF KeepStep
<1> HIDE DEF k, n, T, start, long, more
<1>8. n \in Nat /\ IsRun(f, T, n, start, long)
  BY <1>1, <1>2
<1>4. \A m \in 0..n : f[m] \in T
  BY <1>8, RunStays
<1>5. \A m \in 1..n : f[m] = long[<<f[m - 1], m>>]
  BY <1>8, RunSteps
<1>6. f[n] = long[<<f[k], n>>] /\ f[k] \in T
  <2>1. n \in 1..n /\ n - 1 = k /\ k \in 0..n
    BY <1>1
  <2>2. f[n] = long[<<f[n - 1], n>>]
    BY <1>5, <2>1
  <2>3. f[k] \in T
    BY <1>4, <2>1
  <2> QED
    BY <2>1, <2>2, <2>3
<1>7. long[<<f[k], n>>] = Append(f[k], x)
  BY <1>1, <1>3, <1>6
<1> QED
  BY <1>2, <1>6, <1>7 DEF more

-----------------------------------------------------------------------------
(***************************************************************************)
(* What the planner asks of the inner search is a request the inner search *)
(* was verified for, and what comes back is a good path for that gap.      *)
(***************************************************************************)
LEMMA PlanRequestFacts ==
  ASSUME NEW req, IsPlanRequest(req), ValidPlanRequest(req)
  PROVE  /\ req.source \in Seq(Nat) /\ req.history \in Seq(Nat)
         /\ Len(req.source) \in Nat /\ Len(req.source) >= 2
         /\ \A i \in 1..Len(req.source) : req.source[i] \in Nat
         /\ \A i \in 1..Len(req.source) : req.source[i] \in Elements(req.source)
         /\ Len(req.candidates) = Len(req.source) - 1
         /\ DOMAIN req.candidates = 1..(Len(req.source) - 1)
         /\ Gaps(req) = 1..(Len(req.source) - 1)
         /\ \A g \in Gaps(req) :
              /\ g \in Nat /\ g >= 1 /\ g + 1 \in 1..Len(req.source) /\ g \in 1..Len(req.source)
              /\ DOMAIN req.candidates[g] \subseteq Nat
              /\ IsFiniteSet(DOMAIN req.candidates[g])
              /\ req.candidates[g] \in [DOMAIN req.candidates[g] -> Int]
<1>1. /\ req.source \in Seq(Nat) /\ req.history \in Seq(Nat)
      /\ Len(req.source) \in Nat /\ Len(req.source) >= 2
      /\ Len(req.candidates) = Len(req.source) - 1
      /\ DOMAIN req.candidates = 1..Len(req.candidates)
  BY LenProperties DEF IsPlanRequest, ValidPlanRequest
<1>2. /\ \A i \in 1..Len(req.source) : req.source[i] \in Nat
      /\ DOMAIN req.source = 1..Len(req.source)
  BY <1>1, LenProperties
<1>3. \A i \in 1..Len(req.source) : req.source[i] \in Elements(req.source)
  BY <1>2 DEF Elements
<1>4. /\ DOMAIN req.candidates = 1..(Len(req.source) - 1)
      /\ Gaps(req) = 1..(Len(req.source) - 1)
  BY <1>1 DEF Gaps
<1>5. \A g \in Gaps(req) : g \in Nat /\ g >= 1 /\ g + 1 \in 1..Len(req.source) /\ g \in 1..Len(req.source)
  <2> DEFINE n == Len(req.source)
  <2>1. n \in Nat /\ Gaps(req) = 1..(n - 1)
    BY <1>1, <1>4
  <2> HIDE DEF n
  <2>2. \A g \in Gaps(req) : g \in Nat /\ g >= 1 /\ g + 1 \in 1..n /\ g \in 1..n
    BY <2>1
  <2> QED
    BY <2>2 DEF n
<1>6. \A g \in Gaps(req) :
        /\ DOMAIN req.candidates[g] \subseteq Nat
        /\ IsFiniteSet(DOMAIN req.candidates[g])
        /\ req.candidates[g] \in [DOMAIN req.candidates[g] -> Int]
  BY <1>4 DEF IsPlanRequest
<1> QED
  BY <1>1, <1>2, <1>3, <1>4, <1>5, <1>6

LEMMA MinimumAfterGapIsNat ==
  ASSUME NEW req, IsPlanRequest(req), NEW g \in Nat
  PROVE  MinimumAfterGap(req, g) \in Nat
<1> DEFINE rest == SubSeq(req.source, g + 1, Len(req.source))
<1>1. req.source \in Seq(Nat) /\ req.w \in [artist : Nat, album : Nat, track : Nat]
  BY DEF IsPlanRequest
<1>2. rest \in Seq(Nat)
  <2>1. /\ g + 1 \in Int /\ Len(req.source) \in Int
        /\ \A i \in (g + 1)..Len(req.source) : req.source[i] \in Nat
    BY <1>1, LenProperties
  <2> QED
    BY <2>1, SubSeqProperties
<1> HIDE DEF rest
<1>3. MinimumRepeatSpacing(rest, req.tracks, req.w) \in Nat
  BY <1>1, <1>2, MinimumSpacingIsNat
<1> QED
  BY <1>3 DEF rest, MinimumAfterGap

\* A repair never asks for more intermediates than its budget has left.
LEMMA MaxIntermediatesIs ==
  ASSUME NEW req, IsPlanRequest(req), NEW total \in Nat, NEW g \in Nat,
         NEW s, s.added \in Nat
  PROVE  /\ MaxIntermediates(req, total, g, s) \in Nat
         /\ req.policy = "exact" => MaxIntermediates(req, total, g, s) = req.perGap
         /\ req.policy = "repair" => MaxIntermediates(req, total, g, s) <= total
<1>1. MinimumAfterGap(req, g) \in Nat
  BY MinimumAfterGapIsNat
<1>2. req.perGap \in Nat /\ req.policy \in {"exact", "repair"}
  BY DEF IsPlanRequest
<1> DEFINE r == MinimumAfterGap(req, g)
           left == SaturatingSub(total, s.added)
<1> HIDE DEF r
<1>3. left \in Nat /\ left <= total
  BY DEF SaturatingSub
<1> HIDE DEF left
<1>4. SaturatingSub(left, r) \in Nat /\ SaturatingSub(left, r) <= total
  BY <1>1, <1>3 DEF SaturatingSub, r
<1> QED
  BY <1>2, <1>4 DEF MaxIntermediates, left, r

LEMMA PathRequestAdmitted ==
  ASSUME NEW req, IsPlanRequest(req), ValidPlanRequest(req),
         NEW total \in Nat, NEW g \in Gaps(req),
         NEW s, s.route \in Seq(Nat), s.added \in Nat,
         ValidRequest(PathRequest(req, total, g, s))
  PROVE  Admitted(PathRequest(req, total, g, s))
<1> DEFINE pr == PathRequest(req, total, g, s)
           most == MaxIntermediates(req, total, g, s)
<1>1. g \in Nat /\ most \in Nat
  BY PlanRequestFacts, MaxIntermediatesIs
<1>2. /\ pr.history = req.history /\ pr.prefix = s.route
      /\ pr.unavailable = req.source \o s.route
      /\ pr.left = req.source[g] /\ pr.right = req.source[g + 1]
      /\ pr.candidates = req.candidates[g] /\ pr.w = req.w /\ pr.tracks = req.tracks
      /\ pr.distance = req.distance /\ pr.exempt = 0 /\ pr.max = most
      /\ pr.candidateLimit = req.candidateLimit /\ pr.beam = req.beam
      /\ pr.alternatives = req.alternatives /\ pr.variation = 0
  BY Zenon DEF PathRequest
<1>3. ValidRequest(pr)
  OBVIOUS
<1> HIDE DEF pr, most
<1>4. /\ pr.history \in Seq(Nat) /\ pr.prefix \in Seq(Nat) /\ pr.unavailable \in Seq(Nat)
      /\ pr.left \in Nat /\ pr.right \in Nat
  <2>1. req.source \o s.route \in Seq(Nat)
    BY PlanRequestFacts, ConcatProperties
  <2>2. req.source[g] \in Nat /\ req.source[g + 1] \in Nat /\ req.history \in Seq(Nat)
    BY PlanRequestFacts
  <2> QED
    BY <1>2, <2>1, <2>2
<1>5. /\ DOMAIN pr.candidates \subseteq Nat /\ IsFiniteSet(DOMAIN pr.candidates)
      /\ pr.candidates \in [DOMAIN pr.candidates -> Int]
  BY <1>2, PlanRequestFacts
<1>6. /\ pr.w \in [artist : Nat, album : Nat, track : Nat]
      /\ \A a, b \in DOMAIN pr.tracks : pr.distance[<<a, b>>] \in Nat \cup {Unreachable}
      /\ pr.max \in Nat /\ pr.candidateLimit \in Nat /\ pr.beam \in Nat
      /\ pr.alternatives \in Nat /\ pr.variation \in Nat
  <2>1. /\ req.w \in [artist : Nat, album : Nat, track : Nat]
        /\ \A a, b \in DOMAIN req.tracks : req.distance[<<a, b>>] \in Nat \cup {Unreachable}
        /\ req.candidateLimit \in Nat /\ req.beam \in Nat /\ req.alternatives \in Nat
    BY DEF IsPlanRequest
  <2> QED
    BY <1>1, <1>2, <2>1
<1>7. pr.exempt \in 0..Len(RepeatPrefix(pr))
  <2>1. RepeatPrefix(pr) \in Seq(Nat)
    BY <1>4, ConcatProperties DEF RepeatPrefix
  <2>2. Len(RepeatPrefix(pr)) \in Nat
    BY <2>1, LenProperties
  <2> QED
    BY <1>2, <2>2
<1>8. IsRequest(pr)
  BY <1>4, <1>5, <1>6, <1>7 DEF IsRequest
<1>9. Admitted(pr)
  BY <1>3, <1>8 DEF Admitted
<1> QED
  BY <1>9 DEF pr

\* The path an option of the gap stands for.
Takes(pr, n, path, o) ==
  /\ n \in Nat /\ path \in Paths(pr, n)
  /\ PathSafe(pr, path) /\ PathReachable(pr, path)
  /\ o = PathOption(pr, path)
  /\ n <= pr.max /\ n <= Cardinality(Available(pr))

LEMMA OptionIsTaken ==
  ASSUME NEW pr, Admitted(pr), NEW o \in AnchoredPaths(pr)
  PROVE  Takes(pr, Len(o.intermediates), o.intermediates, o)
<1>1. PICK n \in 0..StructuralUpperBound(pr) : o \in GoodPaths(pr, n)
  BY AnchoredPathsAreGood
<1>2. n \in Nat /\ n <= pr.max /\ n <= Cardinality(Available(pr))
  <2>1. pr.max \in Nat /\ Cardinality(Available(pr)) \in Nat
    BY AdmittedFacts DEF Admitted, IsRequest
  <2>2. /\ StructuralUpperBound(pr) \in Nat /\ StructuralUpperBound(pr) <= pr.max
        /\ StructuralUpperBound(pr) <= Cardinality(Available(pr))
    BY <2>1, MinOfTwo DEF StructuralUpperBound
  <2> QED
    BY <2>1, <2>2
<1>3. PICK path \in Paths(pr, n) :
        PathSafe(pr, path) /\ PathReachable(pr, path) /\ o = PathOption(pr, path)
  BY <1>1 DEF GoodPaths
<1>4. o.intermediates = path
  BY <1>3 DEF PathOption
<1>5. Len(path) = n
  BY <1>2, <1>3 DEF Paths
<1> QED
  BY <1>2, <1>3, <1>4, <1>5 DEF Takes

-----------------------------------------------------------------------------
(***************************************************************************)
(* A partial route of the beam after m gaps, conjunct by conjunct.         *)
(***************************************************************************)
Joints(req, m, gaps) == [g \in 1..m |-> Append(gaps[g], req.source[g + 1])]

\* The crossed gaps hold distinct tracks that are no source members, and the
\* route is the source members with them in between.
FillsGaps(req, m, s) ==
  /\ s.gaps \in [1..m -> Seq(Nat)]
  /\ s.route \in Seq(Nat)
  /\ s.route = <<req.source[1]>> \o FlattenSeq(Joints(req, m, s.gaps))
  /\ s.added = Len(FlattenSeq(s.gaps))
  /\ Len(s.route) = m + 1 + s.added
  /\ s.route[Len(s.route)] = req.source[m + 1]
  /\ IsInjective(FlattenSeq(s.gaps))
  /\ Elements(FlattenSeq(s.gaps)) \subseteq Elements(s.route) \ Elements(req.source)

\* Every crossed gap is filled as the reference fills it.
FillsAreAllowed(req, m, s) == \A g \in 1..m : s.gaps[g] \in GapFills(req, g)

\* The state carries the sum, bottleneck and guidance of exactly its route.
MeasuresRoute(req, m, s) ==
  /\ \A i \in 1..(m + s.added) : RouteLegs(req, s.route)[i] \in Nat
  /\ s.sum = Total(RouteLegs(req, s.route))
  /\ IsBottleneck(s.worst, RouteLegs(req, s.route))
  /\ s.guidance = Total([g \in 1..m |-> GapGuidance(req, g, s.gaps[g])])

\* All pairs behind the first track are apart.
StaysApart(req, s) ==
  LET whole == req.history \o s.route
  IN \A j \in (Len(req.history) + 2)..Len(whole) : \A i \in 1..(j - 1) :
       PairSafe(req.tracks, req.w, whole[i], whole[j], j - i)

KeepsSource(req, m, s) ==
  MembersIn(Elements(req.source), s.route) = SubSeq(req.source, 1, m + 1)

StaysInBudget(req, total, m, s) ==
  IF req.policy = "exact" THEN s.added = m * req.perGap ELSE s.added <= total

Filled(req, total, m, s) ==
  /\ s = [route |-> s.route, gaps |-> s.gaps, added |-> s.added,
          sum |-> s.sum, worst |-> s.worst, guidance |-> s.guidance]
  /\ FillsGaps(req, m, s)
  /\ FillsAreAllowed(req, m, s)
  /\ MeasuresRoute(req, m, s)
  /\ StaysApart(req, s)
  /\ KeepsSource(req, m, s)
  /\ StaysInBudget(req, total, m, s)

LEMMA FillsGapsFacts ==
  ASSUME NEW req, NEW m \in Nat, NEW s, FillsGaps(req, m, s)
  PROVE  /\ FlattenSeq(s.gaps) \in Seq(Nat)
         /\ s.added \in Nat /\ Len(s.route) \in Nat /\ s.route # <<>>
         /\ s.gaps \in Seq(Seq(Nat)) /\ Len(s.gaps) = m
<1>1. s.gaps \in [1..m -> Seq(Nat)] /\ s.route \in Seq(Nat)
  BY DEF FillsGaps
<1>2. FlattenSeq(s.gaps) \in Seq(Nat)
  BY <1>1, FlattenIsSeq
<1>3. s.added \in Nat
  BY <1>2, LenProperties DEF FillsGaps
<1>4. Len(s.route) \in Nat /\ Len(s.route) >= 1
  BY <1>1, <1>3 DEF FillsGaps
<1>5. s.route # <<>>
  BY <1>4
<1>6. s.gaps \in Seq(Seq(Nat)) /\ Len(s.gaps) = m
  BY <1>1
<1> QED
  BY <1>2, <1>3, <1>4, <1>5, <1>6

LEMMA LongerFunction ==
  ASSUME NEW T, NEW k \in Nat, NEW f \in [1..k -> T], NEW e \in T
  PROVE  /\ Append(f, e) \in [1..(k + 1) -> T]
         /\ \A i \in 1..k : Append(f, e)[i] = f[i]
         /\ Append(f, e)[k + 1] = e
<1>1. f \in Seq(T) /\ Len(f) = k
  OBVIOUS
<1>2. /\ Append(f, e) \in Seq(T) /\ Len(Append(f, e)) = k + 1
      /\ \A i \in 1..k : Append(f, e)[i] = f[i]
      /\ Append(f, e)[k + 1] = e
  BY <1>1, AppendProperties
<1>3. Append(f, e) \in [1..(k + 1) -> T]
  BY <1>2, LenProperties
<1> QED
  BY <1>2, <1>3

LEMMA JointsAre ==
  ASSUME NEW req, NEW k \in Nat, NEW gaps \in [1..k -> Seq(Nat)],
         \A g \in 1..k : req.source[g + 1] \in Nat
  PROVE  /\ Joints(req, k, gaps) \in [1..k -> Seq(Nat)]
         /\ \A g \in 1..k : Joints(req, k, gaps)[g] = Append(gaps[g], req.source[g + 1])
<1>1. \A g \in 1..k : Append(gaps[g], req.source[g + 1]) \in Seq(Nat)
  BY AppendProperties
<1> QED
  BY <1>1 DEF Joints

\* The elements of two sequences in a row.
LEMMA ElementsOfBoth ==
  ASSUME NEW a \in Seq(Nat), NEW b \in Seq(Nat)
  PROVE  /\ \A y \in Elements(a) : y \in Elements(a \o b)
         /\ \A y \in Elements(b) : y \in Elements(a \o b)
         /\ \A y \in Elements(a \o b) : y \in Elements(a) \/ y \in Elements(b)
<1> DEFINE both == a \o b
           k == Len(a)
           n == Len(b)
<1>1. /\ k \in Nat /\ n \in Nat /\ both \in Seq(Nat) /\ Len(both) = k + n
      /\ \A i \in 1..k : both[i] = a[i]
      /\ \A i \in 1..n : both[k + i] = b[i]
      /\ DOMAIN a = 1..k /\ DOMAIN b = 1..n
  BY Concatenated, LenProperties
<1> HIDE DEF both, k, n
<1>2. DOMAIN both = 1..(k + n)
  BY <1>1, LenProperties
<1>3. ASSUME NEW i \in 1..k PROVE i \in 1..(k + n) /\ both[i] = a[i]
  BY <1>1
<1>4. ASSUME NEW i \in 1..n PROVE k + i \in 1..(k + n) /\ both[k + i] = b[i]
  BY <1>1
<1>5. ASSUME NEW i \in 1..(k + n), ~(i \in 1..k)
      PROVE  i - k \in 1..n /\ both[i] = b[i - k]
  <2>1. i - k \in 1..n /\ k + (i - k) = i
    BY <1>1, <1>5
  <2> QED
    BY <1>4, <2>1
<1>6. ASSUME NEW y \in Elements(a) PROVE y \in Elements(both)
  <2>1. PICK i \in 1..k : y = a[i]
    BY <1>1 DEF Elements
  <2>2. i \in DOMAIN both /\ y = both[i]
    BY <1>2, <1>3, <2>1
  <2> QED
    BY <2>2 DEF Elements
<1>7. ASSUME NEW y \in Elements(b) PROVE y \in Elements(both)
  <2>1. PICK i \in 1..n : y = b[i]
    BY <1>1 DEF Elements
  <2>2. k + i \in DOMAIN both /\ y = both[k + i]
    BY <1>2, <1>4, <2>1
  <2> QED
    BY <2>2 DEF Elements
<1>8. \A y \in Elements(both) : y \in Elements(a) \/ y \in Elements(b)
  <2> SUFFICES ASSUME NEW y \in Elements(both) PROVE y \in Elements(a) \/ y \in Elements(b)
    OBVIOUS
  <2>1. PICK i \in 1..(k + n) : y = both[i]
    BY <1>2 DEF Elements
  <2>2. CASE i \in 1..k
    BY <1>1, <1>3, <2>1, <2>2 DEF Elements
  <2>3. CASE ~(i \in 1..k)
    <3>1. i - k \in DOMAIN b /\ y = b[i - k]
      BY <1>1, <1>5, <2>1, <2>3
    <3> QED
      BY <3>1 DEF Elements
  <2> QED
    BY <2>2, <2>3
<1> QED
  BY <1>6, <1>7, <1>8 DEF both

HasParts(whole, a, p, r) ==
  /\ whole \in Seq(Nat) /\ Len(whole) = Len(a) + Len(p) + 1
  /\ \A i \in 1..Len(a) : whole[i] = a[i]
  /\ \A i \in 1..Len(p) : whole[Len(a) + i] = p[i]
  /\ whole[Len(a) + Len(p) + 1] = r

LEMMA PartsOfThree ==
  ASSUME NEW a \in Seq(Nat), NEW p \in Seq(Nat), NEW r \in Nat
  PROVE  HasParts(a \o p \o <<r>>, a, p, r)
<1> DEFINE whole == a \o p \o <<r>>
<1>1. /\ whole \in Seq(Nat) /\ Len(whole) = Len(a) + Len(p) + 1
      /\ \A i \in 1..Len(a) : whole[i] = a[i]
      /\ \A i \in 1..Len(p) : whole[Len(a) + i] = p[i]
      /\ whole[Len(a) + Len(p) + 1] = r
  BY ThreeParts
<1> HIDE DEF whole
<1>2. HasParts(whole, a, p, r)
  BY <1>1 DEF HasParts
<1> QED
  BY <1>2 DEF whole

\* The state a path of the next gap leads to.
Grown(req, m, s, path, t) ==
  /\ t.route = s.route \o path \o <<req.source[m + 2]>>
  /\ t.gaps = Append(s.gaps, path)
  /\ t.added = s.added + Len(path)

LEMMA LengthGrows ==
  ASSUME NEW m \in Nat, NEW n \in Nat, NEW added \in Nat,
         NEW old, old = m + 1 + added, NEW new, new = old + n + 1
  PROVE  new = (m + 1) + 1 + (added + n)
  OBVIOUS

\* A candidate of the gap that is available is in no route and no source yet.
LEMMA RouteGrows ==
  ASSUME NEW req, IsPlanRequest(req), ValidPlanRequest(req),
         NEW m \in Nat, m + 1 \in Gaps(req), NEW s, FillsGaps(req, m, s),
         NEW path \in Seq(Nat), IsInjective(path),
         \A i \in 1..Len(path) : path[i] \notin Elements(req.source \o s.route),
         NEW t, Grown(req, m, s, path, t)
  PROVE  FillsGaps(req, m + 1, t)
<1> DEFINE x == req.source[m + 2]
           n == Len(path)
           flat == FlattenSeq(s.gaps)
           joined == FlattenSeq(Joints(req, m, s.gaps))
           first == <<req.source[1]>>
<1>1. /\ x \in Nat /\ req.source[1] \in Nat /\ x \in Elements(req.source)
      /\ \A g \in 1..(m + 1) : req.source[g + 1] \in Nat
      /\ m + 2 \in 1..Len(req.source) /\ (m + 1) + 1 = m + 2
  <2>1. m + 2 \in 1..Len(req.source) /\ (m + 1) + 1 = m + 2 /\ 1 \in 1..Len(req.source)
    BY PlanRequestFacts
  <2>2. \A g \in 1..(m + 1) : g + 1 \in 1..Len(req.source)
    BY <2>1, PlanRequestFacts
  <2> QED
    BY <2>1, <2>2, PlanRequestFacts
<1>2. /\ s.gaps \in [1..m -> Seq(Nat)] /\ s.route \in Seq(Nat)
      /\ s.route = first \o joined
      /\ s.added = Len(flat) /\ Len(s.route) = m + 1 + s.added
      /\ IsInjective(flat) /\ Elements(flat) \subseteq Elements(s.route) \ Elements(req.source)
      /\ flat \in Seq(Nat) /\ s.added \in Nat /\ n \in Nat /\ Len(s.gaps) = m
      /\ s.gaps \in Seq(Seq(Nat))
  BY FillsGapsFacts, LenProperties DEF FillsGaps
<1>3. /\ t.gaps \in [1..(m + 1) -> Seq(Nat)]
      /\ \A g \in 1..m : t.gaps[g] = s.gaps[g]
      /\ t.gaps[m + 1] = path
  <2> DEFINE T == Seq(Nat)
             old == s.gaps
             new == Append(old, path)
  <2>1. t.gaps = new
    BY DEF Grown
  <2>2. old \in [1..m -> T] /\ path \in T /\ m \in Nat
    BY <1>2
  <2> HIDE DEF T, old
  <2>3. /\ new \in [1..(m + 1) -> T]
        /\ \A i \in 1..m : new[i] = old[i]
        /\ new[m + 1] = path
    <3>1. old \in Seq(T) /\ Len(old) = m
      BY <2>2
    <3>2. /\ new \in Seq(T) /\ Len(new) = Len(old) + 1
          /\ \A i \in 1..Len(old) : new[i] = old[i]
          /\ new[Len(old) + 1] = path
      BY <2>2, <3>1, AppendProperties
    <3> HIDE DEF new
    <3>3. new \in [1..Len(new) -> T]
      BY <3>2, LenProperties
    <3> QED
      BY <3>1, <3>2, <3>3
  <2> HIDE DEF new
  <2> QED
    BY <2>1, <2>3 DEF T, old
<1>4. FlattenSeq(t.gaps) = flat \o path
  <2> DEFINE short == s.gaps
             long == t.gaps
  <2>2. /\ short \in [1..m -> Seq(Nat)] /\ long \in [1..(m + 1) -> Seq(Nat)]
        /\ \A g \in 1..m : long[g] = short[g]
    BY <1>2, <1>3
  <2> HIDE DEF short, long
  <2>3. FlattenSeq(long) = FlattenSeq(short) \o long[m + 1]
    BY <2>2, FlattenOfAppend
  <2>1. FlattenSeq(t.gaps) = FlattenSeq(s.gaps) \o t.gaps[m + 1]
    BY <2>3 DEF short, long
  <2> QED
    BY <1>3, <2>1
<1>5. FlattenSeq(Joints(req, m + 1, t.gaps)) = joined \o Append(path, x)
  <2> DEFINE short == Joints(req, m, s.gaps)
             long == Joints(req, m + 1, t.gaps)
  <2>0. \A g \in 1..m : g \in 1..(m + 1) /\ m + 1 \in 1..(m + 1) /\ m + 1 \in Nat
    OBVIOUS
  <2>1. short \in [1..m -> Seq(Nat)] /\ \A g \in 1..m : short[g] = Append(s.gaps[g], req.source[g + 1])
    <3>1. \A g \in 1..m : req.source[g + 1] \in Nat
      BY <1>1, <2>0
    <3>2. s.gaps \in [1..m -> Seq(Nat)]
      BY <1>2
    <3> QED
      BY <3>1, <3>2, JointsAre
  <2>2. /\ long \in [1..(m + 1) -> Seq(Nat)]
        /\ \A g \in 1..(m + 1) : long[g] = Append(t.gaps[g], req.source[g + 1])
    <3> DEFINE k == m + 1
    <3>1. k \in Nat /\ t.gaps \in [1..k -> Seq(Nat)] /\ \A g \in 1..k : req.source[g + 1] \in Nat
      BY <1>1, <1>3
    <3> HIDE DEF k
    <3>2. /\ Joints(req, k, t.gaps) \in [1..k -> Seq(Nat)]
          /\ \A g \in 1..k : Joints(req, k, t.gaps)[g] = Append(t.gaps[g], req.source[g + 1])
      BY <3>1, JointsAre
    <3> QED
      BY <3>2 DEF k
  <2>3. \A g \in 1..m : long[g] = short[g]
    <3> HIDE DEF short, long
    <3> QED
      BY <1>3, <2>0, <2>1, <2>2
  <2>4. long[m + 1] = Append(path, x)
    <3>1. m + 1 \in 1..(m + 1)
      OBVIOUS
    <3> HIDE DEF short, long
    <3> QED
      BY <1>1, <1>3, <2>2, <3>1
  <2> HIDE DEF short, long
  <2>5. FlattenSeq(long) = FlattenSeq(short) \o long[m + 1]
    BY <2>1, <2>2, <2>3, FlattenOfAppend
  <2> QED
    BY <2>4, <2>5 DEF short, long
<1>6. joined \in Seq(Nat)
  <2>1. \A g \in 1..m : req.source[g + 1] \in Nat
    BY <1>1
  <2>2. Joints(req, m, s.gaps) \in [1..m -> Seq(Nat)]
    BY <1>2, <2>1, JointsAre
  <2> QED
    BY <2>2, FlattenIsSeq
<1>7. /\ t.route \in Seq(Nat) /\ Len(t.route) = Len(s.route) + n + 1
      /\ \A i \in 1..Len(s.route) : t.route[i] = s.route[i]
      /\ \A i \in 1..n : t.route[Len(s.route) + i] = path[i]
      /\ t.route[Len(s.route) + n + 1] = x
  <2> DEFINE r == s.route
             longer == r \o path \o <<x>>
  <2>1. t.route = longer /\ r \in Seq(Nat) /\ x \in Nat
    BY <1>1, <1>2 DEF Grown
  <2> HIDE DEF r, x
  <2>2. /\ longer \in Seq(Nat) /\ Len(longer) = Len(r) + Len(path) + 1
        /\ \A i \in 1..Len(r) : longer[i] = r[i]
        /\ \A i \in 1..Len(path) : longer[Len(r) + i] = path[i]
        /\ longer[Len(r) + Len(path) + 1] = x
    BY <2>1, PartsOfThree DEF HasParts
  <2> HIDE DEF longer
  <2> QED
    BY <2>1, <2>2 DEF r
<1> HIDE DEF x, flat, joined
<1>8. t.route = first \o (joined \o Append(path, x))
  <2> DEFINE last == <<x>>
  <2>1. first \in Seq(Nat) /\ last \in Seq(Nat)
    BY <1>1
  <2>2. Append(path, x) = path \o last
    BY <1>1, AppendIsConcat
  <2>3. t.route = (first \o joined) \o path \o last
    BY <1>2 DEF Grown, x
  <2> HIDE DEF first, last
  <2>4. path \o last \in Seq(Nat)
    BY <2>1, ConcatProperties
  <2>5. (first \o joined) \o path = first \o (joined \o path)
    BY <1>6, <2>1, JoinedInTurn
  <2>6. joined \o path \in Seq(Nat)
    BY <1>6, ConcatProperties
  <2>7. (first \o (joined \o path)) \o last = first \o ((joined \o path) \o last)
    BY <2>1, <2>6, JoinedInTurn
  <2>8. (joined \o path) \o last = joined \o (path \o last)
    BY <1>6, <2>1, JoinedInTurn
  <2> QED
    BY <2>2, <2>3, <2>5, <2>7, <2>8
<1>9. /\ flat \o path \in Seq(Nat) /\ Len(flat \o path) = Len(flat) + n
      /\ DOMAIN (flat \o path) = 1..(Len(flat) + n)
      /\ \A i \in 1..(Len(flat) + n) :
           (flat \o path)[i] = IF i <= Len(flat) THEN flat[i] ELSE path[i - Len(flat)]
  <2>1. /\ flat \o path \in Seq(Nat) /\ Len(flat \o path) = Len(flat) + Len(path)
        /\ \A i \in 1..(Len(flat) + Len(path)) :
             (flat \o path)[i] = IF i <= Len(flat) THEN flat[i] ELSE path[i - Len(flat)]
    BY <1>2, ConcatProperties
  <2> QED
    BY <2>1, LenProperties
<1>10. t.added = Len(flat \o path) /\ Len(t.route) = (m + 1) + 1 + t.added
  <2>1. t.added = s.added + n
    BY DEF Grown
  <2>2. Len(flat) = s.added /\ Len(s.route) = m + 1 + s.added /\ n \in Nat /\ s.added \in Nat
    BY <1>2
  <2>3. Len(flat \o path) = Len(flat) + n /\ Len(t.route) = Len(s.route) + n + 1
    BY <1>7, <1>9
  <2> HIDE DEF n
  <2>4. t.added = Len(flat \o path)
    BY <2>1, <2>2, <2>3
  <2>6. m \in Nat
    OBVIOUS
  <2>5. Len(t.route) = (m + 1) + 1 + t.added
    <3> DEFINE old == Len(s.route)
               new == Len(t.route)
               added == s.added
    <3>1. old = m + 1 + added /\ new = old + n + 1
      BY <2>2, <2>3
    <3>2. n \in Nat /\ added \in Nat /\ m \in Nat
      BY <2>2
    <3> HIDE DEF old, new, added
    <3>3. new = (m + 1) + 1 + (added + n)
      BY <3>1, <3>2, LengthGrows
    <3> QED
      BY <2>1, <3>3 DEF new, added
  <2> QED
    BY <2>4, <2>5
<1>11. \A i \in 1..n : path[i] \notin Elements(req.source) /\ path[i] \notin Elements(s.route)
  <2>1. req.source \in Seq(Nat) /\ s.route \in Seq(Nat)
    BY <1>2, PlanRequestFacts
  <2>2. /\ \A y \in Elements(req.source) : y \in Elements(req.source \o s.route)
        /\ \A y \in Elements(s.route) : y \in Elements(req.source \o s.route)
    BY <2>1, ElementsOfBoth
  <2> QED
    BY <2>2
<1>12. DOMAIN flat = 1..Len(flat) /\ Len(flat) \in Nat /\ DOMAIN path = 1..n
       /\ DOMAIN t.route = 1..(Len(s.route) + n + 1) /\ Len(s.route) \in Nat
       /\ DOMAIN s.route = 1..Len(s.route)
  BY <1>2, <1>7, LenProperties
<1>13. \A i \in 1..Len(flat) : flat[i] \in Elements(s.route) /\ flat[i] \notin Elements(req.source)
  BY <1>2, <1>12 DEF Elements
<1>14. IsInjective(flat \o path)
  <2> SUFFICES ASSUME NEW a \in 1..(Len(flat) + n), NEW b \in 1..(Len(flat) + n),
                      (flat \o path)[a] = (flat \o path)[b]
               PROVE  a = b
    BY <1>9 DEF IsInjective
  <2>1. CASE a <= Len(flat) /\ b <= Len(flat)
    <3>1. a \in 1..Len(flat) /\ b \in 1..Len(flat) /\ flat[a] = flat[b]
      BY <1>9, <1>12, <2>1
    <3> QED
      BY <1>2, <1>12, <3>1 DEF IsInjective
  <2>2. CASE a <= Len(flat) /\ ~(b <= Len(flat))
    <3>1. a \in 1..Len(flat) /\ b - Len(flat) \in 1..n /\ flat[a] = path[b - Len(flat)]
      BY <1>2, <1>9, <1>12, <2>2
    <3> QED
      BY <1>11, <1>13, <3>1
  <2>3. CASE ~(a <= Len(flat)) /\ b <= Len(flat)
    <3>1. b \in 1..Len(flat) /\ a - Len(flat) \in 1..n /\ flat[b] = path[a - Len(flat)]
      BY <1>2, <1>9, <1>12, <2>3
    <3> QED
      BY <1>11, <1>13, <3>1
  <2>4. CASE ~(a <= Len(flat)) /\ ~(b <= Len(flat))
    <3>1. /\ a - Len(flat) \in 1..n /\ b - Len(flat) \in 1..n
          /\ path[a - Len(flat)] = path[b - Len(flat)]
      BY <1>2, <1>9, <1>12, <2>4
    <3>2. a - Len(flat) = b - Len(flat)
      BY <1>12, <3>1 DEF IsInjective
    <3> QED
      BY <1>12, <3>2
  <2> QED
    BY <2>1, <2>2, <2>3, <2>4
<1>15. ASSUME NEW y \in Elements(flat \o path)
       PROVE  y \in Elements(t.route) /\ y \notin Elements(req.source)
  <2>1. PICK i \in 1..(Len(flat) + n) : y = (flat \o path)[i]
    BY <1>9 DEF Elements
  <2>2. CASE i <= Len(flat)
    <3>1. y \in Elements(s.route) /\ y \notin Elements(req.source)
      BY <1>9, <1>12, <1>13, <2>1, <2>2
    <3>2. PICK j \in 1..Len(s.route) : y = s.route[j]
      BY <1>12, <3>1 DEF Elements
    <3>3. j \in DOMAIN t.route /\ t.route[j] = y
      <4>1. j \in 1..(Len(s.route) + n + 1)
        BY <1>2, <1>12, <3>2
      <4> QED
        BY <1>7, <1>12, <3>2, <4>1
    <3> QED
      BY <3>1, <3>3 DEF Elements
  <2>3. CASE ~(i <= Len(flat))
    <3>1. i - Len(flat) \in 1..n /\ y = path[i - Len(flat)]
      BY <1>2, <1>9, <1>12, <2>1, <2>3
    <3>2. PICK j \in 1..n : y = path[j]
      BY <3>1
    <3>3. Len(s.route) + j \in DOMAIN t.route /\ t.route[Len(s.route) + j] = y
      <4>1. Len(s.route) + j \in 1..(Len(s.route) + n + 1)
        BY <1>2, <1>12, <3>2, SMTT(30)
      <4> QED
        BY <1>7, <1>12, <3>2, <4>1
    <3> QED
      BY <1>11, <3>2, <3>3 DEF Elements
  <2> QED
    BY <2>2, <2>3
<1>16. t.route[Len(t.route)] = req.source[(m + 1) + 1]
  BY <1>1, <1>7 DEF x
<1>17. Elements(FlattenSeq(t.gaps)) \subseteq Elements(t.route) \ Elements(req.source)
  BY <1>4, <1>15
<1>18. t.route = <<req.source[1]>> \o FlattenSeq(Joints(req, m + 1, t.gaps))
  BY <1>5, <1>8
<1> HIDE DEF first
<1> QED
  BY <1>3, <1>4, <1>7, <1>10, <1>14, <1>16, <1>17, <1>18 DEF FillsGaps

-----------------------------------------------------------------------------
(***************************************************************************)
(* The measures of a longer route.                                         *)
(***************************************************************************)
LEMMA BottleneckIsGreatest ==
  ASSUME NEW k \in Nat, k >= 1, NEW legs \in [1..k -> Nat], NEW worst,
         IsBottleneck(worst, legs)
  PROVE  worst = Max(Range(legs))
<1> DEFINE most == Max(Range(legs))
<1>1. IsBottleneck(most, legs)
  BY GreatestLeg
<1> HIDE DEF most
<1>2. /\ \A i \in 1..k : legs[i] \in Nat
      /\ DOMAIN legs = 1..k /\ 1 \in 1..k
  OBVIOUS
<1>3. /\ worst \in Nat /\ most \in Nat
      /\ \A i \in 1..k : worst >= legs[i] /\ most >= legs[i]
      /\ worst = 0 \/ \E i \in 1..k : worst = legs[i]
      /\ most = 0 \/ \E i \in 1..k : most = legs[i]
  BY <1>1, <1>2 DEF IsBottleneck
<1>4. worst >= most
  BY <1>2, <1>3
<1>5. most >= worst
  BY <1>2, <1>3
<1>6. worst = most
  BY <1>3, <1>4, <1>5
<1> QED
  BY <1>6 DEF most

\* The bottleneck of two stretches in a row.
LEMMA BottleneckOfParts ==
  ASSUME NEW k \in Nat, NEW n \in Nat, NEW first \in [1..k -> Nat], NEW second \in [1..n -> Nat],
         NEW both \in [1..(k + n) -> Nat], InARow(k, n, first, second, both),
         NEW a, IsBottleneck(a, first), NEW b, IsBottleneck(b, second)
  PROVE  IsBottleneck(Larger(a, b), both)
<1>1. /\ a \in Nat /\ b \in Nat
      /\ \A i \in 1..k : a >= first[i]
      /\ \A i \in 1..n : b >= second[i]
      /\ a = 0 \/ \E i \in 1..k : a = first[i]
      /\ b = 0 \/ \E i \in 1..n : b = second[i]
  BY DEF IsBottleneck
<1>2. /\ Larger(a, b) \in Nat /\ Larger(a, b) >= a /\ Larger(a, b) >= b
      /\ Larger(a, b) = a \/ Larger(a, b) = b
  BY <1>1 DEF Larger
<1>3. /\ k \in Nat /\ n \in Nat
      /\ \A i \in 1..k : both[i] = first[i]
      /\ \A i \in 1..n : both[k + i] = second[i]
  BY DEF InARow
<1>4. ASSUME NEW i \in 1..(k + n) PROVE Larger(a, b) >= both[i]
  <2>1. CASE i <= k
    <3>1. i \in 1..k /\ both[i] = first[i] /\ first[i] \in Nat
      BY <1>3, <2>1
    <3> QED
      BY <1>1, <1>2, <3>1
  <2>2. CASE ~(i <= k)
    <3>1. i - k \in 1..n /\ k + (i - k) = i
      BY <1>3, <2>2
    <3>2. both[k + (i - k)] = second[i - k] /\ second[i - k] \in Nat
      BY <1>3, <3>1
    <3> QED
      BY <1>1, <1>2, <3>1, <3>2
  <2> QED
    BY <2>1, <2>2
<1>5. \A i \in 1..k : i \in 1..(k + n)
  BY <1>3
<1>6. \A i \in 1..n : k + i \in 1..(k + n)
  BY <1>3
<1>7. Larger(a, b) = 0 \/ \E i \in 1..(k + n) : Larger(a, b) = both[i]
  <2>1. CASE Larger(a, b) = a
    BY <1>1, <1>3, <1>5, <2>1
  <2>2. CASE Larger(a, b) = b
    BY <1>1, <1>3, <1>6, <2>2
  <2> QED
    BY <1>2, <2>1, <2>2
<1>8. DOMAIN both = 1..(k + n)
  OBVIOUS
<1> QED
  BY <1>2, <1>4, <1>7, <1>8 DEF IsBottleneck

LEMMA GapFillFacts ==
  ASSUME NEW req, IsPlanRequest(req), ValidPlanRequest(req), NEW g \in Gaps(req),
         NEW fill \in GapFills(req, g)
  PROVE  /\ \E n \in Nat : fill \in [1..n -> DOMAIN req.candidates[g]]
         /\ Len(fill) \in Nat /\ fill \in [1..Len(fill) -> DOMAIN req.candidates[g]]
         /\ fill \in Seq(Nat) /\ IsInjective(fill)
         /\ \A i \in 1..Len(fill) : fill[i] \notin Elements(req.source)
<1> DEFINE free == DOMAIN req.candidates[g] \ Elements(req.source)
           most == IF req.policy = "exact" THEN req.perGap
                   ELSE Min({req.maxAdded, Cardinality(free)})
           least == IF req.policy = "exact" THEN req.perGap ELSE 0
<1>1. fill \in UNION {[1..n -> free] : n \in least..most} /\ IsInjective(fill)
  BY DEF GapFills
<1>2. least \in Nat
  BY DEF IsPlanRequest
<1> HIDE DEF least, most
<1>3. PICK n \in Nat : fill \in [1..n -> free]
  BY <1>1, <1>2
<1>4. free \subseteq Nat /\ free \subseteq DOMAIN req.candidates[g] /\ free \cap Elements(req.source) = {}
  BY PlanRequestFacts
<1> HIDE DEF free
<1>5. fill \in Seq(Nat) /\ Len(fill) = n
  <2>1. fill \in [1..n -> Nat] /\ n \in Nat
    BY <1>3, <1>4
  <2> QED
    BY <2>1
<1>6. fill \in [1..n -> DOMAIN req.candidates[g]]
  BY <1>3, <1>4
<1>7. \A i \in 1..n : fill[i] \notin Elements(req.source)
  BY <1>3, <1>4
<1> QED
  BY <1>1, <1>5, <1>6, <1>7

LEMMA GapGuidanceIsInt ==
  ASSUME NEW req, IsPlanRequest(req), ValidPlanRequest(req), NEW g \in Gaps(req),
         NEW n \in Nat, NEW fill \in [1..n -> DOMAIN req.candidates[g]]
  PROVE  GapGuidance(req, g, fill) \in Int
<1> DEFINE values == [i \in DOMAIN fill |-> req.candidates[g][fill[i]]]
<1>1. req.candidates[g] \in [DOMAIN req.candidates[g] -> Int]
  BY PlanRequestFacts
<1>2. values \in [1..n -> Int]
  BY <1>1
<1> HIDE DEF values
<1>3. Total(values) \in Int
  BY <1>2, TotalIsInt
<1> QED
  BY <1>3 DEF values, GapGuidance

HasFields(s) ==
  s = [route |-> s.route, gaps |-> s.gaps, added |-> s.added,
       sum |-> s.sum, worst |-> s.worst, guidance |-> s.guidance]

LEMMA JoinedIsGrown ==
  ASSUME NEW req, NEW total, NEW m \in Nat, NEW s, NEW n, NEW path, NEW o,
         Takes(PathRequest(req, total, m + 1, s), n, path, o)
  PROVE  LET t == Joined(s, o)
             legs == Legs(PathRequest(req, total, m + 1, s), path)
         IN /\ Grown(req, m, s, path, t)
            /\ t.sum = s.sum + Total(legs)
            /\ t.worst = Larger(s.worst, Max(Range(legs)))
            /\ t.guidance = s.guidance + GapGuidance(req, m + 1, path)
            /\ HasFields(t)
<1> DEFINE pr == PathRequest(req, total, m + 1, s)
           t == Joined(s, o)
<1>1. /\ pr.prefix = s.route /\ pr.right = req.source[(m + 1) + 1]
      /\ pr.candidates = req.candidates[m + 1]
  BY Zenon DEF PathRequest
<1>2. (m + 1) + 1 = m + 2
  OBVIOUS
<1>3. o = PathOption(pr, path)
  BY DEF Takes
<1> HIDE DEF pr
<1>4. /\ o.intermediates = path
      /\ o.route = pr.prefix \o path \o <<pr.right>>
      /\ o.sum = Total(Legs(pr, path))
      /\ o.worst = Max(Range(Legs(pr, path)))
      /\ o.guidance = Total([i \in DOMAIN path |-> pr.candidates[path[i]]])
  BY <1>3, Zenon DEF PathOption
<1>5. /\ t.route = o.route /\ t.gaps = Append(s.gaps, o.intermediates)
      /\ t.added = s.added + Len(o.intermediates)
      /\ t.sum = s.sum + o.sum /\ t.worst = Larger(s.worst, o.worst)
      /\ t.guidance = s.guidance + o.guidance
  BY Zenon DEF Joined
<1>6. HasFields(t)
  <2>1. t = [route |-> t.route, gaps |-> t.gaps, added |-> t.added,
             sum |-> t.sum, worst |-> t.worst, guidance |-> t.guidance]
    BY DEF Joined
  <2> QED
    BY <2>1 DEF HasFields
<1> HIDE DEF t
<1>7. Grown(req, m, s, path, t)
  BY <1>1, <1>2, <1>4, <1>5 DEF Grown
<1>8. o.guidance = GapGuidance(req, m + 1, path)
  BY <1>1, <1>4 DEF GapGuidance
<1>9. /\ t.sum = s.sum + Total(Legs(pr, path))
      /\ t.worst = Larger(s.worst, Max(Range(Legs(pr, path))))
      /\ t.guidance = s.guidance + GapGuidance(req, m + 1, path)
  BY <1>4, <1>5, <1>8
<1> QED
  BY <1>6, <1>7, <1>9 DEF pr, t

\* The legs of the longer route: those of the route, then those of the path.
LEMMA RouteLegsGrow ==
  ASSUME NEW req, IsPlanRequest(req), ValidPlanRequest(req), NEW total,
         NEW m \in Nat, m + 1 \in Gaps(req), NEW s, FillsGaps(req, m, s),
         Admitted(PathRequest(req, total, m + 1, s)),
         NEW n \in Nat, NEW path \in Paths(PathRequest(req, total, m + 1, s), n),
         NEW t, Grown(req, m, s, path, t)
  PROVE  InARow(m + s.added, n + 1, RouteLegs(req, s.route),
                Legs(PathRequest(req, total, m + 1, s), path), RouteLegs(req, t.route))
<1> DEFINE pr == PathRequest(req, total, m + 1, s)
           k == m + s.added
           x == req.source[m + 2]
           y == req.source[m + 1]
           r == s.route
           q == t.route
           whole == <<pr.left>> \o path \o <<pr.right>>
<1>1. /\ pr.distance = req.distance /\ pr.left = req.source[m + 1]
      /\ pr.right = req.source[(m + 1) + 1]
  BY Zenon DEF PathRequest
<1>2. (m + 1) + 1 = m + 2 /\ m \in Nat /\ n \in Nat
  OBVIOUS
<1>3. /\ path \in [1..n -> Available(pr)] /\ Available(pr) \subseteq Nat
  BY AdmittedFacts DEF Paths
<1>4. pr.left \in Nat /\ pr.right \in Nat
  BY AdmittedFacts
<1> HIDE DEF pr
<1>5. path \in Seq(Nat) /\ Len(path) = n
  <2>1. path \in [1..n -> Nat]
    BY <1>3
  <2> QED
    BY <2>1
<1>6. /\ r \in Seq(Nat) /\ s.added \in Nat /\ Len(r) = k + 1 /\ k \in Nat
      /\ r[k + 1] = y
  <2>1. /\ r \in Seq(Nat) /\ s.added \in Nat /\ Len(r) = m + 1 + s.added
        /\ r[Len(r)] = y
    <3>1. s.added \in Nat
      BY <1>2, FillsGapsFacts
    <3>2. /\ s.route \in Seq(Nat) /\ Len(s.route) = m + 1 + s.added
          /\ s.route[Len(s.route)] = req.source[m + 1]
      BY Zenon DEF FillsGaps
    <3> QED
      BY <3>1, <3>2
  <2>2. s.added \in Nat
    BY <2>1
  <2>3. m + 1 + s.added = k + 1 /\ k \in Nat
    BY <1>2, <2>2
  <2> QED
    BY <2>1, <2>3
<1>7. x = pr.right /\ y = pr.left
  BY <1>1, <1>2
<1>8. q = r \o path \o <<pr.right>>
  BY <1>7 DEF Grown
<1> HIDE DEF k, x, y, r, q
<1>9. /\ q \in Seq(Nat) /\ Len(q) = k + n + 2
      /\ \A i \in 1..(k + 1) : q[i] = r[i]
      /\ \A i \in 1..n : q[(k + 1) + i] = path[i]
      /\ q[(k + 1) + n + 1] = pr.right
  <2> DEFINE e == pr.right
             longer == r \o path \o <<e>>
  <2>1. r \in Seq(Nat) /\ path \in Seq(Nat) /\ e \in Nat
    BY <1>4, <1>5, <1>6
  <2>2. q = longer
    BY <1>8
  <2> HIDE DEF e
  <2>3. /\ longer \in Seq(Nat) /\ Len(longer) = Len(r) + Len(path) + 1
        /\ \A i \in 1..Len(r) : longer[i] = r[i]
        /\ \A i \in 1..Len(path) : longer[Len(r) + i] = path[i]
        /\ longer[Len(r) + Len(path) + 1] = e
    BY <2>1, PartsOfThree DEF HasParts
  <2> HIDE DEF longer
  <2>4. (k + 1) + n + 1 = k + n + 2
    BY <1>2, <1>6
  <2> QED
    BY <1>5, <1>6, <2>2, <2>3, <2>4 DEF e
<1>10. /\ whole[1] = pr.left
       /\ \A i \in 1..n : whole[1 + i] = path[i]
       /\ whole[1 + n + 1] = pr.right
  <2> DEFINE a == <<pr.left>>
             e == pr.right
             longer == a \o path \o <<e>>
  <2>1. a \in Seq(Nat) /\ path \in Seq(Nat) /\ e \in Nat /\ Len(a) = 1 /\ a[1] = pr.left /\ 1 \in 1..1
    BY <1>4, <1>5
  <2>2. whole = longer
    OBVIOUS
  <2> HIDE DEF a, e, whole
  <2>parts. HasParts(longer, a, path, e)
    BY <2>1, PartsOfThree
  <2> HIDE DEF longer
  <2>3. /\ \A i \in 1..Len(a) : longer[i] = a[i]
        /\ \A i \in 1..Len(path) : longer[Len(a) + i] = path[i]
        /\ longer[Len(a) + Len(path) + 1] = e
    BY <2>parts, Zenon DEF HasParts
  <2> QED
    BY <1>5, <2>1, <2>2, <2>3 DEF e
<1> HIDE DEF whole
<1>11. ASSUME NEW i \in 1..(n + 2) PROVE q[k + i] = whole[i]
  <2>1. CASE i = 1
    BY <1>6, <1>7, <1>9, <1>10, <2>1
  <2>2. CASE i \in 2..(n + 1)
    <3>1. i - 1 \in 1..n /\ (k + 1) + (i - 1) = k + i /\ 1 + (i - 1) = i
      BY <1>2, <1>6, <2>2
    <3>2. q[(k + 1) + (i - 1)] = path[i - 1] /\ whole[1 + (i - 1)] = path[i - 1]
      BY <1>9, <1>10, <3>1
    <3> QED
      BY <3>1, <3>2
  <2>3. CASE i = n + 2
    <3>1. (k + 1) + n + 1 = k + i /\ 1 + n + 1 = i
      BY <1>2, <1>6, <2>3
    <3> QED
      BY <1>9, <1>10, <3>1
  <2>4. i = 1 \/ i \in 2..(n + 1) \/ i = n + 2
    BY <1>2
  <2> QED
    BY <2>1, <2>2, <2>3, <2>4
<1>12. Len(r) - 1 = k /\ Len(q) - 1 = k + (n + 1)
  BY <1>2, <1>6, <1>9
<1>13. RouteLegs(req, r) = [i \in 1..k |-> req.distance[<<r[i], r[i + 1]>>]]
  BY <1>12 DEF RouteLegs
<1>14. RouteLegs(req, q) = [i \in 1..(k + (n + 1)) |-> req.distance[<<q[i], q[i + 1]>>]]
  BY <1>12 DEF RouteLegs
<1>15. Legs(pr, path) = [i \in 1..(n + 1) |-> req.distance[<<whole[i], whole[i + 1]>>]]
  BY <1>1, <1>5 DEF Legs, whole
<1>16. ASSUME NEW i \in 1..k PROVE RouteLegs(req, q)[i] = RouteLegs(req, r)[i]
  <2>1. i \in 1..(k + 1) /\ i + 1 \in 1..(k + 1) /\ i \in 1..(k + (n + 1))
    BY <1>2, <1>6
  <2> QED
    BY <1>9, <1>13, <1>14, <2>1
<1>17. ASSUME NEW i \in 1..(n + 1) PROVE RouteLegs(req, q)[k + i] = Legs(pr, path)[i]
  <2>1. /\ k + i \in 1..(k + (n + 1)) /\ i \in 1..(n + 2) /\ i + 1 \in 1..(n + 2)
        /\ (k + i) + 1 = k + (i + 1)
    BY <1>2, <1>6
  <2>2. q[k + i] = whole[i] /\ q[k + (i + 1)] = whole[i + 1]
    BY <1>11, <2>1
  <2>3. RouteLegs(req, q)[k + i] = req.distance[<<q[k + i], q[(k + i) + 1]>>]
    BY <1>14, <2>1
  <2>4. Legs(pr, path)[i] = req.distance[<<whole[i], whole[i + 1]>>]
    BY <1>15
  <2> QED
    BY <2>1, <2>2, <2>3, <2>4
<1>18. /\ k \in Nat
       /\ DOMAIN RouteLegs(req, r) = 1..k
       /\ DOMAIN RouteLegs(req, q) = 1..(k + (n + 1))
  BY <1>6, <1>13, <1>14
<1>19. InARow(k, n + 1, RouteLegs(req, r), Legs(pr, path), RouteLegs(req, q))
  BY <1>16, <1>17, <1>18 DEF InARow
<1> QED
  BY <1>19 DEF k, r, q, pr

LEMMA LegsGrow ==
  ASSUME NEW req, IsPlanRequest(req), ValidPlanRequest(req), NEW total,
         NEW m \in Nat, m + 1 \in Gaps(req), NEW s, FillsGaps(req, m, s),
         MeasuresRoute(req, m, s),
         Admitted(PathRequest(req, total, m + 1, s)),
         NEW n, NEW path, NEW o, Takes(PathRequest(req, total, m + 1, s), n, path, o)
  PROVE  LET t == Joined(s, o)
         IN /\ \A i \in 1..((m + 1) + t.added) : RouteLegs(req, t.route)[i] \in Nat
            /\ t.sum = Total(RouteLegs(req, t.route))
            /\ IsBottleneck(t.worst, RouteLegs(req, t.route))
<1> DEFINE pr == PathRequest(req, total, m + 1, s)
           t == Joined(s, o)
           k == m + s.added
           c == n + 1
           first == RouteLegs(req, s.route)
           second == Legs(pr, path)
           both == RouteLegs(req, t.route)
<1>1. n \in Nat /\ path \in Paths(pr, n) /\ PathReachable(pr, path) /\ Admitted(pr)
  BY DEF Takes
<1>2. /\ Grown(req, m, s, path, t)
      /\ t.sum = s.sum + Total(second)
      /\ t.worst = Larger(s.worst, Max(Range(second)))
  BY JoinedIsGrown
<1>3. /\ s.sum = Total(first) /\ IsBottleneck(s.worst, first)
      /\ \A i \in 1..k : first[i] \in Nat
  BY Zenon DEF MeasuresRoute
<1>4. InARow(k, c, first, second, both)
  <2> HIDE DEF t
  <2>1. InARow(m + s.added, n + 1, RouteLegs(req, s.route), Legs(pr, path),
               RouteLegs(req, t.route))
    BY <1>1, <1>2, RouteLegsGrow
  <2>2. InARow(k, c, first, second, both)
    BY <2>1
  <2> HIDE DEF k, c, first, second, both
  <2> QED
    BY <2>2
<1>5. second \in [1..c -> Nat]
  BY <1>1, ReachableLegs
<1>6. c \in Nat /\ c >= 1
  BY <1>1
<1>7. t.added = s.added + n
  <2>1. Len(path) = n
    BY <1>1 DEF Paths
  <2> HIDE DEF t
  <2> QED
    BY <1>2, <2>1 DEF Grown
<1>8. (m + 1) + t.added = k + c
  <2>1. m \in Nat /\ s.added \in Nat
    BY FillsGapsFacts
  <2> HIDE DEF t
  <2> QED
    BY <1>1, <1>7, <2>1
<1>9. first = [i \in 1..k |-> first[i]] /\ both = [i \in 1..(k + c) |-> both[i]]
  <2>1. first = [i \in DOMAIN first |-> first[i]]
    BY DEF RouteLegs
  <2>2. both = [i \in DOMAIN both |-> both[i]]
    BY DEF RouteLegs
  <2> HIDE DEF first, both, k, c
  <2> QED
    BY <1>4, <2>1, <2>2 DEF InARow
<1> HIDE DEF pr, t, k, c, first, second, both
<1>parts. /\ k \in Nat
          /\ \A i \in 1..k : both[i] = first[i]
          /\ \A i \in 1..c : both[k + i] = second[i]
  BY <1>4 DEF InARow
<1>10. first \in [1..k -> Nat]
  BY <1>3, <1>9
<1>11. ASSUME NEW i \in 1..(k + c) PROVE both[i] \in Nat
  <2>1. CASE i <= k
    <3>1. i \in 1..k
      BY <1>parts, <2>1
    <3> QED
      BY <1>3, <1>parts, <3>1
  <2>2. CASE ~(i <= k)
    <3>sizes. k \in Nat /\ c \in Nat
      BY <1>6, <1>parts
    <3>1. i - k \in 1..c /\ k + (i - k) = i
      BY <2>2, <3>sizes
    <3>2. both[k + (i - k)] = second[i - k] /\ second[i - k] \in Nat
      BY <1>5, <1>parts, <3>1
    <3> QED
      BY <3>1, <3>2
  <2> QED
    BY <2>1, <2>2
<1>12. both \in [1..(k + c) -> Nat]
  BY <1>9, <1>11
<1>13. Total(both) = Total(first) + Total(second)
  <2>1. /\ first \in [1..k -> Int] /\ second \in [1..c -> Int]
        /\ both \in [1..(k + c) -> Int]
    BY <1>5, <1>10, <1>12
  <2> QED
    BY <1>4, <1>6, <1>parts, <2>1, TotalOfParts
<1>14. IsBottleneck(Max(Range(second)), second)
  BY <1>5, <1>6, GreatestLeg
<1>15. IsBottleneck(Larger(s.worst, Max(Range(second))), both)
  <2> DEFINE a == s.worst
             b == Max(Range(second))
  <2>1. IsBottleneck(a, first) /\ IsBottleneck(b, second)
    BY <1>3, <1>14
  <2> HIDE DEF a, b
  <2>2. IsBottleneck(Larger(a, b), both)
    BY <1>4, <1>5, <1>6, <1>10, <1>12, <1>parts, <2>1, BottleneckOfParts
  <2> QED
    BY <2>2 DEF a, b
<1>16. t.sum = Total(both) /\ IsBottleneck(t.worst, both)
  BY <1>2, <1>3, <1>13, <1>15
<1>17. \A i \in 1..((m + 1) + t.added) : both[i] \in Nat
  BY <1>8, <1>11
<1> QED
  BY <1>16, <1>17 DEF t, both

LEMMA GuidanceGrows ==
  ASSUME NEW req, IsPlanRequest(req), ValidPlanRequest(req), NEW total,
         NEW m \in Nat, m + 1 \in Gaps(req), NEW s, FillsGaps(req, m, s),
         FillsAreAllowed(req, m, s), MeasuresRoute(req, m, s),
         Admitted(PathRequest(req, total, m + 1, s)),
         NEW n, NEW path, NEW o, Takes(PathRequest(req, total, m + 1, s), n, path, o)
  PROVE  LET t == Joined(s, o) IN
         t.guidance = Total([g \in 1..(m + 1) |-> GapGuidance(req, g, t.gaps[g])])
<1> DEFINE pr == PathRequest(req, total, m + 1, s)
           t == Joined(s, o)
           first == [g \in 1..m |-> GapGuidance(req, g, s.gaps[g])]
           more == [g \in 1..(m + 1) |-> GapGuidance(req, g, t.gaps[g])]
<1>1. /\ n \in Nat /\ path \in [1..n -> Available(pr)]
  BY DEF Takes, Paths
<1>2. /\ t.gaps = Append(s.gaps, path)
      /\ t.guidance = s.guidance + GapGuidance(req, m + 1, path)
  <2>1. /\ Grown(req, m, s, path, t)
        /\ t.guidance = s.guidance + GapGuidance(req, m + 1, path)
    BY JoinedIsGrown
  <2> HIDE DEF t
  <2> QED
    BY <2>1 DEF Grown
<1>3. s.guidance = Total(first)
  BY DEF MeasuresRoute
<1>4. Available(pr) \subseteq DOMAIN req.candidates[m + 1]
  <2>1. pr.candidates = req.candidates[m + 1]
    BY Zenon DEF PathRequest
  <2> HIDE DEF pr
  <2> QED
    BY <2>1 DEF Available
<1>5. GapGuidance(req, m + 1, path) \in Int
  <2> HIDE DEF pr
  <2>1. path \in [1..n -> DOMAIN req.candidates[m + 1]]
    BY <1>1, <1>4
  <2> QED
    BY <1>1, <2>1, GapGuidanceIsInt
<1>6. /\ \A g \in 1..m : t.gaps[g] = s.gaps[g]
      /\ t.gaps[m + 1] = path
  <2>1. s.gaps \in Seq(Seq(Nat)) /\ Len(s.gaps) = m
    BY FillsGapsFacts
  <2>2. path \in Seq(Nat)
    <3>1. Available(pr) \subseteq Nat
      BY AdmittedFacts
    <3> HIDE DEF pr
    <3>2. path \in [1..n -> Nat] /\ n \in Nat
      BY <1>1, <3>1
    <3> QED
      BY <3>2
  <2> DEFINE T == Seq(Nat)
             old == s.gaps
             new == Append(old, path)
  <2>3. old \in Seq(T) /\ path \in T /\ Len(old) = m
    BY <2>1, <2>2
  <2>4. t.gaps = new
    BY <1>2
  <2> HIDE DEF T, old, t
  <2>5. (\A g \in 1..Len(old) : new[g] = old[g]) /\ new[Len(old) + 1] = path
    BY <2>3, AppendProperties
  <2> HIDE DEF new
  <2> QED
    BY <2>3, <2>4, <2>5 DEF old
<1> HIDE DEF t, pr
<1>7. ASSUME NEW g \in 1..m PROVE GapGuidance(req, g, s.gaps[g]) \in Int
  <2>1. g \in Gaps(req)
    BY PlanRequestFacts
  <2>2. s.gaps[g] \in GapFills(req, g)
    BY DEF FillsAreAllowed
  <2>3. PICK k \in Nat : s.gaps[g] \in [1..k -> DOMAIN req.candidates[g]]
    BY <2>1, <2>2, GapFillFacts
  <2> QED
    BY <2>1, <2>3, GapGuidanceIsInt
<1>8. first \in [1..m -> Int]
  BY <1>7
<1>9. \A g \in 1..m : more[g] = first[g]
  BY <1>6
<1>10. more[m + 1] = GapGuidance(req, m + 1, path)
  BY <1>6
<1>11. more \in [1..(m + 1) -> Int]
  <2>1. ASSUME NEW g \in 1..(m + 1) PROVE more[g] \in Int
    <3>1. g \in 1..m \/ g = m + 1
      OBVIOUS
    <3> HIDE DEF more
    <3>2. CASE g \in 1..m
      BY <1>8, <1>9, <3>2
    <3>3. CASE g = m + 1
      BY <1>5, <1>10, <3>3
    <3> QED
      BY <3>1, <3>2, <3>3
  <2>2. more = [g \in 1..(m + 1) |-> more[g]]
    OBVIOUS
  <2> HIDE DEF more
  <2> QED
    BY <2>1, <2>2
<1> HIDE DEF first, more
<1>12. Total(more) = Total(first) + more[m + 1]
  BY <1>8, <1>9, <1>11, TotalOfAppend
<1>13. t.guidance = Total(more)
  BY <1>2, <1>3, <1>10, <1>12
<1> QED
  BY <1>13 DEF more, t

-----------------------------------------------------------------------------
(***************************************************************************)
(* The promises of a longer route: its pairs are apart, the source members *)
(* keep their order, and the new gap is filled as the reference fills it.  *)
(***************************************************************************)
LEMMA ApartGrows ==
  ASSUME NEW req, IsPlanRequest(req), ValidPlanRequest(req), NEW total,
         NEW m \in Nat, m + 1 \in Gaps(req), NEW s, FillsGaps(req, m, s),
         StaysApart(req, s),
         Admitted(PathRequest(req, total, m + 1, s)),
         NEW n \in Nat, NEW path \in Paths(PathRequest(req, total, m + 1, s), n),
         PathSafe(PathRequest(req, total, m + 1, s), path),
         NEW t, Grown(req, m, s, path, t)
  PROVE  StaysApart(req, t)
<1> DEFINE pr == PathRequest(req, total, m + 1, s)
           before == RepeatPrefix(pr)
           last == <<pr.right>>
           whole == before \o path \o last
           h == Len(req.history)
           k == Len(before)
           r == s.route
           Safe(i, j) == PairSafe(req.tracks, req.w, whole[i], whole[j], j - i)
<1>1. /\ pr.history = req.history /\ pr.prefix = r /\ pr.exempt = 0
      /\ pr.tracks = req.tracks /\ pr.w = req.w
      /\ pr.right = req.source[(m + 1) + 1]
  BY Zenon DEF PathRequest
<1>2. before = req.history \o r
  BY <1>1 DEF RepeatPrefix
<1>3. /\ req.history \in Seq(Nat) /\ r \in Seq(Nat) /\ before \in Seq(Nat)
      /\ h \in Nat /\ k \in Nat
  <2>1. req.history \in Seq(Nat) /\ r \in Seq(Nat)
    BY PlanRequestFacts DEF FillsGaps
  <2> HIDE DEF r
  <2>2. before \in Seq(Nat)
    BY <1>2, <2>1, ConcatProperties
  <2> HIDE DEF before
  <2> QED
    BY <2>1, <2>2, LenProperties
<1>4. pr.right \in Nat /\ path \in [1..n -> Available(pr)] /\ Available(pr) \subseteq Nat
  BY AdmittedFacts DEF Paths
<1>5. (m + 1) + 1 = m + 2
  OBVIOUS
<1>6. t.route = r \o path \o last
  BY <1>1, <1>5 DEF Grown
<1>7. PathSafe(pr, path)
  OBVIOUS
<1> HIDE DEF pr, r, before
<1>8. path \in Seq(Nat) /\ Len(path) = n
  <2>1. path \in [1..n -> Nat] /\ n \in Nat
    BY <1>4
  <2> QED
    BY <2>1
<1>9. req.history \o t.route = whole
  <2>1. last \in Seq(Nat)
    BY <1>4
  <2> HIDE DEF last
  <2>2. r \o path \in Seq(Nat)
    BY <1>3, <1>8, ConcatProperties
  <2>3. (req.history \o (r \o path)) \o last = req.history \o ((r \o path) \o last)
    <3> DEFINE past == req.history
               more == r \o path
    <3>1. past \in Seq(Nat) /\ more \in Seq(Nat) /\ last \in Seq(Nat)
      BY <1>3, <2>1, <2>2
    <3> HIDE DEF past, more
    <3>2. (past \o more) \o last = past \o (more \o last)
      BY <3>1, JoinedInTurn
    <3> QED
      BY <3>2 DEF past, more
  <2>4. (req.history \o r) \o path = req.history \o (r \o path)
    BY <1>3, <1>8, JoinedInTurn
  <2> QED
    BY <1>2, <1>6, <2>3, <2>4
<1>10. /\ whole \in Seq(Nat) /\ Len(whole) = k + n + 1
       /\ \A i \in 1..k : whole[i] = before[i]
  <2> DEFINE e == pr.right
             longer == before \o path \o <<e>>
  <2>1. e \in Nat /\ whole = longer
    BY <1>4
  <2> HIDE DEF e
  <2>typed. before \in Seq(Nat) /\ path \in Seq(Nat)
    BY <1>3, <1>8
  <2> HIDE DEF before
  <2>parts. HasParts(longer, before, path, e)
    BY <2>1, <2>typed, PartsOfThree
  <2> HIDE DEF longer, whole
  <2>2. /\ longer \in Seq(Nat) /\ Len(longer) = Len(before) + Len(path) + 1
        /\ \A i \in 1..Len(before) : longer[i] = before[i]
        /\ \A i \in 1..Len(path) : longer[Len(before) + i] = path[i]
        /\ longer[Len(before) + Len(path) + 1] = e
    BY <2>parts, Zenon DEF HasParts
  <2> QED
    BY <1>8, <2>1, <2>2 DEF before
<1>11. ASSUME NEW j \in (k + 1)..Len(whole), NEW i \in 1..(j - 1) PROVE Safe(i, j)
  <2>1. (j = Len(whole) /\ i <= pr.exempt)
          \/ PairSafe(pr.tracks, pr.w, whole[i], whole[j], j - i)
    BY <1>7, Zenon DEF PathSafe, before
  <2>2. ~(i <= 0)
    <3> HIDE DEF whole, k
    <3> QED
      BY <1>3, <1>10
  <2> HIDE DEF whole
  <2> QED
    BY <1>1, <2>1, <2>2
<1>12. ASSUME NEW j \in (h + 2)..k, NEW i \in 1..(j - 1) PROVE Safe(i, j)
  <2>1. PairSafe(req.tracks, req.w, before[i], before[j], j - i)
    BY <1>2 DEF StaysApart, r
  <2>2. i \in 1..k /\ j \in 1..k
    BY <1>3
  <2> HIDE DEF whole
  <2> QED
    BY <1>10, <2>1, <2>2
<1>13. ASSUME NEW j \in (h + 2)..Len(whole), NEW i \in 1..(j - 1) PROVE Safe(i, j)
  <2>1. j \in (k + 1)..Len(whole) \/ j \in (h + 2)..k
    BY <1>3, <1>10
  <2> HIDE DEF Safe, whole, k, h
  <2> QED
    BY <1>11, <1>12, <2>1
<1> HIDE DEF whole
<1> QED
  BY <1>9, <1>13 DEF StaysApart

LEMMA SourceGrows ==
  ASSUME NEW req, IsPlanRequest(req), ValidPlanRequest(req),
         NEW m \in Nat, m + 1 \in Gaps(req), NEW s, FillsGaps(req, m, s),
         KeepsSource(req, m, s),
         NEW path \in Seq(Nat),
         \A i \in 1..Len(path) : path[i] \notin Elements(req.source),
         NEW t, Grown(req, m, s, path, t)
  PROVE  KeepsSource(req, m + 1, t)
<1> DEFINE S == Elements(req.source)
           x == req.source[m + 2]
           r == s.route
           more == r \o path
<1>1. /\ x \in Nat /\ x \in S /\ r \in Seq(Nat) /\ req.source \in Seq(Nat)
      /\ m + 1 \in 1..Len(req.source) /\ m + 2 \in 1..Len(req.source) /\ (m + 1) + 1 = m + 2
  <2>1. m + 2 \in 1..Len(req.source) /\ m + 1 \in 1..Len(req.source) /\ (m + 1) + 1 = m + 2
    BY PlanRequestFacts
  <2> QED
    BY <2>1, PlanRequestFacts DEF FillsGaps
<1>2. MembersIn(S, r) = SubSeq(req.source, 1, m + 1)
  BY DEF KeepsSource
<1>3. t.route = more \o <<x>>
  BY DEF Grown
<1>4. \A i \in 1..Len(path) : path[i] \notin S
  OBVIOUS
<1> HIDE DEF S, x, r
<1>5. MembersIn(S, more) = MembersIn(S, r)
  <2>1. /\ more \in Seq(Nat) /\ Len(r) \in Nat /\ Len(path) \in Nat
        /\ Len(more) = Len(r) + Len(path)
        /\ \A i \in 1..Len(r) : more[i] = r[i]
        /\ \A i \in 1..Len(path) : more[Len(r) + i] = path[i]
    BY <1>1, Concatenated
  <2> DEFINE a == Len(r)
             b == Len(path)
             c == Len(more)
  <2> HIDE DEF more, a, b, c
  <2>2. ASSUME NEW i \in (a + 1)..c PROVE more[i] \notin S
    <3>1. i - a \in 1..b /\ a + (i - a) = i
      BY <2>1 DEF a, b, c
    <3>2. more[a + (i - a)] = path[i - a]
      BY <2>1, <3>1 DEF a, b
    <3> QED
      BY <1>4, <3>1, <3>2 DEF b
  <2>3. a <= c
    BY <2>1 DEF a, b, c
  <2> QED
    BY <1>1, <2>1, <2>2, <2>3, OutsidersAreDropped DEF a, c
<1>6. more \in Seq(Nat)
  BY <1>1, ConcatProperties
<1> HIDE DEF more
<1>7. t.route = Append(more, x)
  BY <1>1, <1>3, <1>6, AppendIsConcat
<1>8. MembersIn(S, t.route) = Append(MembersIn(S, more), x)
  BY <1>1, <1>6, <1>7, InsiderIsKept
<1>9. SubSeq(req.source, 1, m + 2) = Append(SubSeq(req.source, 1, m + 1), x)
  <2> DEFINE short == SubSeq(req.source, 1, m + 1)
             long == SubSeq(req.source, 1, m + 2)
             grown == Append(short, x)
             src == req.source
  <2>1. /\ m + 1 \in 1..Len(src) /\ m + 2 \in 1..Len(src) /\ src \in Seq(Nat) /\ m \in Nat
        /\ src[m + 2] = x /\ x \in Nat
    BY <1>1 DEF x
  <2> HIDE DEF src
  <2>6. \A i \in 1..Len(src) : src[i] \in Nat
    BY <2>1, LenProperties
  <2>2. /\ short \in Seq(Nat) /\ Len(short) = m + 1
        /\ \A i \in 1..(m + 1) : short[i] = src[i]
    <3>1. \A i \in 1..(m + 1) : src[i] \in Nat
      BY <2>1, <2>6
    <3> QED
      BY <2>1, <3>1 DEF src
  <2>3. /\ long \in Seq(Nat) /\ Len(long) = m + 2
        /\ \A i \in 1..(m + 2) : long[i] = src[i]
    <3>1. \A i \in 1..(m + 2) : src[i] \in Nat
      BY <2>1, <2>6
    <3> QED
      BY <2>1, <3>1 DEF src
  <2> HIDE DEF short, long
  <2>4. /\ grown \in Seq(Nat) /\ Len(grown) = Len(short) + 1
        /\ \A i \in 1..Len(short) : grown[i] = short[i]
        /\ grown[Len(short) + 1] = x
    BY <2>1, <2>2, AppendProperties
  <2> HIDE DEF grown
  <2>5. Len(grown) = m + 2
    BY <2>2, <2>4
  <2>7. \A i \in 1..(m + 2) : grown[i] = long[i]
    <3> SUFFICES ASSUME NEW i \in 1..(m + 2) PROVE grown[i] = long[i]
      OBVIOUS
    <3>1. CASE i \in 1..(m + 1)
      BY <2>2, <2>3, <2>4, <3>1
    <3>2. CASE i = m + 2
      <4>1. Len(short) + 1 = m + 2
        BY <2>1, <2>2
      <4> QED
        BY <2>1, <2>3, <2>4, <3>2, <4>1
    <3> QED
      BY <3>1, <3>2
  <2>8. grown = long
    BY <2>1, <2>3, <2>4, <2>5, <2>7, SeqEqual
  <2> QED
    BY <2>8 DEF grown, long, short
<1>10. MembersIn(S, t.route) = SubSeq(req.source, 1, (m + 1) + 1)
  BY <1>1, <1>2, <1>5, <1>8, <1>9
<1> QED
  BY <1>10 DEF KeepsSource, S

LEMMA FreeIsFinite ==
  ASSUME NEW req, IsPlanRequest(req), ValidPlanRequest(req), NEW total, NEW g \in Gaps(req), NEW s,
         FillsGaps(req, g - 1, s)
  PROVE  LET free == DOMAIN req.candidates[g] \ Elements(req.source)
             open == Available(PathRequest(req, total, g, s))
         IN /\ open \subseteq free
            /\ Cardinality(free) \in Nat /\ Cardinality(open) \in Nat
            /\ Cardinality(open) <= Cardinality(free)
<1> DEFINE pr == PathRequest(req, total, g, s)
           free == DOMAIN req.candidates[g] \ Elements(req.source)
           open == Available(pr)
<1>1. pr.candidates = req.candidates[g] /\ pr.unavailable = req.source \o s.route
  BY Zenon DEF PathRequest
<1>2. \A y \in Elements(req.source) : y \in Elements(req.source \o s.route)
  <2>1. req.source \in Seq(Nat) /\ s.route \in Seq(Nat)
    BY PlanRequestFacts DEF FillsGaps
  <2> QED
    BY <2>1, ElementsOfBoth
<1>3. open \subseteq free
  <2> HIDE DEF pr
  <2> QED
    BY <1>1, <1>2 DEF Available
<1>4. IsFiniteSet(DOMAIN req.candidates[g]) /\ free \subseteq DOMAIN req.candidates[g]
  BY PlanRequestFacts
<1> HIDE DEF free, open, pr
<1>5. IsFiniteSet(free)
  BY <1>4, FS_Subset
<1>6. IsFiniteSet(open) /\ Cardinality(open) <= Cardinality(free)
  BY <1>3, <1>5, FS_Subset
<1>7. Cardinality(free) \in Nat /\ Cardinality(open) \in Nat
  BY <1>5, <1>6, FS_CardinalityType
<1> QED
  BY <1>3, <1>6, <1>7 DEF free, open, pr

LEMMA NewGapIsAllowed ==
  ASSUME NEW req, IsPlanRequest(req), ValidPlanRequest(req),
         NEW total \in Nat, total <= req.maxAdded,
         NEW m \in Nat, m + 1 \in Gaps(req), NEW s, FillsGaps(req, m, s),
         NEW n, NEW path, NEW o, Takes(PathRequest(req, total, m + 1, s), n, path, o),
         Fits(req, total, s, o)
  PROVE  /\ path \in GapFills(req, m + 1)
         /\ req.policy = "exact" => n = req.perGap
         /\ req.policy = "repair" => s.added + n <= total
<1> DEFINE g == m + 1
           pr == PathRequest(req, total, g, s)
           free == DOMAIN req.candidates[g] \ Elements(req.source)
           open == Available(pr)
           most == IF req.policy = "exact" THEN req.perGap
                   ELSE Min({req.maxAdded, Cardinality(free)})
           least == IF req.policy = "exact" THEN req.perGap ELSE 0
<1>1. /\ n \in Nat /\ path \in [1..n -> open] /\ IsInjective(path)
      /\ n <= pr.max /\ n <= Cardinality(open) /\ o = PathOption(pr, path)
  BY DEF Takes, Paths
<1>2. pr.max = MaxIntermediates(req, total, g, s)
  BY Zenon DEF PathRequest
<1>3. o.intermediates = path
  BY <1>1, Zenon DEF PathOption
<1>4. Len(path) = n
  BY <1>1
<1>5. g \in Gaps(req) /\ g - 1 = m /\ g \in Nat
  OBVIOUS
<1> HIDE DEF g
<1>6. FillsGaps(req, g - 1, s)
  BY <1>5
<1>7. /\ open \subseteq free
      /\ Cardinality(free) \in Nat /\ Cardinality(open) \in Nat
      /\ Cardinality(open) <= Cardinality(free)
  BY <1>5, <1>6, FreeIsFinite
<1>8. /\ req.perGap \in Nat /\ req.maxAdded \in Nat /\ req.policy \in {"exact", "repair"}
      /\ s.added \in Nat
  BY FillsGapsFacts DEF IsPlanRequest
<1>9. /\ req.policy = "exact" => n = req.perGap
      /\ req.policy = "repair" => s.added + n <= total
  BY <1>3, <1>4 DEF Fits
<1>10. req.policy = "repair" => pr.max <= total /\ pr.max \in Nat
  <2>1. /\ MaxIntermediates(req, total, g, s) \in Nat
        /\ req.policy = "repair" => MaxIntermediates(req, total, g, s) <= total
    BY <1>5, <1>8, MaxIntermediatesIs
  <2> QED
    BY <1>2, <2>1
<1> HIDE DEF pr, free, open
<1>11. n \in least..most
  <2>1. CASE req.policy = "exact"
    BY <1>1, <1>8, <1>9, <2>1
  <2>2. CASE req.policy = "repair"
    <3> DEFINE a == req.maxAdded
               b == Cardinality(free)
    <3>1. a \in Nat /\ b \in Nat /\ n <= a /\ n <= b
      BY <1>1, <1>7, <1>8, <1>10, <2>2
    <3>2. most = Min({a, b}) /\ least = 0
      BY <2>2
    <3> HIDE DEF a, b, most, least
    <3>3. Min({a, b}) \in Nat /\ (Min({a, b}) = a \/ Min({a, b}) = b)
      BY <3>1, MinOfTwo
    <3> QED
      BY <1>1, <3>1, <3>2, <3>3
  <2> QED
    BY <1>8, <2>1, <2>2
<1>12. path \in [1..n -> free]
  BY <1>1, <1>7
<1> HIDE DEF most, least
<1>13. path \in UNION {[1..k -> free] : k \in least..most}
  BY <1>11, <1>12
<1>14. path \in GapFills(req, g)
  BY <1>1, <1>13 DEF GapFills, free, most, least
<1> QED
  BY <1>9, <1>14 DEF g

LEMMA OneMoreGap ==
  ASSUME NEW m \in Nat, NEW p \in Nat
  PROVE  m * p + p = (m + 1) * p
  OBVIOUS

\* The step of the beam keeps every promise of its states.
LEMMA JoinedIsFilled ==
  ASSUME NEW req, IsPlanRequest(req), ValidPlanRequest(req),
         NEW total \in Nat, total <= req.maxAdded,
         NEW m \in Nat, m + 1 \in Gaps(req), NEW s, Filled(req, total, m, s),
         ValidRequest(PathRequest(req, total, m + 1, s)),
         NEW o \in AnchoredPaths(PathRequest(req, total, m + 1, s)),
         Fits(req, total, s, o)
  PROVE  Filled(req, total, m + 1, Joined(s, o))
<1> DEFINE pr == PathRequest(req, total, m + 1, s)
           path == o.intermediates
           n == Len(path)
           t == Joined(s, o)
<1>1. /\ FillsGaps(req, m, s) /\ FillsAreAllowed(req, m, s) /\ MeasuresRoute(req, m, s)
      /\ StaysApart(req, s) /\ KeepsSource(req, m, s) /\ StaysInBudget(req, total, m, s)
  BY DEF Filled
<1>2. s.route \in Seq(Nat) /\ s.added \in Nat
  BY <1>1, FillsGapsFacts DEF FillsGaps
<1>3. Admitted(pr)
  <2>1. m + 1 \in Nat
    OBVIOUS
  <2> QED
    BY <1>2, <2>1, PathRequestAdmitted
<1>4. Takes(pr, n, path, o)
  BY <1>3, OptionIsTaken
<1>5. /\ n \in Nat /\ path \in Paths(pr, n) /\ path \in [1..n -> Available(pr)]
      /\ IsInjective(path) /\ PathSafe(pr, path)
  BY <1>4 DEF Takes, Paths
<1>6. /\ Grown(req, m, s, path, t)
      /\ t.guidance = s.guidance + GapGuidance(req, m + 1, path)
      /\ HasFields(t)
  BY <1>4, JoinedIsGrown
<1>7. path \in Seq(Nat) /\ \A i \in 1..Len(path) : path[i] \notin Elements(req.source \o s.route)
  <2>1. Available(pr) \subseteq Nat
    BY <1>3, AdmittedFacts
  <2>2. pr.unavailable = req.source \o s.route
    BY Zenon DEF PathRequest
  <2> HIDE DEF pr, path, n
  <2>3. path \in [1..n -> Nat]
    BY <1>5, <2>1
  <2>4. path \in Seq(Nat) /\ Len(path) = n
    BY <1>5, <2>3
  <2> QED
    BY <1>5, <2>2, <2>4 DEF Available
<1>8. \A i \in 1..Len(path) : path[i] \notin Elements(req.source)
  <2>1. req.source \in Seq(Nat)
    BY PlanRequestFacts
  <2>2. \A y \in Elements(req.source) : y \in Elements(req.source \o s.route)
    BY <1>2, <2>1, ElementsOfBoth
  <2> QED
    BY <1>7, <2>2
<1>9. /\ path \in GapFills(req, m + 1)
      /\ req.policy = "exact" => n = req.perGap
      /\ req.policy = "repair" => s.added + n <= total
  BY <1>1, <1>4, NewGapIsAllowed
<1>10. MeasuresRoute(req, m + 1, t)
  <2>1. /\ \A i \in 1..((m + 1) + t.added) : RouteLegs(req, t.route)[i] \in Nat
        /\ t.sum = Total(RouteLegs(req, t.route))
        /\ IsBottleneck(t.worst, RouteLegs(req, t.route))
    BY <1>1, <1>3, <1>4, LegsGrow
  <2>2. t.guidance = Total([g \in 1..(m + 1) |-> GapGuidance(req, g, t.gaps[g])])
    BY <1>1, <1>3, <1>4, GuidanceGrows
  <2> HIDE DEF t
  <2> QED
    BY <2>1, <2>2 DEF MeasuresRoute
<1> HIDE DEF pr, path, t, n
<1>11. FillsGaps(req, m + 1, t)
  BY <1>1, <1>5, <1>6, <1>7, RouteGrows
<1>12. StaysApart(req, t)
  BY <1>1, <1>3, <1>5, <1>6, ApartGrows DEF pr
<1>13. KeepsSource(req, m + 1, t)
  BY <1>1, <1>6, <1>7, <1>8, SourceGrows
<1>14. FillsAreAllowed(req, m + 1, t)
  <2> SUFFICES ASSUME NEW g \in 1..(m + 1) PROVE t.gaps[g] \in GapFills(req, g)
    BY DEF FillsAreAllowed
  <2> DEFINE T == Seq(Nat)
             old == s.gaps
             new == t.gaps
  <2>1. old \in [1..m -> T] /\ path \in T /\ new = Append(old, path) /\ m \in Nat
    BY <1>1, <1>6, <1>7 DEF FillsGaps, Grown
  <2>2. \A h \in 1..m : old[h] \in GapFills(req, h)
    BY <1>1 DEF FillsAreAllowed
  <2> HIDE DEF T, old, new
  <2>3. (\A h \in 1..m : Append(old, path)[h] = old[h]) /\ Append(old, path)[m + 1] = path
    BY <2>1, LongerFunction
  <2>4. g \in 1..m \/ g = m + 1
    OBVIOUS
  <2>5. new[g] \in GapFills(req, g)
    BY <1>9, <2>1, <2>2, <2>3, <2>4
  <2> QED
    BY <2>5 DEF new
<1>15. StaysInBudget(req, total, m + 1, t)
  <2>1. t.added = s.added + n /\ req.perGap \in Nat /\ req.policy \in {"exact", "repair"}
    BY <1>6 DEF Grown, IsPlanRequest, n
  <2>2. CASE req.policy = "exact"
    <3>1. s.added = m * req.perGap /\ n = req.perGap
      BY <1>1, <1>9, <2>2 DEF StaysInBudget
    <3>2. m * req.perGap + req.perGap = (m + 1) * req.perGap
      BY <2>1, OneMoreGap
    <3>3. t.added = (m + 1) * req.perGap
      BY <2>1, <3>1, <3>2
    <3> QED
      BY <2>2, <3>3 DEF StaysInBudget
  <2>3. CASE req.policy = "repair"
    <3>1. req.policy # "exact"
      BY <2>3
    <3>2. t.added <= total
      BY <1>9, <2>1, <2>3
    <3> QED
      BY <3>1, <3>2 DEF StaysInBudget
  <2> QED
    BY <2>1, <2>2, <2>3
<1>16. t = [route |-> t.route, gaps |-> t.gaps, added |-> t.added,
            sum |-> t.sum, worst |-> t.worst, guidance |-> t.guidance]
  BY <1>6, Zenon DEF HasFields
<1>17. Filled(req, total, m + 1, t)
  BY <1>10, <1>11, <1>12, <1>13, <1>14, <1>15, <1>16, Zenon DEF Filled
<1> QED
  BY <1>17 DEF t

-----------------------------------------------------------------------------
(***************************************************************************)
(* The start of every attempt, and the end of the successful one.          *)
(***************************************************************************)
LEMMA NothingIsKept ==
  ASSUME NEW S
  PROVE  MembersIn(S, <<>>) = <<>>
<1> DEFINE T == Seq(Nat)
           route == <<>>
           step == KeepStep(S, route)
           n == Len(route)
<1>1. route \in Seq(Nat) /\ n = 0 /\ n \in Nat
  OBVIOUS
<1> HIDE DEF route
<1>2. PICK g : IsRun(g, T, n, <<>>, step) /\ MembersIn(S, route) = g[n]
  BY <1>1, MembersAreRun
<1> HIDE DEF T, step, n
<1>3. g[0] = <<>>
  BY <1>1, <1>2, RunStarts
<1> QED
  BY <1>1, <1>2, <1>3 DEF route

LEMMA StartIsFilled ==
  ASSUME NEW req, IsPlanRequest(req), ValidPlanRequest(req), NEW total \in Nat
  PROVE  Filled(req, total, 0, StartState(req))
<1> DEFINE s == StartState(req)
           x == req.source[1]
           nothing == <<>>
           S == Elements(req.source)
<1>1. /\ s.route = <<x>> /\ s.gaps = nothing /\ s.added = 0 /\ s.sum = 0
      /\ s.worst = 0 /\ s.guidance = 0
      /\ s = [route |-> s.route, gaps |-> s.gaps, added |-> s.added,
              sum |-> s.sum, worst |-> s.worst, guidance |-> s.guidance]
  BY DEF StartState
<1>2. x \in Nat /\ x \in S /\ req.source \in Seq(Nat) /\ req.history \in Seq(Nat)
  <2>1. 1 \in 1..Len(req.source)
    BY PlanRequestFacts
  <2> QED
    BY <2>1, PlanRequestFacts
<1> HIDE DEF s
<1>3. FlattenSeq(s.gaps) = nothing
  BY <1>1, FlattenOfNothing
<1>4. Joints(req, 0, s.gaps) = nothing
  BY DEF Joints
<1>5. FillsGaps(req, 0, s)
  <2>1. s.gaps \in [1..0 -> Seq(Nat)] /\ s.route \in Seq(Nat) /\ Len(s.route) = 1
    BY <1>1, <1>2
  <2>2. s.route = <<x>> \o FlattenSeq(Joints(req, 0, s.gaps))
    BY <1>1, <1>2, <1>4, FlattenOfNothing
  <2>3. s.added = Len(FlattenSeq(s.gaps)) /\ Len(s.route) = 0 + 1 + s.added
    BY <1>1, <1>3, <2>1
  <2>4. s.route[Len(s.route)] = req.source[0 + 1]
    BY <1>1, <2>1
  <2>5. /\ IsInjective(FlattenSeq(s.gaps))
        /\ Elements(FlattenSeq(s.gaps)) \subseteq Elements(s.route) \ Elements(req.source)
    <3>1. IsInjective(nothing)
      BY DEF IsInjective
    <3>2. Elements(nothing) = {}
      BY DEF Elements
    <3> HIDE DEF nothing
    <3> QED
      BY <1>3, <3>1, <3>2
  <2> QED
    BY <2>1, <2>2, <2>3, <2>4, <2>5 DEF FillsGaps
<1>6. FillsAreAllowed(req, 0, s)
  BY DEF FillsAreAllowed
<1>7. MeasuresRoute(req, 0, s)
  <2>1. RouteLegs(req, s.route) = nothing
    BY <1>1 DEF RouteLegs
  <2>2. [g \in 1..0 |-> GapGuidance(req, g, s.gaps[g])] = nothing
    OBVIOUS
  <2>3. Total(nothing) = 0
    BY TotalOfNothing
  <2>4. IsBottleneck(0, nothing)
    BY DEF IsBottleneck
  <2>5. \A i \in 1..(0 + s.added) : RouteLegs(req, s.route)[i] \in Nat
    BY <1>1
  <2> HIDE DEF nothing
  <2> QED
    BY <1>1, <2>1, <2>2, <2>3, <2>4, <2>5 DEF MeasuresRoute
<1>8. StaysApart(req, s)
  <2> DEFINE h == Len(req.history)
             k == Len(req.history \o s.route)
  <2>1. h \in Nat /\ k = h + 1
    BY <1>1, <1>2
  <2> HIDE DEF h, k
  <2>2. \A j \in (h + 2)..k : FALSE
    BY <2>1
  <2> QED
    BY <2>2 DEF StaysApart, h, k
<1>9. KeepsSource(req, 0, s)
  <2>1. MembersIn(S, Append(nothing, x)) = Append(MembersIn(S, nothing), x)
    <3>1. nothing \in Seq(Nat)
      OBVIOUS
    <3> HIDE DEF nothing, S, x
    <3> QED
      BY <1>2, <3>1, InsiderIsKept
  <2>2. MembersIn(S, nothing) = nothing
    BY NothingIsKept
  <2>3. Append(nothing, x) = <<x>>
    BY <1>2
  <2>4. MembersIn(S, <<x>>) = <<x>>
    <3> HIDE DEF nothing
    <3> QED
      BY <2>1, <2>2, <2>3
  <2>5. SubSeq(req.source, 1, 1) = <<x>>
    <3> DEFINE one == SubSeq(req.source, 1, 1)
               src == req.source
               single == <<x>>
    <3>1. src \in Seq(Nat) /\ src[1] = x /\ \A i \in 1..1 : src[i] \in Nat
      BY <1>2
    <3> HIDE DEF src
    <3>2. one \in Seq(Nat) /\ Len(one) = 1 /\ one[1] = x
      BY <3>1 DEF src
    <3>3. single \in Seq(Nat) /\ Len(single) = 1 /\ single[1] = x
      BY <1>2
    <3> HIDE DEF one, single
    <3>4. one = single
      BY <3>2, <3>3, SeqEqual
    <3> QED
      BY <3>4 DEF one, single
  <2> QED
    BY <1>1, <2>4, <2>5 DEF KeepsSource
<1>10. StaysInBudget(req, total, 0, s)
  BY <1>1 DEF StaysInBudget, IsPlanRequest
<1>11. Filled(req, total, 0, s)
  BY <1>1, <1>5, <1>6, <1>7, <1>8, <1>9, <1>10, Zenon DEF Filled
<1> QED
  BY <1>11 DEF s

\* The pairs of a route whose later pairs are apart: only the first track is open.
LEMMA FirstTrackDecides ==
  ASSUME NEW req, IsPlanRequest(req), ValidPlanRequest(req),
         NEW s, s.route \in Seq(Nat), Len(s.route) \in Nat, Len(s.route) >= 1,
         s.route[1] = req.source[1], StaysApart(req, s)
  PROVE  LET whole == req.history \o s.route
             h == Len(req.history)
         IN /\ FirstTrackSafe(req) <=> RouteSafe(req, s.route)
            /\ FirstTrackSafe(req) <=>
                 \A position \in (h + 1)..Len(whole) :
                   PositionRepeatSafe(whole, req.tracks, req.w, position)
<1> DEFINE r == s.route
           past == req.history
           x == req.source[1]
           h == Len(past)
           k == Len(r)
           whole == past \o r
           short == Append(past, x)
           Safe(i, j) == PairSafe(req.tracks, req.w, whole[i], whole[j], j - i)
           Open == \A i \in 1..h : Safe(i, h + 1)
<1>1. /\ past \in Seq(Nat) /\ r \in Seq(Nat) /\ x \in Nat /\ r[1] = x
      /\ h \in Nat /\ k \in Nat /\ k >= 1
  <2>1. 1 \in 1..Len(req.source)
    BY PlanRequestFacts
  <2> QED
    BY <2>1, PlanRequestFacts, LenProperties
<1>2. \A j \in (h + 2)..Len(whole) : \A i \in 1..(j - 1) : Safe(i, j)
  BY DEF StaysApart
<1> HIDE DEF r, past, x
<1>3. /\ whole \in Seq(Nat) /\ Len(whole) = h + k
      /\ \A i \in 1..h : whole[i] = past[i]
      /\ \A i \in 1..k : whole[h + i] = r[i]
  BY <1>1, Concatenated
<1>4. /\ short \in Seq(Nat) /\ Len(short) = h + 1
      /\ \A i \in 1..h : short[i] = past[i]
      /\ short[h + 1] = x
  BY <1>1, AppendProperties
<1> HIDE DEF whole, short, h, k
<1>5. DOMAIN whole = 1..(h + k) /\ DOMAIN short = 1..(h + 1)
  BY <1>3, <1>4, LenProperties
<1>6. whole[h + 1] = x
  <2>1. 1 \in 1..k
    BY <1>1
  <2> QED
    BY <1>1, <1>3, <2>1
<1>7. FirstTrackSafe(req) <=> Open
  <2>1. FirstTrackSafe(req) <=> PositionRepeatSafe(short, req.tracks, req.w, h + 1)
    <3>1. FirstTrackSafe(req) <=> PositionRepeatSafe(short, req.tracks, req.w, Len(short))
      BY Zenon DEF FirstTrackSafe, short, past, x
    <3> QED
      BY <1>4, <3>1
  <2>2. PositionRepeatSafe(short, req.tracks, req.w, h + 1) <=>
          \A other \in DOMAIN short \ {h + 1} :
            PairSafe(req.tracks, req.w, short[other], short[h + 1], Gap(h + 1, other))
    BY PositionIsSafe
  <2>3. DOMAIN short \ {h + 1} = 1..h
    BY <1>1, <1>5
  <2>4. ASSUME NEW i \in 1..h
        PROVE  PairSafe(req.tracks, req.w, short[i], short[h + 1], Gap(h + 1, i)) <=> Safe(i, h + 1)
    <3>1. Gap(h + 1, i) = (h + 1) - i
      BY <1>1 DEF Gap
    <3>2. short[i] = whole[i] /\ short[h + 1] = whole[h + 1]
      BY <1>3, <1>4, <1>6
    <3>3. Safe(i, h + 1) <=> PairSafe(req.tracks, req.w, whole[i], whole[h + 1], (h + 1) - i)
      OBVIOUS
    <3> HIDE DEF Safe
    <3> QED
      BY <3>1, <3>2, <3>3
  <2> QED
    BY <2>1, <2>2, <2>3, <2>4
<1>8. Open <=> \A j \in (h + 1)..(h + k) : \A i \in 1..(j - 1) : Safe(i, j)
  <2> HIDE DEF Safe
  <2>1. ASSUME Open, NEW j \in (h + 1)..(h + k), NEW i \in 1..(j - 1) PROVE Safe(i, j)
    <3>1. CASE j = h + 1
      <4>1. i \in 1..h
        BY <1>1, <3>1
      <4> QED
        BY <2>1, <3>1, <4>1
    <3>2. CASE j # h + 1
      <4>1. j \in (h + 2)..Len(whole)
        BY <1>1, <1>3, <3>2
      <4> QED
        BY <1>2, <4>1
    <3> QED
      BY <3>1, <3>2
  <2>2. ASSUME \A j \in (h + 1)..(h + k) : \A i \in 1..(j - 1) : Safe(i, j) PROVE Open
    <3>1. h + 1 \in (h + 1)..(h + k) /\ \A i \in 1..h : i \in 1..((h + 1) - 1)
      BY <1>1
    <3> QED
      BY <2>2, <3>1
  <2> QED
    BY <2>1, <2>2
<1>9. RouteSafe(req, s.route) <=> Open
  <2>1. RouteSafe(req, r) <=> \A j \in (h + 1)..Len(whole) : \A i \in 1..(j - 1) : Safe(i, j)
    BY Zenon DEF RouteSafe, whole, h, past
  <2> HIDE DEF Open, Safe
  <2> QED
    BY <1>3, <1>8, <2>1 DEF r
<1>10. ASSUME NEW p \in (h + 1)..(h + k)
       PROVE  PositionRepeatSafe(whole, req.tracks, req.w, p) <=>
                \A other \in 1..(h + k) :
                  /\ other < p => Safe(other, p)
                  /\ other > p => Safe(p, other)
  <2>1. PositionRepeatSafe(whole, req.tracks, req.w, p) <=>
          \A other \in DOMAIN whole \ {p} :
            PairSafe(req.tracks, req.w, whole[other], whole[p], Gap(p, other))
    BY PositionIsSafe
  <2>2. ASSUME NEW other \in 1..(h + k), other < p
        PROVE  PairSafe(req.tracks, req.w, whole[other], whole[p], Gap(p, other)) <=> Safe(other, p)
    <3>1. Gap(p, other) = p - other
      BY <1>1, <2>2 DEF Gap
    <3> QED
      BY <3>1
  <2>3. ASSUME NEW other \in 1..(h + k), other > p
        PROVE  PairSafe(req.tracks, req.w, whole[other], whole[p], Gap(p, other)) <=> Safe(p, other)
    <3>1. Gap(p, other) = other - p
      BY <1>1, <2>3 DEF Gap
    <3>2. PairSafe(req.tracks, req.w, whole[other], whole[p], other - p)
            <=> PairSafe(req.tracks, req.w, whole[p], whole[other], other - p)
      BY PairSafeIsSymmetric
    <3> QED
      BY <3>1, <3>2
  <2>4. \A other \in 1..(h + k) : other \in DOMAIN whole \ {p} <=> other < p \/ other > p
    BY <1>1, <1>5
  <2>5. \A other \in DOMAIN whole \ {p} : other \in 1..(h + k)
    BY <1>5
  <2>6. \A other \in 1..(h + k) : ~(other < p /\ other > p)
    BY <1>1
  <2> DEFINE Near(other) == PairSafe(req.tracks, req.w, whole[other], whole[p], Gap(p, other))
  <2>7. /\ \A other \in 1..(h + k) : other < p => (Near(other) <=> Safe(other, p))
        /\ \A other \in 1..(h + k) : other > p => (Near(other) <=> Safe(p, other))
    BY <2>2, <2>3
  <2>8. PositionRepeatSafe(whole, req.tracks, req.w, p) <=> \A other \in DOMAIN whole \ {p} : Near(other)
    BY <2>1
  <2> HIDE DEF Near, Safe
  <2> QED
    BY <2>4, <2>5, <2>6, <2>7, <2>8
<1>11. Open <=> \A p \in (h + 1)..(h + k) : PositionRepeatSafe(whole, req.tracks, req.w, p)
  <2> HIDE DEF Safe
  <2>1. ASSUME Open, NEW p \in (h + 1)..(h + k)
        PROVE  PositionRepeatSafe(whole, req.tracks, req.w, p)
    <3> SUFFICES ASSUME NEW other \in 1..(h + k)
                 PROVE  /\ other < p => Safe(other, p)
                        /\ other > p => Safe(p, other)
      BY <1>10
    <3>1. ASSUME other < p PROVE Safe(other, p)
      <4>1. other \in 1..(p - 1)
        BY <1>1, <3>1
      <4> HIDE DEF Open
      <4> QED
        BY <1>8, <2>1, <4>1
    <3>2. ASSUME other > p PROVE Safe(p, other)
      <4>1. other \in (h + 1)..(h + k) /\ p \in 1..(other - 1)
        BY <1>1, <3>2
      <4> HIDE DEF Open
      <4> QED
        BY <1>8, <2>1, <4>1
    <3> QED
      BY <3>1, <3>2
  <2>2. ASSUME \A p \in (h + 1)..(h + k) : PositionRepeatSafe(whole, req.tracks, req.w, p)
        PROVE  Open
    <3> SUFFICES ASSUME NEW i \in 1..h PROVE Safe(i, h + 1)
      OBVIOUS
    <3>1. h + 1 \in (h + 1)..(h + k) /\ i \in 1..(h + k) /\ i < h + 1
      BY <1>1
    <3>2. PositionRepeatSafe(whole, req.tracks, req.w, h + 1)
      BY <2>2, <3>1
    <3> QED
      BY <1>10, <3>1, <3>2
  <2> QED
    BY <2>1, <2>2
<1> HIDE DEF Open
<1>12. /\ FirstTrackSafe(req) <=> RouteSafe(req, s.route)
       /\ FirstTrackSafe(req) <=>
            \A p \in (h + 1)..Len(whole) : PositionRepeatSafe(whole, req.tracks, req.w, p)
  <2> HIDE DEF Safe
  <2> QED
    BY <1>3, <1>7, <1>9, <1>11
<1> HIDE DEF Safe
<1> QED
  BY <1>12 DEF whole, h, past, r

LEMMA RouteStartsAtSource ==
  ASSUME NEW req, IsPlanRequest(req), ValidPlanRequest(req),
         NEW m \in Nat, m + 1 \in 1..Len(req.source), NEW s, FillsGaps(req, m, s)
  PROVE  s.route[1] = req.source[1]
<1> DEFINE joined == FlattenSeq(Joints(req, m, s.gaps))
           x == req.source[1]
           one == <<x>>
<1>1. \A g \in 1..m : req.source[g + 1] \in Nat
  <2>1. \A g \in 1..m : g + 1 \in 1..Len(req.source)
    BY PlanRequestFacts
  <2> QED
    BY <2>1, PlanRequestFacts
<1>2. Joints(req, m, s.gaps) \in [1..m -> Seq(Nat)]
  BY <1>1, JointsAre DEF FillsGaps
<1>3. joined \in Seq(Nat)
  BY <1>2, FlattenIsSeq
<1>4. x \in Nat /\ one \in Seq(Nat) /\ Len(one) = 1 /\ one[1] = x /\ 1 \in 1..1
  <2>1. 1 \in 1..Len(req.source)
    BY PlanRequestFacts
  <2> QED
    BY <2>1, PlanRequestFacts
<1>5. s.route = one \o joined
  BY DEF FillsGaps
<1> HIDE DEF joined, one, x
<1>6. \A i \in 1..Len(one) : (one \o joined)[i] = one[i]
  BY <1>3, <1>4, Concatenated
<1> QED
  BY <1>4, <1>5, <1>6 DEF x

\* The final proof repeats what the gap by gap checks have established, except for
\* the first track.
LEMMA FinalProofIsRedundant ==
  ASSUME NEW req, IsPlanRequest(req), ValidPlanRequest(req),
         NEW total \in Nat, total <= req.maxAdded,
         NEW s, Filled(req, total, Len(req.source) - 1, s)
  PROVE  FinalRouteValid(req, s) <=> FirstTrackSafe(req)
<1> DEFINE m == Len(req.source) - 1
           S == Elements(req.source)
           whole == req.history \o s.route
           h == Len(req.history)
<1>1. /\ FillsGaps(req, m, s) /\ FillsAreAllowed(req, m, s) /\ StaysApart(req, s)
      /\ KeepsSource(req, m, s) /\ StaysInBudget(req, total, m, s)
  BY DEF Filled
<1>2. /\ m \in Nat /\ m >= 1 /\ m + 1 = Len(req.source) /\ m + 1 \in 1..Len(req.source)
      /\ Gaps(req) = 1..m /\ Len(req.candidates) = m /\ req.source \in Seq(Nat)
  BY PlanRequestFacts
<1> HIDE DEF m
<1>3. /\ s.route \in Seq(Nat) /\ Len(s.route) \in Nat /\ Len(s.route) = m + 1 + s.added
      /\ s.added \in Nat /\ s.gaps \in [1..m -> Seq(Nat)] /\ Len(s.gaps) = m
      /\ s.added = Len(FlattenSeq(s.gaps))
      /\ IsInjective(FlattenSeq(s.gaps))
      /\ Elements(FlattenSeq(s.gaps)) \subseteq Elements(s.route) \ S
  BY <1>1, <1>2, FillsGapsFacts DEF FillsGaps
<1>4. Len(s.route) >= 1 /\ s.route[1] = req.source[1]
  <2>1. s.route[1] = req.source[1]
    BY <1>1, <1>2, RouteStartsAtSource
  <2> QED
    BY <1>2, <1>3, <2>1
<1>5. FirstTrackSafe(req) <=>
        \A position \in (h + 1)..Len(whole) :
          PositionRepeatSafe(whole, req.tracks, req.w, position)
  <2> HIDE DEF S
  <2> QED
    BY <1>1, <1>3, <1>4, FirstTrackDecides
<1>6. MembersIn(S, s.route) = req.source
  <2>1. MembersIn(S, s.route) = SubSeq(req.source, 1, m + 1)
    BY <1>1 DEF KeepsSource
  <2>2. SubSeq(req.source, 1, Len(req.source)) = req.source
    BY <1>2, SubSeqFull
  <2> QED
    BY <1>2, <2>1, <2>2
<1>7. /\ Generated(s) = FlattenSeq(s.gaps)
      /\ Elements(Generated(s)) \cap S = {} /\ IsInjective(Generated(s))
  BY <1>3 DEF Generated
<1>8. ShapeValid(req, s)
  <2>1. req.perGap \in Nat /\ req.maxAdded \in Nat /\ req.policy \in {"exact", "repair"}
    BY DEF IsPlanRequest
  <2>2. CASE req.policy = "exact"
    <3>1. s.added = m * req.perGap
      BY <1>1, <2>2 DEF StaysInBudget
    <3>2. Len(s.route) = Len(req.source) + req.perGap * (Len(req.source) - 1)
      <4>1. m * req.perGap = req.perGap * m /\ Len(req.source) - 1 = m
        BY <1>2, <2>1
      <4> QED
        BY <1>2, <1>3, <3>1, <4>1
    <3>3. ASSUME NEW g \in DOMAIN s.gaps PROVE Len(s.gaps[g]) = req.perGap
      <4>1. g \in 1..m
        BY <1>3
      <4>2. s.gaps[g] \in GapFills(req, g)
        BY <1>1, <4>1 DEF FillsAreAllowed
      <4> DEFINE free == DOMAIN req.candidates[g] \ Elements(req.source)
                 p == req.perGap
      <4>3. s.gaps[g] \in UNION {[1..n -> free] : n \in p..p}
        BY <2>2, <4>2 DEF GapFills
      <4> HIDE DEF free, p
      <4>4. p \in Nat
        BY <2>1 DEF p
      <4>5. s.gaps[g] \in [1..p -> free]
        BY <4>3, <4>4
      <4>6. Len(s.gaps[g]) = p
        BY <4>4, <4>5
      <4> QED
        BY <4>6 DEF p
    <3> QED
      BY <2>2, <3>2, <3>3 DEF ShapeValid
  <2>3. CASE req.policy = "repair"
    <3>1. req.policy # "exact"
      BY <2>3
    <3>2. s.added <= req.maxAdded
      <4>1. s.added <= total
        BY <1>1, <3>1 DEF StaysInBudget
      <4> QED
        BY <1>3, <2>1, <4>1
    <3>3. Len(s.route) = Len(req.source) + s.added /\ Len(Generated(s)) = s.added
      BY <1>2, <1>3, <1>7
    <3> QED
      BY <3>1, <3>2, <3>3 DEF ShapeValid
  <2> QED
    BY <2>1, <2>2, <2>3
<1> HIDE DEF whole, h, S
<1>9. FinalRouteValid(req, s) <=>
        \A position \in (h + 1)..Len(whole) :
          PositionRepeatSafe(whole, req.tracks, req.w, position)
  <2>1. Len(s.gaps) = Len(req.candidates)
    BY <1>2, <1>3
  <2> QED
    BY <1>6, <1>7, <1>8, <2>1 DEF FinalRouteValid, whole, h, S
<1> QED
  BY <1>5, <1>9

LEMMA FilledIsGood ==
  ASSUME NEW req, IsPlanRequest(req), ValidPlanRequest(req),
         NEW total \in Nat, total <= req.maxAdded,
         NEW s, Filled(req, total, Len(req.source) - 1, s), FirstTrackSafe(req)
  PROVE  s \in GoodPlans(req)
<1> DEFINE m == Len(req.source) - 1
           f == s.gaps
           k == m + s.added
           legs == RouteLegs(req, s.route)
<1>1. /\ FillsGaps(req, m, s) /\ FillsAreAllowed(req, m, s) /\ MeasuresRoute(req, m, s)
      /\ StaysApart(req, s) /\ StaysInBudget(req, total, m, s)
      /\ s = [route |-> s.route, gaps |-> s.gaps, added |-> s.added,
              sum |-> s.sum, worst |-> s.worst, guidance |-> s.guidance]
  BY DEF Filled
<1>2. /\ m \in Nat /\ m >= 1 /\ m + 1 = Len(req.source) /\ m + 1 \in 1..Len(req.source)
      /\ Gaps(req) = 1..m
  BY PlanRequestFacts
<1> HIDE DEF m
<1>3. /\ s.route \in Seq(Nat) /\ Len(s.route) \in Nat /\ Len(s.route) = m + 1 + s.added
      /\ s.added \in Nat /\ f \in [1..m -> Seq(Nat)]
      /\ s.added = Len(FlattenSeq(f)) /\ IsInjective(FlattenSeq(f))
      /\ s.route = <<req.source[1]>> \o FlattenSeq(Joints(req, m, f))
  BY <1>1, <1>2, FillsGapsFacts DEF FillsGaps
<1>4. Len(s.route) >= 1 /\ s.route[1] = req.source[1]
  <2>1. s.route[1] = req.source[1]
    BY <1>1, <1>2, RouteStartsAtSource
  <2> QED
    BY <1>2, <1>3, <2>1
<1>5. RouteSafe(req, s.route)
  BY <1>1, <1>3, <1>4, FirstTrackDecides
<1>6. RouteOf(req, f) = s.route
  BY <1>2, <1>3 DEF RouteOf, Joints
<1>7. f \in Fillings(req)
  <2>1. \A g \in 1..m : f[g] \in GapFills(req, g)
    BY <1>1 DEF FillsAreAllowed
  <2>2. f \in [1..m -> UNION {GapFills(req, g) : g \in 1..m}]
    <3> DEFINE all == UNION {GapFills(req, g) : g \in 1..m}
    <3>1. \A g \in 1..m : f[g] \in all
      BY <2>1
    <3> HIDE DEF all, f
    <3>2. f \in [1..m -> all]
      BY <1>3, <3>1
    <3> QED
      BY <3>2 DEF all
  <2>3. req.policy = "repair" => Len(FlattenSeq(f)) <= req.maxAdded
    <3>1. (s.added <= total /\ req.maxAdded \in Nat) \/ req.policy # "repair"
      BY <1>1 DEF StaysInBudget, IsPlanRequest
    <3> QED
      BY <1>3, <3>1
  <2> HIDE DEF f
  <2> QED
    BY <1>2, <1>3, <2>1, <2>2, <2>3 DEF Fillings
<1>8. k \in Nat /\ k >= 1 /\ Len(s.route) - 1 = k
  <2> DEFINE a == s.added
             l == Len(s.route)
  <2>1. l = m + 1 + a /\ a \in Nat /\ l \in Nat
    BY <1>3
  <2>2. k = m + a
    OBVIOUS
  <2> HIDE DEF a, l, k
  <2>3. k \in Nat /\ k >= 1 /\ l - 1 = k
    BY <1>2, <2>1, <2>2
  <2> QED
    BY <2>3 DEF l
<1>9. legs \in [1..k -> Nat]
  <2>1. \A i \in 1..k : legs[i] \in Nat
    BY <1>1 DEF MeasuresRoute
  <2>2. legs = [i \in 1..k |-> req.distance[<<s.route[i], s.route[i + 1]>>]]
    BY <1>8 DEF RouteLegs
  <2> HIDE DEF legs, k
  <2>3. legs = [i \in 1..k |-> legs[i]]
    BY <2>2
  <2> QED
    BY <2>1, <2>3
<1>10. s.sum = Total(legs) /\ IsBottleneck(s.worst, legs)
  BY <1>1 DEF MeasuresRoute
<1>11. s.guidance = Total([g \in 1..m |-> GapGuidance(req, g, f[g])])
  BY <1>1 DEF MeasuresRoute
<1> HIDE DEF legs, k
<1>12. s.worst = Max(Range(legs))
  BY <1>8, <1>9, <1>10, BottleneckIsGreatest
<1>13. Unreachable \notin Range(legs)
  BY <1>9 DEF Range, Unreachable
<1>14. s = PlanOf(req, f)
  <2>1. PlanOf(req, f) =
          [route |-> RouteOf(req, f), gaps |-> f, added |-> Len(FlattenSeq(f)),
           sum |-> Total(RouteLegs(req, RouteOf(req, f))),
           worst |-> Max(Range(RouteLegs(req, RouteOf(req, f)))),
           guidance |-> Total([g \in Gaps(req) |-> GapGuidance(req, g, f[g])])]
    BY Zenon DEF PlanOf
  <2>2. RouteLegs(req, RouteOf(req, f)) = legs
    BY <1>6 DEF legs
  <2> QED
    BY <1>1, <1>2, <1>3, <1>6, <1>10, <1>11, <1>12, <2>1, <2>2
<1>15. /\ RouteSafe(req, RouteOf(req, f))
       /\ Unreachable \notin Range(RouteLegs(req, RouteOf(req, f)))
  BY <1>5, <1>6, <1>13 DEF legs
<1> HIDE DEF f
<1> QED
  BY <1>7, <1>14, <1>15 DEF GoodPlans

-----------------------------------------------------------------------------
(***************************************************************************)
(* The invariant of the planner: whatever the beam holds fills the gaps    *)
(* it has crossed, within the budget that is being tried.                  *)
(***************************************************************************)
PlannerTypes ==
  /\ request \in PlanRequests
  /\ pc \in {"validate", "plan", "done", "failed"}
  /\ budget \in 0..request.maxAdded
  /\ gap \in 1..Larger(1, Len(request.source))

OnlyValidPlansRun == (pc = "plan" \/ states # {}) => ValidPlanRequest(request)

BeamIsFilled == \A s \in states : Filled(request, budget, gap - 1, s)

PlanIsProved ==
  IF pc = "done"
  THEN /\ plan \in states /\ FinalRouteValid(request, plan)
       /\ gap \notin Gaps(request)
  ELSE plan = NoPlan

BeamInv == PlannerTypes /\ OnlyValidPlansRun /\ BeamIsFilled /\ PlanIsProved

LEMMA RetainedAreExpanded ==
  ASSUME NEW req, NEW total, NEW expanded
  PROVE  Retained(req, total, expanded) \subseteq expanded
  BY DEF Retained, Least

LEMMA PoolIsValid ==
  ASSUME NEW req, NEW valid
  PROVE  SelectionPool(req, valid) \subseteq valid
  BY DEF SelectionPool, Least

\* Where the beam stands, and where it ends.
LEMMA GapsLeft ==
  ASSUME NEW req, IsPlanRequest(req), ValidPlanRequest(req),
         NEW g \in 1..Larger(1, Len(req.source))
  PROVE  /\ g - 1 \in Nat /\ (g - 1) + 1 = g
         /\ g \in Gaps(req) => g + 1 \in 1..Larger(1, Len(req.source))
         /\ g \notin Gaps(req) => g - 1 = Len(req.source) - 1
<1> DEFINE n == Len(req.source)
<1>1. n \in Nat /\ n >= 2 /\ Gaps(req) = 1..(n - 1)
  BY PlanRequestFacts
<1> HIDE DEF n
<1>2. Larger(1, n) = n
  BY <1>1 DEF Larger
<1>3. g \in 1..n
  BY <1>2 DEF n
<1>4. /\ g - 1 \in Nat /\ (g - 1) + 1 = g
      /\ g \in Gaps(req) => g + 1 \in 1..n
      /\ g \notin Gaps(req) => g - 1 = n - 1
  BY <1>1, <1>3
<1> QED
  BY <1>2, <1>4 DEF n

\* A new attempt starts from the bare source.
LEMMA AttemptKeeps ==
  ASSUME NEW total \in Nat, total <= request.maxAdded, request \in PlanRequests,
         ValidPlanRequest(request), plan = NoPlan,
         Attempt(total), UNCHANGED <<args, plan>>
  PROVE  BeamInv'
<1>1. IsPlanRequest(request) /\ request.maxAdded \in Nat
  BY PlanRequestsAssumption DEF IsPlanRequest
<1>2. /\ request' = request /\ plan' = plan /\ budget' = total /\ gap' = 1
      /\ states' = {StartState(request)} /\ pc' = "plan"
  BY DEF Attempt, args
<1>3. PlannerTypes'
  <2>1. 1 \in 1..Larger(1, Len(request.source)) /\ total \in 0..request.maxAdded
    <3>1. Len(request.source) \in Nat
      BY <1>1, PlanRequestFacts
    <3> QED
      BY <1>1, <3>1 DEF Larger
  <2> QED
    BY <1>2, <2>1 DEF PlannerTypes
<1>4. Filled(request, total, 0, StartState(request))
  BY <1>1, StartIsFilled
<1>5. BeamIsFilled'
  <2>1. gap' - 1 = 0
    BY <1>2
  <2>2. \A s \in states' : s = StartState(request)
    BY <1>2
  <2> QED
    BY <1>2, <1>4, <2>1, <2>2 DEF BeamIsFilled
<1>6. OnlyValidPlansRun' /\ PlanIsProved'
  BY <1>2 DEF OnlyValidPlansRun, PlanIsProved, NoPlan
<1> QED
  BY <1>3, <1>5, <1>6 DEF BeamInv

LEMMA FailKeeps ==
  ASSUME BeamInv, plan = NoPlan, Fail, UNCHANGED <<args, plan>>
  PROVE  BeamInv'
<1>1. /\ request' = request /\ plan' = plan /\ budget' = budget /\ gap' = gap
      /\ states' = states /\ pc' = "failed"
  BY DEF Fail, args
<1> QED
  BY <1>1 DEF BeamInv, PlannerTypes, OnlyValidPlansRun, BeamIsFilled, PlanIsProved

LEMMA NoRouteKeeps ==
  ASSUME BeamInv, pc = "plan", NoCompleteRoute
  PROVE  BeamInv'
<1>1. request \in PlanRequests /\ ValidPlanRequest(request) /\ plan = NoPlan
  BY DEF BeamInv, PlannerTypes, OnlyValidPlansRun, PlanIsProved
<1>2. budget \in Nat /\ request.maxAdded \in Nat
  BY <1>1, PlanRequestsAssumption DEF BeamInv, PlannerTypes, IsPlanRequest
<1>3. CASE request.policy = "repair" /\ budget < request.maxAdded
  <2>1. budget + 1 \in Nat /\ budget + 1 <= request.maxAdded
    BY <1>2, <1>3
  <2>2. Attempt(budget + 1) /\ UNCHANGED <<args, plan>>
    BY <1>3 DEF NoCompleteRoute
  <2> QED
    BY <1>1, <2>1, <2>2, AttemptKeeps
<1>4. CASE ~(request.policy = "repair" /\ budget < request.maxAdded)
  <2>1. Fail /\ UNCHANGED <<args, plan>>
    BY <1>4 DEF NoCompleteRoute
  <2> QED
    BY <1>1, <2>1, FailKeeps
<1> QED
  BY <1>3, <1>4

LEMMA BeamInvHolds == Spec => []BeamInv
<1>1. Init => BeamInv
  <2> SUFFICES ASSUME Init PROVE BeamInv
    OBVIOUS
  <2>1. /\ request \in PlanRequests /\ budget = 0 /\ gap = 1 /\ states = {}
        /\ plan = NoPlan /\ pc = "validate"
    BY DEF Init
  <2>2. IsPlanRequest(request)
    BY <2>1, PlanRequestsAssumption
  <2>3. request.maxAdded \in Nat /\ Len(request.source) \in Nat
    BY <2>2, LenProperties DEF IsPlanRequest
  <2>4. PlannerTypes
    BY <2>1, <2>3 DEF PlannerTypes, Larger
  <2> QED
    BY <2>1, <2>4 DEF BeamInv, OnlyValidPlansRun, BeamIsFilled, PlanIsProved
<1>2. BeamInv /\ [Next]_vars => BeamInv'
  <2> SUFFICES ASSUME BeamInv, [Next]_vars PROVE BeamInv'
    OBVIOUS
  <2>1. /\ request \in PlanRequests /\ IsPlanRequest(request)
        /\ budget \in Nat /\ budget <= request.maxAdded /\ request.maxAdded \in Nat
        /\ gap \in 1..Larger(1, Len(request.source))
        /\ pc # "done" => plan = NoPlan
        /\ pc = "plan" => ValidPlanRequest(request)
    <3>1. IsPlanRequest(request)
      BY PlanRequestsAssumption DEF BeamInv, PlannerTypes
    <3>2. request.maxAdded \in Nat
      BY <3>1 DEF IsPlanRequest
    <3> QED
      BY <3>1, <3>2 DEF BeamInv, PlannerTypes, OnlyValidPlansRun, PlanIsProved
  <2>2. CASE Begin
    <3> DEFINE total == IF request.policy = "exact" THEN 0
                        ELSE MinimumRepeatSpacing(request.source, request.tracks, request.w)
    <3>1. pc = "validate" /\ UNCHANGED <<args, plan>>
      BY <2>2 DEF Begin
    <3>2. total \in Nat
      <4>1. MinimumRepeatSpacing(request.source, request.tracks, request.w) \in Nat
        BY <2>1, MinimumSpacingIsNat DEF IsPlanRequest
      <4> QED
        BY <4>1
    <3>3. IF ValidPlanRequest(request) /\ total <= request.maxAdded THEN Attempt(total) ELSE Fail
      BY <2>2 DEF Begin
    <3> HIDE DEF total
    <3>4. CASE ValidPlanRequest(request) /\ total <= request.maxAdded
      BY <2>1, <3>1, <3>2, <3>3, <3>4, AttemptKeeps
    <3>5. CASE ~(ValidPlanRequest(request) /\ total <= request.maxAdded)
      BY <2>1, <3>1, <3>3, <3>5, FailKeeps
    <3> QED
      BY <3>4, <3>5
  <2>3. CASE RejectGap
    <3>1. pc = "plan" /\ Fail /\ UNCHANGED <<args, plan>>
      BY <2>3 DEF RejectGap
    <3> QED
      BY <2>1, <3>1, FailKeeps
  <2>4. CASE CrossGap
    <3> DEFINE expanded == UNION {Expanded(request, budget, gap, s) : s \in states}
               retained == Retained(request, budget, expanded)
    <3>1. /\ pc = "plan" /\ gap \in Gaps(request)
          /\ \A s \in states : ValidRequest(PathRequest(request, budget, gap, s))
          /\ \/ NoCompleteRoute
             \/ /\ states' = retained /\ gap' = gap + 1
                /\ UNCHANGED <<args, budget, plan, pc>>
      BY <2>4 DEF CrossGap
    <3>2. CASE NoCompleteRoute
      BY <3>1, <3>2, NoRouteKeeps
    <3>3. CASE /\ states' = retained /\ gap' = gap + 1
               /\ UNCHANGED <<args, budget, plan, pc>>
      <4> DEFINE m == gap - 1
      <4>1. m \in Nat /\ m + 1 = gap /\ gap + 1 \in 1..Larger(1, Len(request.source))
        BY <2>1, <3>1, GapsLeft
      <4>2. /\ request' = request /\ budget' = budget /\ plan' = plan /\ pc' = pc
            /\ gap' - 1 = m + 1
        <5>1. gap' - 1 = m + 1
          BY <3>3, <4>1
        <5> QED
          BY <3>3, <5>1 DEF args
      <4>3. ASSUME NEW t \in states' PROVE Filled(request, budget, m + 1, t)
        <5>1. t \in expanded
          <6> HIDE DEF expanded
          <6> QED
            BY <3>3, RetainedAreExpanded
        <5>2. PICK s \in states : t \in Expanded(request, budget, gap, s)
          BY <5>1
        <5>3. PICK o \in AnchoredPaths(PathRequest(request, budget, gap, s)) :
                Fits(request, budget, s, o) /\ t = Joined(s, o)
          BY <5>2 DEF Expanded
        <5>4. Filled(request, budget, m, s)
          BY DEF BeamInv, BeamIsFilled
        <5>5. ValidRequest(PathRequest(request, budget, gap, s))
          BY <3>1
        <5> HIDE DEF m
        <5>6. /\ m + 1 \in Gaps(request)
              /\ ValidRequest(PathRequest(request, budget, m + 1, s))
              /\ o \in AnchoredPaths(PathRequest(request, budget, m + 1, s))
          BY <3>1, <4>1, <5>5
        <5>7. ValidPlanRequest(request)
          BY <2>1, <3>1
        <5>8. Filled(request, budget, m + 1, Joined(s, o))
          BY <2>1, <4>1, <5>3, <5>4, <5>6, <5>7, JoinedIsFilled
        <5> QED
          BY <5>3, <5>8
      <4> HIDE DEF retained, m
      <4>4. BeamIsFilled'
        BY <4>2, <4>3 DEF BeamIsFilled
      <4>5. PlannerTypes'
        BY <3>3, <4>1, <4>2 DEF BeamInv, PlannerTypes
      <4>6. OnlyValidPlansRun' /\ PlanIsProved'
        BY <2>1, <3>1, <4>2 DEF OnlyValidPlansRun, PlanIsProved
      <4> QED
        BY <4>4, <4>5, <4>6 DEF BeamInv
    <3> QED
      BY <3>1, <3>2, <3>3
  <2>5. CASE Prove
    <3> DEFINE valid == {s \in states : FinalRouteValid(request, s)}
    <3>1. /\ pc = "plan" /\ gap \notin Gaps(request)
          /\ \/ NoCompleteRoute
             \/ /\ plan' \in SelectionPool(request, valid) /\ states' = valid
                /\ pc' = "done" /\ UNCHANGED <<args, budget, gap>>
      BY <2>5 DEF Prove
    <3>2. CASE NoCompleteRoute
      BY <3>1, <3>2, NoRouteKeeps
    <3>3. CASE /\ plan' \in SelectionPool(request, valid) /\ states' = valid
               /\ pc' = "done" /\ UNCHANGED <<args, budget, gap>>
      <4>1. /\ request' = request /\ budget' = budget /\ gap' = gap
        BY <3>3 DEF args
      <4>2. plan' \in valid
        <5> HIDE DEF valid
        <5> QED
          BY <3>3, PoolIsValid
      <4>3. PlanIsProved'
        BY <3>1, <3>3, <4>1, <4>2 DEF PlanIsProved
      <4>4. BeamIsFilled'
        BY <3>3, <4>1 DEF BeamInv, BeamIsFilled
      <4>5. PlannerTypes'
        BY <3>3, <4>1 DEF BeamInv, PlannerTypes
      <4>6. OnlyValidPlansRun'
        BY <2>1, <3>1, <4>1 DEF OnlyValidPlansRun
      <4> QED
        BY <4>3, <4>4, <4>5, <4>6 DEF BeamInv
    <3> QED
      BY <3>1, <3>2, <3>3
  <2>6. CASE UNCHANGED vars
    BY <2>6 DEF vars, BeamInv, PlannerTypes, OnlyValidPlansRun, BeamIsFilled, PlanIsProved
  <2> QED
    BY <2>2, <2>3, <2>4, <2>5, <2>6 DEF Next
<1> QED
  BY <1>1, <1>2, PTL DEF Spec

\* Whatever the beams prune, a plan that is returned fills the gaps of the source
\* route with distinct candidates, breaks no repeat window against the history or
\* inside the route, stays in the budget, and carries the sum, the bottleneck and
\* the guidance of exactly that route.
THEOREM ReturnedPlansAreSound == Spec => []PlannerSound
<1>1. BeamInv => PlannerSound
  <2> SUFFICES ASSUME BeamInv PROVE PlannerSound
    OBVIOUS
  <2>1. /\ request \in PlanRequests /\ IsPlanRequest(request)
        /\ budget \in Nat /\ budget <= request.maxAdded
        /\ gap \in 1..Larger(1, Len(request.source))
        /\ states # {} => ValidPlanRequest(request)
    <3>1. IsPlanRequest(request)
      BY PlanRequestsAssumption DEF BeamInv, PlannerTypes
    <3>2. request.maxAdded \in Nat
      BY <3>1 DEF IsPlanRequest
    <3> QED
      BY <3>1, <3>2 DEF BeamInv, PlannerTypes, OnlyValidPlansRun
  <2>2. ASSUME NEW s \in states PROVE Len(s.gaps) = gap - 1 /\ Len(s.route) = gap + s.added
    <3> DEFINE m == gap - 1
    <3>1. m \in Nat /\ m + 1 = gap
      BY <2>1, GapsLeft
    <3>2. FillsGaps(request, m, s)
      BY DEF BeamInv, BeamIsFilled, Filled
    <3> HIDE DEF m
    <3>3. Len(s.gaps) = m /\ Len(s.route) = m + 1 + s.added
      BY <3>1, <3>2, FillsGapsFacts DEF FillsGaps
    <3> QED
      BY <3>1, <3>3 DEF m
  <2>3. TypeOK
    BY <2>2 DEF BeamInv, PlannerTypes, PlanIsProved, TypeOK
  <2>4. ASSUME pc = "done" PROVE plan \in GoodPlans(request)
    <3>1. plan \in states /\ FinalRouteValid(request, plan) /\ gap \notin Gaps(request)
      BY <2>4 DEF BeamInv, PlanIsProved
    <3>2. ValidPlanRequest(request)
      BY <2>1, <3>1
    <3>3. gap - 1 = Len(request.source) - 1
      BY <2>1, <3>1, <3>2, GapsLeft
    <3>4. Filled(request, budget, Len(request.source) - 1, plan)
      BY <3>1, <3>3 DEF BeamInv, BeamIsFilled
    <3>5. FirstTrackSafe(request)
      BY <2>1, <3>1, <3>2, <3>4, FinalProofIsRedundant
    <3> QED
      BY <2>1, <3>2, <3>4, <3>5, FilledIsGood
  <2> QED
    BY <2>3, <2>4 DEF PlannerSound, PlanSound
<1> QED
  BY <1>1, BeamInvHolds, PTL

\* The final proof of a route that crossed every gap can only fail at its first
\* track, and then it fails for every route of the request.
THEOREM FinalProofOnlyTestsFirstTrack == Spec => []OnlyFirstTrackFailsLate
<1>1. BeamInv => OnlyFirstTrackFailsLate
  <2> SUFFICES ASSUME BeamInv, pc = "plan", gap \notin Gaps(request), NEW s \in states
               PROVE  FinalRouteValid(request, s) <=> FirstTrackSafe(request)
    BY DEF OnlyFirstTrackFailsLate
  <2>1. IsPlanRequest(request)
    BY PlanRequestsAssumption DEF BeamInv, PlannerTypes
  <2>2. /\ budget \in Nat /\ budget <= request.maxAdded /\ ValidPlanRequest(request)
        /\ gap \in 1..Larger(1, Len(request.source))
    BY <2>1 DEF BeamInv, PlannerTypes, OnlyValidPlansRun, IsPlanRequest
  <2>3. gap - 1 = Len(request.source) - 1
    BY <2>1, <2>2, GapsLeft
  <2>4. Filled(request, budget, Len(request.source) - 1, s)
    BY <2>3 DEF BeamInv, BeamIsFilled
  <2> QED
    BY <2>1, <2>2, <2>4, FinalProofIsRedundant
<1> QED
  BY <1>1, BeamInvHolds, PTL

-----------------------------------------------------------------------------
(***************************************************************************)
(* A filling laid gap by gap: its routes and its additions so far.         *)
(***************************************************************************)
\* A filling gap by gap: R holds the routes and F the additions so far.
Lays(req, h, n, R, F) ==
  /\ n \in Nat /\ h \in [1..n -> Seq(Nat)]
  /\ \A k \in 1..(n + 1) : req.source[k] \in Nat
  /\ R \in [0..n -> Seq(Nat)] /\ R[0] = <<req.source[1]>>
  /\ F \in [0..n -> Seq(Nat)] /\ F[0] = <<>>
  /\ \A m \in 1..n : /\ R[m] = R[m - 1] \o h[m] \o <<req.source[m + 1]>>
                     /\ F[m] = F[m - 1] \o h[m]

StartsWith(whole, part) ==
  Len(part) <= Len(whole) /\ \A i \in 1..Len(part) : whole[i] = part[i]

\* One more gap.
Lengthens(old, fill, x, new) ==
  /\ Len(old) \in Nat /\ Len(fill) \in Nat
  /\ Len(new) = Len(old) + Len(fill) + 1
  /\ \A i \in 1..Len(old) : new[i] = old[i]
  /\ \A i \in 1..Len(fill) : new[Len(old) + i] = fill[i]
  /\ new[Len(old) + Len(fill) + 1] = x

Continues(old, fill, new) ==
  /\ Len(old) \in Nat /\ Len(fill) \in Nat
  /\ Len(new) = Len(old) + Len(fill)
  /\ \A i \in 1..Len(old) : new[i] = old[i]
  /\ \A i \in 1..Len(fill) : new[Len(old) + i] = fill[i]

LEMMA LaidStep ==
  ASSUME NEW req, NEW h, NEW n, NEW R, NEW F, Lays(req, h, n, R, F), NEW m \in 1..n
  PROVE  /\ R[m - 1] \in Seq(Nat) /\ R[m] \in Seq(Nat) /\ h[m] \in Seq(Nat)
         /\ F[m - 1] \in Seq(Nat) /\ F[m] \in Seq(Nat)
         /\ Lengthens(R[m - 1], h[m], req.source[m + 1], R[m])
         /\ Continues(F[m - 1], h[m], F[m])
<1>1. /\ n \in Nat /\ m - 1 \in 0..n /\ m \in 0..n /\ m + 1 \in 1..(n + 1)
  BY DEF Lays
<1>2. /\ R[m - 1] \in Seq(Nat) /\ R[m] \in Seq(Nat) /\ h[m] \in Seq(Nat)
      /\ F[m - 1] \in Seq(Nat) /\ F[m] \in Seq(Nat) /\ req.source[m + 1] \in Nat
      /\ R[m] = R[m - 1] \o h[m] \o <<req.source[m + 1]>>
      /\ F[m] = F[m - 1] \o h[m]
  BY <1>1 DEF Lays
<1>3. Lengthens(R[m - 1], h[m], req.source[m + 1], R[m])
  <2> DEFINE a == R[m - 1]
             p == h[m]
             x == req.source[m + 1]
             b == R[m]
  <2>1. a \in Seq(Nat) /\ p \in Seq(Nat) /\ x \in Nat /\ b = a \o p \o <<x>>
    BY <1>2
  <2> HIDE DEF a, p, x, b
  <2>2. HasParts(b, a, p, x)
    BY <2>1, PartsOfThree
  <2>3. Len(a) \in Nat /\ Len(p) \in Nat
    BY <2>1, LenProperties
  <2>4. Lengthens(a, p, x, b)
    BY <2>2, <2>3 DEF HasParts, Lengthens
  <2> QED
    BY <2>4 DEF a, p, x, b
<1>4. Continues(F[m - 1], h[m], F[m])
  <2> DEFINE a == F[m - 1]
             p == h[m]
             b == F[m]
  <2>1. a \in Seq(Nat) /\ p \in Seq(Nat) /\ b = a \o p
    BY <1>2
  <2> HIDE DEF a, p, b
  <2>2. Continues(a, p, b)
    BY <2>1, Concatenated DEF Continues
  <2> QED
    BY <2>2 DEF a, p, b
<1> QED
  BY <1>2, <1>3, <1>4

\* How far a filling has come.
LaidTo(req, h, R, F, k) ==
  /\ R[k] \in Seq(Nat) /\ F[k] \in Seq(Nat) /\ Len(R[k]) \in Nat /\ Len(F[k]) \in Nat
  /\ Len(R[k]) = k + 1 + Len(F[k])
  /\ R[k][Len(R[k])] = req.source[k + 1]
  /\ \A j \in 0..k : StartsWith(R[k], R[j]) /\ StartsWith(F[k], F[j])
  /\ \A j \in 0..(k - 1) : Len(R[j]) < Len(R[k])
  /\ \A i \in 1..Len(R[k]) : \/ R[k][i] \in {req.source[g] : g \in 1..(k + 1)}
                             \/ \E g \in 1..k : R[k][i] \in Elements(h[g])
  /\ \A i \in 1..Len(F[k]) : \E g \in 1..k : F[k][i] \in Elements(h[g])

LEMMA LaidStart ==
  ASSUME NEW req, NEW h, NEW n, NEW R, NEW F, Lays(req, h, n, R, F)
  PROVE  LaidTo(req, h, R, F, 0)
<1>1. n \in Nat /\ 0 \in 0..n /\ 1 \in 1..(n + 1)
  BY DEF Lays
<1>2. R[0] = <<req.source[1]>> /\ F[0] = <<>> /\ req.source[1] \in Nat
  BY <1>1 DEF Lays
<1> DEFINE a == R[0]
           b == F[0]
           x == req.source[1]
<1>3. a = <<x>> /\ b = <<>> /\ x \in Nat
  BY <1>2
<1> HIDE DEF a, b, x
<1>4. /\ a \in Seq(Nat) /\ b \in Seq(Nat) /\ Len(a) = 1 /\ Len(b) = 0 /\ a[1] = x
      /\ Len(a) \in Nat /\ Len(b) \in Nat
  BY <1>3
<1>5. StartsWith(a, a) /\ StartsWith(b, b)
  BY <1>4 DEF StartsWith
<1>6. \A j \in 0..0 : j = 0
  OBVIOUS
<1>7. \A j \in 0..(0 - 1) : FALSE
  OBVIOUS
<1>8. x \in {req.source[g] : g \in 1..(0 + 1)}
  <2>1. 1 \in 1..(0 + 1)
    OBVIOUS
  <2> QED
    BY <2>1 DEF x
<1>9. /\ \A i \in 1..Len(a) : a[i] \in {req.source[g] : g \in 1..(0 + 1)}
      /\ \A i \in 1..Len(b) : FALSE
  BY <1>4, <1>8
<1>10. 0 + 1 + Len(b) = 1 /\ 0 + 1 = 1
  BY <1>4
<1>11. \A j \in 0..0 : StartsWith(R[0], R[j]) /\ StartsWith(F[0], F[j])
  BY <1>5, <1>6 DEF a, b
<1> QED
  BY <1>4, <1>7, <1>9, <1>10, <1>11 DEF LaidTo, a, b, x

LEMMA LaidFurther ==
  ASSUME NEW req, NEW h, NEW n, NEW R, NEW F, Lays(req, h, n, R, F),
         NEW k \in 1..n, LaidTo(req, h, R, F, k - 1)
  PROVE  LaidTo(req, h, R, F, k)
<1> DEFINE r == R[k - 1]
           q == R[k]
           e == F[k - 1]
           f == F[k]
           p == h[k]
           x == req.source[k + 1]
<1>1. /\ k \in Nat /\ k >= 1 /\ k - 1 \in Nat /\ (k - 1) + 1 = k
  BY DEF Lays
<1>2. /\ r \in Seq(Nat) /\ q \in Seq(Nat) /\ e \in Seq(Nat) /\ f \in Seq(Nat) /\ p \in Seq(Nat)
      /\ Lengthens(r, p, x, q) /\ Continues(e, p, f)
  BY LaidStep
<1>3. /\ Len(r) \in Nat /\ Len(e) \in Nat /\ Len(p) \in Nat
      /\ Len(q) = Len(r) + Len(p) + 1 /\ Len(f) = Len(e) + Len(p)
      /\ Len(q) \in Nat /\ Len(f) \in Nat
  <2>1. Len(r) \in Nat /\ Len(e) \in Nat /\ Len(p) \in Nat
    BY <1>2 DEF Lengthens, Continues
  <2>2. Len(q) = Len(r) + Len(p) + 1 /\ Len(f) = Len(e) + Len(p)
    BY <1>2 DEF Lengthens, Continues
  <2> HIDE DEF r, q, e, f, p
  <2> QED
    BY <2>1, <2>2
<1>4. /\ \A i \in 1..Len(r) : q[i] = r[i]
      /\ \A i \in 1..Len(p) : q[Len(r) + i] = p[i]
      /\ q[Len(r) + Len(p) + 1] = x
  BY <1>2 DEF Lengthens
<1>5. /\ \A i \in 1..Len(e) : f[i] = e[i]
      /\ \A i \in 1..Len(p) : f[Len(e) + i] = p[i]
  BY <1>2 DEF Continues
<1>6. /\ Len(r) = k + Len(e)
      /\ \A j \in 0..(k - 1) : StartsWith(r, R[j]) /\ StartsWith(e, F[j])
      /\ \A j \in 0..((k - 1) - 1) : Len(R[j]) < Len(r)
      /\ \A i \in 1..Len(r) : \/ r[i] \in {req.source[g] : g \in 1..((k - 1) + 1)}
                              \/ \E g \in 1..(k - 1) : r[i] \in Elements(h[g])
      /\ \A i \in 1..Len(e) : \E g \in 1..(k - 1) : e[i] \in Elements(h[g])
  BY <1>1 DEF LaidTo
<1>7. \A j \in 0..(k - 1) : Len(R[j]) \in Nat /\ Len(F[j]) \in Nat
  <2> SUFFICES ASSUME NEW j \in 0..(k - 1) PROVE Len(R[j]) \in Nat /\ Len(F[j]) \in Nat
    OBVIOUS
  <2>1. j \in 0..n
    BY <1>1 DEF Lays
  <2>2. R[j] \in Seq(Nat) /\ F[j] \in Seq(Nat)
    BY <2>1 DEF Lays
  <2> QED
    BY <2>2, LenProperties
<1>8. DOMAIN p = 1..Len(p)
  BY <1>2, LenProperties
<1>9. \A j \in 0..k : j \in 0..(k - 1) \/ j = k
  BY <1>1
<1> HIDE DEF r, q, e, f, p, x
<1>10. Len(q) = k + 1 + Len(f) /\ q[Len(q)] = x
  BY <1>1, <1>3, <1>4, <1>6
<1>11. StartsWith(q, r) /\ StartsWith(f, e) /\ StartsWith(q, q) /\ StartsWith(f, f)
  BY <1>3, <1>4, <1>5 DEF StartsWith
<1>12. ASSUME NEW u, NEW v, NEW w, StartsWith(u, v), StartsWith(v, w),
              Len(u) \in Nat, Len(v) \in Nat, Len(w) \in Nat
       PROVE  StartsWith(u, w)
  BY <1>12 DEF StartsWith
<1>13. ASSUME NEW j \in 0..k PROVE StartsWith(q, R[j]) /\ StartsWith(f, F[j])
  <2>1. CASE j = k
    BY <1>11, <2>1 DEF q, f
  <2>2. CASE j \in 0..(k - 1)
    BY <1>3, <1>6, <1>7, <1>11, <1>12, <2>2
  <2> QED
    BY <1>9, <2>1, <2>2
<1>14. ASSUME NEW j \in 0..(k - 1) PROVE Len(R[j]) < Len(q)
  <2>1. Len(R[j]) <= Len(r) /\ Len(R[j]) \in Nat
    BY <1>6, <1>7 DEF StartsWith
  <2> QED
    BY <1>3, <2>1
<1>15. ASSUME NEW i \in 1..Len(q)
       PROVE  \/ q[i] \in {req.source[g] : g \in 1..(k + 1)}
              \/ \E g \in 1..k : q[i] \in Elements(h[g])
  <2>0. /\ k \in 1..k /\ k + 1 \in 1..(k + 1)
        /\ \A g \in 1..((k - 1) + 1) : g \in 1..(k + 1)
        /\ \A g \in 1..(k - 1) : g \in 1..k
    BY <1>1
  <2>1. \/ i \in 1..Len(r) \/ i - Len(r) \in 1..Len(p) \/ i = Len(r) + Len(p) + 1
    BY <1>3
  <2>2. CASE i \in 1..Len(r)
    <3>1. q[i] = r[i]
      BY <1>4, <2>2
    <3> QED
      BY <1>6, <2>0, <2>2, <3>1
  <2>3. CASE i - Len(r) \in 1..Len(p)
    <3>1. q[Len(r) + (i - Len(r))] = p[i - Len(r)] /\ Len(r) + (i - Len(r)) = i
      BY <1>3, <1>4, <2>3
    <3>2. q[i] \in Elements(p)
      BY <1>8, <2>3, <3>1 DEF Elements
    <3> QED
      BY <2>0, <3>2 DEF p
  <2>4. CASE i = Len(r) + Len(p) + 1
    BY <1>4, <2>0, <2>4 DEF x
  <2> QED
    BY <2>1, <2>2, <2>3, <2>4
<1>16. ASSUME NEW i \in 1..Len(f) PROVE \E g \in 1..k : f[i] \in Elements(h[g])
  <2>0. k \in 1..k /\ \A g \in 1..(k - 1) : g \in 1..k
    BY <1>1
  <2>1. i \in 1..Len(e) \/ i - Len(e) \in 1..Len(p)
    BY <1>3
  <2>2. CASE i \in 1..Len(e)
    <3>1. f[i] = e[i]
      BY <1>5, <2>2
    <3> QED
      BY <1>6, <2>0, <2>2, <3>1
  <2>3. CASE i - Len(e) \in 1..Len(p)
    <3>1. f[Len(e) + (i - Len(e))] = p[i - Len(e)] /\ Len(e) + (i - Len(e)) = i
      BY <1>3, <1>5, <2>3
    <3>2. f[i] \in Elements(p)
      BY <1>8, <2>3, <3>1 DEF Elements
    <3> QED
      BY <2>0, <3>2 DEF p
  <2> QED
    BY <2>1, <2>2, <2>3
<1> QED
  BY <1>2, <1>3, <1>10, <1>13, <1>14, <1>15, <1>16 DEF LaidTo, q, f, x

LEMMA LaidAll ==
  ASSUME NEW req, NEW h, NEW n, NEW R, NEW F, Lays(req, h, n, R, F)
  PROVE  \A k \in 0..n : LaidTo(req, h, R, F, k)
<1>0. n \in Nat
  BY DEF Lays
<1> DEFINE Bad == {k \in 0..n : ~LaidTo(req, h, R, F, k)}
<1>1. ASSUME Bad # {} PROVE FALSE
  <2>1. Bad \in SUBSET Nat
    OBVIOUS
  <2> HIDE DEF Bad
  <2>2. PICK k \in Bad : \A j \in Bad : k <= j
    BY <1>1, <2>1, LeastNatural
  <2>3. k \in 0..n /\ ~LaidTo(req, h, R, F, k)
    BY DEF Bad
  <2>4. k # 0
    BY <2>3, LaidStart
  <2>5. k \in 1..n /\ k - 1 \in 0..n /\ ~(k <= k - 1)
    BY <1>0, <2>3, <2>4
  <2>6. LaidTo(req, h, R, F, k - 1)
    BY <2>2, <2>5 DEF Bad
  <2> QED
    BY <2>3, <2>5, <2>6, LaidFurther
<1> QED
  BY <1>1

Firsts(h, m) == [g \in 1..m |-> h[g]]

RoutesOf(req, h, n) == [m \in 0..n |-> <<req.source[1]>> \o FlattenSeq(Joints(req, m, h))]

FlatsOf(h, n) == [m \in 0..n |-> FlattenSeq(Firsts(h, m))]

\* A filling is laid gap by gap, by the operators that flatten it at once.
LEMMA FillingIsLaid ==
  ASSUME NEW req, NEW n \in Nat, NEW h \in [1..n -> Seq(Nat)],
         \A k \in 1..(n + 1) : req.source[k] \in Nat
  PROVE  Lays(req, h, n, RoutesOf(req, h, n), FlatsOf(h, n))
<1> DEFINE R == RoutesOf(req, h, n)
           F == FlatsOf(h, n)
           first == <<req.source[1]>>
<1>1. 0 \in 0..n /\ 1 \in 1..(n + 1) /\ \A m \in 0..n : m \in Nat /\ \A g \in 1..m : g \in 1..n /\ g + 1 \in 1..(n + 1)
  OBVIOUS
<1>2. req.source[1] \in Nat /\ first \in Seq(Nat)
  BY <1>1
<1>3. ASSUME NEW m \in 0..n
      PROVE  /\ Firsts(h, m) \in [1..m -> Seq(Nat)]
             /\ Joints(req, m, h) \in [1..m -> Seq(Nat)]
             /\ \A g \in 1..m : /\ Firsts(h, m)[g] = h[g]
                                /\ Joints(req, m, h)[g] = Append(h[g], req.source[g + 1])
  <2>1. \A g \in 1..m : h[g] \in Seq(Nat) /\ req.source[g + 1] \in Nat
    BY <1>1
  <2>2. \A g \in 1..m : Append(h[g], req.source[g + 1]) \in Seq(Nat)
    BY <2>1, AppendProperties
  <2> QED
    BY <2>1, <2>2 DEF Firsts, Joints
<1>4. ASSUME NEW m \in 0..n
      PROVE  /\ FlattenSeq(Firsts(h, m)) \in Seq(Nat) /\ FlattenSeq(Joints(req, m, h)) \in Seq(Nat)
             /\ first \o FlattenSeq(Joints(req, m, h)) \in Seq(Nat)
  <2>1. m \in Nat
    BY <1>1
  <2>2. FlattenSeq(Firsts(h, m)) \in Seq(Nat) /\ FlattenSeq(Joints(req, m, h)) \in Seq(Nat)
    BY <1>3, <2>1, FlattenIsSeq
  <2> HIDE DEF first
  <2> QED
    BY <1>2, <2>2, Concatenated
<1>5. R \in [0..n -> Seq(Nat)] /\ F \in [0..n -> Seq(Nat)]
  BY <1>4 DEF RoutesOf, FlatsOf
<1>6. \A m \in 0..n : /\ R[m] = first \o FlattenSeq(Joints(req, m, h))
                      /\ F[m] = FlattenSeq(Firsts(h, m))
  BY DEF RoutesOf, FlatsOf
<1> HIDE DEF R, F
<1>7. R[0] = first /\ F[0] = <<>>
  <2>1. Firsts(h, 0) = <<>> /\ Joints(req, 0, h) = <<>>
    BY <1>1, <1>3
  <2>2. first \o <<>> = first
    BY <1>2
  <2> QED
    BY <1>1, <1>6, <2>1, <2>2, FlattenOfNothing
<1>8. ASSUME NEW m \in 1..n
      PROVE  R[m] = R[m - 1] \o h[m] \o <<req.source[m + 1]>> /\ F[m] = F[m - 1] \o h[m]
  <2> DEFINE j == m - 1
             x == req.source[m + 1]
             p == h[m]
  <2>1. /\ j \in Nat /\ j \in 0..n /\ m \in 0..n /\ j + 1 = m /\ m \in 1..m /\ m + 1 \in 1..(n + 1)
        /\ \A g \in 1..j : g \in 1..m
    OBVIOUS
  <2>2. x \in Nat /\ p \in Seq(Nat)
    BY <2>1
  <2> HIDE DEF j
  <2>3. FlattenSeq(Firsts(h, m)) = FlattenSeq(Firsts(h, j)) \o p
    <3> DEFINE short == Firsts(h, j)
               long == Firsts(h, m)
    <3>1. /\ short \in [1..j -> Seq(Nat)] /\ long \in [1..(j + 1) -> Seq(Nat)]
          /\ \A g \in 1..j : long[g] = short[g]
          /\ long[j + 1] = p
      BY <1>3, <2>1
    <3> HIDE DEF short, long, p
    <3>2. FlattenSeq(long) = FlattenSeq(short) \o long[j + 1]
      BY <2>1, <3>1, FlattenOfAppend
    <3> QED
      BY <3>1, <3>2 DEF short, long
  <2>4. FlattenSeq(Joints(req, m, h)) = FlattenSeq(Joints(req, j, h)) \o Append(p, x)
    <3> DEFINE short == Joints(req, j, h)
               long == Joints(req, m, h)
    <3>1. /\ short \in [1..j -> Seq(Nat)] /\ long \in [1..(j + 1) -> Seq(Nat)]
          /\ \A g \in 1..j : long[g] = short[g]
      BY <1>3, <2>1
    <3>2. long[j + 1] = Append(p, x)
      BY <1>3, <2>1
    <3> HIDE DEF short, long, p, x
    <3>3. j \in Nat
      BY <2>1
    <3>4. FlattenSeq(long) = FlattenSeq(short) \o long[j + 1]
      BY <3>1, <3>3, FlattenOfAppend
    <3> QED
      BY <3>2, <3>4 DEF short, long
  <2>5. F[m] = F[j] \o p
    BY <1>6, <2>1, <2>3
  <2>6. R[m] = R[j] \o p \o <<x>>
    <3> DEFINE joined == FlattenSeq(Joints(req, j, h))
    <3>1. joined \in Seq(Nat) /\ first \in Seq(Nat)
      BY <1>2, <1>4, <2>1
    <3>2. R[m] = first \o (joined \o Append(p, x)) /\ R[j] = first \o joined
      BY <1>6, <2>1, <2>4
    <3> HIDE DEF joined, first, p, x
    <3>3. Append(p, x) = p \o <<x>> /\ <<x>> \in Seq(Nat)
      <4>1. ASSUME NEW u \in Seq(Nat), NEW v \in Nat PROVE Append(u, v) = u \o <<v>> /\ <<v>> \in Seq(Nat)
        OBVIOUS
      <4> QED
        BY <2>2, <4>1
    <3> DEFINE end == <<x>>
    <3>4. end \in Seq(Nat) /\ Append(p, x) = p \o end
      BY <3>3
    <3> HIDE DEF end
    <3>5. first \o (joined \o (p \o end)) = ((first \o joined) \o p) \o end
      <4>1. p \o end \in Seq(Nat) /\ first \o joined \in Seq(Nat)
        BY <2>2, <3>1, <3>4, Concatenated
      <4>2. (first \o joined) \o (p \o end) = first \o (joined \o (p \o end))
        BY <3>1, <4>1, JoinedInTurn
      <4>3. ((first \o joined) \o p) \o end = (first \o joined) \o (p \o end)
        BY <2>2, <3>4, <4>1, JoinedInTurn
      <4> QED
        BY <4>2, <4>3
    <3> QED
      BY <3>2, <3>4, <3>5 DEF end
  <2> QED
    BY <2>5, <2>6 DEF j, p, x
<1> QED
  BY <1>5, <1>7, <1>8 DEF Lays, R, F

\* The last of them are the route and the additions of the whole filling.
LEMMA WholeFilling ==
  ASSUME NEW req, NEW n \in Nat, NEW h \in [1..n -> Seq(Nat)], Gaps(req) = 1..n
  PROVE  RoutesOf(req, h, n)[n] = RouteOf(req, h) /\ FlatsOf(h, n)[n] = FlattenSeq(h)
<1>1. n \in 0..n
  OBVIOUS
<1>2. Firsts(h, n) = h
  BY DEF Firsts
<1>3. RoutesOf(req, h, n)[n] = RouteOf(req, h)
  BY <1>1 DEF RoutesOf, RouteOf, Joints
<1> QED
  BY <1>1, <1>2, <1>3 DEF FlatsOf

\* The state has come as far as the routes of h laid gap by gap.
IsLaid(req, h, m, s) ==
  \A n \in Nat : m <= n =>
    s.route = RoutesOf(req, h, n)[m] /\ s.added = Len(FlatsOf(h, n)[m])

\* A state of the beam that has taken the first gaps of a filling.
LEMMA StateIsLaid ==
  ASSUME NEW req, NEW h, NEW m \in Nat, NEW s, FillsGaps(req, m, s), s.gaps = Firsts(h, m)
  PROVE  IsLaid(req, h, m, s)
<1> SUFFICES ASSUME NEW n \in Nat, m <= n
             PROVE  s.route = RoutesOf(req, h, n)[m] /\ s.added = Len(FlatsOf(h, n)[m])
  BY DEF IsLaid
<1>0. m \in 0..n
  OBVIOUS
<1>1. \A g \in 1..m : s.gaps[g] = h[g]
  BY DEF Firsts
<1>2. Joints(req, m, s.gaps) = Joints(req, m, h)
  BY <1>1 DEF Joints
<1>3. s.route = <<req.source[1]>> \o FlattenSeq(Joints(req, m, h)) /\ s.added = Len(FlattenSeq(Firsts(h, m)))
  BY <1>2 DEF FillsGaps
<1> QED
  BY <1>0, <1>3 DEF RoutesOf, FlatsOf

-----------------------------------------------------------------------------
(***************************************************************************)
(* The good fillings, and the room they leave for the members to come.     *)
(***************************************************************************)
GoodFillings(req) ==
  {h \in Fillings(req) : /\ RouteSafe(req, RouteOf(req, h))
                         /\ Unreachable \notin Range(RouteLegs(req, RouteOf(req, h)))}

LEMMA FillingFacts ==
  ASSUME NEW req, IsPlanRequest(req), ValidPlanRequest(req), NEW h \in Fillings(req)
  PROVE  LET n == Len(req.source) - 1 IN
         /\ n \in Nat /\ n >= 1 /\ n + 1 = Len(req.source) /\ Gaps(req) = 1..n
         /\ h \in [1..n -> Seq(Nat)]
         /\ \A g \in 1..n : h[g] \in GapFills(req, g)
         /\ IsInjective(FlattenSeq(h))
         /\ req.policy = "repair" => Len(FlattenSeq(h)) <= req.maxAdded
         /\ Lays(req, h, n, RoutesOf(req, h, n), FlatsOf(h, n))
         /\ RoutesOf(req, h, n)[n] = RouteOf(req, h) /\ FlatsOf(h, n)[n] = FlattenSeq(h)
<1> DEFINE n == Len(req.source) - 1
<1>1. /\ n \in Nat /\ n >= 1 /\ n + 1 = Len(req.source) /\ Gaps(req) = 1..n
      /\ \A i \in 1..Len(req.source) : req.source[i] \in Nat
  BY PlanRequestFacts
<1> HIDE DEF n
<1>2. /\ h \in [1..n -> UNION {GapFills(req, g) : g \in 1..n}]
      /\ \A g \in 1..n : h[g] \in GapFills(req, g)
      /\ IsInjective(FlattenSeq(h))
      /\ req.policy = "repair" => Len(FlattenSeq(h)) <= req.maxAdded
  BY <1>1 DEF Fillings
<1>3. \A g \in 1..n : h[g] \in Seq(Nat)
  BY <1>1, <1>2, GapFillFacts
<1>4. h \in [1..n -> Seq(Nat)]
  BY <1>2, <1>3
<1>5. \A k \in 1..(n + 1) : req.source[k] \in Nat
  BY <1>1
<1>6. Lays(req, h, n, RoutesOf(req, h, n), FlatsOf(h, n))
  BY <1>1, <1>4, <1>5, FillingIsLaid
<1>7. RoutesOf(req, h, n)[n] = RouteOf(req, h) /\ FlatsOf(h, n)[n] = FlattenSeq(h)
  BY <1>1, <1>4, WholeFilling
<1> QED
  BY <1>1, <1>2, <1>4, <1>6, <1>7 DEF n

\* Every pair of the finished route, by its places in the route.
LEMMA PairsOfSafeRoute ==
  ASSUME NEW req, req.history \in Seq(Nat), NEW route \in Seq(Nat), RouteSafe(req, route),
         NEW j \in 1..Len(route), NEW i \in 1..(j - 1)
  PROVE  PairSafe(req.tracks, req.w, route[i], route[j], j - i)
<1> DEFINE past == req.history
           whole == past \o route
           H == Len(past)
<1>1. /\ H \in Nat /\ Len(route) \in Nat /\ Len(whole) = H + Len(route)
      /\ \A k \in 1..Len(route) : whole[H + k] = route[k]
  <2>1. past \in Seq(Nat)
    OBVIOUS
  <2> HIDE DEF past
  <2> QED
    BY <2>1, Concatenated
<1>2. \A b \in (H + 1)..Len(whole) : \A a \in 1..(b - 1) :
        PairSafe(req.tracks, req.w, whole[a], whole[b], b - a)
  BY DEF RouteSafe
<1> HIDE DEF whole, H
<1>3. /\ H + j \in (H + 1)..Len(whole) /\ H + i \in 1..((H + j) - 1)
      /\ (H + j) - (H + i) = j - i /\ i \in 1..Len(route)
  BY <1>1
<1>4. PairSafe(req.tracks, req.w, whole[H + i], whole[H + j], (H + j) - (H + i))
  BY <1>2, <1>3
<1> QED
  BY <1>1, <1>3, <1>4

\* A good filling leaves the members from any gap onward the room they need.
LEMMA RestNeedsRoom ==
  ASSUME NEW req, IsPlanRequest(req), ValidPlanRequest(req), NEW h, NEW n, NEW R, NEW F,
         Lays(req, h, n, R, F), Len(req.source) = n + 1, RouteSafe(req, R[n]), NEW g \in 0..n
  PROVE  MinimumRepeatSpacing(SubSeq(req.source, g + 1, Len(req.source)), req.tracks, req.w)
           <= Len(F[n]) - Len(F[g])
<1> DEFINE rest == SubSeq(req.source, g + 1, Len(req.source))
           N == n + 1 - g
           pos == [k \in 1..N |-> Len(R[(g + k) - 1])]
<1>1. /\ n \in Nat /\ g \in Nat /\ N \in Nat /\ N >= 1 /\ n \in 0..n
      /\ \A k \in 1..N : k \in Nat /\ (g + k) - 1 \in 0..n /\ ((g + k) - 1) + 1 = g + k
      /\ \A k \in 2..N : k - 1 \in 1..N /\ k \in 1..N /\ (g + (k - 1)) - 1 \in 0..(((g + k) - 1) - 1)
  <2>1. n \in Nat /\ g \in 0..n
    BY DEF Lays
  <2> HIDE DEF pos
  <2>2. g \in Nat /\ N \in Nat /\ N >= 1 /\ n \in 0..n
    BY <2>1
  <2>3. \A k \in 1..N : k \in Nat /\ (g + k) - 1 \in 0..n /\ ((g + k) - 1) + 1 = g + k
    BY <2>1
  <2>4. \A k \in 2..N : k - 1 \in 1..N /\ k \in 1..N /\ (g + (k - 1)) - 1 \in 0..(((g + k) - 1) - 1)
    BY <2>1
  <2> QED
    BY <2>1, <2>2, <2>3, <2>4
<1>2. \A k \in 0..n : LaidTo(req, h, R, F, k)
  BY LaidAll
<1>3. /\ rest \in Seq(Nat) /\ Len(rest) = N
      /\ \A k \in 1..N : rest[k] = req.source[g + k]
  <2> DEFINE src == req.source
             L == Len(src)
  <2>1. src \in Seq(Nat) /\ L = n + 1 /\ g + 1 \in 1..(L + 1) /\ L \in Nat
    BY <1>1 DEF IsPlanRequest
  <2>2. \A i \in (g + 1)..L : src[i] \in Nat
    BY <1>1, <2>1, PlanRequestFacts
  <2> HIDE DEF src
  <2>3. SubSeq(src, g + 1, L) \in Seq(Nat)
    BY <1>1, <2>1, <2>2, SubSeqProperties
  <2>4. /\ Len(SubSeq(src, g + 1, L)) = N
        /\ \A k \in 1..N : SubSeq(src, g + 1, L)[k] = src[g + k]
    <3>1. SubSeq(src, g + 1, L) = [k \in 1..N |-> src[g + k]]
      BY <1>1, <2>1
    <3> QED
      BY <1>1, <3>1
  <2> QED
    BY <2>3, <2>4 DEF src
<1>4. \A k \in 1..N : pos[k] = Len(R[(g + k) - 1])
  OBVIOUS
<1> HIDE DEF rest, N, pos
<1>5. ASSUME NEW k \in 1..N PROVE pos[k] \in Nat
  BY <1>1, <1>2, <1>4 DEF LaidTo
<1>6. ASSUME NEW k \in 2..N PROVE pos[k - 1] < pos[k]
  <2>1. Len(R[(g + (k - 1)) - 1]) < Len(R[(g + k) - 1])
    BY <1>1, <1>2 DEF LaidTo
  <2> QED
    BY <1>1, <1>4, <2>1
<1> DEFINE route == R[n]
<1>7. route \in Seq(Nat) /\ Len(route) \in Nat /\ req.history \in Seq(Nat)
  BY <1>1, <1>2 DEF LaidTo, IsPlanRequest
<1>8. ASSUME NEW k \in 1..N
      PROVE  pos[k] \in 1..Len(route) /\ route[pos[k]] = rest[k]
  <2> DEFINE c == (g + k) - 1
  <2>1. c \in 0..n /\ c + 1 = g + k
    BY <1>1
  <2>2. pos[k] = Len(R[c])
    BY <1>4
  <2> HIDE DEF c
  <2>3. /\ StartsWith(route, R[c]) /\ R[c][Len(R[c])] = req.source[c + 1]
        /\ Len(R[c]) = c + 1 + Len(F[c]) /\ Len(F[c]) \in Nat
    BY <1>1, <1>2, <2>1 DEF LaidTo
  <2> DEFINE d == Len(R[c])
  <2>4. d >= 1 /\ d \in Nat
    <3> DEFINE e == Len(F[c])
    <3>1. d = c + 1 + e /\ e \in Nat /\ c \in Nat
      BY <1>1, <2>1, <2>3
    <3> HIDE DEF d, e
    <3> QED
      BY <3>1
  <2>5. d \in 1..Len(route) /\ route[d] = R[c][d]
    <3>1. d <= Len(route) /\ \A i \in 1..d : route[i] = R[c][i]
      BY <2>3 DEF StartsWith
    <3> HIDE DEF d
    <3>2. d \in 1..Len(route) /\ d \in 1..d
      BY <1>7, <2>4, <3>1
    <3> QED
      BY <3>1, <3>2
  <2> QED
    BY <1>3, <2>1, <2>2, <2>3, <2>5
<1>9. ASSUME NEW r \in 1..N, NEW l \in 1..(r - 1) PROVE pos[l] < pos[r]
  <2> DEFINE b == (g + r) - 1
             a == (g + l) - 1
  <2>1. l \in 1..N /\ b \in 0..n /\ a \in 0..(b - 1)
    BY <1>1
  <2>2. pos[l] = Len(R[a]) /\ pos[r] = Len(R[b])
    BY <1>4, <2>1
  <2> HIDE DEF a, b
  <2> QED
    BY <1>2, <2>1, <2>2 DEF LaidTo
<1>10. ASSUME NEW r \in 1..N, NEW l \in 1..(r - 1)
       PROVE  PairSafe(req.tracks, req.w, rest[l], rest[r], pos[r] - pos[l])
  <2>1. l \in 1..N
    BY <1>1
  <2>2. /\ pos[r] \in 1..Len(route) /\ route[pos[r]] = rest[r]
        /\ pos[l] \in 1..Len(route) /\ route[pos[l]] = rest[l]
    BY <1>8, <2>1
  <2>3. pos[l] \in 1..(pos[r] - 1)
    BY <1>7, <1>9, <2>2
  <2> HIDE DEF route
  <2>4. RouteSafe(req, route)
    BY DEF route
  <2> QED
    BY <1>7, <2>2, <2>3, <2>4, PairsOfSafeRoute
<1>11. StandApart(rest, req.tracks, req.w, pos)
  BY <1>3, <1>5, <1>6, <1>10 DEF StandApart
<1>12. MinimumRepeatSpacing(rest, req.tracks, req.w) <= pos[N] - pos[1] - (N - 1)
  <2>1. req.w \in [artist : Nat, album : Nat, track : Nat] /\ rest # <<>>
    BY <1>1, <1>3 DEF IsPlanRequest
  <2>2. MinimumRepeatSpacing(rest, req.tracks, req.w) <= pos[Len(rest)] - pos[1] - (Len(rest) - 1)
    BY <1>3, <1>11, <2>1, SpacingIsNeeded
  <2> QED
    BY <1>3, <2>2
<1>13. pos[N] - pos[1] - (N - 1) = Len(F[n]) - Len(F[g])
  <2>1. (g + N) - 1 = n /\ (g + 1) - 1 = g /\ N \in 1..N /\ 1 \in 1..N
    BY <1>1 DEF N
  <2>2. pos[N] = Len(R[n]) /\ pos[1] = Len(R[g])
    BY <1>4, <2>1
  <2>3. /\ Len(R[n]) = n + 1 + Len(F[n]) /\ Len(R[g]) = g + 1 + Len(F[g])
        /\ Len(F[n]) \in Nat /\ Len(F[g]) \in Nat
    BY <1>1, <1>2 DEF LaidTo
  <2> DEFINE ln == Len(R[n])
             lg == Len(R[g])
             fn == Len(F[n])
             fg == Len(F[g])
  <2>4. /\ pos[N] = ln /\ pos[1] = lg /\ ln = n + 1 + fn /\ lg = g + 1 + fg
        /\ fn \in Nat /\ fg \in Nat /\ n \in Nat /\ g \in Nat /\ N = n + 1 - g
    BY <1>1, <2>2, <2>3 DEF N
  <2> HIDE DEF ln, lg, fn, fg
  <2>5. pos[N] - pos[1] - (N - 1) = fn - fg
    BY <2>4
  <2> QED
    BY <2>5 DEF fn, fg
<1> QED
  BY <1>12, <1>13 DEF rest

-----------------------------------------------------------------------------
(***************************************************************************)
(* The ways to cross the first gaps bound what a beam can hold.            *)
(***************************************************************************)
Free(req, g) == DOMAIN req.candidates[g] \ Elements(req.source)

MostFills(req, g) ==
  Min({IF req.policy = "exact" THEN req.perGap ELSE req.maxAdded, Cardinality(Free(req, g))})

LEMMA OpenFillsAre ==
  ASSUME NEW req, IsPlanRequest(req), ValidPlanRequest(req), NEW g \in Gaps(req)
  PROVE  /\ IsFiniteSet(Free(req, g)) /\ Free(req, g) \subseteq Nat
         /\ OpenFills(req, g) =
              {fill \in UNION {[1..n -> Free(req, g)] : n \in 0..MostFills(req, g)} : IsInjective(fill)}
         /\ IsFiniteSet(OpenFills(req, g))
         /\ \A fill \in OpenFills(req, g) : fill \in Seq(Nat)
         /\ \A n \in Nat : \A fill \in [1..n -> Free(req, g)] :
              /\ IsInjective(fill)
              /\ n <= IF req.policy = "exact" THEN req.perGap ELSE req.maxAdded
              => fill \in OpenFills(req, g)
<1> DEFINE free == Free(req, g)
           limit == IF req.policy = "exact" THEN req.perGap ELSE req.maxAdded
           most == MostFills(req, g)
<1>1. /\ IsFiniteSet(free) /\ free \subseteq Nat
  <2>1. IsFiniteSet(DOMAIN req.candidates[g]) /\ DOMAIN req.candidates[g] \subseteq Nat
    BY PlanRequestFacts
  <2>2. free \in SUBSET DOMAIN req.candidates[g]
    BY DEF Free
  <2> QED
    BY <2>1, <2>2, FS_Subset
<1>2. limit \in Nat /\ Cardinality(free) \in Nat
  BY <1>1, FS_CardinalityType DEF IsPlanRequest
<1>3. /\ most = Min({limit, Cardinality(free)})
      /\ OpenFills(req, g) = {fill \in UNION {[1..n -> free] : n \in 0..most} : IsInjective(fill)}
  BY DEF OpenFills, MostFills, Free
<1> HIDE DEF limit, free, most
<1>4. most \in Nat /\ most <= limit /\ (most = limit \/ most = Cardinality(free))
  <2> DEFINE c == Cardinality(free)
  <2>1. c \in Nat /\ most = Min({limit, c})
    BY <1>2, <1>3
  <2> HIDE DEF c
  <2>2. /\ Min({limit, c}) \in Nat /\ Min({limit, c}) <= limit
        /\ (Min({limit, c}) = limit \/ Min({limit, c}) = c)
    BY <1>2, <2>1, MinOfTwo
  <2> QED
    BY <2>1, <2>2 DEF c
<1> DEFINE N == 0..most
           of == [n \in N |-> [1..n -> free]]
           Each == {of[n] : n \in N}
<1>5. IsFiniteSet(N) /\ \A n \in N : n \in Nat
  BY <1>4, FS_Interval
<1>6. \A P \in Each : IsFiniteSet(P)
  BY <1>1, <1>5, FiniteSequences
<1>7. UNION {[1..n -> free] : n \in N} = UNION Each
  OBVIOUS
<1>8. IsFiniteSet(UNION Each)
  <2> HIDE DEF N
  <2>1. of \in Surjection(N, Each)
    BY DEF Surjection
  <2> HIDE DEF Each, of
  <2>2. IsFiniteSet(Each)
    BY <1>5, <2>1, FS_Surjection
  <2> QED
    BY <1>6, <2>2, FS_UNION
<1>9. IsFiniteSet(OpenFills(req, g))
  <2>1. OpenFills(req, g) \in SUBSET UNION Each
    <3> HIDE DEF Each
    <3> QED
      BY <1>3, <1>7
  <2> HIDE DEF Each
  <2> QED
    BY <1>8, <2>1, FS_Subset
<1>10. ASSUME NEW fill \in OpenFills(req, g) PROVE fill \in Seq(Nat)
  <2>1. PICK n \in N : fill \in [1..n -> free]
    BY <1>3
  <2>2. n \in Nat /\ fill \in [1..n -> Nat]
    BY <1>1, <1>5, <2>1
  <2> QED
    BY <2>2
<1>11. ASSUME NEW n \in Nat, NEW fill \in [1..n -> free], IsInjective(fill), n <= limit
       PROVE  fill \in OpenFills(req, g)
  <2>1. n <= Cardinality(free)
    BY <1>1, <1>11, InjectionIsShort
  <2>2. n \in 0..most
    BY <1>2, <1>4, <1>11, <2>1
  <2> QED
    BY <1>3, <1>11, <2>2
<1> QED
  BY <1>1, <1>3, <1>9, <1>10, <1>11 DEF free, limit, most

LEMMA GapFillIsOpen ==
  ASSUME NEW req, IsPlanRequest(req), ValidPlanRequest(req), NEW g \in Gaps(req),
         NEW fill \in GapFills(req, g)
  PROVE  fill \in OpenFills(req, g)
<1> DEFINE free == Free(req, g)
           limit == IF req.policy = "exact" THEN req.perGap ELSE req.maxAdded
           most == IF req.policy = "exact" THEN req.perGap
                   ELSE Min({req.maxAdded, Cardinality(free)})
           least == IF req.policy = "exact" THEN req.perGap ELSE 0
<1>1. fill \in UNION {[1..n -> free] : n \in least..most} /\ IsInjective(fill)
  BY DEF GapFills, Free
<1>2. req.perGap \in Nat /\ req.maxAdded \in Nat /\ IsFiniteSet(free) /\ Cardinality(free) \in Nat
  BY OpenFillsAre, FS_CardinalityType DEF IsPlanRequest
<1>3. least \in Nat /\ most \in Nat /\ most <= limit
  <2> DEFINE c == Cardinality(free)
             a == req.maxAdded
  <2>1. c \in Nat /\ a \in Nat
    BY <1>2
  <2> HIDE DEF c, a
  <2>2. Min({a, c}) \in Nat /\ Min({a, c}) <= a
    BY <2>1, MinOfTwo
  <2> QED
    BY <1>2, <2>2 DEF c, a
<1>4. limit \in Nat
  BY <1>2
<1> HIDE DEF free, most, least, limit
<1>5. PICK n \in least..most : fill \in [1..n -> free]
  BY <1>1
<1>6. n \in Nat /\ n <= limit
  BY <1>3, <1>4, <1>5
<1> QED
  BY <1>1, <1>5, <1>6, OpenFillsAre DEF free, limit

LEMMA CrossingsAreFinite ==
  ASSUME NEW req, IsPlanRequest(req), ValidPlanRequest(req), NEW g \in Gaps(req)
  PROVE  IsFiniteSet(Crossings(req, g)) /\ Cardinality(Crossings(req, g)) \in Nat
<1> DEFINE of == [k \in 1..g |-> OpenFills(req, k)]
           Each == {of[k] : k \in 1..g}
           all == UNION {OpenFills(req, k) : k \in 1..g}
<1>1. g \in Nat /\ \A k \in 1..g : k \in Gaps(req)
  BY PlanRequestFacts
<1>2. \A k \in 1..g : IsFiniteSet(of[k])
  BY <1>1, OpenFillsAre
<1>3. all = UNION Each
  OBVIOUS
<1>4. IsFiniteSet(UNION Each)
  <2>1. of \in Surjection(1..g, Each)
    BY DEF Surjection
  <2>2. \A P \in Each : IsFiniteSet(P)
    BY <1>2
  <2>3. IsFiniteSet(1..g)
    BY <1>1, FS_Interval
  <2> HIDE DEF Each, of
  <2>4. IsFiniteSet(Each)
    BY <2>1, <2>3, FS_Surjection
  <2> QED
    BY <2>2, <2>4, FS_UNION
<1> HIDE DEF Each
<1>5. IsFiniteSet([1..g -> all])
  <2> HIDE DEF all
  <2> QED
    BY <1>1, <1>3, <1>4, FiniteSequences
<1>6. Crossings(req, g) \in SUBSET [1..g -> all]
  BY DEF Crossings
<1> HIDE DEF all
<1> QED
  BY <1>5, <1>6, FS_Subset, FS_CardinalityType

\* What a path of the next gap is to a state of the beam.
LEMMA PathIsAvailable ==
  ASSUME NEW req, IsPlanRequest(req), ValidPlanRequest(req), NEW total, NEW g \in Gaps(req),
         NEW s, FillsGaps(req, g - 1, s),
         NEW n \in Nat, NEW path \in Paths(PathRequest(req, total, g, s), n)
  PROVE  /\ path \in [1..n -> Free(req, g)] /\ path \in Seq(Nat) /\ Len(path) = n
         /\ IsInjective(path)
         /\ \A i \in 1..Len(path) : path[i] \notin Elements(req.source \o s.route)
<1> DEFINE pr == PathRequest(req, total, g, s)
           open == Available(pr)
<1>1. pr.unavailable = req.source \o s.route
  BY Zenon DEF PathRequest
<1>2. path \in [1..n -> open] /\ IsInjective(path)
  BY DEF Paths
<1>3. open \subseteq Free(req, g)
  BY FreeIsFinite DEF Free
<1>4. \A y \in open : y \notin Elements(req.source \o s.route)
  BY <1>1 DEF Available
<1> HIDE DEF open
<1>5. path \in [1..n -> Free(req, g)]
  BY <1>2, <1>3
<1>6. path \in Seq(Nat) /\ Len(path) = n
  <2>1. path \in [1..n -> Nat]
    BY <1>5, OpenFillsAre
  <2> QED
    BY <2>1
<1>7. \A i \in 1..n : path[i] \in open
  BY <1>2
<1> QED
  BY <1>2, <1>4, <1>5, <1>6, <1>7

LEMMA RepairRoom ==
  ASSUME NEW total \in Nat, NEW added \in Nat, NEW rest \in Nat, added <= total
  PROVE  /\ SaturatingSub(SaturatingSub(total, added), rest) \in Nat
         /\ added + SaturatingSub(SaturatingSub(total, added), rest) <= total
         /\ \A n \in Nat : added + n + rest <= total
                => n <= SaturatingSub(SaturatingSub(total, added), rest)
  BY DEF SaturatingSub

\* What the next gap may take, within the budget.
LEMMA PathMaxIs ==
  ASSUME NEW req, IsPlanRequest(req), ValidPlanRequest(req), NEW total \in Nat,
         NEW m \in Nat, m + 1 \in Gaps(req), NEW s, Filled(req, total, m, s)
  PROVE  LET pr == PathRequest(req, total, m + 1, s) IN
         /\ pr.max \in Nat /\ s.added \in Nat
         /\ req.policy = "exact" => pr.max = req.perGap
         /\ req.policy = "repair" =>
              /\ s.added <= total /\ s.added + pr.max <= total
              /\ \A n \in Nat : s.added + n + MinimumAfterGap(req, m + 1) <= total => n <= pr.max
<1> DEFINE pr == PathRequest(req, total, m + 1, s)
           rest == MinimumAfterGap(req, m + 1)
<1>1. s.added \in Nat /\ StaysInBudget(req, total, m, s)
  <2>1. FillsGaps(req, m, s) /\ StaysInBudget(req, total, m, s)
    BY DEF Filled
  <2> QED
    BY <2>1, FillsGapsFacts
<1>2. pr.max = MaxIntermediates(req, total, m + 1, s)
  BY Zenon DEF PathRequest
<1>3. m + 1 \in Nat /\ req.policy \in {"exact", "repair"} /\ req.perGap \in Nat
  BY DEF IsPlanRequest
<1>4. rest \in Nat
  BY <1>3, MinimumAfterGapIsNat
<1>5. CASE req.policy = "exact"
  BY <1>1, <1>2, <1>3, <1>5 DEF MaxIntermediates
<1>6. CASE req.policy = "repair"
  <2>1. pr.max = SaturatingSub(SaturatingSub(total, s.added), rest)
    BY <1>2, <1>6 DEF MaxIntermediates
  <2>2. s.added <= total
    BY <1>1, <1>6 DEF StaysInBudget
  <2> DEFINE a == s.added
             room == SaturatingSub(SaturatingSub(total, a), rest)
  <2>3. a \in Nat /\ rest \in Nat /\ a <= total
    BY <1>1, <1>4, <2>2
  <2>4. pr.max = room
    BY <2>1
  <2> HIDE DEF a, rest, pr
  <2>5. /\ room \in Nat /\ a + room <= total
        /\ \A n \in Nat : a + n + rest <= total => n <= room
    BY <2>3, RepairRoom
  <2> HIDE DEF room
  <2>6. /\ pr.max \in Nat /\ a + pr.max <= total
        /\ \A n \in Nat : a + n + rest <= total => n <= pr.max
    BY <2>4, <2>5
  <2> QED
    BY <1>1, <1>6, <2>2, <2>6 DEF a, rest, pr
<1> QED
  BY <1>3, <1>5, <1>6

\* A path of the next gap makes a crossing of the gaps so far.
LEMMA PathMakesCrossing ==
  ASSUME NEW req, IsPlanRequest(req), ValidPlanRequest(req),
         NEW total \in Nat, total <= req.maxAdded,
         NEW m \in Nat, m + 1 \in Gaps(req), NEW s, Filled(req, total, m, s),
         NEW n \in Nat, n <= PathRequest(req, total, m + 1, s).max,
         NEW path \in Paths(PathRequest(req, total, m + 1, s), n)
  PROVE  Append(s.gaps, path) \in Crossings(req, m + 1)
<1> DEFINE pr == PathRequest(req, total, m + 1, s)
           f == Append(s.gaps, path)
           g == m + 1
           t == [route |-> s.route \o path \o <<req.source[m + 2]>>, gaps |-> f,
                 added |-> s.added + Len(path)]
<1>1. FillsGaps(req, m, s) /\ FillsAreAllowed(req, m, s) /\ g - 1 = m /\ g \in Gaps(req) /\ g \in Nat
  BY DEF Filled
<1>2. FillsGaps(req, g - 1, s)
  BY <1>1
<1>3. /\ path \in [1..n -> Free(req, g)] /\ path \in Seq(Nat) /\ Len(path) = n
      /\ IsInjective(path)
      /\ \A i \in 1..Len(path) : path[i] \notin Elements(req.source \o s.route)
  BY <1>1, <1>2, PathIsAvailable
<1>4. FillsGaps(req, m + 1, t)
  <2>1. Grown(req, m, s, path, t)
    BY DEF Grown
  <2> HIDE DEF t
  <2> QED
    BY <1>1, <1>3, <2>1, RouteGrows
<1>5. /\ f \in [1..g -> Seq(Nat)] /\ IsInjective(FlattenSeq(f))
      /\ Len(FlattenSeq(f)) = s.added + n
  BY <1>3, <1>4 DEF FillsGaps
<1>6. /\ \A k \in 1..m : f[k] = s.gaps[k]
      /\ f[g] = path
  <2> DEFINE old == s.gaps
             T == Seq(Nat)
  <2>1. old \in [1..m -> T] /\ path \in T
    BY <1>1, <1>3 DEF FillsGaps
  <2> HIDE DEF old, T
  <2>2. /\ \A i \in 1..m : Append(old, path)[i] = old[i]
        /\ Append(old, path)[m + 1] = path
    BY <2>1, LongerFunction
  <2> QED
    BY <2>2 DEF old
<1>7. /\ pr.max \in Nat /\ s.added \in Nat /\ req.policy \in {"exact", "repair"}
      /\ req.maxAdded \in Nat /\ req.perGap \in Nat
      /\ req.policy = "exact" => pr.max = req.perGap
      /\ req.policy = "repair" => s.added + pr.max <= total
  <2>1. req.policy \in {"exact", "repair"} /\ req.maxAdded \in Nat /\ req.perGap \in Nat
    BY DEF IsPlanRequest
  <2>2. /\ pr.max \in Nat /\ s.added \in Nat
        /\ req.policy = "exact" => pr.max = req.perGap
        /\ req.policy = "repair" => s.added + pr.max <= total
    BY PathMaxIs
  <2> QED
    BY <2>1, <2>2
<1> HIDE DEF pr
<1>8. /\ n <= pr.max
      /\ n <= IF req.policy = "exact" THEN req.perGap ELSE req.maxAdded
      /\ req.policy = "repair" => Len(FlattenSeq(f)) <= req.maxAdded
  <2>1. n <= pr.max
    BY DEF pr
  <2>2. CASE req.policy = "exact"
    BY <1>7, <2>1, <2>2
  <2>3. CASE req.policy = "repair"
    <3>1. n <= req.maxAdded /\ s.added + n <= req.maxAdded
      BY <1>7, <2>1, <2>3
    <3> QED
      BY <1>5, <2>1, <2>3, <3>1
  <2> QED
    BY <1>7, <2>2, <2>3
<1> HIDE DEF f
<1>9. path \in OpenFills(req, g)
  BY <1>1, <1>3, <1>8, OpenFillsAre
<1>10. \A k \in 1..(g - 1) : f[k] \in GapFills(req, k)
  BY <1>1, <1>6 DEF FillsAreAllowed
<1>11. f \in [1..g -> UNION {OpenFills(req, k) : k \in 1..g}]
  <2>1. \A k \in 1..g : k \in Gaps(req) /\ (k \in 1..m \/ k = g)
    BY <1>1, PlanRequestFacts
  <2>2. \A k \in 1..g : f[k] \in OpenFills(req, k)
    <3>1. \A k \in 1..m : f[k] \in GapFills(req, k)
      BY <1>6, <1>1 DEF FillsAreAllowed
    <3>2. \A k \in 1..m : k \in Gaps(req)
      BY <1>1, PlanRequestFacts
    <3>3. \A k \in 1..m : f[k] \in OpenFills(req, k)
      BY <3>1, <3>2, GapFillIsOpen
    <3> QED
      BY <1>6, <1>9, <2>1, <3>3
  <2> DEFINE all == UNION {OpenFills(req, k) : k \in 1..g}
  <2>3. \A k \in 1..g : f[k] \in all
    BY <2>2
  <2> HIDE DEF all
  <2>4. f \in [1..g -> all]
    BY <1>5, <2>3
  <2> QED
    BY <2>4 DEF all
<1>12. f[g] \in OpenFills(req, g)
  BY <1>6, <1>9
<1> HIDE DEF g
<1>13. f \in Crossings(req, g)
  BY <1>5, <1>8, <1>10, <1>11, <1>12 DEF Crossings
<1> QED
  BY <1>13 DEF f, g

\* Limits that are wide for the plan are wide for the search in every gap.
LEMMA InnerSearchIsWide ==
  ASSUME NEW req, IsPlanRequest(req), ValidPlanRequest(req), WidePlan(req),
         NEW total \in Nat, total <= req.maxAdded,
         NEW m \in Nat, m + 1 \in Gaps(req), NEW s, Filled(req, total, m, s),
         Admitted(PathRequest(req, total, m + 1, s))
  PROVE  LET pr == PathRequest(req, total, m + 1, s) IN
         /\ Wide(pr)
         /\ \A n \in 0..pr.max : /\ IsFiniteSet(GoodPaths(pr, n))
                                 /\ Cardinality(GoodPaths(pr, n)) <= req.alternatives
<1> DEFINE pr == PathRequest(req, total, m + 1, s)
           g == m + 1
           cross == Crossings(req, g)
           longer == [path \in AllPaths(pr) |-> Append(s.gaps, path)]
<1>1. /\ pr.candidates = req.candidates[g] /\ pr.candidateLimit = req.candidateLimit
      /\ pr.beam = req.beam
  BY Zenon DEF PathRequest
<1>2. /\ g \in Gaps(req) /\ g \in Nat /\ g - 1 = m /\ req.candidateLimit \in Nat
      /\ req.beam \in Nat /\ req.alternatives \in Nat
      /\ IsFiniteSet(DOMAIN req.candidates[g])
  <2>1. req.candidateLimit \in Nat /\ req.beam \in Nat /\ req.alternatives \in Nat
    BY DEF IsPlanRequest
  <2> QED
    BY <2>1, PlanRequestFacts
<1>3. /\ req.candidateLimit >= Cardinality(DOMAIN req.candidates[g])
      /\ req.beam >= Cardinality(cross) /\ req.alternatives >= Cardinality(cross)
  BY <1>2 DEF WidePlan
<1>4. IsFiniteSet(cross) /\ Cardinality(cross) \in Nat
  BY <1>2, CrossingsAreFinite
<1>5. s.gaps \in [1..m -> Seq(Nat)] /\ FillsGaps(req, m, s)
  BY DEF Filled, FillsGaps
<1>6. pr.max \in Nat
  BY PathMaxIs
<1>7. ASSUME NEW path \in AllPaths(pr) PROVE path \in Seq(Nat) /\ Append(s.gaps, path) \in cross
  <2>1. PICK n \in 0..pr.max : path \in Paths(pr, n)
    BY DEF AllPaths
  <2>2. n \in Nat /\ n <= pr.max
    BY <1>6, <2>1
  <2>3. FillsGaps(req, g - 1, s)
    BY <1>2, <1>5
  <2>4. path \in Seq(Nat)
    <3> HIDE DEF g
    <3>1. path \in Paths(PathRequest(req, total, g, s), n)
      BY <2>1 DEF g
    <3> QED
      BY <1>2, <2>2, <2>3, <3>1, PathIsAvailable
  <2>5. Append(s.gaps, path) \in cross
    BY <2>1, <2>2, PathMakesCrossing
  <2> QED
    BY <2>4, <2>5
<1> HIDE DEF cross
<1>8. ASSUME NEW p \in AllPaths(pr), NEW q \in AllPaths(pr), Append(s.gaps, p) = Append(s.gaps, q)
      PROVE  p = q
  <2> DEFINE T == Seq(Nat)
             old == s.gaps
  <2>1. p \in T /\ q \in T /\ old \in [1..m -> T]
    BY <1>5, <1>7
  <2>2. Append(old, p) = Append(old, q)
    BY <1>8
  <2> HIDE DEF T, old
  <2>3. Append(old, p)[m + 1] = p /\ Append(old, q)[m + 1] = q
    BY <2>1, LongerFunction
  <2> QED
    BY <2>2, <2>3
<1> DEFINE S == AllPaths(pr)
<1>9. longer \in Injection(S, cross)
  <2>1. \A path \in S : longer[path] = Append(s.gaps, path) /\ Append(s.gaps, path) \in cross
    BY <1>7
  <2>2. longer \in [S -> cross]
    BY <1>7
  <2>3. \A p, q \in S : longer[p] = longer[q] => p = q
    BY <1>8, <2>1
  <2>4. DOMAIN longer = S
    OBVIOUS
  <2> HIDE DEF longer, S
  <2>5. IsInjective(longer)
    BY <2>3, <2>4 DEF IsInjective
  <2> QED
    BY <2>2, <2>5 DEF Injection
<1> HIDE DEF longer
<1>10. IsFiniteSet(S) /\ Cardinality(S) <= Cardinality(cross) /\ Cardinality(S) \in Nat
  <2> HIDE DEF S
  <2> QED
    BY <1>4, <1>9, FS_Injection, FS_CardinalityType
<1>11. Wide(pr)
  <2>1. /\ Available(pr) \in SUBSET DOMAIN req.candidates[g]
    BY <1>1 DEF Available
  <2>2. /\ Cardinality(Available(pr)) \in Nat
        /\ Cardinality(Available(pr)) <= Cardinality(DOMAIN req.candidates[g])
        /\ Cardinality(DOMAIN req.candidates[g]) \in Nat
    BY <1>2, <2>1, FS_Subset, FS_CardinalityType
  <2>3. pr.candidateLimit >= Cardinality(Available(pr))
    BY <1>1, <1>2, <1>3, <2>2
  <2>4. pr.beam >= Cardinality(S)
    BY <1>1, <1>2, <1>3, <1>4, <1>10
  <2>5. S = UNION {Paths(pr, n) : n \in 0..pr.max}
    BY DEF AllPaths
  <2> HIDE DEF S, pr
  <2> QED
    BY <2>3, <2>4, <2>5 DEF Wide
<1>12. ASSUME NEW n \in 0..pr.max
       PROVE  IsFiniteSet(GoodPaths(pr, n)) /\ Cardinality(GoodPaths(pr, n)) <= req.alternatives
  <2> DEFINE P == {p \in Paths(pr, n) : PathSafe(pr, p) /\ PathReachable(pr, p)}
             G == GoodPaths(pr, n)
             option == [p \in P |-> PathOption(pr, p)]
  <2>1. P \in SUBSET S
    BY DEF AllPaths
  <2>2. G = {option[p] : p \in P}
    BY DEF GoodPaths
  <2> HIDE DEF S, P
  <2>3. IsFiniteSet(P) /\ Cardinality(P) <= Cardinality(S) /\ Cardinality(P) \in Nat
    BY <1>10, <2>1, FS_Subset, FS_CardinalityType
  <2>4. option \in Surjection(P, G)
    BY <2>2 DEF Surjection
  <2> HIDE DEF G, option
  <2>5. IsFiniteSet(G) /\ Cardinality(G) <= Cardinality(P) /\ Cardinality(G) \in Nat
    BY <2>3, <2>4, FS_Surjection, FS_CardinalityType
  <2> QED
    BY <1>2, <1>3, <1>4, <1>10, <2>3, <2>5 DEF G
<1> QED
  BY <1>11, <1>12

-----------------------------------------------------------------------------
(***************************************************************************)
(* The next fill of a good filling is one the inner search returns.        *)
(***************************************************************************)
\* Where the fill of a gap stands among all additions.
LEMMA PlaceOfFill ==
  ASSUME NEW req, NEW h, NEW n, NEW R, NEW F, Lays(req, h, n, R, F),
         NEW g \in 1..n, NEW i \in 1..Len(h[g])
  PROVE  /\ Len(F[g - 1]) \in Nat /\ Len(F[g]) \in Nat /\ Len(F[n]) \in Nat
         /\ Len(F[g - 1]) + i \in 1..Len(F[g]) /\ Len(F[g - 1]) + i \in 1..Len(F[n])
         /\ F[n][Len(F[g - 1]) + i] = h[g][i]
<1> DEFINE a == Len(F[g - 1])
           b == Len(h[g])
           c == Len(F[g])
           d == Len(F[n])
<1>1. n \in Nat /\ g \in 0..n /\ n \in 0..n
  BY DEF Lays
<1>2. Continues(F[g - 1], h[g], F[g]) /\ F[n] \in Seq(Nat) /\ StartsWith(F[n], F[g])
  BY <1>1, LaidStep, LaidAll DEF LaidTo
<1>3. a \in Nat /\ b \in Nat /\ c = a + b /\ F[g][a + i] = h[g][i]
  BY <1>2 DEF Continues
<1>4. d \in Nat /\ c <= d /\ \A k \in 1..c : F[n][k] = F[g][k]
  BY <1>2, LenProperties DEF StartsWith
<1>5. i \in 1..b
  OBVIOUS
<1> HIDE DEF a, b, c, d
<1>6. a + i \in 1..c /\ a + i \in 1..d /\ c \in Nat
  BY <1>3, <1>4, <1>5
<1>7. F[n][a + i] = h[g][i]
  BY <1>3, <1>4, <1>6
<1> QED
  BY <1>3, <1>4, <1>6, <1>7 DEF a, b, c, d

LEMMA FillsDiffer ==
  ASSUME NEW req, NEW h, NEW n, NEW R, NEW F, Lays(req, h, n, R, F), IsInjective(F[n]),
         NEW m \in Nat, m + 1 \in 1..n, NEW g \in 1..m,
         NEW i \in 1..Len(h[g]), NEW j \in 1..Len(h[m + 1])
  PROVE  h[g][i] # h[m + 1][j]
<1>0. g \in 1..n /\ g \in 0..m /\ m \in 0..n /\ (m + 1) - 1 = m /\ n \in Nat
  <2>1. n \in Nat
    BY DEF Lays
  <2> QED
    BY <2>1
<1> DEFINE a == Len(F[g - 1])
           c == Len(F[g])
           e == Len(F[m])
           d == Len(F[n])
           x == F[n]
<1>1. a + i \in 1..c /\ a + i \in 1..d /\ x[a + i] = h[g][i] /\ c \in Nat /\ d \in Nat /\ a \in Nat
  <2>1. g \in 1..n /\ i \in 1..Len(h[g])
    BY <1>0
  <2> QED
    BY <2>1, PlaceOfFill
<1>2. e + j \in 1..d /\ x[e + j] = h[m + 1][j] /\ e \in Nat
  <2> DEFINE q == m + 1
  <2>1. q \in 1..n /\ j \in 1..Len(h[q]) /\ q - 1 = m
    BY <1>0
  <2> HIDE DEF q
  <2>2. Len(F[q - 1]) + j \in 1..d /\ x[Len(F[q - 1]) + j] = h[q][j] /\ Len(F[q - 1]) \in Nat
    BY <2>1, PlaceOfFill
  <2> QED
    BY <2>1, <2>2 DEF q
<1>3. c <= e
  <2>1. LaidTo(req, h, R, F, m)
    BY <1>0, LaidAll
  <2> QED
    BY <1>0, <2>1 DEF LaidTo, StartsWith
<1>4. i \in Nat /\ j \in Nat /\ j >= 1
  <2>1. i \in 1..Len(h[g]) /\ j \in 1..Len(h[m + 1])
    OBVIOUS
  <2> QED
    BY <2>1
<1>5. x \in Seq(Nat) /\ DOMAIN x = 1..d
  <2>1. LaidTo(req, h, R, F, n)
    BY <1>0, LaidAll
  <2>2. F[n] \in Seq(Nat)
    BY <2>1 DEF LaidTo
  <2> QED
    BY <2>2, LenProperties
<1> HIDE DEF a, c, d, e, x
<1>6. a + i # e + j
  BY <1>1, <1>2, <1>3, <1>4
<1>7. x[a + i] # x[e + j]
  <2>1. IsInjective(x)
    BY DEF x
  <2> QED
    BY <1>1, <1>2, <1>5, <1>6, <2>1 DEF IsInjective
<1> QED
  BY <1>1, <1>2, <1>7

\* What the state of the beam that has taken the first m gaps of h can rely on.
Follows(req, total, m, h, s) ==
  /\ Filled(req, total, m, s) /\ s.gaps = Firsts(h, m)
  /\ h \in GoodFillings(req)
  /\ req.policy = "repair" => Len(FlattenSeq(h)) <= total

LEMMA FollowsFacts ==
  ASSUME NEW req, IsPlanRequest(req), ValidPlanRequest(req), NEW total,
         NEW m \in Nat, m + 1 \in Gaps(req), NEW h, NEW s, Follows(req, total, m, h, s)
  PROVE  LET n == Len(req.source) - 1
             R == RoutesOf(req, h, n)
             F == FlatsOf(h, n) IN
         /\ n \in Nat /\ n + 1 = Len(req.source) /\ m + 1 \in 1..n /\ m \in 0..n
         /\ Lays(req, h, n, R, F) /\ IsInjective(F[n])
         /\ R[n] = RouteOf(req, h) /\ F[n] = FlattenSeq(h)
         /\ s.route = R[m] /\ s.added = Len(F[m])
         /\ RouteSafe(req, R[n]) /\ Unreachable \notin Range(RouteLegs(req, R[n]))
         /\ h[m + 1] \in GapFills(req, m + 1) /\ h[m + 1] \in Seq(Nat)
<1> DEFINE n == Len(req.source) - 1
           R == RoutesOf(req, h, n)
           F == FlatsOf(h, n)
<1>1. /\ h \in Fillings(req) /\ RouteSafe(req, RouteOf(req, h))
      /\ Unreachable \notin Range(RouteLegs(req, RouteOf(req, h)))
      /\ FillsGaps(req, m, s) /\ s.gaps = Firsts(h, m)
  BY DEF Follows, Filled, GoodFillings
<1>2. /\ n \in Nat /\ n + 1 = Len(req.source) /\ Gaps(req) = 1..n
      /\ h \in [1..n -> Seq(Nat)]
      /\ \A g \in 1..n : h[g] \in GapFills(req, g)
      /\ IsInjective(FlattenSeq(h))
      /\ Lays(req, h, n, R, F)
      /\ R[n] = RouteOf(req, h) /\ F[n] = FlattenSeq(h)
  BY <1>1, FillingFacts
<1> HIDE DEF n
<1>3. m + 1 \in 1..n /\ m \in 0..n
  BY <1>2
<1>4. s.route = R[m] /\ s.added = Len(F[m])
  <2>1. n \in Nat /\ m <= n
    BY <1>2, <1>3
  <2> HIDE DEF R, F
  <2>0. FillsGaps(req, m, s) /\ s.gaps = Firsts(h, m)
    BY <1>1
  <2>2. IsLaid(req, h, m, s)
    BY <2>0, StateIsLaid
  <2>3. s.route = RoutesOf(req, h, n)[m] /\ s.added = Len(FlatsOf(h, n)[m])
    BY <2>1, <2>2 DEF IsLaid
  <2> QED
    BY <2>3 DEF R, F
<1> HIDE DEF R, F
<1>5. h[m + 1] \in Seq(Nat)
  BY <1>2, <1>3
<1> QED
  BY <1>1, <1>2, <1>3, <1>4, <1>5 DEF n, R, F

\* The next fill is a path the search of the gap considers.
LEMMA NextFillIsPath ==
  ASSUME NEW req, IsPlanRequest(req), ValidPlanRequest(req), NEW total,
         NEW m \in Nat, m + 1 \in Gaps(req), NEW h, NEW s, Follows(req, total, m, h, s)
  PROVE  /\ Len(h[m + 1]) \in Nat
         /\ h[m + 1] \in Paths(PathRequest(req, total, m + 1, s), Len(h[m + 1]))
<1> DEFINE n == Len(req.source) - 1
           R == RoutesOf(req, h, n)
           F == FlatsOf(h, n)
           path == h[m + 1]
           k == Len(path)
           pr == PathRequest(req, total, m + 1, s)
<1>1. /\ n \in Nat /\ m + 1 \in 1..n /\ m \in 0..n
      /\ Lays(req, h, n, R, F) /\ IsInjective(F[n])
      /\ s.route = R[m]
      /\ path \in GapFills(req, m + 1)
  BY FollowsFacts
<1>2. /\ k \in Nat /\ path \in [1..k -> DOMAIN req.candidates[m + 1]]
      /\ IsInjective(path)
      /\ \A i \in 1..k : path[i] \notin Elements(req.source)
  BY <1>1, GapFillFacts
<1>3. /\ pr.candidates = req.candidates[m + 1] /\ pr.unavailable = req.source \o s.route
  BY Zenon DEF PathRequest
<1>4. /\ \A i \in 1..Len(R[m]) : \/ R[m][i] \in {req.source[g] : g \in 1..(m + 1)}
                                 \/ \E g \in 1..m : R[m][i] \in Elements(h[g])
      /\ R[m] \in Seq(Nat)
  <2> HIDE DEF n, R, F
  <2>1. LaidTo(req, h, R, F, m)
    BY <1>1, LaidAll
  <2> QED
    BY <2>1 DEF LaidTo
<1>5. ASSUME NEW i \in 1..k, path[i] \in Elements(s.route) PROVE FALSE
  <2>1. PICK j \in 1..Len(R[m]) : R[m][j] = path[i]
    BY <1>1, <1>4, <1>5, LenProperties DEF Elements
  <2>2. CASE R[m][j] \in {req.source[g] : g \in 1..(m + 1)}
    <3>1. \A g \in 1..(m + 1) : req.source[g] \in Elements(req.source)
      <4>1. \A g \in 1..(m + 1) : g \in 1..Len(req.source)
        BY <1>1, PlanRequestFacts
      <4> QED
        BY <4>1, PlanRequestFacts
    <3> QED
      BY <1>2, <2>1, <2>2, <3>1
  <2>3. CASE \E g \in 1..m : R[m][j] \in Elements(h[g])
    <3>1. PICK g \in 1..m : R[m][j] \in Elements(h[g])
      BY <2>3
    <3>2. g \in 1..n
      BY <1>1
    <3>3. h[g] \in Seq(Nat)
      BY <1>1, <3>2 DEF Lays
    <3>4. PICK l \in 1..Len(h[g]) : h[g][l] = R[m][j]
      BY <3>1, <3>3, LenProperties DEF Elements
    <3>5. h[g][l] # h[m + 1][i]
      BY <1>1, FillsDiffer
    <3> QED
      BY <2>1, <3>4, <3>5
  <2> QED
    BY <1>4, <2>2, <2>3
<1>6. req.source \in Seq(Nat) /\ s.route \in Seq(Nat)
  BY <1>1, <1>4, PlanRequestFacts
<1> HIDE DEF n, R, F, path, k, pr
<1>7. ASSUME NEW i \in 1..k PROVE path[i] \in Available(pr)
  <2>1. path[i] \notin Elements(req.source \o s.route)
    BY <1>2, <1>5, <1>6, ElementsOfBoth
  <2> QED
    BY <1>2, <1>3, <2>1 DEF Available
<1>8. path \in [1..k -> Available(pr)]
  BY <1>2, <1>7
<1>9. path \in Paths(pr, k)
  BY <1>2, <1>8 DEF Paths
<1> QED
  BY <1>2, <1>9 DEF k, path, pr

\* A route and its history hold the shorter route and the same history first.
LEMMA ShorterWhole ==
  ASSUME NEW past \in Seq(Nat), NEW long \in Seq(Nat), NEW short \in Seq(Nat),
         StartsWith(long, short)
  PROVE  /\ Len(past \o short) = Len(past) + Len(short) /\ Len(past \o long) = Len(past) + Len(long)
         /\ Len(past \o short) <= Len(past \o long)
         /\ \A i \in 1..Len(past \o short) : (past \o long)[i] = (past \o short)[i]
<1> DEFINE a == past \o short
           b == past \o long
           p == Len(past)
           q == Len(short)
           r == Len(long)
<1>1. /\ p \in Nat /\ q \in Nat /\ r \in Nat /\ Len(a) = p + q /\ Len(b) = p + r
      /\ \A i \in 1..p : a[i] = past[i] /\ b[i] = past[i]
      /\ \A i \in 1..q : a[p + i] = short[i]
      /\ \A i \in 1..r : b[p + i] = long[i]
  <2>1. /\ p \in Nat /\ q \in Nat /\ Len(a) = p + q
        /\ \A i \in 1..p : a[i] = past[i]
        /\ \A i \in 1..q : a[p + i] = short[i]
    BY Concatenated
  <2>2. /\ r \in Nat /\ Len(b) = p + r
        /\ \A i \in 1..p : b[i] = past[i]
        /\ \A i \in 1..r : b[p + i] = long[i]
    BY Concatenated
  <2> QED
    BY <2>1, <2>2
<1>2. q <= r /\ \A i \in 1..q : long[i] = short[i]
  BY DEF StartsWith
<1> HIDE DEF a, b, p, q, r
<1>3. ASSUME NEW i \in 1..(p + q) PROVE b[i] = a[i]
  <2>1. CASE i \in 1..p
    BY <1>1, <2>1
  <2>2. CASE i \notin 1..p
    <3> DEFINE j == i - p
    <3>1. j \in 1..q /\ j \in 1..r /\ i = p + j
      BY <1>1, <1>2, <2>2
    <3> HIDE DEF j
    <3> QED
      BY <1>1, <1>2, <3>1
  <2> QED
    BY <2>1, <2>2
<1> QED
  BY <1>1, <1>2, <1>3 DEF a, b, p, q, r

\* No pair of the next fill is too close, since none of the finished route is.
LEMMA NextFillIsSafe ==
  ASSUME NEW req, IsPlanRequest(req), ValidPlanRequest(req), NEW total,
         NEW m \in Nat, m + 1 \in Gaps(req), NEW h, NEW s, Follows(req, total, m, h, s)
  PROVE  PathSafe(PathRequest(req, total, m + 1, s), h[m + 1])
<1> DEFINE n == Len(req.source) - 1
           R == RoutesOf(req, h, n)
           F == FlatsOf(h, n)
           path == h[m + 1]
           pr == PathRequest(req, total, m + 1, s)
           past == req.history
           short == R[m + 1]
           long == R[n]
           before == past \o s.route
           x == req.source[m + 2]
<1>1. /\ n \in Nat /\ m + 1 \in 1..n /\ m \in 0..n
      /\ Lays(req, h, n, R, F) /\ s.route = R[m] /\ RouteSafe(req, long)
      /\ path \in Seq(Nat)
  BY FollowsFacts
<1>2. /\ pr.history = past /\ pr.prefix = s.route /\ pr.right = x
      /\ pr.exempt = 0 /\ pr.tracks = req.tracks /\ pr.w = req.w
  <2>1. pr.right = req.source[(m + 1) + 1]
    BY Zenon DEF PathRequest
  <2>0. (m + 1) + 1 = m + 2
    OBVIOUS
  <2>2. pr.history = past /\ pr.prefix = s.route /\ pr.exempt = 0 /\ pr.tracks = req.tracks
        /\ pr.w = req.w
    BY Zenon DEF PathRequest
  <2> QED
    BY <2>0, <2>1, <2>2
<1>3. short = s.route \o path \o <<x>> /\ s.route \in Seq(Nat) /\ x \in Nat
  <2> DEFINE q == m + 1
  <2>1. q \in 1..n /\ q - 1 = m /\ q + 1 = m + 2 /\ m + 2 \in 1..(n + 1)
    BY <1>1
  <2> HIDE DEF n, R, F, q
  <2>2. R[q] = R[q - 1] \o h[q] \o <<req.source[q + 1]>> /\ req.source[m + 2] \in Nat
    BY <1>1, <2>1 DEF Lays
  <2>3. R[q - 1] \in Seq(Nat)
    BY <1>1, <2>1, LaidStep
  <2> QED
    BY <1>1, <2>1, <2>2, <2>3 DEF q
<1>4. past \in Seq(Nat)
  BY PlanRequestFacts
<1>5. /\ long \in Seq(Nat) /\ short \in Seq(Nat) /\ StartsWith(long, short)
  <2>1. n \in 0..n /\ m + 1 \in 0..n
    BY <1>1
  <2> HIDE DEF n, R, F
  <2>2. LaidTo(req, h, R, F, n) /\ LaidTo(req, h, R, F, m + 1)
    BY <1>1, <2>1, LaidAll
  <2> QED
    BY <2>1, <2>2 DEF LaidTo
<1> HIDE DEF n, R, F, short, long, past, pr, path, x
<1>6. past \o short = before \o path \o <<x>> /\ before \in Seq(Nat)
  <2> DEFINE a == s.route
             e == <<x>>
  <2>1. a \in Seq(Nat) /\ e \in Seq(Nat) /\ path \in Seq(Nat) /\ past \in Seq(Nat)
    BY <1>1, <1>3, <1>4 DEF path
  <2> HIDE DEF a, e
  <2>2. a \o path \in Seq(Nat) /\ past \o a \in Seq(Nat)
    BY <2>1, Concatenated
  <2>3. past \o ((a \o path) \o e) = (past \o (a \o path)) \o e
    BY <2>1, <2>2, JoinedInTurn
  <2>4. past \o (a \o path) = (past \o a) \o path
    BY <2>1, JoinedInTurn
  <2>5. past \o ((a \o path) \o e) = ((past \o a) \o path) \o e
    BY <2>3, <2>4
  <2> QED
    BY <1>3, <2>2, <2>5 DEF a, e
<1>7. RepeatPrefix(pr) = before
  BY <1>2 DEF RepeatPrefix
<1> DEFINE route == past \o short
           whole == past \o long
<1>8. /\ Len(route) \in Nat /\ Len(whole) \in Nat /\ Len(past) \in Nat /\ Len(route) <= Len(whole)
      /\ \A i \in 1..Len(route) : whole[i] = route[i]
      /\ Len(before) \in Nat /\ Len(past) <= Len(before)
  <2>1. /\ Len(route) <= Len(whole)
        /\ \A i \in 1..Len(route) : whole[i] = route[i]
    BY <1>4, <1>5, ShorterWhole
  <2>2. route \in Seq(Nat) /\ whole \in Seq(Nat)
    BY <1>4, <1>5, Concatenated
  <2>3. Len(before) = Len(past) + Len(s.route) /\ Len(past) \in Nat /\ Len(s.route) \in Nat
    BY <1>3, <1>4, Concatenated
  <2> HIDE DEF route, whole, before
  <2>4. Len(route) \in Nat /\ Len(whole) \in Nat
    BY <2>2, LenProperties
  <2>5. Len(past) <= Len(before)
    BY <2>3
  <2> QED
    BY <2>1, <2>3, <2>4, <2>5
<1>9. \A j \in (Len(past) + 1)..Len(whole) : \A i \in 1..(j - 1) :
        PairSafe(req.tracks, req.w, whole[i], whole[j], j - i)
  BY <1>1 DEF RouteSafe, past
<1> HIDE DEF route, whole, before
<1>10. ASSUME NEW j \in (Len(before) + 1)..Len(route), NEW i \in 1..(j - 1)
       PROVE  PairSafe(req.tracks, req.w, route[i], route[j], j - i)
  <2>1. /\ j \in (Len(past) + 1)..Len(whole) /\ j \in 1..Len(route) /\ i \in 1..Len(route)
    BY <1>8
  <2>2. whole[i] = route[i] /\ whole[j] = route[j]
    BY <1>8, <2>1
  <2>3. PairSafe(req.tracks, req.w, whole[i], whole[j], j - i)
    BY <1>9, <2>1
  <2> QED
    BY <2>2, <2>3
<1>11. route = before \o path \o <<pr.right>>
  BY <1>2, <1>6 DEF route
<1>12. PathSafe(pr, path)
  BY <1>2, <1>7, <1>10, <1>11 DEF PathSafe
<1> QED
  BY <1>12 DEF pr, path

\* No leg of the next fill is unreachable, since none of the finished route is.
LEMMA NextFillIsReachable ==
  ASSUME NEW req, IsPlanRequest(req), ValidPlanRequest(req), NEW total,
         NEW m \in Nat, m + 1 \in Gaps(req), NEW h, NEW s, Follows(req, total, m, h, s),
         Admitted(PathRequest(req, total, m + 1, s))
  PROVE  PathReachable(PathRequest(req, total, m + 1, s), h[m + 1])
<1> DEFINE n == Len(req.source) - 1
           R == RoutesOf(req, h, n)
           F == FlatsOf(h, n)
           path == h[m + 1]
           k == Len(path)
           pr == PathRequest(req, total, m + 1, s)
           short == R[m + 1]
           long == R[n]
           t == [route |-> s.route \o path \o <<req.source[m + 2]>>,
                 gaps |-> Append(s.gaps, path), added |-> s.added + Len(path)]
           legs == Legs(pr, path)
<1>1. /\ n \in Nat /\ m + 1 \in 1..n /\ m \in 0..n
      /\ Lays(req, h, n, R, F) /\ s.route = R[m]
      /\ Unreachable \notin Range(RouteLegs(req, long))
      /\ path \in Seq(Nat)
  BY FollowsFacts
<1>2. FillsGaps(req, m, s)
  BY DEF Follows, Filled
<1>3. k \in Nat /\ path \in Paths(pr, k)
  BY NextFillIsPath
<1>4. Grown(req, m, s, path, t)
  BY DEF Grown
<1>5. t.route = short
  <2> DEFINE q == m + 1
  <2>1. q \in 1..n /\ q - 1 = m /\ q + 1 = m + 2
    BY <1>1
  <2> HIDE DEF n, R, F, q
  <2>2. R[q] = R[q - 1] \o h[q] \o <<req.source[q + 1]>>
    BY <1>1, <2>1 DEF Lays
  <2> QED
    BY <1>1, <2>1, <2>2 DEF q
<1>6. InARow(m + s.added, k + 1, RouteLegs(req, s.route), legs, RouteLegs(req, t.route))
  <2> HIDE DEF t, path, k
  <2> QED
    BY <1>2, <1>3, <1>4, RouteLegsGrow
<1>7. /\ long \in Seq(Nat) /\ short \in Seq(Nat) /\ StartsWith(long, short)
  <2>1. n \in 0..n /\ m + 1 \in 0..n
    BY <1>1
  <2> HIDE DEF n, R, F
  <2>2. LaidTo(req, h, R, F, n) /\ LaidTo(req, h, R, F, m + 1)
    BY <1>1, <2>1, LaidAll
  <2> QED
    BY <2>1, <2>2 DEF LaidTo
<1>8. legs = [i \in 1..(k + 1) |-> legs[i]]
  BY DEF Legs
<1> DEFINE c == m + s.added
           a == RouteLegs(req, short)
           b == RouteLegs(req, long)
<1>9. c \in Nat /\ DOMAIN a = 1..(c + (k + 1)) /\ \A i \in 1..(k + 1) : a[c + i] = legs[i]
  BY <1>5, <1>6 DEF InARow
<1> HIDE DEF c, legs, k, t, pr, path
<1>10. \A i \in DOMAIN a : i \in DOMAIN b /\ b[i] = a[i]
  <2> DEFINE u == Len(short)
             v == Len(long)
  <2>1. u \in Nat /\ v \in Nat /\ u <= v /\ \A i \in 1..u : long[i] = short[i]
    BY <1>7, LenProperties DEF StartsWith
  <2>2. /\ a = [i \in 1..(u - 1) |-> req.distance[<<short[i], short[i + 1]>>]]
        /\ b = [i \in 1..(v - 1) |-> req.distance[<<long[i], long[i + 1]>>]]
    BY DEF RouteLegs
  <2> HIDE DEF u, v, a, b, short, long
  <2>3. ASSUME NEW i \in 1..(u - 1)
        PROVE  i \in 1..(v - 1) /\ long[i] = short[i] /\ long[i + 1] = short[i + 1]
    <3>1. i \in 1..u /\ i + 1 \in 1..u /\ i \in 1..(v - 1)
      BY <2>1
    <3> QED
      BY <2>1, <3>1
  <2> QED
    BY <2>2, <2>3
<1>11. ASSUME NEW i \in 1..(k + 1) PROVE legs[i] # Unreachable
  <2>1. c + i \in 1..(c + (k + 1))
    BY <1>3, <1>9 DEF path, pr
  <2>2. c + i \in DOMAIN b /\ b[c + i] = legs[i]
    BY <1>9, <1>10, <2>1
  <2>3. b[c + i] \in Range(b)
    BY <2>2 DEF Range
  <2> QED
    BY <1>1, <2>2, <2>3
<1>12. Unreachable \notin Range(legs)
  <2>1. DOMAIN legs = 1..(k + 1)
    BY <1>8
  <2> QED
    BY <1>11, <2>1 DEF Range
<1> QED
  BY <1>12 DEF PathReachable, legs, pr, path

LEMMA RoomIsLeft ==
  ASSUME NEW added \in Nat, NEW k \in Nat, NEW rest \in Nat, NEW all \in Nat, NEW so \in Nat,
         NEW total \in Nat, so = added + k, rest <= all - so, all <= total
  PROVE  added + k + rest <= total /\ added + k <= total
  OBVIOUS

\* The next fill is within what the gap may take: what later gaps need is left.
LEMMA NextFillHasRoom ==
  ASSUME NEW req, IsPlanRequest(req), ValidPlanRequest(req), NEW total \in Nat,
         NEW m \in Nat, m + 1 \in Gaps(req), NEW h, NEW s, Follows(req, total, m, h, s)
  PROVE  /\ Len(h[m + 1]) <= PathRequest(req, total, m + 1, s).max
         /\ req.policy = "exact" => Len(h[m + 1]) = req.perGap
         /\ req.policy = "repair" => s.added + Len(h[m + 1]) <= total
<1> DEFINE n == Len(req.source) - 1
           R == RoutesOf(req, h, n)
           F == FlatsOf(h, n)
           path == h[m + 1]
           k == Len(path)
           pr == PathRequest(req, total, m + 1, s)
           rest == MinimumAfterGap(req, m + 1)
<1>1. /\ n \in Nat /\ n + 1 = Len(req.source) /\ m + 1 \in 1..n /\ m + 1 \in 0..n
      /\ Lays(req, h, n, R, F)
      /\ F[n] = FlattenSeq(h) /\ s.added = Len(F[m]) /\ RouteSafe(req, R[n])
      /\ path \in GapFills(req, m + 1) /\ path \in Seq(Nat) /\ k \in Nat
  BY FollowsFacts
<1>2. Filled(req, total, m, s) /\ (req.policy = "repair" => Len(FlattenSeq(h)) <= total)
  BY DEF Follows
<1>3. /\ pr.max \in Nat /\ s.added \in Nat
      /\ req.policy = "exact" => pr.max = req.perGap
      /\ req.policy = "repair" =>
           \A l \in Nat : s.added + l + rest <= total => l <= pr.max
  BY <1>2, PathMaxIs
<1>4. req.perGap \in Nat /\ req.policy \in {"exact", "repair"}
  BY DEF IsPlanRequest
<1>5. CASE req.policy = "exact"
  <2>1. path \in UNION {[1..l -> DOMAIN req.candidates[m + 1] \ Elements(req.source)] :
                          l \in req.perGap..req.perGap}
    BY <1>1, <1>5 DEF GapFills
  <2>2. k = req.perGap
    <3> HIDE DEF path
    <3> QED
      BY <1>4, <2>1
  <2>3. pr.max = req.perGap /\ req.policy # "repair"
    BY <1>3, <1>5
  <2> HIDE DEF k, pr
  <2>4. k <= pr.max
    BY <1>4, <2>2, <2>3
  <2> QED
    BY <2>2, <2>3, <2>4 DEF k, pr
<1>6. CASE req.policy = "repair"
  <2> DEFINE all == Len(F[n])
             so == Len(F[m + 1])
             added == s.added
  <2>1. rest <= all - so
    <3> DEFINE q == m + 1
    <3> HIDE DEF n, R, F, q
    <3>1. MinimumRepeatSpacing(SubSeq(req.source, q + 1, Len(req.source)), req.tracks, req.w)
            <= Len(F[n]) - Len(F[q])
      <4>1. q \in 0..n /\ Len(req.source) = n + 1
        BY <1>1 DEF q
      <4> QED
        BY <1>1, <4>1, RestNeedsRoom
    <3> QED
      BY <3>1 DEF q, MinimumAfterGap
  <2>2. so = added + k /\ all \in Nat /\ so \in Nat
    <3> DEFINE q == m + 1
    <3>1. q \in 1..n /\ q - 1 = m /\ n \in 0..n /\ n \in Nat
      BY <1>1
    <3> HIDE DEF n, R, F, q
    <3>2. Continues(F[q - 1], h[q], F[q]) /\ F[q] \in Seq(Nat)
      BY <1>1, <3>1, LaidStep
    <3>3. LaidTo(req, h, R, F, n)
      BY <1>1, <3>1, LaidAll
    <3>4. Len(F[q]) = Len(F[m]) + Len(h[q]) /\ Len(F[q]) \in Nat
      BY <3>1, <3>2, LenProperties DEF Continues
    <3>5. Len(F[n]) \in Nat
      BY <3>3 DEF LaidTo
    <3> QED
      BY <1>1, <3>4, <3>5 DEF q
  <2>3. rest \in Nat
    <3>1. m + 1 \in Nat
      OBVIOUS
    <3> QED
      BY <3>1, MinimumAfterGapIsNat
  <2>4. all <= total /\ added \in Nat /\ k \in Nat
    BY <1>1, <1>2, <1>3, <1>6
  <2>5. \A l \in Nat : added + l + rest <= total => l <= pr.max
    BY <1>3, <1>6
  <2> HIDE DEF all, so, added, k, rest, pr
  <2>6. added + k + rest <= total /\ added + k <= total
    BY <2>1, <2>2, <2>3, <2>4, RoomIsLeft
  <2>7. k <= pr.max
    BY <2>4, <2>5, <2>6
  <2>8. req.policy # "exact"
    BY <1>6
  <2> QED
    BY <2>6, <2>7, <2>8 DEF k, pr, added
<1> QED
  BY <1>4, <1>5, <1>6

\* With wide limits the inner search offers the next fill of every good filling.
LEMMA NextFillIsOffered ==
  ASSUME NEW req, IsPlanRequest(req), ValidPlanRequest(req), WidePlan(req),
         NEW total \in Nat, total <= req.maxAdded,
         NEW m \in Nat, m + 1 \in Gaps(req), NEW h, NEW s, Follows(req, total, m, h, s),
         ValidRequest(PathRequest(req, total, m + 1, s))
  PROVE  \E o \in AnchoredPaths(PathRequest(req, total, m + 1, s)) :
           /\ Fits(req, total, s, o)
           /\ Joined(s, o).gaps = Firsts(h, m + 1)
<1> DEFINE pr == PathRequest(req, total, m + 1, s)
           path == h[m + 1]
           k == Len(path)
           o == PathOption(pr, path)
<1>1. Filled(req, total, m, s) /\ FillsGaps(req, m, s) /\ s.gaps = Firsts(h, m)
  BY DEF Follows, Filled
<1>2. Admitted(pr)
  <2>1. s.route \in Seq(Nat) /\ s.added \in Nat /\ m + 1 \in Nat
    BY <1>1, FillsGapsFacts DEF FillsGaps
  <2> QED
    BY <2>1, PathRequestAdmitted
<1>3. k \in Nat /\ path \in Paths(pr, k)
  BY NextFillIsPath
<1>4. PathSafe(pr, path) /\ PathReachable(pr, path)
  BY <1>2, NextFillIsSafe, NextFillIsReachable
<1>5. /\ k <= pr.max
      /\ req.policy = "exact" => k = req.perGap
      /\ req.policy = "repair" => s.added + k <= total
  BY NextFillHasRoom
<1>6. o \in GoodPaths(pr, k) /\ o.intermediates = path
  <2> HIDE DEF pr, path, k
  <2>1. o \in GoodPaths(pr, k)
    BY <1>3, <1>4 DEF GoodPaths
  <2>2. o.intermediates = path
    BY DEF PathOption
  <2> QED
    BY <2>1, <2>2
<1>7. /\ Wide(pr) /\ pr.max \in Nat /\ pr.alternatives = req.alternatives /\ pr.variation = 0
      /\ IsFiniteSet(GoodPaths(pr, k)) /\ Cardinality(GoodPaths(pr, k)) <= req.alternatives
  <2>1. pr.max \in Nat
    BY <1>1, PathMaxIs
  <2>2. k \in 0..pr.max
    BY <1>3, <1>5, <2>1
  <2>3. pr.alternatives = req.alternatives /\ pr.variation = 0
    BY Zenon DEF PathRequest
  <2>4. Wide(pr) /\ \A l \in 0..pr.max : /\ IsFiniteSet(GoodPaths(pr, l))
                                         /\ Cardinality(GoodPaths(pr, l)) <= req.alternatives
    BY <1>1, <1>2, InnerSearchIsWide
  <2> HIDE DEF pr, k
  <2> QED
    BY <2>1, <2>2, <2>3, <2>4
<1> HIDE DEF pr, path, k, o
<1>8. k \in 0..StructuralUpperBound(pr)
  <2>1. path \in [1..k -> Available(pr)] /\ IsInjective(path)
    BY <1>3 DEF Paths
  <2>2. IsFiniteSet(Available(pr)) /\ Cardinality(Available(pr)) \in Nat
    BY <1>2, AdmittedFacts
  <2>3. k <= Cardinality(Available(pr))
    BY <1>3, <2>1, <2>2, InjectionIsShort
  <2>4. k <= StructuralUpperBound(pr)
    BY <1>3, <1>5, <1>7, <2>2, <2>3, MinOfTwo DEF StructuralUpperBound
  <2>5. StructuralUpperBound(pr) \in Nat
    BY <1>2, BoundIsNat
  <2> QED
    BY <1>3, <2>4, <2>5
<1>9. GoodPaths(pr, k) = Least(GoodPaths(pr, k), pr.alternatives, CompleteKey)
  <2> DEFINE S == GoodPaths(pr, k)
             key == [t \in S |-> CompleteKey(t)]
  <2>1. \A t \in S : CompleteKey(t) \in Keys(3 + k)
    BY <1>2, <1>3, <1>5, <1>7, WideFrontiers, WideCompleteIsExact
  <2>2. 3 + k \in Nat /\ req.alternatives \in Nat
    BY <1>3 DEF IsPlanRequest
  <2>3. key \in [S -> Keys(3 + k)]
    BY <2>1
  <2>4. IsFiniteSet(S) /\ Cardinality(S) <= req.alternatives
    BY <1>7
  <2> HIDE DEF S
  <2>5. Least(S, req.alternatives, CompleteKey) = Leading(S, req.alternatives, key)
    BY LeastCompleteIsLeading
  <2> HIDE DEF key
  <2>6. Leading(S, req.alternatives, key) = S
    BY <2>2, <2>3, <2>4, AllKept
  <2> QED
    BY <1>7, <2>5, <2>6 DEF S
<1>10. o \in AnchoredPaths(pr)
  <2>1. {x \in AnchoredPaths(pr) : Len(x.intermediates) = k}
          = Least(GoodPaths(pr, k), pr.alternatives, CompleteKey)
    BY <1>2, <1>7, <1>8, WideAnchoredPathsAreExact
  <2> QED
    BY <1>6, <1>9, <2>1
<1>11. Fits(req, total, s, o)
  <2>1. req.policy \in {"exact", "repair"} /\ Len(o.intermediates) = k
    BY <1>6 DEF IsPlanRequest, k
  <2> QED
    BY <1>5, <2>1 DEF Fits
<1>12. Joined(s, o).gaps = Firsts(h, m + 1)
  <2> DEFINE T == Seq(Nat)
             old == s.gaps
             new == Append(old, path)
  <2>1. Joined(s, o).gaps = Append(s.gaps, o.intermediates)
    BY DEF Joined
  <2>2. old \in [1..m -> T] /\ path \in T
    BY <1>1, FollowsFacts DEF FillsGaps, path
  <2>3. /\ new \in [1..(m + 1) -> T]
        /\ \A i \in 1..m : new[i] = old[i]
        /\ new[m + 1] = path
    <3> HIDE DEF T, old
    <3> QED
      BY <2>2, LongerFunction
  <2>4. \A i \in 1..m : old[i] = h[i]
    BY <1>1 DEF Firsts
  <2>5. \A i \in 1..(m + 1) : new[i] = h[i]
    <3> SUFFICES ASSUME NEW i \in 1..(m + 1) PROVE new[i] = h[i]
      OBVIOUS
    <3>1. i \in 1..m \/ i = m + 1
      OBVIOUS
    <3> HIDE DEF new, old
    <3> QED
      BY <2>3, <2>4, <3>1 DEF path
  <2>6. new = Append(s.gaps, o.intermediates)
    BY <1>6
  <2> HIDE DEF new, T
  <2>7. new = Firsts(h, m + 1)
    BY <2>3, <2>5 DEF Firsts
  <2> QED
    BY <2>1, <2>6, <2>7
<1> QED
  BY <1>10, <1>11, <1>12 DEF pr

-----------------------------------------------------------------------------
(***************************************************************************)
(* A beam that is as wide as there are crossings drops nothing.            *)
(***************************************************************************)
LEMMA OneBottleneck ==
  ASSUME NEW k \in Nat, NEW legs \in [1..k -> Nat], NEW a, NEW b,
         IsBottleneck(a, legs), IsBottleneck(b, legs)
  PROVE  a = b
  BY DEF IsBottleneck

\* The legs of a partial route.
LEMMA FilledLegs ==
  ASSUME NEW req, NEW m \in Nat, NEW s, FillsGaps(req, m, s), MeasuresRoute(req, m, s)
  PROVE  /\ m + s.added \in Nat
         /\ RouteLegs(req, s.route) \in [1..(m + s.added) -> Nat]
<1> DEFINE a == s.added
           l == Len(s.route)
           k == m + a
           legs == RouteLegs(req, s.route)
<1>1. a \in Nat /\ l \in Nat /\ l = m + 1 + a
  BY FillsGapsFacts DEF FillsGaps
<1>2. k \in Nat /\ l - 1 = k
  <2> HIDE DEF a, l
  <2> QED
    BY <1>1
<1>3. \A i \in 1..k : legs[i] \in Nat
  BY DEF MeasuresRoute
<1>4. legs = [i \in 1..(l - 1) |-> req.distance[<<s.route[i], s.route[i + 1]>>]]
  BY DEF RouteLegs
<1> HIDE DEF l, k, legs
<1>5. legs = [i \in 1..k |-> legs[i]]
  BY <1>2, <1>4
<1>6. k \in Nat /\ legs \in [1..k -> Nat]
  BY <1>2, <1>3, <1>5
<1> QED
  BY <1>6 DEF k, legs

\* A partial route is told by its fills.
LEMMA FillsTell ==
  ASSUME NEW req, NEW total, NEW m \in Nat, NEW s, NEW t,
         Filled(req, total, m, s), Filled(req, total, m, t), s.gaps = t.gaps
  PROVE  s = t
<1>1. /\ FillsGaps(req, m, s) /\ MeasuresRoute(req, m, s)
      /\ FillsGaps(req, m, t) /\ MeasuresRoute(req, m, t)
  BY DEF Filled
<1>2. s.route = t.route /\ s.added = t.added
  BY <1>1 DEF FillsGaps
<1> DEFINE k == m + s.added
           legs == RouteLegs(req, s.route)
<1>3. k \in Nat /\ legs \in [1..k -> Nat]
  BY <1>1, FilledLegs
<1>4. s.sum = t.sum /\ s.guidance = t.guidance
  BY <1>1, <1>2 DEF MeasuresRoute
<1>5. IsBottleneck(s.worst, legs) /\ IsBottleneck(t.worst, legs)
  BY <1>1, <1>2 DEF MeasuresRoute
<1> HIDE DEF legs, k
<1>6. s.worst = t.worst
  BY <1>3, <1>5, OneBottleneck
<1>7. /\ s = [route |-> s.route, gaps |-> s.gaps, added |-> s.added,
              sum |-> s.sum, worst |-> s.worst, guidance |-> s.guidance]
      /\ t = [route |-> t.route, gaps |-> t.gaps, added |-> t.added,
              sum |-> t.sum, worst |-> t.worst, guidance |-> t.guidance]
  BY DEF Filled
<1> QED
  BY <1>2, <1>4, <1>6, <1>7

LEMMA FilledKey ==
  ASSUME NEW req, IsPlanRequest(req), ValidPlanRequest(req), NEW total,
         NEW m \in Nat, m \in 0..(Len(req.source) - 1), NEW s, Filled(req, total, m, s)
  PROVE  s.added \in Nat /\ StateKey(s) \in Keys(3 + (m + 1 + s.added))
<1>1. FillsGaps(req, m, s) /\ FillsAreAllowed(req, m, s) /\ MeasuresRoute(req, m, s)
  BY DEF Filled
<1> DEFINE k == m + s.added
           legs == RouteLegs(req, s.route)
           l == Len(s.route)
           guided == [g \in 1..m |-> GapGuidance(req, g, s.gaps[g])]
<1>2. k \in Nat /\ legs \in [1..k -> Nat]
  BY <1>1, FilledLegs
<1>3. s.sum = Total(legs) /\ IsBottleneck(s.worst, legs) /\ s.guidance = Total(guided)
  BY <1>1 DEF MeasuresRoute
<1>4. /\ s.route \in Seq(Nat) /\ l \in Nat /\ l = m + 1 + s.added /\ s.added \in Nat
      /\ s.route \in [1..l -> Nat]
  <2>1. s.route \in Seq(Nat) /\ l \in Nat /\ l = m + 1 + s.added /\ s.added \in Nat
    BY <1>1, FillsGapsFacts DEF FillsGaps
  <2> QED
    BY <2>1, LenProperties
<1>5. guided \in [1..m -> Int]
  <2>1. ASSUME NEW g \in 1..m PROVE GapGuidance(req, g, s.gaps[g]) \in Int
    <3>1. g \in Gaps(req)
      BY PlanRequestFacts
    <3>2. s.gaps[g] \in GapFills(req, g)
      BY <1>1 DEF FillsAreAllowed
    <3>3. PICK n \in Nat : s.gaps[g] \in [1..n -> DOMAIN req.candidates[g]]
      BY <3>1, <3>2, GapFillFacts
    <3> QED
      BY <3>1, <3>3, GapGuidanceIsInt
  <2> QED
    BY <2>1
<1> HIDE DEF legs, k, guided, l
<1>6. s.guidance \in Int
  BY <1>3, <1>5, TotalIsInt
<1>7. s.sum \in Int
  <2>1. legs \in [1..k -> Int]
    BY <1>2
  <2> QED
    BY <1>2, <1>3, <2>1, TotalIsInt
<1>8. s.worst \in Int
  BY <1>3 DEF IsBottleneck
<1>9. -s.guidance \in Int
  BY <1>6
<1>10. <<s.worst, s.sum, -s.guidance>> \o s.route \in Keys(3 + l)
  BY <1>4, <1>7, <1>8, <1>9, KeyOfPath
<1> QED
  BY <1>4, <1>10 DEF StateKey

\* Selection by the key of a state.
LEMMA LeastStateIsLeading ==
  ASSUME NEW S, NEW m
  PROVE  Least(S, m, StateKey) = Leading(S, m, [t \in S |-> StateKey(t)])
<1> DEFINE key == [t \in S |-> StateKey(t)]
<1>1. ASSUME NEW s \in S
      PROVE  {t \in S : LexBefore(StateKey(t), StateKey(s))} = Predecessors(S, key, s)
  BY DEF Predecessors
<1> QED
  BY <1>1 DEF Least, Leading

LEMMA LeastStatesAreAll ==
  ASSUME NEW S, IsFiniteSet(S), NEW d \in Nat, \A t \in S : StateKey(t) \in Keys(d),
         NEW m \in Nat, Cardinality(S) <= m
  PROVE  Least(S, m, StateKey) = S
<1> DEFINE key == [t \in S |-> StateKey(t)]
<1>1. key \in [S -> Keys(d)]
  OBVIOUS
<1>2. Least(S, m, StateKey) = Leading(S, m, key)
  BY LeastStateIsLeading
<1> HIDE DEF key
<1> QED
  BY <1>1, <1>2, AllKept

\* A beam that is as wide as there are crossings keeps every state.
LEMMA BeamKeepsAll ==
  ASSUME NEW req, IsPlanRequest(req), ValidPlanRequest(req), WidePlan(req),
         NEW total \in Nat, NEW g \in Gaps(req), NEW expanded,
         \A t \in expanded : Filled(req, total, g, t) /\ t.gaps \in Crossings(req, g)
  PROVE  Retained(req, total, expanded) = expanded
<1> DEFINE cross == Crossings(req, g)
           gapsOf == [t \in expanded |-> t.gaps]
<1>1. /\ g \in Nat /\ g \in 0..(Len(req.source) - 1)
      /\ req.beam \in Nat /\ req.policy \in {"exact", "repair"} /\ req.perGap \in Nat
  <2>1. g \in Nat /\ g \in 0..(Len(req.source) - 1)
    BY PlanRequestFacts
  <2>2. req.beam \in Nat /\ req.policy \in {"exact", "repair"} /\ req.perGap \in Nat
    BY DEF IsPlanRequest
  <2> QED
    BY <2>1, <2>2
<1>2. req.beam >= Cardinality(cross) /\ IsFiniteSet(cross) /\ Cardinality(cross) \in Nat
  BY CrossingsAreFinite DEF WidePlan
<1>3. gapsOf \in Injection(expanded, cross)
  <2>1. \A t, u \in expanded : t.gaps = u.gaps => t = u
    BY <1>1, FillsTell
  <2>2. gapsOf \in [expanded -> cross] /\ DOMAIN gapsOf = expanded
    OBVIOUS
  <2>3. \A t, u \in expanded : gapsOf[t] = gapsOf[u] => t = u
    BY <2>1
  <2> HIDE DEF gapsOf
  <2> QED
    BY <2>2, <2>3 DEF Injection, IsInjective
<1> HIDE DEF cross, gapsOf
<1>4. IsFiniteSet(expanded) /\ Cardinality(expanded) <= req.beam /\ Cardinality(expanded) \in Nat
  <2>1. IsFiniteSet(expanded) /\ Cardinality(expanded) <= Cardinality(cross)
    BY <1>2, <1>3, FS_Injection
  <2> QED
    BY <1>1, <1>2, <2>1, FS_CardinalityType
<1>5. \A t \in expanded : t.added \in Nat /\ StateKey(t) \in Keys(3 + (g + 1 + t.added))
  BY <1>1, FilledKey
<1>6. ASSUME NEW S \in SUBSET expanded, NEW count \in Nat, \A t \in S : t.added = count
      PROVE  Least(S, req.beam, StateKey) = S
  <2> DEFINE d == 3 + (g + 1 + count)
  <2>1. IsFiniteSet(S) /\ Cardinality(S) <= req.beam
    BY <1>1, <1>4, FS_Subset, FS_CardinalityType
  <2>2. d \in Nat /\ \A t \in S : StateKey(t) \in Keys(d)
    BY <1>1, <1>5, <1>6
  <2> HIDE DEF d
  <2> QED
    BY <1>1, <2>1, <2>2, LeastStatesAreAll
<1>7. CASE req.policy = "exact"
  <2>1. \A t \in expanded : t.added = g * req.perGap
    BY <1>7 DEF Filled, StaysInBudget
  <2>2. g * req.perGap \in Nat
    BY <1>1
  <2>3. Least(expanded, req.beam, StateKey) = expanded
    BY <1>6, <2>1, <2>2
  <2> QED
    BY <1>7, <2>3 DEF Retained
<1>8. CASE req.policy = "repair"
  <2> DEFINE of(count) == {s \in expanded : s.added = count}
  <2>0. req.policy # "exact"
    BY <1>8
  <2>1. \A t \in expanded : t.added \in 0..total
    <3>1. \A t \in expanded : t.added <= total
      BY <2>0 DEF Filled, StaysInBudget
    <3> QED
      BY <1>5, <3>1
  <2>2. \A count \in 0..total : Least(of(count), req.beam, StateKey) = of(count)
    <3>1. ASSUME NEW count \in 0..total PROVE Least(of(count), req.beam, StateKey) = of(count)
      <4>1. of(count) \in SUBSET expanded /\ (\A t \in of(count) : t.added = count) /\ count \in Nat
        OBVIOUS
      <4> HIDE DEF of
      <4> QED
        BY <1>6, <4>1
    <3> QED
      BY <3>1
  <2>3. Retained(req, total, expanded)
          = UNION {Least(of(count), req.beam, StateKey) : count \in 0..total}
    BY <2>0 DEF Retained
  <2>4. UNION {of(count) : count \in 0..total} = expanded
    BY <2>1
  <2> HIDE DEF of
  <2>5. UNION {Least(of(count), req.beam, StateKey) : count \in 0..total}
          = UNION {of(count) : count \in 0..total}
    BY <2>2
  <2> QED
    BY <2>3, <2>4, <2>5
<1> QED
  BY <1>1, <1>7, <1>8

-----------------------------------------------------------------------------
(***************************************************************************)
(* What wide limits keep: the beam follows every good filling the budget   *)
(* affords, so a budget is given up only when it affords none.             *)
(***************************************************************************)
Affordable(req, total, h) == req.policy = "repair" => Len(FlattenSeq(h)) <= total

NoPlanIsCheaper ==
  request.policy = "repair" => \A h \in GoodFillings(request) : budget <= Len(FlattenSeq(h))

BeamKeepsPlans ==
  \A h \in GoodFillings(request) : Affordable(request, budget, h) =>
    \E s \in states : s.gaps = Firsts(h, gap - 1)

FailedForGood ==
  (ValidPlanRequest(request) /\ NoEqualNeighbours(request)) => GoodFillings(request) = {}

PoolIsBest ==
  /\ states = {p \in GoodPlans(request) : request.policy = "repair" => p.added = budget}
  /\ plan \in SelectionPool(request, states)

WideInv ==
  WidePlan(request) =>
    /\ pc = "plan" => NoPlanIsCheaper /\ BeamKeepsPlans
    /\ pc = "failed" => FailedForGood
    /\ pc = "done" => NoPlanIsCheaper /\ PoolIsBest

LEMMA FillingAdds ==
  ASSUME NEW req, IsPlanRequest(req), ValidPlanRequest(req), NEW h \in GoodFillings(req)
  PROVE  /\ Len(FlattenSeq(h)) \in Nat
         /\ req.policy = "repair" => Len(FlattenSeq(h)) <= req.maxAdded
<1> DEFINE n == Len(req.source) - 1
           F == FlatsOf(h, n)
           R == RoutesOf(req, h, n)
<1>1. h \in Fillings(req)
  BY DEF GoodFillings
<1>2. /\ n \in Nat /\ Lays(req, h, n, R, F) /\ F[n] = FlattenSeq(h)
      /\ req.policy = "repair" => Len(FlattenSeq(h)) <= req.maxAdded
  BY <1>1, FillingFacts
<1> HIDE DEF n, F, R
<1>3. n \in 0..n
  BY <1>2
<1>4. LaidTo(req, h, R, F, n)
  BY <1>2, <1>3, LaidAll
<1> QED
  BY <1>2, <1>4 DEF LaidTo

\* The budgets start at what every good filling needs.
LEMMA FirstBudgetIsNeeded ==
  ASSUME NEW req, IsPlanRequest(req), ValidPlanRequest(req), NEW h \in GoodFillings(req)
  PROVE  MinimumRepeatSpacing(req.source, req.tracks, req.w) <= Len(FlattenSeq(h))
<1> DEFINE n == Len(req.source) - 1
           F == FlatsOf(h, n)
           R == RoutesOf(req, h, n)
<1>1. h \in Fillings(req) /\ RouteSafe(req, RouteOf(req, h))
  BY DEF GoodFillings
<1>2. /\ n \in Nat /\ n + 1 = Len(req.source) /\ Lays(req, h, n, R, F)
      /\ R[n] = RouteOf(req, h) /\ F[n] = FlattenSeq(h)
  BY <1>1, FillingFacts
<1>3. req.source \in Seq(Nat)
  BY PlanRequestFacts
<1>4. SubSeq(req.source, 1, Len(req.source)) = req.source
  BY <1>3
<1> HIDE DEF n, F, R
<1>5. 0 \in 0..n /\ 0 + 1 = 1 /\ Len(req.source) = n + 1 /\ RouteSafe(req, R[n])
  BY <1>1, <1>2
<1>6. MinimumRepeatSpacing(SubSeq(req.source, 0 + 1, Len(req.source)), req.tracks, req.w)
        <= Len(F[n]) - Len(F[0])
  BY <1>2, <1>5, RestNeedsRoom
<1>7. Len(F[0]) = 0
  BY <1>2 DEF Lays
<1>8. Len(FlattenSeq(h)) \in Nat
  BY FillingAdds
<1>9. MinimumRepeatSpacing(req.source, req.tracks, req.w) <= Len(F[n]) - Len(F[0])
  BY <1>4, <1>5, <1>6
<1> QED
  BY <1>2, <1>7, <1>8, <1>9

\* The inner search turns down no state of the beam, unless two anchors are equal.
LEMMA GapIsAccepted ==
  ASSUME NEW req, IsPlanRequest(req), ValidPlanRequest(req), NoEqualNeighbours(req),
         NEW total, NEW m \in Nat, m + 1 \in Gaps(req), NEW s, Filled(req, total, m, s)
  PROVE  ValidRequest(PathRequest(req, total, m + 1, s))
<1> DEFINE pr == PathRequest(req, total, m + 1, s)
           f == s.gaps
           R == RoutesOf(req, f, m)
           F == FlatsOf(f, m)
           known == DOMAIN req.tracks
<1>1. /\ pr.prefix = s.route /\ pr.left = req.source[m + 1] /\ pr.right = req.source[(m + 1) + 1]
      /\ pr.history = req.history /\ pr.unavailable = req.source \o s.route
      /\ pr.candidates = req.candidates[m + 1] /\ pr.tracks = req.tracks
      /\ pr.candidateLimit = req.candidateLimit /\ pr.beam = req.beam
      /\ pr.alternatives = req.alternatives /\ pr.variation = 0
  BY Zenon DEF PathRequest
<1>2. /\ FillsGaps(req, m, s) /\ FillsAreAllowed(req, m, s)
  BY DEF Filled
<1>3. /\ s.route \in Seq(Nat) /\ s.route # <<>> /\ Len(s.route) \in Nat
      /\ s.route[Len(s.route)] = req.source[m + 1] /\ f \in [1..m -> Seq(Nat)]
  BY <1>2, FillsGapsFacts DEF FillsGaps
<1>4. /\ req.source \in Seq(Nat) /\ req.history \in Seq(Nat)
      /\ \A k \in 1..(m + 1) : k \in 1..Len(req.source) /\ req.source[k] \in Nat
      /\ \A k \in 1..m : k \in Gaps(req)
      /\ \A k \in 1..Len(req.source) : req.source[k] \in Elements(req.source)
      /\ (m + 1) + 1 \in 1..Len(req.source) /\ m + 1 \in 1..Len(req.source)
      /\ DOMAIN req.candidates = Gaps(req)
  <2>1. /\ req.source \in Seq(Nat) /\ req.history \in Seq(Nat) /\ Len(req.source) \in Nat
        /\ Gaps(req) = 1..(Len(req.source) - 1) /\ DOMAIN req.candidates = Gaps(req)
        /\ \A k \in 1..Len(req.source) : req.source[k] \in Nat /\ req.source[k] \in Elements(req.source)
    BY PlanRequestFacts
  <2>2. /\ (m + 1) + 1 \in 1..Len(req.source) /\ m + 1 \in 1..Len(req.source)
        /\ \A k \in 1..(m + 1) : k \in 1..Len(req.source)
        /\ \A k \in 1..m : k \in Gaps(req)
    BY <2>1
  <2> QED
    BY <2>1, <2>2
<1>5. /\ Elements(req.source \o req.history) \subseteq known
      /\ \A g \in Gaps(req) : DOMAIN req.candidates[g] \subseteq known
      /\ req.candidateLimit > 0 /\ req.beam > 0 /\ req.alternatives > 0
  BY <1>4 DEF ValidPlanRequest
<1>6. Elements(req.source) \subseteq known /\ Elements(req.history) \subseteq known
  BY <1>4, <1>5, ElementsOfBoth
<1>7. Lays(req, f, m, R, F)
  BY <1>3, <1>4, FillingIsLaid
<1>8. s.route = R[m]
  <2>1. s.route = <<req.source[1]>> \o FlattenSeq(Joints(req, m, f))
    BY <1>2 DEF FillsGaps
  <2>2. m \in 0..m
    OBVIOUS
  <2>3. R[m] = <<req.source[1]>> \o FlattenSeq(Joints(req, m, f))
    BY <2>2 DEF RoutesOf
  <2> QED
    BY <2>1, <2>3
<1> HIDE DEF R, F
<1>9. \A i \in 1..Len(R[m]) : \/ R[m][i] \in {req.source[g] : g \in 1..(m + 1)}
                              \/ \E g \in 1..m : R[m][i] \in Elements(f[g])
  <2>1. m \in 0..m
    OBVIOUS
  <2>2. LaidTo(req, f, R, F, m)
    BY <1>7, <2>1, LaidAll
  <2> QED
    BY <2>2 DEF LaidTo
<1>10. ASSUME NEW g \in 1..m PROVE Elements(f[g]) \subseteq known
  <2>1. f[g] \in GapFills(req, g) /\ g \in Gaps(req)
    BY <1>2, <1>4 DEF FillsAreAllowed
  <2>2. Len(f[g]) \in Nat /\ f[g] \in [1..Len(f[g]) -> DOMAIN req.candidates[g]]
    BY <2>1, GapFillFacts
  <2> DEFINE p == f[g]
  <2> HIDE DEF p, known
  <2>3. p \in [1..Len(p) -> DOMAIN req.candidates[g]] /\ DOMAIN req.candidates[g] \subseteq known
    BY <1>5, <2>1, <2>2 DEF p
  <2>4. Elements(p) \subseteq known
    BY <2>3 DEF Elements
  <2> QED
    BY <2>4 DEF p
<1>11. Elements(s.route) \subseteq known
  <2> SUFFICES ASSUME NEW y \in Elements(s.route) PROVE y \in known
    OBVIOUS
  <2>1. PICK i \in 1..Len(R[m]) : y = R[m][i]
    BY <1>3, <1>8, LenProperties DEF Elements
  <2>2. CASE R[m][i] \in {req.source[g] : g \in 1..(m + 1)}
    BY <1>4, <1>6, <2>1, <2>2
  <2>3. CASE \E g \in 1..m : R[m][i] \in Elements(f[g])
    BY <1>10, <2>1, <2>3
  <2> QED
    BY <1>9, <2>2, <2>3
<1>12. Elements(pr.prefix \o pr.history \o pr.unavailable) \subseteq known
  <2>1. /\ s.route \o req.history \in Seq(Nat) /\ req.source \o s.route \in Seq(Nat)
    BY <1>3, <1>4, Concatenated
  <2>2. Elements(s.route \o req.history) \subseteq known
    BY <1>3, <1>4, <1>6, <1>11, ElementsOfBoth
  <2>3. Elements(req.source \o s.route) \subseteq known
    BY <1>3, <1>4, <1>6, <1>11, ElementsOfBoth
  <2>4. Elements((s.route \o req.history) \o (req.source \o s.route)) \subseteq known
    BY <2>1, <2>2, <2>3, ElementsOfBoth
  <2> QED
    BY <1>1, <2>4
<1>13. pr.left \in known /\ pr.right \in known /\ pr.left # pr.right
  <2>1. req.source[m + 1] # req.source[(m + 1) + 1]
    BY DEF NoEqualNeighbours
  <2> QED
    BY <1>1, <1>4, <1>6, <2>1
<1>14. pr.prefix # <<>> /\ Last(pr.prefix) = pr.left
  BY <1>1, <1>3 DEF Last
<1>15. DOMAIN pr.candidates \subseteq DOMAIN pr.tracks
  BY <1>1, <1>5
<1> HIDE DEF pr
<1>16. ValidRequest(pr)
  <2>1. pr.candidateLimit > 0 /\ pr.beam > 0 /\ pr.alternatives > 0 /\ pr.variation <= 100
    BY <1>1, <1>5
  <2> QED
    BY <1>1, <1>12, <1>13, <1>14, <1>15, <2>1 DEF ValidRequest
<1> QED
  BY <1>16 DEF pr

\* Every step across a gap keeps a state for every filling the budget affords.
LEMMA CrossingKeepsPlans ==
  ASSUME NEW req, IsPlanRequest(req), ValidPlanRequest(req), WidePlan(req),
         NEW total \in Nat, total <= req.maxAdded,
         NEW m \in Nat, NEW g \in Gaps(req), m + 1 = g,
         NEW beam, \A s \in beam : Filled(req, total, m, s),
         \A s \in beam : ValidRequest(PathRequest(req, total, g, s)),
         NEW h \in GoodFillings(req), Affordable(req, total, h),
         \E s \in beam : s.gaps = Firsts(h, m)
  PROVE  \E t \in Retained(req, total, UNION {Expanded(req, total, g, s) : s \in beam}) :
           t.gaps = Firsts(h, g)
<1> DEFINE expanded == UNION {Expanded(req, total, g, s) : s \in beam}
           pr(s) == PathRequest(req, total, m + 1, s)
<1>1. \A t : t \in expanded <=> \E s \in beam : \E o \in AnchoredPaths(pr(s)) :
               Fits(req, total, s, o) /\ t = Joined(s, o)
  <2>1. \A s : PathRequest(req, total, g, s) = pr(s)
    OBVIOUS
  <2>2. \A t : t \in expanded <=> \E s \in beam :
                 \E o \in AnchoredPaths(PathRequest(req, total, g, s)) :
                    Fits(req, total, s, o) /\ t = Joined(s, o)
    BY DEF Expanded
  <2> HIDE DEF expanded, pr
  <2> QED
    BY <2>1, <2>2
<1> HIDE DEF expanded
<1>0. m + 1 \in Gaps(req) /\ \A s \in beam : ValidRequest(pr(s))
  OBVIOUS
<1>2. ASSUME NEW t \in expanded
      PROVE  Filled(req, total, g, t) /\ t.gaps \in Crossings(req, g)
  <2>1. PICK s \in beam : \E o \in AnchoredPaths(pr(s)) :
          Fits(req, total, s, o) /\ t = Joined(s, o)
    BY <1>1
  <2> PICK o \in AnchoredPaths(pr(s)) : Fits(req, total, s, o) /\ t = Joined(s, o)
    BY <2>1
  <2>2. Filled(req, total, m, s) /\ ValidRequest(pr(s))
    BY <1>0
  <2>3. Filled(req, total, m + 1, t)
    BY <1>0, <2>2, JoinedIsFilled
  <2>4. Admitted(pr(s))
    <3>1. FillsGaps(req, m, s)
      BY <2>2 DEF Filled
    <3>2. s.route \in Seq(Nat) /\ s.added \in Nat /\ m + 1 \in Nat
      BY <3>1, FillsGapsFacts DEF FillsGaps
    <3> QED
      BY <1>0, <2>2, <3>2, PathRequestAdmitted
  <2> DEFINE path == o.intermediates
             k == Len(path)
  <2>5. Takes(pr(s), k, path, o)
    BY <2>4, OptionIsTaken
  <2>6. k \in Nat /\ path \in Paths(pr(s), k) /\ k <= pr(s).max
    BY <2>5 DEF Takes
  <2>7. Append(s.gaps, path) \in Crossings(req, m + 1)
    BY <1>0, <2>2, <2>6, PathMakesCrossing
  <2>8. t.gaps = Append(s.gaps, path)
    BY DEF Joined
  <2> QED
    BY <2>3, <2>7, <2>8
<1>3. Retained(req, total, expanded) = expanded
  BY <1>2, BeamKeepsAll
<1>4. PICK s \in beam : s.gaps = Firsts(h, m)
  OBVIOUS
<1>5. Follows(req, total, m, h, s)
  BY <1>4 DEF Follows, Affordable
<1>6. ValidRequest(pr(s))
  BY <1>0
<1>7. PICK o \in AnchoredPaths(pr(s)) :
        Fits(req, total, s, o) /\ Joined(s, o).gaps = Firsts(h, m + 1)
  BY <1>0, <1>5, <1>6, NextFillIsOffered
<1>8. Joined(s, o) \in expanded
  BY <1>1, <1>7
<1> QED
  BY <1>3, <1>7, <1>8 DEF expanded

\* The whole of a filling is its gaps.
LEMMA WholeIsFirsts ==
  ASSUME NEW req, IsPlanRequest(req), ValidPlanRequest(req), NEW h \in GoodFillings(req)
  PROVE  Firsts(h, Len(req.source) - 1) = h
<1> DEFINE n == Len(req.source) - 1
           T == Seq(Nat)
<1>1. h \in [1..n -> T]
  BY FillingFacts DEF GoodFillings
<1> HIDE DEF n, T
<1>2. h = [g \in 1..n |-> h[g]]
  BY <1>1
<1> QED
  BY <1>2 DEF Firsts, n

\* A finished route whose fills are good passes the final proof, and is their plan.
LEMMA GoodFillingIsProved ==
  ASSUME NEW req, IsPlanRequest(req), ValidPlanRequest(req),
         NEW total \in Nat, total <= req.maxAdded,
         NEW s, Filled(req, total, Len(req.source) - 1, s),
         NEW h \in GoodFillings(req), s.gaps = h
  PROVE  FinalRouteValid(req, s) /\ s = PlanOf(req, h)
<1> DEFINE n == Len(req.source) - 1
<1>1. n \in Nat /\ n >= 1 /\ n + 1 \in 1..Len(req.source) /\ Gaps(req) = 1..n
  BY PlanRequestFacts
<1>2. FillsGaps(req, n, s) /\ StaysApart(req, s)
  BY DEF Filled
<1>3. s.route \in Seq(Nat) /\ Len(s.route) \in Nat /\ Len(s.route) >= 1
  BY <1>1, <1>2, FillsGapsFacts DEF FillsGaps
<1>4. s.route[1] = req.source[1]
  <2> HIDE DEF n
  <2> QED
    BY <1>1, <1>2, RouteStartsAtSource
<1>5. s.route = RouteOf(req, h)
  BY <1>1, <1>2 DEF FillsGaps, RouteOf, Joints
<1>6. RouteSafe(req, s.route)
  BY <1>5 DEF GoodFillings
<1>7. FirstTrackSafe(req)
  BY <1>2, <1>3, <1>4, <1>6, FirstTrackDecides
<1>8. FinalRouteValid(req, s)
  BY <1>7, FinalProofIsRedundant
<1>9. s \in GoodPlans(req)
  BY <1>7, FilledIsGood
<1>10. PICK f \in GoodFillings(req) : s = PlanOf(req, f)
  BY <1>9 DEF GoodPlans, GoodFillings
<1>11. f = h
  <2>1. PlanOf(req, f).gaps = f
    BY DEF PlanOf
  <2> QED
    BY <1>10, <2>1
<1> QED
  BY <1>8, <1>10, <1>11

LEMMA PlansAreFillings ==
  ASSUME NEW req, NEW p
  PROVE  p \in GoodPlans(req) <=> \E h \in GoodFillings(req) : p = PlanOf(req, h)
  BY DEF GoodPlans, GoodFillings

LEMMA PlanOfAdds ==
  ASSUME NEW req, NEW h
  PROVE  PlanOf(req, h).added = Len(FlattenSeq(h)) /\ PlanOf(req, h).gaps = h
  BY DEF PlanOf

\* What the final proof lets through is every good plan of the budget.
LEMMA ProvedAreBest ==
  ASSUME NEW req, IsPlanRequest(req), ValidPlanRequest(req),
         NEW total \in Nat, total <= req.maxAdded,
         NEW beam, \A s \in beam : Filled(req, total, Len(req.source) - 1, s),
         req.policy = "repair" => \A h \in GoodFillings(req) : total <= Len(FlattenSeq(h)),
         \A h \in GoodFillings(req) : Affordable(req, total, h) =>
            \E s \in beam : s.gaps = Firsts(h, Len(req.source) - 1)
  PROVE  /\ {s \in beam : FinalRouteValid(req, s)}
              = {p \in GoodPlans(req) : req.policy = "repair" => p.added = total}
         /\ {s \in beam : FinalRouteValid(req, s)} = {} =>
              \A h \in GoodFillings(req) : ~Affordable(req, total, h)
<1> DEFINE n == Len(req.source) - 1
           valid == {s \in beam : FinalRouteValid(req, s)}
           good == {p \in GoodPlans(req) : req.policy = "repair" => p.added = total}
<1>1. n \in Nat
  BY PlanRequestFacts
<1>2. ASSUME NEW s \in valid PROVE s \in good
  <2>1. Filled(req, total, n, s) /\ FinalRouteValid(req, s)
    OBVIOUS
  <2>2. FirstTrackSafe(req)
    BY <2>1, FinalProofIsRedundant
  <2>3. s \in GoodPlans(req)
    BY <2>1, <2>2, FilledIsGood
  <2>4. ASSUME req.policy = "repair" PROVE s.added = total
    <3>1. PICK h \in GoodFillings(req) : s = PlanOf(req, h)
      BY <2>3, PlansAreFillings
    <3>2. s.added = Len(FlattenSeq(h)) /\ total <= Len(FlattenSeq(h))
      BY <2>4, <3>1, PlanOfAdds
    <3>3. req.policy # "exact"
      BY <2>4
    <3>4. s.added <= total
      BY <2>1, <3>3 DEF Filled, StaysInBudget
    <3>5. Len(FlattenSeq(h)) \in Nat
      BY FillingAdds
    <3> QED
      BY <3>2, <3>4, <3>5
  <2> QED
    BY <2>3, <2>4
<1>3. ASSUME NEW h \in GoodFillings(req), Affordable(req, total, h)
      PROVE  PlanOf(req, h) \in valid
  <2>1. PICK s \in beam : s.gaps = Firsts(h, n)
    BY <1>3
  <2>2. s.gaps = h
    BY <2>1, WholeIsFirsts
  <2>3. FinalRouteValid(req, s) /\ s = PlanOf(req, h)
    BY <2>2, GoodFillingIsProved
  <2> QED
    BY <2>3
<1> HIDE DEF n, valid
<1>4. ASSUME NEW p \in good PROVE p \in valid
  <2>1. PICK h \in GoodFillings(req) : p = PlanOf(req, h)
    BY PlansAreFillings
  <2>2. Affordable(req, total, h)
    <3>1. CASE req.policy = "repair"
      <4>1. Len(FlattenSeq(h)) = total
        BY <2>1, <3>1, PlanOfAdds
      <4> QED
        BY <4>1 DEF Affordable
    <3>2. CASE req.policy # "repair"
      BY <3>2 DEF Affordable
    <3> QED
      BY <3>1, <3>2
  <2> QED
    BY <1>3, <2>1, <2>2
<1>5. valid = good
  BY <1>2, <1>4
<1>6. valid = {} => \A h \in GoodFillings(req) : ~Affordable(req, total, h)
  BY <1>3
<1> QED
  BY <1>5, <1>6 DEF valid

LEMMA StartHasNoFills ==
  ASSUME NEW req, NEW h
  PROVE  StartState(req).gaps = Firsts(h, 0)
<1>1. Firsts(h, 0) = <<>>
  BY DEF Firsts
<1> QED
  BY <1>1 DEF StartState

\* A new attempt follows every good filling, none of which is cheaper.
LEMMA AttemptKeepsPlans ==
  ASSUME NEW total, Attempt(total), request' = request,
         request.policy = "repair" =>
           \A h \in GoodFillings(request) : total <= Len(FlattenSeq(h))
  PROVE  WideInv'
<1>1. /\ budget' = total /\ gap' = 1 /\ states' = {StartState(request)} /\ pc' = "plan"
  BY DEF Attempt
<1>2. NoPlanIsCheaper'
  BY <1>1 DEF NoPlanIsCheaper
<1>3. BeamKeepsPlans'
  <2>1. gap' - 1 = 0
    BY <1>1
  <2>2. \A h : StartState(request).gaps = Firsts(h, gap' - 1)
    BY <2>1, StartHasNoFills
  <2>3. StartState(request) \in states'
    BY <1>1
  <2> QED
    BY <2>2, <2>3 DEF BeamKeepsPlans
<1>4. pc' # "failed" /\ pc' # "done"
  BY <1>1
<1> QED
  BY <1>2, <1>3, <1>4 DEF WideInv

LEMMA FailureIsForGood ==
  ASSUME Fail, request' = request, FailedForGood
  PROVE  WideInv'
<1>1. pc' = "failed"
  BY DEF Fail
<1>2. FailedForGood'
  BY DEF FailedForGood
<1>3. pc' # "plan" /\ pc' # "done"
  BY <1>1
<1> QED
  BY <1>2, <1>3 DEF WideInv

\* A budget that affords no good filling is given up rightly.
LEMMA GivenUpRightly ==
  ASSUME BeamInv, pc = "plan", NoPlanIsCheaper, NoCompleteRoute,
         \A h \in GoodFillings(request) : ~Affordable(request, budget, h)
  PROVE  WideInv'
<1>1. /\ IsPlanRequest(request) /\ ValidPlanRequest(request) /\ request' = request
      /\ budget \in Nat /\ request.maxAdded \in Nat
  <2>1. IsPlanRequest(request)
    BY PlanRequestsAssumption DEF BeamInv, PlannerTypes
  <2>2. ValidPlanRequest(request) /\ request' = request
    BY DEF BeamInv, OnlyValidPlansRun, NoCompleteRoute, args
  <2>3. budget \in Nat /\ request.maxAdded \in Nat
    BY <2>1 DEF BeamInv, PlannerTypes, IsPlanRequest
  <2> QED
    BY <2>1, <2>2, <2>3
<1>2. \A h \in GoodFillings(request) :
        /\ Len(FlattenSeq(h)) \in Nat
        /\ request.policy = "repair"
        /\ Len(FlattenSeq(h)) <= request.maxAdded
        /\ budget + 1 <= Len(FlattenSeq(h))
  <2> SUFFICES ASSUME NEW h \in GoodFillings(request)
               PROVE  /\ Len(FlattenSeq(h)) \in Nat
                      /\ request.policy = "repair"
                      /\ Len(FlattenSeq(h)) <= request.maxAdded
                      /\ budget + 1 <= Len(FlattenSeq(h))
    OBVIOUS
  <2>1. request.policy = "repair" /\ ~(Len(FlattenSeq(h)) <= budget)
    BY DEF Affordable
  <2>2. Len(FlattenSeq(h)) \in Nat /\ Len(FlattenSeq(h)) <= request.maxAdded
    BY <1>1, <2>1, FillingAdds
  <2> QED
    BY <1>1, <2>1, <2>2
<1>3. CASE request.policy = "repair" /\ budget < request.maxAdded
  <2>1. Attempt(budget + 1)
    BY <1>3 DEF NoCompleteRoute
  <2> QED
    BY <1>1, <1>2, <2>1, AttemptKeepsPlans
<1>4. CASE ~(request.policy = "repair" /\ budget < request.maxAdded)
  <2>1. Fail
    BY <1>4 DEF NoCompleteRoute
  <2>2. GoodFillings(request) = {}
    <3> SUFFICES ASSUME NEW h \in GoodFillings(request) PROVE FALSE
      OBVIOUS
    <3> DEFINE a == Len(FlattenSeq(h))
    <3>1. a \in Nat /\ request.policy = "repair" /\ a <= request.maxAdded /\ budget + 1 <= a
      BY <1>2
    <3> HIDE DEF a
    <3> QED
      BY <1>1, <1>4, <3>1
  <2> QED
    BY <1>1, <2>1, <2>2, FailureIsForGood DEF FailedForGood
<1> QED
  BY <1>3, <1>4

LEMMA WideInvHolds == Spec => []WideInv
<1>1. Init => WideInv
  <2> SUFFICES ASSUME Init PROVE WideInv
    OBVIOUS
  <2>1. pc = "validate"
    BY DEF Init
  <2> QED
    BY <2>1 DEF WideInv
<1>2. BeamInv /\ WideInv /\ [Next]_vars => WideInv'
  <2> SUFFICES ASSUME BeamInv, WideInv, [Next]_vars PROVE WideInv'
    OBVIOUS
  <2>1. IsPlanRequest(request) /\ budget \in Nat /\ request.maxAdded \in Nat
        /\ budget <= request.maxAdded /\ gap \in 1..Larger(1, Len(request.source))
    <3>1. IsPlanRequest(request)
      BY PlanRequestsAssumption DEF BeamInv, PlannerTypes
    <3>2. request.maxAdded \in Nat
      BY <3>1 DEF IsPlanRequest
    <3>3. budget \in 0..request.maxAdded /\ gap \in 1..Larger(1, Len(request.source))
      BY DEF BeamInv, PlannerTypes
    <3> QED
      BY <3>1, <3>2, <3>3
  <2>2. pc = "plan" => ValidPlanRequest(request)
    BY DEF BeamInv, OnlyValidPlansRun
  <2>3. request' = request
    BY DEF Next, vars, args, Begin, RejectGap, CrossGap, Prove, NoCompleteRoute
  <2>4. CASE ~WidePlan(request)
    BY <2>3, <2>4 DEF WideInv
  <2> SUFFICES ASSUME WidePlan(request) PROVE WideInv'
    BY <2>4
  <2>5. CASE Begin
    <3> DEFINE total == IF request.policy = "exact" THEN 0
                        ELSE MinimumRepeatSpacing(request.source, request.tracks, request.w)
    <3>1. CASE ValidPlanRequest(request) /\ total <= request.maxAdded
      <4>1. Attempt(total)
        BY <2>5, <3>1 DEF Begin
      <4>2. request.policy = "repair" =>
              \A h \in GoodFillings(request) : total <= Len(FlattenSeq(h))
        BY <2>1, <3>1, FirstBudgetIsNeeded
      <4> HIDE DEF total
      <4> QED
        BY <2>3, <4>1, <4>2, AttemptKeepsPlans
    <3>2. CASE ~(ValidPlanRequest(request) /\ total <= request.maxAdded)
      <4>1. Fail
        BY <2>5, <3>2 DEF Begin
      <4>2. FailedForGood
        <5> SUFFICES ASSUME ValidPlanRequest(request), NEW h \in GoodFillings(request) PROVE FALSE
          BY DEF FailedForGood
        <5>1. ~(total <= request.maxAdded)
          BY <3>2
        <5>2. CASE request.policy = "exact"
          BY <2>1, <5>1, <5>2
        <5>3. CASE request.policy = "repair"
          <6> DEFINE a == Len(FlattenSeq(h))
                     low == MinimumRepeatSpacing(request.source, request.tracks, request.w)
          <6>1. low <= a /\ low \in Nat
            <7>1. request.source \in Seq(Nat) /\ request.w \in [artist : Nat, album : Nat, track : Nat]
              BY <2>1 DEF IsPlanRequest
            <7> QED
              BY <2>1, <7>1, FirstBudgetIsNeeded, MinimumSpacingIsNat
          <6>2. a \in Nat /\ a <= request.maxAdded
            BY <2>1, <5>3, FillingAdds
          <6>3. total = low
            BY <5>3
          <6> HIDE DEF a, low, total
          <6> QED
            BY <2>1, <5>1, <6>1, <6>2, <6>3
        <5>4. request.policy \in {"exact", "repair"}
          BY <2>1 DEF IsPlanRequest
        <5> QED
          BY <5>2, <5>3, <5>4
      <4> QED
        BY <2>3, <4>1, <4>2, FailureIsForGood
    <3> QED
      BY <3>1, <3>2
  <2>6. CASE RejectGap
    <3>1. /\ pc = "plan" /\ gap \in Gaps(request) /\ Fail
          /\ \E s \in states : ~ValidRequest(PathRequest(request, budget, gap, s))
      BY <2>6 DEF RejectGap
    <3>2. FailedForGood
      <4> SUFFICES ASSUME NoEqualNeighbours(request) PROVE FALSE
        BY DEF FailedForGood
      <4>1. PICK s \in states : ~ValidRequest(PathRequest(request, budget, gap, s))
        BY <3>1
      <4> DEFINE m == gap - 1
      <4>2. m \in Nat /\ m + 1 = gap
        BY <2>1, <2>2, <3>1, GapsLeft
      <4>3. Filled(request, budget, m, s)
        BY DEF BeamInv, BeamIsFilled
      <4> HIDE DEF m
      <4>4. ValidRequest(PathRequest(request, budget, m + 1, s))
        BY <2>1, <2>2, <3>1, <4>2, <4>3, GapIsAccepted
      <4> QED
        BY <4>1, <4>2, <4>4
    <3> QED
      BY <2>3, <3>1, <3>2, FailureIsForGood
  <2>7. CASE CrossGap
    <3> DEFINE expanded == UNION {Expanded(request, budget, gap, s) : s \in states}
               retained == Retained(request, budget, expanded)
               m == gap - 1
    <3>1. /\ pc = "plan" /\ gap \in Gaps(request)
          /\ \A s \in states : ValidRequest(PathRequest(request, budget, gap, s))
      BY <2>7 DEF CrossGap
    <3>2. NoPlanIsCheaper /\ BeamKeepsPlans
      BY <3>1 DEF WideInv
    <3>3. m \in Nat /\ m + 1 = gap
      BY <2>1, <2>2, <3>1, GapsLeft
    <3>4. \A s \in states : Filled(request, budget, m, s)
      BY DEF BeamInv, BeamIsFilled
    <3>5. \A h \in GoodFillings(request) : Affordable(request, budget, h) =>
            \E s \in states : s.gaps = Firsts(h, m)
      BY <3>2 DEF BeamKeepsPlans
    <3> HIDE DEF m
    <3>6. \A h \in GoodFillings(request) : Affordable(request, budget, h) =>
            \E t \in retained : t.gaps = Firsts(h, gap)
      <4> SUFFICES ASSUME NEW h \in GoodFillings(request), Affordable(request, budget, h)
                   PROVE  \E t \in retained : t.gaps = Firsts(h, gap)
        OBVIOUS
      <4>1. \E s \in states : s.gaps = Firsts(h, m)
        BY <3>5
      <4>2. /\ IsPlanRequest(request) /\ ValidPlanRequest(request)
            /\ budget \in Nat /\ budget <= request.maxAdded
        BY <2>1, <2>2, <3>1
      <4> QED
        BY <3>1, <3>3, <3>4, <4>1, <4>2, CrossingKeepsPlans
    <3>7. CASE retained = {} /\ NoCompleteRoute
      <4>1. \A h \in GoodFillings(request) : ~Affordable(request, budget, h)
        BY <3>6, <3>7
      <4> QED
        BY <3>1, <3>2, <3>7, <4>1, GivenUpRightly
    <3>8. CASE states' = retained /\ gap' = gap + 1 /\ UNCHANGED <<args, budget, plan, pc>>
      <4> HIDE DEF retained
      <4>1. budget' = budget /\ pc' = "plan" /\ gap' - 1 = gap
        BY <2>1, <3>1, <3>8
      <4>2. NoPlanIsCheaper'
        BY <2>3, <3>2, <4>1 DEF NoPlanIsCheaper
      <4>3. BeamKeepsPlans'
        BY <2>3, <3>6, <3>8, <4>1 DEF BeamKeepsPlans
      <4>4. pc' # "failed" /\ pc' # "done"
        BY <4>1
      <4> QED
        BY <4>2, <4>3, <4>4 DEF WideInv
    <3> QED
      BY <2>7, <3>7, <3>8 DEF CrossGap
  <2>8. CASE Prove
    <3> DEFINE valid == {s \in states : FinalRouteValid(request, s)}
               best == {p \in GoodPlans(request) : request.policy = "repair" => p.added = budget}
    <3>1. pc = "plan" /\ gap \notin Gaps(request)
      BY <2>8 DEF Prove
    <3>2. NoPlanIsCheaper /\ BeamKeepsPlans
      BY <3>1 DEF WideInv
    <3>3. gap - 1 = Len(request.source) - 1
      BY <2>1, <2>2, <3>1, GapsLeft
    <3>4. \A s \in states : Filled(request, budget, Len(request.source) - 1, s)
      BY <3>3 DEF BeamInv, BeamIsFilled
    <3>5. \A h \in GoodFillings(request) : Affordable(request, budget, h) =>
            \E s \in states : s.gaps = Firsts(h, Len(request.source) - 1)
      BY <3>2, <3>3 DEF BeamKeepsPlans
    <3>6. /\ valid = best
          /\ valid = {} => \A h \in GoodFillings(request) : ~Affordable(request, budget, h)
      BY <2>1, <2>2, <3>1, <3>2, <3>4, <3>5, ProvedAreBest DEF NoPlanIsCheaper
    <3>7. CASE valid = {} /\ NoCompleteRoute
      BY <3>1, <3>2, <3>6, <3>7, GivenUpRightly
    <3>8. CASE /\ plan' \in SelectionPool(request, valid) /\ states' = valid /\ pc' = "done"
               /\ UNCHANGED <<args, budget, gap>>
      <4>1. budget' = budget /\ pc' # "plan" /\ pc' # "failed"
        BY <3>8
      <4>2. NoPlanIsCheaper'
        BY <2>3, <3>2, <4>1 DEF NoPlanIsCheaper
      <4>3. states' = best /\ plan' \in SelectionPool(request, states')
        BY <3>6, <3>8
      <4>4. PoolIsBest'
        BY <2>3, <4>1, <4>3 DEF PoolIsBest
      <4> QED
        BY <4>1, <4>2, <4>4 DEF WideInv
    <3> QED
      BY <2>8, <3>7, <3>8 DEF Prove
  <2>9. CASE UNCHANGED vars
    <3>1. /\ budget' = budget /\ gap' = gap /\ states' = states /\ plan' = plan /\ pc' = pc
      BY <2>9 DEF vars
    <3> QED
      BY <2>3, <3>1 DEF WideInv, NoPlanIsCheaper, BeamKeepsPlans, FailedForGood, PoolIsBest
  <2> QED
    BY <2>5, <2>6, <2>7, <2>8, <2>9 DEF Next
<1> QED
  BY <1>1, <1>2, BeamInvHolds, PTL DEF Spec

\* With wide limits a repair spends exactly the budget it succeeds with: every
\* smaller budget was given up because it affords no plan.
THEOREM WideRepairsSpendTheirBudget == Spec => []RepairSpendsItsBudget
<1>1. WideInv => RepairSpendsItsBudget
  <2> SUFFICES ASSUME WideInv, WidePlan(request), pc = "done", request.policy = "repair"
               PROVE  plan.added = budget
    BY DEF RepairSpendsItsBudget, BudgetIsSpent
  <2>1. /\ states = {p \in GoodPlans(request) : request.policy = "repair" => p.added = budget}
        /\ plan \in SelectionPool(request, states)
    BY DEF WideInv, PoolIsBest
  <2>2. plan \in states
    BY <2>1, PoolIsValid
  <2> QED
    BY <2>1, <2>2
<1> QED
  BY <1>1, WideInvHolds, PTL

LEMMA MinIs ==
  ASSUME NEW S, NEW a \in S, \A y \in S : y = a
  PROVE  Min(S) = a
<1>1. S = {a}
  OBVIOUS
<1> QED
  BY <1>1 DEF Min

LEMMA LeastIs ==
  ASSUME NEW S \in SUBSET Nat, NEW a \in S, \A y \in S : a <= y
  PROVE  Min(S) = a
<1> DEFINE b == Min(S)
<1>1. \E x \in S : \A y \in S : x <= y
  OBVIOUS
<1>2. b \in S /\ \A y \in S : b <= y
  BY <1>1 DEF Min
<1> HIDE DEF b
<1>3. b <= a /\ a <= b /\ a \in Nat /\ b \in Nat
  BY <1>2
<1> QED
  BY <1>3 DEF b

\* With wide limits planning is exact: it fails only when no plan exists, and else
\* returns the best plan of the least number of additions.
THEOREM WidePlansAreBest == Spec => []WidePlanIsBest
<1>1. BeamInv /\ WideInv => WidePlanIsBest
  <2> SUFFICES ASSUME BeamInv, WideInv, pc \in {"done", "failed"}, ValidPlanRequest(request),
                      WidePlan(request), NoEqualNeighbours(request)
               PROVE  IF GoodPlans(request) = {} THEN pc = "failed"
                      ELSE /\ pc = "done"
                           /\ request.variation = 0 => plan \in BestPlans(request)
                           /\ \A best \in BestPlans(request) : plan.added = best.added
    BY DEF WidePlanIsBest
  <2> DEFINE good == GoodPlans(request)
             least == Min({p.added : p \in good})
  <2>1. IsPlanRequest(request) /\ request.policy \in {"exact", "repair"}
        /\ gap \in 1..Larger(1, Len(request.source))
    <3>1. IsPlanRequest(request)
      BY PlanRequestsAssumption DEF BeamInv, PlannerTypes
    <3> QED
      BY <3>1 DEF IsPlanRequest, BeamInv, PlannerTypes
  <2>2. CASE pc = "failed"
    <3>1. GoodFillings(request) = {}
      BY <2>2 DEF WideInv, FailedForGood
    <3>2. good = {}
      BY <3>1, PlansAreFillings
    <3> QED
      BY <2>2, <3>2
  <2>3. CASE pc = "done"
    <3>1. /\ states = {p \in good : request.policy = "repair" => p.added = budget}
          /\ plan \in SelectionPool(request, states) /\ NoPlanIsCheaper
      BY <2>3 DEF WideInv, PoolIsBest
    <3>2. plan \in states /\ plan \in good
      BY <3>1, PoolIsValid
    <3>3. \A p \in good : p.added \in Nat
      BY <2>1, PlansAreFillings, PlanOfAdds, FillingAdds
    <3>4. \A p \in states : p.added = plan.added
      <4>1. CASE request.policy = "exact"
        <5>1. \A p \in states : p.added = (gap - 1) * request.perGap
          BY <4>1 DEF BeamInv, BeamIsFilled, Filled, StaysInBudget
        <5> QED
          BY <3>2, <5>1
      <4>2. CASE request.policy = "repair"
        BY <3>1, <3>2, <4>2
      <4> QED
        BY <2>1, <4>1, <4>2
    <3>5. \A p \in good : /\ plan.added <= p.added
                          /\ p.added = plan.added => p \in states
      <4>1. CASE request.policy = "exact"
        <5>1. request.policy # "repair"
          BY <4>1
        <5> QED
          BY <3>1, <3>2, <3>3, <3>4, <5>1
      <4>2. CASE request.policy = "repair"
        <5>1. plan.added = budget
          BY <3>1, <3>2, <4>2
        <5>2. \A p \in good : budget <= p.added
          BY <3>1, <4>2, PlansAreFillings, PlanOfAdds DEF NoPlanIsCheaper
        <5> QED
          BY <3>1, <5>1, <5>2
      <4> QED
        BY <2>1, <4>1, <4>2
    <3>6. least = plan.added
      <4> DEFINE S == {p.added : p \in good}
      <4>1. S \in SUBSET Nat /\ plan.added \in S /\ \A y \in S : plan.added <= y
        BY <3>2, <3>3, <3>5
      <4> HIDE DEF S
      <4>2. Min(S) = plan.added
        BY <4>1, LeastIs
      <4> QED
        BY <4>2 DEF S
    <3> HIDE DEF least
    <3>7. {p \in good : p.added = least} = states
      BY <3>1, <3>4, <3>5, <3>6
    <3>8. BestPlans(request) = Least(states, 1, StateKey)
      BY <3>7 DEF BestPlans, least
    <3>9. \A best \in BestPlans(request) : plan.added = best.added
      BY <3>4, <3>8 DEF Least
    <3>10. ASSUME request.variation = 0 PROVE plan \in BestPlans(request)
      <4> DEFINE low == Min({s.added : s \in states})
                 ranked == IF request.policy = "exact" THEN states
                           ELSE {s \in states : s.added = low}
      <4>1. low = plan.added
        <5> DEFINE S == {s.added : s \in states}
        <5>1. plan.added \in S /\ \A y \in S : y = plan.added
          BY <3>2, <3>4
        <5> HIDE DEF S
        <5>2. Min(S) = plan.added
          BY <5>1, MinIs
        <5> QED
          BY <5>2 DEF S
      <4> HIDE DEF low
      <4>2. ranked = states
        BY <3>4, <4>1
      <4> HIDE DEF ranked
      <4>3. SelectionPool(request, states) = Least(ranked, 1, StateKey)
        BY <3>10 DEF SelectionPool, ranked, low
      <4> QED
        BY <3>1, <3>8, <4>2, <4>3
    <3> QED
      BY <2>3, <3>2, <3>9, <3>10
  <2> QED
    BY <2>2, <2>3
<1> QED
  BY <1>1, BeamInvHolds, WideInvHolds, PTL

-----------------------------------------------------------------------------
(***************************************************************************)
(* The search of a gap, step by step.  Every option it holds is a path the *)
(* reference accepts, the steps arrive at the function the planner calls,  *)
(* and with limits that cut nothing the search is exact.                   *)
(***************************************************************************)
SearchInv ==
  /\ query \in Requests
  /\ stage \in {"validate", "direct", "search", "done", "rejected"}
  /\ stage \in {"direct", "search", "done"} => ValidRequest(query)
  /\ stage \in {"validate", "direct", "rejected"} => frontier = {} /\ options = {}
  /\ requested \in Nat
  /\ layer \in 0..requested
  /\ \A s \in frontier : PartialPath(query, layer, s)
  /\ OptionsSound

LEMMA InitSearchInv == SearchInit => SearchInv
  BY DEF SearchInit, SearchInv, OptionsSound

LEMMA IsAdmitted ==
  ASSUME SearchInv, stage \in {"direct", "search", "done"} PROVE Admitted(query)
  BY RequestsAssumption DEF SearchInv, Admitted

LEMMA DirectSearchInv == SearchInv /\ Direct => SearchInv'
<1> SUFFICES ASSUME SearchInv, Direct PROVE SearchInv'
  OBVIOUS
<1>1. Admitted(query) /\ query' = query /\ stage' = "search"
      /\ ValidRequest(query)
  BY IsAdmitted DEF Direct, SearchInv
<1>2. /\ requested' = FirstCount(query) /\ layer' = 0 /\ frontier' = {EmptyPath}
      /\ options' = DirectOptions(query)
  BY DEF Direct, StartCount
<1>3. requested' \in Nat
  BY <1>1, <1>2, FirstCountIs
<1>4. \A s \in {EmptyPath} : PartialPath(query, 0, s)
  BY EmptyIsPartial
<1>5. ASSUME NEW o \in DirectOptions(query)
      PROVE  o \in GoodPaths(query, Len(o.intermediates))
  <2>1. o \in GoodPaths(query, 0)
    BY <1>1, <1>4, <1>5, CompleteIsSound DEF DirectOptions
  <2> QED
    BY <2>1, GoodPathFacts
<1> QED
  BY <1>1, <1>2, <1>3, <1>4, <1>5 DEF SearchInv, OptionsSound

LEMMA LayerSearchInv == SearchInv /\ Layer => SearchInv'
<1> SUFFICES ASSUME SearchInv, Layer PROVE SearchInv'
  OBVIOUS
<1>1. /\ Admitted(query) /\ stage = "search" /\ layer \in Nat /\ layer < requested
      /\ requested \in Nat /\ \A s \in frontier : PartialPath(query, layer, s)
  BY IsAdmitted DEF Layer, SearchInv
<1>2. /\ frontier' = NextFrontier(query, requested, frontier)
      /\ layer' = layer + 1
      /\ UNCHANGED <<query, requested, options, stage>>
  BY DEF Layer
<1>3. \A s \in frontier' : PartialPath(query, layer', s)
  BY <1>1, <1>2, FrontierStepIsPartial
<1> QED
  BY <1>1, <1>2, <1>3 DEF SearchInv, OptionsSound

LEMMA SelectSearchInv == SearchInv /\ Select => SearchInv'
<1> SUFFICES ASSUME SearchInv, Select PROVE SearchInv'
  OBVIOUS
<1>1. /\ Admitted(query) /\ stage = "search" /\ requested \in Nat
      /\ \A s \in frontier : PartialPath(query, layer, s)
      /\ layer = requested \/ frontier = {}
  BY IsAdmitted DEF Select, SearchInv
<1>2. PICK selected \in Selections(query, Complete(query, requested, frontier)) :
        options' = options \cup selected
  BY DEF Select
<1>3. /\ requested' = requested + 1 /\ layer' = 0 /\ frontier' = {EmptyPath}
      /\ UNCHANGED <<query, stage>>
  BY DEF Select, StartCount
<1>4. \A s \in frontier : PartialPath(query, requested, s)
  BY <1>1
<1>5. ASSUME NEW o \in selected PROVE o \in GoodPaths(query, Len(o.intermediates))
  <2>1. o \in Complete(query, requested, frontier)
    BY <1>2, SelectionsAreSubsets
  <2>2. o \in GoodPaths(query, requested)
    BY <1>1, <1>4, <2>1, CompleteIsSound
  <2> QED
    BY <1>1, <2>2, GoodPathFacts
<1>6. OptionsSound'
  BY <1>2, <1>3, <1>5 DEF OptionsSound, SearchInv
<1>7. \A s \in frontier' : PartialPath(query, 0, s)
  BY <1>3, EmptyIsPartial
<1> QED
  BY <1>1, <1>3, <1>6, <1>7 DEF SearchInv

LEMMA NextSearchInv == SearchInv /\ [SearchNext]_searchVars => SearchInv'
<1>1. ASSUME SearchInv, Validate \/ Finish \/ UNCHANGED searchVars PROVE SearchInv'
  <2>1. CASE Validate
    BY <1>1, <2>1 DEF Validate, SearchInv, OptionsSound
  <2>2. CASE Finish
    BY <1>1, <2>2 DEF Finish, SearchInv, OptionsSound
  <2>3. CASE UNCHANGED searchVars
    BY <1>1, <2>3 DEF searchVars, SearchInv, OptionsSound
  <2> QED
    BY <1>1, <2>1, <2>2, <2>3
<1> QED
  BY <1>1, DirectSearchInv, LayerSearchInv, SelectSearchInv DEF SearchNext

\* The frontier holds partial paths of its layer, and every option is sound
\* (anchored_path.rs:441-628).
THEOREM SearchInvariance == SearchSpec => []SearchInv
BY InitSearchInv, NextSearchInv, PTL DEF SearchSpec

\* Every option the search holds is a path of distinct available candidates
\* between the anchors, apart from everything it has to be apart from, with the
\* sum, the bottleneck and the guidance of its legs: the checks of a layer and of
\* the closing miss no pair (anchored_path.rs:429-574).
THEOREM OptionsAreSound == SearchSpec => []SearchSound
<1>1. SearchInv => SearchSound
  <2> SUFFICES ASSUME SearchInv PROVE SearchSound
    OBVIOUS
  <2>1. \A s \in frontier : Len(s.intermediates) = layer
    <3>1. layer \in Nat /\ \A s \in frontier : s.intermediates \in Paths(query, layer)
      BY DEF SearchInv, PartialPath
    <3> QED
      BY <3>1 DEF Paths
  <2>2. ASSUME NEW o \in options
        PROVE  Elements(o.intermediates) \subseteq DOMAIN query.candidates
    <3> DEFINE n == Len(o.intermediates)
    <3>1. o \in GoodPaths(query, n)
      BY DEF SearchInv, OptionsSound
    <3>2. PICK path \in Paths(query, n) : o = PathOption(query, path)
      BY <3>1 DEF GoodPaths
    <3>3. o.intermediates = path
      BY <3>2 DEF PathOption
    <3> HIDE DEF n
    <3>4. path \in [1..n -> Available(query)]
      BY DEF Paths
    <3> QED
      BY <3>3, <3>4 DEF Elements, Available
  <2> QED
    BY <2>1, <2>2 DEF SearchSound, SearchTypeOK, SearchInv
<1> QED
  BY <1>1, SearchInvariance, PTL

\* The steps follow the function: the frontier is that of the layer, and the
\* options are those of the counts that are finished.
FollowsFunction ==
  /\ stage = "search" =>
       /\ requested >= FirstCount(query)
       /\ requested <= Larger(FirstCount(query), StructuralUpperBound(query) + 1)
       /\ frontier = Frontiers(query, requested)[layer]
       /\ query.variation = 0 => options = ReturnedBelow(query, requested)
  /\ stage = "done" => SearchIsAFunction

FunctionInv == SearchInv /\ FollowsFunction

LEMMA InitFunctionInv == SearchInit => FunctionInv
  BY InitSearchInv DEF SearchInit, FunctionInv, FollowsFunction

LEMMA DirectFollows == FunctionInv /\ Direct => FollowsFunction'
<1> SUFFICES ASSUME FunctionInv, Direct PROVE FollowsFunction'
  OBVIOUS
<1>1. Admitted(query)
  BY IsAdmitted DEF FunctionInv, Direct
<1>2. /\ stage' = "search" /\ query' = query
      /\ requested' = FirstCount(query) /\ layer' = 0 /\ frontier' = {EmptyPath}
      /\ options' = DirectOptions(query)
  BY DEF Direct, StartCount
<1>3. FirstCount(query) \in Nat /\ StructuralUpperBound(query) \in Nat
  BY <1>1, FirstCountIs, BoundIsNat
<1>4. frontier' = Frontiers(query, requested')[0]
  BY <1>2, <1>3, FrontierSteps
<1>5. options' = ReturnedBelow(query, requested')
  <2>1. FirstCount(query)..(FirstCount(query) - 1) = {}
    BY <1>3
  <2> QED
    BY <1>2, <2>1 DEF ReturnedBelow
<1>6. requested' >= FirstCount(query)
      /\ requested' <= Larger(FirstCount(query), StructuralUpperBound(query) + 1)
  BY <1>2, <1>3 DEF Larger
<1> QED
  BY <1>2, <1>4, <1>5, <1>6 DEF FollowsFunction

LEMMA LayerFollows == FunctionInv /\ Layer => FollowsFunction'
<1> SUFFICES ASSUME FunctionInv, Layer PROVE FollowsFunction'
  OBVIOUS
<1>1. /\ stage = "search" /\ layer \in Nat /\ layer < requested /\ requested \in Nat
      /\ frontier = Frontiers(query, requested)[layer]
      /\ requested >= FirstCount(query)
      /\ requested <= Larger(FirstCount(query), StructuralUpperBound(query) + 1)
      /\ query.variation = 0 => options = ReturnedBelow(query, requested)
  BY DEF FunctionInv, SearchInv, FollowsFunction, Layer
<1>2. /\ frontier' = NextFrontier(query, requested, frontier)
      /\ layer' = layer + 1
      /\ UNCHANGED <<query, requested, options, stage>>
  BY DEF Layer
<1>3. frontier' = Frontiers(query, requested)[layer + 1]
  <2>1. layer + 1 \in 1..requested /\ (layer + 1) - 1 = layer
    BY <1>1
  <2> QED
    BY <1>1, <1>2, <2>1, FrontierSteps
<1> QED
  BY <1>1, <1>2, <1>3 DEF FollowsFunction

LEMMA SelectFollows == FunctionInv /\ Select => FollowsFunction'
<1> SUFFICES ASSUME FunctionInv, Select PROVE FollowsFunction'
  OBVIOUS
<1>1. /\ Admitted(query) /\ stage = "search" /\ requested \in Nat /\ layer \in 0..requested
      /\ frontier = Frontiers(query, requested)[layer]
      /\ requested >= FirstCount(query)
      /\ query.variation = 0 => options = ReturnedBelow(query, requested)
      /\ requested <= StructuralUpperBound(query)
      /\ layer = requested \/ frontier = {}
  BY IsAdmitted DEF FunctionInv, SearchInv, FollowsFunction, Select
<1>2. PICK selected \in Selections(query, Complete(query, requested, frontier)) :
        options' = options \cup selected
  BY DEF Select
<1>3. /\ requested' = requested + 1 /\ layer' = 0 /\ frontier' = {EmptyPath}
      /\ UNCHANGED <<query, stage>>
  BY DEF Select, StartCount
<1>4. frontier = LastFrontier(query, requested)
  <2>1. frontier = Frontiers(query, requested)[requested]
    BY <1>1, FrontiersStayEmpty
  <2> QED
    BY <1>1, <2>1, FrontierSteps
<1>5. query.variation = 0 => options' = ReturnedBelow(query, requested + 1)
  BY <1>1, <1>2, <1>4, ReturnedGrows
<1>6. frontier' = Frontiers(query, requested')[0]
  <2>1. requested' \in Nat
    BY <1>1, <1>3
  <2> QED
    BY <1>3, <2>1, FrontierSteps
<1>7. /\ requested' >= FirstCount(query)
      /\ requested' <= Larger(FirstCount(query), StructuralUpperBound(query) + 1)
  <2>1. FirstCount(query) \in Nat /\ StructuralUpperBound(query) \in Nat
    BY <1>1, FirstCountIs, BoundIsNat
  <2> QED
    BY <1>1, <1>3, <2>1 DEF Larger
<1> QED
  BY <1>1, <1>3, <1>5, <1>6, <1>7 DEF FollowsFunction

LEMMA FinishFollows == FunctionInv /\ Finish => FollowsFunction'
<1> SUFFICES ASSUME FunctionInv, Finish PROVE FollowsFunction'
  OBVIOUS
<1>1. /\ Admitted(query) /\ requested \in Nat
      /\ requested >= FirstCount(query)
      /\ requested <= Larger(FirstCount(query), StructuralUpperBound(query) + 1)
      /\ query.variation = 0 => options = ReturnedBelow(query, requested)
      /\ requested > StructuralUpperBound(query)
  BY IsAdmitted DEF FunctionInv, SearchInv, FollowsFunction, Finish
<1>2. stage' = "done" /\ UNCHANGED <<query, requested, layer, frontier, options>>
  BY DEF Finish
<1>3. FirstCount(query)..(requested - 1)
        = FirstCount(query)..StructuralUpperBound(query)
  <2>1. FirstCount(query) \in Nat /\ StructuralUpperBound(query) \in Nat
    BY <1>1, FirstCountIs, BoundIsNat
  <2> QED
    BY <1>1, <2>1 DEF Larger
<1>4. ReturnedBelow(query, requested) = AnchoredPaths(query)
  BY <1>3 DEF ReturnedBelow, AnchoredPaths
<1> QED
  BY <1>1, <1>2, <1>4 DEF FollowsFunction, SearchIsAFunction

\* The frontier is that of the function's layer, and the options are those of
\* the counts that are finished (anchored_path.rs:430-628).
THEOREM FunctionInvariance == SearchSpec => []FunctionInv
<1>1. ASSUME FunctionInv, Validate \/ UNCHANGED searchVars PROVE FollowsFunction'
  BY <1>1 DEF FunctionInv, FollowsFunction, Validate, searchVars, SearchIsAFunction
<1>2. FunctionInv /\ [SearchNext]_searchVars => FunctionInv'
  BY <1>1, NextSearchInv, DirectFollows, LayerFollows, SelectFollows, FinishFollows DEF SearchNext, FunctionInv
<1> QED
  BY InitFunctionInv, <1>2, PTL DEF SearchSpec

\* The steps arrive at the function outer planners call: a count inherits nothing
\* from the one before it, and leaving the layers of a count early, when no path
\* is left, loses nothing (anchored_path.rs:429-631).
THEOREM StepsAreTheFunction == SearchSpec => []SearchIsAFunction
<1>1. FunctionInv => SearchIsAFunction
  BY DEF FunctionInv, FollowsFunction, SearchIsAFunction
<1> QED
  BY <1>1, FunctionInvariance, PTL

\* With limits that cut nothing, and without variation, the result for every
\* number of intermediates is the reference's best paths: neither the lower bound
\* on the count, nor the pruning towards the right anchor, nor the estimates a
\* layer is sorted by ever cost a path (anchored_path.rs:355-640).
THEOREM WideSearchLosesNothing == SearchSpec => []WideSearchIsExact
<1>1. FunctionInv => WideSearchIsExact
  <2> SUFFICES ASSUME FunctionInv, stage = "done", Wide(query), query.variation = 0,
                      NEW n \in 0..StructuralUpperBound(query)
               PROVE  {o \in options : Len(o.intermediates) = n}
                        = Least(GoodPaths(query, n), query.alternatives, CompleteKey)
    BY Zenon DEF WideSearchIsExact
  <2>1. Admitted(query)
    BY IsAdmitted DEF FunctionInv
  <2>2. options = AnchoredPaths(query)
    BY DEF FunctionInv, FollowsFunction, SearchIsAFunction
  <2> QED
    BY <2>1, <2>2, WideAnchoredPathsAreExact
<1> QED
  BY <1>1, FunctionInvariance, PTL
=============================================================================
