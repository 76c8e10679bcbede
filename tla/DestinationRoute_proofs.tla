------------------------ MODULE DestinationRoute_proofs ------------------------
(***************************************************************************)
(* Proofs about destination routes: the preflight refuses only what is     *)
(* impossible, a chosen route is one of the reference's routes, no search  *)
(* fails for a decision only its end reveals, the automatic choice is the  *)
(* one the settings ask for, and limits that cut nothing lose no better    *)
(* route to a single destination: for every request, library, windows and  *)
(* distances.                                                              *)
(***************************************************************************)
EXTENDS DestinationRoute, Operators_proofs

-----------------------------------------------------------------------------
(***************************************************************************)
(* The shape of a valid request.                                           *)
(***************************************************************************)
LEMMA PositionIs ==
  ASSUME NEW s \in Seq(Nat), NEW x, x \in Elements(s)
  PROVE  /\ Position(s, x) \in 1..Len(s) /\ s[Position(s, x)] = x
         /\ \A k \in 1..(Position(s, x) - 1) : s[k] # x
<1> DEFINE At == {i \in 1..Len(s) : s[i] = x}
<1>1. At \in SUBSET Nat /\ At # {}
  BY DEF Elements
<1>2. PICK m \in At : \A n \in At : m <= n
  BY <1>1, LeastNatural
<1>3. \A k \in 1..(m - 1) : s[k] # x
  BY <1>2
<1>4. \E i \in DOMAIN s : s[i] = x /\ \A k \in 1..(i - 1) : s[k] # x
  BY <1>2, <1>3
<1>5. DOMAIN s = 1..Len(s)
  OBVIOUS
<1>6. /\ Position(s, x) \in DOMAIN s /\ s[Position(s, x)] = x
      /\ \A k \in 1..(Position(s, x) - 1) : s[k] # x
  BY <1>4 DEF Position
<1> QED
  BY <1>5, <1>6

\* A member no earlier member equals stands at its position.
LEMMA PositionIsFirst ==
  ASSUME NEW s \in Seq(Nat), NEW i \in 1..Len(s), \A k \in 1..(i - 1) : s[k] # s[i]
  PROVE  Position(s, s[i]) = i
<1> DEFINE x == s[i]
           p == Position(s, x)
<1>1. x \in Elements(s)
  BY DEF Elements
<1>2. p \in 1..Len(s) /\ s[p] = x /\ \A k \in 1..(p - 1) : s[k] # x
  BY <1>1, PositionIs
<1> HIDE DEF p
<1>3. ~(p < i) /\ ~(i < p)
  BY <1>2
<1> QED
  BY <1>2, <1>3 DEF p

\* Start, block and rejoin track are the last members of the source, in order,
\* and each stands there for the first time.
Shape(j) ==
  LET n == Len(j.source)
      p == StartPosition(j)
      b == Len(Block(j)) IN
  /\ n \in Nat /\ p \in Nat /\ p >= 1 /\ b \in Nat /\ b >= 1
  /\ n = p + b + (IF Rejoins(j) THEN 1 ELSE 0)
  /\ FirstPosition(j) = p + 1
  /\ Block(j) \in Seq(Nat) /\ Block(j)[1] = j.destination
  /\ j.source[p] = j.start
  /\ \A i \in 1..b : Block(j)[i] = j.source[p + i]
  /\ Rejoins(j) => j.source[n] = j.rejoin
  /\ \A k \in p..n : \A i \in 1..(k - 1) : j.source[i] # j.source[k]

LEMMA ShapeParts ==
  ASSUME NEW j, IsJob(j), Shape(j)
  PROVE  /\ j.history \in Seq(Nat) /\ j.source \in Seq(Nat) /\ Len(j.source) \in Nat
         /\ StartPosition(j) \in Nat /\ StartPosition(j) >= 1
         /\ Block(j) \in Seq(Nat) /\ Len(Block(j)) \in Nat /\ Len(Block(j)) >= 1
         /\ DOMAIN Block(j) = 1..Len(Block(j))
         /\ Len(j.source) = StartPosition(j) + Len(Block(j)) + (IF Rejoins(j) THEN 1 ELSE 0)
         /\ StartPosition(j) + Len(Block(j)) <= Len(j.source)
         /\ StartPosition(j) <= Len(j.source)
<1> DEFINE n == Len(j.source)
           p == StartPosition(j)
           b == Len(Block(j))
<1>1. /\ j.history \in Seq(Nat) /\ j.source \in Seq(Nat) /\ Block(j) \in Seq(Nat)
      /\ n \in Nat /\ p \in Nat /\ p >= 1 /\ b \in Nat /\ b >= 1
      /\ n = p + b + (IF Rejoins(j) THEN 1 ELSE 0)
  BY DEF IsJob, Shape
<1>2. DOMAIN Block(j) = 1..b
  BY <1>1
<1> HIDE DEF n, p, b
<1>3. p + b <= n /\ p <= n
  BY <1>1
<1> QED
  BY <1>1, <1>2, <1>3 DEF n, p, b

LEMMA ValidShape ==
  ASSUME NEW j, IsJob(j), AnchorsValid(j)
  PROVE  Shape(j)
<1> DEFINE s == j.source
           B == Block(j)
           n == Len(s)
           p == StartPosition(j)
           b == Len(B)
<1>1. s \in Seq(Nat) /\ j.block \in Seq(Nat) /\ j.destination \in Nat
  BY DEF IsJob
<1>2. B \in Seq(Nat) /\ b \in Nat /\ b >= 1 /\ n \in Nat /\ DOMAIN B = 1..b
  <2>1. B \in Seq(Nat) /\ B # <<>>
    <3>1. CASE j.block = <<>>
      <4>1. B = <<j.destination>>
        BY <3>1 DEF Block
      <4> QED
        BY <1>1, <4>1
    <3>2. CASE j.block # <<>>
      BY <1>1, <3>2 DEF Block
    <3> QED
      BY <3>1, <3>2
  <2> HIDE DEF B
  <2> QED
    BY <1>1, <2>1
<1>3. j.start \in Elements(s) /\ \A i \in 1..b : B[i] \in Elements(s)
  <2>1. j.start \in Elements(s) /\ Elements(B) \subseteq Elements(s)
    BY DEF AnchorsValid
  <2>2. \A i \in DOMAIN B : B[i] \in Elements(B)
    BY DEF Elements
  <2> QED
    BY <1>2, <2>1, <2>2
<1>4. p = Position(s, j.start) /\ FirstPosition(j) = p + 1 /\ B[1] = j.destination
  <2>1. FirstPosition(j) = p + 1 /\ Head(B) = j.destination
    BY DEF AnchorsValid
  <2>2. Head(B) = B[1]
    BY <1>2
  <2> QED
    BY <2>1, <2>2 DEF StartPosition
<1>5. \A i \in 1..b : Position(s, B[i]) = (p + 1) + i - 1
  BY <1>2, <1>4 DEF AnchorsValid
<1>6. Rejoins(j) =>
        /\ j.rejoin \in Elements(s) /\ Position(s, j.rejoin) = n
        /\ n = LastPosition(j) + 1
  BY DEF AnchorsValid
<1>7. ~Rejoins(j) => n = LastPosition(j)
  BY DEF AnchorsValid
<1>14. LastPosition(j) = FirstPosition(j) + b - 1
  BY DEF LastPosition
<1> HIDE DEF s, B, n, p, b
<1>8. /\ p \in 1..n /\ s[p] = j.start
      /\ \A i \in 1..(p - 1) : s[i] # s[p]
  BY <1>1, <1>3, <1>4, PositionIs DEF n
<1>9. p \in Nat /\ p >= 1
  BY <1>2, <1>8
<1>10. ASSUME NEW i \in 1..b
       PROVE  /\ p + i \in 1..n /\ B[i] = s[p + i]
              /\ \A k \in 1..((p + i) - 1) : s[k] # s[p + i]
  <2>1. Position(s, B[i]) = p + i
    BY <1>2, <1>5, <1>9
  <2> QED
    BY <1>1, <1>3, <2>1, PositionIs DEF n
<1>11. Rejoins(j) => s[n] = j.rejoin /\ \A i \in 1..(n - 1) : s[i] # s[n]
  BY <1>1, <1>6, PositionIs
<1>12. n = p + b + (IF Rejoins(j) THEN 1 ELSE 0)
  BY <1>2, <1>4, <1>6, <1>7, <1>9, <1>14
<1>13. ASSUME NEW k \in p..n PROVE \A i \in 1..(k - 1) : s[i] # s[k]
  <2>1. k = p \/ (k - p \in 1..b /\ k = p + (k - p)) \/ (k = n /\ Rejoins(j))
    BY <1>2, <1>9, <1>12
  <2>2. CASE k - p \in 1..b /\ k = p + (k - p)
    BY <1>10, <2>2
  <2> QED
    BY <1>8, <1>11, <2>1, <2>2
<1> QED
  BY <1>1, <1>2, <1>4, <1>8, <1>9, <1>10, <1>11, <1>12, <1>13 DEF Shape, s, B, n, p, b

-----------------------------------------------------------------------------
(***************************************************************************)
(* Where the members of a route stand.                                     *)
(***************************************************************************)
LEMMA Joined ==
  ASSUME NEW a \in Seq(Nat), NEW b \in Seq(Nat)
  PROVE  /\ a \o b \in Seq(Nat)
         /\ Len(a) \in Nat /\ Len(b) \in Nat /\ Len(a \o b) = Len(a) + Len(b)
         /\ \A i \in 1..Len(a) : (a \o b)[i] = a[i]
         /\ \A i \in 1..Len(b) : (a \o b)[Len(a) + i] = b[i]
BY Concatenated

LEMMA Part ==
  ASSUME NEW s \in Seq(Nat), NEW m \in Nat, NEW k \in Nat, m + k <= Len(s)
  PROVE  /\ SubSeq(s, m + 1, m + k) \in Seq(Nat) /\ Len(SubSeq(s, m + 1, m + k)) = k
         /\ \A i \in 1..k : SubSeq(s, m + 1, m + k)[i] = s[m + i]
<1>1. SubSeq(s, m + 1, m + k) \in Seq(Nat) /\ Len(SubSeq(s, m + 1, m + k)) = k
  OBVIOUS
<1>2. ASSUME NEW i \in 1..k PROVE SubSeq(s, m + 1, m + k)[i] = s[m + i]
  <2>1. SubSeq(s, m + 1, m + k)[i] = s[(m + 1) + i - 1] /\ (m + 1) + i - 1 = m + i
    OBVIOUS
  <2> QED
    BY <2>1
<1> QED
  BY <1>1, <1>2

\* A sequence in five parts, with the lengths of the first four.
InFive(r, a, q, c, t, z) ==
  /\ r \in Seq(Nat)
  /\ Len(r) = Len(a) + Len(q) + Len(c) + Len(t) + Len(z)
  /\ \A i \in 1..Len(a) : r[i] = a[i]
  /\ \A i \in 1..Len(q) : r[Len(a) + i] = q[i]
  /\ \A i \in 1..Len(c) : r[Len(a) + Len(q) + i] = c[i]
  /\ \A i \in 1..Len(t) : r[Len(a) + Len(q) + Len(c) + i] = t[i]
  /\ \A i \in 1..Len(z) : r[Len(a) + Len(q) + Len(c) + Len(t) + i] = z[i]

LEMMA FiveParts ==
  ASSUME NEW a \in Seq(Nat), NEW q \in Seq(Nat), NEW c \in Seq(Nat),
         NEW t \in Seq(Nat), NEW z \in Seq(Nat)
  PROVE  InFive(a \o q \o c \o t \o z, a, q, c, t, z)
<1> DEFINE aq == a \o q
           aqc == aq \o c
           aqct == aqc \o t
           r == aqct \o z
           la == Len(a)
           lq == Len(q)
           lc == Len(c)
           lt == Len(t)
           lz == Len(z)
<1>1. /\ aq \in Seq(Nat) /\ Len(aq) = la + lq /\ la \in Nat /\ lq \in Nat
      /\ \A i \in 1..la : aq[i] = a[i]
      /\ \A i \in 1..lq : aq[la + i] = q[i]
  BY Concatenated
<1> HIDE DEF aq
<1>2. /\ aqc \in Seq(Nat) /\ Len(aqc) = Len(aq) + lc /\ lc \in Nat
      /\ \A i \in 1..Len(aq) : aqc[i] = aq[i]
      /\ \A i \in 1..lc : aqc[Len(aq) + i] = c[i]
  BY <1>1, Joined
<1> HIDE DEF aqc
<1>3. /\ aqct \in Seq(Nat) /\ Len(aqct) = Len(aqc) + lt /\ lt \in Nat
      /\ \A i \in 1..Len(aqc) : aqct[i] = aqc[i]
      /\ \A i \in 1..lt : aqct[Len(aqc) + i] = t[i]
  BY <1>2, Joined
<1> HIDE DEF aqct
<1>4. /\ r \in Seq(Nat) /\ Len(r) = Len(aqct) + lz /\ lz \in Nat
      /\ \A i \in 1..Len(aqct) : r[i] = aqct[i]
      /\ \A i \in 1..lz : r[Len(aqct) + i] = z[i]
  BY <1>3, Joined
<1> HIDE DEF r, la, lq, lc, lt, lz
<1>5. /\ Len(aq) = la + lq /\ Len(aqc) = la + lq + lc
      /\ Len(aqct) = la + lq + lc + lt /\ Len(r) = la + lq + lc + lt + lz
  BY <1>1, <1>2, <1>3, <1>4
<1>6. ASSUME NEW i \in 1..la PROVE r[i] = a[i]
  <2>1. i \in 1..Len(aq) /\ i \in 1..Len(aqc) /\ i \in 1..Len(aqct)
    BY <1>1, <1>2, <1>3, <1>5
  <2> QED
    BY <1>1, <1>2, <1>3, <1>4, <2>1
<1>7. ASSUME NEW i \in 1..lq PROVE r[la + i] = q[i]
  <2> DEFINE x == la + i
  <2>1. x \in 1..Len(aq) /\ x \in 1..Len(aqc) /\ x \in 1..Len(aqct)
    BY <1>1, <1>2, <1>3, <1>5
  <2>2. aq[x] = q[i]
    BY <1>1
  <2> HIDE DEF x
  <2>3. r[x] = q[i]
    BY <1>2, <1>3, <1>4, <2>1, <2>2
  <2> QED
    BY <2>3 DEF x
<1>8. ASSUME NEW i \in 1..lc PROVE r[la + lq + i] = c[i]
  <2> DEFINE x == la + lq + i
  <2>1. x \in 1..Len(aqc) /\ x \in 1..Len(aqct)
    BY <1>1, <1>2, <1>3, <1>5
  <2>2. aqc[x] = c[i]
    BY <1>2, <1>5
  <2> HIDE DEF x
  <2>3. r[x] = c[i]
    BY <1>3, <1>4, <2>1, <2>2
  <2> QED
    BY <2>3 DEF x
<1>9. ASSUME NEW i \in 1..lt PROVE r[la + lq + lc + i] = t[i]
  <2> DEFINE x == la + lq + lc + i
  <2>1. x \in 1..Len(aqct)
    BY <1>1, <1>2, <1>3, <1>5
  <2>2. aqct[x] = t[i]
    BY <1>3, <1>5
  <2> HIDE DEF x
  <2>3. r[x] = t[i]
    BY <1>4, <2>1, <2>2
  <2> QED
    BY <2>3 DEF x
<1> QED
  BY <1>4, <1>5, <1>6, <1>7, <1>8, <1>9 DEF InFive, r, aqct, aqc, aq, la, lq, lc, lt, lz

\* A route that spends `n` tracks, `out` of them in front of the block.
Laid(j, r, g, out, n) ==
  LET p == StartPosition(j)
      b == Len(Block(j)) IN
  /\ r \in Seq(Nat) /\ Len(r) = Len(j.source) + n
  /\ \A i \in 1..p : r[i] = j.source[i]
  /\ \A i \in 1..out : r[p + i] = g[i]
  /\ \A i \in 1..b : r[p + out + i] = Block(j)[i]
  /\ \A i \in 1..(n - out) : r[p + out + b + i] = g[out + i]
  /\ Rejoins(j) => r[Len(j.source) + n] = j.rejoin

\* What may be spent: eligible tracks that are not in the source, each once.
IsSpending(j, g, out, n) ==
  /\ n \in Nat /\ out \in 0..n /\ (~Rejoins(j) => out = n)
  /\ g \in [1..n -> Nat]
  /\ \A i \in 1..n : g[i] \in j.eligible \ Elements(j.source)
  /\ \A i, k \in 1..n : g[i] = g[k] => i = k

LEMMA SpendingsAre ==
  ASSUME NEW j, IsJob(j), NEW n \in Nat, NEW s \in Spendings(j, n)
  PROVE  IsSpending(j, s[1], s[2], n)
<1>1. s[1] \in Injections(j.eligible \ Elements(j.source), n) /\ s[2] \in 0..n
      /\ (~Rejoins(j) => s[2] = n)
  BY DEF Spendings
<1>2. s[1] \in [1..n -> j.eligible \ Elements(j.source)] /\ IsInjective(s[1])
  BY <1>1 DEF Injections
<1>3. j.eligible \subseteq Nat
  BY DEF IsJob
<1>4. DOMAIN s[1] = 1..n
  BY <1>2
<1>5. \A i, k \in 1..n : s[1][i] = s[1][k] => i = k
  BY <1>2, <1>4 DEF IsInjective
<1> QED
  BY <1>1, <1>2, <1>3, <1>5 DEF IsSpending

LEMMA SpendingIsOne ==
  ASSUME NEW j, IsJob(j), NEW n, NEW g, NEW out, IsSpending(j, g, out, n)
  PROVE  <<g, out>> \in Spendings(j, n)
<1>1. g \in [1..n -> j.eligible \ Elements(j.source)]
  BY DEF IsSpending
<1>2. IsInjective(g)
  BY <1>1 DEF IsSpending, IsInjective
<1> QED
  BY <1>1, <1>2 DEF IsSpending, Spendings, Injections

LEMMA RouteIsLaid ==
  ASSUME NEW j, IsJob(j), Shape(j), NEW n, NEW g, NEW out, IsSpending(j, g, out, n)
  PROVE  Laid(j, RouteOf(j, <<g, out>>), g, out, n)
<1> DEFINE p == StartPosition(j)
           c == Block(j)
           a == SubSeq(j.source, 1, p)
           q == SubSeq(g, 1, out)
           t == SubSeq(g, out + 1, Len(g))
           z == IF Rejoins(j) THEN <<j.rejoin>> ELSE <<>>
           r == a \o q \o c \o t \o z
<1>1. RouteOf(j, <<g, out>>) = r
  BY DEF RouteOf
<1>2. j.source \in Seq(Nat) /\ j.rejoin \in Nat
  BY DEF IsJob
<1>3. /\ p \in Nat /\ p >= 1 /\ c \in Seq(Nat) /\ Len(c) \in Nat /\ p <= Len(j.source)
      /\ Len(j.source) = p + Len(c) + (IF Rejoins(j) THEN 1 ELSE 0)
  BY DEF Shape
<1>4. n \in Nat /\ out \in 0..n /\ g \in [1..n -> Nat] /\ (~Rejoins(j) => out = n)
  BY DEF IsSpending
<1>5. g \in Seq(Nat) /\ Len(g) = n
  BY <1>4
<1>6. a \in Seq(Nat) /\ Len(a) = p /\ \A i \in 1..p : a[i] = j.source[i]
  <2>1. \A s \in Seq(Nat) : \A k \in Nat : k <= Len(s) =>
          /\ SubSeq(s, 1, k) \in Seq(Nat) /\ Len(SubSeq(s, 1, k)) = k
          /\ \A i \in 1..k : SubSeq(s, 1, k)[i] = s[i]
    OBVIOUS
  <2> QED
    BY <1>2, <1>3, <2>1
<1>7. q \in Seq(Nat) /\ Len(q) = out /\ \A i \in 1..out : q[i] = g[i]
  BY <1>4, <1>5
<1>8. t \in Seq(Nat) /\ Len(t) = n - out /\ \A i \in 1..(n - out) : t[i] = g[out + i]
  <2>1. t \in Seq(Nat) /\ Len(t) = n - out
    BY <1>4, <1>5
  <2>2. \A i \in 1..(n - out) : t[i] = g[(out + 1) + i - 1] /\ (out + 1) + i - 1 = out + i
    BY <1>4, <1>5
  <2> QED
    BY <2>1, <2>2
<1>9. z \in Seq(Nat) /\ Len(z) = (IF Rejoins(j) THEN 1 ELSE 0)
      /\ (Rejoins(j) => z[1] = j.rejoin)
  BY <1>2
<1> HIDE DEF a, q, t, z, p, c
<1>14. InFive(r, a, q, c, t, z)
  BY <1>3, <1>6, <1>7, <1>8, <1>9, FiveParts
<1> HIDE DEF r
<1>10. /\ r \in Seq(Nat)
       /\ Len(r) = p + out + Len(c) + (n - out) + Len(z)
       /\ \A i \in 1..p : r[i] = a[i]
       /\ \A i \in 1..out : r[p + i] = q[i]
       /\ \A i \in 1..Len(c) : r[p + out + i] = c[i]
       /\ \A i \in 1..(n - out) : r[p + out + Len(c) + i] = t[i]
       /\ \A i \in 1..Len(z) : r[p + out + Len(c) + (n - out) + i] = z[i]
  BY <1>6, <1>7, <1>8, <1>14 DEF InFive
<1> DEFINE b == Len(c)
           m == Len(j.source)
<1>15. m \in Nat /\ b \in Nat /\ m = p + b + (IF Rejoins(j) THEN 1 ELSE 0)
  BY <1>2, <1>3
<1> HIDE DEF b, m
<1>11. Len(r) = m + n
  <2>1. Len(r) = p + out + b + (n - out) + (IF Rejoins(j) THEN 1 ELSE 0)
    BY <1>9, <1>10 DEF b
  <2> QED
    BY <1>3, <1>4, <1>15, <2>1
<1>12. Rejoins(j) => r[m + n] = j.rejoin
  <2>1. Rejoins(j) => p + out + b + (n - out) + 1 = m + n
    BY <1>3, <1>4, <1>15
  <2>2. Rejoins(j) => r[p + out + b + (n - out) + 1] = z[1]
    BY <1>9, <1>10 DEF b
  <2> QED
    BY <1>9, <2>1, <2>2
<1>16. /\ \A i \in 1..p : r[i] = j.source[i]
       /\ \A i \in 1..out : r[p + i] = g[i]
       /\ \A i \in 1..b : r[p + out + i] = c[i]
       /\ \A i \in 1..(n - out) : r[p + out + b + i] = g[out + i]
  <2>1. \A i \in 1..p : r[i] = j.source[i]
    BY <1>6, <1>10
  <2>2. \A i \in 1..out : r[p + i] = g[i]
    BY <1>7, <1>10
  <2>3. \A i \in 1..b : r[p + out + i] = c[i]
    BY <1>10 DEF b
  <2>4. \A i \in 1..(n - out) : r[p + out + b + i] = g[out + i]
    BY <1>8, <1>10 DEF b
  <2> QED
    BY <2>1, <2>2, <2>3, <2>4
<1>13. Laid(j, r, g, out, n)
  BY <1>10, <1>11, <1>12, <1>16 DEF Laid, p, c, b, m
<1> QED
  BY <1>1, <1>13 DEF r

LEMMA LaidIsUnique ==
  ASSUME NEW j, IsJob(j), Shape(j), NEW n, NEW g, NEW out, IsSpending(j, g, out, n),
         NEW r, Laid(j, r, g, out, n)
  PROVE  r = RouteOf(j, <<g, out>>)
<1> DEFINE p == StartPosition(j)
           b == Len(Block(j))
           m == Len(j.source)
           s == RouteOf(j, <<g, out>>)
<1>1. Laid(j, s, g, out, n)
  BY RouteIsLaid
<1> HIDE DEF s
<1>2. /\ r \in Seq(Nat) /\ s \in Seq(Nat) /\ Len(r) = m + n /\ Len(s) = m + n
      /\ \A i \in 1..p : r[i] = s[i]
      /\ \A i \in 1..out : r[p + i] = s[p + i]
      /\ \A i \in 1..b : r[p + out + i] = s[p + out + i]
      /\ \A i \in 1..(n - out) : r[p + out + b + i] = s[p + out + b + i]
      /\ Rejoins(j) => r[m + n] = s[m + n]
  BY <1>1 DEF Laid
<1>3. /\ p \in Nat /\ b \in Nat /\ n \in Nat /\ out \in 0..n /\ m \in Nat
      /\ m = p + b + (IF Rejoins(j) THEN 1 ELSE 0)
  BY DEF Shape, IsSpending
<1> HIDE DEF p, b, m
<1>4. ASSUME NEW k \in 1..(m + n) PROVE r[k] = s[k]
  <2>1. \/ k \in 1..p
        \/ k - p \in 1..out /\ k = p + (k - p)
        \/ k - (p + out) \in 1..b /\ k = p + out + (k - (p + out))
        \/ k - (p + out + b) \in 1..(n - out) /\ k = p + out + b + (k - (p + out + b))
        \/ Rejoins(j) /\ k = m + n
    BY <1>3
  <2>2. CASE k - p \in 1..out /\ k = p + (k - p)
    BY <1>2, <2>2
  <2>3. CASE k - (p + out) \in 1..b /\ k = p + out + (k - (p + out))
    BY <1>2, <2>3
  <2>4. CASE k - (p + out + b) \in 1..(n - out) /\ k = p + out + b + (k - (p + out + b))
    BY <1>2, <2>4
  <2> QED
    BY <1>2, <2>1, <2>2, <2>3, <2>4
<1>5. r = s
  BY <1>2, <1>4
<1> QED
  BY <1>5 DEF s

LEMMA DestinationStands ==
  ASSUME NEW j, IsJob(j), Shape(j), NEW n, NEW g, NEW out, IsSpending(j, g, out, n),
         NEW r, Laid(j, r, g, out, n)
  PROVE  Position(r, j.destination) = StartPosition(j) + out + 1
<1> DEFINE p == StartPosition(j)
           s == j.source
           x == p + out + 1
<1>0. /\ p \in Nat /\ p >= 1 /\ s \in Seq(Nat) /\ Len(s) \in Nat
      /\ Len(Block(j)) \in Nat /\ Len(Block(j)) >= 1
      /\ Len(s) = p + Len(Block(j)) + (IF Rejoins(j) THEN 1 ELSE 0)
      /\ Block(j)[1] = j.destination
      /\ \A i \in 1..Len(Block(j)) : Block(j)[i] = s[p + i]
  BY DEF Shape, IsJob
<1>1. /\ p \in Nat /\ p >= 1 /\ out \in Nat /\ p + 1 <= Len(s) /\ s \in Seq(Nat)
      /\ Block(j)[1] = j.destination /\ s[p + 1] = j.destination
      /\ 1 \in 1..Len(Block(j)) /\ Len(s) \in Nat
  <2> HIDE DEF p, s
  <2>1. out \in Nat /\ p + 1 <= Len(s) /\ 1 \in 1..Len(Block(j))
    BY <1>0 DEF IsSpending
  <2> QED
    BY <1>0, <2>1
<1>2. \A i \in 1..p : s[i] # j.destination
  <2>1. p + 1 \in p..Len(s)
    BY <1>1
  <2>2. \A i \in 1..((p + 1) - 1) : s[i] # s[p + 1]
    BY <2>1 DEF Shape
  <2> QED
    BY <1>1, <2>2
<1>3. j.destination \in Elements(s)
  BY <1>1 DEF Elements
<1>4. /\ r \in Seq(Nat) /\ r[x] = j.destination
      /\ \A i \in 1..p : r[i] = s[i]
      /\ \A i \in 1..out : r[p + i] = g[i] /\ g[i] \notin Elements(s)
  <2>1. /\ r \in Seq(Nat) /\ \A i \in 1..p : r[i] = s[i]
        /\ \A i \in 1..out : r[p + i] = g[i]
        /\ \A i \in 1..Len(Block(j)) : r[p + out + i] = Block(j)[i]
    BY DEF Laid
  <2>2. \A i \in 1..n : g[i] \notin Elements(s)
    BY DEF IsSpending
  <2>3. \A i \in 1..out : i \in 1..n
    BY DEF IsSpending
  <2> QED
    BY <1>1, <2>1, <2>2, <2>3
<1>5. x \in 1..Len(r)
  <2>1. Len(r) = Len(s) + n /\ n \in Nat /\ out <= n
    BY DEF Laid, IsSpending
  <2> QED
    BY <1>1, <2>1
<1> HIDE DEF p, s
<1>6. ASSUME NEW k \in 1..(x - 1) PROVE r[k] # r[x]
  <2>1. k \in 1..p \/ (k - p \in 1..out /\ k = p + (k - p))
    BY <1>1
  <2> QED
    BY <1>2, <1>3, <1>4, <2>1
<1> HIDE DEF x
<1> QED
  BY <1>4, <1>5, <1>6, PositionIsFirst DEF x, p

-----------------------------------------------------------------------------
(***************************************************************************)
(* The preflight's arithmetic.                                             *)
(***************************************************************************)
LEMMA BoundedMax ==
  ASSUME NEW S \in SUBSET Nat, S # {}, NEW d \in Nat, \A x \in S : x <= d
  PROVE  /\ Max(S) \in S /\ Max(S) \in Nat /\ Max(S) <= d
         /\ \A x \in S : x <= Max(S)
<1>1. IsFiniteSet(S)
  BY FS_BoundedSetOfNaturals
<1>2. PICK m \in S : \A x \in S : m >= x
  BY <1>1, MaximumExists
<1>3. Max(S) \in S /\ \A x \in S : Max(S) >= x
  BY <1>2 DEF Max
<1> QED
  BY <1>3

\* A track that stands d positions behind the last of those heard before it, and
\* is apart from all of them, has the positions the preflight asks for.
LEMMA RequirementIsMet ==
  ASSUME NEW j, IsJob(j), NEW before \in Seq(Nat), NEW track, NEW d \in Nat,
         \A k \in 1..Len(before) :
           PairSafe(j.tracks, j.w, before[k], track, (Len(before) + d + 1) - k)
  PROVE  RepeatRequirement(j, before, track) \in Nat
         /\ RepeatRequirement(j, before, track) <= d
<1> DEFINE W(k) == RequiredWindow(j.tracks, j.w, before[k], track)
           L == Len(before)
           K == {k \in DOMAIN before : W(k) > 0}
           S == {0} \cup {MinimumAfterConflict(k, L, W(k)) : k \in K}
<1>1. L \in Nat /\ DOMAIN before = 1..L /\ j.w \in [artist : Nat, album : Nat, track : Nat]
  BY DEF IsJob
<1>2. ASSUME NEW k \in K
      PROVE  MinimumAfterConflict(k, L, W(k)) \in Nat
             /\ MinimumAfterConflict(k, L, W(k)) <= d
  <2>1. W(k) \in Nat /\ W(k) > 0 /\ k \in 1..L
    BY <1>1 DEF RequiredWindow, Larger
  <2>2. (L + d + 1) - k \in Int /\ PairSafe(j.tracks, j.w, before[k], track, (L + d + 1) - k)
    BY <1>1, <2>1
  <2>3. (L + d + 1) - k > W(k)
    BY <1>1, <2>1, <2>2, SafePairIsBeyondWindow
  <2> HIDE DEF W, L
  <2> QED
    BY <1>1, <2>1, <2>3 DEF MinimumAfterConflict, SaturatingSub
<1>4. S \in SUBSET Nat /\ S # {} /\ \A x \in S : x <= d
  BY <1>2
<1>5. Max(S) \in S
  <2> HIDE DEF S
  <2> QED
    BY <1>4, BoundedMax
<1>6. RepeatRequirement(j, before, track) = Max(S)
  BY DEF RepeatRequirement
<1> HIDE DEF S
<1> QED
  BY <1>4, <1>5, <1>6

\* What it means for the anchors of a laid out route to be apart.
AnchorsStandApart(j, r, out) ==
  LET h == Len(j.history)
      p == StartPosition(j)
      l == Len(r)
      whole == j.history \o r IN
  /\ \A i \in 1..Len(Block(j)) : \A k \in 1..(h + p + out) :
       PairSafe(j.tracks, j.w, whole[k], Block(j)[i], (h + p + out + i) - k)
  /\ Rejoins(j) => \A k \in (h + p + 1)..((h + l) - 1) :
       PairSafe(j.tracks, j.w, whole[k], j.rejoin, (h + l) - k)

LEMMA AnchorPairs ==
  ASSUME NEW j, IsJob(j), Shape(j), NEW n, NEW g, NEW out, IsSpending(j, g, out, n),
         NEW r, Laid(j, r, g, out, n)
  PROVE  AnchorsApart(j, r) <=> AnchorsStandApart(j, r, out)
<1> DEFINE h == Len(j.history)
           p == StartPosition(j)
           whole == j.history \o r
           b == Len(Block(j))
           first == h + (p + out + 1)
           l == Len(r)
<1>1. j.history \in Seq(Nat) /\ r \in Seq(Nat)
  BY DEF IsJob, Laid
<1>2. /\ whole \in Seq(Nat) /\ Len(whole) = h + l /\ h \in Nat /\ l \in Nat
      /\ \A i \in 1..h : whole[i] = j.history[i]
      /\ \A i \in 1..l : whole[h + i] = r[i]
  BY <1>1, Joined
<1>3. /\ p \in Nat /\ p >= 1 /\ b \in Nat /\ b >= 1 /\ n \in Nat /\ out \in 0..n
      /\ l = p + b + (IF Rejoins(j) THEN 1 ELSE 0) + n
      /\ \A i \in 1..b : r[p + out + i] = Block(j)[i]
      /\ Rejoins(j) => r[l] = j.rejoin
  BY DEF Shape, IsSpending, Laid
<1>4. AnchorsApart(j, r) <=>
        \A y \in DOMAIN whole : \A k \in 1..(y - 1) :
          (\/ y \in first..(first + b - 1) /\ k < first
           \/ y = Len(whole) /\ Rejoins(j) /\ k > h + p)
          => PairSafe(j.tracks, j.w, whole[k], whole[y], y - k)
  BY DestinationStands DEF AnchorsApart, PairsApart
<1> DEFINE Far(k, y) == PairSafe(j.tracks, j.w, whole[k], whole[y], y - k)
<1> HIDE DEF h, p, b, l, whole
<1>5. DOMAIN whole = 1..(h + l)
  BY <1>2
<1>6. AnchorsApart(j, r) <=>
        /\ \A i \in 1..b : \A k \in 1..(h + p + out) : Far(k, h + p + out + i)
        /\ Rejoins(j) => \A k \in (h + p + 1)..((h + l) - 1) : Far(k, h + l)
  <2>1. ASSUME NEW y \in 1..(h + l)
        PROVE  y \in first..(first + b - 1) <=> \E i \in 1..b : y = h + p + out + i
    <3> DEFINE x == h + p + out
    <3>0. first = x + 1 /\ x \in Nat /\ b \in Nat /\ y \in Int
      BY <1>2, <1>3
    <3> HIDE DEF x, first
    <3>1. y \in first..(first + b - 1) => y - x \in 1..b /\ y = x + (y - x)
      BY <3>0
    <3>2. \A i \in 1..b : x + i \in first..(first + b - 1)
      BY <3>0
    <3> QED
      BY <3>1, <3>2 DEF x
  <2>2. \A i \in 1..b : /\ h + p + out + i \in 1..(h + l)
                        /\ \A k \in 1..((h + p + out + i) - 1) :
                             k < first <=> k \in 1..(h + p + out)
                        /\ \A k \in 1..(h + p + out) : k \in 1..((h + p + out + i) - 1)
    BY <1>2, <1>3
  <2>3. h + l \in 1..(h + l)
    BY <1>2, <1>3
  <2>4. \A k \in 1..((h + l) - 1) : k > h + p <=> k \in (h + p + 1)..((h + l) - 1)
    BY <1>2, <1>3
  <2>5. \A k \in (h + p + 1)..((h + l) - 1) : k \in 1..((h + l) - 1)
    BY <1>2, <1>3
  <2> HIDE DEF first, Far
  <2>6. ASSUME AnchorsApart(j, r), NEW i \in 1..b, NEW k \in 1..(h + p + out)
        PROVE  Far(k, h + p + out + i)
    <3> DEFINE y == h + p + out + i
    <3>1. y \in 1..(h + l) /\ y \in first..(first + b - 1) /\ k \in 1..(y - 1) /\ k < first
      BY <2>1, <2>2
    <3> HIDE DEF y
    <3>2. Far(k, y)
      BY <1>4, <1>5, <2>6, <3>1 DEF Far
    <3> QED
      BY <3>2 DEF y
  <2>7. ASSUME AnchorsApart(j, r), Rejoins(j), NEW k \in (h + p + 1)..((h + l) - 1)
        PROVE  Far(k, h + l)
    BY <1>2, <1>4, <1>5, <2>3, <2>4, <2>5, <2>7 DEF Far
  <2>8. ASSUME \A i \in 1..b : \A k \in 1..(h + p + out) : Far(k, h + p + out + i),
               Rejoins(j) => \A k \in (h + p + 1)..((h + l) - 1) : Far(k, h + l),
               NEW y \in 1..(h + l), NEW k \in 1..(y - 1),
               \/ y \in first..(first + b - 1) /\ k < first
               \/ y = h + l /\ Rejoins(j) /\ k > h + p
        PROVE  Far(k, y)
    <3>1. CASE y \in first..(first + b - 1) /\ k < first
      <4>1. PICK i \in 1..b : y = h + p + out + i
        BY <2>1, <3>1
      <4>2. k \in 1..(h + p + out)
        BY <2>2, <3>1, <4>1
      <4> QED
        BY <2>8, <4>1, <4>2
    <3>2. CASE y = h + l /\ Rejoins(j) /\ k > h + p
      <4>1. k \in (h + p + 1)..((h + l) - 1)
        BY <2>4, <3>2
      <4> QED
        BY <2>8, <3>2, <4>1
    <3> QED
      BY <2>8, <3>1, <3>2
  <2> QED
    BY <1>2, <1>4, <1>5, <2>6, <2>7, <2>8 DEF Far
<1>7. \A i \in 1..b : whole[h + p + out + i] = Block(j)[i]
  <2> TAKE i \in 1..b
  <2> DEFINE y == p + out + i
  <2>1. y \in 1..l /\ h + p + out + i = h + y
    BY <1>2, <1>3
  <2>2. r[y] = Block(j)[i]
    BY <1>3
  <2> HIDE DEF y
  <2> QED
    BY <1>2, <2>1, <2>2
<1>8. Rejoins(j) => whole[h + l] = j.rejoin
  <2>1. l \in 1..l
    BY <1>2, <1>3
  <2> QED
    BY <1>2, <1>3, <2>1
<1> QED
  BY <1>6, <1>7, <1>8 DEF AnchorsStandApart, h, p, b, l, whole

LEMMA WholeIs ==
  ASSUME NEW j, IsJob(j), NEW r \in Seq(Nat)
  PROVE  /\ Len(j.history) \in Nat /\ Len(r) \in Nat
         /\ j.history \o r \in Seq(Nat) /\ Len(j.history \o r) = Len(j.history) + Len(r)
         /\ \A i \in 1..Len(j.history) : (j.history \o r)[i] = j.history[i]
         /\ \A i \in 1..Len(r) : (j.history \o r)[Len(j.history) + i] = r[i]
BY Joined DEF IsJob

\* A route whose anchors are apart spends at least what the preflight demands, in
\* front of the block and behind it.
LEMMA OutwardIsMet ==
  ASSUME NEW j, IsJob(j), Shape(j), NEW n, NEW g, NEW out, IsSpending(j, g, out, n),
         NEW r, Laid(j, r, g, out, n), AnchorsApart(j, r)
  PROVE  OutwardMinimum(j) \in Nat /\ OutwardMinimum(j) <= out
<1> DEFINE h == Len(j.history)
           p == StartPosition(j)
           B == Block(j)
           b == Len(B)
           whole == j.history \o r
           before == j.history \o SubSeq(j.source, 1, p)
           share(i) == SaturatingSub(RepeatRequirement(j, before, B[i]), i - 1)
           S == {share(i) : i \in DOMAIN B}
<1>1. /\ \A i \in 1..b : \A k \in 1..(h + p + out) :
           PairSafe(j.tracks, j.w, whole[k], B[i], (h + p + out + i) - k)
      /\ whole \in Seq(Nat) /\ h \in Nat
      /\ \A i \in 1..h : whole[i] = j.history[i]
      /\ \A i \in 1..Len(r) : whole[h + i] = r[i]
  <2>1. AnchorsStandApart(j, r, out) /\ r \in Seq(Nat)
    BY AnchorPairs DEF Laid
  <2>2. /\ whole \in Seq(Nat) /\ h \in Nat
        /\ \A i \in 1..h : whole[i] = j.history[i]
        /\ \A i \in 1..Len(r) : whole[h + i] = r[i]
    BY <2>1, WholeIs
  <2> QED
    BY <2>1, <2>2 DEF AnchorsStandApart
<1>2. /\ p \in Nat /\ p >= 1 /\ b \in Nat /\ b >= 1 /\ DOMAIN B = 1..b
      /\ p <= Len(j.source) /\ j.source \in Seq(Nat) /\ j.history \in Seq(Nat)
  BY ShapeParts
<1>3. n \in Nat /\ out \in Nat /\ out <= n
  BY DEF IsSpending
<1>4. Len(r) = Len(j.source) + n /\ Len(r) \in Nat /\ \A i \in 1..p : r[i] = j.source[i]
  BY DEF Laid
<1>5. /\ before \in Seq(Nat) /\ Len(before) = h + p
      /\ \A i \in 1..h : before[i] = j.history[i]
      /\ \A i \in 1..p : before[h + i] = j.source[i]
  <2> DEFINE part == SubSeq(j.source, 1, p)
  <2>1. \A s \in Seq(Nat) : \A k \in Nat : k <= Len(s) =>
          /\ SubSeq(s, 1, k) \in Seq(Nat) /\ Len(SubSeq(s, 1, k)) = k
          /\ \A i \in 1..k : SubSeq(s, 1, k)[i] = s[i]
    OBVIOUS
  <2>2. part \in Seq(Nat) /\ Len(part) = p /\ \A i \in 1..p : part[i] = j.source[i]
    BY <1>2, <2>1
  <2> HIDE DEF part
  <2>3. /\ j.history \o part \in Seq(Nat) /\ Len(j.history \o part) = h + Len(part)
        /\ \A i \in 1..h : (j.history \o part)[i] = j.history[i]
        /\ \A i \in 1..Len(part) : (j.history \o part)[h + i] = part[i]
    BY <1>2, <2>2, Joined
  <2> QED
    BY <2>2, <2>3 DEF part
<1> HIDE DEF h, p, b, B, whole, before
<1>6. ASSUME NEW k \in 1..(h + p) PROVE before[k] = whole[k]
  <2>1. k \in 1..h \/ (k - h \in 1..p /\ k = h + (k - h))
    BY <1>1, <1>2
  <2>2. CASE k - h \in 1..p /\ k = h + (k - h)
    <3>1. k - h \in 1..Len(r)
      BY <1>2, <1>3, <1>4, <2>2
    <3> QED
      BY <1>1, <1>4, <1>5, <2>2, <3>1
  <2> QED
    BY <1>1, <1>5, <2>1, <2>2
<1>7. ASSUME NEW i \in 1..b
      PROVE  share(i) \in Nat /\ share(i) <= out
  <2> DEFINE d == (out + i) - 1
             m == RepeatRequirement(j, before, B[i])
  <2>1. d \in Nat /\ i \in Nat /\ i >= 1
    BY <1>2, <1>3
  <2>2. ASSUME NEW k \in 1..Len(before)
        PROVE  PairSafe(j.tracks, j.w, before[k], B[i], (Len(before) + d + 1) - k)
    <3>1. /\ k \in 1..(h + p) /\ k \in 1..(h + p + out)
          /\ (Len(before) + d + 1) - k = (h + p + out + i) - k
      BY <1>1, <1>2, <1>3, <1>5
    <3> QED
      BY <1>1, <1>6, <3>1
  <2> HIDE DEF d, m
  <2>3. m \in Nat /\ m <= d
    BY <1>5, <2>1, <2>2, RequirementIsMet DEF m
  <2>4. SaturatingSub(m, i - 1) \in Nat /\ SaturatingSub(m, i - 1) <= out
    BY <1>3, <2>1, <2>3 DEF SaturatingSub, d
  <2> QED
    BY <2>4 DEF m
<1>9. OutwardMinimum(j) = Max(S)
  BY DEF OutwardMinimum, B, before, p
<1> HIDE DEF share
<1>8. S \in SUBSET Nat /\ S # {} /\ \A x \in S : x <= out
  <2>1. 1 \in DOMAIN B /\ \A i \in DOMAIN B : i \in 1..b
    BY <1>2
  <2>2. \A i \in DOMAIN B : share(i) \in Nat /\ share(i) <= out
    BY <1>7, <2>1
  <2> QED
    BY <2>1, <2>2
<1> HIDE DEF S
<1> QED
  BY <1>3, <1>8, <1>9, BoundedMax

LEMMA ReturnIsMet ==
  ASSUME NEW j, IsJob(j), Shape(j), NEW n, NEW g, NEW out, IsSpending(j, g, out, n),
         NEW r, Laid(j, r, g, out, n), AnchorsApart(j, r)
  PROVE  ReturnMinimum(j) \in Nat /\ ReturnMinimum(j) <= n - out
<1>1. n \in Nat /\ out \in Nat /\ out <= n
  BY DEF IsSpending
<1>2. CASE ~Rejoins(j)
  BY <1>1, <1>2 DEF ReturnMinimum
<1>3. CASE Rejoins(j)
  <2> DEFINE h == Len(j.history)
             p == StartPosition(j)
             B == Block(j)
             b == Len(B)
             l == Len(r)
             whole == j.history \o r
             share(i) == SaturatingSub(RepeatRequirement(j, <<B[i]>>, j.rejoin), b - i)
             S == {share(i) : i \in DOMAIN B}
  <2>1. /\ \A k \in (h + p + 1)..((h + l) - 1) :
             PairSafe(j.tracks, j.w, whole[k], j.rejoin, (h + l) - k)
        /\ h \in Nat /\ \A i \in 1..l : whole[h + i] = r[i]
    <3>1. AnchorsStandApart(j, r, out) /\ r \in Seq(Nat)
      BY AnchorPairs DEF Laid
    <3> QED
      BY <1>3, <3>1, WholeIs DEF AnchorsStandApart
  <2>2. /\ p \in Nat /\ p >= 1 /\ b \in Nat /\ b >= 1 /\ DOMAIN B = 1..b
        /\ B \in Seq(Nat) /\ Len(j.source) = p + b + 1
    BY <1>3 DEF Shape
  <2>3. /\ l = Len(j.source) + n
        /\ \A i \in 1..b : r[p + out + i] = B[i]
    BY DEF Laid
  <2> HIDE DEF h, p, b, B, whole, l
  <2>4. l = p + b + 1 + n
    BY <2>2, <2>3
  <2>5. ASSUME NEW i \in 1..b
        PROVE  share(i) \in Nat /\ share(i) <= n - out
    <3> DEFINE d == (n - out) + (b - i)
               m == RepeatRequirement(j, <<B[i]>>, j.rejoin)
               x == p + out + i
               y == h + x
    <3>1. d \in Nat /\ i \in Nat /\ i >= 1 /\ i <= b
      BY <1>1, <2>2
    <3>2. x \in 1..l /\ y \in (h + p + 1)..((h + l) - 1) /\ (h + l) - y = d + 1
      BY <1>1, <2>1, <2>2, <2>4, <3>1
    <3>3. r[x] = B[i]
      BY <2>3
    <3>4. whole[y] = B[i]
      <4> HIDE DEF x
      <4> QED
        BY <2>1, <3>2, <3>3
    <3> HIDE DEF d, x, y, m
    <3>5. PairSafe(j.tracks, j.w, B[i], j.rejoin, d + 1)
      BY <2>1, <3>2, <3>4
    <3>6. /\ <<B[i]>> \in Seq(Nat) /\ Len(<<B[i]>>) = 1 /\ <<B[i]>>[1] = B[i]
      BY <2>2
    <3>7. ASSUME NEW k \in 1..1
          PROVE  PairSafe(j.tracks, j.w, <<B[i]>>[k], j.rejoin, (1 + d + 1) - k)
      <4>1. k = 1 /\ (1 + d + 1) - k = d + 1
        BY <3>1
      <4> QED
        BY <3>5, <3>6, <4>1
    <3>8. m \in Nat /\ m <= d
      BY <3>1, <3>6, <3>7, RequirementIsMet DEF m
    <3>9. SaturatingSub(m, b - i) \in Nat /\ SaturatingSub(m, b - i) <= n - out
      BY <1>1, <2>2, <3>1, <3>8 DEF SaturatingSub, d
    <3> QED
      BY <3>9 DEF m
  <2>7. ReturnMinimum(j) = Max(S)
    BY <1>3 DEF ReturnMinimum, B, b
  <2> HIDE DEF share
  <2>6. S \in SUBSET Nat /\ S # {} /\ \A x \in S : x <= n - out
    <3>1. 1 \in DOMAIN B /\ \A i \in DOMAIN B : i \in 1..b
      BY <2>2
    <3>2. \A i \in DOMAIN B : share(i) \in Nat /\ share(i) <= n - out
      BY <2>5, <3>1
    <3> QED
      BY <3>1, <3>2
  <2>8. n - out \in Nat
    BY <1>1
  <2> HIDE DEF S
  <2> QED
    BY <2>6, <2>7, <2>8, BoundedMax
<1> QED
  BY <1>2, <1>3

\* No permitted number of additions suffices for a request the preflight rejects.
LEMMA RejectionIsRight ==
  ASSUME NEW j, IsJob(j), Valid(j), PreflightRejects(j), NEW n \in Permitted(j)
  PROVE  GoodRoutes(j, n) = {}
<1> SUFFICES ASSUME NEW r \in GoodRoutes(j, n) PROVE FALSE
  OBVIOUS
<1>1. Shape(j)
  BY ValidShape DEF Valid
<1>2. PICK s \in Spendings(j, n) : r = RouteOf(j, s) /\ AnchorsApart(j, r)
  BY DEF GoodRoutes
<1> DEFINE g == s[1]
           out == s[2]
<1>3. n \in Nat /\ n <= PreflightBudget(j)
  <2>1. j.maximum \in Nat /\ (j.mode = "exact" => j.count \in Nat)
        /\ j.mode \in {"exact", "automatic"}
    BY DEF Valid, IsJob
  <2>2. CASE j.mode = "exact"
    <3>1. n = j.count /\ j.count # NotGiven
      BY <2>2 DEF Permitted, Valid
    <3> QED
      BY <2>1, <2>2, <3>1 DEF PreflightBudget, Given
  <2>3. CASE j.mode = "automatic"
    <3>1. n \in Given(j.minimum, 0)..j.maximum /\ j.maximum # NotGiven
      BY <2>3 DEF Permitted, Valid
    <3>2. Given(j.minimum, 0) \in Nat
      BY DEF IsJob, Given, NotGiven
    <3> QED
      BY <2>1, <2>3, <3>1, <3>2 DEF PreflightBudget, Given
  <2> QED
    BY <2>1, <2>2, <2>3
<1>4. IsSpending(j, g, out, n)
  BY <1>3, SpendingsAre
<1>5. s = <<g, out>>
  BY <1>2 DEF Spendings
<1>6. Laid(j, r, g, out, n)
  BY <1>1, <1>2, <1>4, <1>5, RouteIsLaid
<1> HIDE DEF g, out
<1>7. /\ OutwardMinimum(j) \in Nat /\ OutwardMinimum(j) <= out
      /\ ReturnMinimum(j) \in Nat /\ ReturnMinimum(j) <= n - out
  BY <1>1, <1>2, <1>4, <1>6, OutwardIsMet, ReturnIsMet
<1>8. OutwardMinimum(j) + ReturnMinimum(j) > PreflightBudget(j)
  BY DEF PreflightRejects
<1>9. out \in Nat /\ PreflightBudget(j) \in Int
  BY <1>4 DEF IsSpending, PreflightBudget, Given, IsJob, NotGiven
<1> QED
  BY <1>3, <1>7, <1>8, <1>9

\* The preflight knows every valid request's shape.
LEMMA ValidIsJudged ==
  ASSUME NEW j, IsJob(j), Valid(j)
  PROVE  PreflightJudges(j)
<1> DEFINE s == j.source
           p == StartPosition(j)
           b == Len(Block(j))
           last == FirstPosition(j) + Larger(1, Len(j.block)) - 1
<1>1. AnchorsValid(j) /\ Shape(j)
  BY ValidShape DEF Valid
<1>2. /\ p \in Nat /\ b \in Nat /\ b >= 1 /\ FirstPosition(j) = p + 1
      /\ Block(j)[1] = j.destination /\ p + b <= Len(s) /\ Len(s) \in Nat
      /\ \A i \in 1..b : Block(j)[i] = s[p + i]
  BY <1>1, ShapeParts DEF Shape
<1>3. Larger(1, Len(j.block)) = b /\ (j.block # <<>> => Block(j) = j.block)
      /\ Len(j.block) <= b /\ Len(j.block) \in Nat
  <2>1. j.block \in Seq(Nat) /\ Len(j.block) \in Nat
    <3>1. j.block \in Seq(Nat)
      BY DEF IsJob
    <3> QED
      BY <3>1
  <2>2. CASE j.block = <<>>
    <3>1. Block(j) = <<j.destination>>
      BY <2>2 DEF Block
    <3>2. b = 1 /\ Len(j.block) = 0
      BY <2>2, <3>1
    <3> QED
      BY <2>2, <3>2 DEF Larger
  <2>3. CASE j.block # <<>>
    <3>1. Block(j) = j.block
      BY <2>3 DEF Block
    <3> HIDE DEF b
    <3>2. b = Len(j.block)
      BY <3>1 DEF b
    <3>3. Larger(1, b) = b
      BY <1>2 DEF Larger
    <3> QED
      BY <2>1, <3>1, <3>2, <3>3, <1>2
  <2> QED
    BY <2>2, <2>3
<1>4. last = p + b /\ LastPosition(j) = p + b
  <2>1. last = FirstPosition(j) + b - 1 /\ LastPosition(j) = FirstPosition(j) + b - 1
    BY <1>3 DEF LastPosition
  <2> HIDE DEF last, p, b
  <2> QED
    BY <1>2, <2>1
<1>5. {j.start, j.destination} \subseteq Elements(s)
  <2>1. {j.start} \cup Elements(Block(j)) \subseteq Elements(s)
    BY <1>1 DEF AnchorsValid
  <2>2. j.destination \in Elements(Block(j))
    <3>1. 1 \in DOMAIN Block(j)
      BY <1>1, ShapeParts
    <3> QED
      BY <1>2, <3>1 DEF Elements
  <2> QED
    BY <2>1, <2>2
<1>6. ASSUME NEW i \in DOMAIN j.block
      PROVE  j.block[i] = s[FirstPosition(j) + i - 1]
  <2>1. j.block \in Seq(Nat)
    BY DEF IsJob
  <2>2. i \in 1..Len(j.block)
    BY <2>1
  <2>3. j.block # <<>>
    BY <2>1, <2>2
  <2>4. i \in 1..b /\ i \in Nat
    BY <1>2, <1>3, <2>2
  <2>5. FirstPosition(j) + i - 1 = p + i
    <3> HIDE DEF p
    <3> QED
      BY <1>2, <2>4
  <2> QED
    BY <1>2, <1>3, <2>3, <2>4, <2>5
<1>7. IF Rejoins(j)
      THEN /\ j.rejoin \in Elements(s) /\ Position(s, j.rejoin) = LastPosition(j) + 1
           /\ Position(s, j.rejoin) = Len(s)
      ELSE LastPosition(j) = Len(s)
  BY <1>1 DEF AnchorsValid
<1> HIDE DEF s, p, b, last
<1>8. last <= Len(s)
  BY <1>2, <1>4
<1>9. IF Rejoins(j)
      THEN /\ j.rejoin \in Elements(s) /\ Position(s, j.rejoin) = last + 1
           /\ last + 1 = Len(s)
      ELSE last = Len(s)
  BY <1>4, <1>7
<1> QED
  BY <1>2, <1>5, <1>6, <1>8, <1>9 DEF PreflightJudges, s, p, last

\* What has been decided about the request before each stage.
Judged ==
  /\ job \in Jobs
  /\ pc = "unsatisfiable" => PreflightRejects(job)
  /\ pc \notin {"preflight", "unsatisfiable"} => ~PreflightRejects(job)
  /\ pc \notin {"preflight", "validate", "unsatisfiable", "invalid"} => Valid(job)

LEMMA JudgedAlways == Spec => []Judged
<1>1. Init => Judged
  BY DEF Init, Judged
<1>2. Judged /\ [Next]_vars => Judged'
  <2> SUFFICES ASSUME Judged, [Next]_vars PROVE Judged'
    OBVIOUS
  <2>1. CASE Preflight
    BY <2>1 DEF Preflight, Idle, Judged
  <2>2. CASE Validate
    BY <2>2 DEF Validate, Idle, Judged
  <2>3. CASE Direct
    BY <2>3 DEF Direct, Judged
  <2>4. CASE SearchOutward
    BY <2>4 DEF SearchOutward, Judged
  <2>5. CASE \E outward \in pending : SearchReturn(outward)
    BY <2>5 DEF SearchReturn, Judged
  <2>6. CASE Collect
    BY <2>6 DEF Collect, Judged
  <2>7. CASE ChooseExact
    BY <2>7 DEF ChooseExact, Judged
  <2>8. CASE CompareOption
    BY <2>8 DEF CompareOption, Judged
  <2>9. CASE ChooseFallback
    BY <2>9 DEF ChooseFallback, Judged
  <2>10. CASE Stopped \/ UNCHANGED vars
    BY <2>10 DEF Stopped, vars, Judged
  <2> QED
    BY <2>1, <2>2, <2>3, <2>4, <2>5, <2>6, <2>7, <2>8, <2>9, <2>10 DEF Next
<1> QED
  BY <1>1, <1>2, PTL DEF Spec

\* The preflight turns a request down only when no route within its budget
\* satisfies the windows, and no request reaches the search that it has not
\* judged (main.rs:411-551), for every request, library and windows.
THEOREM PreflightRefusesOnlyTheImpossible == Spec => []PreflightIsRight
<1>1. Judged => PreflightIsRight
  <2> SUFFICES ASSUME Judged PROVE PreflightIsRight
    OBVIOUS
  <2>1. IsJob(job)
    BY JobsAssumption DEF Judged
  <2>2. RejectedIsInfeasible
    BY <2>1, RejectionIsRight DEF RejectedIsInfeasible, Judged
  <2>3. SearchedIsJudged
    BY <2>1, ValidIsJudged DEF SearchedIsJudged, Judged
  <2> QED
    BY <2>2, <2>3 DEF PreflightIsRight
<1> QED
  BY <1>1, JudgedAlways, PTL

-----------------------------------------------------------------------------
(***************************************************************************)
(* The searches of the boundaries.                                         *)
(***************************************************************************)
LEMMA CandidatesAreEligible ==
  ASSUME NEW j, NEW left, NEW right
  PROVE  DOMAIN BoundaryCandidates(j, left, right) \subseteq j.eligible
<1>1. DestinationPrefilter(j, left, right, j.shortlist) \subseteq j.eligible
  BY DEF DestinationPrefilter, Least
<1> QED
  BY <1>1 DEF BoundaryCandidates

\* What a boundary's search is started with.
IsBoundary(j, prefix, right, unavailable, exempt, max) ==
  /\ prefix \in Seq(Nat) /\ prefix # <<>> /\ right \in Nat /\ unavailable \in Seq(Nat)
  /\ Elements(prefix) \subseteq Elements(unavailable) /\ right \in Elements(unavailable)
  /\ Elements(j.source) \subseteq Elements(unavailable)
  /\ Elements(unavailable) \subseteq DOMAIN j.tracks
  /\ right # prefix[Len(prefix)]
  /\ exempt \in 0..(Len(j.history) + Len(prefix)) /\ max \in Nat

LEMMA BoundaryIsAdmitted ==
  ASSUME NEW j, IsJob(j), NEW prefix, NEW right, NEW unavailable, NEW exempt, NEW max,
         IsBoundary(j, prefix, right, unavailable, exempt, max)
  PROVE  /\ Admitted(SearchRequest(j, prefix, right, unavailable, exempt, max))
         /\ Available(SearchRequest(j, prefix, right, unavailable, exempt, max))
              \subseteq j.eligible \ Elements(unavailable)
<1> DEFINE req == SearchRequest(j, prefix, right, unavailable, exempt, max)
           C == BoundaryCandidates(j, Last(prefix), right)
<1>1. /\ req.tracks = j.tracks /\ req.w = j.w /\ req.history = j.history
      /\ req.prefix = prefix /\ req.unavailable = unavailable /\ req.left = Last(prefix)
      /\ req.right = right /\ req.candidates = C /\ req.distance = j.models[1]
      /\ req.exempt = exempt /\ req.max = max /\ req.candidateLimit = j.candidateLimit
      /\ req.beam = j.beam /\ req.alternatives = 1 /\ req.variation = 0
  BY DEF SearchRequest
<1>2. DOMAIN C \subseteq j.eligible
  BY CandidatesAreEligible
<1> HIDE DEF req, C
<1>3. Available(req) \subseteq j.eligible \ Elements(unavailable)
  BY <1>1, <1>2 DEF Available
<1>4. /\ j.history \in Seq(Nat) /\ j.w \in [artist : Nat, album : Nat, track : Nat]
      /\ j.eligible \subseteq Nat /\ IsFiniteSet(j.eligible)
      /\ Elements(j.history) \cup Elements(j.source) \cup j.eligible \subseteq DOMAIN j.tracks
      /\ \A c \in j.eligible : j.guidance[c] \in Int
      /\ j.candidateLimit \in Nat \ {0} /\ j.beam \in Nat \ {0}
  BY DEF IsJob
<1>5. \A a, b \in DOMAIN j.tracks : j.models[1][<<a, b>>] \in Nat \cup {Unreachable}
  <2>1. 1 \in DOMAIN j.models
    BY DEF IsJob
  <2> QED
    BY <2>1 DEF IsJob
<1>6. /\ prefix \in Seq(Nat) /\ prefix # <<>> /\ right \in Nat /\ unavailable \in Seq(Nat)
      /\ Elements(prefix) \subseteq DOMAIN j.tracks /\ right \in DOMAIN j.tracks
      /\ Elements(unavailable) \subseteq DOMAIN j.tracks
      /\ right # prefix[Len(prefix)]
      /\ exempt \in 0..(Len(j.history) + Len(prefix)) /\ max \in Nat
  BY DEF IsBoundary
<1>7. /\ Last(prefix) = prefix[Len(prefix)] /\ Last(prefix) \in Nat
      /\ Last(prefix) \in Elements(prefix)
  <2>1. Len(prefix) \in DOMAIN prefix
    BY <1>6
  <2>2. Last(prefix) = prefix[Len(prefix)]
    BY DEF Last
  <2> QED
    BY <1>6, <2>1, <2>2 DEF Elements
<1>8. C \in [DOMAIN C -> Int] /\ IsFiniteSet(DOMAIN C) /\ DOMAIN C \subseteq Nat
  <2>1. C = [c \in DOMAIN C |-> C[c]] /\ \A c \in DOMAIN C : C[c] = j.guidance[c]
    BY DEF C, BoundaryCandidates
  <2>2. IsFiniteSet(DOMAIN C)
    BY <1>2, <1>4, FS_Subset
  <2> QED
    BY <1>2, <1>4, <2>1, <2>2
<1>9. RepeatPrefix(req) \in Seq(Nat) /\ Len(RepeatPrefix(req)) = Len(j.history) + Len(prefix)
  BY <1>1, <1>4, <1>6, Joined DEF RepeatPrefix
<1>10. IsRequest(req)
  <2>1. /\ req.history \in Seq(Nat) /\ req.prefix \in Seq(Nat) /\ req.unavailable \in Seq(Nat)
        /\ req.left \in Nat /\ req.right \in Nat
        /\ req.w \in [artist : Nat, album : Nat, track : Nat]
    BY <1>1, <1>4, <1>6, <1>7
  <2>2. /\ DOMAIN req.candidates \subseteq Nat /\ IsFiniteSet(DOMAIN req.candidates)
        /\ req.candidates \in [DOMAIN req.candidates -> Int]
    BY <1>1, <1>8
  <2>3. \A a, b \in DOMAIN req.tracks : req.distance[<<a, b>>] \in Nat \cup {Unreachable}
    BY <1>1, <1>5
  <2>4. req.exempt \in 0..Len(RepeatPrefix(req))
    BY <1>1, <1>6, <1>9
  <2>5. /\ req.max \in Nat /\ req.candidateLimit \in Nat /\ req.beam \in Nat
        /\ req.alternatives \in Nat /\ req.variation \in Nat
    BY <1>1, <1>4, <1>6
  <2> QED
    BY <2>1, <2>2, <2>3, <2>4, <2>5 DEF IsRequest
<1>11. Elements(prefix \o j.history \o unavailable)
         \subseteq Elements(prefix) \cup Elements(j.history) \cup Elements(unavailable)
  <2>1. \A a, b \in Seq(Nat) :
          a \o b \in Seq(Nat) /\ Elements(a \o b) \subseteq Elements(a) \cup Elements(b)
    <3> SUFFICES ASSUME NEW a \in Seq(Nat), NEW b \in Seq(Nat)
                 PROVE  a \o b \in Seq(Nat) /\ Elements(a \o b) \subseteq Elements(a) \cup Elements(b)
      OBVIOUS
    <3>1. ASSUME NEW k \in DOMAIN (a \o b)
          PROVE  (a \o b)[k] \in Elements(a) \cup Elements(b)
      <4>1. k \in 1..Len(a) \/ (k - Len(a) \in 1..Len(b) /\ k = Len(a) + (k - Len(a)))
        OBVIOUS
      <4>2. DOMAIN a = 1..Len(a) /\ DOMAIN b = 1..Len(b)
        OBVIOUS
      <4> QED
        BY <4>1, <4>2, Joined DEF Elements
    <3> QED
      BY <3>1 DEF Elements
  <2>2. /\ prefix \o j.history \in Seq(Nat)
        /\ Elements(prefix \o j.history) \subseteq Elements(prefix) \cup Elements(j.history)
    BY <1>4, <1>6, <2>1
  <2>3. Elements((prefix \o j.history) \o unavailable)
          \subseteq Elements(prefix \o j.history) \cup Elements(unavailable)
    BY <1>6, <2>1, <2>2
  <2> QED
    BY <2>2, <2>3
<1>12. ValidRequest(req)
  <2>1. /\ req.prefix # <<>> /\ Last(req.prefix) = req.left /\ req.left # req.right
        /\ req.candidateLimit > 0 /\ req.beam > 0 /\ req.alternatives > 0
        /\ req.variation <= 100
    <3> HIDE DEF C, req
    <3>1. /\ req.candidateLimit > 0 /\ req.beam > 0 /\ req.alternatives > 0
          /\ req.variation <= 100
      BY <1>1, <1>4
    <3>2. req.prefix # <<>> /\ Last(req.prefix) = req.left /\ req.left # req.right
      BY <1>1, <1>6, <1>7
    <3> QED
      BY <3>1, <3>2
  <2>2. /\ Elements(prefix \o j.history \o unavailable) \subseteq DOMAIN j.tracks
        /\ Last(prefix) \in DOMAIN j.tracks /\ right \in DOMAIN j.tracks
        /\ DOMAIN C \subseteq DOMAIN j.tracks
    <3> HIDE DEF C, req
    <3> QED
      BY <1>2, <1>4, <1>6, <1>7, <1>11
  <2>3. Elements(req.prefix \o req.history \o req.unavailable)
          \cup {req.left, req.right} \cup DOMAIN req.candidates \subseteq DOMAIN req.tracks
    <3> HIDE DEF C, req
    <3> QED
      BY <1>1, <2>2
  <2> HIDE DEF C, req
  <2> QED
    BY <2>1, <2>3 DEF ValidRequest
<1> QED
  BY <1>3, <1>10, <1>12 DEF Admitted, req

\* An option of a boundary's search.
IsBoundaryOption(j, prefix, right, unavailable, exempt, max, o) ==
  LET q == o.intermediates
      R == j.history \o prefix \o q \o <<right>>
      m == Len(j.history) + Len(prefix) IN
  /\ Len(q) \in 0..max /\ q \in [1..Len(q) -> Nat]
  /\ \A i \in 1..Len(q) : q[i] \in j.eligible \ Elements(unavailable)
  /\ \A i, k \in 1..Len(q) : q[i] = q[k] => i = k
  /\ o.route = prefix \o q \o <<right>>
  /\ \A y \in (m + 1)..(m + Len(q) + 1) : \A x \in 1..(y - 1) :
       (y = m + Len(q) + 1 /\ x <= exempt) \/ PairSafe(j.tracks, j.w, R[x], R[y], y - x)

LEMMA GoodPathIsOption ==
  ASSUME NEW j, IsJob(j), NEW prefix, NEW right, NEW unavailable, NEW exempt, NEW max,
         IsBoundary(j, prefix, right, unavailable, exempt, max), NEW n \in 0..max,
         NEW o \in GoodPaths(SearchRequest(j, prefix, right, unavailable, exempt, max), n)
  PROVE  IsBoundaryOption(j, prefix, right, unavailable, exempt, max, o)
<1> DEFINE req == SearchRequest(j, prefix, right, unavailable, exempt, max)
           q == o.intermediates
<1>1. /\ req.tracks = j.tracks /\ req.w = j.w /\ req.history = j.history
      /\ req.prefix = prefix /\ req.right = right /\ req.exempt = exempt /\ req.max = max
  BY DEF SearchRequest
<1>2. Admitted(req) /\ Available(req) \subseteq j.eligible \ Elements(unavailable)
  BY BoundaryIsAdmitted
<1> HIDE DEF req
<1>3. o \in GoodPaths(req, n)
  BY DEF req
<1>4. n \in 0..max /\ n \in Nat
  BY DEF IsBoundary
<1>5. Len(q) = n /\ q \in Paths(req, n) /\ o = PathOption(req, q)
  BY <1>3, <1>4, GoodPathFacts
<1>6. PathSafe(req, q)
  <2>1. PICK p \in Paths(req, n) : PathSafe(req, p) /\ o = PathOption(req, p)
    BY <1>3 DEF GoodPaths
  <2>2. o.intermediates = p
    BY <2>1 DEF PathOption
  <2> QED
    BY <2>1, <2>2
<1>7. o.route = prefix \o q \o <<right>>
  BY <1>1, <1>5 DEF PathOption
<1> HIDE DEF q
<1>8. q \in [1..n -> Available(req)] /\ \A i, k \in 1..n : q[i] = q[k] => i = k
  <2>1. q \in [1..n -> Available(req)] /\ IsInjective(q)
    BY <1>5 DEF Paths
  <2> QED
    BY <2>1 DEF IsInjective
<1>9. q \in [1..n -> Nat] /\ \A i \in 1..n : q[i] \in j.eligible \ Elements(unavailable)
  BY <1>2, <1>8 DEF IsJob
<1>10. /\ Len(ClosedRoute(req, q)) = Len(RepeatPrefix(req)) + n + 1
       /\ ClosedRoute(req, q) = j.history \o prefix \o q \o <<right>>
       /\ RepeatPrefix(req) = j.history \o prefix
       /\ Len(RepeatPrefix(req)) = Len(j.history) + Len(prefix)
  <2>1. Len(ClosedRoute(req, q)) = Len(RepeatPrefix(req)) + n + 1
    BY <1>2, <1>4, <1>9, RouteFacts
  <2>2. RepeatPrefix(req) = j.history \o prefix
    BY <1>1 DEF RepeatPrefix
  <2>3. prefix \in Seq(Nat) /\ j.history \in Seq(Nat)
    BY DEF IsBoundary, IsJob
  <2> QED
    BY <1>1, <2>1, <2>2, <2>3, Joined DEF ClosedRoute
<1>11. \A y \in (Len(RepeatPrefix(req)) + 1)..Len(ClosedRoute(req, q)) : \A x \in 1..(y - 1) :
         (y = Len(ClosedRoute(req, q)) /\ x <= exempt) \/
         PairSafe(j.tracks, j.w, ClosedRoute(req, q)[x], ClosedRoute(req, q)[y], y - x)
  BY <1>1, <1>6 DEF PathSafe, ClosedRoute
<1> QED
  BY <1>4, <1>5, <1>7, <1>8, <1>9, <1>10, <1>11 DEF IsBoundaryOption, q

LEMMA BoundaryOptions ==
  ASSUME NEW j, IsJob(j), NEW prefix, NEW right, NEW unavailable, NEW exempt, NEW max,
         IsBoundary(j, prefix, right, unavailable, exempt, max),
         NEW o \in AnchoredPaths(SearchRequest(j, prefix, right, unavailable, exempt, max))
  PROVE  IsBoundaryOption(j, prefix, right, unavailable, exempt, max, o)
<1> DEFINE req == SearchRequest(j, prefix, right, unavailable, exempt, max)
<1>1. req.max = max
  BY DEF SearchRequest
<1>2. Admitted(req)
  BY BoundaryIsAdmitted
<1> HIDE DEF req
<1>3. PICK n \in 0..StructuralUpperBound(req) : o \in GoodPaths(req, n)
  BY <1>2, AnchoredPathsAreGood DEF req
<1>4. n \in 0..max
  <2>1. StructuralUpperBound(req) \in Nat /\ StructuralUpperBound(req) <= max
    BY <1>1, <1>2, BoundIsNat
  <2>2. max \in Nat
    BY DEF IsBoundary
  <2> QED
    BY <1>3, <2>1, <2>2
<1>5. o \in GoodPaths(SearchRequest(j, prefix, right, unavailable, exempt, max), n)
  BY <1>3 DEF req
<1> QED
  BY <1>4, <1>5, GoodPathIsOption

\* What the final decision about one bridge asks.
LEMMA DecisionHolds ==
  ASSUME NEW tracks, NEW w, NEW route \in Seq(Nat), NEW x \in 1..Len(route),
         \A y \in 1..Len(route) : y # x =>
           /\ route[y] # route[x]
           /\ ArtistAndAlbumApart(tracks, w, route[x], route[y], Gap(x, y))
  PROVE  /\ Cardinality({i \in DOMAIN route : route[i] = route[x]}) = 1
         /\ RepeatWindowsSafeAt(route, tracks, w, Position(route, route[x]))
<1>1. DOMAIN route = 1..Len(route) /\ Len(route) \in Nat
  OBVIOUS
<1>2. {i \in DOMAIN route : route[i] = route[x]} = {x}
  BY <1>1
<1>3. Position(route, route[x]) = x
  <2>1. \A k \in 1..(x - 1) : k \in 1..Len(route) /\ k # x
    BY <1>1
  <2> QED
    BY <2>1, PositionIsFirst
<1>4. RepeatWindowsSafeAt(route, tracks, w, x)
  BY <1>1 DEF RepeatWindowsSafeAt
<1> QED
  BY <1>2, <1>3, <1>4, FS_Singleton

LEMMA ApartIsSymmetric ==
  ASSUME NEW tracks, NEW w, NEW a, NEW b, NEW d, PairSafe(tracks, w, a, b, d)
  PROVE  /\ ArtistAndAlbumApart(tracks, w, a, b, d)
         /\ ArtistAndAlbumApart(tracks, w, b, a, d)
BY PairSafeIsSymmetric DEF PairSafe

\* The searches' own routes: every bridge is in them once and is apart.
LEMMA BoundaryIsFinal ==
  ASSUME NEW j, IsJob(j), NEW prefix, NEW right, NEW unavailable, NEW exempt, NEW max,
         IsBoundary(j, prefix, right, unavailable, exempt, max),
         NEW o, IsBoundaryOption(j, prefix, right, unavailable, exempt, max, o)
  PROVE  FinalDecisionsHold(j, o.route, Elements(o.intermediates))
<1> DEFINE q == o.intermediates
           n == Len(q)
           h == Len(j.history)
           lp == Len(prefix)
           m == h + lp
           route == o.route
           before == j.history \o prefix
           R == before \o q \o <<right>>
<1>1. /\ prefix \in Seq(Nat) /\ j.history \in Seq(Nat) /\ right \in Nat
      /\ Elements(prefix) \subseteq Elements(unavailable) /\ right \in Elements(unavailable)
      /\ exempt \in 0..m /\ h \in Nat /\ lp \in Nat
  <2>1. /\ prefix \in Seq(Nat) /\ j.history \in Seq(Nat) /\ right \in Nat
        /\ Elements(prefix) \subseteq Elements(unavailable) /\ right \in Elements(unavailable)
        /\ exempt \in 0..m
    BY DEF IsBoundary, IsJob
  <2> QED
    BY <2>1
<1>2. /\ n \in Nat /\ q \in Seq(Nat)
      /\ \A i \in 1..n : q[i] \in j.eligible \ Elements(unavailable)
      /\ \A i, k \in 1..n : q[i] = q[k] => i = k
      /\ route = prefix \o q \o <<right>>
      /\ \A y \in (m + 1)..(m + n + 1) : \A x \in 1..(y - 1) :
           (y = m + n + 1 /\ x <= exempt) \/ PairSafe(j.tracks, j.w, R[x], R[y], y - x)
  <2>1. max \in Nat
    BY DEF IsBoundary
  <2>2. n \in 0..max /\ q \in [1..n -> Nat]
    BY DEF IsBoundaryOption
  <2>3. /\ \A i \in 1..n : q[i] \in j.eligible \ Elements(unavailable)
        /\ \A i, k \in 1..n : q[i] = q[k] => i = k
        /\ route = prefix \o q \o <<right>>
    BY DEF IsBoundaryOption
  <2>4. \A y \in (m + 1)..(m + n + 1) : \A x \in 1..(y - 1) :
           (y = m + n + 1 /\ x <= exempt) \/ PairSafe(j.tracks, j.w, R[x], R[y], y - x)
    BY DEF IsBoundaryOption
  <2>5. n \in Nat /\ q \in Seq(Nat)
    <3> HIDE DEF q
    <3> QED
      BY <2>1, <2>2
  <2> QED
    BY <2>3, <2>4, <2>5
<1>3. /\ before \in Seq(Nat) /\ Len(before) = m
      /\ \A i \in 1..lp : before[h + i] = prefix[i]
  BY <1>1, Joined
<1> HIDE DEF q, before, route
<1>4. /\ route \in Seq(Nat) /\ Len(route) = lp + n + 1
      /\ \A i \in 1..lp : route[i] = prefix[i]
      /\ \A i \in 1..n : route[lp + i] = q[i]
      /\ route[lp + n + 1] = right
  <2>1. prefix \in Seq(Nat) /\ q \in Seq(Nat) /\ right \in Nat
    BY <1>1, <1>2
  <2>2. route = prefix \o q \o <<right>>
    BY <1>2
  <2> QED
    BY <2>1, <2>2, ThreeParts
<1>5. /\ Len(R) = m + n + 1
      /\ \A i \in 1..m : R[i] = before[i]
      /\ \A i \in 1..n : R[m + i] = q[i]
      /\ R[m + n + 1] = right
  <2>0. R = before \o q \o <<right>> /\ before \in Seq(Nat) /\ q \in Seq(Nat) /\ right \in Nat
    BY <1>1, <1>2, <1>3
  <2> HIDE DEF R, m
  <2>1. /\ Len(R) = Len(before) + Len(q) + 1
        /\ \A i \in 1..Len(before) : R[i] = before[i]
        /\ \A i \in 1..Len(q) : R[Len(before) + i] = q[i]
        /\ R[Len(before) + Len(q) + 1] = right
    BY <2>0, ThreeParts
  <2>2. Len(before) = m /\ Len(q) = n
    BY <1>3
  <2> HIDE DEF n
  <2> QED
    BY <2>1, <2>2
<1> HIDE DEF n, h, lp, R
<1>10. h \in Nat /\ lp \in Nat /\ n \in Nat /\ m = h + lp /\ exempt \in 0..m
  BY <1>1, <1>2
<1>6. ASSUME NEW y \in 1..(lp + n + 1)
      PROVE  /\ R[h + y] = route[y]
             /\ y \in 1..lp => route[y] \in Elements(unavailable)
             /\ y = lp + n + 1 => route[y] \in Elements(unavailable)
             /\ y \in (lp + 1)..(lp + n) => y - lp \in 1..n /\ route[y] = q[y - lp]
  <2>0. y \in 1..lp \/ y = lp + n + 1 \/ y \in (lp + 1)..(lp + n)
    BY <1>10
  <2>1. CASE y \in 1..lp
    <3>0. y # lp + n + 1 /\ ~(y \in (lp + 1)..(lp + n))
      BY <1>10, <2>1
    <3>1. h + y \in 1..m
      BY <1>10, <2>1
    <3>2. R[h + y] = route[y] /\ route[y] = prefix[y]
      BY <1>3, <1>4, <1>5, <2>1, <3>1
    <3>3. prefix[y] \in Elements(prefix)
      BY <1>1, <2>1 DEF Elements, lp
    <3> QED
      BY <1>1, <2>1, <3>0, <3>2, <3>3
  <2>2. CASE y = lp + n + 1
    <3>1. h + y = m + n + 1 /\ ~(y \in 1..lp) /\ ~(y \in (lp + 1)..(lp + n))
      BY <1>10, <2>2
    <3> QED
      BY <1>1, <1>4, <1>5, <2>2, <3>1
  <2>3. CASE y \in (lp + 1)..(lp + n)
    <3>1. y - lp \in 1..n /\ y = lp + (y - lp) /\ h + y = m + (y - lp)
          /\ y \notin 1..lp /\ y # lp + n + 1
      BY <1>10, <2>3
    <3> QED
      BY <1>4, <1>5, <3>1
  <2> QED
    BY <2>0, <2>1, <2>2, <2>3
<1>7. ASSUME NEW i \in 1..n
      PROVE  /\ lp + i \in 1..Len(route) /\ route[lp + i] = q[i]
             /\ \A y \in 1..Len(route) : y # lp + i =>
                  /\ route[y] # route[lp + i]
                  /\ ArtistAndAlbumApart(j.tracks, j.w, route[lp + i], route[y], Gap(lp + i, y))
  <2> DEFINE x == lp + i
  <2>1. x \in 1..(lp + n + 1) /\ x \in (lp + 1)..(lp + n) /\ x - lp = i
    BY <1>10
  <2>2. route[x] = q[i] /\ q[i] \notin Elements(unavailable)
    BY <1>2, <1>4
  <2> HIDE DEF x
  <2>3. ASSUME NEW y \in 1..(lp + n + 1), y # x
        PROVE  /\ route[y] # route[x]
               /\ ArtistAndAlbumApart(j.tracks, j.w, route[x], route[y], Gap(x, y))
    <3>1. route[y] # route[x]
      <4>1. y \in 1..lp \/ y = lp + n + 1 \/ y \in (lp + 1)..(lp + n)
        BY <1>10
      <4>2. CASE y \in (lp + 1)..(lp + n)
        <5>1. y - lp \in 1..n /\ route[y] = q[y - lp]
          BY <1>6, <4>2
        <5>2. y - lp # i
          BY <1>10, <2>1, <2>3
        <5> QED
          BY <1>2, <2>2, <5>1, <5>2
      <4> QED
        BY <1>6, <2>2, <4>1, <4>2
    <3>2. CASE y < x
      <4>1. /\ h + x \in (m + 1)..(m + n + 1) /\ h + y \in 1..((h + x) - 1)
            /\ h + x # m + n + 1 /\ (h + x) - (h + y) = x - y /\ Gap(x, y) = x - y
        BY <1>10, <2>1, <3>2 DEF Gap
      <4>2. PairSafe(j.tracks, j.w, R[h + y], R[h + x], (h + x) - (h + y))
        BY <1>2, <4>1
      <4>3. PairSafe(j.tracks, j.w, route[y], route[x], Gap(x, y))
        BY <1>6, <2>1, <4>1, <4>2
      <4> QED
        BY <3>1, <4>3, ApartIsSymmetric
    <3>3. CASE x < y
      <4>1. /\ h + y \in (m + 1)..(m + n + 1) /\ h + x \in 1..((h + y) - 1)
            /\ ~(h + x <= exempt) /\ (h + y) - (h + x) = y - x /\ Gap(x, y) = y - x
        BY <1>10, <2>1, <3>3 DEF Gap
      <4>2. PairSafe(j.tracks, j.w, R[h + x], R[h + y], (h + y) - (h + x))
        BY <1>2, <4>1
      <4>3. PairSafe(j.tracks, j.w, route[x], route[y], Gap(x, y))
        BY <1>6, <2>1, <4>1, <4>2
      <4> QED
        BY <3>1, <4>3, ApartIsSymmetric
    <3>4. y < x \/ x < y
      BY <1>10, <2>1, <2>3
    <3> QED
      BY <3>2, <3>3, <3>4
  <2> QED
    BY <1>4, <2>1, <2>2, <2>3 DEF x
<1>8. ASSUME NEW c \in Elements(q) PROVE \E i \in 1..n : c = q[i]
  BY <1>2 DEF Elements, n
<1>9. ASSUME NEW i \in 1..n
      PROVE  /\ Cardinality({k \in DOMAIN route : route[k] = q[i]}) = 1
             /\ RepeatWindowsSafeAt(route, j.tracks, j.w, Position(route, q[i]))
  <2> DEFINE x == lp + i
  <2>1. /\ x \in 1..Len(route) /\ route[x] = q[i]
        /\ \A y \in 1..Len(route) : y # x =>
             /\ route[y] # route[x]
             /\ ArtistAndAlbumApart(j.tracks, j.w, route[x], route[y], Gap(x, y))
    BY <1>7
  <2> HIDE DEF x
  <2>2. /\ Cardinality({k \in DOMAIN route : route[k] = route[x]}) = 1
        /\ RepeatWindowsSafeAt(route, j.tracks, j.w, Position(route, route[x]))
    BY <1>4, <2>1, DecisionHolds
  <2> QED
    BY <2>1, <2>2
<1> QED
  BY <1>8, <1>9 DEF FinalDecisionsHold, q, route

\* The first members of a sequence.
LEMMA Beginning ==
  ASSUME NEW s \in Seq(Nat), NEW k \in Nat, k <= Len(s)
  PROVE  /\ SubSeq(s, 1, k) \in Seq(Nat) /\ Len(SubSeq(s, 1, k)) = k
         /\ \A i \in 1..k : SubSeq(s, 1, k)[i] = s[i]
OBVIOUS

\* The members of a sequence are those at its positions.
LEMMA MembersAre ==
  ASSUME NEW s \in Seq(Nat)
  PROVE  /\ DOMAIN s = 1..Len(s) /\ Len(s) \in Nat
         /\ \A x : x \in Elements(s) <=> \E i \in 1..Len(s) : x = s[i]
         /\ \A i \in 1..Len(s) : s[i] \in Elements(s) /\ s[i] \in Nat
BY DEF Elements

LEMMA OutwardIsBoundary ==
  ASSUME NEW j, IsJob(j), Shape(j), NEW max \in Nat
  PROVE  IsBoundary(j, SubSeq(j.source, 1, StartPosition(j)), Head(Block(j)), j.source, 0, max)
<1> DEFINE s == j.source
           p == StartPosition(j)
           a == SubSeq(s, 1, p)
           B == Block(j)
<1>1. /\ s \in Seq(Nat) /\ Len(s) \in Nat /\ p \in Nat /\ p >= 1 /\ p + Len(B) <= Len(s)
      /\ B \in Seq(Nat) /\ Len(B) \in Nat /\ Len(B) >= 1 /\ p <= Len(s)
      /\ j.history \in Seq(Nat)
  BY ShapeParts
<1>2. a \in Seq(Nat) /\ Len(a) = p /\ \A i \in 1..p : a[i] = s[i]
  BY <1>1, Beginning
<1>3. /\ \A i \in 1..Len(B) : B[i] = s[p + i]
      /\ \A k \in p..Len(s) : \A i \in 1..(k - 1) : s[i] # s[k]
  BY DEF Shape
<1>4. Head(B) = B[1]
  BY <1>1
<1>5. Elements(s) \subseteq DOMAIN j.tracks
  BY DEF IsJob
<1> HIDE DEF s, p, a, B
<1>6. p + 1 \in p..Len(s) /\ p \in 1..((p + 1) - 1) /\ 1 \in 1..Len(B) /\ p + 1 \in 1..Len(s)
  BY <1>1
<1>7. B[1] = s[p + 1] /\ s[p] # s[p + 1] /\ a[p] = s[p]
  BY <1>1, <1>2, <1>3, <1>6
<1>8. Elements(a) \subseteq Elements(s)
  <2>1. \A i \in 1..p : i \in 1..Len(s)
    BY <1>1
  <2>2. \A i \in 1..p : s[i] \in Elements(s)
    BY <1>1, <2>1, MembersAre
  <2> QED
    BY <1>2, <2>2, MembersAre
<1>9. s[p + 1] \in Elements(s) /\ s[p + 1] \in Nat
  BY <1>1, <1>6, MembersAre
<1>10. a # <<>> /\ 0 \in 0..(Len(j.history) + Len(a))
  BY <1>1, <1>2
<1> QED
  BY <1>1, <1>2, <1>4, <1>5, <1>7, <1>8, <1>9, <1>10 DEF IsBoundary, s, p, a, B

IsOutward(j, max, o) ==
  IsBoundaryOption(j, SubSeq(j.source, 1, StartPosition(j)), Head(Block(j)), j.source, 0, max, o)

LEMMA OutwardOptions ==
  ASSUME NEW j, IsJob(j), Shape(j), NEW max \in Nat, NEW o \in Outward(j, max)
  PROVE  /\ IsOutward(j, max, o)
         /\ FinalDecisionsHold(j, o.route, Elements(o.intermediates))
<1>1. IsOutward(j, max, o)
  BY OutwardIsBoundary, BoundaryOptions DEF Outward, IsOutward
<1> QED
  BY <1>1, OutwardIsBoundary, BoundaryIsFinal DEF IsOutward

\* The way out and the whole block.
BlockReached(j, max, o) ==
  LET q == o.intermediates
      k == Len(q)
      p == StartPosition(j)
      x == WithBlock(j, o) IN
  /\ k \in 0..max /\ q \in [1..k -> Nat] /\ q \in Seq(Nat)
  /\ \A i \in 1..k : q[i] \in j.eligible \ Elements(j.source)
  /\ \A i, l \in 1..k : q[i] = q[l] => i = l
  /\ x \in Seq(Nat) /\ Len(x) = p + k + Len(Block(j))
  /\ \A i \in 1..p : x[i] = j.source[i]
  /\ \A i \in 1..k : x[p + i] = q[i]
  /\ \A i \in 1..Len(Block(j)) : x[p + k + i] = Block(j)[i]
  /\ o.route \in Seq(Nat) /\ Len(o.route) = p + k + 1
  /\ \A i \in 1..k : q[i] \in Elements(o.route)
  /\ Elements(o.route) \subseteq Elements(x)

LEMMA WithBlockIs ==
  ASSUME NEW j, IsJob(j), Shape(j), NEW max \in Nat, NEW o, IsOutward(j, max, o)
  PROVE  BlockReached(j, max, o)
<1> DEFINE q == o.intermediates
           k == Len(q)
           p == StartPosition(j)
           B == Block(j)
           b == Len(B)
           a == SubSeq(j.source, 1, p)
           route == o.route
           x == WithBlock(j, o)
<1>1. /\ j.source \in Seq(Nat) /\ p \in Nat /\ p >= 1 /\ B \in Seq(Nat) /\ b \in Nat /\ b >= 1
      /\ p <= Len(j.source)
  BY ShapeParts
<1>2. a \in Seq(Nat) /\ Len(a) = p /\ \A i \in 1..p : a[i] = j.source[i]
  BY <1>1, Beginning
<1>3. /\ k \in 0..max /\ q \in [1..k -> Nat]
      /\ \A i \in 1..k : q[i] \in j.eligible \ Elements(j.source)
      /\ \A i, l \in 1..k : q[i] = q[l] => i = l
      /\ route = a \o q \o <<Head(B)>>
  BY DEF IsOutward, IsBoundaryOption
<1>4. /\ Head(B) = B[1] /\ B[1] \in Nat
      /\ Tail(B) \in Seq(Nat) /\ Len(Tail(B)) = b - 1
      /\ \A i \in 1..(b - 1) : Tail(B)[i] = B[i + 1]
  <2>1. \A s \in Seq(Nat) : s # <<>> =>
          /\ Head(s) = s[1] /\ s[1] \in Nat
          /\ Tail(s) \in Seq(Nat) /\ Len(Tail(s)) = Len(s) - 1
          /\ \A i \in 1..(Len(s) - 1) : Tail(s)[i] = s[i + 1]
    OBVIOUS
  <2>2. B # <<>>
    BY <1>1
  <2> QED
    BY <1>1, <2>1, <2>2
<1>5. x = route \o Tail(B)
  BY DEF WithBlock
<1> HIDE DEF q, p, B, a, route, x
<1>6. q \in Seq(Nat) /\ k \in Nat
  <2>1. k \in Nat /\ q \in [1..k -> Nat]
    BY <1>3
  <2> HIDE DEF k
  <2> QED
    BY <2>1
<1>7. /\ route \in Seq(Nat) /\ Len(route) = Len(a) + Len(q) + 1
      /\ \A i \in 1..Len(a) : route[i] = a[i]
      /\ \A i \in 1..Len(q) : route[Len(a) + i] = q[i]
      /\ route[Len(a) + Len(q) + 1] = B[1]
  <2>1. /\ a \in Seq(Nat) /\ q \in Seq(Nat) /\ B[1] \in Nat
        /\ route = a \o q \o <<B[1]>>
    BY <1>2, <1>3, <1>4, <1>6
  <2> QED
    BY <2>1, ThreeParts
<1>8. /\ x \in Seq(Nat) /\ Len(x) = Len(route) + Len(Tail(B))
      /\ \A i \in 1..Len(route) : x[i] = route[i]
      /\ \A i \in 1..Len(Tail(B)) : x[Len(route) + i] = Tail(B)[i]
  BY <1>4, <1>5, <1>7, Joined
<1>9. Len(a) = p /\ Len(q) = k /\ Len(route) = p + k + 1 /\ Len(Tail(B)) = b - 1
  BY <1>2, <1>4, <1>7
<1> HIDE DEF k, b
<1>10. Len(x) = p + k + b
  BY <1>1, <1>6, <1>8, <1>9
<1>11. ASSUME NEW i \in 1..p PROVE x[i] = j.source[i]
  <2>1. i \in 1..Len(route)
    BY <1>1, <1>6, <1>9
  <2> QED
    BY <1>2, <1>7, <1>8, <1>9, <2>1
<1>12. ASSUME NEW i \in 1..k PROVE x[p + i] = q[i] /\ q[i] \in Elements(route)
  <2>1. p + i \in 1..Len(route)
    BY <1>1, <1>6, <1>9
  <2>2. route[p + i] = q[i]
    BY <1>7, <1>9
  <2>3. q[i] \in Elements(route)
    BY <1>7, <2>1, <2>2, MembersAre
  <2> QED
    BY <1>8, <2>1, <2>2, <2>3
<1>13. ASSUME NEW i \in 1..b PROVE x[p + k + i] = B[i]
  <2>1. CASE i = 1
    <3>1. p + k + 1 \in 1..Len(route)
      BY <1>1, <1>6, <1>9
    <3> QED
      BY <1>7, <1>8, <1>9, <2>1, <3>1
  <2>2. CASE i # 1
    <3>1. i - 1 \in 1..(b - 1) /\ (p + k + 1) + (i - 1) = p + k + i /\ (i - 1) + 1 = i
      BY <1>1, <1>6, <2>2
    <3>2. x[(p + k + 1) + (i - 1)] = Tail(B)[i - 1] /\ Tail(B)[i - 1] = B[(i - 1) + 1]
      BY <1>4, <1>8, <1>9, <3>1
    <3> QED
      BY <3>1, <3>2
  <2> QED
    BY <2>1, <2>2
<1>14. Elements(route) \subseteq Elements(x)
  <2>0. Len(route) <= Len(x) /\ Len(route) \in Nat /\ Len(x) \in Nat
    BY <1>1, <1>6, <1>9, <1>10
  <2>1. \A i \in 1..Len(route) : i \in 1..Len(x) /\ route[i] = x[i]
    BY <1>8, <2>0
  <2>2. route \in Seq(Nat) /\ x \in Seq(Nat)
    BY <1>7, <1>8
  <2> QED
    BY <2>1, <2>2, MembersAre
<1>15. route \in Seq(Nat) /\ x \in Seq(Nat) /\ Len(route) = p + k + 1
  BY <1>7, <1>8, <1>9
<1>16. /\ k \in 0..max /\ q \in [1..k -> Nat]
       /\ \A i \in 1..k : q[i] \in j.eligible \ Elements(j.source)
       /\ \A i, l \in 1..k : q[i] = q[l] => i = l
  BY <1>3 DEF k
<1> QED
  BY <1>6, <1>10, <1>11, <1>12, <1>13, <1>14, <1>15, <1>16
  DEF BlockReached, q, k, p, B, b, route, x

LEMMA JoinedMembers ==
  ASSUME NEW a \in Seq(Nat), NEW b \in Seq(Nat)
  PROVE  a \o b \in Seq(Nat) /\ Elements(a \o b) = Elements(a) \cup Elements(b)
<1> DEFINE c == a \o b
           la == Len(a)
           lb == Len(b)
<1>1. /\ c \in Seq(Nat) /\ la \in Nat /\ lb \in Nat /\ Len(c) = la + lb
      /\ \A i \in 1..la : c[i] = a[i]
      /\ \A i \in 1..lb : c[la + i] = b[i]
  BY Joined
<1> HIDE DEF c
<1>2. /\ \A x : x \in Elements(c) <=> \E i \in 1..Len(c) : x = c[i]
      /\ \A x : x \in Elements(a) <=> \E i \in 1..la : x = a[i]
      /\ \A x : x \in Elements(b) <=> \E i \in 1..lb : x = b[i]
  BY <1>1, MembersAre
<1> HIDE DEF la, lb
<1>3. ASSUME NEW x \in Elements(c) PROVE x \in Elements(a) \cup Elements(b)
  <2>1. PICK i \in 1..(la + lb) : x = c[i]
    BY <1>1, <1>2
  <2>2. i \in 1..la \/ (i - la \in 1..lb /\ i = la + (i - la))
    BY <1>1
  <2> QED
    BY <1>1, <1>2, <2>1, <2>2
<1>4. ASSUME NEW x \in Elements(a) PROVE x \in Elements(c)
  <2>1. PICK i \in 1..la : x = a[i]
    BY <1>2
  <2>2. i \in 1..(la + lb)
    BY <1>1
  <2> QED
    BY <1>1, <1>2, <2>1, <2>2
<1>5. ASSUME NEW x \in Elements(b) PROVE x \in Elements(c)
  <2>1. PICK i \in 1..lb : x = b[i]
    BY <1>2
  <2>2. la + i \in 1..(la + lb)
    BY <1>1
  <2> QED
    BY <1>1, <1>2, <2>1, <2>2
<1>6. c \in Seq(Nat) /\ Elements(c) = Elements(a) \cup Elements(b)
  BY <1>1, <1>3, <1>4, <1>5
<1> QED
  BY <1>6 DEF c

LEMMA ReturnIsBoundary ==
  ASSUME NEW j, IsJob(j), Shape(j), Rejoins(j), NEW max \in Nat, NEW o, IsOutward(j, max, o)
  PROVE  IsBoundary(j, WithBlock(j, o), j.rejoin, j.source \o o.route,
                    Len(j.history) + StartPosition(j),
                    SaturatingSub(max, Len(o.intermediates)))
<1> DEFINE s == j.source
           n == Len(s)
           p == StartPosition(j)
           B == Block(j)
           b == Len(B)
           q == o.intermediates
           k == Len(q)
           x == WithBlock(j, o)
           route == o.route
           U == s \o route
           h == Len(j.history)
<1>1. BlockReached(j, max, o)
  BY WithBlockIs
<1>2. /\ s \in Seq(Nat) /\ n \in Nat /\ p \in Nat /\ p >= 1 /\ b \in Nat /\ b >= 1
      /\ n = p + b + 1 /\ j.history \in Seq(Nat)
  BY ShapeParts
<1>3. /\ \A i \in 1..b : B[i] = s[p + i]
      /\ s[n] = j.rejoin
      /\ \A y \in p..n : \A i \in 1..(y - 1) : s[i] # s[y]
  BY DEF Shape
<1>4. k \in 0..max /\ k \in Nat /\ h \in Nat
  <2>1. k \in 0..max
    BY <1>1 DEF BlockReached
  <2> HIDE DEF k
  <2> QED
    BY <1>2, <2>1
<1>5. /\ \A i \in 1..k : q[i] \in j.eligible /\ q[i] \in Elements(route)
      /\ x \in Seq(Nat) /\ Len(x) = p + k + b
      /\ \A i \in 1..p : x[i] = s[i]
      /\ \A i \in 1..k : x[p + i] = q[i]
      /\ \A i \in 1..b : x[p + k + i] = B[i]
      /\ route \in Seq(Nat) /\ Elements(route) \subseteq Elements(x)
  BY <1>1 DEF BlockReached
<1>6. Elements(s) \subseteq DOMAIN j.tracks /\ j.eligible \subseteq DOMAIN j.tracks
      /\ j.rejoin \in Nat
  BY DEF IsJob
<1> HIDE DEF s, n, p, B, b, q, k, x, route, h
<1>7. U \in Seq(Nat) /\ Elements(U) = Elements(s) \cup Elements(route)
  BY <1>2, <1>5, JoinedMembers
<1> HIDE DEF U
<1>8. \A i \in 1..n : s[i] \in Elements(s)
  BY <1>2, MembersAre DEF n
<1>9. ASSUME NEW i \in 1..(p + k + b)
      PROVE  x[i] \in Elements(U) /\ x[i] \in DOMAIN j.tracks
  <2>1. \/ i \in 1..p
        \/ i - p \in 1..k /\ i = p + (i - p)
        \/ i - (p + k) \in 1..b /\ i = p + k + (i - (p + k))
    BY <1>2, <1>4
  <2>2. CASE i \in 1..p
    <3>1. i \in 1..n
      BY <1>2, <2>2
    <3> QED
      BY <1>5, <1>6, <1>7, <1>8, <2>2, <3>1
  <2>3. CASE i - p \in 1..k /\ i = p + (i - p)
    BY <1>5, <1>6, <1>7, <2>3
  <2>4. CASE i - (p + k) \in 1..b /\ i = p + k + (i - (p + k))
    <3>1. p + (i - (p + k)) \in 1..n
      BY <1>2, <1>4, <2>4
    <3>2. x[i] = s[p + (i - (p + k))]
      BY <1>3, <1>5, <2>4
    <3> QED
      BY <1>6, <1>7, <1>8, <3>1, <3>2
  <2> QED
    BY <2>1, <2>2, <2>3, <2>4
<1>10. Elements(x) \subseteq Elements(U) /\ Elements(x) \subseteq DOMAIN j.tracks
  <2>1. x \in Seq(Nat) /\ \A i \in 1..Len(x) : x[i] \in Elements(U) /\ x[i] \in DOMAIN j.tracks
    BY <1>5, <1>9
  <2> QED
    BY <2>1, MembersAre
<1>11. Elements(U) \subseteq DOMAIN j.tracks
  BY <1>5, <1>6, <1>7, <1>10
<1>12. j.rejoin \in Elements(U)
  <2>1. n \in 1..n
    BY <1>2
  <2> QED
    BY <1>3, <1>7, <1>8, <2>1
<1>13. j.rejoin # x[Len(x)]
  <2>1. /\ b \in 1..b /\ n \in p..n /\ p + b \in 1..(n - 1)
    BY <1>2
  <2>2. x[p + k + b] = B[b] /\ B[b] = s[p + b] /\ s[p + b] # s[n]
    BY <1>3, <1>5, <2>1
  <2> QED
    BY <1>3, <1>5, <2>2
<1>14. h + p \in 0..(h + Len(x)) /\ x # <<>>
  BY <1>2, <1>4, <1>5
<1>15. SaturatingSub(max, k) \in Nat
  BY <1>4 DEF SaturatingSub
<1>16. Elements(s) \subseteq Elements(U)
  BY <1>7
<1> QED
  BY <1>5, <1>6, <1>7, <1>10, <1>11, <1>12, <1>13, <1>14, <1>15, <1>16
  DEF IsBoundary, s, p, x, U, h, q, k, route

IsReturn(j, max, o, r) ==
  IsBoundaryOption(j, WithBlock(j, o), j.rejoin, j.source \o o.route,
                   Len(j.history) + StartPosition(j),
                   SaturatingSub(max, Len(o.intermediates)), r)

LEMMA ReturnOptions ==
  ASSUME NEW j, IsJob(j), Shape(j), Rejoins(j), NEW max \in Nat, NEW o, IsOutward(j, max, o),
         NEW r \in Returning(j, max, o)
  PROVE  /\ IsReturn(j, max, o, r)
         /\ FinalDecisionsHold(j, r.route, Elements(r.intermediates))
<1>1. IsReturn(j, max, o, r)
  BY ReturnIsBoundary, BoundaryOptions DEF Returning, IsReturn
<1> QED
  BY <1>1, ReturnIsBoundary, BoundaryIsFinal DEF IsReturn

-----------------------------------------------------------------------------
(***************************************************************************)
(* Complete options are routes of the reference.                           *)
(***************************************************************************)
LEMMA GeneratedIsApart ==
  ASSUME NEW j, IsJob(j), NEW r \in Seq(Nat), GeneratedRepeatSafe(j, r)
  PROVE  GeneratedApart(j, r)
<1> DEFINE whole == j.history \o r
           h == Len(j.history)
           l == Len(whole)
           New(i) == i > h /\ whole[i] \notin Elements(j.source)
<1>1. whole \in Seq(Nat) /\ l \in Nat /\ h \in Nat /\ DOMAIN whole = 1..l
  BY WholeIs
<1>2. \A i \in (h + 1)..l : whole[i] \notin Elements(j.source) =>
        \A y \in DOMAIN whole \ {i} :
          PairSafe(j.tracks, j.w, whole[y], whole[i], Gap(i, y))
  BY PositionIsSafe DEF GeneratedRepeatSafe
<1> HIDE DEF whole, l, h
<1>3. ASSUME NEW y \in 1..l, NEW x \in 1..(y - 1), New(x) \/ New(y)
      PROVE  PairSafe(j.tracks, j.w, whole[x], whole[y], y - x)
  <2>1. x \in 1..l /\ x # y /\ Gap(y, x) = y - x /\ Gap(x, y) = y - x
    BY <1>1 DEF Gap
  <2>2. CASE New(y)
    <3>1. y \in (h + 1)..l /\ x \in DOMAIN whole \ {y}
      BY <1>1, <2>1, <2>2
    <3> QED
      BY <1>2, <2>1, <2>2, <3>1
  <2>3. CASE New(x)
    <3>1. x \in (h + 1)..l /\ y \in DOMAIN whole \ {x}
      BY <1>1, <2>1, <2>3
    <3>2. PairSafe(j.tracks, j.w, whole[y], whole[x], y - x)
      BY <1>2, <2>1, <2>3, <3>1
    <3> QED
      BY <3>2, PairSafeIsSymmetric
  <2> QED
    BY <1>3, <2>2, <2>3
<1> QED
  BY <1>1, <1>3 DEF GeneratedApart, PairsApart, whole, h

\* The pairs of a rejoin track that the search of the way back checks.
RejoinApart(j, r) ==
  LET h == Len(j.history)
      whole == j.history \o r IN
  Rejoins(j) => \A k \in (h + StartPosition(j) + 1)..((h + Len(r)) - 1) :
    PairSafe(j.tracks, j.w, whole[k], j.rejoin, (h + Len(r)) - k)

\* What the check of the block against its context comes to.
LEMMA ContextIsApart ==
  ASSUME NEW j, IsJob(j), Shape(j), NEW n, NEW g, NEW out, IsSpending(j, g, out, n),
         NEW r, Laid(j, r, g, out, n)
  PROVE  LET last == Len(j.history) + StartPosition(j) + out
             whole == j.history \o r IN
         BlockContextSafe(j, r) <=>
           \A i \in 1..Len(Block(j)) : \A k \in 1..last :
             PairSafe(j.tracks, j.w, whole[k], Block(j)[i], (last + i) - k)
<1> DEFINE h == Len(j.history)
           p == StartPosition(j)
           B == Block(j)
           b == Len(B)
           whole == j.history \o r
           first == SubSeq(r, 1, p + out)
           before == j.history \o first
<1>1. /\ p \in Nat /\ p >= 1 /\ b \in Nat /\ b >= 1 /\ DOMAIN B = 1..b
      /\ p + b <= Len(j.source) /\ Len(j.source) \in Nat /\ j.history \in Seq(Nat)
  BY ShapeParts
<1>2. n \in Nat /\ out \in Nat /\ out <= n
  BY DEF IsSpending
<1>3. r \in Seq(Nat) /\ Len(r) = Len(j.source) + n
  BY DEF Laid
<1>4. /\ h \in Nat /\ \A i \in 1..h : whole[i] = j.history[i]
      /\ \A i \in 1..Len(r) : whole[h + i] = r[i]
  BY <1>3, WholeIs
<1>5. p + out \in Nat /\ p + out <= Len(r)
  <2> HIDE DEF p, b
  <2> QED
    BY <1>1, <1>2, <1>3
<1>6. first \in Seq(Nat) /\ Len(first) = p + out /\ \A i \in 1..(p + out) : first[i] = r[i]
  BY <1>3, <1>5, Beginning
<1>7. SubSeq(r, 1, Position(r, j.destination) - 1) = first
  <2>1. Position(r, j.destination) = p + out + 1
    BY DestinationStands
  <2>2. Position(r, j.destination) - 1 = p + out
    BY <1>1, <1>2, <2>1
  <2> QED
    BY <2>2
<1>8. BlockContextSafe(j, r) <=>
        \A y \in DOMAIN B, i \in DOMAIN before :
          PairSafe(j.tracks, j.w, before[i], B[y], Len(before) - i + y)
  BY <1>7 DEF BlockContextSafe
<1> HIDE DEF first
<1>9. /\ before \in Seq(Nat) /\ Len(before) = h + (p + out)
      /\ \A i \in 1..h : before[i] = j.history[i]
      /\ \A i \in 1..(p + out) : before[h + i] = first[i]
  <2>1. /\ before \in Seq(Nat) /\ Len(before) = h + Len(first)
        /\ \A i \in 1..h : before[i] = j.history[i]
        /\ \A i \in 1..Len(first) : before[h + i] = first[i]
    BY <1>1, <1>6, Joined
  <2> QED
    BY <1>6, <2>1
<1> HIDE DEF whole, before, h, p, b, B
<1>10. ASSUME NEW k \in 1..(h + p + out) PROVE before[k] = whole[k]
  <2>1. k \in 1..h \/ (k - h \in 1..(p + out) /\ k = h + (k - h) /\ k - h \in 1..Len(r))
    BY <1>1, <1>2, <1>4, <1>5
  <2>2. CASE k \in 1..h
    BY <1>4, <1>9, <2>2
  <2>3. CASE k - h \in 1..(p + out) /\ k = h + (k - h) /\ k - h \in 1..Len(r)
    <3>1. whole[k] = r[k - h]
      BY <1>4, <2>3
    <3>2. before[k] = first[k - h]
      BY <1>9, <2>3
    <3> QED
      BY <1>6, <2>3, <3>1, <3>2
  <2> QED
    BY <2>1, <2>2, <2>3
<1>11. DOMAIN before = 1..(h + p + out)
  <2>1. DOMAIN before = 1..Len(before) /\ Len(before) = h + p + out
    BY <1>1, <1>2, <1>4, <1>9
  <2> QED
    BY <2>1
<1>12. ASSUME NEW i \in 1..b, NEW k \in 1..(h + p + out)
       PROVE  PairSafe(j.tracks, j.w, before[k], B[i], Len(before) - k + i)
                <=> PairSafe(j.tracks, j.w, whole[k], B[i], (h + p + out + i) - k)
  <2>1. Len(before) - k + i = (h + p + out + i) - k
    BY <1>1, <1>2, <1>4, <1>9
  <2> QED
    BY <1>10, <2>1
<1>13. BlockContextSafe(j, r) <=>
         \A i \in 1..b : \A k \in 1..(h + p + out) :
           PairSafe(j.tracks, j.w, whole[k], B[i], (h + p + out + i) - k)
  BY <1>1, <1>8, <1>11, <1>12
<1> QED
  BY <1>13 DEF h, p, b, B, whole

LEMMA LaidIsGood ==
  ASSUME NEW j, IsJob(j), Shape(j), NEW n, NEW g, NEW out, IsSpending(j, g, out, n),
         NEW r, Laid(j, r, g, out, n),
         GeneratedRepeatSafe(j, r), BlockContextSafe(j, r), RejoinApart(j, r)
  PROVE  r \in GoodRoutes(j, n)
<1>1. AnchorsStandApart(j, r, out)
  BY ContextIsApart DEF AnchorsStandApart, RejoinApart
<1>2. r \in Seq(Nat)
  BY DEF Laid
<1>3. AnchorsApart(j, r) /\ GeneratedApart(j, r)
  BY <1>1, <1>2, AnchorPairs, GeneratedIsApart
<1>4. r = RouteOf(j, <<g, out>>) /\ <<g, out>> \in Spendings(j, n)
  BY LaidIsUnique, SpendingIsOne
<1> QED
  BY <1>3, <1>4 DEF GoodRoutes

\* A route that ends with its block.
LEMMA OpenRouteIsLaid ==
  ASSUME NEW j, IsJob(j), Shape(j), ~Rejoins(j), NEW max \in Nat, NEW o, IsOutward(j, max, o)
  PROVE  LET k == Len(o.intermediates) IN
         /\ k \in 0..max /\ IsSpending(j, o.intermediates, k, k)
         /\ Laid(j, WithBlock(j, o), o.intermediates, k, k)
<1> DEFINE q == o.intermediates
           k == Len(q)
           p == StartPosition(j)
           b == Len(Block(j))
           x == WithBlock(j, o)
<1>1. BlockReached(j, max, o)
  BY WithBlockIs
<1>2. /\ k \in 0..max /\ q \in [1..k -> Nat]
      /\ \A i \in 1..k : q[i] \in j.eligible \ Elements(j.source)
      /\ \A i, l \in 1..k : q[i] = q[l] => i = l
      /\ x \in Seq(Nat) /\ Len(x) = p + k + b
      /\ \A i \in 1..p : x[i] = j.source[i]
      /\ \A i \in 1..k : x[p + i] = q[i]
      /\ \A i \in 1..b : x[p + k + i] = Block(j)[i]
  BY <1>1 DEF BlockReached
<1>3. p \in Nat /\ b \in Nat /\ Len(j.source) = p + b
  BY ShapeParts
<1> HIDE DEF q, k, p, b, x
<1>4. k \in Nat /\ k \in 0..k /\ k - k = 0 /\ Len(x) = Len(j.source) + k
  BY <1>2, <1>3
<1>5. IsSpending(j, q, k, k)
  BY <1>2, <1>4 DEF IsSpending
<1>6. \A i \in 1..(k - k) : FALSE
  BY <1>4
<1>7. Laid(j, x, q, k, k)
  BY <1>2, <1>4, <1>6 DEF Laid, p, b
<1> QED
  BY <1>2, <1>5, <1>7 DEF q, k, x

\* A route that goes back to the rejoin track.
LEMMA RejoinedRouteIsLaid ==
  ASSUME NEW j, IsJob(j), Shape(j), Rejoins(j), NEW max \in Nat, NEW o, IsOutward(j, max, o),
         NEW r, IsReturn(j, max, o, r)
  PROVE  LET k == Len(o.intermediates)
             n == k + Len(r.intermediates)
             g == o.intermediates \o r.intermediates IN
         /\ n \in 0..max /\ IsSpending(j, g, k, n)
         /\ Laid(j, r.route, g, k, n) /\ RejoinApart(j, r.route)
<1> DEFINE q == o.intermediates
           k == Len(q)
           t == r.intermediates
           m == Len(t)
           n == k + m
           g == q \o t
           p == StartPosition(j)
           b == Len(Block(j))
           x == WithBlock(j, o)
           route == r.route
           h == Len(j.history)
           U == j.source \o o.route
<1>1. BlockReached(j, max, o)
  BY WithBlockIs
<1>2. /\ k \in 0..max /\ q \in Seq(Nat)
      /\ \A i \in 1..k : q[i] \in j.eligible \ Elements(j.source) /\ q[i] \in Elements(o.route)
      /\ \A i, l \in 1..k : q[i] = q[l] => i = l
      /\ x \in Seq(Nat) /\ Len(x) = p + k + b
      /\ \A i \in 1..p : x[i] = j.source[i]
      /\ \A i \in 1..k : x[p + i] = q[i]
      /\ \A i \in 1..b : x[p + k + i] = Block(j)[i]
      /\ o.route \in Seq(Nat)
  BY <1>1 DEF BlockReached
<1>3. /\ p \in Nat /\ p >= 1 /\ b \in Nat /\ Len(j.source) = p + b + 1
      /\ j.source \in Seq(Nat) /\ j.history \in Seq(Nat) /\ j.rejoin \in Nat
  BY ShapeParts DEF IsJob
<1>4. k \in Nat /\ SaturatingSub(max, k) \in Nat /\ SaturatingSub(max, k) = max - k
  <2> HIDE DEF k
  <2> QED
    BY <1>2 DEF SaturatingSub
<1>5. /\ m \in 0..SaturatingSub(max, k) /\ t \in [1..m -> Nat]
      /\ \A i \in 1..m : t[i] \in j.eligible \ Elements(U)
      /\ \A i, l \in 1..m : t[i] = t[l] => i = l
      /\ route = x \o t \o <<j.rejoin>>
      /\ \A y \in (h + Len(x) + 1)..(h + Len(x) + m + 1) : \A z \in 1..(y - 1) :
           (y = h + Len(x) + m + 1 /\ z <= h + p)
           \/ PairSafe(j.tracks, j.w, (j.history \o x \o t \o <<j.rejoin>>)[z],
                       (j.history \o x \o t \o <<j.rejoin>>)[y], y - z)
  BY DEF IsReturn, IsBoundaryOption
<1> DEFINE R == j.history \o x \o t \o <<j.rejoin>>
<1>6. m \in Nat /\ t \in Seq(Nat) /\ n \in 0..max /\ h \in Nat
  <2>1. m \in Nat /\ m <= max - k
    <3> HIDE DEF m, k
    <3> QED
      BY <1>2, <1>4, <1>5
  <2>2. t \in Seq(Nat)
    <3>1. t \in [1..m -> Nat]
      BY <1>5
    <3> HIDE DEF t, m
    <3> QED
      BY <2>1, <3>1
  <2>4. h \in Nat
    BY <1>3
  <2>3. n \in 0..max
    <3> HIDE DEF m, k
    <3> QED
      BY <1>2, <1>4, <2>1
  <2> QED
    BY <2>1, <2>2, <2>3, <2>4
<1>7. Elements(U) = Elements(j.source) \cup Elements(o.route)
  BY <1>2, <1>3, JoinedMembers
<1>8. /\ g \in Seq(Nat) /\ Len(g) = k + m
      /\ \A i \in 1..k : g[i] = q[i]
      /\ \A i \in 1..m : g[k + i] = t[i]
  BY <1>2, <1>6, Joined
<1>9. /\ route \in Seq(Nat) /\ Len(route) = Len(x) + m + 1
      /\ \A i \in 1..Len(x) : route[i] = x[i]
      /\ \A i \in 1..m : route[Len(x) + i] = t[i]
      /\ route[Len(x) + m + 1] = j.rejoin
  <2>1. x \in Seq(Nat) /\ t \in Seq(Nat) /\ j.rejoin \in Nat /\ route = x \o t \o <<j.rejoin>>
    BY <1>2, <1>3, <1>5, <1>6
  <2> HIDE DEF x, t, route
  <2> QED
    BY <2>1, ThreeParts
<1>10. R = j.history \o route
  <2> DEFINE u == j.history
             e == <<j.rejoin>>
             xt == x \o t
  <2>0. /\ u \in Seq(Nat) /\ x \in Seq(Nat) /\ t \in Seq(Nat) /\ e \in Seq(Nat)
        /\ xt \in Seq(Nat)
    BY <1>2, <1>3, <1>6, Joined
  <2>1. /\ (j.history \o x) \o t = j.history \o (x \o t)
        /\ (j.history \o (x \o t)) \o <<j.rejoin>> = j.history \o ((x \o t) \o <<j.rejoin>>)
    <3> HIDE DEF u, x, t, e
    <3>3. u \in Seq(Nat) /\ x \in Seq(Nat) /\ t \in Seq(Nat)
      BY <2>0
    <3>1. (u \o x) \o t = u \o (x \o t)
      BY <3>3, JoinedInTurn
    <3> HIDE DEF xt
    <3>4. u \in Seq(Nat) /\ xt \in Seq(Nat) /\ e \in Seq(Nat)
      BY <2>0
    <3>2. (u \o xt) \o e = u \o (xt \o e)
      BY <3>4, JoinedInTurn
    <3> QED
      BY <3>1, <3>2 DEF u, e, xt
  <2> QED
    BY <1>5, <2>1
<1> HIDE DEF q, k, t, m, g, p, b, x, route, h, U
<1>11. \A y \in (h + Len(x) + 1)..(h + Len(x) + m + 1) : \A z \in 1..(y - 1) :
         (y = h + Len(x) + m + 1 /\ z <= h + p)
         \/ PairSafe(j.tracks, j.w, R[z], R[y], y - z)
  BY <1>5
<1> HIDE DEF R
<1>12. k \in 0..n /\ n \in Nat /\ n - k = m /\ Len(route) = Len(j.source) + n
       /\ Len(j.source) + n = Len(x) + m + 1 /\ Len(x) = p + k + b
  BY <1>2, <1>3, <1>4, <1>6, <1>9
<1>13. ASSUME NEW i \in 1..n
       PROVE  \/ i \in 1..k /\ g[i] = q[i]
              \/ i - k \in 1..m /\ g[i] = t[i - k] /\ i = k + (i - k)
  <2>1. i \in 1..k \/ (i - k \in 1..m /\ i = k + (i - k))
    BY <1>4, <1>6
  <2> QED
    BY <1>8, <2>1
<1>14. IsSpending(j, g, k, n)
  <2>1. g \in [1..n -> Nat]
    BY <1>8
  <2>2. \A i \in 1..n : g[i] \in j.eligible \ Elements(j.source)
    <3>1. \A i \in 1..k : q[i] \in j.eligible \ Elements(j.source)
      BY <1>2
    <3>2. \A i \in 1..m : t[i] \in j.eligible \ Elements(j.source)
      BY <1>5, <1>7
    <3> QED
      BY <1>13, <3>1, <3>2
  <2>3. ASSUME NEW i \in 1..n, NEW l \in 1..n, g[i] = g[l] PROVE i = l
    <3>1. CASE i \in 1..k /\ g[i] = q[i] /\ l \in 1..k /\ g[l] = q[l]
      BY <1>2, <2>3, <3>1
    <3>2. CASE i - k \in 1..m /\ g[i] = t[i - k] /\ l - k \in 1..m /\ g[l] = t[l - k]
      <4>1. i - k = l - k
        BY <1>5, <2>3, <3>2
      <4> QED
        BY <1>4, <1>12, <4>1
    <3>3. \A y \in 1..k : \A z \in 1..m : q[y] # t[z]
      BY <1>2, <1>5, <1>7
    <3> QED
      BY <1>13, <2>3, <3>1, <3>2, <3>3
  <2> QED
    BY <1>12, <2>1, <2>2, <2>3 DEF IsSpending
<1>15. Laid(j, route, g, k, n)
  <2>1. \A i \in 1..p : i \in 1..Len(x)
    BY <1>3, <1>4, <1>12
  <2>2. \A i \in 1..k : p + i \in 1..Len(x)
    BY <1>3, <1>4, <1>12
  <2>3. \A i \in 1..b : p + k + i \in 1..Len(x)
    BY <1>3, <1>4, <1>12
  <2>4. \A i \in 1..p : route[i] = j.source[i]
    BY <1>2, <1>9, <2>1
  <2>5. \A i \in 1..k : route[p + i] = g[i]
    BY <1>2, <1>8, <1>9, <2>2
  <2>6. \A i \in 1..b : route[p + k + i] = Block(j)[i]
    BY <1>2, <1>9, <2>3
  <2>7. ASSUME NEW i \in 1..m PROVE route[p + k + b + i] = g[k + i]
    BY <1>8, <1>9, <1>12
  <2>8. route[Len(j.source) + n] = j.rejoin
    BY <1>9, <1>12
  <2> HIDE DEF n
  <2>9. \A i \in 1..(n - k) : route[p + k + b + i] = g[k + i]
    BY <1>12, <2>7
  <2> QED
    BY <1>9, <1>12, <2>4, <2>5, <2>6, <2>8, <2>9 DEF Laid, p, b
<1>16. RejoinApart(j, route)
  <2> DEFINE l == Len(route)
             whole == j.history \o route
  <2>1. h + l = h + Len(x) + m + 1 /\ l \in Nat /\ l >= p + 1 /\ Len(x) \in Nat /\ l \in 1..l
    BY <1>3, <1>4, <1>6, <1>9, <1>12
  <2>2. whole[h + l] = j.rejoin
    <3>1. \A i \in 1..l : whole[h + i] = route[i]
      BY <1>9, WholeIs DEF h
    <3> QED
      BY <1>9, <2>1, <3>1
  <2>3. ASSUME NEW z \in (h + p + 1)..((h + l) - 1)
        PROVE  PairSafe(j.tracks, j.w, whole[z], j.rejoin, (h + l) - z)
    <3>1. /\ h + l \in (h + Len(x) + 1)..(h + Len(x) + m + 1)
          /\ z \in 1..((h + l) - 1) /\ ~(z <= h + p)
      BY <1>3, <1>6, <2>1
    <3>2. PairSafe(j.tracks, j.w, R[z], R[h + l], (h + l) - z)
      BY <1>11, <3>1
    <3> QED
      BY <1>10, <2>2, <3>2
  <2> QED
    BY <2>3 DEF RejoinApart, h, p
<1> QED
  BY <1>6, <1>14, <1>15, <1>16 DEF q, k, t, m, g, route

LEMMA GoodRouteIsLaid ==
  ASSUME NEW j, IsJob(j), Shape(j), NEW n \in Nat, NEW r \in GoodRoutes(j, n)
  PROVE  \E s \in Spendings(j, n) :
           IsSpending(j, s[1], s[2], n) /\ Laid(j, r, s[1], s[2], n)
<1>1. PICK s \in Spendings(j, n) : r = RouteOf(j, s)
  BY DEF GoodRoutes
<1>2. IsSpending(j, s[1], s[2], n)
  BY SpendingsAre
<1>3. s = <<s[1], s[2]>>
  BY DEF Spendings
<1>4. Laid(j, r, s[1], s[2], n)
  BY <1>1, <1>2, <1>3, RouteIsLaid
<1> QED
  BY <1>2, <1>4

\* The members of a laid out route that are not generated are the source's.
LEMMA LaidMembers ==
  ASSUME NEW j, IsJob(j), Shape(j), NEW n, NEW g, NEW out, IsSpending(j, g, out, n),
         NEW r, Laid(j, r, g, out, n), NEW x \in 1..Len(r)
  PROVE  LET p == StartPosition(j)
             b == Len(Block(j)) IN
         \/ r[x] \in Elements(j.source)
         \/ x - p \in 1..out /\ r[x] = g[x - p]
         \/ x - (p + b) \in (out + 1)..n /\ r[x] = g[x - (p + b)]
<1> DEFINE p == StartPosition(j)
           b == Len(Block(j))
           s == j.source
<1>1. /\ p \in Nat /\ p >= 1 /\ b \in Nat /\ b >= 1 /\ Len(s) \in Nat /\ s \in Seq(Nat)
      /\ Len(s) = p + b + (IF Rejoins(j) THEN 1 ELSE 0)
  BY ShapeParts
<1>2. n \in Nat /\ out \in Nat /\ out <= n /\ (~Rejoins(j) => out = n)
  BY DEF IsSpending
<1>3. /\ Len(r) = Len(s) + n
      /\ \A i \in 1..p : r[i] = s[i]
      /\ \A i \in 1..out : r[p + i] = g[i]
      /\ \A i \in 1..b : r[p + out + i] = Block(j)[i]
      /\ \A i \in 1..(n - out) : r[p + out + b + i] = g[out + i]
      /\ Rejoins(j) => r[Len(s) + n] = j.rejoin
  BY DEF Laid
<1>4. /\ \A i \in 1..b : Block(j)[i] = s[p + i]
      /\ Rejoins(j) => s[Len(s)] = j.rejoin
  BY DEF Shape
<1>5. \A i \in 1..Len(s) : s[i] \in Elements(s)
  BY <1>1, MembersAre
<1> DEFINE l == Len(s)
<1> HIDE DEF p, b, s, l
<1>6. /\ l = p + b + (IF Rejoins(j) THEN 1 ELSE 0) /\ l \in Nat /\ x \in 1..(l + n)
  BY <1>1, <1>3 DEF l
<1>7. \/ x \in 1..p
      \/ x - p \in 1..out /\ x = p + (x - p)
      \/ x - (p + out) \in 1..b /\ x = p + out + (x - (p + out))
      \/ x - (p + out + b) \in 1..(n - out) /\ x = p + out + b + (x - (p + out + b))
      \/ Rejoins(j) /\ x = l + n
  BY <1>1, <1>2, <1>6
<1>8. CASE x \in 1..p
  <2>1. x \in 1..l
    BY <1>1, <1>6, <1>8
  <2> QED
    BY <1>3, <1>5, <1>8, <2>1 DEF l, s, p
<1>9. CASE x - p \in 1..out /\ x = p + (x - p)
  BY <1>3, <1>9 DEF p
<1>10. CASE x - (p + out) \in 1..b /\ x = p + out + (x - (p + out))
  <2>1. p + (x - (p + out)) \in 1..l
    BY <1>1, <1>2, <1>6, <1>10
  <2>2. r[x] = s[p + (x - (p + out))]
    BY <1>3, <1>4, <1>10
  <2> QED
    BY <1>5, <2>1, <2>2 DEF l, s
<1>11. CASE x - (p + out + b) \in 1..(n - out) /\ x = p + out + b + (x - (p + out + b))
  <2>1. /\ x - (p + b) \in (out + 1)..n /\ out + (x - (p + out + b)) = x - (p + b)
    BY <1>1, <1>2, <1>6, <1>11
  <2>2. r[x] = g[out + (x - (p + out + b))]
    BY <1>3, <1>11
  <2> QED
    BY <2>1, <2>2 DEF p, b
<1>12. CASE Rejoins(j) /\ x = l + n
  <2>1. l \in 1..l
    BY <1>1, <1>6
  <2> QED
    BY <1>3, <1>4, <1>5, <1>12, <2>1 DEF l, s
<1> QED
  BY <1>7, <1>8, <1>9, <1>10, <1>11, <1>12 DEF s

LEMMA GeneratedOnce ==
  ASSUME NEW j, IsJob(j), Shape(j), NEW n, NEW g, NEW out, IsSpending(j, g, out, n),
         NEW r, Laid(j, r, g, out, n), NEW x \in 1..Len(r), NEW y \in 1..Len(r),
         r[x] = r[y], r[x] \notin Elements(j.source)
  PROVE  x = y
<1> DEFINE p == StartPosition(j)
           b == Len(Block(j))
<1>1. /\ p \in Nat /\ b \in Nat /\ b >= 1
  BY ShapeParts
<1>2. /\ n \in Nat /\ out \in Nat /\ out <= n
      /\ \A i, k \in 1..n : g[i] = g[k] => i = k
  BY DEF IsSpending
<1>3. \/ x - p \in 1..out /\ r[x] = g[x - p]
      \/ x - (p + b) \in (out + 1)..n /\ r[x] = g[x - (p + b)]
  BY LaidMembers
<1>4. \/ y - p \in 1..out /\ r[y] = g[y - p]
      \/ y - (p + b) \in (out + 1)..n /\ r[y] = g[y - (p + b)]
  BY LaidMembers
<1>5. x \in Nat /\ y \in Nat
  BY DEF Laid
<1> HIDE DEF p, b
<1>6. \A i \in 1..out : i \in 1..n
  BY <1>2
<1>7. \A i \in (out + 1)..n : i \in 1..n /\ i \notin 1..out
  BY <1>2
<1>8. CASE x - p \in 1..out /\ r[x] = g[x - p] /\ y - p \in 1..out /\ r[y] = g[y - p]
  <2>1. x - p = y - p
    BY <1>2, <1>6, <1>8
  <2> QED
    BY <1>1, <1>5, <2>1
<1>9. CASE /\ x - (p + b) \in (out + 1)..n /\ r[x] = g[x - (p + b)]
           /\ y - (p + b) \in (out + 1)..n /\ r[y] = g[y - (p + b)]
  <2>1. x - (p + b) = y - (p + b)
    BY <1>2, <1>7, <1>9
  <2> QED
    BY <1>1, <1>5, <2>1
<1>10. \A i \in 1..out : \A k \in (out + 1)..n : g[i] # g[k]
  BY <1>2, <1>6, <1>7
<1> QED
  BY <1>3, <1>4, <1>8, <1>9, <1>10

\* The final decisions about a complete route.
LEMMA CompleteIsFinal ==
  ASSUME NEW j, IsJob(j), Shape(j), NEW n \in Nat, NEW r \in GoodRoutes(j, n),
         GeneratedRepeatSafe(j, r)
  PROVE  FinalDecisionsHold(j, r, Bridges(j, r))
<1> DEFINE h == Len(j.history)
           whole == j.history \o r
<1>1. PICK s \in Spendings(j, n) : IsSpending(j, s[1], s[2], n) /\ Laid(j, r, s[1], s[2], n)
  BY GoodRouteIsLaid
<1>2. r \in Seq(Nat) /\ Len(r) \in Nat
  BY <1>1 DEF Laid
<1>3. /\ h \in Nat /\ DOMAIN whole = 1..(h + Len(r))
      /\ \A i \in 1..Len(r) : whole[h + i] = r[i]
  <2>1. /\ h \in Nat /\ whole \in Seq(Nat) /\ Len(whole) = h + Len(r)
        /\ \A i \in 1..Len(r) : whole[h + i] = r[i]
    <3>1. r \in Seq(Nat)
      BY <1>2
    <3> QED
      BY <3>1, WholeIs
  <2>2. DOMAIN whole = 1..Len(whole)
    <3> HIDE DEF whole
    <3> QED
      BY <2>1
  <2> QED
    BY <2>1, <2>2
<1>4. \A i \in (h + 1)..Len(whole) : whole[i] \notin Elements(j.source) =>
        RepeatWindowsSafeAt(whole, j.tracks, j.w, i)
  BY DEF GeneratedRepeatSafe, PositionRepeatSafe
<1>5. Len(whole) = h + Len(r)
  BY <1>2, WholeIs
<1> HIDE DEF h, whole
<1>6. ASSUME NEW c \in Bridges(j, r)
      PROVE  /\ Cardinality({i \in DOMAIN r : r[i] = c}) = 1
             /\ RepeatWindowsSafeAt(r, j.tracks, j.w, Position(r, c))
  <2>1. PICK x \in 1..Len(r) : c = r[x]
    BY <1>2, MembersAre DEF Bridges
  <2>2. r[x] \notin Elements(j.source)
    BY <2>1 DEF Bridges
  <2>3. h + x \in (h + 1)..Len(whole) /\ whole[h + x] = r[x]
    BY <1>2, <1>3, <1>5
  <2>4. RepeatWindowsSafeAt(whole, j.tracks, j.w, h + x)
    BY <1>4, <2>2, <2>3
  <2>5. ASSUME NEW y \in 1..Len(r), y # x
        PROVE  /\ r[y] # r[x]
               /\ ArtistAndAlbumApart(j.tracks, j.w, r[x], r[y], Gap(x, y))
    <3>1. r[y] # r[x]
      BY <1>1, <2>2, <2>5, GeneratedOnce
    <3>2. h + y \in DOMAIN whole \ {h + x} /\ whole[h + y] = r[y]
      BY <1>2, <1>3, <2>5
    <3>3. Gap(h + x, h + y) = Gap(x, y)
      BY <1>2, <1>3 DEF Gap
    <3>4. ArtistAndAlbumApart(j.tracks, j.w, whole[h + x], whole[h + y], Gap(h + x, h + y))
      BY <2>4, <3>2 DEF RepeatWindowsSafeAt
    <3> QED
      BY <2>3, <3>1, <3>2, <3>3, <3>4
  <2>6. /\ Cardinality({i \in DOMAIN r : r[i] = r[x]}) = 1
        /\ RepeatWindowsSafeAt(r, j.tracks, j.w, Position(r, r[x]))
    BY <1>2, <2>5, DecisionHolds
  <2> QED
    BY <2>1, <2>6
<1> QED
  BY <1>6 DEF FinalDecisionsHold

\* An option whose route is one of the reference's.
GoodOption(j, max, o) ==
  /\ o.count \in 0..max
  /\ o.route \in GoodRoutes(j, o.count)
  /\ o = CompleteOption(j, o.route, o.count)

LEMMA CombinedAreGood ==
  ASSUME NEW j, IsJob(j), Shape(j), NEW max \in Nat, NEW o \in Outward(j, max)
  PROVE  /\ \A c \in Combined(j, max, o) : GoodOption(j, max, c)
         /\ CombinedIsFinal(j, max, o)
<1>1. IsOutward(j, max, o)
  BY OutwardOptions
<1>2. Rejoins(j) => AllFinal(j, Returning(j, max, o))
  BY <1>1, ReturnOptions DEF AllFinal
<1> DEFINE returns == IF Rejoins(j)
                      THEN {[route |-> r.route,
                             count |-> Len(o.intermediates) + Len(r.intermediates)] :
                              r \in Returning(j, max, o)}
                      ELSE {[route |-> WithBlock(j, o), count |-> Len(o.intermediates)]}
<1>3. ASSUME NEW c \in returns, GeneratedRepeatSafe(j, c.route), BlockContextSafe(j, c.route)
      PROVE  c.count \in 0..max /\ c.route \in GoodRoutes(j, c.count)
  <2>1. CASE Rejoins(j)
    <3> HIDE DEF returns
    <3>1. returns = {[route |-> r.route,
                      count |-> Len(o.intermediates) + Len(r.intermediates)] :
                       r \in Returning(j, max, o)}
      BY <2>1, Zenon DEF returns
    <3>2. c \in {[route |-> r.route,
                  count |-> Len(o.intermediates) + Len(r.intermediates)] :
                    r \in Returning(j, max, o)}
      BY <1>3, <3>1, Zenon
    <3>3. PICK r \in Returning(j, max, o) :
            c = [route |-> r.route,
                 count |-> Len(o.intermediates) + Len(r.intermediates)]
      BY <3>2, Zenon
    <3>4. c.route = r.route /\ c.count = Len(o.intermediates) + Len(r.intermediates)
      BY <3>3
    <3>5. IsReturn(j, max, o, r)
      BY <1>1, <2>1, ReturnOptions
    <3> DEFINE k == Len(o.intermediates)
               n == k + Len(r.intermediates)
               g == o.intermediates \o r.intermediates
    <3>6. /\ n \in 0..max /\ IsSpending(j, g, k, n)
          /\ Laid(j, r.route, g, k, n) /\ RejoinApart(j, r.route)
      BY <1>1, <2>1, <3>5, RejoinedRouteIsLaid
    <3> HIDE DEF k, g
    <3>7. r.route \in GoodRoutes(j, n)
      BY <1>3, <3>4, <3>6, LaidIsGood
    <3> QED
      BY <3>4, <3>6, <3>7 DEF k
  <2>2. CASE ~Rejoins(j)
    <3> DEFINE k == Len(o.intermediates)
    <3>1. c.route = WithBlock(j, o) /\ c.count = k
      BY <1>3, <2>2
    <3>2. /\ k \in 0..max /\ IsSpending(j, o.intermediates, k, k)
          /\ Laid(j, WithBlock(j, o), o.intermediates, k, k)
      BY <1>1, <2>2, OpenRouteIsLaid
    <3>3. RejoinApart(j, WithBlock(j, o))
      BY <2>2 DEF RejoinApart
    <3> HIDE DEF k
    <3>4. WithBlock(j, o) \in GoodRoutes(j, k)
      BY <1>3, <3>1, <3>2, <3>3, LaidIsGood
    <3> QED
      BY <3>1, <3>2, <3>4
  <2> QED
    BY <2>1, <2>2
<1>4. ASSUME NEW c \in Combined(j, max, o)
      PROVE  GoodOption(j, max, c) /\ GeneratedRepeatSafe(j, c.route)
  <2>1. PICK r \in returns : /\ GeneratedRepeatSafe(j, r.route) /\ BlockContextSafe(j, r.route)
                             /\ c = CompleteOption(j, r.route, r.count)
    BY DEF Combined
  <2>2. c.route = r.route /\ c.count = r.count
    BY <2>1 DEF CompleteOption
  <2> HIDE DEF returns
  <2>3. r.count \in 0..max /\ r.route \in GoodRoutes(j, r.count)
    BY <1>3, <2>1
  <2> QED
    BY <2>1, <2>2, <2>3 DEF GoodOption
<1>5. ASSUME NEW c \in Combined(j, max, o)
      PROVE  FinalDecisionsHold(j, c.route, Bridges(j, c.route))
  <2>1. c.count \in Nat /\ c.route \in GoodRoutes(j, c.count) /\ GeneratedRepeatSafe(j, c.route)
    BY <1>4 DEF GoodOption
  <2> QED
    BY <2>1, CompleteIsFinal
<1>6. CombinedIsFinal(j, max, o)
  BY <1>2, <1>5 DEF CombinedIsFinal
<1> QED
  BY <1>4, <1>6

-----------------------------------------------------------------------------
(***************************************************************************)
(* The options of every count.                                             *)
(***************************************************************************)
\* In a finite set with different keys, every number of members less than all is
\* how many come before exactly one member.
LEMMA OrderIsComplete ==
  ASSUME NEW S, IsFiniteSet(S), NEW n \in Nat, NEW key \in [S -> Keys(n)],
         \A s, t \in S : key[s] = key[t] => s = t
  PROVE  /\ Cardinality(S) \in Nat
         /\ \A s \in S : Cardinality(Predecessors(S, key, s)) \in 0..(Cardinality(S) - 1)
         /\ \A k \in 1..Cardinality(S) :
              \E s \in S : Cardinality(Predecessors(S, key, s)) = k - 1
         /\ \A s, t \in S :
              Cardinality(Predecessors(S, key, s)) = Cardinality(Predecessors(S, key, t)) => s = t
         /\ \A s, t \in S :
              Cardinality(Predecessors(S, key, s)) < Cardinality(Predecessors(S, key, t)) =>
                LexBefore(key[s], key[t])
<1> DEFINE N == Cardinality(S)
           before(s) == Cardinality(Predecessors(S, key, s))
           place == [s \in S |-> before(s) + 1]
<1>1. N \in Nat
  BY FS_CardinalityType
<1>2. ASSUME NEW s \in S PROVE before(s) \in 0..(N - 1)
  <2>1. Predecessors(S, key, s) \subseteq S \ {s}
    BY LexIrreflexive DEF Predecessors
  <2>2. IsFiniteSet(S \ {s}) /\ Cardinality(S \ {s}) = N - 1
    BY FS_RemoveElement
  <2>3. before(s) <= N - 1 /\ IsFiniteSet(Predecessors(S, key, s))
    BY <2>1, <2>2, FS_Subset
  <2> QED
    BY <1>1, <2>3, FS_CardinalityType
<1>3. ASSUME NEW s \in S, NEW t \in S, LexBefore(key[s], key[t]) PROVE before(s) < before(t)
  BY <1>3, FewerPredecessors
<1>4. ASSUME NEW s \in S, NEW t \in S, before(s) = before(t) PROVE s = t
  <2>1. before(s) \in Int /\ before(t) \in Int /\ ~(before(s) < before(t)) /\ ~(before(t) < before(s))
    BY <1>2, <1>4
  <2>2. ~LexBefore(key[s], key[t]) /\ ~LexBefore(key[t], key[s])
    BY <1>3, <2>1
  <2> QED
    BY <2>2, LexTotal
<1>5. ASSUME NEW s \in S, NEW t \in S, before(s) < before(t) PROVE LexBefore(key[s], key[t])
  <2>1. before(s) \in Int /\ before(t) \in Int /\ ~(before(t) < before(s)) /\ s # t
    BY <1>2, <1>5
  <2>2. ~LexBefore(key[t], key[s]) /\ key[s] # key[t]
    BY <1>3, <2>1
  <2> QED
    BY <2>2, LexTotal
<1> HIDE DEF before
<1>6. place \in Injection(S, 1..N)
  <2>1. place \in [S -> 1..N]
    BY <1>1, <1>2
  <2>2. \A s, t \in S : place[s] = place[t] => s = t
    BY <1>2, <1>4
  <2> QED
    BY <2>1, <2>2 DEF Injection, IsInjective
<1>7. IsFiniteSet(1..N) /\ Cardinality(1..N) = N
  BY <1>1, FS_Interval
<1>8. place \in Surjection(S, 1..N)
  BY <1>6, <1>7, FS_Injection
<1>9. \A k \in 1..N : \E s \in S : before(s) + 1 = k
  BY <1>8 DEF Surjection
<1>10. \A k \in 1..N : \E s \in S : before(s) = k - 1
  BY <1>2, <1>9
<1> QED
  BY <1>1, <1>2, <1>4, <1>5, <1>10 DEF before

\* The edges between two positions are pairs of members.
LEMMA EdgesAre ==
  ASSUME NEW X, NEW r \in Seq(X), NEW a \in 1..Len(r), NEW b \in 1..Len(r)
  PROVE  EdgesBetween(r, a, b) \in Seq(X \X X)
<1>1. a \in Nat /\ b \in Nat /\ Len(r) \in Nat /\ \A i \in 1..Len(r) : r[i] \in X
  OBVIOUS
<1>2. CASE b >= a
  <2>1. b - a \in Nat
    BY <1>1, <1>2
  <2>2. ASSUME NEW i \in 1..(b - a)
        PROVE  a + i - 1 \in 1..Len(r) /\ a + i \in 1..Len(r)
    BY <1>1, <2>1
  <2>3. \A i \in 1..(b - a) : <<r[a + i - 1], r[a + i]>> \in X \X X
    BY <1>1, <2>2
  <2> QED
    BY <2>1, <2>3 DEF EdgesBetween
<1>3. CASE b < a
  <2>1. 1..(b - a) = 1..0
    BY <1>1, <1>3
  <2> QED
    BY <2>1 DEF EdgesBetween
<1> QED
  BY <1>1, <1>2, <1>3

\* What is known of the places and of the members of a laid out route.
LEMMA LaidPlaces ==
  ASSUME NEW j, IsJob(j), Shape(j), NEW n, NEW g, NEW out, IsSpending(j, g, out, n),
         NEW r, Laid(j, r, g, out, n)
  PROVE  /\ r \in Seq(DOMAIN j.tracks) /\ r \in Seq(Nat) /\ Len(r) \in Nat
         /\ {j.start, j.destination, Last(Block(j))} \subseteq Elements(r)
         /\ Rejoins(j) => j.rejoin \in Elements(r)
         /\ Position(r, j.start) \in 1..Len(r) /\ Position(r, j.destination) \in 1..Len(r)
         /\ Position(r, j.start) < Position(r, j.destination)
         /\ Position(r, j.start) = StartPosition(j)
         /\ Position(r, Last(Block(j))) \in 1..Len(r)
         /\ Rejoins(j) => Position(r, j.rejoin) \in 1..Len(r)
<1> DEFINE p == StartPosition(j)
           b == Len(Block(j))
           s == j.source
           l == Len(s)
<1>1. /\ p \in Nat /\ p >= 1 /\ b \in Nat /\ b >= 1 /\ l \in Nat
      /\ l = p + b + (IF Rejoins(j) THEN 1 ELSE 0)
      /\ s[p] = j.start /\ Block(j)[1] = j.destination
      /\ \A i \in 1..(p - 1) : s[i] # s[p]
  <2>1. /\ p \in Nat /\ p >= 1 /\ b \in Nat /\ b >= 1 /\ l \in Nat
        /\ l = p + b + (IF Rejoins(j) THEN 1 ELSE 0)
        /\ s[p] = j.start /\ Block(j)[1] = j.destination
        /\ \A k \in p..l : \A i \in 1..(k - 1) : s[i] # s[k]
    BY DEF Shape
  <2> HIDE DEF p, b, s, l
  <2>2. p \in p..l
    BY <2>1
  <2> QED
    BY <2>1, <2>2
<1>2. n \in Nat /\ out \in Nat /\ out <= n
  BY DEF IsSpending
<1>3. /\ r \in Seq(Nat) /\ Len(r) = l + n /\ Len(r) \in Nat
      /\ \A i \in 1..p : r[i] = s[i]
      /\ \A i \in 1..b : r[p + out + i] = Block(j)[i]
      /\ Rejoins(j) => r[l + n] = j.rejoin
  BY <1>1, <1>2 DEF Laid
<1>4. r \in Seq(DOMAIN j.tracks)
  <2>1. Elements(j.source) \cup j.eligible \subseteq DOMAIN j.tracks
    BY DEF IsJob
  <2>2. \A i \in 1..n : g[i] \in j.eligible
    BY DEF IsSpending
  <2>3. ASSUME NEW x \in 1..Len(r) PROVE r[x] \in DOMAIN j.tracks
    <3>1. \/ r[x] \in Elements(j.source)
          \/ x - p \in 1..out /\ r[x] = g[x - p]
          \/ x - (p + b) \in (out + 1)..n /\ r[x] = g[x - (p + b)]
      BY LaidMembers
    <3> HIDE DEF p, b
    <3>2. /\ x - p \in 1..out => x - p \in 1..n
          /\ x - (p + b) \in (out + 1)..n => x - (p + b) \in 1..n
      BY <1>2
    <3> QED
      BY <2>1, <2>2, <3>1, <3>2
  <2> QED
    BY <1>3, <2>3
<1>5. Position(r, j.destination) = p + out + 1
  BY DestinationStands
<1>6. Last(Block(j)) = Block(j)[b]
  BY DEF Last
<1> HIDE DEF p, b, s, l
<1>7. /\ p \in 1..Len(r) /\ p + out + 1 \in 1..Len(r) /\ p + out + b \in 1..Len(r)
      /\ 1 \in 1..b /\ b \in 1..b /\ p \in 1..p /\ l + n \in 1..Len(r)
      /\ p < p + out + 1
  BY <1>1, <1>2, <1>3
<1>8. /\ r[p] = j.start /\ r[p + out + 1] = j.destination /\ r[p + out + b] = Last(Block(j))
      /\ Rejoins(j) => r[l + n] = j.rejoin
  BY <1>1, <1>3, <1>6, <1>7
<1>9. /\ {j.start, j.destination, Last(Block(j))} \subseteq Elements(r)
      /\ Rejoins(j) => j.rejoin \in Elements(r)
  BY <1>3, <1>7, <1>8, MembersAre
<1>10. Position(r, j.start) = p
  <2>1. \A i \in 1..(p - 1) : i \in 1..p
    BY <1>1
  <2>2. \A i \in 1..(p - 1) : r[i] # r[p]
    BY <1>1, <1>3, <1>7, <2>1
  <2> QED
    BY <1>3, <1>7, <1>8, <2>2, PositionIsFirst
<1>11. /\ Position(r, Last(Block(j))) \in 1..Len(r)
       /\ Rejoins(j) => Position(r, j.rejoin) \in 1..Len(r)
  BY <1>3, <1>9, PositionIs
<1> QED
  BY <1>3, <1>4, <1>5, <1>7, <1>9, <1>10, <1>11 DEF p

LEMMA BoundaryEdgesAre ==
  ASSUME NEW j, IsJob(j), Shape(j), NEW n, NEW g, NEW out, IsSpending(j, g, out, n),
         NEW r, Laid(j, r, g, out, n)
  PROVE  /\ BoundaryEdges(j, r) \in Seq((DOMAIN j.tracks) \X (DOMAIN j.tracks))
         /\ Len(BoundaryEdges(j, r)) \in Nat /\ Len(BoundaryEdges(j, r)) >= 1
<1> DEFINE a == Position(r, j.start)
           d == Position(r, j.destination)
           X == DOMAIN j.tracks
           there == EdgesBetween(r, a, d)
           back == IF Rejoins(j)
                   THEN EdgesBetween(r, Position(r, Last(Block(j))), Position(r, j.rejoin))
                   ELSE <<>>
<1>1. /\ r \in Seq(X) /\ a \in 1..Len(r) /\ d \in 1..Len(r) /\ a < d /\ Len(r) \in Nat
      /\ Position(r, Last(Block(j))) \in 1..Len(r)
      /\ Rejoins(j) => Position(r, j.rejoin) \in 1..Len(r)
  BY LaidPlaces
<1> HIDE DEF a, d, X
<1>2. there \in Seq(X \X X)
  BY <1>1, EdgesAre
<1>3. back \in Seq(X \X X)
  BY <1>1, EdgesAre
<1>4. Len(there) = d - a /\ d - a >= 1 /\ d - a \in Nat
  <2>1. d - a >= 1 /\ d - a \in Nat
    BY <1>1
  <2> QED
    BY <2>1 DEF EdgesBetween
<1>5. BoundaryEdges(j, r) = there \o back
  BY DEF BoundaryEdges, a, d
<1> HIDE DEF there, back
<1>6. /\ there \o back \in Seq(X \X X) /\ Len(there) \in Nat /\ Len(back) \in Nat
      /\ Len(there \o back) = Len(there) + Len(back)
  BY <1>2, <1>3, Concatenated
<1>7. Len(there \o back) \in Nat /\ Len(there \o back) >= 1
  BY <1>4, <1>6
<1> QED
  BY <1>5, <1>6, <1>7 DEF X

LEMMA CompleteIsMeasured ==
  ASSUME NEW j, IsJob(j), Shape(j), NEW n, NEW g, NEW out, IsSpending(j, g, out, n),
         NEW r, Laid(j, r, g, out, n), NEW k
  PROVE  /\ CompleteOption(j, r, k).sum \in Int
         /\ CompleteOption(j, r, k).worst \in Int
<1> DEFINE X == DOMAIN j.tracks
           edges == BoundaryEdges(j, r)
           N == Len(edges)
           legs == [i \in DOMAIN edges |-> j.models[1][edges[i]]]
           S == {0} \cup Elements(legs)
<1>1. edges \in Seq(X \X X) /\ N \in Nat
  BY BoundaryEdgesAre
<1>2. DOMAIN edges = 1..N /\ \A i \in 1..N : edges[i] \in X \X X
  BY <1>1
<1>3. \A a, b \in X : j.models[1][<<a, b>>] \in Int
  <2>1. 1 \in DOMAIN j.models
    BY DEF IsJob
  <2>2. \A m \in DOMAIN j.models : \A a, b \in X : j.models[m][<<a, b>>] \in Nat \cup {-1}
    BY DEF IsJob, Unreachable
  <2>3. \A a, b \in X : j.models[1][<<a, b>>] \in Nat \cup {-1}
    BY <2>1, <2>2
  <2> SUFFICES ASSUME NEW a \in X, NEW b \in X PROVE j.models[1][<<a, b>>] \in Int
    OBVIOUS
  <2> DEFINE leg == j.models[1][<<a, b>>]
  <2>4. leg \in Nat \cup {-1}
    BY <2>3, Zenon
  <2> HIDE DEF leg
  <2>5. leg \in Int
    BY <2>4
  <2> QED
    BY <2>5 DEF leg
<1> HIDE DEF X, edges, N
<1>4. \A i \in 1..N : j.models[1][edges[i]] \in Int
  BY <1>2, <1>3
<1>5. legs \in [1..N -> Int] /\ DOMAIN legs = 1..N
  BY <1>2, <1>4
<1>6. Total(legs) \in Int
  <2> HIDE DEF legs
  <2> QED
    BY <1>1, <1>5, TotalIsInt
<1>7. Elements(legs) \subseteq Int /\ IsFiniteSet(Elements(legs))
  <2> HIDE DEF legs
  <2>1. Elements(legs) = {legs[i] : i \in 1..N}
    BY <1>5 DEF Elements
  <2>2. legs \in Surjection(1..N, Elements(legs))
    BY <1>5, <2>1 DEF Surjection
  <2>3. IsFiniteSet(1..N)
    BY <1>1, FS_Interval
  <2> QED
    BY <1>5, <2>1, <2>2, <2>3, FS_Surjection
<1>8. S \in SUBSET Int /\ S # {} /\ IsFiniteSet(S)
  <2>1. S = Elements(legs) \cup {0}
    OBVIOUS
  <2> HIDE DEF S, legs
  <2> QED
    BY <1>7, <2>1, FS_AddElement
<1>9. Max(S) \in Int
  <2> HIDE DEF S
  <2>1. \E m \in S : \A x \in S : m >= x
    BY <1>8, MaximumExists
  <2> QED
    BY <1>8, <2>1 DEF Max
<1>10. /\ CompleteOption(j, r, k).sum = Total(legs)
       /\ CompleteOption(j, r, k).worst = Max(S)
  BY DEF CompleteOption, edges
<1> QED
  BY <1>6, <1>9, <1>10

LEMMA GoodOptionIsMeasured ==
  ASSUME NEW j, IsJob(j), Shape(j), NEW max \in Nat, NEW o, GoodOption(j, max, o)
  PROVE  /\ o.count \in 0..max /\ o.count \in Nat
         /\ o.route \in Seq(Nat) /\ Len(o.route) = Len(j.source) + o.count
         /\ OptionKey(o) \in Keys(2 + (Len(j.source) + o.count))
<1> DEFINE r == o.route
           n == o.count
           l == Len(j.source)
<1>1. n \in 0..max /\ n \in Nat /\ r \in GoodRoutes(j, n) /\ o = CompleteOption(j, r, n)
  BY DEF GoodOption
<1>2. PICK s \in Spendings(j, n) : IsSpending(j, s[1], s[2], n) /\ Laid(j, r, s[1], s[2], n)
  BY <1>1, GoodRouteIsLaid
<1>3. o.worst \in Int /\ o.sum \in Int
  BY <1>1, <1>2, CompleteIsMeasured
<1>4. r \in Seq(Nat) /\ Len(r) = l + n /\ l \in Nat
  BY <1>2, ShapeParts DEF Laid
<1>5. OptionKey(o) = <<o.worst, o.sum>> \o r
  BY DEF OptionKey
<1> DEFINE head == <<o.worst, o.sum>>
<1>6. head \in Seq(Int) /\ Len(head) = 2 /\ r \in Seq(Int)
  BY <1>3, <1>4
<1> HIDE DEF head, r, n, l
<1>7. head \o r \in Seq(Int) /\ Len(head \o r) = 2 + (l + n)
  <2>1. head \o r \in Seq(Int) /\ Len(head \o r) = Len(head) + Len(r)
    BY <1>6, Concatenated
  <2> QED
    BY <1>4, <1>6, <2>1
<1> DEFINE whole == head \o r
<1>8. whole \in Seq(Int) /\ Len(whole) = 2 + (l + n)
  BY <1>7
<1> HIDE DEF whole
<1>9. whole \in Keys(2 + (l + n))
  <2>1. whole \in [1..Len(whole) -> Int]
    BY <1>8, LenProperties
  <2> QED
    BY <1>8, <2>1 DEF Keys
<1> QED
  BY <1>1, <1>4, <1>5, <1>9 DEF whole, head, r, n, l

\* There are only so many options.
LEMMA GoodOptionsAreFinite ==
  ASSUME NEW j, IsJob(j), NEW max \in Nat, NEW S, \A o \in S : GoodOption(j, max, o)
  PROVE  IsFiniteSet(S)
<1> DEFINE E == j.eligible \ Elements(j.source)
           Ways(n) == [1..n -> E] \X (0..n)
           of(n, s) == CompleteOption(j, RouteOf(j, s), n)
           Few(n) == {of(n, s) : s \in Ways(n)}
<1>1. ASSUME NEW n \in Nat PROVE IsFiniteSet(Few(n))
  <2>1. IsFiniteSet(j.eligible) /\ E \in SUBSET j.eligible
    BY DEF IsJob
  <2> HIDE DEF E
  <2>2. IsFiniteSet(E)
    BY <2>1, FS_Subset
  <2>3. IsFiniteSet([1..n -> E])
    BY <2>2, FiniteSequences
  <2>4. IsFiniteSet(0..n)
    BY FS_Interval
  <2> DEFINE sequences == [1..n -> E]
             cuts == 0..n
  <2> HIDE DEF sequences, cuts
  <2>5. IsFiniteSet(sequences \X cuts)
    BY <2>3, <2>4, FS_Product DEF sequences, cuts
  <2>6. IsFiniteSet(Ways(n))
    BY <2>5 DEF sequences, cuts
  <2> HIDE DEF of, Ways
  <2> DEFINE f == [s \in Ways(n) |-> of(n, s)]
  <2>7. f \in Surjection(Ways(n), Few(n))
    BY DEF Surjection
  <2> HIDE DEF f, Few
  <2> QED
    BY <2>6, <2>7, FS_Surjection
<1> DEFINE All == UNION {Few(n) : n \in 0..max}
<1>2. IsFiniteSet(All)
  <2> HIDE DEF Few
  <2> DEFINE few == [n \in 0..max |-> Few(n)]
             Each == {Few(n) : n \in 0..max}
  <2>1. few \in Surjection(0..max, Each)
    BY DEF Surjection
  <2>2. IsFiniteSet(0..max)
    BY FS_Interval
  <2>3. \A T \in Each : IsFiniteSet(T)
    BY <1>1
  <2> HIDE DEF few, Each
  <2>4. IsFiniteSet(Each)
    BY <2>1, <2>2, FS_Surjection
  <2>5. IsFiniteSet(UNION Each)
    BY <2>3, <2>4, FS_UNION
  <2> QED
    BY <2>5 DEF Each
<1>3. ASSUME NEW o \in S PROVE o \in All
  <2>1. o.count \in 0..max /\ o.count \in Nat /\ o.route \in GoodRoutes(j, o.count)
        /\ o = CompleteOption(j, o.route, o.count)
    BY <1>3 DEF GoodOption
  <2>2. PICK s \in Spendings(j, o.count) : o.route = RouteOf(j, s)
    BY <2>1 DEF GoodRoutes
  <2>3. s \in Ways(o.count)
    BY <2>2 DEF Spendings, Injections
  <2>4. o = of(o.count, s)
    BY <2>1, <2>2
  <2> HIDE DEF of, Ways
  <2>5. o \in Few(o.count)
    BY <2>3, <2>4
  <2> HIDE DEF Few
  <2> QED
    BY <2>1, <2>5
<1> HIDE DEF All
<1> QED
  BY <1>2, <1>3, FS_Subset

BestOption(S) == Best(S, OptionKey)

\* What the list of the best options of every count is.
IsRanking(C, S) ==
  /\ \E N \in Nat : DOMAIN C = 1..N /\ C \in Seq(S)
  /\ \A k \in DOMAIN C : C[k] \in S
  /\ \A o \in S : \E k \in DOMAIN C : C[k].count = o.count
  /\ \A k, l \in DOMAIN C : k < l => C[k].count < C[l].count
  /\ \A k \in DOMAIN C : C[k] = BestOption({o \in S : o.count = C[k].count})

LEMMA BestByCountIsRanking ==
  ASSUME NEW j, IsJob(j), Shape(j), NEW max \in Nat, NEW S, \A o \in S : GoodOption(j, max, o)
  PROVE  IsRanking(BestByCount(S), S)
<1> DEFINE counts == {o.count : o \in S}
           With(n) == {o \in S : o.count = n}
           best(n) == Best(With(n), OptionKey)
           B == {best(n) : n \in counts}
           key == [o \in B |-> <<o.count>>]
<1>1. IsFiniteSet(S)
  BY GoodOptionsAreFinite
<1>2. ASSUME NEW n \in counts PROVE best(n) \in S /\ best(n).count = n /\ n \in Nat
  <2> DEFINE T == With(n)
             l == Len(j.source)
             tkey == [o \in T |-> OptionKey(o)]
  <2>1. T \in SUBSET S /\ T # {}
    OBVIOUS
  <2>2. IsFiniteSet(T)
    BY <1>1, <2>1, FS_Subset
  <2>3. ASSUME NEW o \in T PROVE OptionKey(o) \in Keys(2 + (l + n)) /\ n \in Nat
    BY GoodOptionIsMeasured
  <2>4. l \in Nat /\ n \in Nat
    BY <2>1, <2>3, ShapeParts
  <2>5. 2 + (l + n) \in Nat
    BY <2>4
  <2>6. tkey \in [T -> Keys(2 + (l + n))]
    BY <2>3
  <2> HIDE DEF T, l
  <2>7. \E s \in T : \A t \in T : ~LexBefore(tkey[t], tkey[s])
    BY <2>1, <2>2, <2>5, <2>6, BestExists
  <2>8. \E s \in T : \A t \in T : ~LexBefore(OptionKey(t), OptionKey(s))
    BY <2>7
  <2>9. Best(T, OptionKey) \in T
    BY <2>8 DEF Best
  <2> QED
    BY <2>4, <2>9 DEF T
<1> HIDE DEF best
<1>3. IsFiniteSet(B)
  <2>1. B \in SUBSET S
    BY <1>2
  <2> QED
    BY <1>1, <2>1, FS_Subset
<1>4. key \in [B -> Keys(1)] /\ \A s, t \in B : key[s] = key[t] => s = t
  <2>1. \A o \in B : o.count \in Int
    BY <1>2
  <2>2. key \in [B -> Keys(1)]
    BY <2>1 DEF Keys
  <2>3. \A s, t \in B : s.count = t.count => s = t
    BY <1>2
  <2> QED
    BY <2>2, <2>3
<1> DEFINE C == BestByCount(S)
           N == Cardinality(B)
           before(s) == Cardinality(Predecessors(B, key, s))
           ahead(s) == Cardinality({t \in B : LexBefore(<<t.count>>, <<s.count>>)})
<1>5. /\ N \in Nat
      /\ \A s \in B : before(s) \in 0..(N - 1)
      /\ \A k \in 1..N : \E s \in B : before(s) = k - 1
      /\ \A s, t \in B : before(s) = before(t) => s = t
      /\ \A s, t \in B : before(s) < before(t) => LexBefore(key[s], key[t])
  <2> HIDE DEF B, key
  <2> QED
    BY <1>3, <1>4, OrderIsComplete
<1>6. ASSUME NEW s \in B PROVE before(s) = ahead(s)
  <2> HIDE DEF B
  <2>1. Predecessors(B, key, s) = {t \in B : LexBefore(<<t.count>>, <<s.count>>)}
    BY DEF Predecessors
  <2> QED
    BY <2>1
<1>7. DOMAIN C = 1..N /\ C = [k \in 1..N |-> CHOOSE s \in B : ahead(s) = k - 1]
  BY DEF BestByCount, Sorted, best
<1> HIDE DEF C, N, B, key, before, ahead
<1>8. ASSUME NEW k \in 1..N PROVE C[k] \in B /\ before(C[k]) = k - 1
  <2>1. \E s \in B : ahead(s) = k - 1
    BY <1>5, <1>6
  <2>2. C[k] \in B /\ ahead(C[k]) = k - 1
    BY <1>7, <2>1
  <2> QED
    BY <1>6, <2>2
<1>9. B \subseteq S
  BY <1>2 DEF B
<1>10. ASSUME NEW o \in S PROVE \E k \in DOMAIN C : C[k].count = o.count
  <2> DEFINE s == best(o.count)
  <2>1. s \in B /\ s.count = o.count
    BY <1>2 DEF B
  <2>2. before(s) + 1 \in 1..N /\ before(s) \in Int
    BY <1>5, <2>1
  <2> HIDE DEF s
  <2>3. C[before(s) + 1] = s
    BY <1>5, <1>8, <2>1, <2>2
  <2> QED
    BY <1>7, <2>1, <2>2, <2>3
<1>11. ASSUME NEW k \in 1..N, NEW l \in 1..N, k < l PROVE C[k].count < C[l].count
  <2>1. C[k] \in B /\ C[l] \in B /\ before(C[k]) < before(C[l])
    BY <1>5, <1>8, <1>11
  <2>2. LexBefore(<<C[k].count>>, <<C[l].count>>)
    BY <1>5, <2>1 DEF key
  <2> QED
    BY <2>2 DEF LexBefore
<1>12. C \in Seq(S)
  <2>1. C = [k \in 1..N |-> C[k]]
    BY <1>7
  <2>2. \A k \in 1..N : C[k] \in S
    BY <1>8, <1>9
  <2> QED
    BY <1>5, <2>1, <2>2
<1>13. ASSUME NEW k \in 1..N PROVE C[k] = BestOption({o \in S : o.count = C[k].count})
  <2>1. PICK n \in counts : C[k] = best(n)
    BY <1>8 DEF B
  <2>2. C[k].count = n
    BY <1>2, <2>1
  <2> QED
    BY <2>1, <2>2 DEF best, BestOption
<1> QED
  BY <1>5, <1>7, <1>8, <1>9, <1>10, <1>11, <1>12, <1>13 DEF IsRanking, C

-----------------------------------------------------------------------------
(***************************************************************************)
(* The search is sound.                                                    *)
(***************************************************************************)
Most(j) == IF j.mode = "automatic" THEN j.maximum ELSE j.count
Fewest(j) == Given(j.minimum, 0)

Acceptable(j, o) == GoodOption(j, Most(j), o) /\ o.count \in Permitted(j)

\* What a valid request says about its counts.
LEMMA ValidCounts ==
  ASSUME NEW j, IsJob(j), Valid(j)
  PROVE  /\ Shape(j) /\ Most(j) \in Nat /\ Fewest(j) \in Nat
         /\ j.mode \in {"automatic", "exact"}
         /\ j.mode = "automatic" => Permitted(j) = Fewest(j)..Most(j)
         /\ j.mode = "exact" => Permitted(j) = {j.count}
<1>1. {j.count, j.minimum, j.maximum} \subseteq Nat \cup {-1}
  BY DEF IsJob, NotGiven
<1>2. /\ j.mode \in {"automatic", "exact"} /\ j.maximum # -1
      /\ j.mode = "exact" => j.count # -1
  BY DEF Valid, NotGiven
<1>3. Most(j) \in Nat
  BY <1>1, <1>2 DEF Most
<1>4. Fewest(j) \in Nat
  BY <1>1 DEF Fewest, Given, NotGiven
<1>5. Shape(j)
  BY ValidShape DEF Valid
<1> QED
  BY <1>2, <1>3, <1>4, <1>5 DEF Permitted, Most, Fewest

\* The options of the whole search are the reference's routes.
LEMMA DestinationOptionsAre ==
  ASSUME NEW j, IsJob(j), Shape(j), NEW max \in Nat, DestinationOptions(j, max) # <<>>
  PROVE  GoodOption(j, max, DestinationOptions(j, max)[1])
<1> DEFINE S == UNION {Combined(j, max, o) : o \in Outward(j, max)}
           C == DestinationOptions(j, max)
<1>1. \A o \in S : GoodOption(j, max, o)
  BY CombinedAreGood
<1>2. C = BestByCount(S)
  BY DEF DestinationOptions
<1> HIDE DEF S, C
<1>3. IsRanking(C, S)
  BY <1>1, <1>2, BestByCountIsRanking
<1>4. PICK N \in Nat : DOMAIN C = 1..N /\ C \in Seq(S)
  BY <1>3 DEF IsRanking
<1>5. 1 \in DOMAIN C
  BY <1>4 DEF C
<1> QED
  BY <1>1, <1>3, <1>5 DEF IsRanking, C

Beginnings == {"preflight", "validate", "unsatisfiable", "invalid"}

\* What the searches have found is of the reference's routes, what is still to
\* be compared has a permitted count, and so has what was chosen.
FoundIsSound ==
  /\ pc \in {"preflight", "validate", "direct", "outward", "return", "compare",
             "unsatisfiable", "invalid", "not found", "done"}
  /\ pc \in Beginnings => pending = {} /\ found = {}
  /\ pc = "direct" => job.mode = "automatic"
  /\ pending \subseteq Outward(job, Most(job))
  /\ \A o \in found : GoodOption(job, Most(job), o)
  /\ options \in Seq(found)
  /\ job.mode = "automatic" =>
       \A k \in DOMAIN options : options[k].count >= Fewest(job)
  /\ direct # <<>> => GoodOption(job, 0, direct[1])
  /\ fallback = NoOption \/ Acceptable(job, fallback)
  /\ outcome = NoOption \/ Acceptable(job, outcome)

SoundInvariant == Judged /\ FoundIsSound

LEMMA SearchedShape ==
  ASSUME Judged, pc \notin Beginnings
  PROVE  /\ IsJob(job) /\ Valid(job) /\ Shape(job) /\ Most(job) \in Nat /\ Fewest(job) \in Nat
         /\ job.mode \in {"automatic", "exact"}
         /\ job.mode = "automatic" => Permitted(job) = Fewest(job)..Most(job)
         /\ job.mode = "exact" => Permitted(job) = {job.count}
BY JobsAssumption, ValidCounts DEF Judged, Beginnings

\* An option of a permitted number of additions is acceptable.
LEMMA SparseIsAcceptable ==
  ASSUME NEW j, IsJob(j), Valid(j), NEW o, GoodOption(j, Most(j), o),
         IF j.mode = "automatic" THEN o.count >= Fewest(j) ELSE o.count = j.count
  PROVE  Acceptable(j, o)
<1>1. /\ Most(j) \in Nat /\ Fewest(j) \in Nat /\ o.count \in 0..Most(j)
  BY ValidCounts DEF GoodOption
<1> QED
  BY <1>1, ValidCounts DEF Acceptable

LEMMA DirectIsAcceptable ==
  ASSUME NEW j, IsJob(j), Valid(j), j.mode = "automatic", Fewest(j) = 0,
         NEW o, GoodOption(j, 0, o)
  PROVE  Acceptable(j, o) /\ o.count = 0
<1>1. Most(j) \in Nat /\ o.count = 0
  BY ValidCounts DEF GoodOption
<1>2. GoodOption(j, Most(j), o)
  BY <1>1 DEF GoodOption
<1> QED
  BY <1>1, <1>2, SparseIsAcceptable

LEMMA OutwardIsLong ==
  ASSUME NEW j, IsJob(j), Shape(j), NEW max \in Nat, NEW o, IsOutward(j, max, o)
  PROVE  o.route # <<>>
<1> DEFINE prefix == SubSeq(j.source, 1, StartPosition(j))
           q == o.intermediates
           end == <<Head(Block(j))>>
<1>1. o.route = prefix \o q \o end /\ q \in [1..Len(q) -> Nat] /\ Len(q) \in Nat
  BY DEF IsOutward, IsBoundaryOption
<1>2. prefix \in Seq(Nat) /\ Head(Block(j)) \in Nat
  <2>1. IsBoundary(j, prefix, Head(Block(j)), j.source, 0, max)
    BY OutwardIsBoundary
  <2> HIDE DEF prefix
  <2> QED
    BY <2>1 DEF IsBoundary
<1>3. q \in Seq(Nat) /\ end \in Seq(Nat) /\ Len(end) = 1
  <2>1. end \in Seq(Nat) /\ Len(end) = 1
    BY <1>2
  <2> HIDE DEF q
  <2>2. PICK n \in Nat : q \in [1..n -> Nat]
    BY <1>1
  <2> QED
    BY <2>1, <2>2
<1> HIDE DEF prefix, q, end
<1> DEFINE front == prefix \o q
<1>4. front \in Seq(Nat)
  BY <1>2, <1>3, Joined
<1> HIDE DEF front
<1>5. Len(front \o end) = Len(front) + 1 /\ Len(front) \in Nat
  <2>1. Len(front) \in Nat /\ Len(front \o end) = Len(front) + Len(end)
    BY <1>3, <1>4, Joined
  <2> QED
    BY <1>3, <2>1
<1>6. o.route = front \o end
  BY <1>1 DEF front
<1> QED
  BY <1>5, <1>6

LEMMA DirectIsSound == SoundInvariant /\ Direct => FoundIsSound'
<1> SUFFICES ASSUME SoundInvariant, Direct PROVE FoundIsSound'
  OBVIOUS
<1>1. /\ pc = "direct" /\ job' = job /\ pending' = pending /\ found' = found
      /\ options' = options /\ fallback' = fallback
      /\ direct' = DestinationOptions(job, 0)
      /\ pc' \in {"done", "outward"}
      /\ outcome' = outcome \/ (outcome' = direct'[1] /\ direct' # <<>> /\ Minimum = 0)
  BY DEF Direct
<1>2. /\ IsJob(job) /\ Valid(job) /\ Shape(job)
  BY <1>1, SearchedShape DEF SoundInvariant, Beginnings
<1>3. direct' # <<>> => GoodOption(job, 0, direct'[1])
  BY <1>1, <1>2, DestinationOptionsAre
<1>4. outcome' = NoOption \/ Acceptable(job, outcome')
  <2>1. job.mode = "automatic"
    BY <1>1 DEF SoundInvariant, FoundIsSound
  <2> QED
    BY <1>1, <1>2, <1>3, <2>1, DirectIsAcceptable
      DEF SoundInvariant, FoundIsSound, Minimum, Fewest
<1> QED
  BY <1>1, <1>3, <1>4 DEF SoundInvariant, FoundIsSound, Beginnings

LEMMA OutwardIsSound == SoundInvariant /\ SearchOutward => FoundIsSound'
<1> SUFFICES ASSUME SoundInvariant, SearchOutward PROVE FoundIsSound'
  OBVIOUS
<1>1. /\ pc = "outward" /\ job' = job /\ found' = found /\ direct' = direct
      /\ options' = options /\ fallback' = fallback /\ outcome' = outcome
      /\ IF AllFinal(job, Outward(job, Most(job)))
         THEN pending' = Outward(job, Most(job)) /\ pc' = "return"
         ELSE pc' = "failed"
  BY DEF SearchOutward, Maximum, Most
<1>2. /\ IsJob(job) /\ Shape(job) /\ Most(job) \in Nat
  BY <1>1, SearchedShape DEF SoundInvariant, Beginnings
<1>3. AllFinal(job, Outward(job, Most(job)))
  BY <1>2, OutwardOptions DEF AllFinal
<1> QED
  BY <1>1, <1>3 DEF SoundInvariant, FoundIsSound, Beginnings

LEMMA ReturnIsSound ==
  ASSUME SoundInvariant, NEW outward \in pending, SearchReturn(outward)
  PROVE  FoundIsSound'
<1>1. /\ pc = "return" /\ job' = job /\ direct' = direct /\ pending' = pending \ {outward}
      /\ options' = options /\ fallback' = fallback /\ outcome' = outcome
      /\ IF CombinedIsFinal(job, Most(job), outward)
         THEN found' = found \cup Combined(job, Most(job), outward) /\ pc' = pc
         ELSE pc' = "failed" /\ found' = found
  BY DEF SearchReturn, Maximum, Most
<1>2. /\ IsJob(job) /\ Shape(job) /\ Most(job) \in Nat
  BY <1>1, SearchedShape DEF SoundInvariant, Beginnings
<1>3. outward \in Outward(job, Most(job))
  BY DEF SoundInvariant, FoundIsSound
<1>4. /\ \A c \in Combined(job, Most(job), outward) : GoodOption(job, Most(job), c)
      /\ CombinedIsFinal(job, Most(job), outward)
  BY <1>2, <1>3, CombinedAreGood
<1>5. /\ found' = found \cup Combined(job, Most(job), outward) /\ pc' = "return"
  BY <1>1, <1>4
<1>6. options \in Seq(found')
  <2>1. options \in Seq(found) /\ found \subseteq found'
    BY <1>5 DEF SoundInvariant, FoundIsSound
  <2> QED
    BY <2>1
<1>7. \A o \in found' : GoodOption(job, Most(job), o)
  BY <1>4, <1>5 DEF SoundInvariant, FoundIsSound
<1> QED
  BY <1>1, <1>5, <1>6, <1>7 DEF SoundInvariant, FoundIsSound, Beginnings

LEMMA CollectIsSound == SoundInvariant /\ Collect => FoundIsSound'
<1> SUFFICES ASSUME SoundInvariant, Collect PROVE FoundIsSound'
  OBVIOUS
<1> DEFINE rivals == {o \in found : job.mode = "exact" \/ IsRival(o)}
           sorted == BestByCount(found)
           first == SearchedDirect(sorted)
<1>1. /\ pc = "return" /\ pc' = "compare" /\ job' = job /\ direct' = direct
      /\ pending' = pending /\ found' = found /\ outcome' = outcome
      /\ options' = BestByCount(rivals)
      /\ fallback' = IF job.mode = "automatic" /\ Minimum = 0 /\ first # <<>>
                     THEN first[1] ELSE NoOption
  BY DEF Collect
<1>2. /\ IsJob(job) /\ Valid(job) /\ Shape(job) /\ Most(job) \in Nat /\ Fewest(job) \in Nat
  BY <1>1, SearchedShape DEF SoundInvariant, Beginnings
<1>3. \A o \in found : GoodOption(job, Most(job), o)
  BY DEF SoundInvariant, FoundIsSound
<1>4. IsRanking(sorted, found)
  BY <1>2, <1>3, BestByCountIsRanking
<1>5. \A o \in rivals : GoodOption(job, Most(job), o)
  BY <1>3
<1> HIDE DEF rivals
<1>6. IsRanking(BestByCount(rivals), rivals)
  BY <1>2, <1>5, BestByCountIsRanking
<1>7. options' \in Seq(rivals) /\ \A k \in DOMAIN options' : options'[k] \in rivals
  BY <1>1, <1>6 DEF IsRanking
<1>8. options' \in Seq(found')
  <2>1. rivals \subseteq found'
    BY <1>1 DEF rivals
  <2> QED
    BY <1>7, <2>1
<1>9. ASSUME job.mode = "automatic", NEW k \in DOMAIN options'
      PROVE  options'[k].count >= Fewest(job)
  <2>1. options'[k].count >= Larger(1, Fewest(job))
    BY <1>7, <1>9 DEF rivals, IsRival, Minimum, Fewest
  <2>2. options'[k].count \in Nat
    BY <1>5, <1>7 DEF GoodOption
  <2> QED
    BY <1>2, <2>1, <2>2 DEF Larger
<1> HIDE DEF sorted
<1>10. ASSUME job.mode = "automatic", Minimum = 0, first # <<>>
       PROVE  Acceptable(job, first[1])
  <2>1. Fewest(job) = 0
    BY <1>10 DEF Minimum, Fewest
  <2>2. CASE sorted # <<>> /\ sorted[1].count = 0
    <3>1. PICK N \in Nat : DOMAIN sorted = 1..N /\ sorted \in Seq(found)
      BY <1>4 DEF IsRanking
    <3>2. 1 \in DOMAIN sorted
      BY <2>2, <3>1
    <3>3. sorted[1] \in found
      BY <1>4, <3>2 DEF IsRanking
    <3>4. first[1] = sorted[1]
      BY <2>2 DEF SearchedDirect
    <3>5. Acceptable(job, sorted[1])
      BY <1>2, <1>3, <1>10, <2>1, <2>2, <3>3, SparseIsAcceptable
    <3> QED
      BY <3>4, <3>5
  <2>3. CASE ~(sorted # <<>> /\ sorted[1].count = 0)
    <3>1. first = direct
      BY <2>3 DEF SearchedDirect
    <3>2. GoodOption(job, 0, direct[1])
      BY <1>10, <3>1 DEF SoundInvariant, FoundIsSound
    <3> QED
      BY <1>2, <1>10, <2>1, <3>1, <3>2, DirectIsAcceptable
  <2> QED
    BY <2>2, <2>3
<1> HIDE DEF first
<1>11. fallback' = NoOption \/ Acceptable(job, fallback')
  BY <1>1, <1>10
<1> QED
  BY <1>1, <1>8, <1>9, <1>11 DEF SoundInvariant, FoundIsSound, Beginnings

LEMMA ExactIsSound == SoundInvariant /\ ChooseExact => FoundIsSound'
<1> SUFFICES ASSUME SoundInvariant, ChooseExact PROVE FoundIsSound'
  OBVIOUS
<1> DEFINE asked == {o \in Elements(options) : o.count = job.count}
<1>1. /\ pc = "compare" /\ pc' = "done" /\ job' = job /\ direct' = direct
      /\ pending' = pending /\ found' = found /\ fallback' = fallback
      /\ options' = options /\ job.mode = "exact"
      /\ outcome' = IF asked = {} THEN NoOption ELSE CHOOSE o \in asked : TRUE
  BY DEF ChooseExact
<1>2. IsJob(job) /\ Valid(job)
  BY <1>1, SearchedShape DEF SoundInvariant, Beginnings
<1>3. Elements(options) \subseteq found
  <2>1. options \in Seq(found)
    BY DEF SoundInvariant, FoundIsSound
  <2> QED
    BY <2>1 DEF Elements
<1>4. \A o \in asked : GoodOption(job, Most(job), o) /\ o.count = job.count
  BY <1>3 DEF SoundInvariant, FoundIsSound
<1>5. \A o \in asked : Acceptable(job, o)
  BY <1>1, <1>2, <1>4, SparseIsAcceptable
<1> HIDE DEF asked
<1>6. outcome' = NoOption \/ Acceptable(job, outcome')
  BY <1>1, <1>5
<1> QED
  BY <1>1, <1>6 DEF SoundInvariant, FoundIsSound, Beginnings

LEMMA CompareIsSound == SoundInvariant /\ CompareOption => FoundIsSound'
<1> SUFFICES ASSUME SoundInvariant, CompareOption PROVE FoundIsSound'
  OBVIOUS
<1>1. /\ pc = "compare" /\ job' = job /\ direct' = direct
      /\ pending' = pending /\ found' = found /\ job.mode = "automatic"
      /\ options # <<>> /\ options' = Tail(options)
      /\ fallback' \in {fallback, Head(options)}
      /\ \/ outcome' = Head(options) /\ pc' = "done"
         \/ outcome' = outcome /\ pc' = pc
  BY DEF CompareOption
<1>2. IsJob(job) /\ Valid(job)
  BY <1>1, SearchedShape DEF SoundInvariant, Beginnings
<1>3. /\ options \in Seq(found) /\ \A k \in DOMAIN options : options[k].count >= Fewest(job)
  BY <1>1 DEF SoundInvariant, FoundIsSound
<1>4. /\ Head(options) = options[1] /\ 1 \in DOMAIN options /\ options[1] \in found
      /\ Tail(options) \in Seq(found)
      /\ \A k \in DOMAIN Tail(options) :
           k + 1 \in DOMAIN options /\ Tail(options)[k] = options[k + 1]
  BY <1>1, <1>3
<1>5. Acceptable(job, Head(options))
  <2>1. GoodOption(job, Most(job), options[1]) /\ options[1].count >= Fewest(job)
    BY <1>3, <1>4 DEF SoundInvariant, FoundIsSound
  <2> QED
    BY <1>1, <1>2, <1>4, <2>1, SparseIsAcceptable
<1>6. /\ options' \in Seq(found')
      /\ \A k \in DOMAIN options' : options'[k].count >= Fewest(job)
  BY <1>1, <1>3, <1>4
<1> QED
  BY <1>1, <1>5, <1>6 DEF SoundInvariant, FoundIsSound, Beginnings

LEMMA SoundAlways == Spec => []SoundInvariant
<1>1. Init => FoundIsSound
  BY DEF Init, FoundIsSound, Beginnings
<1>2. SoundInvariant /\ [Next]_vars => FoundIsSound'
  <2> SUFFICES ASSUME SoundInvariant, [Next]_vars PROVE FoundIsSound'
    OBVIOUS
  <2>1. CASE Preflight
    BY <2>1 DEF Preflight, Idle, SoundInvariant, FoundIsSound, Beginnings
  <2>2. CASE Validate
    BY <2>2 DEF Validate, Idle, SoundInvariant, FoundIsSound, Beginnings
  <2>3. CASE Direct
    BY <2>3, DirectIsSound
  <2>4. CASE SearchOutward
    BY <2>4, OutwardIsSound
  <2>5. CASE \E outward \in pending : SearchReturn(outward)
    BY <2>5, ReturnIsSound
  <2>6. CASE Collect
    BY <2>6, CollectIsSound
  <2>7. CASE ChooseExact
    BY <2>7, ExactIsSound
  <2>8. CASE CompareOption
    BY <2>8, CompareIsSound
  <2>9. CASE ChooseFallback
    BY <2>9 DEF ChooseFallback, SoundInvariant, FoundIsSound, Beginnings
  <2>10. CASE Stopped \/ UNCHANGED vars
    BY <2>10 DEF Stopped, vars, SoundInvariant, FoundIsSound
  <2> QED
    BY <2>1, <2>2, <2>3, <2>4, <2>5, <2>6, <2>7, <2>8, <2>9, <2>10 DEF Next
<1>3. SoundInvariant /\ [Next]_vars /\ Judged' => SoundInvariant'
  BY <1>2 DEF SoundInvariant
<1> QED
  BY <1>1, <1>3, JudgedAlways, PTL DEF Spec, SoundInvariant

\* A chosen route is one of the reference's, with a permitted number of
\* additions, and no search ends in an error at its final decisions
\* (preview.rs:1555-1862, main.rs:6822-6945), for every request, library,
\* windows, distances and limits.
THEOREM DestinationsAreSound == Spec => []DestinationSound
<1>1. SoundInvariant => DestinationSound
  <2> SUFFICES ASSUME SoundInvariant PROVE DestinationSound
    OBVIOUS
  <2>1. TypeOK
    <3>1. pc \in {"preflight", "validate", "direct", "outward", "return", "compare",
                  "unsatisfiable", "invalid", "not found", "done"}
      BY DEF SoundInvariant, FoundIsSound
    <3>2. ASSUME NEW o \in found
          PROVE  o.count \in 0..Maximum /\ Len(o.route) = Len(job.source) + o.count
      <4>1. pc \notin Beginnings /\ GoodOption(job, Most(job), o)
        BY DEF SoundInvariant, FoundIsSound
      <4>2. IsJob(job) /\ Shape(job) /\ Most(job) \in Nat
        BY <4>1, SearchedShape DEF SoundInvariant
      <4> QED
        BY <4>1, <4>2, GoodOptionIsMeasured DEF Maximum, Most
    <3>3. \A k \in DOMAIN options : options[k] \in found
      <4>1. options \in Seq(found)
        BY DEF SoundInvariant, FoundIsSound
      <4> QED
        BY <4>1
    <3>4. ASSUME NEW o \in pending PROVE o.route # <<>>
      <4>1. pc \notin Beginnings /\ o \in Outward(job, Most(job))
        BY DEF SoundInvariant, FoundIsSound
      <4>2. IsJob(job) /\ Shape(job) /\ Most(job) \in Nat
        BY <4>1, SearchedShape DEF SoundInvariant
      <4>3. IsOutward(job, Most(job), o)
        BY <4>1, <4>2, OutwardOptions
      <4> QED
        BY <4>2, <4>3, OutwardIsLong
    <3> QED
      BY <3>1, <3>2, <3>3, <3>4 DEF TypeOK
  <2>2. OutcomeIsSafe
    BY DEF OutcomeIsSafe, SoundInvariant, FoundIsSound, Acceptable, GoodOption
  <2>3. NeverFailsLate
    BY DEF NeverFailsLate, SoundInvariant, FoundIsSound
  <2> QED
    BY <2>1, <2>2, <2>3 DEF DestinationSound
<1> QED
  BY <1>1, SoundAlways, PTL

-----------------------------------------------------------------------------
(***************************************************************************)
(* The automatic choice.                                                   *)
(***************************************************************************)
LEMMA EdgeIsMeasured ==
  ASSUME NEW j, IsJob(j), NEW model, NEW e
  PROVE  EdgePercentile(j, model, e) \in Int
<1> DEFINE population == j.reference \ {e[1]}
           below == Cardinality({c \in population : model[<<e[1], c>>] < model[<<e[1], e[2]>>]})
           d == Larger(1, Cardinality(population) - 1)
           x == (100 * below) \div d
<1>1. IsFiniteSet(population)
  BY FS_Subset DEF IsJob
<1>2. below \in Nat /\ Cardinality(population) \in Nat
  BY <1>1, FS_Subset, FS_CardinalityType
<1>3. d \in Nat /\ d >= 1
  BY <1>2 DEF Larger
<1>4. EdgePercentile(j, model, e) = Min({100, x})
  BY DEF EdgePercentile
<1> HIDE DEF below, d
<1>5. x \in Int
  BY <1>2, <1>3
<1> HIDE DEF x
<1>6. Min({100, x}) \in Int
  BY <1>5 DEF Min
<1> QED
  BY <1>4, <1>6

LEMMA QualityIsMeasured ==
  ASSUME NEW j, IsJob(j), Shape(j), NEW n, NEW g, NEW out, IsSpending(j, g, out, n),
         NEW r, Laid(j, r, g, out, n)
  PROVE  Quality(j, r).worst \in Int
<1> DEFINE edges == Elements(BoundaryEdges(j, r))
           judged == IF Cautious(j) THEN Len(j.models) ELSE 1
           worst(m) == WorstPercentile(j, j.models[m], r)
           percentiles == [m \in 1..judged |-> worst(m)]
<1>1. edges # {} /\ IsFiniteSet(edges)
  <2> DEFINE E == BoundaryEdges(j, r)
             N == Len(E)
             X == (DOMAIN j.tracks) \X (DOMAIN j.tracks)
  <2>1. E \in Seq(X) /\ N \in Nat /\ N >= 1
    BY BoundaryEdgesAre
  <2> HIDE DEF E, X
  <2>2. DOMAIN E = 1..N /\ 1 \in 1..N
    BY <2>1
  <2>3. E \in Surjection(1..N, Elements(E))
    <3>1. E \in [1..N -> X]
      BY <2>1
    <3> HIDE DEF N
    <3> QED
      BY <2>2, <3>1 DEF Surjection, Elements
  <2>4. Elements(E) # {}
    BY <2>2 DEF Elements
  <2>5. IsFiniteSet(1..N)
    BY <2>1, FS_Interval
  <2> QED
    BY <2>3, <2>4, <2>5, FS_Surjection DEF E
<1>2. judged \in Nat /\ judged >= 1
  BY DEF IsJob
<1> HIDE DEF edges, judged
<1>3. ASSUME NEW m \in 1..judged PROVE worst(m) \in Int
  <2> DEFINE at(e) == EdgePercentile(j, j.models[m], e)
             S == {at(e) : e \in edges}
             f == [e \in edges |-> at(e)]
  <2>1. worst(m) = Max(S)
    BY DEF WorstPercentile, edges
  <2>2. \A e \in edges : at(e) \in Int
    BY EdgeIsMeasured
  <2> HIDE DEF at
  <2>3. f \in Surjection(edges, S)
    BY DEF Surjection
  <2>4. S \in SUBSET Int /\ S # {}
    BY <1>1, <2>2
  <2> HIDE DEF f, S
  <2>5. IsFiniteSet(S)
    BY <1>1, <2>3, FS_Surjection
  <2>6. \E x \in S : \A y \in S : x >= y
    BY <2>4, <2>5, MaximumExists
  <2>7. Max(S) \in Int
    BY <2>4, <2>6 DEF Max
  <2> HIDE DEF worst
  <2> QED
    BY <2>1, <2>7
<1>4. Quality(j, r).worst = Max(Elements(percentiles))
  BY DEF Quality, judged
<1> HIDE DEF worst
<1> DEFINE S == Elements(percentiles)
<1>5. S \in SUBSET Int /\ S # {} /\ IsFiniteSet(S)
  <2>1. percentiles \in [1..judged -> Int] /\ DOMAIN percentiles = 1..judged
    BY <1>3
  <2> HIDE DEF percentiles
  <2>2. S = {percentiles[i] : i \in 1..judged}
    BY <2>1 DEF Elements
  <2>3. percentiles \in Surjection(1..judged, S)
    BY <2>1, <2>2 DEF Surjection
  <2>4. S \in SUBSET Int /\ 1 \in 1..judged
    BY <1>2, <2>1, <2>2
  <2>5. IsFiniteSet(1..judged)
    BY <1>2, FS_Interval
  <2> HIDE DEF S
  <2> QED
    BY <2>2, <2>3, <2>4, <2>5, FS_Surjection
<1> HIDE DEF S
<1>6. \E x \in S : \A y \in S : x >= y
  BY <1>5, MaximumExists
<1>7. Max(S) \in Int
  BY <1>5, <1>6 DEF Max
<1> QED
  BY <1>4, <1>7 DEF S

\* Without additions a route is the source.
LEMMA SourceIsLaid ==
  ASSUME NEW j, IsJob(j), Shape(j)
  PROVE  IsSpending(j, <<>>, 0, 0) /\ Laid(j, j.source, <<>>, 0, 0)
<1> DEFINE p == StartPosition(j)
           b == Len(Block(j))
           s == j.source
<1>1. IsSpending(j, <<>>, 0, 0)
  BY DEF IsSpending
<1>2. /\ p \in Nat /\ b \in Nat /\ s \in Seq(Nat) /\ Len(s) \in Nat
      /\ \A i \in 1..b : Block(j)[i] = s[p + i]
      /\ Rejoins(j) => s[Len(s)] = j.rejoin
  BY DEF Shape, IsJob
<1> HIDE DEF p, b, s
<1>3. /\ Len(s) = Len(s) + 0
      /\ \A i \in 1..0 : s[p + i] = <<>>[i]
      /\ \A i \in 1..b : s[p + 0 + i] = Block(j)[i]
      /\ \A i \in 1..(0 - 0) : s[p + 0 + b + i] = <<>>[0 + i]
      /\ Rejoins(j) => s[Len(s) + 0] = j.rejoin
  BY <1>2
<1> QED
  BY <1>1, <1>2, <1>3 DEF Laid, p, b, s

Worst(j, route) == Quality(j, route).worst

LEMMA GoodQuality ==
  ASSUME NEW j, IsJob(j), Shape(j), NEW max \in Nat, NEW o, GoodOption(j, max, o)
  PROVE  /\ Worst(j, o.route) \in Int /\ Worst(j, j.source) \in Int
         /\ o.count \in Nat /\ (o.count = 0 => o.route = j.source)
<1>1. o.count \in Nat /\ o.route \in GoodRoutes(j, o.count)
  BY DEF GoodOption
<1>2. PICK s \in Spendings(j, o.count) : /\ IsSpending(j, s[1], s[2], o.count)
                                         /\ Laid(j, o.route, s[1], s[2], o.count)
  BY <1>1, GoodRouteIsLaid
<1>3. Worst(j, o.route) \in Int
  BY <1>2, QualityIsMeasured DEF Worst
<1>4. Worst(j, j.source) \in Int
  BY SourceIsLaid, QualityIsMeasured DEF Worst
<1>5. ASSUME o.count = 0 PROVE o.route = j.source
  <2>1. s[2] = 0 /\ s[1] = <<>>
    BY <1>2, <1>5 DEF IsSpending
  <2>2. Laid(j, o.route, <<>>, 0, 0)
    BY <1>2, <1>5, <2>1
  <2> QED
    BY <2>2, SourceIsLaid, LaidIsUnique
<1> QED
  BY <1>1, <1>3, <1>4, <1>5

\* Every rival among the best options of all counts is the best rival of its
\* count.
Rivals(j, F) == {o \in F : o.count >= Larger(1, Fewest(j))}

LEMMA RivalsAreRanked ==
  ASSUME NEW j, IsJob(j), Shape(j), NEW max \in Nat, NEW F, \A o \in F : GoodOption(j, max, o),
         NEW k \in DOMAIN BestByCount(F), BestByCount(F)[k].count >= Larger(1, Fewest(j))
  PROVE  \E l \in DOMAIN BestByCount(Rivals(j, F)) :
           BestByCount(Rivals(j, F))[l] = BestByCount(F)[k]
<1> DEFINE R == Rivals(j, F)
           C == BestByCount(F)
           D == BestByCount(R)
           o == C[k]
<1>1. \A r \in R : GoodOption(j, max, r)
  BY DEF Rivals
<1>2. R = {r \in F : r.count >= Larger(1, Fewest(j))}
  BY DEF Rivals
<1> HIDE DEF R
<1>3. IsRanking(C, F) /\ IsRanking(D, R)
  BY <1>1, BestByCountIsRanking
<1>4. k \in DOMAIN C /\ o.count >= Larger(1, Fewest(j))
  OBVIOUS
<1> HIDE DEF C, D
<1>5. o \in F /\ o = BestOption({r \in F : r.count = o.count})
  BY <1>3, <1>4 DEF IsRanking
<1>6. o \in R
  BY <1>2, <1>4, <1>5
<1> HIDE DEF o
<1>7. PICK l \in DOMAIN D : D[l].count = o.count
  BY <1>3, <1>6 DEF IsRanking
<1>8. D[l] = BestOption({r \in R : r.count = o.count})
  BY <1>3, <1>7 DEF IsRanking
<1>9. {r \in R : r.count = o.count} = {r \in F : r.count = o.count}
  BY <1>2, <1>4 DEF o
<1>10. D[l] = o
  BY <1>5, <1>8, <1>9
<1> QED
  BY <1>7, <1>10 DEF o, C, D, R

\* What it means that the comparison is through with an option.
Passed(j, o, best) ==
  /\ Worst(j, o.route) > j.trigger
  /\ best # NoOption /\ Worst(j, best.route) <= Worst(j, o.route)

\* What the best effort so far is worth: a direct route is given up for a gain.
IsWorthIt(j, d, best) ==
  (Fewest(j) = 0 /\ d # <<>>) =>
    /\ best # NoOption
    /\ (best.count > 0 /\ Cautious(j)) => Worst(j, best.route) < Worst(j, j.source)

\* What is left to compare, in order, and what has been compared.
Comparing(j, d, F, left, best) ==
  /\ \A k, l \in DOMAIN left : k < l => left[k].count < left[l].count
  /\ \A k \in DOMAIN left : left[k] \in Rivals(j, F)
  /\ \A o \in Elements(BestByCount(Rivals(j, F))) : o \in Elements(left) \/ Passed(j, o, best)
  /\ IsWorthIt(j, d, best)

\* A better best effort is nowhere worse, and one that is passed over is.
LEMMA BetterIsBetter ==
  ASSUME NEW j, NEW a, NEW b, a.worst \in Int, b.worst \in Int, NEW m \in Nat, NEW n \in Nat
  PROVE  /\ BetterBestEffort(j, a, m, b, n) =>
              /\ a.worst <= b.worst
              /\ (Cautious(j) /\ n = 0 /\ m > 0) => a.worst < b.worst
         /\ ~BetterBestEffort(j, a, m, b, n) => b.worst <= a.worst
<1> DEFINE s == <<a.worst, a.sum, a.transition, m>>
           t == <<b.worst, b.sum, b.transition, n>>
<1>1. /\ s[1] = a.worst /\ t[1] = b.worst /\ DOMAIN s = 1..4 /\ DOMAIN t = 1..4
      /\ BetterQuality(a, m, b, n) <=> LexBefore(s, t)
  BY DEF BetterQuality
<1> HIDE DEF s, t
<1>2. LexBefore(s, t) => a.worst <= b.worst
  <2> SUFFICES ASSUME LexBefore(s, t) PROVE a.worst <= b.worst
    OBVIOUS
  <2>1. PICK i \in 1..4 : s[i] < t[i] /\ \A k \in 1..(i - 1) : s[k] = t[k]
    BY <1>1 DEF LexBefore
  <2>2. CASE i = 1
    BY <1>1, <2>1, <2>2
  <2>3. CASE i # 1
    <3>1. 1 \in 1..(i - 1)
      BY <2>3
    <3>2. s[1] = t[1]
      BY <2>1, <3>1
    <3> QED
      BY <1>1, <3>2
  <2> QED
    BY <2>2, <2>3
<1>3. a.worst < b.worst => LexBefore(s, t)
  <2> SUFFICES ASSUME a.worst < b.worst PROVE LexBefore(s, t)
    OBVIOUS
  <2>1. 1 \in (DOMAIN s) \cap (DOMAIN t) /\ s[1] < t[1] /\ 1..(1 - 1) = {}
    BY <1>1
  <2> QED
    BY <2>1 DEF LexBefore
<1>4. BetterBestEffort(j, a, m, b, n) <=>
        /\ (Cautious(j) /\ n = 0 /\ m > 0) => a.worst <= b.worst - 1
        /\ LexBefore(s, t)
  BY <1>1 DEF BetterBestEffort, MinimumImprovement
<1> QED
  BY <1>2, <1>3, <1>4

LEMMA RankedAreMembers ==
  ASSUME NEW j, IsJob(j), Shape(j), NEW max \in Nat, NEW F, \A o \in F : GoodOption(j, max, o),
         NEW o \in Elements(BestByCount(Rivals(j, F)))
  PROVE  o \in Rivals(j, F) /\ o \in F
<1>1. \A r \in Rivals(j, F) : GoodOption(j, max, r)
  BY DEF Rivals
<1>2. IsRanking(BestByCount(Rivals(j, F)), Rivals(j, F))
  BY <1>1, BestByCountIsRanking
<1>3. o \in Rivals(j, F)
  BY <1>2 DEF IsRanking, Elements
<1> QED
  BY <1>3 DEF Rivals

LEMMA GoodIsSome ==
  ASSUME NEW j, NEW max, NEW o, GoodOption(j, max, o)
  PROVE  o # NoOption
<1>1. PICK route, count : o = CompleteOption(j, route, count)
  BY DEF GoodOption
<1>2. PICK sum, worst : o = [route |-> route, count |-> count, sum |-> sum, worst |-> worst]
  BY <1>1 DEF CompleteOption
<1>3. "count" \in DOMAIN o
  BY <1>2
<1>4. "count" \notin DOMAIN NoOption
  BY DEF NoOption
<1> QED
  BY <1>3, <1>4

LEMMA OneIsCompared ==
  ASSUME NEW j, IsJob(j), Shape(j), NEW max \in Nat, NEW F, \A o \in F : GoodOption(j, max, o),
         Fewest(j) \in Nat,
         NEW d, NEW left \in Seq(F), left # <<>>, NEW best,
         best = NoOption \/ GoodOption(j, max, best),
         Comparing(j, d, F, left, best),
         NEW next,
         next = IF \/ best = NoOption
                   \/ BetterBestEffort(j, Quality(j, Head(left).route), Head(left).count,
                                       Quality(j, best.route), best.count)
                THEN Head(left) ELSE best
  PROVE  /\ Worst(j, Head(left).route) > j.trigger => Comparing(j, d, F, Tail(left), next)
         /\ Head(left).count > 0
         /\ \A o \in Elements(BestByCount(Rivals(j, F))) :
              o.count < Head(left).count => Worst(j, o.route) > j.trigger
<1> DEFINE h == Head(left)
           W(o) == Worst(j, o.route)
<1>1. /\ 1 \in DOMAIN left /\ h = left[1] /\ h \in F
      /\ \A k \in DOMAIN Tail(left) : k \in Nat /\ k >= 1 /\ k + 1 \in DOMAIN left
                                      /\ Tail(left)[k] = left[k + 1]
      /\ \A k \in DOMAIN left : k = 1 \/ (k > 1 /\ k - 1 \in DOMAIN Tail(left)
                                         /\ left[k] = Tail(left)[k - 1])
  OBVIOUS
<1>2. /\ \A k, l \in DOMAIN left : k < l => left[k].count < left[l].count
      /\ \A k \in DOMAIN left : left[k] \in Rivals(j, F)
      /\ \A o \in Elements(BestByCount(Rivals(j, F))) : o \in Elements(left) \/ Passed(j, o, best)
      /\ IsWorthIt(j, d, best)
  BY DEF Comparing
<1>3. /\ \A o \in F : W(o) \in Int /\ o.count \in Nat
      /\ Worst(j, j.source) \in Int
  BY <1>1, GoodQuality
<1>4. best # NoOption => /\ W(best) \in Int /\ best.count \in Nat
                         /\ best.count = 0 => best.route = j.source
  BY GoodQuality
<1>5. h.count > 0
  <2>1. h.count >= Larger(1, Fewest(j)) /\ h.count \in Nat
    BY <1>1, <1>2, <1>3 DEF Rivals
  <2> QED
    BY <2>1 DEF Larger
<1>6. \A o \in Elements(left) : o = h \/ (o \in Elements(Tail(left)) /\ h.count < o.count)
  <2> SUFFICES ASSUME NEW k \in DOMAIN left
               PROVE  left[k] = h \/ (left[k] \in Elements(Tail(left)) /\ h.count < left[k].count)
    BY DEF Elements
  <2>1. k = 1 => left[k] = h
    BY <1>1
  <2>2. k # 1 => left[k] \in Elements(Tail(left)) /\ h.count < left[k].count
    BY <1>1, <1>2 DEF Elements
  <2> QED
    BY <2>1, <2>2
<1> HIDE DEF h
<1>7. ASSUME NEW o \in Elements(BestByCount(Rivals(j, F))), o.count < h.count
      PROVE  W(o) > j.trigger
  <2>1. o \notin Elements(left)
    <3>1. ASSUME o \in Elements(left) PROVE o.count \in Nat
      <4>1. o \in F
        BY <3>1 DEF Elements
      <4> QED
        BY <1>3, <4>1
    <3> QED
      BY <1>1, <1>3, <1>6, <1>7, <3>1
  <2> QED
    BY <1>2, <2>1 DEF Passed
<1> DEFINE better == BetterBestEffort(j, Quality(j, h.route), h.count, Quality(j, best.route), best.count)
<1>8. next = IF best = NoOption \/ better THEN h ELSE best
  BY DEF h
<1>9. best # NoOption =>
        /\ better => W(h) <= W(best) /\ ((Cautious(j) /\ best.count = 0) => W(h) < W(best))
        /\ ~better => W(best) <= W(h)
  <2> SUFFICES ASSUME best # NoOption
               PROVE  /\ better => W(h) <= W(best) /\ ((Cautious(j) /\ best.count = 0) => W(h) < W(best))
                      /\ ~better => W(best) <= W(h)
    OBVIOUS
  <2> DEFINE a == Quality(j, h.route)
             b == Quality(j, best.route)
  <2>1. a.worst \in Int /\ b.worst \in Int /\ h.count \in Nat /\ best.count \in Nat
        /\ W(h) = a.worst /\ W(best) = b.worst
    BY <1>1, <1>3, <1>4 DEF Worst
  <2>2. /\ better => /\ a.worst <= b.worst
                     /\ (Cautious(j) /\ best.count = 0 /\ h.count > 0) => a.worst < b.worst
        /\ ~better => b.worst <= a.worst
    <3> HIDE DEF a, b
    <3>1. better <=> BetterBestEffort(j, a, h.count, b, best.count)
      BY DEF a, b
    <3> HIDE DEF better
    <3> QED
      BY <2>1, <3>1, BetterIsBetter
  <2> QED
    BY <1>5, <2>1, <2>2
<1> HIDE DEF better, W
<1>10. next # NoOption /\ W(next) \in Int
  <2>1. h # NoOption
    BY <1>1, GoodIsSome
  <2> QED
    BY <1>1, <1>3, <1>4, <1>8, <2>1
<1>11. W(next) <= W(h) /\ (best # NoOption => W(next) <= W(best))
  BY <1>1, <1>3, <1>4, <1>8, <1>9
<1>12. ASSUME W(h) > j.trigger PROVE Comparing(j, d, F, Tail(left), next)
  <2>1. \A k, l \in DOMAIN Tail(left) : k < l => Tail(left)[k].count < Tail(left)[l].count
    BY <1>1, <1>2
  <2>2. \A k \in DOMAIN Tail(left) : Tail(left)[k] \in Rivals(j, F)
    BY <1>1, <1>2
  <2>3. ASSUME NEW o \in Elements(BestByCount(Rivals(j, F)))
        PROVE  o \in Elements(Tail(left)) \/ Passed(j, o, next)
    <3>1. CASE o = h
      BY <1>10, <1>11, <1>12, <3>1 DEF Passed, W
    <3>2. CASE Passed(j, o, best)
      <4>1. /\ W(o) > j.trigger /\ best # NoOption /\ W(best) <= W(o)
        BY <3>2 DEF Passed, W
      <4>2. W(o) \in Int
        BY <1>3, RankedAreMembers DEF W
      <4>3. W(next) <= W(o)
        BY <1>4, <1>10, <1>11, <4>1, <4>2
      <4> QED
        BY <1>10, <4>1, <4>3 DEF Passed, W
    <3> QED
      BY <1>2, <1>6, <3>1, <3>2
  <2>4. IsWorthIt(j, d, next)
    <3> SUFFICES ASSUME Fewest(j) = 0, d # <<>>, next.count > 0, Cautious(j)
                 PROVE  W(next) < Worst(j, j.source)
      BY <1>10 DEF IsWorthIt, W
    <3>1. best # NoOption
      BY <1>2 DEF IsWorthIt
    <3>2. CASE best.count = 0
      <4>1. W(best) = Worst(j, j.source) /\ next = h /\ better
        BY <1>4, <1>8, <3>1, <3>2 DEF W
      <4> QED
        BY <1>9, <3>1, <3>2, <4>1
    <3>3. CASE best.count > 0
      <4>1. W(best) < Worst(j, j.source)
        BY <1>2, <3>3 DEF IsWorthIt, W
      <4> QED
        BY <1>3, <1>4, <1>10, <1>11, <3>1, <4>1
    <3> QED
      BY <1>4, <3>1, <3>2, <3>3
  <2> QED
    BY <2>1, <2>2, <2>3, <2>4 DEF Comparing
<1> QED
  BY <1>5, <1>7, <1>12 DEF h, W

\* What the automatic choice promises.
IsRightChoice(j, F, d, o) ==
  LET C == BestByCount(F)
      rivals == {k \in DOMAIN C : C[k].count >= Larger(1, Fewest(j))}
  IN IF Worst(j, o.route) <= j.trigger /\ o.count > 0
     THEN \A k \in rivals : C[k].count < o.count => Worst(j, C[k].route) > j.trigger
     ELSE /\ \A k \in rivals : Worst(j, C[k].route) > j.trigger
          /\ o.count > 0 =>
               /\ \A k \in rivals : Worst(j, o.route) <= Worst(j, C[k].route)
               /\ (Fewest(j) = 0 /\ Cautious(j) /\ d # <<>>) =>
                    Worst(j, o.route) < Worst(j, j.source)

Choice ==
  /\ pc \in Beginnings \cup {"direct", "outward"} => found = {}
  /\ (pc = "compare" /\ job.mode = "automatic") =>
       Comparing(job, direct, found, options, fallback)
  /\ (pc = "done" /\ job.mode = "automatic" /\ found # {}) =>
       IsRightChoice(job, found, direct, outcome)

ChoiceInvariant == SoundInvariant /\ Choice

LEMMA CollectBegins == ChoiceInvariant /\ Collect => Choice'
<1> SUFFICES ASSUME ChoiceInvariant, Collect PROVE Choice'
  OBVIOUS
<1>1. /\ pc = "return" /\ pc' = "compare" /\ job' = job /\ direct' = direct /\ found' = found
      /\ options' = BestByCount({o \in found : job.mode = "exact" \/ IsRival(o)})
      /\ fallback' = IF job.mode = "automatic" /\ Minimum = 0
                        /\ SearchedDirect(BestByCount(found)) # <<>>
                     THEN SearchedDirect(BestByCount(found))[1] ELSE NoOption
  BY DEF Collect
<1> SUFFICES ASSUME job.mode = "automatic"
             PROVE  Comparing(job, direct, found, options', fallback')
  BY <1>1 DEF Choice, Beginnings
<1> DEFINE F == found
           R == Rivals(job, F)
           C == BestByCount(R)
           sorted == BestByCount(F)
<1>2. /\ IsJob(job) /\ Valid(job) /\ Shape(job) /\ Most(job) \in Nat /\ Fewest(job) \in Nat
  BY <1>1, SearchedShape DEF ChoiceInvariant, SoundInvariant, Beginnings
<1>3. \A o \in F : GoodOption(job, Most(job), o)
  BY DEF ChoiceInvariant, SoundInvariant, FoundIsSound
<1>4. {o \in found : job.mode = "exact" \/ IsRival(o)} = R
  BY DEF Rivals, IsRival, Minimum, Fewest
<1>5. options' = C
  BY <1>1, <1>4
<1>6. \A o \in R : GoodOption(job, Most(job), o)
  BY <1>3 DEF Rivals
<1>7. IsRanking(sorted, F)
  BY <1>2, <1>3, BestByCountIsRanking
<1> HIDE DEF R
<1>8. IsRanking(C, R)
  BY <1>2, <1>6, BestByCountIsRanking
<1> HIDE DEF C, sorted
<1>9. IsWorthIt(job, direct, fallback')
  <2> SUFFICES ASSUME Fewest(job) = 0, direct # <<>>
               PROVE  fallback' # NoOption /\ fallback'.count = 0
    BY DEF IsWorthIt
  <2>1. Minimum = 0
    BY DEF Minimum, Fewest
  <2>2. CASE sorted # <<>> /\ sorted[1].count = 0
    <3>1. PICK N \in Nat : DOMAIN sorted = 1..N /\ sorted \in Seq(F)
      BY <1>7 DEF IsRanking
    <3>2. 1 \in DOMAIN sorted
      BY <2>2, <3>1
    <3>3. GoodOption(job, Most(job), sorted[1])
      BY <1>3, <1>7, <3>2 DEF IsRanking
    <3>4. SearchedDirect(sorted) = <<sorted[1]>>
      BY <2>2 DEF SearchedDirect
    <3>5. fallback' = sorted[1]
      BY <1>1, <2>1, <3>4 DEF sorted
    <3> QED
      BY <2>2, <3>3, <3>5, GoodIsSome
  <2>3. CASE ~(sorted # <<>> /\ sorted[1].count = 0)
    <3>1. SearchedDirect(sorted) = direct
      BY <2>3 DEF SearchedDirect
    <3>2. fallback' = direct[1]
      BY <1>1, <2>1, <3>1 DEF sorted
    <3>3. GoodOption(job, 0, direct[1])
      BY DEF ChoiceInvariant, SoundInvariant, FoundIsSound
    <3>4. direct[1].count = 0
      BY <3>3 DEF GoodOption
    <3> QED
      BY <3>2, <3>3, <3>4, GoodIsSome
  <2> QED
    BY <2>2, <2>3
<1> QED
  BY <1>5, <1>8, <1>9 DEF Comparing, IsRanking, C, R

LEMMA TargetIsMet == ChoiceInvariant /\ CompareOption => Choice'
<1> SUFFICES ASSUME ChoiceInvariant, CompareOption PROVE Choice'
  OBVIOUS
<1> DEFINE h == Head(options)
<1>1. /\ pc = "compare" /\ job.mode = "automatic" /\ options # <<>> /\ options' = Tail(options)
      /\ job' = job /\ direct' = direct /\ found' = found
      /\ fallback' = IF \/ fallback = NoOption
                        \/ BetterBestEffort(job, Quality(job, h.route), h.count,
                                            Quality(job, fallback.route), fallback.count)
                     THEN h ELSE fallback
      /\ IF Worst(job, h.route) <= job.trigger
         THEN outcome' = h /\ pc' = "done"
         ELSE pc' = pc
  BY DEF CompareOption, Worst
<1>2. /\ IsJob(job) /\ Shape(job) /\ Most(job) \in Nat /\ Fewest(job) \in Nat
  BY <1>1, SearchedShape DEF ChoiceInvariant, SoundInvariant, Beginnings
<1>3. /\ \A o \in found : GoodOption(job, Most(job), o)
      /\ options \in Seq(found)
      /\ fallback = NoOption \/ GoodOption(job, Most(job), fallback)
      /\ Comparing(job, direct, found, options, fallback)
  BY <1>1 DEF ChoiceInvariant, SoundInvariant, FoundIsSound, Acceptable, Choice
<1>4. /\ Worst(job, h.route) > job.trigger =>
           Comparing(job, direct, found, Tail(options), fallback')
      /\ h.count > 0
      /\ \A o \in Elements(BestByCount(Rivals(job, found))) :
           o.count < h.count => Worst(job, o.route) > job.trigger
  BY <1>1, <1>2, <1>3, OneIsCompared
<1>5. Worst(job, h.route) \in Int /\ job.trigger \in Int
  <2>1. h \in found
    BY <1>1, <1>3
  <2>2. Worst(job, h.route) \in Int
    BY <1>2, <1>3, <2>1, GoodQuality
  <2> QED
    BY <1>2, <2>2 DEF IsJob
<1> HIDE DEF h
<1>6. CASE Worst(job, h.route) <= job.trigger
  <2>1. IsRightChoice(job, found, direct, h)
    <3> SUFFICES ASSUME NEW k \in DOMAIN BestByCount(found),
                        BestByCount(found)[k].count >= Larger(1, Fewest(job)),
                        BestByCount(found)[k].count < h.count
                 PROVE  Worst(job, BestByCount(found)[k].route) > job.trigger
      BY <1>4, <1>6 DEF IsRightChoice
    <3>1. \E l \in DOMAIN BestByCount(Rivals(job, found)) :
            BestByCount(Rivals(job, found))[l] = BestByCount(found)[k]
      BY <1>2, <1>3, RivalsAreRanked
    <3>2. BestByCount(found)[k] \in Elements(BestByCount(Rivals(job, found)))
      BY <3>1 DEF Elements
    <3> QED
      BY <1>4, <3>2
  <2> QED
    BY <1>1, <1>6, <2>1 DEF Choice, Beginnings
<1>7. CASE ~(Worst(job, h.route) <= job.trigger)
  <2>1. Worst(job, h.route) > job.trigger
    BY <1>5, <1>7
  <2> QED
    BY <1>1, <1>4, <1>7, <2>1 DEF Choice, Beginnings
<1> QED
  BY <1>6, <1>7

LEMMA FallbackIsRight == ChoiceInvariant /\ ChooseFallback => Choice'
<1> SUFFICES ASSUME ChoiceInvariant, ChooseFallback PROVE Choice'
  OBVIOUS
<1>1. /\ pc = "compare" /\ job.mode = "automatic" /\ options = <<>>
      /\ job' = job /\ direct' = direct /\ found' = found /\ outcome' = fallback
      /\ pc' = IF fallback = NoOption THEN "not found" ELSE "done"
  BY DEF ChooseFallback
<1> SUFFICES ASSUME fallback # NoOption PROVE IsRightChoice(job, found, direct, fallback)
  BY <1>1 DEF Choice, Beginnings
<1>2. /\ IsJob(job) /\ Shape(job) /\ Most(job) \in Nat /\ Fewest(job) \in Nat
  BY <1>1, SearchedShape DEF ChoiceInvariant, SoundInvariant, Beginnings
<1>3. /\ \A o \in found : GoodOption(job, Most(job), o)
      /\ Comparing(job, direct, found, options, fallback)
  BY <1>1 DEF ChoiceInvariant, SoundInvariant, FoundIsSound, Choice
<1>4. ASSUME NEW k \in DOMAIN BestByCount(found),
             BestByCount(found)[k].count >= Larger(1, Fewest(job))
      PROVE  /\ Worst(job, BestByCount(found)[k].route) > job.trigger
             /\ Worst(job, fallback.route) <= Worst(job, BestByCount(found)[k].route)
  <2>1. \E l \in DOMAIN BestByCount(Rivals(job, found)) :
          BestByCount(Rivals(job, found))[l] = BestByCount(found)[k]
    BY <1>2, <1>3, <1>4, RivalsAreRanked
  <2>2. BestByCount(found)[k] \in Elements(BestByCount(Rivals(job, found)))
    BY <2>1 DEF Elements
  <2>3. BestByCount(found)[k] \notin Elements(options)
    BY <1>1 DEF Elements
  <2> QED
    BY <1>3, <2>2, <2>3 DEF Comparing, Passed
<1>5. (Fewest(job) = 0 /\ Cautious(job) /\ direct # <<>> /\ fallback.count > 0) =>
        Worst(job, fallback.route) < Worst(job, job.source)
  BY <1>3 DEF Comparing, IsWorthIt
<1> QED
  BY <1>4, <1>5 DEF IsRightChoice

LEMMA ChoiceAlways == Spec => []ChoiceInvariant
<1>1. Init => Choice
  BY DEF Init, Choice, Beginnings
<1>2. ChoiceInvariant /\ [Next]_vars => Choice'
  <2> SUFFICES ASSUME ChoiceInvariant, [Next]_vars PROVE Choice'
    OBVIOUS
  <2>1. CASE Preflight
    BY <2>1 DEF Preflight, Idle, ChoiceInvariant, Choice, Beginnings
  <2>2. CASE Validate
    BY <2>2 DEF Validate, Idle, ChoiceInvariant, Choice, Beginnings
  <2>3. CASE Direct
    BY <2>3 DEF Direct, ChoiceInvariant, Choice, Beginnings
  <2>4. CASE SearchOutward
    BY <2>4 DEF SearchOutward, ChoiceInvariant, Choice, Beginnings
  <2>5. CASE \E outward \in pending : SearchReturn(outward)
    BY <2>5 DEF SearchReturn, ChoiceInvariant, Choice, Beginnings
  <2>6. CASE Collect
    BY <2>6, CollectBegins
  <2>7. CASE ChooseExact
    BY <2>7 DEF ChooseExact, ChoiceInvariant, Choice, Beginnings
  <2>8. CASE CompareOption
    BY <2>8, TargetIsMet
  <2>9. CASE ChooseFallback
    BY <2>9, FallbackIsRight
  <2>10. CASE Stopped \/ UNCHANGED vars
    BY <2>10 DEF Stopped, vars, ChoiceInvariant, Choice
  <2> QED
    BY <2>1, <2>2, <2>3, <2>4, <2>5, <2>6, <2>7, <2>8, <2>9, <2>10 DEF Next
<1>3. ChoiceInvariant /\ [Next]_vars /\ SoundInvariant' => ChoiceInvariant'
  BY <1>2 DEF ChoiceInvariant
<1> QED
  BY <1>1, <1>3, SoundAlways, PTL DEF Spec, ChoiceInvariant

\* An automatic route meets the target with the fewest permitted additions, or
\* is the best effort, for which a cautious request gives the direct route up
\* only for a gain (main.rs:6822-6945), whatever the distances, the models, the
\* trigger and the limits are.
THEOREM AutomaticChoiceIsRight == Spec => []AutomaticOutcome
<1>1. Choice => AutomaticOutcome
  BY DEF Choice, AutomaticOutcome, IsRightChoice, Candidates, IsRival, Minimum, Fewest, Worst
<1> QED
  BY <1>1, ChoiceAlways, PTL DEF ChoiceInvariant

-----------------------------------------------------------------------------
(***************************************************************************)
(* One way to a single destination with limits that cut nothing: the paths *)
(* of the search's reference are the routes of the whole one's.            *)
(***************************************************************************)
OneWay(j) == ~Rejoins(j) /\ Len(Block(j)) = 1

OutwardRequest(j, max) ==
  SearchRequest(j, SubSeq(j.source, 1, StartPosition(j)), Head(Block(j)), j.source, 0, max)

RouteBy(j, path) == SubSeq(j.source, 1, StartPosition(j)) \o path \o <<Head(Block(j))>>

Spendable(j) == j.eligible \ Elements(j.source)

\* The places of a route that ends with its destination.
LEMMA OneWayShape ==
  ASSUME NEW j, IsJob(j), Shape(j), OneWay(j)
  PROVE  LET p == StartPosition(j)
             a == SubSeq(j.source, 1, p) IN
         /\ p \in Nat /\ p >= 1 /\ Len(j.source) = p + 1
         /\ a \in Seq(Nat) /\ Len(a) = p /\ \A i \in 1..p : a[i] = j.source[i]
         /\ Head(Block(j)) = Block(j)[1] /\ Block(j)[1] \in Nat
         /\ Block(j)[1] = j.source[p + 1] /\ Last(a) = j.start
<1> DEFINE p == StartPosition(j)
           a == SubSeq(j.source, 1, p)
           B == Block(j)
<1>1. /\ j.source \in Seq(Nat) /\ p \in Nat /\ p >= 1 /\ B \in Seq(Nat) /\ Len(B) = 1
      /\ p <= Len(j.source) /\ Len(j.source) = p + 1
  <2>1. /\ j.source \in Seq(Nat) /\ p \in Nat /\ p >= 1 /\ B \in Seq(Nat)
        /\ p <= Len(j.source) /\ Len(j.source) = p + Len(B) + (IF Rejoins(j) THEN 1 ELSE 0)
    BY ShapeParts
  <2>2. Len(B) = 1 /\ ~Rejoins(j)
    BY DEF OneWay
  <2> HIDE DEF p, B
  <2> QED
    BY <2>1, <2>2
<1>2. j.source[p] = j.start /\ \A i \in 1..Len(B) : B[i] = j.source[p + i]
  BY DEF Shape
<1> HIDE DEF p, B
<1>3. a \in Seq(Nat) /\ Len(a) = p /\ \A i \in 1..p : a[i] = j.source[i]
  BY <1>1, Beginning
<1>4. Last(a) = j.start
  <2>1. p \in 1..p
    BY <1>1
  <2> QED
    BY <1>2, <1>3, <2>1 DEF Last
<1>5. Head(B) = B[1] /\ B[1] \in Nat /\ B[1] = j.source[p + 1]
  BY <1>1, <1>2
<1> QED
  BY <1>1, <1>3, <1>4, <1>5 DEF p, B

LEMMA OneWaySpending ==
  ASSUME NEW j, IsJob(j), OneWay(j), NEW n \in Nat, NEW path \in Injections(Spendable(j), n)
  PROVE  /\ IsSpending(j, path, n, n) /\ path \in [1..n -> Nat]
         /\ path \in Seq(Nat) /\ Len(path) = n
<1>1. path \in [1..n -> Spendable(j)] /\ IsInjective(path) /\ DOMAIN path = 1..n
  BY DEF Injections
<1>2. \A i, k \in 1..n : path[i] = path[k] => i = k
  BY <1>1 DEF IsInjective
<1>3. path \in [1..n -> Nat]
  BY <1>1 DEF Spendable, IsJob
<1>4. path \in Seq(Nat) /\ Len(path) = n
  BY <1>3
<1>5. n \in 0..n
  OBVIOUS
<1> QED
  BY <1>1, <1>2, <1>3, <1>4, <1>5 DEF IsSpending, Spendable

\* The route the search makes of a path is the reference's.
LEMMA OneWayRoute ==
  ASSUME NEW j, IsJob(j), Shape(j), OneWay(j), NEW n \in Nat,
         NEW path \in Injections(Spendable(j), n)
  PROVE  /\ Laid(j, RouteBy(j, path), path, n, n)
         /\ RouteBy(j, path) = RouteOf(j, <<path, n>>)
<1> DEFINE p == StartPosition(j)
           a == SubSeq(j.source, 1, p)
           d == Block(j)[1]
           r == a \o path \o <<d>>
<1>1. /\ p \in Nat /\ p >= 1 /\ Len(j.source) = p + 1 /\ d \in Nat
      /\ a \in Seq(Nat) /\ Len(a) = p /\ \A i \in 1..p : a[i] = j.source[i]
      /\ Head(Block(j)) = d
  BY OneWayShape
<1>2. path \in Seq(Nat) /\ Len(path) = n /\ IsSpending(j, path, n, n)
  BY OneWaySpending
<1> HIDE DEF a, d
<1>3. /\ r \in Seq(Nat) /\ Len(r) = Len(a) + Len(path) + 1
      /\ \A i \in 1..Len(a) : r[i] = a[i]
      /\ \A i \in 1..Len(path) : r[Len(a) + i] = path[i]
      /\ r[Len(a) + Len(path) + 1] = d
  <2>1. a \in Seq(Nat) /\ path \in Seq(Nat) /\ d \in Nat
    BY <1>1, <1>2
  <2> QED
    BY <2>1, ThreeParts
<1> HIDE DEF r
<1>4. /\ r \in Seq(Nat) /\ Len(r) = Len(j.source) + n
      /\ \A i \in 1..p : r[i] = j.source[i]
      /\ \A i \in 1..n : r[p + i] = path[i]
      /\ r[p + n + 1] = d
  <2> HIDE DEF p
  <2>1. Len(a) + Len(path) + 1 = Len(j.source) + n
    BY <1>1, <1>2
  <2> QED
    BY <1>1, <1>2, <1>3, <2>1
<1>5. \A i \in 1..1 : r[p + n + i] = Block(j)[i]
  <2>1. \A i \in 1..1 : i = 1
    OBVIOUS
  <2> QED
    BY <1>4, <2>1 DEF d
<1>6. \A i \in 1..(n - n) : FALSE
  OBVIOUS
<1>7. Laid(j, r, path, n, n)
  BY <1>4, <1>5, <1>6 DEF Laid, OneWay, p
<1>8. r = RouteOf(j, <<path, n>>)
  BY <1>2, <1>7, LaidIsUnique
<1>9. RouteBy(j, path) = r
  BY <1>1 DEF RouteBy, r, a, p
<1> QED
  BY <1>7, <1>8, <1>9

\* What the search of the way out is asked.
LEMMA OutwardRequestIs ==
  ASSUME NEW j, IsJob(j), Shape(j), NEW max \in Nat
  PROVE  LET req == OutwardRequest(j, max)
             a == SubSeq(j.source, 1, StartPosition(j)) IN
         /\ Admitted(req)
         /\ req.tracks = j.tracks /\ req.w = j.w /\ req.prefix = a
         /\ RepeatPrefix(req) = j.history \o a
         /\ req.left = Last(a) /\ req.right = Head(Block(j)) /\ req.distance = j.models[1]
         /\ req.exempt = 0 /\ req.max = max /\ req.alternatives = 1 /\ req.variation = 0
         /\ req.candidateLimit = j.candidateLimit /\ req.beam = j.beam
         /\ req.unavailable = j.source
         /\ req.candidates = BoundaryCandidates(j, Last(a), Head(Block(j)))
<1>1. Admitted(OutwardRequest(j, max))
  BY OutwardIsBoundary, BoundaryIsAdmitted DEF OutwardRequest
<1> QED
  BY <1>1 DEF OutwardRequest, SearchRequest, RepeatPrefix

\* With a shortlist that is long enough every eligible track takes part.
LEMMA NothingIsPrefiltered ==
  ASSUME NEW j, IsJob(j), Shape(j), CutsNothing(j), NEW max \in Nat
  PROVE  LET req == OutwardRequest(j, max) IN
         /\ Available(req) = Spendable(j)
         /\ \A n \in Nat : Paths(req, n) = Injections(Spendable(j), n)
<1> DEFINE req == OutwardRequest(j, max)
<1>1. DestinationPrefilter(j, req.left, req.right, j.shortlist) = j.eligible
  BY DEF DestinationPrefilter, CutsNothing
<1>2. DOMAIN req.candidates = j.eligible /\ req.unavailable = j.source
  <2>1. req.candidates = BoundaryCandidates(j, req.left, req.right)
        /\ req.unavailable = j.source
    BY OutwardRequestIs
  <2> QED
    BY <1>1, <2>1 DEF BoundaryCandidates
<1> HIDE DEF req
<1>3. Available(req) = Spendable(j)
  BY <1>2 DEF Available, Spendable
<1> QED
  BY <1>3 DEF Paths, Injections, req

LEMMA OneWayWhole ==
  ASSUME NEW j, IsJob(j), Shape(j), OneWay(j), NEW max \in Nat, NEW n \in Nat,
         NEW path \in Injections(Spendable(j), n)
  PROVE  ClosedRoute(OutwardRequest(j, max), path) = j.history \o RouteBy(j, path)
<1> DEFINE h == j.history
           a == SubSeq(j.source, 1, StartPosition(j))
           e == <<Head(Block(j))>>
           ap == a \o path
           req == OutwardRequest(j, max)
<1>1. h \in Seq(Nat) /\ a \in Seq(Nat) /\ e \in Seq(Nat)
  <2>1. a \in Seq(Nat) /\ Head(Block(j)) \in Nat
    BY OneWayShape
  <2> QED
    BY <2>1 DEF IsJob
<1>2. path \in Seq(Nat)
  BY OneWaySpending
<1>3. RepeatPrefix(req) = h \o a /\ req.right = Head(Block(j))
  BY OutwardRequestIs
<1> HIDE DEF h, a, e, req
<1>4. ap \in Seq(Nat)
  BY <1>1, <1>2, Joined
<1>5. (h \o a) \o path = h \o (a \o path)
  BY <1>1, <1>2, JoinedInTurn
<1>6. ClosedRoute(req, path) = ((h \o a) \o path) \o e
  BY <1>3 DEF ClosedRoute, e
<1> HIDE DEF ap
<1>7. (h \o ap) \o e = h \o (ap \o e)
  BY <1>1, <1>4, JoinedInTurn
<1>8. RouteBy(j, path) = ap \o e
  BY DEF RouteBy, ap, a, e
<1> QED
  BY <1>5, <1>6, <1>7, <1>8 DEF ap, h, req

LEMMA OneWaySafe ==
  ASSUME NEW j, IsJob(j), Shape(j), OneWay(j), NEW max \in Nat, NEW n \in Nat,
         NEW path \in Injections(Spendable(j), n)
  PROVE  PathSafe(OutwardRequest(j, max), path)
           <=> GeneratedApart(j, RouteBy(j, path)) /\ AnchorsApart(j, RouteBy(j, path))
<1> DEFINE req == OutwardRequest(j, max)
           r == RouteBy(j, path)
           h == Len(j.history)
           p == StartPosition(j)
           m == h + p
           l == m + n + 1
           whole == j.history \o r
           Apart(x, y) == PairSafe(j.tracks, j.w, whole[x], whole[y], y - x)
           New(i) == i > h /\ whole[i] \notin Elements(j.source)
<1>1. /\ p \in Nat /\ p >= 1 /\ Len(j.source) = p + 1 /\ Block(j)[1] = j.source[p + 1]
      /\ j.source \in Seq(Nat) /\ j.history \in Seq(Nat) /\ h \in Nat
  <2>1. j.source \in Seq(Nat) /\ j.history \in Seq(Nat) /\ h \in Nat
    <3>1. j.source \in Seq(Nat) /\ j.history \in Seq(Nat)
      BY DEF IsJob
    <3> QED
      BY <3>1
  <2>2. p \in Nat /\ p >= 1 /\ Len(j.source) = p + 1 /\ Block(j)[1] = j.source[p + 1]
    BY OneWayShape
  <2> QED
    BY <2>1, <2>2
<1>2. Laid(j, r, path, n, n) /\ IsSpending(j, path, n, n)
  BY OneWayRoute, OneWaySpending
<1>3. /\ r \in Seq(Nat) /\ Len(r) = p + n + 1
      /\ \A i \in 1..p : r[i] = j.source[i]
      /\ \A i \in 1..n : r[p + i] = path[i]
      /\ r[p + n + 1] = Block(j)[1]
  <2>1. /\ r \in Seq(Nat) /\ Len(r) = Len(j.source) + n
        /\ \A i \in 1..p : r[i] = j.source[i]
        /\ \A i \in 1..n : r[p + i] = path[i]
        /\ \A i \in 1..1 : r[p + n + i] = Block(j)[i]
    BY <1>2 DEF Laid, OneWay
  <2> HIDE DEF r, p
  <2>2. Len(j.source) + n = p + n + 1 /\ 1 \in 1..1
    BY <1>1
  <2> QED
    BY <2>1, <2>2
<1>4. /\ whole \in Seq(Nat) /\ Len(whole) = l
      /\ \A i \in 1..h : whole[i] = j.history[i]
      /\ \A i \in 1..Len(r) : whole[h + i] = r[i]
  <2>1. /\ whole \in Seq(Nat) /\ Len(whole) = h + Len(r)
        /\ \A i \in 1..h : whole[i] = j.history[i]
        /\ \A i \in 1..Len(r) : whole[h + i] = r[i]
    <3>1. r \in Seq(Nat)
      BY <1>3
    <3> HIDE DEF r
    <3> QED
      BY <3>1, WholeIs
  <2> HIDE DEF r, h, p, whole
  <2>2. h + Len(r) = l
    BY <1>1, <1>3
  <2> QED
    BY <2>1, <2>2
<1>5. \A i \in 1..n : path[i] \notin Elements(j.source)
  BY <1>2 DEF IsSpending
<1>6. /\ ClosedRoute(req, path) = whole /\ Len(RepeatPrefix(req)) = m
      /\ req.tracks = j.tracks /\ req.w = j.w /\ req.exempt = 0
  <2>1. /\ RepeatPrefix(req) = j.history \o SubSeq(j.source, 1, p)
        /\ req.tracks = j.tracks /\ req.w = j.w /\ req.exempt = 0
    BY OutwardRequestIs
  <2>2. SubSeq(j.source, 1, p) \in Seq(Nat) /\ Len(SubSeq(j.source, 1, p)) = p
    BY OneWayShape
  <2> QED
    BY <1>1, <2>1, <2>2, OneWayWhole, Joined
<1> HIDE DEF req, r, h, p, whole
<1>7. DOMAIN whole = 1..l /\ l \in Nat /\ m \in Nat
  BY <1>1, <1>4
<1>8. ASSUME NEW i \in 1..l PROVE New(i) <=> i \in (m + 1)..(m + n)
  <2>1. CASE i \in 1..h
    BY <1>1, <2>1
  <2>2. CASE i \in (h + 1)..m \/ i = l
    <3>0. p \in Nat /\ h \in Nat /\ Len(r) = p + n + 1
      BY <1>1, <1>3
    <3>1. i - h \in 1..Len(r) /\ h + (i - h) = i
          /\ (i - h \in 1..p \/ i - h = p + n + 1)
      BY <2>2, <3>0
    <3>3. p + 1 \in 1..Len(j.source) /\ (i - h \in 1..p => i - h \in 1..Len(j.source))
      BY <1>1
    <3>4. (whole[i] = j.source[i - h] /\ i - h \in 1..p) \/ whole[i] = j.source[p + 1]
      <4>1. whole[i] = r[i - h]
        BY <1>4, <3>1
      <4>2. CASE i - h \in 1..p
        BY <1>3, <4>1, <4>2
      <4>3. CASE i - h = p + n + 1
        <5>1. r[i - h] = Block(j)[1]
          BY <1>3, <4>3
        <5> QED
          BY <1>1, <4>1, <5>1
      <4> QED
        BY <3>1, <4>2, <4>3
    <3>5. whole[i] \in Elements(j.source)
      BY <1>1, <3>3, <3>4, MembersAre
    <3>6. i \notin (m + 1)..(m + n)
      BY <1>1, <2>2
    <3> QED
      BY <3>5, <3>6
  <2>3. CASE i \in (m + 1)..(m + n)
    <3>0. p \in Nat /\ h \in Nat /\ Len(r) = p + n + 1
      BY <1>1, <1>3
    <3>1. /\ i - h \in 1..Len(r) /\ h + (i - h) = i /\ i - m \in 1..n
          /\ p + (i - m) = i - h /\ i > h
      BY <2>3, <3>0
    <3>2. whole[i] = path[i - m]
      <4>1. whole[i] = r[i - h]
        BY <1>4, <3>1
      <4>2. r[p + (i - m)] = path[i - m]
        BY <1>3, <3>1
      <4> QED
        BY <3>1, <4>1, <4>2
    <3> QED
      BY <1>5, <2>3, <3>1, <3>2
  <2>4. i \in 1..h \/ i \in (h + 1)..m \/ i = l \/ i \in (m + 1)..(m + n)
    BY <1>1
  <2> QED
    BY <2>1, <2>2, <2>3, <2>4
<1>9. PathSafe(req, path) <=> \A y \in (m + 1)..l : \A x \in 1..(y - 1) : Apart(x, y)
  <2>1. PathSafe(req, path) <=>
          \A y \in (m + 1)..l : \A x \in 1..(y - 1) : (y = l /\ x <= 0) \/ Apart(x, y)
    BY <1>4, <1>6 DEF PathSafe, ClosedRoute
  <2>2. \A y \in (m + 1)..l : \A x \in 1..(y - 1) : ~(x <= 0)
    OBVIOUS
  <2> QED
    BY <2>1, <2>2
<1>10. GeneratedApart(j, r) <=>
         \A y \in 1..l : \A x \in 1..(y - 1) : New(x) \/ New(y) => Apart(x, y)
  BY <1>7 DEF GeneratedApart, PairsApart, whole, h
<1>11. AnchorsApart(j, r) <=> \A x \in 1..(l - 1) : Apart(x, l)
  <2>1. AnchorsApart(j, r) <=> AnchorsStandApart(j, r, n)
    BY <1>2, AnchorPairs
  <2>2. AnchorsStandApart(j, r, n) <=>
          \A i \in 1..1 : \A k \in 1..(h + p + n) :
            PairSafe(j.tracks, j.w, whole[k], Block(j)[i], (h + p + n + i) - k)
    BY DEF AnchorsStandApart, OneWay, whole, h, p
  <2>3. whole[l] = Block(j)[1]
    <3>1. h + (p + n + 1) = l /\ p + n + 1 \in 1..Len(r)
      BY <1>1, <1>3
    <3> QED
      BY <1>3, <1>4, <3>1
  <2>4. h + p + n = l - 1 /\ h + p + n + 1 = l
    BY <1>1
  <2>5. (\A i \in 1..1 : \A k \in 1..(h + p + n) :
            PairSafe(j.tracks, j.w, whole[k], Block(j)[i], (h + p + n + i) - k))
        <=> \A k \in 1..(h + p + n) :
              PairSafe(j.tracks, j.w, whole[k], Block(j)[1], (h + p + n + 1) - k)
    OBVIOUS
  <2> QED
    BY <2>1, <2>2, <2>3, <2>4, <2>5
<1> HIDE DEF Apart, New
<1>12. ASSUME \A y \in (m + 1)..l : \A x \in 1..(y - 1) : Apart(x, y)
       PROVE  /\ \A y \in 1..l : \A x \in 1..(y - 1) : New(x) \/ New(y) => Apart(x, y)
              /\ \A x \in 1..(l - 1) : Apart(x, l)
  <2>1. ASSUME NEW y \in 1..l, NEW x \in 1..(y - 1), New(x) \/ New(y) PROVE Apart(x, y)
    <3>1. x \in 1..l
      BY <1>7
    <3>2. x \in (m + 1)..(m + n) \/ y \in (m + 1)..(m + n)
      BY <1>8, <2>1, <3>1
    <3>3. y \in (m + 1)..l
      BY <1>7, <3>2
    <3> QED
      BY <1>12, <3>3
  <2>2. l \in (m + 1)..l
    BY <1>7
  <2> QED
    BY <1>12, <2>1, <2>2
<1>13. ASSUME \A y \in 1..l : \A x \in 1..(y - 1) : New(x) \/ New(y) => Apart(x, y),
              \A x \in 1..(l - 1) : Apart(x, l),
              NEW y \in (m + 1)..l, NEW x \in 1..(y - 1)
       PROVE  Apart(x, y)
  <2>1. CASE y = l
    BY <1>13, <2>1
  <2>2. CASE y # l
    <3>1. y \in (m + 1)..(m + n) /\ y \in 1..l
      BY <1>7, <2>2
    <3> QED
      BY <1>8, <1>13, <3>1
  <2> QED
    BY <2>1, <2>2
<1>14. (\A y \in (m + 1)..l : \A x \in 1..(y - 1) : Apart(x, y)) <=>
         /\ \A y \in 1..l : \A x \in 1..(y - 1) : New(x) \/ New(y) => Apart(x, y)
         /\ \A x \in 1..(l - 1) : Apart(x, l)
  BY <1>12, <1>13
<1> QED
  BY <1>9, <1>10, <1>11, <1>14 DEF req, r

\* The edges that were routed are the legs of the path.
LEMMA OneWayLegs ==
  ASSUME NEW j, IsJob(j), Shape(j), OneWay(j), NEW max \in Nat, NEW n \in Nat,
         NEW path \in Injections(Spendable(j), n)
  PROVE  LET edges == BoundaryEdges(j, RouteBy(j, path)) IN
         /\ DOMAIN edges = 1..(n + 1)
         /\ Legs(OutwardRequest(j, max), path) = [i \in DOMAIN edges |-> j.models[1][edges[i]]]
<1> DEFINE req == OutwardRequest(j, max)
           r == RouteBy(j, path)
           p == StartPosition(j)
           edges == BoundaryEdges(j, r)
           there == EdgesBetween(r, p, p + n + 1)
           first == <<req.left>>
           whole == first \o path \o <<req.right>>
<1>1. /\ p \in Nat /\ p >= 1 /\ Len(j.source) = p + 1 /\ Head(Block(j)) = Block(j)[1]
      /\ Block(j)[1] \in Nat /\ Last(SubSeq(j.source, 1, p)) = j.start
  BY OneWayShape
<1>2. Laid(j, r, path, n, n) /\ IsSpending(j, path, n, n) /\ path \in Seq(Nat) /\ Len(path) = n
  BY OneWayRoute, OneWaySpending
<1>3. /\ req.left = j.start /\ req.right = Block(j)[1] /\ req.distance = j.models[1]
      /\ req.left \in Nat
  <2>1. /\ req.left = Last(SubSeq(j.source, 1, p)) /\ req.right = Head(Block(j))
        /\ req.distance = j.models[1] /\ Admitted(req)
    BY OutwardRequestIs
  <2> QED
    BY <1>1, <2>1, AdmittedFacts
<1>4. /\ r[p] = j.start
      /\ \A i \in 1..n : r[p + i] = path[i]
      /\ r[p + n + 1] = Block(j)[1]
  <2>1. /\ \A i \in 1..p : r[i] = j.source[i]
        /\ \A i \in 1..n : r[p + i] = path[i]
        /\ \A i \in 1..1 : r[p + n + i] = Block(j)[i]
    BY <1>2 DEF Laid, OneWay
  <2>2. j.source[p] = j.start
    BY DEF Shape
  <2> HIDE DEF r, p
  <2>3. p \in 1..p /\ 1 \in 1..1
    BY <1>1
  <2> QED
    BY <2>1, <2>2, <2>3
<1>5. edges = there
  <2>1. Position(r, j.start) = p /\ Position(r, j.destination) = p + n + 1
    BY <1>2, LaidPlaces, DestinationStands
  <2>4. /\ r \in Seq(Nat) /\ Position(r, j.start) \in 1..Len(r)
        /\ Position(r, j.destination) \in 1..Len(r)
    BY <1>2, LaidPlaces
  <2> HIDE DEF r, p
  <2>2. edges = there \o <<>>
    BY <2>1 DEF BoundaryEdges, OneWay
  <2>3. there \in Seq(Nat \X Nat)
    <3>1. r \in Seq(Nat) /\ p \in 1..Len(r) /\ p + n + 1 \in 1..Len(r)
      BY <2>1, <2>4
    <3> QED
      BY <3>1, EdgesAre
  <2> HIDE DEF there, edges
  <2> QED
    BY <2>2, <2>3
<1>6. /\ \A i \in 1..Len(first) : whole[i] = first[i]
      /\ \A i \in 1..Len(path) : whole[Len(first) + i] = path[i]
      /\ whole[Len(first) + Len(path) + 1] = req.right
  <2>1. first \in Seq(Nat) /\ req.right \in Nat
    BY <1>1, <1>3
  <2> HIDE DEF first
  <2> QED
    BY <1>2, <2>1, ThreeParts
<1>7. /\ whole[1] = req.left /\ \A i \in 1..n : whole[1 + i] = path[i]
      /\ whole[n + 2] = req.right
  <2>1. Len(first) = 1 /\ first[1] = req.left /\ 1 + n + 1 = n + 2 /\ 1 \in 1..1
    OBVIOUS
  <2> HIDE DEF first
  <2> QED
    BY <1>2, <1>6, <2>1
<1>8. Legs(req, path) = [i \in 1..(n + 1) |-> j.models[1][<<whole[i], whole[i + 1]>>]]
  BY <1>2, <1>3 DEF Legs
<1>9. there = [i \in 1..(n + 1) |-> <<r[p + i - 1], r[p + i]>>]
  <2> HIDE DEF r, p
  <2> DEFINE k == (p + n + 1) - p
  <2>1. k = n + 1
    BY <1>1
  <2>2. there = [i \in 1..k |-> <<r[p + i - 1], r[p + i]>>]
    BY DEF EdgesBetween
  <2> HIDE DEF k, there
  <2> QED
    BY <2>1, <2>2
<1> HIDE DEF req, r, p, edges, there, first, whole
<1>10. ASSUME NEW i \in 1..(n + 2) PROVE whole[i] = r[p + i - 1]
  <2>1. CASE i = 1
    BY <1>1, <1>3, <1>4, <1>7, <2>1
  <2>2. CASE i \in 2..(n + 1)
    <3>1. i - 1 \in 1..n /\ 1 + (i - 1) = i /\ p + (i - 1) = p + i - 1
      BY <1>1, <2>2
    <3> QED
      BY <1>4, <1>7, <3>1
  <2>3. CASE i = n + 2
    <3>1. p + i - 1 = p + n + 1
      BY <1>1, <2>3
    <3> QED
      BY <1>3, <1>4, <1>7, <2>3, <3>1
  <2> QED
    BY <2>1, <2>2, <2>3
<1>11. ASSUME NEW i \in 1..(n + 1)
       PROVE  <<whole[i], whole[i + 1]>> = <<r[p + i - 1], r[p + i]>>
  <2>1. i \in 1..(n + 2) /\ i + 1 \in 1..(n + 2) /\ p + (i + 1) - 1 = p + i
    BY <1>1
  <2> QED
    BY <1>10, <2>1
<1>12. \A i \in 1..(n + 1) :
         j.models[1][<<whole[i], whole[i + 1]>>] = j.models[1][<<r[p + i - 1], r[p + i]>>]
  BY <1>11
<1>13. [i \in 1..(n + 1) |-> j.models[1][<<whole[i], whole[i + 1]>>]]
         = [i \in 1..(n + 1) |-> j.models[1][<<r[p + i - 1], r[p + i]>>]]
  BY <1>12
<1>14. DOMAIN there = 1..(n + 1)
  BY <1>9
<1>15. [i \in DOMAIN there |-> j.models[1][there[i]]]
         = [i \in 1..(n + 1) |-> j.models[1][<<r[p + i - 1], r[p + i]>>]]
  BY <1>9, <1>14
<1> QED
  BY <1>5, <1>8, <1>13, <1>14, <1>15 DEF req, edges, r

LEMMA OneWayTravelled ==
  ASSUME NEW j, IsJob(j), Shape(j), OneWay(j), NEW max \in Nat, NEW n \in Nat,
         NEW path \in Injections(Spendable(j), n)
  PROVE  PathReachable(OutwardRequest(j, max), path) <=> Travelled(j, RouteBy(j, path))
<1> DEFINE legs == Legs(OutwardRequest(j, max), path)
           edges == BoundaryEdges(j, RouteBy(j, path))
<1>1. legs = [i \in DOMAIN edges |-> j.models[1][edges[i]]]
  BY OneWayLegs
<1>2. PathReachable(OutwardRequest(j, max), path)
        <=> \A i \in DOMAIN legs : legs[i] # Unreachable
  BY DEF PathReachable, Range
<1>3. Travelled(j, RouteBy(j, path))
        <=> \A i \in DOMAIN edges : j.models[1][edges[i]] # Unreachable
  BY DEF Travelled, Elements
<1> HIDE DEF legs, edges
<1> QED
  BY <1>1, <1>2, <1>3

\* Search and completion measure a route alike.
LEMMA OneWayMeasure ==
  ASSUME NEW j, IsJob(j), Shape(j), OneWay(j), CutsNothing(j), NEW max \in Nat, NEW n \in Nat,
         NEW path \in Injections(Spendable(j), n), NEW k,
         PathReachable(OutwardRequest(j, max), path)
  PROVE  LET option == PathOption(OutwardRequest(j, max), path)
             complete == CompleteOption(j, RouteBy(j, path), k) IN
         /\ option.route = complete.route /\ option.sum = complete.sum
         /\ option.worst = complete.worst /\ complete.count = k
         /\ option.intermediates = path
<1> DEFINE req == OutwardRequest(j, max)
           r == RouteBy(j, path)
           legs == Legs(req, path)
           S == {0} \cup Elements(legs)
           w == Max(Range(legs))
<1>1. /\ CompleteOption(j, r, k).route = r /\ CompleteOption(j, r, k).count = k
      /\ CompleteOption(j, r, k).sum = Total(legs)
      /\ CompleteOption(j, r, k).worst = Max(S)
  <2> DEFINE edges == BoundaryEdges(j, r)
             routed == [i \in DOMAIN edges |-> j.models[1][edges[i]]]
  <2>1. legs = routed
    BY OneWayLegs
  <2>2. CompleteOption(j, r, k) = [route |-> r, count |-> k, sum |-> Total(routed),
                                   worst |-> Max({0} \cup Elements(routed))]
    BY DEF CompleteOption
  <2> HIDE DEF routed, legs
  <2> QED
    BY <2>1, <2>2
<1>2. /\ PathOption(req, path).intermediates = path
      /\ PathOption(req, path).route = req.prefix \o path \o <<req.right>>
      /\ PathOption(req, path).sum = Total(legs)
      /\ PathOption(req, path).worst = w
  BY DEF PathOption
<1>3. req.prefix \o path \o <<req.right>> = r
  <2>1. req.prefix = SubSeq(j.source, 1, StartPosition(j)) /\ req.right = Head(Block(j))
    BY OutwardRequestIs
  <2> HIDE DEF req
  <2> QED
    BY <2>1 DEF RouteBy
<1>4. legs \in [1..(n + 1) -> Nat]
  <2>1. Admitted(req) /\ path \in Paths(req, n)
    BY OutwardRequestIs, NothingIsPrefiltered
  <2> QED
    BY <2>1, ReachableLegs
<1> HIDE DEF legs, req, r
<1>5. IsBottleneck(w, legs)
  <2>1. n + 1 \in Nat /\ n + 1 >= 1
    OBVIOUS
  <2> QED
    BY <1>4, <2>1, GreatestLeg
<1>6. /\ \A x \in S : x \in Nat /\ (x = 0 \/ \E i \in 1..(n + 1) : x = legs[i])
      /\ 0 \in S /\ \A i \in 1..(n + 1) : legs[i] \in S
  BY <1>4 DEF Elements
<1> HIDE DEF S, w
<1>7. w \in S /\ w \in Nat /\ \A x \in S : w >= x
  <2>1. /\ w \in Nat /\ \A i \in 1..(n + 1) : w >= legs[i]
        /\ w = 0 \/ \E i \in 1..(n + 1) : w = legs[i]
    BY <1>4, <1>5 DEF IsBottleneck
  <2> QED
    BY <1>6, <2>1
<1>8. Max(S) \in S /\ \A x \in S : Max(S) >= x
  BY <1>7 DEF Max
<1>9. Max(S) = w
  <2>1. Max(S) \in Nat /\ Max(S) >= w /\ w >= Max(S)
    BY <1>6, <1>7, <1>8
  <2> HIDE DEF S
  <2> QED
    BY <1>7, <2>1
<1> QED
  BY <1>1, <1>2, <1>3, <1>9 DEF req, r

\* The search of the way out loses nothing.
LEMMA OutwardIsWide ==
  ASSUME NEW j, IsJob(j), Shape(j), CutsNothing(j), j.count \in Nat
  PROVE  Wide(OutwardRequest(j, j.count))
<1> DEFINE req == OutwardRequest(j, j.count)
           F == Spendable(j)
<1>1. /\ Available(req) = F /\ \A n \in Nat : Paths(req, n) = Injections(F, n)
      /\ req.max = j.count /\ req.candidateLimit = j.candidateLimit /\ req.beam = j.beam
  BY NothingIsPrefiltered, OutwardRequestIs
<1>2. /\ IsFiniteSet(j.eligible) /\ F \in SUBSET j.eligible
      /\ j.candidateLimit \in Nat /\ j.beam \in Nat
  BY DEF IsJob, Spendable
<1>3. /\ Cardinality(j.eligible) <= j.candidateLimit
      /\ j.beam >= Cardinality(UNION {Injections(F, n) : n \in 0..j.count})
  BY DEF CutsNothing, Spendable
<1> HIDE DEF req, F
<1>4. Cardinality(F) <= j.candidateLimit
  <2>1. /\ Cardinality(F) \in Nat /\ Cardinality(j.eligible) \in Nat
        /\ Cardinality(F) <= Cardinality(j.eligible)
    BY <1>2, FS_Subset, FS_CardinalityType
  <2> QED
    BY <1>2, <1>3, <2>1
<1>5. UNION {Paths(req, n) : n \in 0..req.max} = UNION {Injections(F, n) : n \in 0..j.count}
  BY <1>1
<1> QED
  BY <1>1, <1>3, <1>4, <1>5 DEF Wide, req

\* Its option of a count is the best path of that count, if there is one.
LEMMA OutwardIsBest ==
  ASSUME NEW j, IsJob(j), Shape(j), CutsNothing(j), j.count \in Nat, NEW n \in 0..j.count
  PROVE  LET req == OutwardRequest(j, j.count)
             mine == {o \in Outward(j, j.count) : Len(o.intermediates) = n} IN
         /\ IsFiniteSet(GoodPaths(req, n))
         /\ \A o \in GoodPaths(req, n) : CompleteKey(o) \in Keys(3 + n)
         /\ \A o \in mine : /\ o \in GoodPaths(req, n)
                            /\ \A q \in GoodPaths(req, n) :
                                 ~LexBefore(CompleteKey(q), CompleteKey(o))
         /\ GoodPaths(req, n) # {} => mine # {}
<1> DEFINE req == OutwardRequest(j, j.count)
           G == GoodPaths(req, n)
           mine == {o \in Outward(j, j.count) : Len(o.intermediates) = n}
           key == [o \in G |-> CompleteKey(o)]
           bound == StructuralUpperBound(req)
<1>1. /\ Admitted(req) /\ Wide(req) /\ req.max = j.count /\ req.alternatives = 1
      /\ req.variation = 0 /\ Outward(j, j.count) = AnchoredPaths(req)
  BY OutwardRequestIs, OutwardIsWide DEF Outward, OutwardRequest
<1> HIDE DEF req
<1>2. /\ n \in Nat /\ n <= req.max /\ bound \in Nat
  BY <1>1, BoundIsNat
<1>3. IsFiniteSet(G) /\ \A o \in G : CompleteKey(o) \in Keys(3 + n)
  BY <1>1, <1>2, WideFrontiers, WideCompleteIsExact
<1>4. mine = Least(G, 1, CompleteKey)
  <2>1. CASE n \in 0..bound
    BY <1>1, <2>1, WideAnchoredPathsAreExact
  <2>2. CASE n \notin 0..bound
    <3>1. G = {}
      <4> SUFFICES ASSUME NEW o \in G PROVE FALSE
        OBVIOUS
      <4>1. o.intermediates \in Paths(req, n)
        BY <1>2, GoodPathFacts
      <4>2. o.intermediates \in [1..n -> Available(req)] /\ IsInjective(o.intermediates)
        BY <4>1 DEF Paths
      <4>3. IsFiniteSet(Available(req)) /\ Cardinality(Available(req)) \in Nat
        BY <1>1, AdmittedFacts
      <4>4. n <= Cardinality(Available(req))
        BY <1>2, <4>2, <4>3, InjectionIsShort
      <4>5. bound = req.max \/ bound = Cardinality(Available(req))
        <5>1. req.max \in Nat
          BY <1>1
        <5> QED
          BY <4>3, <5>1, MinOfTwo DEF StructuralUpperBound
      <4> HIDE DEF bound
      <4> QED
        BY <1>2, <2>2, <4>4, <4>5
    <3>2. mine = {}
      <4> SUFFICES ASSUME NEW o \in mine PROVE FALSE
        OBVIOUS
      <4>1. PICK m \in 0..bound : o \in GoodPaths(req, m)
        BY <1>1, AnchoredPathsAreGood
      <4>2. m \in Nat /\ Len(o.intermediates) = m
        BY <1>2, <4>1, GoodPathFacts
      <4> QED
        BY <2>2, <4>1, <4>2
    <3> QED
      BY <3>1, <3>2 DEF Least
  <2> QED
    BY <2>1, <2>2
<1> HIDE DEF mine
<1>5. mine = Leading(G, 1, key)
  BY <1>4, LeastCompleteIsLeading
<1>6. key \in [G -> Keys(3 + n)] /\ 3 + n \in Nat
  BY <1>2, <1>3
<1>7. \A o \in G : key[o] = CompleteKey(o)
  OBVIOUS
<1> HIDE DEF G, key
<1>8. ASSUME NEW o \in G
      PROVE  o \in mine <=> \A q \in G : ~LexBefore(key[q], key[o])
  <2>1. Predecessors(G, key, o) \in SUBSET G
    BY DEF Predecessors
  <2>2. IsFiniteSet(Predecessors(G, key, o)) /\ Cardinality(Predecessors(G, key, o)) \in Nat
    BY <1>3, <2>1, FS_Subset, FS_CardinalityType
  <2>3. Cardinality(Predecessors(G, key, o)) = 0 <=> Predecessors(G, key, o) = {}
    BY <2>2, FS_EmptySet
  <2>4. Cardinality(Predecessors(G, key, o)) < 1 <=> Predecessors(G, key, o) = {}
    BY <2>2, <2>3
  <2> QED
    BY <1>5, <2>4 DEF Leading, Predecessors
<1>9. mine \subseteq G
  BY <1>5 DEF Leading
<1>10. G # {} => mine # {}
  BY <1>3, <1>6, <1>8, BestExists
<1>11. \A o \in mine : o \in G /\ \A q \in G : ~LexBefore(CompleteKey(q), CompleteKey(o))
  BY <1>7, <1>8, <1>9
<1> QED
  BY <1>3, <1>10, <1>11 DEF G, mine, req

\* What is not beaten is not beaten in its first two measures.
LEMMA NotBeatenByMeasures ==
  ASSUME NEW o, NEW q, NEW n \in Nat,
         o.intermediates \in Seq(Int), q.intermediates \in Seq(Int),
         o.worst \in Int, o.sum \in Int, o.guidance \in Int,
         q.worst \in Int, q.sum \in Int, q.guidance \in Int,
         CompleteKey(o) \in Keys(3 + n), CompleteKey(q) \in Keys(3 + n),
         ~LexBefore(CompleteKey(q), CompleteKey(o))
  PROVE  ~LexBefore(<<q.worst, q.sum>>, <<o.worst, o.sum>>)
<1>1. ASSUME NEW x, x.intermediates \in Seq(Int), x.worst \in Int, x.sum \in Int, x.guidance \in Int
      PROVE  CompleteKey(x)[1] = x.worst /\ CompleteKey(x)[2] = x.sum
  <2> DEFINE head == <<x.worst, x.sum, -x.guidance>>
             tail == x.intermediates
  <2>1. /\ head \in Seq(Int) /\ tail \in Seq(Int) /\ Len(head) = 3
        /\ head[1] = x.worst /\ head[2] = x.sum
    BY <1>1
  <2>2. CompleteKey(x) = head \o tail
    BY DEF CompleteKey
  <2> HIDE DEF head, tail
  <2>3. \A i \in 1..Len(head) : (head \o tail)[i] = head[i]
    BY <2>1, Concatenated
  <2>4. 1 \in 1..Len(head) /\ 2 \in 1..Len(head)
    BY <2>1
  <2> QED
    BY <2>1, <2>2, <2>3, <2>4
<1> DEFINE a == CompleteKey(q)
           b == CompleteKey(o)
<1>2. a[1] = q.worst /\ a[2] = q.sum /\ b[1] = o.worst /\ b[2] = o.sum
  BY <1>1
<1>3. 1 \in DOMAIN a \cap DOMAIN b /\ 2 \in DOMAIN a \cap DOMAIN b
  BY DEF Keys
<1> HIDE DEF a, b
<1>4. ~LexBefore(a, b)
  BY DEF a, b
<1>5. ~(q.worst < o.worst)
  <2>1. \A i \in 1..(1 - 1) : a[i] = b[i]
    OBVIOUS
  <2> QED
    BY <1>2, <1>3, <1>4, <2>1 DEF LexBefore
<1>6. ~(q.worst = o.worst /\ q.sum < o.sum)
  <2>1. q.worst = o.worst => \A i \in 1..(2 - 1) : a[i] = b[i]
    BY <1>2
  <2> QED
    BY <1>2, <1>3, <1>4, <2>1 DEF LexBefore
<1>7. ASSUME LexBefore(<<q.worst, q.sum>>, <<o.worst, o.sum>>) PROVE FALSE
  <2> DEFINE c == <<q.worst, q.sum>>
             d == <<o.worst, o.sum>>
  <2>1. /\ c[1] = q.worst /\ c[2] = q.sum /\ d[1] = o.worst /\ d[2] = o.sum
        /\ DOMAIN c \cap DOMAIN d = {1, 2}
    OBVIOUS
  <2>2. LexBefore(c, d)
    BY <1>7
  <2> HIDE DEF c, d
  <2>3. PICK i \in {1, 2} : c[i] < d[i] /\ \A k \in 1..(i - 1) : c[k] = d[k]
    BY <2>1, <2>2 DEF LexBefore
  <2>4. CASE i = 1
    BY <1>5, <2>1, <2>3, <2>4
  <2>5. CASE i = 2
    <3>1. 1 \in 1..(i - 1)
      BY <2>5
    <3> QED
      BY <1>6, <2>1, <2>3, <2>5, <3>1
  <2> QED
    BY <2>4, <2>5
<1> QED
  BY <1>7

\* Routes whose generated tracks are apart pass the check of the search.
LEMMA ApartIsGenerated ==
  ASSUME NEW j, IsJob(j), NEW r \in Seq(Nat), GeneratedApart(j, r)
  PROVE  GeneratedRepeatSafe(j, r)
<1> DEFINE whole == j.history \o r
           h == Len(j.history)
           l == Len(whole)
           New(i) == i > h /\ whole[i] \notin Elements(j.source)
<1>1. whole \in Seq(Nat) /\ l \in Nat /\ h \in Nat /\ DOMAIN whole = 1..l
  BY WholeIs
<1>2. \A y \in 1..l : \A x \in 1..(y - 1) :
        New(x) \/ New(y) => PairSafe(j.tracks, j.w, whole[x], whole[y], y - x)
  BY <1>1 DEF GeneratedApart, PairsApart
<1>3. GeneratedRepeatSafe(j, r) <=>
        \A i \in (h + 1)..l : whole[i] \notin Elements(j.source) =>
          \A x \in DOMAIN whole \ {i} :
            PairSafe(j.tracks, j.w, whole[x], whole[i], Gap(i, x))
  BY PositionIsSafe DEF GeneratedRepeatSafe
<1> HIDE DEF whole, l, h
<1>4. ASSUME NEW i \in (h + 1)..l, whole[i] \notin Elements(j.source),
             NEW x \in (1..l) \ {i}
      PROVE  PairSafe(j.tracks, j.w, whole[x], whole[i], Gap(i, x))
  <2>1. New(i) /\ i \in 1..l /\ x \in 1..l
    BY <1>1, <1>4
  <2>2. CASE x < i
    <3>1. x \in 1..(i - 1) /\ Gap(i, x) = i - x
      BY <2>1, <2>2 DEF Gap
    <3> QED
      BY <1>2, <2>1, <3>1
  <2>3. CASE ~(x < i)
    <3>1. i \in 1..(x - 1) /\ Gap(i, x) = x - i
      BY <2>1, <2>3 DEF Gap
    <3>2. PairSafe(j.tracks, j.w, whole[i], whole[x], x - i)
      BY <1>2, <2>1, <3>1
    <3> QED
      BY <3>1, <3>2, PairSafeIsSymmetric
  <2> QED
    BY <2>2, <2>3
<1> QED
  BY <1>1, <1>3, <1>4

\* What an option of the way out is made of.
LEMMA OneWayOption ==
  ASSUME NEW j, IsJob(j), Shape(j), OneWay(j), NEW max \in Nat, NEW n \in Nat,
         NEW o \in GoodPaths(OutwardRequest(j, max), n)
  PROVE  LET req == OutwardRequest(j, max)
             path == o.intermediates IN
         /\ path \in Injections(Spendable(j), n) /\ Len(path) = n
         /\ o = PathOption(req, path) /\ o.route = RouteBy(j, path)
         /\ PathSafe(req, path) /\ PathReachable(req, path) /\ o.guidance \in Int
<1> DEFINE req == OutwardRequest(j, max)
           a == SubSeq(j.source, 1, StartPosition(j))
           path == o.intermediates
<1>1. /\ Admitted(req) /\ Available(req) \subseteq Spendable(j)
      /\ req.prefix = a /\ req.right = Head(Block(j))
  <2>1. Available(req) \subseteq Spendable(j)
    BY OutwardIsBoundary, BoundaryIsAdmitted DEF OutwardRequest, Spendable
  <2> QED
    BY <2>1, OutwardRequestIs
<1> HIDE DEF req
<1>2. o \in GoodPaths(req, n)
  BY DEF req
<1>3. path \in Paths(req, n) /\ PathSafe(req, path) /\ PathReachable(req, path)
      /\ o = PathOption(req, path)
  <2>1. PICK p \in Paths(req, n) : /\ PathSafe(req, p) /\ PathReachable(req, p)
                                   /\ o = PathOption(req, p)
    BY <1>2 DEF GoodPaths
  <2>2. path = p
    BY <2>1 DEF PathOption
  <2> QED
    BY <2>1, <2>2
<1> HIDE DEF path
<1>4. /\ o.route = a \o path \o <<Head(Block(j))>>
      /\ o.guidance = Total([i \in DOMAIN path |-> req.candidates[path[i]]])
  BY <1>1, <1>3 DEF PathOption
<1>5. path \in [1..n -> Available(req)] /\ IsInjective(path)
  BY <1>3 DEF Paths
<1>6. path \in Injections(Spendable(j), n)
  <2>1. path \in [1..n -> Spendable(j)]
    BY <1>1, <1>5
  <2> QED
    BY <1>5, <2>1 DEF Injections
<1>7. Len(path) = n
  BY <1>5
<1>8. o.guidance \in Int
  <2> DEFINE guided == [i \in DOMAIN path |-> req.candidates[path[i]]]
  <2>1. DOMAIN path = 1..n /\ \A i \in 1..n : path[i] \in DOMAIN req.candidates
    BY <1>1, <1>5, AdmittedFacts
  <2>2. guided \in [1..n -> Int]
    BY <1>1, <2>1 DEF Admitted, IsRequest
  <2> HIDE DEF guided
  <2>3. Total(guided) \in Int
    BY <2>2, TotalIsInt
  <2> QED
    BY <1>4, <2>3 DEF guided
<1>9. o.route = RouteBy(j, path)
  BY <1>4 DEF RouteBy, a
<1> QED
  BY <1>3, <1>6, <1>7, <1>8, <1>9 DEF req, path

\* The checks behind the search drop none of its options.
LEMMA OneWayCombined ==
  ASSUME NEW j, IsJob(j), Shape(j), OneWay(j), NEW max \in Nat, NEW o \in Outward(j, max)
  PROVE  Combined(j, max, o) = {CompleteOption(j, o.route, Len(o.intermediates))}
<1> DEFINE req == OutwardRequest(j, max)
           path == o.intermediates
           n == Len(path)
           r == o.route
<1>1. PICK m \in 0..StructuralUpperBound(req) : o \in GoodPaths(req, m)
  <2>1. Admitted(req) /\ o \in AnchoredPaths(req)
    BY OutwardRequestIs DEF Outward, OutwardRequest
  <2> QED
    BY <2>1, AnchoredPathsAreGood
<1>2. m \in Nat
  OBVIOUS
<1>3. /\ n = m /\ path \in Injections(Spendable(j), m) /\ r = RouteBy(j, path)
      /\ PathSafe(req, path)
  BY <1>1, <1>2, OneWayOption
<1> HIDE DEF path, n, r
<1>4. Laid(j, r, path, m, m) /\ IsSpending(j, path, m, m)
  <2>1. Laid(j, RouteBy(j, path), path, m, m)
    BY <1>2, <1>3, OneWayRoute
  <2>2. IsSpending(j, path, m, m)
    BY <1>2, <1>3, OneWaySpending
  <2> QED
    BY <1>3, <2>1, <2>2
<1>5. GeneratedApart(j, r) /\ AnchorsApart(j, r)
  <2>1. GeneratedApart(j, RouteBy(j, path)) /\ AnchorsApart(j, RouteBy(j, path))
    BY <1>2, <1>3, OneWaySafe DEF req
  <2> QED
    BY <1>3, <2>1
<1>6. r \in Seq(Nat)
  BY <1>4 DEF Laid
<1>7. GeneratedRepeatSafe(j, r)
  BY <1>5, <1>6, ApartIsGenerated
<1>8. BlockContextSafe(j, r)
  <2>1. AnchorsStandApart(j, r, m)
    BY <1>4, <1>5, AnchorPairs
  <2> QED
    BY <1>4, <2>1, ContextIsApart DEF AnchorsStandApart
<1>9. WithBlock(j, o) = r
  <2>1. Block(j) \in Seq(Nat) /\ Len(Block(j)) = 1
    BY ShapeParts DEF OneWay
  <2>2. \A s \in Seq(Nat) : s # <<>> => Tail(s) \in Seq(Nat) /\ Len(Tail(s)) = Len(s) - 1
    OBVIOUS
  <2>3. Tail(Block(j)) = <<>> /\ r \o <<>> = r
    <3>0. Len(<<>>) = 0
      OBVIOUS
    <3>1. Block(j) # <<>>
      <4>1. Len(Block(j)) # Len(<<>>)
        BY <2>1, <3>0
      <4> QED
        BY <4>1
    <3>2. Tail(Block(j)) \in Seq(Nat) /\ Len(Tail(Block(j))) = 0
      BY <2>1, <2>2, <3>1
    <3>3. Tail(Block(j)) = <<>>
      BY <3>2, EmptySeq
    <3>4. r \o <<>> = r
      BY <1>6, ConcatEmptySeq
    <3> QED
      BY <3>3, <3>4
  <2> QED
    BY <2>3 DEF WithBlock, r
<1> DEFINE returns == IF Rejoins(j)
                      THEN {[route |-> x.route, count |-> Len(o.intermediates) + Len(x.intermediates)] :
                              x \in Returning(j, max, o)}
                      ELSE {[route |-> WithBlock(j, o), count |-> Len(o.intermediates)]}
           passed == {x \in returns : GeneratedRepeatSafe(j, x.route) /\ BlockContextSafe(j, x.route)}
           only == [route |-> r, count |-> n]
<1>10. returns = {only}
  BY <1>9 DEF OneWay, n, path
<1>11. Combined(j, max, o) = {CompleteOption(j, x.route, x.count) : x \in passed}
  BY DEF Combined
<1> HIDE DEF returns
<1>12. passed = {only}
  BY <1>7, <1>8, <1>10
<1> HIDE DEF passed
<1>13. {CompleteOption(j, x.route, x.count) : x \in {only}} = {CompleteOption(j, r, n)}
  OBVIOUS
<1> QED
  BY <1>11, <1>12, <1>13 DEF r, n, path

\* The reference's routes are the paths the search accepts.
LEMMA OneWayGood ==
  ASSUME NEW j, IsJob(j), Shape(j), OneWay(j), NEW max \in Nat, NEW n \in Nat, NEW r
  PROVE  r \in GoodRoutes(j, n)
         <=> \E path \in Injections(Spendable(j), n) :
               r = RouteBy(j, path) /\ PathSafe(OutwardRequest(j, max), path)
<1>1. ASSUME NEW path \in Injections(Spendable(j), n)
      PROVE  /\ <<path, n>> \in Spendings(j, n) /\ RouteBy(j, path) = RouteOf(j, <<path, n>>)
             /\ PathSafe(OutwardRequest(j, max), path)
                  <=> GeneratedApart(j, RouteBy(j, path)) /\ AnchorsApart(j, RouteBy(j, path))
  <2>1. <<path, n>> \in Spendings(j, n)
    BY OneWaySpending, SpendingIsOne
  <2> QED
    BY <2>1, OneWayRoute, OneWaySafe
<1>2. ASSUME r \in GoodRoutes(j, n)
      PROVE  \E path \in Injections(Spendable(j), n) :
               r = RouteBy(j, path) /\ PathSafe(OutwardRequest(j, max), path)
  <2>1. PICK s \in Spendings(j, n) : r = RouteOf(j, s)
    BY <1>2 DEF GoodRoutes
  <2>2. GeneratedApart(j, r) /\ AnchorsApart(j, r)
    BY <1>2 DEF GoodRoutes
  <2>3. s = <<s[1], n>> /\ s[1] \in Injections(Spendable(j), n)
    BY <2>1 DEF Spendings, OneWay, Spendable
  <2> QED
    BY <1>1, <2>1, <2>2, <2>3
<1>3. ASSUME NEW path \in Injections(Spendable(j), n), r = RouteBy(j, path),
             PathSafe(OutwardRequest(j, max), path)
      PROVE  r \in GoodRoutes(j, n)
  <2>1. r = RouteOf(j, <<path, n>>) /\ <<path, n>> \in Spendings(j, n)
    BY <1>1, <1>3
  <2>2. GeneratedApart(j, r) /\ AnchorsApart(j, r)
    BY <1>1, <1>3
  <2> QED
    BY <2>1, <2>2 DEF GoodRoutes
<1> QED
  BY <1>2, <1>3

\* An option of the way out, and the completed one.
LEMMA OneWayMeasured ==
  ASSUME NEW j, IsJob(j), Shape(j), OneWay(j), CutsNothing(j), NEW max \in Nat, NEW n \in Nat,
         NEW o \in GoodPaths(OutwardRequest(j, max), n)
  PROVE  LET c == CompleteOption(j, o.route, n) IN
         /\ o.intermediates \in Seq(Int) /\ Len(o.intermediates) = n
         /\ o.sum \in Int /\ o.worst \in Int /\ o.guidance \in Int
         /\ c.sum = o.sum /\ c.worst = o.worst /\ c.count = n
<1> DEFINE path == o.intermediates
           c == CompleteOption(j, o.route, n)
<1>1. /\ path \in Injections(Spendable(j), n) /\ Len(path) = n /\ o.guidance \in Int
      /\ o = PathOption(OutwardRequest(j, max), path) /\ o.route = RouteBy(j, path)
      /\ PathReachable(OutwardRequest(j, max), path)
  BY OneWayOption
<1> HIDE DEF path
<1>2. c.sum = o.sum /\ c.worst = o.worst /\ c.count = n
  <2>1. LET complete == CompleteOption(j, RouteBy(j, path), n)
            option == PathOption(OutwardRequest(j, max), path) IN
        option.sum = complete.sum /\ option.worst = complete.worst /\ complete.count = n
    BY <1>1, OneWayMeasure
  <2> QED
    BY <1>1, <2>1
<1>3. /\ Laid(j, RouteBy(j, path), path, n, n) /\ IsSpending(j, path, n, n)
      /\ path \in Seq(Nat)
  BY <1>1, OneWayRoute, OneWaySpending
<1>4. c.sum \in Int /\ c.worst \in Int
  <2>1. LET complete == CompleteOption(j, RouteBy(j, path), n) IN
        complete.sum \in Int /\ complete.worst \in Int
    BY <1>3, CompleteIsMeasured
  <2> QED
    BY <1>1, <2>1
<1> HIDE DEF c
<1>5. path \in Seq(Int)
  BY <1>3
<1> QED
  BY <1>1, <1>2, <1>4, <1>5 DEF c, path

\* The good routes of a count without an unreachable leg are the good paths.
LEMMA OneWayRoutes ==
  ASSUME NEW j, IsJob(j), Shape(j), OneWay(j), CutsNothing(j), NEW max \in Nat, NEW n \in Nat
  PROVE  {CompleteOption(j, r, n) : r \in {g \in GoodRoutes(j, n) : Travelled(j, g)}}
           = {CompleteOption(j, o.route, n) : o \in GoodPaths(OutwardRequest(j, max), n)}
<1> DEFINE req == OutwardRequest(j, max)
           good == {g \in GoodRoutes(j, n) : Travelled(j, g)}
           G == GoodPaths(req, n)
<1>1. Paths(req, n) = Injections(Spendable(j), n)
  BY NothingIsPrefiltered
<1>2. ASSUME NEW r \in good PROVE \E o \in G : o.route = r
  <2>1. r \in GoodRoutes(j, n) /\ Travelled(j, r)
    OBVIOUS
  <2>2. PICK path \in Injections(Spendable(j), n) : r = RouteBy(j, path) /\ PathSafe(req, path)
    BY <2>1, OneWayGood
  <2>3. PathReachable(req, path)
    BY <2>1, <2>2, OneWayTravelled
  <2>4. PathOption(req, path) \in G
    BY <1>1, <2>2, <2>3 DEF GoodPaths
  <2> HIDE DEF req, G
  <2>5. PathOption(req, path).intermediates = path
    BY DEF PathOption
  <2>6. PathOption(req, path).route = RouteBy(j, path)
    BY <2>4, <2>5, OneWayOption DEF req, G
  <2> QED
    BY <2>2, <2>4, <2>6
<1>3. ASSUME NEW o \in G PROVE o.route \in good
  <2> DEFINE path == o.intermediates
  <2>1. /\ path \in Injections(Spendable(j), n) /\ o.route = RouteBy(j, path)
        /\ PathSafe(req, path) /\ PathReachable(req, path)
    BY OneWayOption
  <2> HIDE DEF path, req, G
  <2>2. o.route \in GoodRoutes(j, n)
    BY <2>1, OneWayGood DEF req
  <2>3. Travelled(j, RouteBy(j, path))
    BY <2>1, OneWayTravelled DEF req
  <2> QED
    BY <2>1, <2>2, <2>3
<1> HIDE DEF good, G
<1>4. {CompleteOption(j, r, n) : r \in good} = {CompleteOption(j, o.route, n) : o \in G}
  BY <1>2, <1>3
<1> QED
  BY <1>4 DEF good, G, req

\* What the search of the way out contributes to the options of a job.
Gathered(j, max) == UNION {Combined(j, max, o) : o \in Outward(j, max)}

\* Of the options C, that of n additions is the best good route of n additions.
IsBestOption(j, C, n) ==
  LET all == {CompleteOption(j, r, n) : r \in {g \in GoodRoutes(j, n) : Travelled(j, g)}}
      mine == {C[k] : k \in {i \in DOMAIN C : C[i].count = n}}
  IN IF all = {} THEN mine = {}
     ELSE \E o \in all : /\ mine = {o}
                         /\ \A p \in all : ~LexBefore(<<p.worst, p.sum>>, <<o.worst, o.sum>>)

\* Of everything found, the option of a count is the best good route.
LEMMA WideRankingIsBest ==
  ASSUME NEW j, IsJob(j), Shape(j), OneWay(j), CutsNothing(j), j.count \in Nat,
         NEW C, IsRanking(C, Gathered(j, j.count)), NEW n \in 0..j.count
  PROVE  IsBestOption(j, C, n)
<1> DEFINE max == j.count
           S == Gathered(j, max)
           req == OutwardRequest(j, max)
           G == GoodPaths(req, n)
           Options == {o \in Outward(j, max) : Len(o.intermediates) = n}
           complete(o) == CompleteOption(j, o.route, n)
           good == {CompleteOption(j, r, n) : r \in {g \in GoodRoutes(j, n) : Travelled(j, g)}}
           mine == {C[k] : k \in {i \in DOMAIN C : C[i].count = n}}
<1>1. good = {complete(o) : o \in G}
  BY OneWayRoutes
<1>2. /\ \A o \in G : CompleteKey(o) \in Keys(3 + n)
      /\ \A o \in Options : o \in G /\ \A q \in G : ~LexBefore(CompleteKey(q), CompleteKey(o))
      /\ G # {} => Options # {}
  BY OutwardIsBest
<1>3. ASSUME NEW o \in Outward(j, max)
      PROVE  /\ Combined(j, max, o) = {CompleteOption(j, o.route, Len(o.intermediates))}
             /\ CompleteOption(j, o.route, Len(o.intermediates)).count = Len(o.intermediates)
  BY OneWayCombined DEF CompleteOption
<1>4. \A c \in S : c.count = n => \E o \in Options : c = complete(o)
  <2> SUFFICES ASSUME NEW c \in S, c.count = n PROVE \E o \in Options : c = complete(o)
    OBVIOUS
  <2>1. PICK o \in Outward(j, max) : c \in Combined(j, max, o)
    BY DEF Gathered
  <2>2. c = CompleteOption(j, o.route, Len(o.intermediates)) /\ Len(o.intermediates) = n
    BY <1>3, <2>1
  <2> QED
    BY <2>2
<1>5. \A o \in Options : complete(o) \in S /\ complete(o).count = n
  BY <1>3 DEF Gathered
<1>6. ASSUME NEW o \in G
      PROVE  /\ o.intermediates \in Seq(Int) /\ o.sum \in Int /\ o.worst \in Int
             /\ o.guidance \in Int
             /\ complete(o).sum = o.sum /\ complete(o).worst = o.worst
  BY OneWayMeasured
<1>7. ASSUME NEW o \in Options, NEW p \in good
      PROVE  ~LexBefore(<<p.worst, p.sum>>, <<complete(o).worst, complete(o).sum>>)
  <2>1. PICK q \in G : p = complete(q)
    BY <1>1
  <2>2. o \in G /\ ~LexBefore(CompleteKey(q), CompleteKey(o))
    BY <1>2
  <2> HIDE DEF G, complete, good
  <2>3. ~LexBefore(<<q.worst, q.sum>>, <<o.worst, o.sum>>)
    BY <1>2, <1>6, <2>2, NotBeatenByMeasures
  <2> QED
    BY <1>6, <2>1, <2>2, <2>3
<1>8. /\ \A k \in DOMAIN C : C[k] \in S
      /\ \A o \in S : \E k \in DOMAIN C : C[k].count = o.count
      /\ \A k, l \in DOMAIN C : k < l => C[k].count < C[l].count
      /\ DOMAIN C \subseteq Nat
  BY DEF IsRanking
<1> HIDE DEF S, G, Options, complete, good
<1>9. CASE good = {}
  <2>1. Options = {}
    BY <1>1, <1>2, <1>9
  <2>2. mine = {}
    BY <1>4, <1>8, <2>1
  <2> QED
    BY <1>9, <2>2 DEF good, IsBestOption
<1>10. CASE good # {}
  <2>1. PICK a \in Options : TRUE
    BY <1>1, <1>2, <1>10
  <2>2. PICK k \in DOMAIN C : C[k].count = n
    BY <1>5, <1>8, <2>1
  <2>3. PICK o \in Options : C[k] = complete(o)
    BY <1>4, <1>8, <2>2
  <2>4. ASSUME NEW l \in DOMAIN C, C[l].count = n PROVE l = k
    <3>1. l \in Nat /\ k \in Nat /\ ~(l < k) /\ ~(k < l)
      BY <1>8, <2>2, <2>4
    <3> QED
      BY <3>1
  <2>5. mine = {C[k]}
    BY <2>2, <2>4
  <2>6. complete(o) \in good
    BY <1>1, <1>2
  <2>7. \A p \in good : ~LexBefore(<<p.worst, p.sum>>, <<C[k].worst, C[k].sum>>)
    BY <1>7, <2>3
  <2> HIDE DEF mine
  <2>8. C[k] \in good
    BY <2>3, <2>6
  <2>9. \E x \in good : /\ mine = {x}
                        /\ \A p \in good : ~LexBefore(<<p.worst, p.sum>>, <<x.worst, x.sum>>)
    BY <2>5, <2>7, <2>8
  <2> QED
    BY <1>10, <2>9 DEF good, mine, IsBestOption
<1> QED
  BY <1>9, <1>10

\* Until the searches begin nothing is found; what is found and what is still
\* to be searched from is everything there is; and a job with an exact count
\* compares all of it.
Gathering ==
  /\ pc \in Beginnings \cup {"direct", "outward"} => found = {}
  /\ pc = "return" =>
       found \cup UNION {Combined(job, Most(job), o) : o \in pending} = Gathered(job, Most(job))
  /\ (pc = "compare" /\ job.mode = "exact") => options = BestByCount(Gathered(job, Most(job)))

GatheringInvariant == SoundInvariant /\ Gathering

LEMMA OutwardGathers == GatheringInvariant /\ SearchOutward => Gathering'
<1> SUFFICES ASSUME GatheringInvariant, SearchOutward PROVE Gathering'
  OBVIOUS
<1>1. /\ pc = "outward" /\ job' = job /\ found' = found
      /\ \/ pending' = Outward(job, Most(job)) /\ pc' = "return"
         \/ pc' = "failed"
  BY DEF SearchOutward, Maximum, Most
<1>2. found' = {}
  BY <1>1 DEF GatheringInvariant, Gathering
<1>3. CASE pc' = "return"
  <2>1. pending' = Outward(job, Most(job))
    BY <1>1, <1>3
  <2> QED
    BY <1>1, <1>2, <1>3, <2>1 DEF Gathering, Gathered, Beginnings
<1>4. CASE pc' = "failed"
  BY <1>4 DEF Gathering, Beginnings
<1> QED
  BY <1>1, <1>3, <1>4

LEMMA ReturnGathers ==
  ASSUME GatheringInvariant, NEW outward \in pending, SearchReturn(outward)
  PROVE  Gathering'
<1> DEFINE F(o) == Combined(job, Most(job), o)
<1>1. /\ pc = "return" /\ job' = job /\ pending' = pending \ {outward}
      /\ \/ found' = found \cup F(outward) /\ pc' = "return"
         \/ pc' = "failed"
  BY DEF SearchReturn, Maximum, Most
<1>2. found \cup UNION {F(o) : o \in pending} = Gathered(job, Most(job))
  BY <1>1 DEF GatheringInvariant, Gathering
<1>3. CASE found' = found \cup F(outward) /\ pc' = "return"
  <2>1. Gathered(job, Most(job))' = Gathered(job, Most(job))
    BY <1>1 DEF Gathered, Most
  <2>2. UNION {F(o)' : o \in pending'} = UNION {F(o) : o \in pending'}
    BY <1>1 DEF Most
  <2> HIDE DEF F
  <2>3. found' \cup UNION {F(o) : o \in pending'} = found \cup UNION {F(o) : o \in pending}
    BY <1>1, <1>3
  <2>4. found' \cup UNION {F(o)' : o \in pending'} = Gathered(job, Most(job))'
    BY <1>2, <2>1, <2>2, <2>3
  <2> QED
    BY <1>3, <2>4 DEF Gathering, Beginnings, F
<1>4. CASE pc' = "failed"
  BY <1>4 DEF Gathering, Beginnings
<1> QED
  BY <1>1, <1>3, <1>4

LEMMA CollectGathers == GatheringInvariant /\ Collect => Gathering'
<1> SUFFICES ASSUME GatheringInvariant, Collect PROVE Gathering'
  OBVIOUS
<1>1. /\ pc = "return" /\ pc' = "compare" /\ job' = job /\ pending = {}
      /\ options' = BestByCount({o \in found : job.mode = "exact" \/ IsRival(o)})
  BY DEF Collect
<1>2. found = Gathered(job, Most(job))
  BY <1>1 DEF GatheringInvariant, Gathering
<1>3. ASSUME job.mode = "exact" PROVE options' = BestByCount(Gathered(job, Most(job)))
  <2>1. {o \in found : job.mode = "exact" \/ IsRival(o)} = found
    BY <1>3
  <2> QED
    BY <1>1, <1>2, <2>1
<1> QED
  BY <1>1, <1>3 DEF Gathering, Beginnings, Gathered, Most

LEMMA GatheringAlways == Spec => []GatheringInvariant
<1>1. Init => Gathering
  BY DEF Init, Gathering, Beginnings
<1>2. GatheringInvariant /\ [Next]_vars => Gathering'
  <2> SUFFICES ASSUME GatheringInvariant, [Next]_vars PROVE Gathering'
    OBVIOUS
  <2>1. CASE Preflight
    BY <2>1 DEF Preflight, Idle, GatheringInvariant, Gathering, Beginnings
  <2>2. CASE Validate
    BY <2>2 DEF Validate, Idle, GatheringInvariant, Gathering, Beginnings
  <2>3. CASE Direct
    BY <2>3 DEF Direct, GatheringInvariant, Gathering, Beginnings
  <2>4. CASE SearchOutward
    BY <2>4, OutwardGathers
  <2>5. CASE \E outward \in pending : SearchReturn(outward)
    BY <2>5, ReturnGathers
  <2>6. CASE Collect
    BY <2>6, CollectGathers
  <2>7. CASE ChooseExact
    BY <2>7 DEF ChooseExact, GatheringInvariant, Gathering, Beginnings
  <2>8. CASE CompareOption
    <3>1. job.mode = "automatic" /\ job' = job /\ pc' \in {"compare", "done"}
      BY <2>8 DEF CompareOption
    <3> QED
      BY <3>1 DEF Gathering, Beginnings
  <2>9. CASE ChooseFallback
    BY <2>9 DEF ChooseFallback, GatheringInvariant, Gathering, Beginnings
  <2>10. CASE Stopped \/ UNCHANGED vars
    <3>1. /\ job' = job /\ pc' = pc /\ found' = found /\ pending' = pending
          /\ options' = options
      BY <2>10 DEF Stopped, vars
    <3>2. Gathering
      BY DEF GatheringInvariant
    <3> QED
      BY <3>1, <3>2 DEF Gathering
  <2> QED
    BY <2>1, <2>2, <2>3, <2>4, <2>5, <2>6, <2>7, <2>8, <2>9, <2>10 DEF Next
<1>3. GatheringInvariant /\ [Next]_vars /\ SoundInvariant' => GatheringInvariant'
  BY <1>2 DEF GatheringInvariant
<1> QED
  BY <1>1, <1>3, SoundAlways, PTL DEF Spec, GatheringInvariant

\* For a job with an exact count and one way to a single destination, limits
\* that cut nothing make the option of each count the best of the good routes
\* in the two measures that matter (preview.rs:1555-1862), whatever the
\* distances, the windows and the library are.
THEOREM WideOptionsAreTheBest == Spec => []WideOptionsAreBest
<1>1. GatheringInvariant => WideOptionsAreBest
  <2> SUFFICES ASSUME GatheringInvariant, pc = "compare", job.mode = "exact", CutsNothing(job),
                      ~Rejoins(job), Len(Block(job)) = 1
               PROVE  WideOptionsAreBest
    BY DEF WideOptionsAreBest
  <2>1. /\ IsJob(job) /\ Shape(job) /\ OneWay(job) /\ Most(job) = job.count
        /\ Maximum = job.count /\ job.count \in Nat
    BY SearchedShape DEF GatheringInvariant, SoundInvariant, Beginnings, OneWay, Most, Maximum
  <2>2. options = BestByCount(Gathered(job, job.count))
    BY <2>1 DEF GatheringInvariant, Gathering
  <2>3. \A o \in Gathered(job, job.count) : GoodOption(job, job.count, o)
    BY <2>1, CombinedAreGood DEF Gathered
  <2>4. IsRanking(options, Gathered(job, job.count))
    BY <2>1, <2>2, <2>3, BestByCountIsRanking
  <2>5. \A n \in 0..job.count : IsBestOption(job, options, n)
    BY <2>1, <2>4, WideRankingIsBest
  <2> QED
    BY <2>1, <2>5 DEF WideOptionsAreBest, IsBestOption
<1> QED
  BY <1>1, GatheringAlways, PTL

=============================================================================
