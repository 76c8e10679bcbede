-------------------------------- MODULE Orders --------------------------------
(* Selection by a total order: a vector that is sorted by a key and truncated *)
(* is the set of its least elements when no two elements have the same key.   *)
(* And the sum of a vector.                                                   *)
EXTENDS Integers, Sequences, FiniteSets

Elements(s) == {s[i] : i \in DOMAIN s}

LexBefore(a, b) ==
  \E i \in DOMAIN a \cap DOMAIN b :
    a[i] < b[i] /\ \A j \in 1..(i - 1) : a[j] = b[j]

\* The first n elements of S in the order of their keys.
Least(S, n, Key(_)) ==
  {s \in S : Cardinality({t \in S : LexBefore(Key(t), Key(s))}) < n}

\* The elements of S in the order of their keys, all different.
Sorted(S, Key(_)) ==
  [k \in 1..Cardinality(S) |->
     CHOOSE s \in S :
       Cardinality({t \in S : LexBefore(Key(t), Key(s))}) = k - 1]

\* The least element of a set that has one.
Best(S, Key(_)) == CHOOSE s \in S : \A t \in S : ~LexBefore(Key(t), Key(s))

\* The sums of the first 0, 1, 2, ... values, and of all of them.
Sums(values) ==
  LET upTo[n \in 0..Len(values)] == IF n = 0 THEN 0 ELSE upTo[n - 1] + values[n]
  IN upTo

Total(values) == Sums(values)[Len(values)]
=============================================================================
