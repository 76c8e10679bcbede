-------------------------- MODULE DurationMembership --------------------------
(***************************************************************************)
(* find_memberships_with_filter of src/src/duration_membership.rs: the     *)
(* depth-first enumeration of candidate combinations whose total duration  *)
(* lies in a range, in the caller's order of relevance, under a node       *)
(* budget and a result budget.                                             *)
(*                                                                         *)
(* A request is the record [candidates, minimum, maximum, maximumTracks,   *)
(* nodeBudget, maximumResults]; candidates is a sequence of records        *)
(* [id, duration].  Durations are unsigned words that end at MaxWord.      *)
(***************************************************************************)
EXTENDS Integers, Sequences, FiniteSets, SequencesExt

CONSTANTS
  SearchRequests,   \* the requests considered
  Accept(_, _),     \* the caller's filter, on a request and the selected ids
  MaxWord           \* u64::MAX

VARIABLES
  request,       \* the arguments, never changed
  pool,          \* the candidates left after dropping repeated and empty ones
  stack,         \* pending nodes, the top last
  nodes,         \* nodes visited
  seen,          \* combinations that were long enough, accepted or not
  memberships,   \* the result so far
  searchLimited,
  pc

vars == <<request, pool, stack, nodes, seen, memberships, searchLimited, pc>>

\* The elements of a set as a sequence, in a strict total order.
Ordered(S, Before(_, _)) ==
  [k \in 1..Cardinality(S) |->
     CHOOSE x \in S : Cardinality({y \in S : Before(y, x)}) = k - 1]

SaturatingAdd(a, b) == Min({a + b, MaxWord})

\* The first candidate of each id, those without a duration left out.
Deduplicated(candidates) ==
  LET kept == {i \in DOMAIN candidates :
                 /\ candidates[i].duration > 0
                 /\ \A j \in 1..(i - 1) :
                      \/ candidates[j].duration = 0
                      \/ candidates[j].id # candidates[i].id}
      order == Ordered(kept, <)
  IN [k \in DOMAIN order |-> candidates[order[k]]]

\* What the candidates from `index` on could still add.
RemainingFrom(candidates, index) ==
  FoldRight(LAMBDA c, total : SaturatingAdd(total, c.duration),
            SubSeq(candidates, index, Len(candidates)), 0)

Node(index, duration, selected) ==
  [index |-> index, duration |-> duration, selected |-> selected]

-----------------------------------------------------------------------------
TypeOK ==
  /\ request.minimum \in Nat /\ request.maximum \in Nat
  /\ nodes \in 0..request.nodeBudget
  /\ \A k \in DOMAIN stack :
       /\ stack[k].index \in 1..(Len(pool) + 1)
       /\ stack[k].duration \in 0..request.maximum
       /\ Len(stack[k].selected) <= request.maximumTracks
  /\ Len(memberships) <= request.maximumResults
  /\ searchLimited \in BOOLEAN
  /\ pc \in {"start", "search", "done"}

Init ==
  /\ request \in SearchRequests
  /\ pool = <<>>
  /\ stack = <<>>
  /\ nodes = 0
  /\ seen = {}
  /\ memberships = <<>>
  /\ searchLimited = FALSE
  /\ pc = "start"

NothingToSearch(req) ==
  req.minimum > req.maximum \/ req.maximumResults = 0 \/ req.minimum = 0

\* No range, no room for a result, or no addition needed at all.
ReturnEarly ==
  /\ pc = "start"
  /\ NothingToSearch(request)
  /\ memberships' = IF /\ request.minimum <= request.maximum
                       /\ request.maximumResults > 0
                       /\ Accept(request, <<>>)
                    THEN << <<>> >> ELSE <<>>
  /\ pc' = "done"
  /\ UNCHANGED <<request, pool, stack, nodes, seen, searchLimited>>

Begin ==
  /\ pc = "start"
  /\ ~NothingToSearch(request)
  /\ pool' = Deduplicated(request.candidates)
  /\ stack' = <<Node(1, 0, <<>>)>>
  /\ pc' = "search"
  /\ UNCHANGED <<request, nodes, seen, memberships, searchLimited>>

Exhausted ==
  /\ pc = "search"
  /\ stack = <<>>
  /\ pc' = "done"
  /\ UNCHANGED <<request, pool, stack, nodes, seen, memberships, searchLimited>>

\* Mutant: running out of nodes is not reported.
OutOfBudgetUnreported ==
  /\ pc = "search"
  /\ stack # <<>>
  /\ nodes >= request.nodeBudget
  /\ stack' = Front(stack)
  /\ pc' = "done"
  /\ UNCHANGED <<request, pool, nodes, seen, memberships, searchLimited>>

OutOfBudget ==
  /\ pc = "search"
  /\ stack # <<>>
  /\ nodes >= request.nodeBudget
  /\ stack' = Front(stack)
  /\ searchLimited' = TRUE
  /\ pc' = "done"
  /\ UNCHANGED <<request, pool, nodes, seen, memberships>>

\* A node that is long enough for the first time and passes the filter.
Qualifies(node) ==
  /\ node.duration >= request.minimum
  /\ node.selected \notin seen
  /\ Accept(request, node.selected)

IsLeaf(node) ==
  \/ node.index > Len(pool)
  \/ Len(node.selected) >= request.maximumTracks
  \/ SaturatingAdd(node.duration, RemainingFrom(pool, node.index))
       < request.minimum

\* The including child goes on top; it exists unless the sum leaves the word or
\* the range.
Children(node) ==
  LET candidate == pool[node.index]
      next == node.duration + candidate.duration
      excluding == Node(node.index + 1, node.duration, node.selected)
      including == Node(node.index + 1, next,
                        Append(node.selected, candidate.id))
  IN IF next <= MaxWord /\ next <= request.maximum
     THEN <<excluding, including>> ELSE <<excluding>>

Visit ==
  LET node == Last(stack)
      found == IF Qualifies(node) THEN Append(memberships, node.selected)
               ELSE memberships
      full == Qualifies(node) /\ Len(found) >= request.maximumResults
  IN /\ pc = "search"
     /\ stack # <<>>
     /\ nodes < request.nodeBudget
     /\ nodes' = nodes + 1
     /\ seen' = IF node.duration >= request.minimum
                THEN seen \cup {node.selected} ELSE seen
     /\ memberships' = found
     /\ searchLimited' =
          IF full THEN Len(stack) > 1 \/ node.index <= Len(pool)
          ELSE searchLimited
     /\ pc' = IF full THEN "done" ELSE pc
     /\ stack' = IF full \/ IsLeaf(node) THEN Front(stack)
                 ELSE Front(stack) \o Children(node)
     /\ UNCHANGED <<request, pool>>

Next == ReturnEarly \/ Begin \/ Exhausted \/ OutOfBudget \/ Visit

Spec == Init /\ [][Next]_vars

-----------------------------------------------------------------------------
(***************************************************************************)
(* The reference: all acceptable combinations, in relevance order.  A      *)
(* combination is an increasing sequence of positions in the pool; of two, *)
(* the one that uses the more relevant candidate first comes first, and a  *)
(* combination comes before its own extensions.                            *)
(***************************************************************************)
Positions(combination) == Ordered(combination, <)

Ids(combination) ==
  [k \in DOMAIN Positions(combination) |-> pool[Positions(combination)[k]].id]

Total(combination) ==
  FoldSet(LAMBDA i, total : total + pool[i].duration, 0, combination)

Eligible ==
  {c \in SUBSET (DOMAIN pool) :
     /\ Total(c) \in request.minimum..request.maximum
     /\ Cardinality(c) <= request.maximumTracks
     /\ Accept(request, Ids(c))}

MoreRelevant(a, b) ==
  LET p == Positions(a) q == Positions(b)
  IN \/ IsStrictPrefix(p, q)
     \/ \E i \in DOMAIN p \cap DOMAIN q :
          p[i] < q[i] /\ \A j \in 1..(i - 1) : p[j] = q[j]

RankedEligible ==
  LET ranked == Ordered(Eligible, MoreRelevant)
  IN [k \in DOMAIN ranked |-> Ids(ranked[k])]

\* At every moment the result is a prefix of the eligible combinations in
\* relevance order: the budgets cut the enumeration short but never let a less
\* relevant combination in before a more relevant one, twice, or out of range,
\* even where the sum of durations leaves the machine word.
ResultIsMostRelevant ==
  pc # "start" /\ ~NothingToSearch(request) =>
    IsPrefix(memberships, RankedEligible)

\* An unlimited search is evidence: when the search does not report a limit, no
\* eligible combination is missing (the caller words its error by that flag).
UnlimitedIsExhaustive ==
  (pc = "done" /\ ~searchLimited /\ ~NothingToSearch(request)) =>
    memberships = RankedEligible
=============================================================================
