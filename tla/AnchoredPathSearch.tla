-------------------------- MODULE AnchoredPathSearch --------------------------
(***************************************************************************)
(* search_anchored_paths_with_exempt_prefix as a computation: one step per *)
(* layer of the beam and one per finished number of intermediates.         *)
(***************************************************************************)
EXTENDS AnchoredPath

CONSTANT Requests   \* the search requests considered

ASSUME RequestsAssumption == \A req \in Requests : IsRequest(req)

VARIABLES
  query,       \* the argument, never changed
  requested,   \* the number of intermediates being searched
  layer,       \* layers completed for it
  frontier,    \* the retained partial paths
  options,     \* the result collected so far
  stage

searchVars == <<query, requested, layer, frontier, options, stage>>

SearchTypeOK ==
  /\ query \in Requests
  /\ requested \in Nat
  /\ layer \in 0..requested
  /\ \A state \in frontier : Len(state.intermediates) = layer
  /\ \A option \in options :
       Elements(option.intermediates) \subseteq DOMAIN query.candidates
  /\ stage \in {"validate", "direct", "search", "done", "rejected"}

-----------------------------------------------------------------------------
SearchInit ==
  /\ query \in Requests
  /\ requested = 0
  /\ layer = 0
  /\ frontier = {}
  /\ options = {}
  /\ stage = "validate"

Validate ==
  /\ stage = "validate"
  /\ stage' = IF ValidRequest(query) THEN "direct" ELSE "rejected"
  /\ UNCHANGED <<query, requested, layer, frontier, options>>

StartCount(count) ==
  /\ requested' = count
  /\ layer' = 0
  /\ frontier' = {EmptyPath}

Direct ==
  /\ stage = "direct"
  /\ options' = DirectOptions(query)
  /\ StartCount(FirstCount(query))
  /\ stage' = "search"
  /\ UNCHANGED query

Layer ==
  /\ stage = "search"
  /\ requested <= StructuralUpperBound(query)
  /\ layer < requested
  /\ frontier # {}
  /\ frontier' = NextFrontier(query, requested, frontier)
  /\ layer' = layer + 1
  /\ UNCHANGED <<query, requested, options, stage>>

\* Mutant: the next count goes on from this one's frontier.
SelectKeepingFrontier ==
  /\ stage = "search"
  /\ requested <= StructuralUpperBound(query)
  /\ layer = requested \/ frontier = {}
  /\ \E selected \in Selections(query, Complete(query, requested, frontier)) :
       options' = options \cup selected
  /\ requested' = requested + 1
  /\ UNCHANGED <<query, layer, frontier, stage>>

Select ==
  /\ stage = "search"
  /\ requested <= StructuralUpperBound(query)
  /\ layer = requested \/ frontier = {}
  /\ \E selected \in Selections(query, Complete(query, requested, frontier)) :
       options' = options \cup selected
  /\ StartCount(requested + 1)
  /\ UNCHANGED <<query, stage>>

Finish ==
  /\ stage = "search"
  /\ requested > StructuralUpperBound(query)
  /\ stage' = "done"
  /\ UNCHANGED <<query, requested, layer, frontier, options>>

SearchNext == Validate \/ Direct \/ Layer \/ Select \/ Finish

SearchSpec == SearchInit /\ [][SearchNext]_searchVars

-----------------------------------------------------------------------------
\* Every option is a path the reference accepts, with the reference's own sum,
\* bottleneck and guidance: the layer checks, which see only the context before
\* a candidate, and the closing checks miss no pair of the finished route.
OptionsSound ==
  \A option \in options :
    option \in GoodPaths(query, Len(option.intermediates))

\* With limits wide enough to keep everything, the result for each count is the
\* reference's best paths, and no count that has a path is missing: neither the
\* lower bound on the count nor the destination pruning of a layer ever cuts a
\* path that would have been complete.
WideSearchIsExact ==
  (stage = "done" /\ Wide(query) /\ query.variation = 0) =>
    \A n \in 0..StructuralUpperBound(query) :
      {o \in options : Len(o.intermediates) = n}
        = Least(GoodPaths(query, n), query.alternatives, CompleteKey)

\* Whatever the limits prune, the steps arrive at the function outer planners
\* use: no count inherits anything from the one searched before it.
SearchIsAFunction ==
  (stage = "done" /\ query.variation = 0) => options = AnchoredPaths(query)

\* What the documentation says of variation: a varied result is within 2% of
\* the best path's bottleneck and within 5% of its sum.
VariationStaysInBand ==
  (stage = "done" /\ Wide(query) /\ query.alternatives = 1) =>
    \A option \in options :
      \E best \in Least(GoodPaths(query, Len(option.intermediates)), 1,
                        CompleteKey) :
        /\ 100 * option.worst <= 102 * best.worst
        /\ 100 * option.sum <= 105 * best.sum

\* The search's variables are well-formed and every option it holds is sound
\* (anchored_path_internal, anchored_path.rs:355-640).
SearchSound == SearchTypeOK /\ OptionsSound
=============================================================================
