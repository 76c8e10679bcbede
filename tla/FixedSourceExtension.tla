------------------------- MODULE FixedSourceExtension -------------------------
(***************************************************************************)
(* Fixed-source extension (src/src/main.rs): a source playlist is extended *)
(* to a number of tracks, or to a duration, with the library tracks that   *)
(* are closest to it.  The command resolves its target, orders the         *)
(* candidates, and then tries memberships one after the other: select      *)
(* under the repeat capacities, place or route, check, until one passes.   *)
(*                                                                         *)
(* With a duration goal the memberships come from DurationMembership,      *)
(* whose steps are steps of this module.  Routing is RouteSearch's; here   *)
(* it is what that module guarantees: some order that keeps the windows,   *)
(* or a failure.  Scores of candidates and transitions are data.           *)
(*                                                                         *)
(* A job is a record of the tracks, the source in the caller's and in the  *)
(* routed order, the eligible candidates by distance from the source, the  *)
(* request's settings and what the guidance host answered; see MC.         *)
(***************************************************************************)
EXTENDS RepeatWindows, Orders

CONSTANTS
  Jobs,
  NoMaximum,             \* a request without max_added_tracks
  DiscoveryMultiplier,   \* TARGET_GUIDANCE_DISCOVERY_MULTIPLIER
  DiscoveryLimit,        \* MAX_TARGET_GUIDANCE_DISCOVERY_CANDIDATES
  DurationTrackLimit,    \* 500 tracks
  NodeBudget,            \* 100_000 nodes of the membership search
  ResultBudget,          \* 128 memberships
  MaxWord                \* u64::MAX

ASSUME BoundsAssumption ==
  {NoMaximum, DiscoveryMultiplier, DiscoveryLimit, DurationTrackLimit,
   NodeBudget, ResultBudget, MaxWord} \subseteq Nat

VARIABLES
  job,
  phase,        \* where the command is
  goal,         \* [least, most]: the totals allowed, resolved from the request
  order,        \* the candidates in the order they are selected from
  poolLimit,    \* how many of them form the quality-controlled pool
  plans,        \* the attempts still to make: [count, members]
  additions,    \* of the attempt that is being routed
  rejected,     \* the attempts that failed, in order: [count, why]
  outcome,      \* the final route, when there is one
  error,        \* why the command failed, when it did
  \* the membership search
  request, pool, stack, nodes, seen, memberships, searchLimited, searchPc

search == <<request, pool, stack, nodes, seen, memberships, searchLimited,
            searchPc>>
vars == <<job, phase, goal, order, poolLimit, plans, additions, rejected,
          outcome, error, search>>

SourceCount(j) == Len(j.source)

Timed(j) == j.duration # {}

\* The request's duration target, of a job that has one.
Target(j) == CHOOSE t \in j.duration : TRUE

AlreadySatisfied(j) ==
  Timed(j) /\ Target(j).source \in Target(j).minimum..Target(j).maximum

CandidateDuration(j, c) == j.durations[c]

-----------------------------------------------------------------------------
\* Repeat capacities: how often a key may occur among `total` tracks.
CeilDiv(a, b) == (a + b - 1) \div b

\* A window of 0 sets no limit (any number above `total` is none).
Capacity(total, window) ==
  IF window = 0 THEN total + 1 ELSE CeilDiv(total, window + 1)

ArtistCapacityKeys(track) ==
  IF track.repeatKeys # {} THEN track.repeatKeys
  ELSE {track.artist} \ {NoKey, VariousArtists}

ArtistCount(tracks, members, key) ==
  Cardinality({i \in DOMAIN members :
                 key \in ArtistCapacityKeys(tracks[members[i]])})

\* The album key is counted as it is, also when it is empty.
AlbumCount(tracks, members, key) ==
  Cardinality({i \in DOMAIN members : tracks[members[i]].album = key})

WithinCapacity(j, members, total) ==
  \A i \in DOMAIN members :
    LET track == j.tracks[members[i]]
    IN /\ \A key \in ArtistCapacityKeys(track) :
            ArtistCount(j.tracks, members, key)
              <= Capacity(total, j.windows.artist)
       /\ AlbumCount(j.tracks, members, track.album)
            <= Capacity(total, j.windows.album)
\* Mutant: one more than the capacity is let in.
HasRoomOffByOne(j, members, candidate, total) ==
  LET track == j.tracks[candidate]
  IN /\ \A key \in ArtistCapacityKeys(track) :
          ArtistCount(j.tracks, members, key)
            <= Capacity(total, j.windows.artist)
     /\ AlbumCount(j.tracks, members, track.album)
          <= Capacity(total, j.windows.album)

HasRoom(j, members, candidate, total) ==
  LET track == j.tracks[candidate]
  IN /\ \A key \in ArtistCapacityKeys(track) :
          ArtistCount(j.tracks, members, key)
            < Capacity(total, j.windows.artist)
     /\ AlbumCount(j.tracks, members, track.album)
          < Capacity(total, j.windows.album)

\* Mutant: the filter leaves the sources out of the count.
PassesCapacityOfAdditions(req, ids) ==
  LET j == req.job
  IN WithinCapacity(j, ids, SourceCount(j) + Len(ids))

\* The filter handed to the membership search.
PassesCapacity(req, ids) ==
  LET j == req.job
  IN WithinCapacity(j, j.source \o ids, SourceCount(j) + Len(ids))

-----------------------------------------------------------------------------
\* The pool guidance and variation may reorder, a prefix of the ranking.
Percentage(n, percent) == CeilDiv(n * percent, 100)

BaselineLimit(j, requested) ==
  Min({IF j.varied \/ j.guided THEN requested * DiscoveryMultiplier
       ELSE requested,
       j.shortlist, Len(j.ranked)})

Supported(j, channel, limit) ==
  Cardinality({i \in 1..limit : j.ranked[i] \in j.support[channel]})

\* The least prefix that holds enough supported candidates for every target
\* share, or the whole discovery batch.
TargetShareMinimumPoolLimit(j, discovered, requested, minimum) ==
  LET enough == {n \in Larger(minimum, 1)..discovered :
                   \A channel \in DOMAIN j.shares :
                     Supported(j, channel, n)
                       >= Percentage(requested, j.shares[channel])}
  IN IF discovered = 0 THEN 0
     ELSE IF enough = {} THEN discovered ELSE Min(enough)

GuidancePoolPlan(j, requested) ==
  LET base == BaselineLimit(j, requested)
      wide == Min({Larger(base, requested * DiscoveryMultiplier), Len(j.ranked)})
      discovered == Min({Larger(wide, Min({j.shortlist * DiscoveryMultiplier,
                                           DiscoveryLimit})), Len(j.ranked)})
  IN IF DOMAIN j.shares = {} THEN base
     ELSE TargetShareMinimumPoolLimit(j, discovered, requested, wide)

\* All orders of the members of a sequence.
Arrangements(s) ==
  {[i \in DOMAIN s |-> s[p[i]]] : p \in Permutations(DOMAIN s)}

\* Random draws and provider scores decide the order inside the pool; the
\* rest of the ranking follows unchanged.
SelectionOrders(j, limit) ==
  IF j.varied \/ j.guided
  THEN {p \o SubSeq(j.ranked, limit + 1, Len(j.ranked)) :
          p \in Arrangements(SubSeq(j.ranked, 1, limit))}
  ELSE {j.ranked}

-----------------------------------------------------------------------------

SearchRequest(j, candidates, g) ==
  LET timed == SelectSeq(candidates, LAMBDA c : CandidateDuration(j, c) > 0)
  IN [candidates |-> [k \in DOMAIN timed |->
                        [id |-> timed[k],
                         duration |-> CandidateDuration(j, timed[k])]],
      minimum |-> SaturatingSub(Target(j).minimum, Target(j).source),
      maximum |-> Target(j).maximum - Target(j).source,
      maximumTracks |-> g.most - SourceCount(j),
      nodeBudget |-> NodeBudget,
      maximumResults |-> ResultBudget,
      job |-> j]

NoRequest ==
  [candidates |-> <<>>, minimum |-> 0, maximum |-> 0, maximumTracks |-> 0,
   nodeBudget |-> 0, maximumResults |-> 0]

Membership == INSTANCE DurationMembership
  WITH pc <- searchPc, Accept <- PassesCapacity, SearchRequests <- {NoRequest}

SearchIdle ==
  /\ request = NoRequest /\ pool = <<>> /\ stack = <<>> /\ nodes = 0
  /\ seen = {} /\ memberships = <<>> /\ searchLimited = FALSE
  /\ searchPc = "idle"

Init ==
  /\ job \in Jobs
  /\ phase = "resolve"
  /\ goal = [least |-> 0, most |-> 0]
  /\ order = <<>>
  /\ poolLimit = 0
  /\ plans = <<>>
  /\ additions = <<>>
  /\ rejected = <<>>
  /\ outcome = <<>>
  /\ error = "none"
  /\ SearchIdle

Fail(code) == phase' = "failed" /\ error' = code

\* Why a duration target is refused before anything is searched, if it is.
DurationError(j) ==
  CASE Timed(j) /\ (\/ Target(j).minimum > Target(j).maximum
                    \/ Target(j).source > Target(j).maximum) ->
         "DURATION_TARGET_INVALID"
    [] /\ Timed(j)
       /\ ~AlreadySatisfied(j)
       /\ \A c \in Elements(j.ranked) : CandidateDuration(j, c) = 0 ->
         "DURATION_CANDIDATES_MISSING"
    [] OTHER -> "none"

\* The totals the command asks for.
Requested(j) ==
  IF Timed(j)
  THEN [least |-> SourceCount(j) + (IF AlreadySatisfied(j) THEN 0 ELSE 1),
        most |-> IF AlreadySatisfied(j) THEN SourceCount(j)
                 ELSE DurationTrackLimit]
  ELSE [least |-> j.target,
        most |-> IF j.maximum = NoMaximum THEN j.target
                 ELSE SourceCount(j) + j.maximum]

Resolve ==
  LET asked == Requested(job)
      most == Min({asked.most, SourceCount(job) + Len(job.ranked)})
  IN /\ phase = "resolve"
     /\ IF DurationError(job) # "none"
        THEN Fail(DurationError(job)) /\ UNCHANGED goal
        ELSE IF \/ asked.least < SourceCount(job)
                \/ asked.least = SourceCount(job) /\ ~Timed(job)
                \/ most < asked.least
        THEN Fail("FIXED_SOURCE_EXTENSION_TARGET_INVALID") /\ UNCHANGED goal
        ELSE /\ goal' = [least |-> asked.least, most |-> most]
             /\ phase' = "rank"
             /\ UNCHANGED error
     /\ UNCHANGED <<job, order, poolLimit, plans, additions, rejected, outcome,
                    search>>

\* Without a duration every total allowed is tried, the least first.
Targets(g) ==
  [k \in 1..(g.most - g.least + 1) |-> [count |-> g.least + k - 1, members |-> {}]]

\* Ranking by distance, the guidance pool and the draw inside it.
Rank ==
  /\ phase = "rank"
  /\ LET limit == GuidancePoolPlan(job, goal.most - SourceCount(job))
     IN /\ poolLimit' = limit
        /\ order' \in SelectionOrders(job, limit)
  /\ phase' = IF Timed(job) THEN "search" ELSE "attempt"
  /\ plans' = IF Timed(job) THEN <<>>
              ELSE Targets(goal)
  /\ UNCHANGED <<job, goal, additions, rejected, outcome, error, search>>

StartSearch ==
  /\ phase = "search"
  /\ searchPc = "idle"
  /\ request' = SearchRequest(job, order, goal)
  /\ searchPc' = "start"
  /\ UNCHANGED <<job, phase, goal, order, poolLimit, plans, additions, rejected,
                 outcome, error, pool, stack, nodes, seen, memberships, searchLimited>>

SearchStep ==
  /\ phase = "search"
  /\ Membership!Next
  /\ UNCHANGED <<job, phase, goal, order, poolLimit, plans, additions, rejected,
                 outcome, error>>

FinishSearch ==
  /\ phase = "search"
  /\ searchPc = "done"
  /\ plans' = [k \in DOMAIN memberships |->
                 [count |-> SourceCount(job) + Len(memberships[k]),
                  members |-> Elements(memberships[k])]]
  /\ IF memberships = <<>> THEN Fail("DURATION_TARGET_NOT_FOUND")
     ELSE phase' = "attempt" /\ UNCHANGED error
  /\ UNCHANGED <<job, goal, order, poolLimit, additions, rejected, outcome, search>>

-----------------------------------------------------------------------------
\* Candidates enter in selection order as long as their keys have room.
Selected(j, candidates, count) ==
  FoldLeft(LAMBDA chosen, c :
             IF /\ Len(chosen) < count - SourceCount(j)
                /\ HasRoom(j, j.source \o chosen, c, count)
             THEN Append(chosen, c) ELSE chosen,
           <<>>, candidates)

Choice(plan) ==
  Selected(job, IF Timed(job)
                THEN SelectSeq(order, LAMBDA c : c \in plan.members)
                ELSE order,
           plan.count)

Reject(why) ==
  /\ rejected' = Append(rejected, [count |-> Head(plans).count, why |-> why])
  /\ plans' = Tail(plans)
  /\ phase' = "attempt"
  /\ UNCHANGED <<additions, outcome, error>>

\* One attempt as far as its membership.
Select ==
  /\ phase = "attempt"
  /\ plans # <<>>
  /\ LET plan == Head(plans)
         chosen == Choice(plan)
     IN IF ~WithinCapacity(job, job.source, plan.count)
        THEN Reject("source exceeds capacity")
        ELSE IF Len(chosen) # plan.count - SourceCount(job)
        THEN Reject("too few additions")
        ELSE /\ additions' = chosen
             /\ phase' = "route"
             /\ UNCHANGED <<plans, rejected, outcome, error>>
  /\ UNCHANGED <<job, goal, order, poolLimit, search>>

\* The last failure is what the caller learns; with none, no target existed.
GiveUp ==
  /\ phase = "attempt"
  /\ plans = <<>>
  /\ Fail(IF rejected = <<>> THEN "no target" ELSE Last(rejected).why)
  /\ UNCHANGED <<job, goal, order, poolLimit, plans, additions, rejected, outcome,
                 search>>

-----------------------------------------------------------------------------
RepeatViolations(j, route) ==
  {p \in (DOMAIN route) \X (DOMAIN route) :
     p[1] < p[2] /\ ~ArtistAndAlbumApart(j.tracks, j.windows, route[p[1]],
                                         route[p[2]], p[2] - p[1])}

\* Each offending pair counts once per kind.
ViolationCount(j, route) ==
  LET w == j.windows
      near(kind) == {p \in RepeatViolations(j, route) :
                       LET a == j.tracks[route[p[1]]] b == j.tracks[route[p[2]]]
                       IN IF kind = "artist"
                          THEN ArtistsRepeat(a, b) /\ p[2] - p[1] <= w.artist
                          ELSE AlbumsRepeat(a, b) /\ p[2] - p[1] <= w.album}
  IN Cardinality(near("artist")) + Cardinality(near("album"))

\* The objective of a route: a sum over its transitions, which are data.
Objective(route) ==
  FoldFunction(LAMBDA c, total : c + total, 0,
               [i \in 1..(Len(route) - 1) |-> Gap(route[i], route[i + 1])])

PlacementKey(j, route) ==
  <<ViolationCount(j, route), Objective(route)>> \o route

\* Every addition goes where it leaves the fewest violations, then the least
\* objective, then the first route in order.
InsertBest(j, route, candidate) ==
  Best({InsertAt(route, position, candidate) : position \in 1..(Len(route) + 1)},
       LAMBDA r : PlacementKey(j, r))
PlacePreservingOrder(j, chosen) ==
  FoldLeft(LAMBDA route, c : InsertBest(j, route, c), j.route, chosen)
\* Mutant: a route is accepted as it was placed.
AcceptUnchecked(route) ==
  outcome' = route /\ phase' = "report" /\ UNCHANGED <<rejected, plans, additions, error>>

\* A route is checked once more before it is accepted.
Accept(route) ==
  IF RepeatViolations(job, route) # {}
  THEN Reject("violates windows")
  ELSE outcome' = route /\ phase' = "report" /\ UNCHANGED <<rejected, plans, additions, error>>

Place ==
  /\ phase = "route"
  /\ job.preserve
  /\ Accept(PlacePreservingOrder(job, additions))
  /\ UNCHANGED <<job, goal, order, poolLimit, search>>

\* What RouteSearch returns: an order of its tracks within the windows, or none.
RouteOrders(j, members) ==
  {r \in Arrangements(members) : RepeatViolations(j, r) = {}}

RouteMembership ==
  /\ phase = "route"
  /\ ~job.preserve
  /\ \/ \E r \in RouteOrders(job, job.route \o additions) : Accept(r)
     \/ Reject("not routed")
  /\ UNCHANGED <<job, goal, order, poolLimit, search>>

\* The duration of the result is added up once more from the request.
ResultDuration(j, chosen) ==
  FoldLeft(LAMBDA total, c : total + CandidateDuration(j, c), Target(j).source,
           chosen)

CheckedDuration(j, chosen) ==
  CASE \E i \in DOMAIN chosen : CandidateDuration(j, chosen[i]) = 0 ->
         "DURATION_MISSING"
    [] ResultDuration(j, chosen) > MaxWord -> "DURATION_OVERFLOW"
    [] ResultDuration(j, chosen) \notin Target(j).minimum..Target(j).maximum ->
         "DURATION_OUTSIDE_RANGE"
    [] OTHER -> "none"

Report ==
  /\ phase = "report"
  /\ IF Timed(job) /\ CheckedDuration(job, additions) # "none"
     THEN Fail(CheckedDuration(job, additions))
     ELSE phase' = "done" /\ UNCHANGED error
  /\ UNCHANGED <<job, goal, order, poolLimit, plans, additions, rejected, outcome,
                 search>>

Stopped == phase \in {"done", "failed"} /\ UNCHANGED vars

Next ==
  \/ Resolve \/ Rank \/ StartSearch \/ SearchStep \/ FinishSearch
  \/ Select \/ Place \/ RouteMembership \/ GiveUp \/ Report \/ Stopped

Spec == Init /\ [][Next]_vars

-----------------------------------------------------------------------------
TypeOK ==
  /\ phase \in {"resolve", "rank", "search", "attempt", "route", "report",
                "done", "failed"}
  /\ Elements(order) \subseteq Elements(job.ranked)
  /\ poolLimit \in 0..Len(job.ranked)
  /\ Elements(additions) \subseteq Elements(order)
  /\ \A k \in DOMAIN plans : plans[k].count \in goal.least..goal.most
  /\ \A k \in DOMAIN rejected : rejected[k].count \in goal.least..goal.most
  /\ phase = "search" /\ searchPc # "idle" => nodes \in 0..NodeBudget

\* What a finished extension promises: every source track and every addition
\* exactly once, all pairs outside each other's windows, a total within what was
\* asked, and under preserve_order the routed sources in their order.
ResultIsAdmissible ==
  phase = "done" =>
    /\ Elements(outcome) = Elements(job.source) \cup Elements(additions)
    /\ IsInjective(outcome)
    /\ \A i, j \in DOMAIN outcome : i < j =>
         ArtistAndAlbumApart(job.tracks, job.windows, outcome[i], outcome[j], j - i)
    /\ Len(outcome) \in goal.least..goal.most
    /\ job.preserve =>
         SelectSeq(outcome, LAMBDA t : t \in Elements(job.source)) = job.route

\* Two independent pieces of code judge a membership: the filter of the
\* duration search and the selection that follows.  They agree, so a duration
\* membership that was found is never lost before it is routed.
FilterAgreesWithSelection ==
  Timed(job) =>
    \A k \in DOMAIN rejected :
      rejected[k].why \in {"not routed", "violates windows"}

\* The duration that is added up at the end from the request is the one the
\* search added up: the final check never turns a route down.
DurationIsConfirmed ==
  error \notin {"DURATION_MISSING", "DURATION_OVERFLOW",
                "DURATION_OUTSIDE_RANGE"}

\* Candidates outside the quality-controlled pool are a fallback: when one was
\* selected, every member of the pool that was not had no room left.
FallbackOnlyWhenPoolExhausted ==
  (phase \in {"route", "report", "done"} /\ ~Timed(job)) =>
    LET pooled == {job.ranked[i] : i \in 1..poolLimit}
        count == SourceCount(job) + Len(additions)
    IN Elements(additions) \subseteq pooled
       \/ \A c \in pooled \ Elements(additions) :
            ~HasRoom(job, job.source \o additions, c, count)

\* The selection respects the capacities, and is the most relevant one that does:
\* no other choice of as many candidates comes before it in selection order.
SelectionIsMostRelevant ==
  (phase = "route" /\ ~Timed(job)) =>
    LET total == SourceCount(job) + Len(additions)
        Places(chosen) == {i \in DOMAIN order : order[i] \in chosen}
        Earlier(a, b) ==   \* of two sets of positions
          \E i \in a \ b : \A h \in 1..(i - 1) : h \in a <=> h \in b
    IN /\ WithinCapacity(job, job.source \o additions, total)
       /\ ~\E chosen \in kSubset(Len(additions), Elements(order)) :
         /\ WithinCapacity(job, job.source \o SelectSeq(order, LAMBDA c : c \in chosen), total)
         /\ Earlier(Places(chosen), Places(Elements(additions)))

\* A capacity is a necessary condition ("the necessary per-key capacity implied
\* by each repeat window", main.rs:4113): a target that is refused because the
\* source exceeds it has no valid order, whatever is added.
CapacityIsNecessary ==
  (/\ phase = "attempt"
   /\ rejected # <<>>
   /\ Last(rejected).why = "source exceeds capacity") =>
    ~\E chosen \in kSubset(Last(rejected).count - SourceCount(job),
                           Elements(job.ranked)) :
       RouteOrders(job, job.source \o SelectSeq(order, LAMBDA c : c \in chosen)) # {}

\* The membership search of a duration goal returns the acceptable combinations
\* in relevance order, cut short by its budgets but with none left out before.
SearchIsMostRelevant ==
  searchPc # "idle" =>
    Membership!TypeOK /\ Membership!ResultIsMostRelevant

\* Without a reported limit no acceptable combination is missing; the error text
\* of a search that found none rests on that flag.
UnlimitedSearchIsExhaustive == Membership!UnlimitedIsExhaustive

(***************************************************************************)
(* What a run checks, made of the parts above.                             *)
(***************************************************************************)
\* The bookkeeping is well-formed and a finished extension is admissible
\* (the loop over the targets and its final checks, main.rs:4148-4369).
ExtensionSound == TypeOK /\ ResultIsAdmissible

\* A selection by count is the most relevant one its capacities allow, and takes
\* from the fallback only what the pool could not fill (main.rs:4160-4200).
SelectionFollowsRelevance == SelectionIsMostRelevant /\ FallbackOnlyWhenPoolExhausted

\* A membership the duration search found passes every later check of the same
\* facts: the selection's capacities and the added-up duration.
DurationMembershipsHold == FilterAgreesWithSelection /\ DurationIsConfirmed

\* Inside the extension the duration search keeps its promises: a prefix of the
\* ranking, and all of it unless it says that a budget ended it.
MembershipSearchIsExact == SearchIsMostRelevant /\ UnlimitedSearchIsExhaustive
=============================================================================
