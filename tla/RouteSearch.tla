------------------------------ MODULE RouteSearch ------------------------------
(***************************************************************************)
(* The search for the order of a fixed set of tracks (src/src/route.rs).   *)
(* Independent tasks, run by a pool of threads, start from fixed and from  *)
(* greedy routes and improve them by reversals and relocations; a first    *)
(* search looks at the transitions only, a second also at the energy arc.  *)
(* The tasks share a counter and the progress snapshot of the caller.      *)
(*                                                                         *)
(* A request is the record [tracks, w, seedLimit, learned, picks, distance,*)
(* intensity, byIntensity, target]: picks[r] lists the choices the seed of *)
(* greedy restart r leads to, and distances are natural numbers,           *)
(* intensities and targets integers, so a tolerance of 1e-12 is equality.  *)
(***************************************************************************)
EXTENDS RepeatWindows, Orders

CONSTANTS
  RouteRequests,   \* the requests considered
  GreedyWidth,     \* GREEDY_WIDTH
  Threads          \* the size of the thread pool

VARIABLES
  request,    \* the arguments, never changed
  phase,      \* the search running, or how the command ended
  tasks,      \* what each task of the running search is doing
  completed,  \* tasks that ended with a route, in this search
  snapshot,   \* the last progress event the caller stored
  found       \* the candidates chosen so far

vars == <<request, phase, tasks, completed, snapshot, found>>

Tracks(req) == DOMAIN req.tracks
Size(req) == Len(req.tracks)
Restarts(req) == Len(req.picks)
Orderings(n) == {p \in [1..n -> 1..n] : IsInjective(p)}

\* intensity_order sorts by intensity, then by index.
IntensityOrder(req, order) ==
  /\ order \in Orderings(Size(req))
  /\ \A i, j \in Tracks(req) :
       i < j => LexBefore(<<req.intensity[order[i]], order[i]>>,
                          <<req.intensity[order[j]], order[j]>>)

ASSUME RequestsAssumption ==
  \A req \in RouteRequests :
    /\ req.tracks \in Seq([artist : STRING, repeatKeys : SUBSET STRING, album : STRING])
    /\ req.picks \in Seq(Seq(Nat \ {0}))
    /\ \A r \in DOMAIN req.picks : Len(req.picks[r]) = Size(req)
    /\ \A r \in DOMAIN req.picks : req.picks[r][1] \in Tracks(req)
    /\ IntensityOrder(req, req.byIntensity)
    /\ {req.w.artist, req.w.album, req.seedLimit} \subseteq Nat
    /\ \A a \in Tracks(req) :
         /\ \A b \in Tracks(req) : req.distance[<<a, b>>] \in Nat
         /\ req.intensity[a] \in Int /\ req.target[a] \in Int

ASSUME GreedyWidthAssumption == GreedyWidth \in Nat \ {0}

-----------------------------------------------------------------------------
(***************************************************************************)
(* Repeats and scores of a route                                           *)
(***************************************************************************)
\* Mutant: a repeat at the very edge of its window is not seen.
RepeatViolationsInside(req, route) ==
  {v \in [kind : {"artist", "album"}, left : DOMAIN route, right : DOMAIN route] :
     LET left == req.tracks[route[v.left]]
         right == req.tracks[route[v.right]]
         distance == v.right - v.left
     IN /\ distance > 0
        /\ v.kind = "artist" => distance < req.w.artist /\ ArtistsRepeat(left, right)
        /\ v.kind = "album" => distance < req.w.album /\ AlbumsRepeat(left, right)}

\* One entry per pair of positions and window.
RepeatViolations(req, route) ==
  {v \in [kind : {"artist", "album"}, left : DOMAIN route, right : DOMAIN route] :
     LET left == req.tracks[route[v.left]]
         right == req.tracks[route[v.right]]
         distance == v.right - v.left
     IN /\ distance > 0
        /\ v.kind = "artist" => distance <= req.w.artist /\ ArtistsRepeat(left, right)
        /\ v.kind = "album" => distance <= req.w.album /\ AlbumsRepeat(left, right)}

Recent(route, window) ==
  {route[i] : i \in (SaturatingSub(Len(route), window) + 1)..Len(route)}

IsFeasibleAppend(req, route, candidate) ==
  /\ \A t \in Recent(route, req.w.artist) :
       ~ArtistsRepeat(req.tracks[candidate], req.tracks[t])
  /\ \A t \in Recent(route, req.w.album) :
       ~AlbumsRepeat(req.tracks[candidate], req.tracks[t])

\* A transition depends on the last seedLimit tracks before it.
TransitionDistance(req, prefix, candidate) ==
  LET start == SaturatingSub(Len(prefix), req.seedLimit)
  IN Total([i \in 1..(Len(prefix) - start) |->
              req.distance[<<prefix[start + i], candidate>>]])

\* arcError is 0 where no arc is given.
RouteMetrics(req, route, arc) ==
  LET legs == [p \in 1..(Len(route) - 1) |->
                 TransitionDistance(req, SubSeq(route, 1, p), route[p + 1])]
      misplaced == [p \in DOMAIN route |->
                      Gap(req.intensity[route[p]], req.target[p])]
  IN [objective |-> Total(legs) + 2 * Max({0} \cup Elements(legs)),
      arcError  |-> IF arc THEN Total(misplaced) ELSE 0]

\* 25 times the score: the weight of the arc is 0.12.
SearchScore(metrics, arc) ==
  25 * metrics.objective + IF arc THEN 3 * metrics.arcError ELSE 0

\* Mutant: the score comes first.
LocalKeyByScore(req, route, arc) ==
  <<SearchScore(RouteMetrics(req, route, arc), arc),
    Cardinality(RepeatViolations(req, route))>>

LocalKey(req, route, arc) ==
  <<Cardinality(RepeatViolations(req, route)),
    SearchScore(RouteMetrics(req, route, arc), arc)>>

-----------------------------------------------------------------------------
(***************************************************************************)
(* The moves of the local search                                           *)
(***************************************************************************)
Reversed(route, start, end) ==
  [i \in DOMAIN route |->
     IF i \in start..end THEN route[start + end - i] ELSE route[i]]

\* Mutant: the track stays where it was, too.
RelocatedCopying(route, source, destination) ==
  [i \in DOMAIN route |->
     IF i = destination THEN route[source]
     ELSE IF source < i /\ i < destination THEN route[i + 1]
     ELSE IF destination < i /\ i <= source THEN route[i - 1]
     ELSE route[i]]

\* The track at `source` is taken out and put back at `destination`.
Relocated(route, source, destination) ==
  [i \in DOMAIN route |->
     IF i = destination THEN route[source]
     ELSE IF source <= i /\ i < destination THEN route[i + 1]
     ELSE IF destination < i /\ i <= source THEN route[i - 1]
     ELSE route[i]]

Neighbours(route) ==
  {Reversed(route, start, end) : start, end \in DOMAIN route}
  \cup {Relocated(route, source, destination) :
          source, destination \in DOMAIN route}

\* The best route of one pass, the route itself included; among equal keys the
\* lexicographically first.
BestOfPass(req, route, arc) ==
  LET keyed == {LocalKey(req, r, arc) \o r : r \in Neighbours(route)}
      best == Best(keyed, LAMBDA k : k)
  IN SubSeq(best, 3, Len(best))

\* Mutant: an equal key is accepted.
LocalKeyPrecedesOrEqual(left, right) == ~LexBefore(right, left)

LocalKeyPrecedes(left, right) == LexBefore(left, right)

-----------------------------------------------------------------------------
(***************************************************************************)
(* The tasks of a search                                                   *)
(***************************************************************************)
Arc == phase = "arc"

\* Mutant: the fixed starts of the second search are counted for the first.
CompletedOffsetOfArc == IF Arc THEN Restarts(request) + 3 ELSE 0

\* The tasks of the first search count before those of the second.
CompletedOffset == IF Arc THEN Restarts(request) + 2 ELSE 0

\* The fixed starts come first, then a greedy restart each.
FixedStarts(arc) == IF arc THEN 3 ELSE 2

FixedRoute(t) ==
  IF t = 1 THEN [i \in Tracks(request) |-> i]
  ELSE IF t = 2 THEN [i \in Tracks(request) |-> Size(request) + 1 - i]
  ELSE request.byIntensity

\* `start` and `event` only matter once they are set.
NewTasks(arc) ==
  [t \in 1..(FixedStarts(arc) + Restarts(request)) |->
     [at |-> "waiting", route |-> <<>>, start |-> <<>>,
      event |-> 0]]

SearchStarts(arc, offset) ==
  /\ tasks' = NewTasks(arc)
  /\ completed' = 0
  /\ snapshot' = [phase |-> IF arc THEN "arc" ELSE "primary",
                  completed |-> offset]

\* The track a greedy restart appends: the pick counts within the closest
\* tracks that may be appended, or within all that are left when none may.
Chosen(req, route, picks) ==
  LET remaining == Tracks(req) \ Elements(route)
      feasible == {c \in remaining : IsFeasibleAppend(req, route, c)}
      choices == IF feasible = {} THEN remaining ELSE feasible
      Key(c) == <<TransitionDistance(req, route, c), c>>
      width == Min({GreedyWidth, Cardinality(choices)})
      pick == Min({picks[Len(route) + 1], width})
  IN Best(choices \ Least(choices, pick - 1, Key), Key)

-----------------------------------------------------------------------------
Init ==
  /\ request \in RouteRequests
  /\ phase = "requested"
  /\ tasks = <<>>
  /\ completed = 0
  /\ snapshot = [phase |-> "none", completed |-> 0]
  /\ found = [primary |-> <<>>, arc |-> <<>>, selected |-> <<>>]

Valid(req) == Size(req) >= 2 /\ req.seedLimit > 0 /\ req.learned <= 100

Refuse ==
  /\ phase = "requested"
  /\ ~Valid(request)
  /\ phase' = "refused"
  /\ UNCHANGED <<request, tasks, completed, snapshot, found>>

StartPrimary ==
  /\ phase = "requested"
  /\ Valid(request)
  /\ phase' = "primary"
  /\ SearchStarts(FALSE, 0)
  /\ UNCHANGED <<request, found>>

Ended(t) == tasks[t].at \in {"ok", "infeasible"}
Running == {t \in DOMAIN tasks : tasks[t].at # "waiting" /\ ~Ended(t)}

\* A free thread takes a task that waits.
MayTake(t) == tasks[t].at = "waiting" /\ Cardinality(Running) < Threads

TakeFixed(t) ==
  /\ MayTake(t)
  /\ t <= FixedStarts(Arc)
  /\ tasks' = [tasks EXCEPT ![t].at = "pass", ![t].route = FixedRoute(t),
                            ![t].start = FixedRoute(t)]
  /\ UNCHANGED <<completed, snapshot>>

TakeGreedy(t) ==
  /\ MayTake(t)
  /\ t > FixedStarts(Arc)
  /\ tasks' = [tasks EXCEPT ![t].at = "grow",
                            ![t].route = <<request.picks[t - FixedStarts(Arc)][1]>>]
  /\ UNCHANGED <<completed, snapshot>>

Grow(t) ==
  LET route == tasks[t].route
      longer == Append(route, Chosen(request, route, request.picks[t - FixedStarts(Arc)]))
  IN /\ tasks[t].at = "grow"
     /\ tasks' = IF Len(longer) < Size(request)
                 THEN [tasks EXCEPT ![t].route = longer]
                 ELSE [tasks EXCEPT ![t].at = "pass", ![t].route = longer,
                                    ![t].start = longer]
     /\ UNCHANGED <<completed, snapshot>>

\* A pass first reads how many tasks have completed, then stores an event in
\* the snapshot: two accesses, between which other tasks run.
Pass(t) ==
  /\ tasks[t].at = "pass"
  /\ tasks' = [tasks EXCEPT ![t].at = "report", ![t].event = completed]
  /\ UNCHANGED <<completed, snapshot>>

Stored(t) ==
  snapshot' = [phase |-> phase, completed |-> CompletedOffset + tasks[t].event]

Report(t) ==
  /\ tasks[t].at = "report"
  /\ Stored(t)
  /\ tasks' = [tasks EXCEPT ![t].at = "improve"]
  /\ UNCHANGED completed

\* The rest of a pass: move on to a better route, or end with this one.
Improve(t) ==
  LET route == tasks[t].route
      best == BestOfPass(request, route, Arc)
      better == LocalKeyPrecedes(LocalKey(request, best, Arc), LocalKey(request, route, Arc))
  IN /\ tasks[t].at = "improve"
     /\ tasks' = IF better
                 THEN [tasks EXCEPT ![t].at = "pass", ![t].route = best]
                 ELSE [tasks EXCEPT ![t].at =
                         IF RepeatViolations(request, route) = {}
                         THEN "count" ELSE "infeasible"]
     /\ UNCHANGED <<completed, snapshot>>

Count(t) ==
  /\ tasks[t].at = "count"
  /\ completed' = completed + 1
  /\ tasks' = [tasks EXCEPT ![t].at = "report end", ![t].event = completed + 1]
  /\ UNCHANGED snapshot

ReportEnd(t) ==
  /\ tasks[t].at = "report end"
  /\ Stored(t)
  /\ tasks' = [tasks EXCEPT ![t].at = "ok"]
  /\ UNCHANGED completed

TaskStep(t) ==
  /\ \/ TakeFixed(t) \/ TakeGreedy(t) \/ Grow(t)
     \/ Pass(t) \/ Report(t) \/ Improve(t) \/ Count(t) \/ ReportEnd(t)
  /\ UNCHANGED <<request, phase, found>>

-----------------------------------------------------------------------------
Searched == phase \in {"primary", "arc"} /\ \A t \in DOMAIN tasks : Ended(t)

Candidates == {tasks[t].route : t \in {u \in DOMAIN tasks : tasks[u].at = "ok"}}

\* The candidate of a search: the least score, then the least route.
BestCandidate ==
  Best(Candidates,
       LAMBDA r : <<SearchScore(RouteMetrics(request, r, Arc), Arc)>> \o r)

\* Mutant: a better arc is worth any detour.
SelectedForArc(primary, arc) ==
  LET Error(route) == RouteMetrics(request, route, TRUE).arcError
  IN IF 10 * Error(arc) <= 9 * Error(primary) THEN arc ELSE primary

\* Within 8% of the primary route and at least 10% closer to the arc.
Selected(primary, arc) ==
  LET Primary == RouteMetrics(request, primary, TRUE)
      ForArc == RouteMetrics(request, arc, TRUE)
  IN IF /\ 100 * ForArc.objective <= 108 * Primary.objective
        /\ 10 * ForArc.arcError <= 9 * Primary.arcError
     THEN arc ELSE primary

SearchFails ==
  /\ Searched
  /\ Candidates = {}
  /\ phase' = "infeasible"
  /\ UNCHANGED <<request, tasks, completed, snapshot, found>>

StartArc ==
  /\ Searched
  /\ Candidates # {}
  /\ phase = "primary"
  /\ phase' = "arc"
  /\ SearchStarts(TRUE, Restarts(request) + 2)
  /\ found' = [found EXCEPT !.primary = BestCandidate]
  /\ UNCHANGED request

\* The repeats of the selected route are checked once more.
Finish ==
  LET selected == Selected(found.primary, BestCandidate)
  IN /\ Searched
     /\ Candidates # {}
     /\ phase = "arc"
     /\ phase' = IF RepeatViolations(request, selected) = {} THEN "done" ELSE "infeasible"
     /\ found' = [found EXCEPT !.arc = BestCandidate, !.selected = selected]
     /\ UNCHANGED <<request, tasks, completed, snapshot>>

Unfinished == phase \in {"requested", "primary", "arc"}

Stopped == ~Unfinished /\ UNCHANGED vars

Next ==
  \/ Refuse \/ StartPrimary
  \/ \E t \in DOMAIN tasks : TaskStep(t)
  \/ SearchFails \/ StartArc \/ Finish
  \/ Stopped

Spec == Init /\ [][Next]_vars

\* The tasks never wait for one another: it is enough that some thread runs.
\* This is weak fairness of Next where no unfinished state is a deadlock, which
\* the runs check.
FairSpec == Spec /\ ([]<>~Unfinished \/ []<><<Next>>_vars)

-----------------------------------------------------------------------------
Stages == {"waiting", "grow", "pass", "report", "improve", "count", "report end",
           "ok", "infeasible"}

\* Partial routes of the greedy start repeat no track either.
PartialRoutes == {r \in Seq(Tracks(request)) : IsInjective(r)}

\* Every complete route is an ordering of all tracks.
TypeOK ==
  /\ request \in RouteRequests
  /\ phase \in {"requested", "refused", "primary", "arc", "infeasible", "done"}
  /\ completed \in Nat
  /\ snapshot \in [phase : {"none", "primary", "arc"}, completed : Nat]
  /\ found \in [{"primary", "arc", "selected"} -> Orderings(Size(request)) \cup {<<>>}]
  /\ \A t \in DOMAIN tasks :
       /\ tasks[t].at \in Stages
       /\ tasks[t].event \in Nat
       /\ tasks[t].start \in Orderings(Size(request)) \cup {<<>>}
       /\ \/ tasks[t].at = "waiting" /\ tasks[t].route = <<>>
          \/ tasks[t].at = "grow" /\ tasks[t].route \in PartialRoutes
          \/ /\ tasks[t].at \notin {"waiting", "grow"}
             /\ {tasks[t].route, tasks[t].start} \subseteq Orderings(Size(request))

\* A progress report may be out of date, but it never runs ahead: it belongs to
\* the search under way and counts no task that has not found its route.
ProgressIsTrue ==
  phase \in {"primary", "arc"} =>
    /\ snapshot.phase = phase
    /\ snapshot.completed <=
         (IF Arc THEN Restarts(request) + 2 ELSE 0)
         + Cardinality({t \in DOMAIN tasks :
                          tasks[t].at \in {"report end", "ok"}})

\* However many passes a task makes, it has never traded a repeat for a better
\* score, nor a worse score for nothing.
NeverWorseThanStart ==
  \A t \in DOMAIN tasks :
    tasks[t].at = "improve" =>
      LET Repeats(route) == Cardinality(RepeatViolations(request, route))
          Score(route) == SearchScore(RouteMetrics(request, route, Arc), Arc)
          start == tasks[t].start
          route == tasks[t].route
      IN \/ Repeats(route) < Repeats(start)
         \/ Repeats(route) = Repeats(start) /\ Score(route) <= Score(start)

\* Repeat windows are hard constraints: the route that is returned, and both
\* candidates reported with it, pass the position check of the bridge planner.
ResultIsSafe ==
  phase = "done" =>
    \A route \in Range(found) :
      \A p \in 1..Size(request) :
        RepeatWindowsSafeAt(route, request.tracks, request.w, p)

\* An order of the caller that repeats nothing is not made worse: the primary
\* route is at most as long, and the selected one at most 8% longer.
SourceOrderIsMatched ==
  \A t \in {1, 2} :
    LET source == FixedRoute(t)
        Objective(route) == RouteMetrics(request, route, FALSE).objective
    IN phase = "done" /\ RepeatViolations(request, source) = {} =>
         /\ Objective(found.primary) <= Objective(source)
         /\ 100 * Objective(found.selected) <= 108 * Objective(source)

\* Every search ends, although nothing but the falling keys bounds the passes.
SearchEnds == <>~Unfinished

\* What the error of an infeasible search says: no route satisfies the
\* configured repeat windows.
InfeasibleMeansNone ==
  phase = "infeasible" =>
    \A route \in Orderings(Size(request)) : RepeatViolations(request, route) # {}
=============================================================================
