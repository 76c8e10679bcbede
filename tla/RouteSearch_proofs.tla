-------------------------- MODULE RouteSearch_proofs --------------------------
(***************************************************************************)
(* The progress of a route search never runs ahead of it, no task loses a  *)
(* track or ground, and what is returned keeps the windows and is not      *)
(* worse than a safe order of the caller: for every number of tracks,      *)
(* restarts and threads, however the tasks interleave.                     *)
(***************************************************************************)
EXTENDS RouteSearch, Operators_proofs

CountedStages == {"report end", "ok"}
Counted == {t \in DOMAIN tasks : tasks[t].at \in CountedStages}

TaskFields == {"at", "route", "start", "event"}

Shaped ==
  /\ IsFiniteSet(DOMAIN tasks)
  /\ \A t \in DOMAIN tasks : DOMAIN tasks[t] = TaskFields

\* The counter is exact at every moment, and what a task has read of it is not
\* more than it says now.
Exact ==
  /\ completed \in Nat
  /\ completed = Cardinality(Counted)
  /\ \A t \in DOMAIN tasks : tasks[t].event \in Nat /\ tasks[t].event <= completed

Reported ==
  phase \in {"primary", "arc"} =>
    /\ snapshot.phase = phase
    /\ snapshot.completed \in Nat
    /\ snapshot.completed <= CompletedOffset + completed

IInv ==
  /\ request \in RouteRequests
  /\ Shaped
  /\ Exact
  /\ Reported

LEMMA RestartsAreNat ==
  ASSUME NEW req \in RouteRequests PROVE Restarts(req) \in Nat
BY RequestsAssumption DEF Restarts

\* Tasks that have not been started count for nothing.
LEMMA NothingCounted ==
  ASSUME \A t \in DOMAIN tasks : tasks[t].at \notin CountedStages
  PROVE  Cardinality(Counted) = 0
<1>1. Counted = {}
  BY DEF Counted
<1> QED
  BY <1>1, FS_EmptySet

LEMMA NewTasksShape ==
  ASSUME request \in RouteRequests, NEW arc \in BOOLEAN, tasks' = NewTasks(arc)
  PROVE  /\ Shaped'
         /\ \A t \in DOMAIN tasks' : tasks'[t].at = "waiting" /\ tasks'[t].event = 0
<1>1. FixedStarts(arc) + Restarts(request) \in Int
  BY RestartsAreNat DEF FixedStarts
<1>2. DOMAIN tasks' = 1..(FixedStarts(arc) + Restarts(request))
  BY DEF NewTasks
<1>3. IsFiniteSet(DOMAIN tasks')
  BY <1>1, <1>2, FS_Interval
<1>4. \A t \in DOMAIN tasks' :
        tasks'[t] = [at |-> "waiting", route |-> <<>>, start |-> <<>>, event |-> 0]
  BY DEF NewTasks
<1>5. \A t \in DOMAIN tasks' : DOMAIN tasks'[t] = TaskFields
  BY <1>4 DEF TaskFields
<1> QED
  BY <1>3, <1>4, <1>5 DEF Shaped

LEMMA InitIInv == Init => IInv
<1> SUFFICES ASSUME Init PROVE IInv
  OBVIOUS
<1>1. tasks = <<>> /\ DOMAIN tasks = {}
  BY DEF Init
<1>2. IsFiniteSet(DOMAIN tasks)
  BY <1>1, FS_EmptySet
<1>3. Shaped
  BY <1>1, <1>2 DEF Shaped
<1>4. Cardinality(Counted) = 0
  BY <1>1, NothingCounted
<1>5. Exact
  BY <1>1, <1>4 DEF Exact, Init
<1>6. Reported
  BY DEF Reported, Init
<1> QED
  BY <1>3, <1>5, <1>6 DEF IInv, Init

-----------------------------------------------------------------------------
LEMMA StartIInv ==
  ASSUME request \in RouteRequests, request' = request,
         NEW arc \in BOOLEAN, NEW offset \in Nat, SearchStarts(arc, offset),
         phase' = IF arc THEN "arc" ELSE "primary",
         offset = IF arc THEN Restarts(request) + 2 ELSE 0
  PROVE  IInv'
<1>1. tasks' = NewTasks(arc) /\ completed' = 0
  BY DEF SearchStarts
<1>2. snapshot'.phase = phase' /\ snapshot'.completed = offset
  BY DEF SearchStarts
<1>3. Shaped' /\ \A t \in DOMAIN tasks' : tasks'[t].at = "waiting" /\ tasks'[t].event = 0
  BY <1>1, NewTasksShape
<1>4. Counted' = {}
  BY <1>3 DEF Counted, CountedStages
<1>5. Exact'
  BY <1>1, <1>3, <1>4, FS_EmptySet DEF Exact
<1>6. CompletedOffset' = offset
  BY DEF CompletedOffset, Arc
<1>7. Reported'
  BY <1>1, <1>2, <1>6 DEF Reported
<1> QED
  BY <1>3, <1>5, <1>7 DEF IInv

\* What one task changes when it replaces its record.
TaskBecomes(t, new) == tasks' = [tasks EXCEPT ![t] = new]

LEMMA TaskChanged ==
  ASSUME Shaped, NEW t \in DOMAIN tasks, NEW new, DOMAIN new = TaskFields,
         TaskBecomes(t, new)
  PROVE  /\ Shaped'
         /\ DOMAIN tasks' = DOMAIN tasks
         /\ tasks'[t] = new
         /\ \A u \in DOMAIN tasks : u # t => tasks'[u] = tasks[u]
BY DEF Shaped, TaskBecomes

\* A step of a task that neither counts nor stops counting, and whose event is
\* not ahead of the counter.
LEMMA QuietStep ==
  ASSUME IInv, NEW t \in DOMAIN tasks, NEW new, DOMAIN new = TaskFields,
         TaskBecomes(t, new),
         new.at \in CountedStages <=> tasks[t].at \in CountedStages,
         new.event \in Nat, new.event <= completed,
         UNCHANGED <<request, phase, completed>>,
         \/ UNCHANGED snapshot
         \/ Stored(t)
  PROVE  IInv'
<1>1. /\ Shaped'
      /\ DOMAIN tasks' = DOMAIN tasks
      /\ tasks'[t] = new
      /\ \A u \in DOMAIN tasks : u # t => tasks'[u] = tasks[u]
  BY TaskChanged DEF IInv
<1>2. Counted' = Counted
  BY <1>1 DEF Counted
<1>3. Exact'
  BY <1>1, <1>2 DEF IInv, Exact
<1>4. CompletedOffset' = CompletedOffset /\ CompletedOffset \in Nat
  BY RestartsAreNat DEF CompletedOffset, Arc, IInv
<1>5. Reported'
  <2>1. CASE UNCHANGED snapshot
    BY <2>1, <1>4 DEF IInv, Reported
  <2>2. CASE Stored(t)
    <3>1. snapshot'.phase = phase
      BY <2>2 DEF Stored
    <3>2. snapshot'.completed = CompletedOffset + tasks[t].event
      BY <2>2 DEF Stored
    <3>3. tasks[t].event \in Nat /\ tasks[t].event <= completed /\ completed \in Nat
      BY DEF IInv, Exact
    <3> QED
      BY <1>4, <3>1, <3>2, <3>3 DEF Reported
  <2> QED
    BY <2>1, <2>2
<1> QED
  BY <1>1, <1>3, <1>5 DEF IInv

LEMMA CountStep ==
  ASSUME IInv, NEW t \in DOMAIN tasks, Count(t), UNCHANGED <<request, phase>>
  PROVE  IInv'
<1> DEFINE new == [tasks[t] EXCEPT !.at = "report end", !.event = completed + 1]
<1>1. DOMAIN tasks[t] = TaskFields
  BY DEF IInv, Shaped
<1>2. DOMAIN new = TaskFields /\ new.at = "report end" /\ new.event = completed + 1
  BY <1>1 DEF TaskFields
<1>3. TaskBecomes(t, new)
  BY DEF Count, TaskBecomes
<1> HIDE DEF new
<1>4. /\ Shaped'
      /\ DOMAIN tasks' = DOMAIN tasks
      /\ tasks'[t] = new
      /\ \A u \in DOMAIN tasks : u # t => tasks'[u] = tasks[u]
  BY <1>2, <1>3, TaskChanged DEF IInv
<1>5. completed' = completed + 1 /\ completed \in Nat /\ UNCHANGED snapshot
  BY DEF Count, IInv, Exact
<1>6. Counted' = Counted \cup {t}
  BY <1>2, <1>4 DEF Counted, CountedStages
<1>7. t \notin Counted
  BY DEF Count, Counted, CountedStages
<1>8. IsFiniteSet(Counted)
  BY FS_Subset DEF IInv, Shaped, Counted
<1>9. Cardinality(Counted') = completed'
  BY <1>5, <1>6, <1>7, <1>8, FS_AddElement DEF IInv, Exact
<1>10. ASSUME NEW u \in DOMAIN tasks'
       PROVE  tasks'[u].event \in Nat /\ tasks'[u].event <= completed'
  <2>1. CASE u = t
    <3>1. tasks'[u].event = completed'
      BY <2>1, <1>2, <1>4, <1>5
    <3>2. completed' \in Nat
      BY <1>5
    <3> QED
      BY <3>1, <3>2
  <2>2. CASE u # t
    <3>1. tasks[u].event \in Nat /\ tasks[u].event <= completed
      BY <1>4 DEF IInv, Exact
    <3>2. tasks'[u].event = tasks[u].event
      BY <2>2, <1>4
    <3> QED
      BY <3>1, <3>2, <1>5
  <2> QED
    BY <2>1, <2>2
<1>11. Exact'
  BY <1>5, <1>9, <1>10 DEF Exact
<1>12. CompletedOffset' = CompletedOffset /\ CompletedOffset \in Nat
  BY RestartsAreNat DEF CompletedOffset, Arc, IInv
<1>13. Reported'
  BY <1>5, <1>12 DEF IInv, Reported
<1> QED
  BY <1>4, <1>11, <1>13 DEF IInv

LEMMA TaskIInv ==
  ASSUME IInv, NEW t \in DOMAIN tasks, TaskStep(t)
  PROVE  IInv'
<1>1. DOMAIN tasks[t] = TaskFields
  BY DEF IInv, Shaped
<1>2. tasks[t].event \in Nat /\ tasks[t].event <= completed /\ completed \in Nat
  BY DEF IInv, Exact
<1>3. UNCHANGED <<request, phase>>
  BY DEF TaskStep
<1>4. CASE TakeFixed(t)
  <2> DEFINE new == [tasks[t] EXCEPT !.at = "pass", !.route = FixedRoute(t),
                                     !.start = FixedRoute(t)]
  <2>1. TaskBecomes(t, new) /\ UNCHANGED <<completed, snapshot>>
    BY <1>4 DEF TakeFixed, TaskBecomes
  <2>2. DOMAIN new = TaskFields /\ new.at = "pass" /\ new.event = tasks[t].event
    BY <1>1 DEF TaskFields
  <2>3. tasks[t].at = "waiting"
    BY <1>4 DEF TakeFixed, MayTake
  <2> HIDE DEF new
  <2> QED
    BY <1>2, <1>3, <2>1, <2>2, <2>3, QuietStep DEF CountedStages
<1>5. CASE TakeGreedy(t)
  <2> DEFINE new == [tasks[t] EXCEPT !.at = "grow",
                       !.route = <<request.picks[t - FixedStarts(Arc)][1]>>]
  <2>1. TaskBecomes(t, new) /\ UNCHANGED <<completed, snapshot>>
    BY <1>5 DEF TakeGreedy, TaskBecomes
  <2>2. DOMAIN new = TaskFields /\ new.at = "grow" /\ new.event = tasks[t].event
    BY <1>1 DEF TaskFields
  <2>3. tasks[t].at = "waiting"
    BY <1>5 DEF TakeGreedy, MayTake
  <2> HIDE DEF new
  <2> QED
    BY <1>2, <1>3, <2>1, <2>2, <2>3, QuietStep DEF CountedStages
<1>6. CASE Grow(t)
  <2> DEFINE longer == Append(tasks[t].route,
               Chosen(request, tasks[t].route, request.picks[t - FixedStarts(Arc)]))
             growing == [tasks[t] EXCEPT !.route = longer]
             grown == [tasks[t] EXCEPT !.at = "pass", !.route = longer,
                                       !.start = longer]
  <2>1. /\ TaskBecomes(t, growing) \/ TaskBecomes(t, grown)
        /\ tasks[t].at = "grow"
        /\ UNCHANGED <<completed, snapshot>>
    BY <1>6 DEF Grow, TaskBecomes
  <2>2. /\ DOMAIN growing = TaskFields
        /\ growing.at = tasks[t].at
        /\ growing.event = tasks[t].event
    BY <1>1 DEF TaskFields
  <2>3. DOMAIN grown = TaskFields /\ grown.at = "pass" /\ grown.event = tasks[t].event
    BY <1>1 DEF TaskFields
  <2> HIDE DEF growing, grown
  <2>4. CASE TaskBecomes(t, growing)
    BY <1>2, <1>3, <2>1, <2>2, <2>4, QuietStep
  <2>5. CASE TaskBecomes(t, grown)
    BY <1>2, <1>3, <2>1, <2>3, <2>5, QuietStep DEF CountedStages
  <2> QED
    BY <2>1, <2>4, <2>5
<1>7. CASE Pass(t)
  <2> DEFINE new == [tasks[t] EXCEPT !.at = "report", !.event = completed]
  <2>1. /\ TaskBecomes(t, new)
        /\ tasks[t].at = "pass"
        /\ UNCHANGED <<completed, snapshot>>
    BY <1>7 DEF Pass, TaskBecomes
  <2>2. DOMAIN new = TaskFields /\ new.at = "report" /\ new.event = completed
    BY <1>1 DEF TaskFields
  <2> HIDE DEF new
  <2>3. new.event \in Nat /\ new.event <= completed
    BY <1>2, <2>2
  <2> QED
    BY <1>3, <2>1, <2>2, <2>3, QuietStep DEF CountedStages
<1>8. CASE Report(t)
  <2> DEFINE new == [tasks[t] EXCEPT !.at = "improve"]
  <2>1. /\ TaskBecomes(t, new)
        /\ tasks[t].at = "report"
        /\ Stored(t)
        /\ UNCHANGED completed
    BY <1>8 DEF Report, TaskBecomes
  <2>2. DOMAIN new = TaskFields /\ new.at = "improve" /\ new.event = tasks[t].event
    BY <1>1 DEF TaskFields
  <2> HIDE DEF new
  <2> QED
    BY <1>2, <1>3, <2>1, <2>2, QuietStep DEF CountedStages
<1>9. CASE Improve(t)
  <2> DEFINE best == BestOfPass(request, tasks[t].route, Arc)
             stage == IF RepeatViolations(request, tasks[t].route) = {}
                      THEN "count" ELSE "infeasible"
             better == [tasks[t] EXCEPT !.at = "pass", !.route = best]
             ended == [tasks[t] EXCEPT !.at = stage]
  <2>1. /\ TaskBecomes(t, better) \/ TaskBecomes(t, ended)
        /\ tasks[t].at = "improve"
        /\ UNCHANGED <<completed, snapshot>>
    BY <1>9 DEF Improve, TaskBecomes
  <2>2. stage \notin CountedStages
    BY DEF CountedStages
  <2> HIDE DEF best, stage
  <2>3. DOMAIN better = TaskFields /\ better.at = "pass" /\ better.event = tasks[t].event
    BY <1>1 DEF TaskFields
  <2>4. DOMAIN ended = TaskFields /\ ended.at = stage /\ ended.event = tasks[t].event
    BY <1>1 DEF TaskFields
  <2> HIDE DEF better, ended
  <2>5. CASE TaskBecomes(t, better)
    BY <1>2, <1>3, <2>1, <2>3, <2>5, QuietStep DEF CountedStages
  <2>6. CASE TaskBecomes(t, ended)
    <3>1. tasks[t].at \notin CountedStages
      BY <2>1 DEF CountedStages
    <3> QED
      BY <1>2, <1>3, <2>1, <2>2, <2>4, <2>6, <3>1, QuietStep
  <2> QED
    BY <2>1, <2>5, <2>6
<1>10. CASE Count(t)
  BY <1>3, <1>10, CountStep
<1>11. CASE ReportEnd(t)
  <2> DEFINE new == [tasks[t] EXCEPT !.at = "ok"]
  <2>1. /\ TaskBecomes(t, new)
        /\ tasks[t].at = "report end"
        /\ Stored(t)
        /\ UNCHANGED completed
    BY <1>11 DEF ReportEnd, TaskBecomes
  <2>2. DOMAIN new = TaskFields /\ new.at = "ok" /\ new.event = tasks[t].event
    BY <1>1 DEF TaskFields
  <2> HIDE DEF new
  <2> QED
    BY <1>2, <1>3, <2>1, <2>2, QuietStep DEF CountedStages
<1> QED
  BY <1>4, <1>5, <1>6, <1>7, <1>8, <1>9, <1>10, <1>11 DEF TaskStep

\* A search that stops leaves the tasks and the counter as they are.
LEMMA StopIInv ==
  ASSUME IInv, UNCHANGED <<request, tasks, completed, snapshot>>,
         phase' \in {"refused", "infeasible", "done"} \/ phase' = phase
  PROVE  IInv'
<1>1. Shaped' /\ Counted' = Counted
  BY DEF IInv, Shaped, Counted
<1>2. Exact'
  BY <1>1 DEF IInv, Exact
<1>3. Reported'
  BY DEF IInv, Reported, CompletedOffset, Arc
<1> QED
  BY <1>1, <1>2, <1>3 DEF IInv

LEMMA NextIInv == IInv /\ [Next]_vars => IInv'
<1> SUFFICES ASSUME IInv, [Next]_vars PROVE IInv'
  OBVIOUS
<1>1. CASE Refuse
  BY <1>1, StopIInv DEF Refuse
<1>2. CASE StartPrimary
  <2>1. SearchStarts(FALSE, 0) /\ phase' = "primary" /\ request' = request
    BY <1>2 DEF StartPrimary
  <2> QED
    BY <2>1, StartIInv DEF IInv
<1>3. ASSUME NEW t \in DOMAIN tasks, TaskStep(t) PROVE IInv'
  BY <1>3, TaskIInv
<1>4. CASE SearchFails
  BY <1>4, StopIInv DEF SearchFails
<1>5. CASE StartArc
  <2>1. /\ SearchStarts(TRUE, Restarts(request) + 2)
        /\ phase' = "arc"
        /\ request' = request
    BY <1>5 DEF StartArc
  <2>2. Restarts(request) + 2 \in Nat
    BY RestartsAreNat DEF IInv
  <2> QED
    BY <2>1, <2>2, StartIInv DEF IInv
<1>6. CASE Finish
  <2>1. phase' \in {"infeasible", "done"} /\ UNCHANGED <<request, tasks, completed, snapshot>>
    BY <1>6 DEF Finish
  <2> QED
    BY <2>1, StopIInv
<1>7. CASE UNCHANGED vars
  BY <1>7, StopIInv DEF vars
<1> QED
  BY <1>1, <1>2, <1>3, <1>4, <1>5, <1>6, <1>7 DEF Next, Stopped

\* The counter, the events and the snapshot of every reachable state.
THEOREM Invariance == Spec => []IInv
BY InitIInv, NextIInv, PTL DEF Spec

\* The invariant counts with the counter, the property with the tasks; they
\* agree because the counter is exact.
LEMMA Implied == IInv => ProgressIsTrue
<1> SUFFICES ASSUME IInv, phase \in {"primary", "arc"}
             PROVE  /\ snapshot.phase = phase
                    /\ snapshot.completed <=
                         (IF Arc THEN Restarts(request) + 2 ELSE 0) + Cardinality(Counted)
  BY DEF ProgressIsTrue, Counted, CountedStages
<1>1. completed = Cardinality(Counted)
  BY DEF IInv, Exact
<1>2. snapshot.phase = phase /\ snapshot.completed <= CompletedOffset + completed
  BY DEF IInv, Reported
<1> QED
  BY <1>1, <1>2 DEF CompletedOffset

\* A progress report of the route search belongs to the search under way and
\* counts no task that has not found its route, in every interleaving.
THEOREM ProgressNeverAhead == Spec => []ProgressIsTrue
BY Invariance, Implied, PTL

-----------------------------------------------------------------------------
\* Repeats are mutual.
LEMMA RepeatsAreSymmetric ==
  ASSUME NEW a, NEW b
  PROVE  /\ ArtistsRepeat(a, b) <=> ArtistsRepeat(b, a)
         /\ AlbumsRepeat(a, b) <=> AlbumsRepeat(b, a)
BY DEF ArtistsRepeat, AlbumsRepeat

\* A window looks back as many positions as it says, from a route that is about
\* to grow by one.
LEMMA RecentReaches ==
  ASSUME NEW n \in Nat, NEW window \in Nat, NEW i \in 1..n
  PROVE  i \in (SaturatingSub(n, window) + 1)..n <=> n + 1 - i <= window
BY DEF SaturatingSub

Apart(req, a, b, distance) ==
  /\ distance <= req.w.artist => ~ArtistsRepeat(req.tracks[a], req.tracks[b])
  /\ distance <= req.w.album => ~AlbumsRepeat(req.tracks[a], req.tracks[b])

LEMMA FeasibleAppendMeansApart ==
  ASSUME NEW req, req.w.artist \in Nat, req.w.album \in Nat,
         NEW S, NEW route \in Seq(S), NEW c
  PROVE  IsFeasibleAppend(req, route, c) <=>
           \A i \in 1..Len(route) : Apart(req, route[i], c, Len(route) + 1 - i)
<1> DEFINE n == Len(route)
           From(window) == (SaturatingSub(n, window) + 1)..n
<1>1. n \in Nat
  OBVIOUS
<1>2. ASSUME NEW window \in Nat PROVE From(window) \subseteq 1..n
  BY <1>1 DEF SaturatingSub
<1>3. ASSUME NEW window \in Nat, NEW i \in 1..n
      PROVE  i \in From(window) <=> n + 1 - i <= window
  BY <1>1, RecentReaches
<1>4. IsFeasibleAppend(req, route, c) <=>
        /\ \A i \in From(req.w.artist) : ~ArtistsRepeat(req.tracks[c], req.tracks[route[i]])
        /\ \A i \in From(req.w.album) : ~AlbumsRepeat(req.tracks[c], req.tracks[route[i]])
  BY DEF IsFeasibleAppend, Recent
<1> HIDE DEF n, From
<1>5. (\A i \in From(req.w.artist) : ~ArtistsRepeat(req.tracks[c], req.tracks[route[i]]))
      <=> \A i \in 1..n : n + 1 - i <= req.w.artist =>
                            ~ArtistsRepeat(req.tracks[route[i]], req.tracks[c])
  BY <1>2, <1>3, RepeatsAreSymmetric
<1>6. (\A i \in From(req.w.album) : ~AlbumsRepeat(req.tracks[c], req.tracks[route[i]]))
      <=> \A i \in 1..n : n + 1 - i <= req.w.album =>
                            ~AlbumsRepeat(req.tracks[route[i]], req.tracks[c])
  BY <1>2, <1>3, RepeatsAreSymmetric
<1>7. IsFeasibleAppend(req, route, c) <=>
        \A i \in 1..n : Apart(req, route[i], c, n + 1 - i)
  BY <1>4, <1>5, <1>6 DEF Apart
<1> QED
  BY <1>7 DEF n

Violation(req, route, v) ==
  /\ v \in [kind : {"artist", "album"}, left : DOMAIN route, right : DOMAIN route]
  /\ v.right - v.left > 0
  /\ v.kind = "artist" =>
       /\ v.right - v.left <= req.w.artist
       /\ ArtistsRepeat(req.tracks[route[v.left]], req.tracks[route[v.right]])
  /\ v.kind = "album" =>
       /\ v.right - v.left <= req.w.album
       /\ AlbumsRepeat(req.tracks[route[v.left]], req.tracks[route[v.right]])

LEMMA ViolationsAre ==
  ASSUME NEW req, NEW route, NEW v
  PROVE  v \in RepeatViolations(req, route) <=> Violation(req, route, v)
BY DEF RepeatViolations, Violation

\* The append rule of the greedy start, which looks back through a window, says
\* exactly that the longer route has no repeat the shorter one does not have,
\* whatever the route, the tracks and the windows are.
THEOREM AppendRuleIsExact ==
  ASSUME NEW req, req.w.artist \in Nat, req.w.album \in Nat,
         NEW S, NEW route \in Seq(S), NEW c \in S
  PROVE  IsFeasibleAppend(req, route, c) <=>
           RepeatViolations(req, Append(route, c)) = RepeatViolations(req, route)
<1> DEFINE n == Len(route)
           long == Append(route, c)
<1>1. /\ n \in Nat
      /\ long \in Seq(S)
      /\ DOMAIN route = 1..n
      /\ DOMAIN long = 1..(n + 1)
      /\ \A i \in 1..n : long[i] = route[i]
      /\ long[n + 1] = c
  OBVIOUS
<1> HIDE DEF n, long
<1>2. ASSUME NEW v, Violation(req, long, v), v.right # n + 1
      PROVE  Violation(req, route, v)
  <2>1. /\ v \in [kind : {"artist", "album"}, left : 1..(n + 1), right : 1..(n + 1)]
        /\ v.left < v.right
    BY <1>1, <1>2 DEF Violation
  <2>2. v.left \in 1..n /\ v.right \in 1..n
    BY <1>1, <1>2, <2>1
  <2>3. v \in [kind : {"artist", "album"}, left : 1..n, right : 1..n]
    BY <2>1, <2>2
  <2> QED
    BY <1>1, <1>2, <2>2, <2>3 DEF Violation
<1>3. ASSUME NEW v, Violation(req, route, v)
      PROVE  Violation(req, long, v) /\ v.right # n + 1
  <2>1. v \in [kind : {"artist", "album"}, left : 1..n, right : 1..n]
    BY <1>1, <1>3 DEF Violation
  <2>2. v \in [kind : {"artist", "album"}, left : 1..(n + 1), right : 1..(n + 1)]
    BY <1>1, <2>1
  <2> QED
    BY <1>1, <1>3, <2>1, <2>2 DEF Violation
<1>4. RepeatViolations(req, long) = RepeatViolations(req, route) <=>
        \A v : Violation(req, long, v) => v.right # n + 1
  BY <1>2, <1>3, ViolationsAre
<1>5. ASSUME NEW v, Violation(req, long, v), v.right = n + 1
      PROVE  \E i \in 1..n : ~Apart(req, route[i], c, n + 1 - i)
  <2>1. v.left \in 1..n /\ v.kind \in {"artist", "album"}
    BY <1>1, <1>5 DEF Violation
  <2>2. ~Apart(req, route[v.left], c, n + 1 - v.left)
    BY <1>1, <1>5, <2>1 DEF Violation, Apart
  <2> QED
    BY <2>1, <2>2
<1>6. ASSUME NEW i \in 1..n, ~Apart(req, route[i], c, n + 1 - i)
      PROVE  \E v : Violation(req, long, v) /\ v.right = n + 1
  <2> DEFINE V(kind) == [kind |-> kind, left |-> i, right |-> n + 1]
  <2>1. ASSUME NEW kind \in {"artist", "album"}
        PROVE  V(kind) \in [kind : {"artist", "album"}, left : DOMAIN long,
                            right : DOMAIN long]
    BY <1>1
  <2>2. n + 1 - i > 0
    BY <1>1
  <2>3. CASE n + 1 - i <= req.w.artist /\ ArtistsRepeat(req.tracks[route[i]], req.tracks[c])
    <3>1. Violation(req, long, V("artist"))
      BY <1>1, <2>1, <2>2, <2>3 DEF Violation
    <3> QED
      BY <3>1
  <2>4. CASE n + 1 - i <= req.w.album /\ AlbumsRepeat(req.tracks[route[i]], req.tracks[c])
    <3>1. Violation(req, long, V("album"))
      BY <1>1, <2>1, <2>2, <2>4 DEF Violation
    <3> QED
      BY <3>1
  <2> QED
    BY <1>6, <2>3, <2>4 DEF Apart
<1>7. IsFeasibleAppend(req, route, c) <=>
        \A i \in 1..n : Apart(req, route[i], c, n + 1 - i)
  BY FeasibleAppendMeansApart DEF n
<1>8. IsFeasibleAppend(req, route, c) <=>
        RepeatViolations(req, long) = RepeatViolations(req, route)
  BY <1>4, <1>5, <1>6, <1>7
<1> QED
  BY <1>8 DEF long

-----------------------------------------------------------------------------
(***************************************************************************)
(* What the tasks hold and what the search returns.                        *)
(***************************************************************************)
AllOrderings == Orderings(Size(request))
Unstarted == {"waiting", "grow"}
Safe(route) == RepeatViolations(request, route) = {}
Objective(route) == RouteMetrics(request, route, FALSE).objective

\* A greedy route grows from one track and is complete when it improves.
TaskTyped(t, task) ==
  /\ task.at \in Stages
  /\ task.start \in AllOrderings \cup {<<>>}
  /\ task.at = "waiting" => task.route = <<>>
  /\ task.at = "grow" =>
       /\ t > FixedStarts(Arc)
       /\ task.route \in PartialRoutes
       /\ Len(task.route) \in 1..(Size(request) - 1)
  /\ task.at \notin Unstarted => {task.route, task.start} \subseteq AllOrderings

\* A task has come from its start by smaller and smaller keys, and how it ends
\* says whether its route repeats anything.
TaskImproves(t, task) ==
  /\ task.at \notin Unstarted =>
       /\ ~LexBefore(LocalKey(request, task.start, Arc), LocalKey(request, task.route, Arc))
       /\ t \in {1, 2} => task.start = FixedRoute(t)
  /\ task.at \in {"count", "report end", "ok"} => Safe(task.route)
  /\ task.at = "infeasible" => ~Safe(task.route)

Searching ==
  /\ Valid(request)
  /\ DOMAIN tasks = 1..(FixedStarts(Arc) + Restarts(request))
  /\ \A t \in DOMAIN tasks : TaskImproves(t, tasks[t])

TasksHold ==
  /\ phase \in {"requested", "refused", "primary", "arc", "infeasible", "done"}
  /\ phase \in {"requested", "refused"} => DOMAIN tasks = {}
  /\ phase \in {"primary", "arc"} => Searching
  /\ phase \in {"infeasible", "done"} => \A t \in DOMAIN tasks : Ended(t)
  /\ phase = "done" => Size(request) >= 2
  /\ snapshot \in [phase : {"none", "primary", "arc"}, completed : Nat]
  /\ \A t \in DOMAIN tasks : TaskTyped(t, tasks[t])

\* No candidate repeats anything, and the primary one is not longer than a
\* fixed start that repeats nothing.
FoundHolds ==
  /\ found \in [{"primary", "arc", "selected"} -> AllOrderings \cup {<<>>}]
  /\ phase \in {"arc", "done"} =>
       /\ found.primary \in AllOrderings /\ Safe(found.primary)
       /\ \A t \in {1, 2} : Safe(FixedRoute(t)) =>
            Objective(found.primary) <= Objective(FixedRoute(t))
  /\ phase = "done" =>
       /\ {found.arc, found.selected} \subseteq AllOrderings
       /\ Safe(found.arc) /\ Safe(found.selected)
       /\ 100 * Objective(found.selected) <= 108 * Objective(found.primary)

RInv == IInv /\ TasksHold /\ FoundHolds

-----------------------------------------------------------------------------
(***************************************************************************)
(* Scores and keys are numbers.                                            *)
(***************************************************************************)
LEMMA RequestHas ==
  ASSUME NEW req \in RouteRequests
  PROVE  /\ Size(req) \in Nat
         /\ Tracks(req) = 1..Size(req)
         /\ req.w.artist \in Nat /\ req.w.album \in Nat /\ req.seedLimit \in Nat
         /\ \A a, b \in Tracks(req) : req.distance[<<a, b>>] \in Nat
         /\ \A a \in Tracks(req) : req.intensity[a] \in Int /\ req.target[a] \in Int
         /\ req.byIntensity \in Orderings(Size(req))
<1>1. req.tracks \in Seq([artist : STRING, repeatKeys : SUBSET STRING, album : STRING])
  BY RequestsAssumption
<1>2. Size(req) \in Nat /\ Tracks(req) = 1..Size(req)
  BY <1>1 DEF Size, Tracks
<1>3. {req.w.artist, req.w.album, req.seedLimit} \subseteq Nat
  BY RequestsAssumption
<1>4. /\ \A a, b \in Tracks(req) : req.distance[<<a, b>>] \in Nat
      /\ \A a \in Tracks(req) : req.intensity[a] \in Int /\ req.target[a] \in Int
  BY RequestsAssumption
<1>5. IntensityOrder(req, req.byIntensity)
  BY RequestsAssumption
<1> QED
  BY <1>2, <1>3, <1>4, <1>5 DEF IntensityOrder

LEMMA OrderingHas ==
  ASSUME NEW n \in Nat, NEW route \in Orderings(n)
  PROVE  /\ route \in [1..n -> 1..n]
         /\ route \in Seq(1..n)
         /\ Len(route) = n
         /\ \A i, j \in 1..n : route[i] = route[j] => i = j
BY DEF Orderings, IsInjective

LEMMA TransitionIsNat ==
  ASSUME NEW req \in RouteRequests, NEW route \in Seq(Tracks(req)), NEW c \in Tracks(req)
  PROVE  TransitionDistance(req, route, c) \in Nat
<1> DEFINE start == SaturatingSub(Len(route), req.seedLimit)
           values == [i \in 1..(Len(route) - start) |->
                        req.distance[<<route[start + i], c>>]]
<1>1. Len(route) \in Nat /\ start \in 0..Len(route)
  BY RequestHas DEF SaturatingSub
<1>2. ASSUME NEW i \in 1..(Len(route) - start)
      PROVE  values[i] \in Nat
  <2>1. start + i \in 1..Len(route)
    BY <1>1
  <2>2. route[start + i] \in Tracks(req)
    BY <2>1
  <2>3. req.distance[<<route[start + i], c>>] \in Nat
    BY <2>2, RequestHas
  <2> QED
    BY <2>3
<1>3. values \in [1..(Len(route) - start) -> Nat] /\ Len(route) - start \in Nat
  BY <1>1, <1>2
<1>4. Total(values) \in Nat
  BY <1>3, TotalIsNat
<1> QED
  BY <1>4 DEF TransitionDistance

\* The greatest of finitely many numbers.
LEMMA MaxIs ==
  ASSUME NEW S \in SUBSET Int, IsFiniteSet(S), S # {}
  PROVE  Max(S) \in S
BY MaximumExists DEF Max

LEMMA MetricsAreNat ==
  ASSUME NEW req \in RouteRequests, Size(req) >= 1,
         NEW route \in Orderings(Size(req)), NEW arc \in BOOLEAN
  PROVE  /\ RouteMetrics(req, route, arc).objective \in Nat
         /\ RouteMetrics(req, route, arc).arcError \in Nat
<1> DEFINE n == Size(req)
           legs == [p \in 1..(Len(route) - 1) |->
                      TransitionDistance(req, SubSeq(route, 1, p), route[p + 1])]
           misplaced == [p \in DOMAIN route |->
                           Gap(req.intensity[route[p]], req.target[p])]
<1>1. /\ n \in Nat /\ n >= 1
      /\ Tracks(req) = 1..n
      /\ route \in [1..n -> 1..n] /\ route \in Seq(1..n) /\ Len(route) = n
  BY RequestHas, OrderingHas
<1> HIDE DEF n
<1>2. ASSUME NEW p \in 1..(n - 1)
      PROVE  TransitionDistance(req, SubSeq(route, 1, p), route[p + 1]) \in Nat
  <2>1. SubSeq(route, 1, p) \in Seq(1..n)
    BY <1>1, SubSeqProperties
  <2>2. route[p + 1] \in 1..n
    BY <1>1
  <2> QED
    BY <1>1, <2>1, <2>2, TransitionIsNat
<1>3. legs \in [1..(n - 1) -> Nat] /\ n - 1 \in Nat
  BY <1>1, <1>2
<1>4. Total(legs) \in Nat
  BY <1>3, TotalIsNat
<1>5. ASSUME NEW p \in 1..n PROVE Gap(req.intensity[route[p]], req.target[p]) \in Nat
  <2>1. route[p] \in Tracks(req) /\ p \in Tracks(req)
    BY <1>1
  <2>2. req.intensity[route[p]] \in Int /\ req.target[p] \in Int
    BY <2>1, RequestHas
  <2> QED
    BY <2>2 DEF Gap
<1>6. misplaced \in [1..n -> Nat]
  BY <1>1, <1>5
<1>7. Total(misplaced) \in Nat
  BY <1>1, <1>6, TotalIsNat
<1> HIDE DEF legs, misplaced
<1>8. IsFiniteSet({0} \cup Elements(legs)) /\ {0} \cup Elements(legs) \in SUBSET Nat
  <2>1. legs \in Surjection(1..(n - 1), Elements(legs))
    BY <1>3 DEF Surjection, Elements
  <2>2. IsFiniteSet(1..(n - 1))
    BY <1>1, FS_Interval
  <2>3. IsFiniteSet(Elements(legs))
    BY <2>1, <2>2, FS_Surjection
  <2>4. Elements(legs) \in SUBSET Nat
    BY <1>3 DEF Elements
  <2>5. IsFiniteSet({0} \cup Elements(legs))
    <3>1. IsFiniteSet(Elements(legs) \cup {0}) /\ Elements(legs) \cup {0} = {0} \cup Elements(legs)
      BY <2>3, FS_AddElement
    <3> QED
      BY <3>1
  <2> QED
    BY <2>4, <2>5
<1>9. Max({0} \cup Elements(legs)) \in Nat
  BY <1>8, MaxIs
<1> QED
  BY <1>4, <1>7, <1>9 DEF RouteMetrics, legs, misplaced

LEMMA ScoreIsNat ==
  ASSUME NEW req \in RouteRequests, Size(req) >= 1,
         NEW route \in Orderings(Size(req)), NEW arc \in BOOLEAN
  PROVE  SearchScore(RouteMetrics(req, route, arc), arc) \in Nat
<1> DEFINE o == RouteMetrics(req, route, arc).objective
           e == RouteMetrics(req, route, arc).arcError
<1>1. o \in Nat /\ e \in Nat
  BY MetricsAreNat
<1> HIDE DEF o, e
<1>2. SearchScore(RouteMetrics(req, route, arc), arc) = 25 * o + IF arc THEN 3 * e ELSE 0
  BY DEF SearchScore, o, e
<1> QED
  BY <1>1, <1>2

LEMMA RepeatsAreFinite ==
  ASSUME NEW req, NEW n \in Nat, NEW route \in [1..n -> 1..n]
  PROVE  /\ IsFiniteSet(RepeatViolations(req, route))
         /\ Cardinality(RepeatViolations(req, route)) \in Nat
         /\ Cardinality(RepeatViolations(req, route)) = 0 <=> RepeatViolations(req, route) = {}
<1> DEFINE Kinds == {"artist", "album"}
           Triples == (Kinds \X (1..n)) \X (1..n)
           Places == [kind : Kinds, left : DOMAIN route, right : DOMAIN route]
           place == [x \in Triples |-> [kind |-> x[1][1], left |-> x[1][2], right |-> x[2]]]
<1>1. IsFiniteSet(Kinds)
  <2>1. IsFiniteSet({"artist"} \cup {"album"})
    BY FS_Singleton, FS_AddElement
  <2> QED
    BY <2>1, {"artist"} \cup {"album"} = Kinds
<1>2. IsFiniteSet(1..n)
  BY FS_Interval
<1>3. IsFiniteSet(Triples)
  BY <1>1, <1>2, FS_Product
<1>4. DOMAIN route = 1..n
  OBVIOUS
<1>5. place \in [Triples -> Places]
  BY <1>4
<1>6. ASSUME NEW v \in Places PROVE \E x \in Triples : place[x] = v
  <2>1. v.kind \in Kinds /\ v.left \in 1..n /\ v.right \in 1..n
    BY <1>4
  <2>2. <<<<v.kind, v.left>>, v.right>> \in Triples
    BY <2>1
  <2>3. place[<<<<v.kind, v.left>>, v.right>>] =
          [kind |-> v.kind, left |-> v.left, right |-> v.right]
    BY <2>2
  <2>4. v = [kind |-> v.kind, left |-> v.left, right |-> v.right]
    OBVIOUS
  <2> QED
    BY <2>2, <2>3, <2>4
<1>7. place \in Surjection(Triples, Places)
  BY <1>5, <1>6 DEF Surjection
<1>8. IsFiniteSet(Places)
  BY <1>3, <1>7, FS_Surjection
<1>9. RepeatViolations(req, route) \in SUBSET Places
  BY DEF RepeatViolations
<1>10. IsFiniteSet(RepeatViolations(req, route))
  BY <1>8, <1>9, FS_Subset
<1> QED
  BY <1>10, FS_CardinalityType, FS_EmptySet

LEMMA LocalKeyTyped ==
  ASSUME NEW req \in RouteRequests, Size(req) >= 1,
         NEW route \in Orderings(Size(req)), NEW arc \in BOOLEAN
  PROVE  /\ LocalKey(req, route, arc) \in Keys(2)
         /\ LocalKey(req, route, arc)[1] = Cardinality(RepeatViolations(req, route))
         /\ LocalKey(req, route, arc)[2] = SearchScore(RouteMetrics(req, route, arc), arc)
         /\ LocalKey(req, route, arc)[1] \in Nat /\ LocalKey(req, route, arc)[2] \in Nat
<1>1. Size(req) \in Nat /\ route \in [1..Size(req) -> 1..Size(req)]
  BY RequestHas, OrderingHas
<1>2. Cardinality(RepeatViolations(req, route)) \in Nat
  BY <1>1, RepeatsAreFinite
<1>3. SearchScore(RouteMetrics(req, route, arc), arc) \in Nat
  BY ScoreIsNat
<1> QED
  BY <1>2, <1>3 DEF LocalKey, Keys

-----------------------------------------------------------------------------
(***************************************************************************)
(* The moves reorder a route; they lose and repeat no track.               *)
(***************************************************************************)
LEMMA ReversedIsOrdering ==
  ASSUME NEW n \in Nat, NEW route \in Orderings(n), NEW start \in 1..n, NEW end \in 1..n
  PROVE  Reversed(route, start, end) \in Orderings(n)
<1> DEFINE from == [i \in 1..n |-> IF i \in start..end THEN start + end - i ELSE i]
<1>1. /\ route \in [1..n -> 1..n]
      /\ \A i, j \in 1..n : route[i] = route[j] => i = j
  BY OrderingHas
<1>2. from \in [1..n -> 1..n] /\ \A i, j \in 1..n : from[i] = from[j] => i = j
  OBVIOUS
<1>3. Reversed(route, start, end) = [i \in 1..n |-> route[from[i]]]
  BY <1>1 DEF Reversed
<1> HIDE DEF from
<1>4. [i \in 1..n |-> route[from[i]]] \in Orderings(n)
  BY <1>1, <1>2 DEF Orderings, IsInjective
<1> QED
  BY <1>3, <1>4

LEMMA RelocatedIsOrdering ==
  ASSUME NEW n \in Nat, NEW route \in Orderings(n),
         NEW source \in 1..n, NEW destination \in 1..n
  PROVE  Relocated(route, source, destination) \in Orderings(n)
<1> DEFINE from == [i \in 1..n |->
                      IF i = destination THEN source
                      ELSE IF source <= i /\ i < destination THEN i + 1
                      ELSE IF destination < i /\ i <= source THEN i - 1
                      ELSE i]
<1>1. /\ route \in [1..n -> 1..n]
      /\ \A i, j \in 1..n : route[i] = route[j] => i = j
  BY OrderingHas
<1>2. from \in [1..n -> 1..n] /\ \A i, j \in 1..n : from[i] = from[j] => i = j
  OBVIOUS
<1>3. Relocated(route, source, destination) = [i \in 1..n |-> route[from[i]]]
  BY <1>1 DEF Relocated
<1> HIDE DEF from
<1>4. [i \in 1..n |-> route[from[i]]] \in Orderings(n)
  BY <1>1, <1>2 DEF Orderings, IsInjective
<1> QED
  BY <1>3, <1>4

LEMMA NeighboursAreOrderings ==
  ASSUME NEW n \in Nat, NEW route \in Orderings(n)
  PROVE  Neighbours(route) \in SUBSET Orderings(n)
<1>1. DOMAIN route = 1..n
  BY OrderingHas
<1> QED
  BY <1>1, ReversedIsOrdering, RelocatedIsOrdering DEF Neighbours

LEMMA NeighboursAreFinite ==
  ASSUME NEW n \in Nat, NEW route \in Orderings(n)
  PROVE  IsFiniteSet(Neighbours(route))
<1> DEFINE Pairs == (1..n) \X (1..n)
           Reversals == {Reversed(route, start, end) : start, end \in DOMAIN route}
           Relocations == {Relocated(route, source, destination) :
                             source, destination \in DOMAIN route}
           reversal == [x \in Pairs |-> Reversed(route, x[1], x[2])]
           relocation == [x \in Pairs |-> Relocated(route, x[1], x[2])]
<1>1. IsFiniteSet(Pairs)
  <2>1. IsFiniteSet(1..n)
    BY FS_Interval
  <2> QED
    BY <2>1, FS_Product
<1>2. DOMAIN route = 1..n
  BY OrderingHas
<1>3. reversal \in Surjection(Pairs, Reversals)
  <2>1. reversal \in [Pairs -> Reversals]
    BY <1>2
  <2>2. ASSUME NEW r \in Reversals PROVE \E x \in Pairs : reversal[x] = r
    <3>1. PICK start \in 1..n, end \in 1..n : r = Reversed(route, start, end)
      BY <1>2
    <3>2. <<start, end>> \in Pairs /\ reversal[<<start, end>>] = r
      BY <3>1
    <3> QED
      BY <3>2
  <2> QED
    BY <2>1, <2>2 DEF Surjection
<1>4. relocation \in Surjection(Pairs, Relocations)
  <2>1. relocation \in [Pairs -> Relocations]
    BY <1>2
  <2>2. ASSUME NEW r \in Relocations PROVE \E x \in Pairs : relocation[x] = r
    <3>1. PICK source \in 1..n, destination \in 1..n :
            r = Relocated(route, source, destination)
      BY <1>2
    <3>2. /\ <<source, destination>> \in Pairs
          /\ relocation[<<source, destination>>] = r
      BY <3>1
    <3> QED
      BY <3>2
  <2> QED
    BY <2>1, <2>2 DEF Surjection
<1> HIDE DEF Pairs, Reversals, Relocations, reversal, relocation
<1>5. IsFiniteSet(Reversals) /\ IsFiniteSet(Relocations)
  BY <1>1, <1>3, <1>4, FS_Surjection
<1>6. IsFiniteSet(Reversals \cup Relocations)
  BY <1>5, FS_Union
<1> QED
  BY <1>6 DEF Neighbours, Reversals, Relocations

\* A track that is moved to where it stands leaves the route alone.
LEMMA StaysIsNeighbour ==
  ASSUME NEW n \in Nat \ {0}, NEW route \in Orderings(n)
  PROVE  route \in Neighbours(route)
<1>1. route \in [1..n -> 1..n] /\ 1 \in DOMAIN route
  BY OrderingHas
<1>2. Reversed(route, 1, 1) = [i \in DOMAIN route |-> route[i]]
  BY <1>1 DEF Reversed
<1>3. Reversed(route, 1, 1) = route
  BY <1>1, <1>2
<1> QED
  BY <1>1, <1>3 DEF Neighbours

\* The key with its route behind it, which makes it unique.
LEMMA KeyedTyped ==
  ASSUME NEW n \in Nat, NEW m \in Nat, NEW key \in Keys(m), NEW route \in Orderings(n)
  PROVE  /\ key \o route \in Keys(m + n)
         /\ \A i \in 1..m : (key \o route)[i] = key[i]
         /\ SubSeq(key \o route, m + 1, Len(key \o route)) = route
<1>1. key \in Seq(Int) /\ Len(key) = m
  BY DEF Keys
<1>2. /\ route \in [1..n -> 1..n]
      /\ route \in Seq(Int) /\ Len(route) = n
      /\ \A i \in 1..n : route[i] \in Int
  BY OrderingHas
<1> DEFINE both == key \o route
<1>3. /\ both \in Seq(Int) /\ Len(both) = m + n
      /\ \A i \in 1..m : both[i] = key[i]
      /\ \A i \in 1..n : both[m + i] = route[i]
  BY <1>1, <1>2, SMTT(30)
<1> HIDE DEF both
<1>4. both \in Keys(m + n)
  BY <1>3 DEF Keys
<1> DEFINE rest == SubSeq(both, m + 1, m + n)
<1>5. /\ rest \in Seq(Int)
      /\ Len(rest) = n
      /\ \A i \in 1..n : rest[i] = both[m + i]
  <2>1. \A i \in (m + 1)..(m + n) : both[i] \in Int
    BY <1>3
  <2> QED
    BY <2>1, <1>3, SubSeqProperties
<1> HIDE DEF rest
<1>6. rest = route
  <2>1. rest \in [1..n -> Int]
    BY <1>5
  <2>2. route \in [1..n -> Int]
    BY <1>2
  <2>3. \A i \in 1..n : rest[i] = route[i]
    BY <1>3, <1>5
  <2> QED
    BY <2>1, <2>2, <2>3
<1> QED
  BY <1>3, <1>4, <1>6 DEF both, rest

\* A pass ends with one of the neighbours of its route.
LEMMA BestOfPassIsOrdering ==
  ASSUME NEW req \in RouteRequests, Size(req) >= 1,
         NEW route \in Orderings(Size(req)), NEW arc \in BOOLEAN
  PROVE  BestOfPass(req, route, arc) \in Orderings(Size(req))
<1> DEFINE n == Size(req)
           Key(r) == LocalKey(req, r, arc)
           keyed == {Key(r) \o r : r \in Neighbours(route)}
           toKeyed == [r \in Neighbours(route) |-> Key(r) \o r]
           same == [k \in keyed |-> k]
           best == Best(keyed, LAMBDA k : k)
<1>1. n \in Nat \ {0}
  BY RequestHas
<1>2. Neighbours(route) \in SUBSET Orderings(n) /\ IsFiniteSet(Neighbours(route))
  BY <1>1, NeighboursAreOrderings, NeighboursAreFinite
<1>3. ASSUME NEW r \in Neighbours(route)
      PROVE  /\ Key(r) \o r \in Keys(2 + n)
             /\ SubSeq(Key(r) \o r, 3, Len(Key(r) \o r)) = r
  <2>1. r \in Orderings(n) /\ Key(r) \in Keys(2)
    BY <1>2, LocalKeyTyped
  <2> DEFINE own == Key(r)
  <2>typed. own \in Keys(2) /\ r \in Orderings(n) /\ n \in Nat /\ 2 \in Nat
    BY <1>1, <2>1
  <2> HIDE DEF own, n
  <2>2. /\ own \o r \in Keys(2 + n)
        /\ SubSeq(own \o r, 2 + 1, Len(own \o r)) = r
    BY <2>typed, KeyedTyped
  <2> QED
    BY <2>2 DEF own
<1>4. keyed # {}
  BY <1>1, StaysIsNeighbour
<1> HIDE DEF Key, n
<1>5. keyed \in SUBSET Keys(2 + n)
  <2>1. \A r \in Neighbours(route) : Key(r) \o r \in Keys(2 + n)
    BY <1>3
  <2> QED
    BY <2>1, Zenon
<1>6. IsFiniteSet(keyed)
  <2>1. toKeyed \in Surjection(Neighbours(route), keyed)
    BY DEF Surjection
  <2> QED
    BY <1>2, <2>1, FS_Surjection
<1>7. same \in [keyed -> Keys(2 + n)] /\ 2 + n \in Nat
  BY <1>1, <1>5
<1>8. \A k \in keyed : same[k] = k
  OBVIOUS
<1> HIDE DEF keyed, same
<1>9. \E s \in keyed : \A t \in keyed : ~LexBefore(same[t], same[s])
  BY <1>4, <1>6, <1>7, BestExists
<1>10. \E s \in keyed : \A t \in keyed : ~LexBefore(t, s)
  BY <1>8, <1>9
<1>11. best \in keyed
  BY <1>10 DEF Best
<1>12. PICK r \in Neighbours(route) : best = Key(r) \o r
  BY <1>11 DEF keyed
<1>13. SubSeq(best, 3, Len(best)) = r
  BY <1>3, <1>12
<1>14. BestOfPass(req, route, arc) = SubSeq(best, 3, Len(best))
  BY DEF BestOfPass, keyed, Key
<1> QED
  BY <1>2, <1>12, <1>13, <1>14 DEF n

LEMMA FixedRouteIsOrdering ==
  ASSUME request \in RouteRequests, NEW t
  PROVE  FixedRoute(t) \in Orderings(Size(request))
<1>1. /\ Size(request) \in Nat /\ Tracks(request) = 1..Size(request)
      /\ request.byIntensity \in Orderings(Size(request))
  BY RequestHas
<1> DEFINE n == Size(request)
<1>2. [i \in 1..n |-> i] \in Orderings(n)
  BY <1>1 DEF Orderings, IsInjective
<1>3. [i \in 1..n |-> n + 1 - i] \in Orderings(n)
  <2>1. [i \in 1..n |-> n + 1 - i] \in [1..n -> 1..n]
    BY <1>1
  <2> QED
    BY <1>1, <2>1 DEF Orderings, IsInjective
<1> QED
  BY <1>1, <1>2, <1>3 DEF FixedRoute

LEMMA LesserOfTwo ==
  ASSUME NEW a \in Int, NEW b \in Int
  PROVE  Min({a, b}) = IF a <= b THEN a ELSE b
<1> DEFINE m == IF a <= b THEN a ELSE b
<1>1. m \in {a, b} /\ \A y \in {a, b} : m <= y
  OBVIOUS
<1>2. ASSUME NEW x \in {a, b}, \A y \in {a, b} : x <= y PROVE x = m
  BY <1>1, <1>2
<1> QED
  BY <1>1, <1>2 DEF Min

\* A route that is shorter than the request leaves a track out.
LEMMA SomethingRemains ==
  ASSUME NEW n \in Nat, NEW route \in Seq(1..n), Len(route) < n
  PROVE  (1..n) \ Elements(route) # {}
<1> SUFFICES ASSUME (1..n) \ Elements(route) = {} PROVE FALSE
  OBVIOUS
<1> DEFINE k == Len(route)
<1>1. k \in Nat /\ k < n /\ route \in [1..k -> 1..n] /\ DOMAIN route = 1..k
  OBVIOUS
<1>2. \A c \in 1..n : \E i \in 1..k : route[i] = c
  BY <1>1 DEF Elements
<1> HIDE DEF k
<1>3. route \in Surjection(1..k, 1..n)
  BY <1>1, <1>2 DEF Surjection
<1>4. IsFiniteSet(1..k) /\ Cardinality(1..k) = k /\ Cardinality(1..n) = n
  <2>1. 1 \in Int /\ k \in Int /\ n \in Int /\ n > 0
    BY <1>1
  <2>2. IsFiniteSet(1..k) /\ Cardinality(1..k) = IF 1 > k THEN 0 ELSE k - 1 + 1
    BY <2>1, FS_Interval
  <2>3. Cardinality(1..n) = IF 1 > n THEN 0 ELSE n - 1 + 1
    BY <2>1, FS_Interval
  <2> QED
    BY <1>1, <2>1, <2>2, <2>3
<1>5. Cardinality(1..n) <= Cardinality(1..k)
  BY <1>3, <1>4, FS_Surjection
<1> QED
  BY <1>1, <1>4, <1>5

\* The greedy start finds a track it has not placed yet, for every seed.
LEMMA ChosenIsNew ==
  ASSUME NEW req \in RouteRequests, NEW route \in Seq(Tracks(req)),
         Len(route) < Size(req),
         NEW picks \in Seq(Nat \ {0}), Len(picks) = Size(req)
  PROVE  Chosen(req, route, picks) \in Tracks(req) \ Elements(route)
<1> DEFINE remaining == Tracks(req) \ Elements(route)
           feasible == {c \in remaining : IsFeasibleAppend(req, route, c)}
           choices == IF feasible = {} THEN remaining ELSE feasible
           Key(c) == <<TransitionDistance(req, route, c), c>>
           width == Min({GreedyWidth, Cardinality(choices)})
           pick == Min({picks[Len(route) + 1], width})
           key == [c \in choices |-> Key(c)]
           left == choices \ Least(choices, pick - 1, Key)
           leftKey == [c \in left |-> Key(c)]
<1>1. Size(req) \in Nat /\ Tracks(req) = 1..Size(req) /\ Len(route) \in Nat
  BY RequestHas
<1>2. remaining # {}
  BY <1>1, SomethingRemains
<1>3. choices # {} /\ choices \in SUBSET remaining
  BY <1>2
<1>4. IsFiniteSet(choices)
  <2>1. choices \in SUBSET (1..Size(req))
    BY <1>1, <1>3
  <2>2. IsFiniteSet(1..Size(req))
    BY <1>1, FS_Interval
  <2> QED
    BY <2>1, <2>2, FS_Subset
<1>5. ASSUME NEW c \in choices PROVE Key(c) \in Keys(2)
  <2>1. c \in Tracks(req) /\ c \in Int
    BY <1>1, <1>3
  <2>2. TransitionDistance(req, route, c) \in Nat
    BY <2>1, TransitionIsNat
  <2> QED
    BY <2>1, <2>2 DEF Keys
<1>6. key \in [choices -> Keys(2)] /\ \A s, t \in choices : key[s] = key[t] => s = t
  BY <1>5
<1>7. Cardinality(choices) \in Nat \ {0}
  BY <1>3, <1>4, FS_CardinalityType, FS_EmptySet
<1>8. pick \in 1..Cardinality(choices)
  <2> HIDE DEF choices
  <2>1. GreedyWidth \in Nat \ {0}
    BY GreedyWidthAssumption
  <2>2. width \in 1..Cardinality(choices)
    <3> DEFINE many == Cardinality(choices)
    <3>1. many \in Nat \ {0}
      BY <1>7
    <3> HIDE DEF many
    <3>2. GreedyWidth \in Int /\ many \in Int
      BY <2>1, <3>1
    <3>3. Min({GreedyWidth, many}) \in 1..many
      BY <2>1, <3>1, <3>2, LesserOfTwo
    <3> QED
      BY <3>3 DEF many
  <2>3. picks[Len(route) + 1] \in Nat \ {0}
    BY <1>1
  <2> HIDE DEF width
  <2> QED
    BY <1>7, <2>2, <2>3, LesserOfTwo
<1> HIDE DEF pick, choices, key
<1>9. PICK s \in choices : Cardinality(Predecessors(choices, key, s)) = Cardinality(choices) - 1
  BY <1>3, <1>4, <1>6, LastHasAllBefore
<1>10. Predecessors(choices, key, s) = {t \in choices : LexBefore(Key(t), Key(s))}
  BY DEF Predecessors, key
<1>11. s \notin Least(choices, pick - 1, Key)
  <2>1. ~(Cardinality(choices) - 1 < pick - 1)
    BY <1>7, <1>8
  <2> QED
    BY <1>9, <1>10, <2>1 DEF Least
<1>12. left # {} /\ left \in SUBSET choices
  BY <1>11 DEF Least
<1>13. IsFiniteSet(left)
  BY <1>4, <1>12, FS_Subset
<1>14. leftKey \in [left -> Keys(2)] /\ \A c \in left : leftKey[c] = Key(c)
  BY <1>5, <1>12
<1> HIDE DEF left, leftKey
<1>15. \E c \in left : \A t \in left : ~LexBefore(leftKey[t], leftKey[c])
  BY <1>12, <1>13, <1>14, BestExists
<1>16. \E c \in left : \A t \in left : ~LexBefore(Key(t), Key(c))
  BY <1>14, <1>15
<1>17. Best(left, Key) \in left
  BY <1>16 DEF Best
<1>18. Chosen(req, route, picks) = Best(left, Key)
  BY DEF Chosen, left, pick, choices
<1> QED
  BY <1>3, <1>12, <1>17, <1>18

-----------------------------------------------------------------------------
(***************************************************************************)
(* The invariant of the search.                                            *)
(***************************************************************************)
Snapshots == [phase : {"none", "primary", "arc"}, completed : Nat]

LEMMA InitRInv == Init => RInv
<1> SUFFICES ASSUME Init PROVE RInv
  OBVIOUS
<1>1. IInv
  BY InitIInv
<1>2. DOMAIN tasks = {} /\ phase = "requested"
  BY DEF Init
<1>3. snapshot \in Snapshots
  BY DEF Init, Snapshots
<1>4. TasksHold
  BY <1>2, <1>3 DEF TasksHold, Snapshots
<1>5. found \in [{"primary", "arc", "selected"} -> AllOrderings \cup {<<>>}]
  BY DEF Init
<1> QED
  BY <1>1, <1>2, <1>4, <1>5 DEF RInv, FoundHolds

\* A task that has not ended belongs to a search under way.
LEMMA SearchIsOn ==
  ASSUME RInv, NEW t \in DOMAIN tasks, ~Ended(t)
  PROVE  phase \in {"primary", "arc"} /\ Searching
BY DEF RInv, TasksHold

LEMMA TaskRInv ==
  ASSUME RInv, IInv', NEW t \in DOMAIN tasks, ~Ended(t),
         NEW new, DOMAIN new = TaskFields, TaskBecomes(t, new),
         TaskTyped(t, new), TaskImproves(t, new),
         UNCHANGED <<request, phase, found>>, UNCHANGED snapshot \/ Stored(t)
  PROVE  RInv'
<1>1. /\ Shaped'
      /\ DOMAIN tasks' = DOMAIN tasks
      /\ tasks'[t] = new
      /\ \A u \in DOMAIN tasks : u # t => tasks'[u] = tasks[u]
  BY TaskChanged DEF RInv, IInv
<1>2. phase \in {"primary", "arc"} /\ Searching
  BY SearchIsOn
<1>3. \A u \in DOMAIN tasks : TaskTyped(u, tasks'[u]) /\ TaskImproves(u, tasks'[u])
  BY <1>1, <1>2 DEF RInv, TasksHold, Searching
<1>4. (\A u \in DOMAIN tasks : TaskTyped(u, tasks[u]))'
  BY <1>1, <1>3 DEF TaskTyped, AllOrderings, FixedStarts, Arc, PartialRoutes, Size, Tracks
<1>5. (\A u \in DOMAIN tasks : TaskImproves(u, tasks[u]))'
  BY <1>1, <1>3 DEF TaskImproves, Safe, FixedRoute, Arc, Size, Tracks
<1>6. Searching'
  BY <1>1, <1>2, <1>5 DEF Searching, Valid, Size, FixedStarts, Arc, Restarts
<1>7. snapshot' \in Snapshots
  <2>1. CASE UNCHANGED snapshot
    BY <2>1 DEF RInv, TasksHold, Snapshots
  <2>2. CASE Stored(t)
    <3>1. tasks[t].event \in Nat
      BY DEF RInv, IInv, Exact
    <3>2. CompletedOffset \in Nat
      BY RestartsAreNat DEF CompletedOffset, RInv, IInv
    <3>3. snapshot' = [phase |-> phase, completed |-> CompletedOffset + tasks[t].event]
      BY <2>2 DEF Stored
    <3> QED
      BY <1>2, <3>1, <3>2, <3>3 DEF Snapshots
  <2> QED
    BY <2>1, <2>2
<1>8. TasksHold'
  BY <1>2, <1>4, <1>6, <1>7 DEF TasksHold, Snapshots
<1>9. FoundHolds'
  BY <1>2 DEF RInv, FoundHolds, AllOrderings, Safe, Objective, FixedRoute, Tracks, Size
<1> QED
  BY <1>8, <1>9 DEF RInv

\* A route that starts to improve is as good as itself.
LEMMA StartsEven ==
  ASSUME RInv, NEW t \in DOMAIN tasks, ~Ended(t), NEW new, DOMAIN new = TaskFields,
         new.at = "pass", new.route \in AllOrderings, new.start = new.route,
         t \in {1, 2} => new.start = FixedRoute(t)
  PROVE  TaskTyped(t, new) /\ TaskImproves(t, new)
<1>1. request \in RouteRequests /\ Size(request) >= 1 /\ Size(request) \in Nat
  BY SearchIsOn, RequestHas DEF RInv, IInv, Searching, Valid
<1>2. LocalKey(request, new.route, Arc) \in Keys(2)
  BY <1>1, LocalKeyTyped DEF AllOrderings, Arc
<1>3. ~LexBefore(LocalKey(request, new.start, Arc), LocalKey(request, new.route, Arc))
  BY <1>2, LexIrreflexive
<1>4. TaskImproves(t, new)
  BY <1>3 DEF TaskImproves
<1>5. TaskTyped(t, new)
  BY DEF TaskTyped, Stages, Unstarted
<1> QED
  BY <1>4, <1>5

LEMMA TakeFixedRInv ==
  ASSUME RInv, IInv', NEW t \in DOMAIN tasks, TakeFixed(t), UNCHANGED <<request, phase, found>>
  PROVE  RInv'
<1> DEFINE new == [tasks[t] EXCEPT !.at = "pass", !.route = FixedRoute(t),
                                   !.start = FixedRoute(t)]
<1>1. DOMAIN tasks[t] = TaskFields
  BY DEF RInv, IInv, Shaped
<1>2. TaskBecomes(t, new) /\ UNCHANGED snapshot /\ ~Ended(t)
  BY DEF TakeFixed, TaskBecomes, MayTake, Ended
<1>3. /\ DOMAIN new = TaskFields
      /\ new.at = "pass" /\ new.route = FixedRoute(t) /\ new.start = FixedRoute(t)
  BY <1>1 DEF TaskFields
<1> HIDE DEF new
<1>4. FixedRoute(t) \in AllOrderings
  BY FixedRouteIsOrdering DEF AllOrderings, RInv, IInv
<1>5. TaskTyped(t, new) /\ TaskImproves(t, new)
  BY <1>2, <1>3, <1>4, StartsEven
<1> QED
  BY <1>2, <1>3, <1>5, TaskRInv

\* The restart a task works on.
LEMMA RestartOfTask ==
  ASSUME RInv, NEW t \in DOMAIN tasks, ~Ended(t), t > FixedStarts(Arc)
  PROVE  /\ t \notin {1, 2}
         /\ request.picks[t - FixedStarts(Arc)] \in Seq(Nat \ {0})
         /\ Len(request.picks[t - FixedStarts(Arc)]) = Size(request)
         /\ request.picks[t - FixedStarts(Arc)][1] \in Tracks(request)
<1>1. request \in RouteRequests
  BY DEF RInv, IInv
<1>2. /\ request.picks \in Seq(Seq(Nat \ {0}))
      /\ \A r \in DOMAIN request.picks : Len(request.picks[r]) = Size(request)
      /\ \A r \in DOMAIN request.picks : request.picks[r][1] \in Tracks(request)
  BY <1>1, RequestsAssumption
<1>3. DOMAIN request.picks = 1..Restarts(request) /\ Restarts(request) \in Nat
  BY <1>2 DEF Restarts
<1>4. t \in 1..(FixedStarts(Arc) + Restarts(request)) /\ FixedStarts(Arc) \in {2, 3}
  BY SearchIsOn DEF Searching, FixedStarts
<1>5. t - FixedStarts(Arc) \in DOMAIN request.picks
  BY <1>3, <1>4
<1>6. t \notin {1, 2}
  BY <1>4
<1> QED
  BY <1>2, <1>5, <1>6

LEMMA TakeGreedyRInv ==
  ASSUME RInv, IInv', NEW t \in DOMAIN tasks, TakeGreedy(t),
         UNCHANGED <<request, phase, found>>
  PROVE  RInv'
<1> DEFINE first == request.picks[t - FixedStarts(Arc)][1]
           new == [tasks[t] EXCEPT !.at = "grow", !.route = <<first>>]
<1>1. DOMAIN tasks[t] = TaskFields /\ TaskTyped(t, tasks[t])
  BY DEF RInv, IInv, Shaped, TasksHold
<1>2. /\ TaskBecomes(t, new) /\ UNCHANGED snapshot /\ ~Ended(t)
      /\ t > FixedStarts(Arc)
  BY DEF TakeGreedy, TaskBecomes, MayTake, Ended
<1>3. /\ DOMAIN new = TaskFields
      /\ new.at = "grow" /\ new.route = <<first>> /\ new.start = tasks[t].start
  BY <1>1 DEF TaskFields
<1>4. first \in Tracks(request)
  BY <1>2, RestartOfTask
<1> HIDE DEF new, first
<1>5. Size(request) \in Nat /\ Size(request) >= 2
  BY <1>2, SearchIsOn, RequestHas DEF RInv, IInv, Searching, Valid
<1>6. <<first>> \in PartialRoutes /\ Len(<<first>>) \in 1..(Size(request) - 1)
  BY <1>4, <1>5 DEF PartialRoutes, IsInjective
<1>7. TaskTyped(t, new)
  BY <1>1, <1>2, <1>3, <1>6 DEF TaskTyped, Stages, Unstarted
<1>8. TaskImproves(t, new)
  BY <1>3 DEF TaskImproves, Unstarted
<1> QED
  BY <1>2, <1>3, <1>7, <1>8, TaskRInv

LEMMA GrowRInv ==
  ASSUME RInv, IInv', NEW t \in DOMAIN tasks, Grow(t), UNCHANGED <<request, phase, found>>
  PROVE  RInv'
<1> DEFINE route == tasks[t].route
           c == Chosen(request, route, request.picks[t - FixedStarts(Arc)])
           longer == Append(route, c)
           growing == [tasks[t] EXCEPT !.route = longer]
           grown == [tasks[t] EXCEPT !.at = "pass", !.route = longer, !.start = longer]
<1>1. DOMAIN tasks[t] = TaskFields /\ TaskTyped(t, tasks[t]) /\ tasks[t].at = "grow"
  BY DEF RInv, IInv, Shaped, TasksHold, Grow
<1>2. /\ UNCHANGED snapshot /\ ~Ended(t)
      /\ \/ Len(longer) < Size(request) /\ TaskBecomes(t, growing)
         \/ ~(Len(longer) < Size(request)) /\ TaskBecomes(t, grown)
  BY <1>1 DEF Grow, TaskBecomes, Ended
<1>3. /\ t > FixedStarts(Arc)
      /\ route \in PartialRoutes
      /\ Len(route) \in 1..(Size(request) - 1)
  BY <1>1 DEF TaskTyped
<1>4. t \notin {1, 2}
  BY <1>2, <1>3, RestartOfTask
<1>5. /\ request \in RouteRequests
      /\ Size(request) \in Nat /\ Tracks(request) = 1..Size(request)
  BY RequestHas DEF RInv, IInv
<1>6. route \in Seq(Tracks(request)) /\ IsInjective(route) /\ Len(route) < Size(request)
  BY <1>3, <1>5 DEF PartialRoutes
<1>7. c \in Tracks(request) \ Elements(route)
  BY <1>2, <1>3, <1>5, <1>6, RestartOfTask, ChosenIsNew
<1>8. /\ DOMAIN growing = TaskFields
      /\ growing.at = "grow" /\ growing.route = longer /\ growing.start = tasks[t].start
  BY <1>1 DEF TaskFields
<1>9. /\ DOMAIN grown = TaskFields
      /\ grown.at = "pass" /\ grown.route = longer /\ grown.start = longer
  BY <1>1 DEF TaskFields
<1> HIDE DEF route, c, growing, grown
<1>10. /\ longer \in Seq(Tracks(request))
       /\ Len(longer) = Len(route) + 1
       /\ DOMAIN longer = 1..(Len(route) + 1)
       /\ IsInjective(longer)
  BY <1>6, <1>7 DEF IsInjective, Elements
<1> HIDE DEF longer
<1>11. CASE Len(longer) < Size(request) /\ TaskBecomes(t, growing)
  <2>1. Len(longer) \in 1..(Size(request) - 1)
    BY <1>3, <1>5, <1>10, <1>11
  <2>2. TaskTyped(t, growing)
    BY <1>1, <1>3, <1>8, <1>10, <2>1 DEF TaskTyped, Unstarted, PartialRoutes
  <2>3. TaskImproves(t, growing)
    BY <1>8 DEF TaskImproves, Unstarted
  <2> QED
    BY <1>2, <1>8, <1>11, <2>2, <2>3, TaskRInv
<1>12. CASE ~(Len(longer) < Size(request)) /\ TaskBecomes(t, grown)
  <2>1. Len(longer) = Size(request)
    BY <1>3, <1>5, <1>10, <1>12
  <2>2. longer \in [1..Size(request) -> 1..Size(request)]
    BY <1>5, <1>10, <2>1
  <2>3. longer \in AllOrderings
    BY <1>10, <2>2 DEF AllOrderings, Orderings
  <2>4. TaskTyped(t, grown) /\ TaskImproves(t, grown)
    BY <1>2, <1>4, <1>9, <2>3, StartsEven
  <2> QED
    BY <1>2, <1>9, <1>12, <2>4, TaskRInv
<1> QED
  BY <1>2, <1>11, <1>12

\* A step that leaves the route of a complete task alone.
LEMMA SameRoute ==
  ASSUME RInv, NEW t \in DOMAIN tasks, ~Ended(t), tasks[t].at \notin Unstarted,
         NEW new, DOMAIN new = TaskFields,
         new.route = tasks[t].route, new.start = tasks[t].start,
         new.at \in Stages \ Unstarted,
         new.at \in {"count", "report end", "ok"} => Safe(tasks[t].route),
         new.at = "infeasible" => ~Safe(tasks[t].route)
  PROVE  TaskTyped(t, new) /\ TaskImproves(t, new)
<1>1. TaskTyped(t, tasks[t]) /\ TaskImproves(t, tasks[t])
  BY SearchIsOn DEF RInv, TasksHold, Searching
<1>2. TaskTyped(t, new)
  BY <1>1 DEF TaskTyped, Unstarted
<1>3. TaskImproves(t, new)
  BY <1>1 DEF TaskImproves
<1> QED
  BY <1>2, <1>3

LEMMA ImproveRInv ==
  ASSUME RInv, IInv', NEW t \in DOMAIN tasks, Improve(t), UNCHANGED <<request, phase, found>>
  PROVE  RInv'
<1> DEFINE route == tasks[t].route
           start == tasks[t].start
           best == BestOfPass(request, route, Arc)
           Key(r) == LocalKey(request, r, Arc)
           stage == IF Safe(route) THEN "count" ELSE "infeasible"
           better == [tasks[t] EXCEPT !.at = "pass", !.route = best]
           ended == [tasks[t] EXCEPT !.at = stage]
<1>1. /\ DOMAIN tasks[t] = TaskFields
      /\ TaskTyped(t, tasks[t])
      /\ tasks[t].at = "improve"
  BY DEF RInv, IInv, Shaped, TasksHold, Improve
<1>2. /\ UNCHANGED snapshot /\ ~Ended(t)
      /\ \/ LexBefore(Key(best), Key(route)) /\ TaskBecomes(t, better)
         \/ TaskBecomes(t, ended)
  BY <1>1 DEF Improve, TaskBecomes, Ended, LocalKeyPrecedes, Safe
<1>3. route \in AllOrderings /\ start \in AllOrderings
  BY <1>1 DEF TaskTyped, Unstarted
<1>4. TaskImproves(t, tasks[t])
  BY <1>2, SearchIsOn DEF Searching
<1>5. request \in RouteRequests /\ Size(request) >= 1 /\ Size(request) \in Nat
  BY <1>2, SearchIsOn, RequestHas DEF RInv, IInv, Searching, Valid
<1>6. Arc \in BOOLEAN
  BY DEF Arc
<1>7. best \in AllOrderings
  BY <1>3, <1>5, <1>6, BestOfPassIsOrdering DEF AllOrderings
<1>8. Key(best) \in Keys(2) /\ Key(route) \in Keys(2) /\ Key(start) \in Keys(2)
  BY <1>3, <1>5, <1>6, <1>7, LocalKeyTyped DEF AllOrderings
<1>9. ~LexBefore(Key(start), Key(route)) /\ (t \in {1, 2} => start = FixedRoute(t))
  BY <1>1, <1>4 DEF TaskImproves, Unstarted
<1>10. stage \in {"count", "infeasible"}
  OBVIOUS
<1>11. (stage = "count" => Safe(route)) /\ (stage = "infeasible" => ~Safe(route))
  OBVIOUS
<1> HIDE DEF best, stage
<1>12. /\ DOMAIN better = TaskFields
       /\ better.at = "pass" /\ better.route = best /\ better.start = start
  BY <1>1 DEF TaskFields
<1>13. /\ DOMAIN ended = TaskFields
       /\ ended.at = stage /\ ended.route = route /\ ended.start = start
  BY <1>1 DEF TaskFields
<1> HIDE DEF better, ended
<1>14. CASE LexBefore(Key(best), Key(route)) /\ TaskBecomes(t, better)
  <2>1. ~LexBefore(Key(start), Key(best))
    <3> HIDE DEF Key, route, start
    <3> QED
      BY <1>8, <1>9, <1>14, LexTransitive
  <2>2. TaskTyped(t, better)
    BY <1>3, <1>7, <1>12 DEF TaskTyped, Stages, Unstarted
  <2>3. TaskImproves(t, better)
    BY <1>9, <1>12, <2>1 DEF TaskImproves
  <2> QED
    BY <1>2, <1>12, <1>14, <2>2, <2>3, TaskRInv
<1>15. CASE TaskBecomes(t, ended)
  <2>1. /\ ended.at \in Stages \ Unstarted
        /\ tasks[t].at \notin Unstarted
        /\ ended.at \in {"count", "report end", "ok"} => Safe(tasks[t].route)
        /\ ended.at = "infeasible" => ~Safe(tasks[t].route)
    BY <1>1, <1>10, <1>11, <1>13 DEF Stages, Unstarted
  <2>2. TaskTyped(t, ended) /\ TaskImproves(t, ended)
    BY <1>2, <1>13, <2>1, SameRoute
  <2> QED
    BY <1>2, <1>13, <1>15, <2>2, TaskRInv
<1> QED
  BY <1>2, <1>14, <1>15

LEMMA TaskStepRInv ==
  ASSUME RInv, IInv', NEW t \in DOMAIN tasks, TaskStep(t)
  PROVE  RInv'
<1>1. /\ DOMAIN tasks[t] = TaskFields
      /\ UNCHANGED <<request, phase, found>>
  BY DEF RInv, IInv, Shaped, TaskStep
<1>2. CASE TakeFixed(t)
  BY <1>1, <1>2, TakeFixedRInv
<1>3. CASE TakeGreedy(t)
  BY <1>1, <1>3, TakeGreedyRInv
<1>4. CASE Grow(t)
  BY <1>1, <1>4, GrowRInv
<1>5. CASE Pass(t)
  <2> DEFINE new == [tasks[t] EXCEPT !.at = "report", !.event = completed]
  <2>1. /\ TaskBecomes(t, new) /\ UNCHANGED snapshot
        /\ ~Ended(t) /\ tasks[t].at \notin Unstarted
    BY <1>5 DEF Pass, TaskBecomes, Ended, Unstarted
  <2>2. /\ DOMAIN new = TaskFields
        /\ new.at = "report" /\ new.route = tasks[t].route /\ new.start = tasks[t].start
    BY <1>1 DEF TaskFields
  <2> HIDE DEF new
  <2>3. TaskTyped(t, new) /\ TaskImproves(t, new)
    BY <2>1, <2>2, SameRoute DEF Stages, Unstarted
  <2> QED
    BY <1>1, <2>1, <2>2, <2>3, TaskRInv
<1>6. CASE Report(t)
  <2> DEFINE new == [tasks[t] EXCEPT !.at = "improve"]
  <2>1. /\ TaskBecomes(t, new) /\ Stored(t)
        /\ ~Ended(t) /\ tasks[t].at \notin Unstarted
    BY <1>6 DEF Report, TaskBecomes, Ended, Unstarted
  <2>2. /\ DOMAIN new = TaskFields
        /\ new.at = "improve" /\ new.route = tasks[t].route /\ new.start = tasks[t].start
    BY <1>1 DEF TaskFields
  <2> HIDE DEF new
  <2>3. TaskTyped(t, new) /\ TaskImproves(t, new)
    BY <2>1, <2>2, SameRoute DEF Stages, Unstarted
  <2> QED
    BY <1>1, <2>1, <2>2, <2>3, TaskRInv
<1>7. CASE Improve(t)
  BY <1>1, <1>7, ImproveRInv
<1>8. CASE Count(t)
  <2> DEFINE new == [tasks[t] EXCEPT !.at = "report end", !.event = completed + 1]
  <2>1. /\ TaskBecomes(t, new) /\ UNCHANGED snapshot /\ tasks[t].at = "count"
        /\ ~Ended(t) /\ tasks[t].at \notin Unstarted
    BY <1>8 DEF Count, TaskBecomes, Ended, Unstarted
  <2>2. /\ DOMAIN new = TaskFields
        /\ new.at = "report end" /\ new.route = tasks[t].route /\ new.start = tasks[t].start
    BY <1>1 DEF TaskFields
  <2> HIDE DEF new
  <2>3. Safe(tasks[t].route)
    BY <2>1, SearchIsOn DEF Searching, TaskImproves
  <2>4. TaskTyped(t, new) /\ TaskImproves(t, new)
    BY <2>1, <2>2, <2>3, SameRoute DEF Stages, Unstarted
  <2> QED
    BY <1>1, <2>1, <2>2, <2>4, TaskRInv
<1>9. CASE ReportEnd(t)
  <2> DEFINE new == [tasks[t] EXCEPT !.at = "ok"]
  <2>1. /\ TaskBecomes(t, new) /\ Stored(t) /\ tasks[t].at = "report end"
        /\ ~Ended(t) /\ tasks[t].at \notin Unstarted
    BY <1>9 DEF ReportEnd, TaskBecomes, Ended, Unstarted
  <2>2. /\ DOMAIN new = TaskFields
        /\ new.at = "ok" /\ new.route = tasks[t].route /\ new.start = tasks[t].start
    BY <1>1 DEF TaskFields
  <2> HIDE DEF new
  <2>3. Safe(tasks[t].route)
    BY <2>1, SearchIsOn DEF Searching, TaskImproves
  <2>4. TaskTyped(t, new) /\ TaskImproves(t, new)
    BY <2>1, <2>2, <2>3, SameRoute DEF Stages, Unstarted
  <2> QED
    BY <1>1, <2>1, <2>2, <2>4, TaskRInv
<1> QED
  BY <1>2, <1>3, <1>4, <1>5, <1>6, <1>7, <1>8, <1>9 DEF TaskStep

\* The candidate of a search is a route one of its tasks has found, and none of
\* them has a lower score.
LEMMA BestCandidateIs ==
  ASSUME RInv, Searched, Candidates # {}
  PROVE  /\ BestCandidate \in Candidates
         /\ Candidates \in SUBSET AllOrderings
         /\ \A r \in Candidates :
              /\ Safe(r)
              /\ SearchScore(RouteMetrics(request, BestCandidate, Arc), Arc)
                   <= SearchScore(RouteMetrics(request, r, Arc), Arc)
<1> DEFINE n == Size(request)
           Score(r) == SearchScore(RouteMetrics(request, r, Arc), Arc)
           Key(r) == <<Score(r)>> \o r
           key == [r \in Candidates |-> Key(r)]
           okTasks == {u \in DOMAIN tasks : tasks[u].at = "ok"}
           routeOf == [t \in okTasks |-> tasks[t].route]
<1>1. phase \in {"primary", "arc"} /\ Searching
  BY DEF Searched, RInv, TasksHold
<1>2. request \in RouteRequests /\ n >= 1 /\ n \in Nat /\ Arc \in BOOLEAN
  BY <1>1, RequestHas DEF RInv, IInv, Searching, Valid, Arc
<1>3. ASSUME NEW r \in Candidates PROVE r \in AllOrderings /\ Safe(r)
  <2>1. PICK t \in DOMAIN tasks : tasks[t].at = "ok" /\ r = tasks[t].route
    BY DEF Candidates
  <2>2. TaskTyped(t, tasks[t]) /\ TaskImproves(t, tasks[t])
    BY <1>1 DEF RInv, TasksHold, Searching
  <2> QED
    BY <2>1, <2>2 DEF TaskTyped, TaskImproves, Unstarted
<1>4. ASSUME NEW r \in Candidates
      PROVE  /\ Key(r) \in Keys(1 + n)
             /\ Key(r)[1] = Score(r) /\ Score(r) \in Nat
  <2>1. Score(r) \in Nat /\ r \in Orderings(n)
    BY <1>2, <1>3, ScoreIsNat DEF AllOrderings
  <2> HIDE DEF Score, n
  <2>2. <<Score(r)>> \in Keys(1) /\ <<Score(r)>>[1] = Score(r)
    BY <2>1 DEF Keys
  <2> DEFINE one == <<Score(r)>>
  <2>3. one \in Keys(1) /\ one[1] = Score(r)
    BY <2>2
  <2> HIDE DEF one
  <2> DEFINE m == 1
  <2>4. m \in Nat /\ n \in Nat /\ one \in Keys(m) /\ r \in Orderings(n)
    BY <1>2, <2>1, <2>3
  <2>5. m + n = 1 + n /\ 1 \in 1..m
    BY <1>2
  <2> HIDE DEF m
  <2>6. one \o r \in Keys(m + n) /\ \A i \in 1..m : (one \o r)[i] = one[i]
    BY <2>4, KeyedTyped
  <2> QED
    BY <2>1, <2>3, <2>5, <2>6 DEF one
<1>5. IsFiniteSet(Candidates)
  <2>1. IsFiniteSet(okTasks)
    BY FS_Subset DEF RInv, IInv, Shaped
  <2>2. routeOf \in Surjection(okTasks, Candidates)
    BY DEF Surjection, Candidates
  <2> QED
    BY <2>1, <2>2, FS_Surjection
<1> HIDE DEF Key, Score, n
<1>6. key \in [Candidates -> Keys(1 + n)] /\ 1 + n \in Nat
  BY <1>2, <1>4
<1>7. \A r \in Candidates : key[r] = Key(r)
  OBVIOUS
<1> HIDE DEF key
<1>8. \E s \in Candidates : \A t \in Candidates : ~LexBefore(key[t], key[s])
  BY <1>5, <1>6, BestExists
<1>9. \E s \in Candidates : \A t \in Candidates : ~LexBefore(Key(t), Key(s))
  BY <1>7, <1>8
<1>10. BestCandidate = CHOOSE s \in Candidates :
                         \A t \in Candidates : ~LexBefore(Key(t), Key(s))
  BY DEF BestCandidate, Best, Key, Score
<1>11. /\ BestCandidate \in Candidates
       /\ \A t \in Candidates : ~LexBefore(Key(t), Key(BestCandidate))
  BY <1>9, <1>10
<1>12. ASSUME NEW r \in Candidates PROVE Score(BestCandidate) <= Score(r)
  <2> SUFFICES ASSUME Score(r) < Score(BestCandidate) PROVE FALSE
    BY <1>4, <1>11
  <2>1. Key(r)[1] < Key(BestCandidate)[1]
    BY <1>4, <1>11
  <2>2. 1 \in DOMAIN Key(r) /\ 1 \in DOMAIN Key(BestCandidate)
    BY <1>2, <1>4, <1>11 DEF Keys
  <2>3. \A j \in 1..(1 - 1) : Key(r)[j] = Key(BestCandidate)[j]
    OBVIOUS
  <2>4. LexBefore(Key(r), Key(BestCandidate))
    BY <2>1, <2>2, <2>3 DEF LexBefore
  <2> QED
    BY <1>11, <2>4
<1> QED
  BY <1>3, <1>11, <1>12 DEF Score

\* The primary candidate is not longer than a fixed start that repeats nothing:
\* the task that starts there can neither fail nor end with more.
LEMMA PrimaryMatchesStarts ==
  ASSUME RInv, Searched, Candidates # {}, phase = "primary",
         NEW t \in {1, 2}, Safe(FixedRoute(t))
  PROVE  Objective(BestCandidate) <= Objective(FixedRoute(t))
<1> DEFINE start == FixedRoute(t)
           route == tasks[t].route
           Score(r) == SearchScore(RouteMetrics(request, r, Arc), Arc)
<1>1. Searching /\ ~Arc /\ Arc = FALSE
  BY DEF Arc, RInv, TasksHold
<1>2. /\ request \in RouteRequests /\ Size(request) >= 1 /\ Size(request) \in Nat
      /\ Restarts(request) \in Nat
  BY <1>1, RequestHas, RestartsAreNat DEF RInv, IInv, Searching, Valid
<1>3. t \in DOMAIN tasks
  BY <1>1, <1>2 DEF Searching, FixedStarts
<1>4. tasks[t].at \in {"ok", "infeasible"}
  BY <1>3 DEF Searched, Ended
<1>5. /\ TaskTyped(t, tasks[t]) /\ TaskImproves(t, tasks[t])
      /\ tasks[t].at \notin Unstarted
  BY <1>1, <1>3, <1>4 DEF RInv, TasksHold, Searching, Unstarted
<1>6. route \in AllOrderings /\ start \in AllOrderings /\ tasks[t].start = start
  BY <1>5 DEF TaskTyped, TaskImproves
<1>7. ~LexBefore(LocalKey(request, start, Arc), LocalKey(request, route, Arc))
  BY <1>5, <1>6 DEF TaskImproves
<1>8. \A r \in AllOrderings :
        /\ LocalKey(request, r, Arc) \in Keys(2)
        /\ LocalKey(request, r, Arc)[1] \in Nat
        /\ LocalKey(request, r, Arc)[1] = 0 <=> Safe(r)
        /\ LocalKey(request, r, Arc)[2] = Score(r)
        /\ Score(r) = 25 * Objective(r)
        /\ Objective(r) \in Nat
  <2> SUFFICES ASSUME NEW r \in AllOrderings
               PROVE  /\ LocalKey(request, r, Arc) \in Keys(2)
                      /\ LocalKey(request, r, Arc)[1] \in Nat
                      /\ LocalKey(request, r, Arc)[1] = 0 <=> Safe(r)
                      /\ LocalKey(request, r, Arc)[2] = Score(r)
                      /\ Score(r) = 25 * Objective(r)
                      /\ Objective(r) \in Nat
    OBVIOUS
  <2>1. r \in Orderings(Size(request)) /\ r \in [1..Size(request) -> 1..Size(request)]
    BY <1>2, OrderingHas DEF AllOrderings
  <2>2. /\ LocalKey(request, r, Arc) \in Keys(2)
        /\ LocalKey(request, r, Arc)[1] \in Nat
        /\ LocalKey(request, r, Arc)[1] = Cardinality(RepeatViolations(request, r))
        /\ LocalKey(request, r, Arc)[2] = Score(r)
    BY <1>1, <1>2, <2>1, LocalKeyTyped
  <2>3. Cardinality(RepeatViolations(request, r)) = 0 <=> Safe(r)
    BY <1>2, <2>1, RepeatsAreFinite DEF Safe
  <2>4. Objective(r) \in Nat
    BY <1>2, <2>1, MetricsAreNat DEF Objective
  <2>5. Score(r) = 25 * Objective(r)
    <3> DEFINE o == RouteMetrics(request, r, FALSE).objective
    <3>1. Score(r) = 25 * o + 0
      BY <1>1 DEF SearchScore
    <3>2. o = Objective(r)
      BY DEF Objective
    <3> HIDE DEF o, Score
    <3> QED
      BY <2>4, <3>1, <3>2
  <2> QED
    BY <2>2, <2>3, <2>4, <2>5
<1> HIDE DEF Score, route, start
<1> DEFINE a == LocalKey(request, start, Arc)
           b == LocalKey(request, route, Arc)
<1>9. /\ a \in [1..2 -> Int] /\ b \in [1..2 -> Int]
      /\ a[1] = 0 /\ b[1] \in Nat /\ ~LexBefore(a, b)
  BY <1>6, <1>7, <1>8 DEF Keys, start
<1> HIDE DEF a, b
<1>10. b[1] < a[1] \/ (b[1] = a[1] /\ b[2] <= a[2])
  BY <1>9, PairNotBeaten DEF Keys
<1>11. b[1] = 0 /\ b[2] <= a[2]
  BY <1>9, <1>10
<1>12. Safe(route) /\ Objective(route) <= Objective(start)
  BY <1>6, <1>8, <1>11 DEF a, b
<1>13. tasks[t].at = "ok"
  BY <1>4, <1>5, <1>12 DEF TaskImproves, route
<1>14. route \in Candidates
  BY <1>3, <1>13 DEF Candidates, route
<1>15. BestCandidate \in AllOrderings /\ Score(BestCandidate) <= Score(route)
  BY <1>14, BestCandidateIs DEF Score
<1>16. Objective(BestCandidate) <= Objective(route)
  BY <1>6, <1>8, <1>15
<1>17. /\ Objective(BestCandidate) \in Nat /\ Objective(route) \in Nat
       /\ Objective(start) \in Nat
  BY <1>6, <1>8, <1>15
<1> QED
  BY <1>12, <1>16, <1>17 DEF start

\* The selected candidate is the primary one or not much longer.
LEMMA SelectedIsNear ==
  ASSUME request \in RouteRequests, Size(request) >= 1,
         NEW primary \in AllOrderings, NEW arc \in AllOrderings
  PROVE  100 * Objective(Selected(primary, arc)) <= 108 * Objective(primary)
<1> DEFINE P == RouteMetrics(request, primary, TRUE)
           A == RouteMetrics(request, arc, TRUE)
<1>1. P.objective = Objective(primary) /\ A.objective = Objective(arc)
  BY DEF RouteMetrics, Objective
<1>2. Objective(primary) \in Nat /\ Objective(arc) \in Nat
  BY MetricsAreNat DEF Objective, AllOrderings
<1>3. Selected(primary, arc) = IF /\ 100 * A.objective <= 108 * P.objective
                                  /\ 10 * A.arcError <= 9 * P.arcError
                               THEN arc ELSE primary
  BY DEF Selected
<1> HIDE DEF P, A
<1>4. CASE Selected(primary, arc) = arc /\ 100 * A.objective <= 108 * P.objective
  BY <1>1, <1>4
<1>5. CASE Selected(primary, arc) = primary
  BY <1>2, <1>5
<1> QED
  BY <1>3, <1>4, <1>5

LEMMA StartRInv ==
  ASSUME RInv, IInv', request' = request, Valid(request), NEW arc \in BOOLEAN,
         NEW offset \in Nat, SearchStarts(arc, offset),
         phase' = IF arc THEN "arc" ELSE "primary"
  PROVE  TasksHold'
<1>1. tasks' = NewTasks(arc)
  BY DEF SearchStarts
<1>2. /\ DOMAIN tasks' = 1..(FixedStarts(arc) + Restarts(request))
      /\ \A t \in DOMAIN tasks' :
           tasks'[t] = [at |-> "waiting", route |-> <<>>, start |-> <<>>, event |-> 0]
  BY <1>1 DEF NewTasks
<1>3. Arc' = arc
  BY DEF Arc
<1>4. DOMAIN tasks' = (1..(FixedStarts(Arc) + Restarts(request)))'
  BY <1>2, <1>3 DEF FixedStarts, Restarts
<1> DEFINE empty == [at |-> "waiting", route |-> <<>>, start |-> <<>>, event |-> 0]
<1>5. empty.at = "waiting" /\ empty.route = <<>> /\ empty.start = <<>>
  OBVIOUS
<1>6. \A t \in DOMAIN tasks' : tasks'[t] = empty
  BY <1>2
<1> HIDE DEF empty
<1>7. (\A t \in DOMAIN tasks : TaskTyped(t, tasks[t]))'
  BY <1>5, <1>6 DEF TaskTyped, Stages, Unstarted
<1>8. (\A t \in DOMAIN tasks : TaskImproves(t, tasks[t]))'
  BY <1>5, <1>6 DEF TaskImproves, Unstarted
<1>9. Searching'
  BY <1>4, <1>8 DEF Searching, Valid, Size
<1>10. snapshot' \in [phase : {"none", "primary", "arc"}, completed : Nat]
  BY DEF SearchStarts
<1> QED
  BY <1>7, <1>9, <1>10 DEF TasksHold

\* What a search that ended leaves behind.
LEMMA StopTasksHold ==
  ASSUME RInv, UNCHANGED <<request, tasks, completed, snapshot>>,
         phase' \in {"infeasible", "done"}, phase' = "done" => Size(request) >= 2,
         \A t \in DOMAIN tasks : Ended(t)
  PROVE  TasksHold'
<1>1. (\A t \in DOMAIN tasks : Ended(t))'
  BY DEF Ended
<1>2. \A t \in DOMAIN tasks : tasks[t].at # "grow" /\ TaskTyped(t, tasks[t])
  BY DEF RInv, TasksHold, Ended
<1>3. (\A t \in DOMAIN tasks : TaskTyped(t, tasks[t]))'
  BY <1>2 DEF TaskTyped, AllOrderings, Size
<1> QED
  BY <1>1, <1>3 DEF RInv, TasksHold, Size

LEMMA NextRInv == RInv /\ [Next]_vars => RInv'
<1> SUFFICES ASSUME RInv, [Next]_vars PROVE RInv'
  OBVIOUS
<1>1. IInv'
  BY NextIInv DEF RInv
<1>2. CASE Refuse
  <2>1. TasksHold'
    BY <1>2 DEF Refuse, RInv, TasksHold
  <2>2. FoundHolds'
    BY <1>2 DEF Refuse, RInv, FoundHolds, AllOrderings, Size
  <2> QED
    BY <1>1, <2>1, <2>2 DEF RInv
<1>3. CASE StartPrimary
  <2>1. TasksHold'
    BY <1>1, <1>3, StartRInv DEF StartPrimary
  <2>2. FoundHolds'
    BY <1>3 DEF StartPrimary, RInv, FoundHolds, AllOrderings, Size
  <2> QED
    BY <1>1, <2>1, <2>2 DEF RInv
<1>4. ASSUME NEW t \in DOMAIN tasks, TaskStep(t) PROVE RInv'
  BY <1>1, <1>4, TaskStepRInv
<1>5. CASE SearchFails
  <2>1. TasksHold'
    BY <1>5, StopTasksHold DEF SearchFails, Searched
  <2>2. FoundHolds'
    BY <1>5 DEF SearchFails, RInv, FoundHolds, AllOrderings, Size
  <2> QED
    BY <1>1, <2>1, <2>2 DEF RInv
<1>6. CASE StartArc
  <2>1. /\ Searched /\ Candidates # {} /\ phase = "primary" /\ Searching
        /\ request' = request /\ phase' = "arc"
        /\ SearchStarts(TRUE, Restarts(request) + 2)
        /\ found' = [found EXCEPT !.primary = BestCandidate]
    BY <1>6 DEF StartArc, RInv, TasksHold
  <2>2. Restarts(request) + 2 \in Nat
    BY RestartsAreNat DEF RInv, IInv
  <2>3. TasksHold'
    BY <1>1, <2>1, <2>2, StartRInv DEF Searching
  <2>4. BestCandidate \in AllOrderings /\ Safe(BestCandidate)
    BY <2>1, BestCandidateIs
  <2>5. \A t \in {1, 2} : Safe(FixedRoute(t)) =>
          Objective(BestCandidate) <= Objective(FixedRoute(t))
    BY <2>1, PrimaryMatchesStarts
  <2>6. /\ found' \in [{"primary", "arc", "selected"} -> AllOrderings \cup {<<>>}]
        /\ found'["primary"] = BestCandidate
    BY <2>1, <2>4 DEF RInv, FoundHolds
  <2>7. found'.primary = BestCandidate
    BY <2>6
  <2> DEFINE best == BestCandidate
  <2> HIDE DEF best
  <2>8. found'.primary = best /\ best \in AllOrderings /\ Safe(best)
    BY <2>4, <2>7 DEF best
  <2>9. \A t \in {1, 2} : Safe(FixedRoute(t)) => Objective(best) <= Objective(FixedRoute(t))
    BY <2>5 DEF best
  <2>10. FoundHolds'
    BY <2>1, <2>6, <2>8, <2>9 DEF FoundHolds, AllOrderings, Safe, Objective, FixedRoute, Tracks, Size
  <2> QED
    BY <1>1, <2>3, <2>10 DEF RInv
<1>7. CASE Finish
  <2> DEFINE best == BestCandidate
             selected == Selected(found.primary, best)
  <2>1. /\ Searched /\ Candidates # {} /\ phase = "arc" /\ Searching
        /\ phase' \in {"infeasible", "done"}
        /\ UNCHANGED <<request, tasks, completed, snapshot>>
        /\ found' = [found EXCEPT !.arc = best, !.selected = selected]
    BY <1>7 DEF Finish, RInv, TasksHold
  <2>2. TasksHold'
    BY <2>1, StopTasksHold DEF Searched, Searching, Valid
  <2>3. best \in AllOrderings /\ Safe(best)
    BY <2>1, BestCandidateIs
  <2>4. found.primary \in AllOrderings
    BY <2>1 DEF RInv, FoundHolds
  <2>5. selected \in {found.primary, best}
    BY DEF Selected
  <2>6. 100 * Objective(selected) <= 108 * Objective(found.primary)
    <3>1. request \in RouteRequests /\ Size(request) >= 1
      BY <2>1, RequestHas DEF RInv, IInv, Searching, Valid
    <3> QED
      BY <2>3, <2>4, <3>1, SelectedIsNear
  <2> HIDE DEF best, selected
  <2>7. selected \in AllOrderings /\ (phase' = "done" => Safe(selected))
    BY <1>7, <2>3, <2>4, <2>5 DEF Finish, Safe, selected, best
  <2>8. /\ found' \in [{"primary", "arc", "selected"} -> AllOrderings \cup {<<>>}]
        /\ found'["primary"] = found["primary"]
        /\ found'["arc"] = best /\ found'["selected"] = selected
    BY <2>1, <2>3, <2>7 DEF RInv, FoundHolds
  <2>9. found'.primary = found.primary /\ found'.arc = best /\ found'.selected = selected
    BY <2>8
  <2>10. FoundHolds'
    BY <2>1, <2>3, <2>6, <2>7, <2>8, <2>9
      DEF RInv, FoundHolds, AllOrderings, Safe, Objective, FixedRoute, Tracks, Size
  <2> QED
    BY <1>1, <2>2, <2>10 DEF RInv
<1>8. CASE UNCHANGED vars
  <2>1. /\ request' = request /\ phase' = phase /\ tasks' = tasks
        /\ snapshot' = snapshot /\ found' = found
    BY <1>8 DEF vars
  <2>2. (\A t \in DOMAIN tasks : TaskTyped(t, tasks[t]))'
    BY <2>1 DEF RInv, TasksHold, TaskTyped, AllOrderings, FixedStarts, Arc, PartialRoutes,
                Size, Tracks
  <2>3. Searching => Searching'
    BY <2>1 DEF Searching, TaskImproves, Safe, FixedRoute, FixedStarts, Arc, Valid,
                Restarts, Size, Tracks
  <2>4. TasksHold'
    BY <2>1, <2>2, <2>3 DEF RInv, TasksHold, Ended, Size
  <2>5. FoundHolds'
    BY <2>1 DEF RInv, FoundHolds, AllOrderings, Safe, Objective, FixedRoute, Tracks, Size
  <2> QED
    BY <1>1, <2>4, <2>5 DEF RInv
<1> QED
  BY <1>2, <1>3, <1>4, <1>5, <1>6, <1>7, <1>8 DEF Next, Stopped

\* What the tasks hold, and what has been found, in every reachable state.
THEOREM SearchInvariance == Spec => []RInv
BY InitRInv, NextRInv, PTL DEF Spec

\* Every complete route a task holds, and every route that is returned, is an
\* ordering of all tracks.
THEOREM RoutesAreOrderings == Spec => []TypeOK
<1>1. RInv => TypeOK
  <2> SUFFICES ASSUME RInv PROVE TypeOK
    OBVIOUS
  <2>1. \A t \in DOMAIN tasks : TaskTyped(t, tasks[t]) /\ tasks[t].event \in Nat
    BY DEF RInv, TasksHold, IInv, Exact
  <2>2. \A t \in DOMAIN tasks :
          /\ tasks[t].at \in Stages
          /\ tasks[t].event \in Nat
          /\ tasks[t].start \in Orderings(Size(request)) \cup {<<>>}
          /\ \/ tasks[t].at = "waiting" /\ tasks[t].route = <<>>
             \/ tasks[t].at = "grow" /\ tasks[t].route \in PartialRoutes
             \/ /\ tasks[t].at \notin {"waiting", "grow"}
                /\ {tasks[t].route, tasks[t].start} \subseteq Orderings(Size(request))
    BY <2>1 DEF TaskTyped, Unstarted, AllOrderings
  <2> QED
    BY <2>2 DEF TypeOK, RInv, TasksHold, IInv, Exact, FoundHolds, AllOrderings
<1> QED
  BY <1>1, SearchInvariance, PTL

\* However many passes a task makes and whatever the others do meanwhile, its
\* route has at most the repeats of its start, and with as many at most its score.
THEOREM NoTaskLosesGround == Spec => []NeverWorseThanStart
<1>1. RInv => NeverWorseThanStart
  <2> SUFFICES ASSUME RInv, NEW t \in DOMAIN tasks, tasks[t].at = "improve"
               PROVE  LET Repeats(route) == Cardinality(RepeatViolations(request, route))
                          Score(route) == SearchScore(RouteMetrics(request, route, Arc), Arc)
                          start == tasks[t].start
                          route == tasks[t].route
                      IN \/ Repeats(route) < Repeats(start)
                         \/ Repeats(route) = Repeats(start) /\ Score(route) <= Score(start)
    BY DEF NeverWorseThanStart
  <2> DEFINE a == LocalKey(request, tasks[t].start, Arc)
             b == LocalKey(request, tasks[t].route, Arc)
  <2>1. Searching
    BY SearchIsOn DEF Ended
  <2>2. request \in RouteRequests /\ Size(request) >= 1 /\ Arc \in BOOLEAN
    BY <2>1, RequestHas DEF RInv, IInv, Searching, Valid, Arc
  <2>3. TaskTyped(t, tasks[t]) /\ TaskImproves(t, tasks[t])
    BY <2>1 DEF RInv, TasksHold, Searching
  <2>4. tasks[t].route \in Orderings(Size(request)) /\ tasks[t].start \in Orderings(Size(request))
    BY <2>3 DEF TaskTyped, Unstarted, AllOrderings
  <2>5. ~LexBefore(a, b)
    BY <2>3 DEF TaskImproves, Unstarted
  <2>6. /\ a \in [1..2 -> Int] /\ b \in [1..2 -> Int]
        /\ a[1] = Cardinality(RepeatViolations(request, tasks[t].start))
        /\ b[1] = Cardinality(RepeatViolations(request, tasks[t].route))
        /\ a[2] = SearchScore(RouteMetrics(request, tasks[t].start, Arc), Arc)
        /\ b[2] = SearchScore(RouteMetrics(request, tasks[t].route, Arc), Arc)
    BY <2>2, <2>4, LocalKeyTyped DEF Keys
  <2> HIDE DEF a, b
  <2>7. b[1] < a[1] \/ (b[1] = a[1] /\ b[2] <= a[2])
    BY <2>5, <2>6, PairNotBeaten DEF Keys
  <2> HIDE DEF NeverWorseThanStart
  <2> QED
    BY <2>6, <2>7
<1> QED
  BY <1>1, SearchInvariance, PTL

\* A route without violations keeps every window, seen from each position.
LEMMA SafeRoutesPass ==
  ASSUME NEW req \in RouteRequests, NEW route \in Orderings(Size(req)),
         RepeatViolations(req, route) = {}, NEW p \in 1..Size(req)
  PROVE  RepeatWindowsSafeAt(route, req.tracks, req.w, p)
<1>1. /\ Size(req) \in Nat /\ req.w.artist \in Nat /\ req.w.album \in Nat
      /\ DOMAIN route = 1..Size(req)
  BY RequestHas, OrderingHas
<1>2. ASSUME NEW i \in DOMAIN route, NEW j \in DOMAIN route, i < j
      PROVE  ArtistAndAlbumApart(req.tracks, req.w, route[i], route[j], j - i)
  <2> DEFINE V(kind) == [kind |-> kind, left |-> i, right |-> j]
  <2>1. \A kind \in {"artist", "album"} : ~Violation(req, route, V(kind))
    BY ViolationsAre
  <2>2. V("artist") \in [kind : {"artist", "album"}, left : DOMAIN route, right : DOMAIN route]
    OBVIOUS
  <2>3. V("album") \in [kind : {"artist", "album"}, left : DOMAIN route, right : DOMAIN route]
    OBVIOUS
  <2>4. j - i > 0 /\ j - i \in Int
    BY <1>1, <1>2
  <2>5. ~(j - i <= req.w.artist /\ ArtistsRepeat(req.tracks[route[i]], req.tracks[route[j]]))
    BY <2>1, <2>2, <2>4 DEF Violation
  <2>6. ~(j - i <= req.w.album /\ AlbumsRepeat(req.tracks[route[i]], req.tracks[route[j]]))
    BY <2>1, <2>3, <2>4 DEF Violation
  <2> QED
    BY <1>1, <2>4, <2>5, <2>6 DEF ArtistAndAlbumApart
<1>3. ASSUME NEW other \in DOMAIN route \ {p}
      PROVE  ArtistAndAlbumApart(req.tracks, req.w, route[p], route[other], Gap(p, other))
  <2>1. p \in Nat /\ other \in Nat /\ p \in DOMAIN route
    BY <1>1
  <2>2. CASE p < other
    <3>1. Gap(p, other) = other - p
      BY <2>1, <2>2 DEF Gap
    <3> QED
      BY <1>2, <2>1, <2>2, <3>1
  <2>3. CASE other < p
    <3>1. Gap(p, other) = p - other
      BY <2>1, <2>3 DEF Gap
    <3>2. ArtistAndAlbumApart(req.tracks, req.w, route[other], route[p], p - other)
      BY <1>2, <2>1, <2>3
    <3> QED
      BY <3>1, <3>2, RepeatsAreSymmetric DEF ArtistAndAlbumApart
  <2> QED
    BY <2>1, <2>2, <2>3
<1> QED
  BY <1>3 DEF RepeatWindowsSafeAt

\* The route that is returned, and both candidates reported with it, keep every
\* repeat window, although the search itself only ever counts violations.
THEOREM ReturnedRoutesAreSafe == Spec => []ResultIsSafe
<1>1. RInv => ResultIsSafe
  <2> SUFFICES ASSUME RInv, phase = "done", NEW route \in Range(found),
                      NEW p \in 1..Size(request)
               PROVE  RepeatWindowsSafeAt(route, request.tracks, request.w, p)
    BY DEF ResultIsSafe
  <2>1. DOMAIN found = {"primary", "arc", "selected"}
    BY DEF RInv, FoundHolds
  <2>2. route \in {found["primary"], found["arc"], found["selected"]}
    BY <2>1 DEF Range
  <2>3. route \in AllOrderings /\ Safe(route)
    BY <2>2 DEF RInv, FoundHolds
  <2> QED
    BY <2>3, SafeRoutesPass DEF RInv, IInv, AllOrderings, Safe
<1> QED
  BY <1>1, SearchInvariance, PTL

\* An order of the caller that repeats nothing is matched: the tasks that start
\* from it cannot fail, whatever the seeds and the other tasks do.
THEOREM SourceOrderMatched == Spec => []SourceOrderIsMatched
<1>1. RInv => SourceOrderIsMatched
  <2> SUFFICES ASSUME RInv, NEW t \in {1, 2}, phase = "done",
                      RepeatViolations(request, FixedRoute(t)) = {}
               PROVE  /\ Objective(found.primary) <= Objective(FixedRoute(t))
                      /\ 100 * Objective(found.selected) <= 108 * Objective(FixedRoute(t))
    BY DEF SourceOrderIsMatched, Objective
  <2>1. /\ found.primary \in AllOrderings /\ found.selected \in AllOrderings
        /\ Objective(found.primary) <= Objective(FixedRoute(t))
        /\ 100 * Objective(found.selected) <= 108 * Objective(found.primary)
    BY DEF RInv, FoundHolds, Safe
  <2>2. FixedRoute(t) \in AllOrderings
    BY FixedRouteIsOrdering DEF AllOrderings, RInv, IInv
  <2>3. request \in RouteRequests /\ Size(request) >= 1
    BY RequestHas DEF RInv, IInv, TasksHold
  <2>4. /\ Objective(found.primary) \in Nat /\ Objective(found.selected) \in Nat
        /\ Objective(FixedRoute(t)) \in Nat
    BY <2>1, <2>2, <2>3, MetricsAreNat DEF Objective, AllOrderings
  <2> QED
    BY <2>1, <2>4
<1> QED
  BY <1>1, SearchInvariance, PTL
=============================================================================
