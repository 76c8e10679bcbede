---------------------------- MODULE ProgressSidecar ----------------------------
(***************************************************************************)
(* The progress file of src/src/main.rs: ProgressReporter::update writes   *)
(* a document to a temporary file named after the process and renames it   *)
(* over the published path; during a long search a heartbeat thread calls  *)
(* the same update with the latest search snapshot, through the same       *)
(* temporary file, until the guard that started it is dropped.             *)
(*                                                                         *)
(* The commands are modelled by their sequence of progress operations.  A  *)
(* document is a record [stage, rank, size]: its rank is the position of   *)
(* the operation whose progress it tells, its size the number of cells it  *)
(* fills in a file.  A file descriptor follows its file through renames.   *)
(***************************************************************************)
EXTENDS Integers, Sequences

CONSTANTS
  Jobs   \* the commands considered: their operations, and what the file
         \* system may fail meanwhile, a subset of {"write", "rename"}

ASSUME FaultsAssumption == \A j \in Jobs : j.faults \subseteq {"write", "rename"}

VARIABLES
  job,       \* the command running, [steps, faults], never changed
  step,      \* the position of its next operation
  snapshot,  \* the shared search progress: the last operation accounted for
  done,      \* the flag that asks the heartbeat to stop
  beat,      \* where the heartbeat thread is in its loop
  writer,    \* where each thread is in `update`
  files      \* the temporary and the published file

vars == <<job, step, snapshot, done, beat, writer, files>>

Threads == {"main", "beat"}
Absent == [exists |-> FALSE, cells |-> <<>>]
Idle == [at |-> "idle", doc |-> <<>>, fd |-> "none"]

Update(stage, size) == [op |-> "update", stage |-> stage, size |-> size]
Start(stage) == [op |-> "start", stage |-> stage, size |-> 2]
Search == [op |-> "search", stage |-> "none", size |-> 0]
Drop == [op |-> "drop", stage |-> "none", size |-> 0]

\* The route command keeps its heartbeat until the function returns.
RouteJob == <<Update("starting", 1), Start("route_search"), Search,
              Update("route_search", 1), Update("completed", 1), Drop>>

\* A fixed-source extension drops one heartbeat per routed selection.
ExtensionJob == <<Start("extension_route_search"), Search, Drop,
                  Update("extension_route_search", 1),
                  Start("extension_route_search"), Search, Drop,
                  Update("completed", 1)>>

\* A bridge plan drops the base route's heartbeat before the planner's.
BridgeJob == <<Update("starting", 1), Start("route_search"), Search, Drop,
               Update("bridge_selection", 1), Start("bridge_selection"), Search,
               Search, Drop, Update("completed", 1)>>

Ended == step > Len(job.steps) /\ writer["main"] = Idle

Whole(cells) ==
  /\ cells # <<>>
  /\ cells = [i \in 1..cells[1].size |-> cells[1]]

Document(stage, rank, size) == [stage |-> stage, rank |-> rank, size |-> size]

-----------------------------------------------------------------------------
TypeOK ==
  /\ job \in Jobs
  /\ step \in 1..(Len(job.steps) + 1)
  /\ snapshot \in 0..Len(job.steps)
  /\ done \in BOOLEAN
  /\ beat \in {"none", "loop", "sleep", "woken", "exited"}
  /\ \A t \in Threads :
       /\ writer[t].at \in {"idle", "open", "write", "rename", "remove", "again"}
       /\ writer[t].fd # "none" => writer[t].at = "write"
  /\ \A name \in {"temporary", "published"} :
       files[name].exists \/ files[name] = Absent

Init ==
  /\ job \in Jobs
  /\ step = 1
  /\ snapshot = 0
  /\ done = FALSE
  /\ beat = "none"
  /\ writer = [t \in Threads |-> Idle]
  /\ files = [temporary |-> Absent, published |-> Absent]

-----------------------------------------------------------------------------
(***************************************************************************)
(* update, run by either thread                                            *)
(***************************************************************************)
At(t, place) == writer[t].at = place

\* The descriptors after the files they were opened as took other names.
Renamed(w, Name(_)) ==
  [t \in Threads |-> [w[t] EXCEPT !.fd = Name(@)]]

Unlinked(fd) == IF fd = "published" THEN "unlinked" ELSE fd
Moved(fd) == IF fd = "temporary" THEN "published" ELSE Unlinked(fd)

Begin(t, document) ==
  writer' = [writer EXCEPT ![t] = [at |-> "open", doc |-> document, fd |-> "none"]]

\* fs::write opens and truncates...
Open(t) ==
  /\ At(t, "open")
  /\ \/ /\ files' = [files EXCEPT !.temporary = [exists |-> TRUE, cells |-> <<>>]]
        /\ writer' = [writer EXCEPT ![t].at = "write", ![t].fd = "temporary"]
     \/ /\ "write" \in job.faults
        /\ writer' = [writer EXCEPT ![t] = Idle]
        /\ UNCHANGED files

\* The cells of a file after a document, or its start, is written over them.
Overwritten(cells, document, count) ==
  [i \in 1..(IF count > Len(cells) THEN count ELSE Len(cells)) |->
     IF i <= count THEN document ELSE cells[i]]

\* ... and writes from the start of whatever file the descriptor has become.
WriteCells(t, count) ==
  files' = IF writer[t].fd = "unlinked" THEN files
           ELSE [files EXCEPT ![writer[t].fd] =
                   [exists |-> TRUE,
                    cells |-> Overwritten(@.cells, writer[t].doc, count)]]

\* Mutant: a failed write is ignored.
WriteUnchecked(t) ==
  /\ At(t, "write")
  /\ \/ WriteCells(t, writer[t].doc.size)
     \/ /\ "write" \in job.faults
        /\ \E count \in 0..(writer[t].doc.size - 1) : WriteCells(t, count)
  /\ writer' = [writer EXCEPT ![t].at = "rename", ![t].fd = "none"]

Write(t) ==
  /\ At(t, "write")
  /\ \/ /\ WriteCells(t, writer[t].doc.size)
        /\ writer' = [writer EXCEPT ![t].at = "rename", ![t].fd = "none"]
     \/ /\ "write" \in job.faults
        /\ \E count \in 0..(writer[t].doc.size - 1) : WriteCells(t, count)
        /\ writer' = [writer EXCEPT ![t] = Idle]

\* A rename succeeds or is refused; then thread t is at `next`.
Publish(t, next) ==
  /\ files.temporary.exists
  /\ files' = [temporary |-> Absent, published |-> files.temporary]
  /\ writer' = [Renamed(writer, Moved) EXCEPT ![t] = next]

RenameRefused(t, next) ==
  /\ ~files.temporary.exists \/ "rename" \in job.faults
  /\ writer' = [writer EXCEPT ![t] = next]
  /\ UNCHANGED files

\* Mutant: the published file is always removed before the rename.
RenameAfterRemoving(t) ==
  /\ At(t, "rename")
  /\ writer' = [writer EXCEPT ![t].at = "remove"]
  /\ UNCHANGED files

Rename(t) ==
  /\ At(t, "rename")
  /\ \/ Publish(t, Idle)
     \/ RenameRefused(t, [writer[t] EXCEPT !.at = "remove"])

Remove(t) ==
  /\ At(t, "remove")
  /\ files' = [files EXCEPT !.published = Absent]
  /\ writer' = [Renamed(writer, Unlinked) EXCEPT ![t].at = "again"]

RenameAgain(t) ==
  /\ At(t, "again")
  /\ Publish(t, Idle) \/ RenameRefused(t, Idle)

UpdateStep(t) ==
  /\ Open(t) \/ Write(t) \/ Rename(t) \/ Remove(t) \/ RenameAgain(t)
  /\ UNCHANGED <<job, step, snapshot, done, beat>>

-----------------------------------------------------------------------------
(***************************************************************************)
(* The main thread                                                         *)
(***************************************************************************)
Doing(op) ==
  /\ writer["main"] = Idle
  /\ step <= Len(job.steps)
  /\ job.steps[step].op = op

MainUpdate ==
  /\ Doing("update")
  /\ Begin("main", Document(job.steps[step].stage, step, job.steps[step].size))
  /\ step' = step + 1
  /\ UNCHANGED <<job, snapshot, done, beat, files>>

StartHeartbeat ==
  /\ Doing("start")
  /\ snapshot' = step
  /\ done' = FALSE
  /\ beat' = "loop"
  /\ step' = step + 1
  /\ UNCHANGED <<job, writer, files>>

\* The search reports its progress through the snapshot.
SearchStep ==
  /\ Doing("search")
  /\ snapshot' = step
  /\ step' = step + 1
  /\ UNCHANGED <<job, done, beat, writer, files>>

\* Mutant: the guard waits for the thread without asking it to stop.
RequestNothing ==
  /\ Doing("drop")
  /\ ~done
  /\ UNCHANGED vars

RequestStop ==
  /\ Doing("drop")
  /\ ~done
  /\ done' = TRUE
  /\ UNCHANGED <<job, step, snapshot, beat, writer, files>>

\* Mutant: the guard asks the thread to stop and does not wait.
DetachHeartbeat ==
  /\ Doing("drop")
  /\ done
  /\ step' = step + 1
  /\ UNCHANGED <<job, snapshot, done, beat, writer, files>>

Join ==
  /\ Doing("drop")
  /\ done
  /\ beat = "exited"
  /\ step' = step + 1
  /\ UNCHANGED <<job, snapshot, done, beat, writer, files>>

Main == MainUpdate \/ StartHeartbeat \/ SearchStep \/ RequestStop \/ Join
          \/ UpdateStep("main")

-----------------------------------------------------------------------------
(***************************************************************************)
(* The heartbeat thread                                                    *)
(***************************************************************************)
LoopTest ==
  /\ beat = "loop"
  /\ writer["beat"] = Idle
  /\ beat' = IF done THEN "exited" ELSE "sleep"
  /\ UNCHANGED <<job, step, snapshot, done, writer, files>>

Wake ==
  /\ beat = "sleep"
  /\ beat' = IF done THEN "exited" ELSE "woken"
  /\ UNCHANGED <<job, step, snapshot, done, writer, files>>

\* The stage is the one the heartbeat was started for.
BeatStage == LET starts == {i \in 1..snapshot : job.steps[i].op = "start"}
                 latest == CHOOSE i \in starts : \A j \in starts : j <= i
             IN job.steps[latest].stage

ReportSnapshot ==
  /\ beat = "woken"
  /\ Begin("beat", Document(BeatStage, snapshot, 2))
  /\ beat' = "loop"
  /\ UNCHANGED <<job, step, snapshot, done, files>>

Heartbeat == LoopTest \/ Wake \/ ReportSnapshot \/ UpdateStep("beat")

Next == Main \/ Heartbeat

\* The operating system schedules both threads, and a sleep ends.
Fairness == WF_vars(Main) /\ WF_vars(Heartbeat)

Spec == Init /\ [][Next]_vars /\ Fairness

-----------------------------------------------------------------------------
\* A heartbeat has been started and not dropped before operation i.
Beating(steps, i) ==
  \E start \in 1..(i - 1) :
    /\ steps[start].op = "start"
    /\ \A later \in (start + 1)..(i - 1) : steps[later].op # "drop"

\* The commands that drop a heartbeat before they report again themselves, and
\* report "completed" in the end.
Guarded(j) ==
  /\ j.steps \in Seq([op : {"update", "start", "search", "drop"},
                     stage : STRING, size : Nat])
  /\ \A i \in DOMAIN j.steps :
       /\ j.steps[i].op \in {"update", "start"} => ~Beating(j.steps, i)
       /\ j.steps[i].op \in {"search", "drop"} => Beating(j.steps, i)
       /\ j.steps[i].op = "update" => j.steps[i].size > 0
  /\ j.steps # <<>>
  /\ j.steps[Len(j.steps)].op = "update"
  /\ j.steps[Len(j.steps)].stage = "completed"

Published == files.published

Rank(file) == IF file.cells = <<>> THEN 0 ELSE file.cells[1].rank

\* A reader of the progress file never sees a torn, mixed or empty document.
PublishedIsWhole == Published.exists => Whole(Published.cells)

\* Replacement is atomic: where renaming works, a published file never goes
\* missing.
NeverMissing ==
  [][Published.exists /\ "rename" \notin job.faults => Published'.exists]_vars

\* The published progress never runs backwards: no late heartbeat overwrites
\* what the main thread reported after the search.
ProgressIsMonotone ==
  [][(Published.exists /\ Published'.exists) =>
       Rank(Published) <= Rank(Published')]_vars

Promised ==
  INSTANCE ProgressFile
    WITH contents <- [there |-> Published.exists,
                      whole |-> Published.exists => Whole(Published.cells),
                      rank  |-> Rank(Published)],
         mayVanish <- "rename" \in job.faults

\* Two threads, one temporary name and whatever fails in between: a reader of
\* the published file sees no more than the promise of ProgressFile allows.
KeepsPromise == Promised!Spec

\* What remains when the command has returned is its "completed" document, if
\* nothing could fail.
EndsCompleted ==
  Ended /\ job.faults = {} => /\ Whole(Published.cells)
           /\ Published.cells[1].stage = "completed"

\* Reporting is best effort: no failed write or rename, and no heartbeat that is
\* asleep or writing, keeps the command from returning.
CommandReturns == <>Ended

\* The files and threads are well-formed and the published file is whole.
SidecarSound == TypeOK /\ PublishedIsWhole
=============================================================================
