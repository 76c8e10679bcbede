------------------------ MODULE ProgressSidecar_proofs ------------------------
(***************************************************************************)
(* A command that drops its heartbeat before it reports again itself       *)
(* publishes only whole documents, never an earlier one after a later one, *)
(* and loses the file only where renaming fails, whatever the command is   *)
(* and however its two threads and the failures interleave.                *)
(*                                                                         *)
(* Why: both threads write through one temporary file, but they take turns.*)
(* While the heartbeat is Beating the main thread writes nothing, and once *)
(* it has been joined the heartbeat writes nothing.  So the file a thread  *)
(* renames holds the document this thread has written into it.             *)
(***************************************************************************)
EXTENDS ProgressSidecar, TLAPS

IsDocument(d) == d.rank \in Nat /\ d.size \in Nat \ {0}

Filled(d) == [exists |-> TRUE, cells |-> [i \in 1..d.size |-> d]]

Now == Beating(job.steps, step)

\* A thread that is in `update`: what it has done to the temporary file.
InUpdate(t) ==
  /\ writer[t] = [at |-> writer[t].at, doc |-> writer[t].doc, fd |-> writer[t].fd]
  /\ IsDocument(writer[t].doc)
  /\ \/ At(t, "open") /\ writer[t].fd = "none"
     \/ /\ At(t, "write")
        /\ writer[t].fd = "temporary"
        /\ files.temporary = [exists |-> TRUE, cells |-> <<>>]
     \/ /\ writer[t].at \in {"rename", "remove", "again"}
        /\ writer[t].fd = "none"
        /\ files.temporary = Filled(writer[t].doc)
        /\ At(t, "rename") \/ "rename" \in job.faults

Shaped ==
  /\ job \in Jobs
  /\ step \in 1..(Len(job.steps) + 1)
  /\ snapshot \in 0..(step - 1)
  /\ done \in BOOLEAN
  /\ DOMAIN writer = Threads
  /\ files = [temporary |-> files.temporary, published |-> files.published]
  /\ files.temporary = Absent \/ files.temporary.exists = TRUE

\* The two threads take turns.
Turns ==
  /\ beat \in {"none", "exited"} \/ (Now /\ beat \in {"loop", "sleep", "woken"})
  /\ writer["beat"] # Idle => beat = "loop"
  /\ writer["main"] # Idle => ~Now

Written ==
  /\ \A t \in Threads : writer[t] = Idle \/ InUpdate(t)
  /\ writer["main"] # Idle =>
       /\ step > 1
       /\ job.steps[step - 1].op = "update"
       /\ writer["main"].doc.rank = step - 1
       /\ writer["main"].doc.stage = job.steps[step - 1].stage
  /\ writer["beat"] # Idle => writer["beat"].doc.rank <= snapshot

\* What is published is older than anything that may still be.
OfRank(file, rank) ==
  file = Absent \/ \E d : IsDocument(d) /\ d.rank <= rank /\ file = Filled(d)

PublishedIsOld ==
  /\ OfRank(files.published, step - 1)
  /\ Now => OfRank(files.published, snapshot)
  /\ \A t \in Threads : writer[t] # Idle => OfRank(files.published, writer[t].doc.rank)

\* After an update nothing can disturb, its document is the published one.
UpdateIsPublished ==
  (job.faults = {} /\ writer["main"] = Idle /\ step > 1) =>
    (job.steps[step - 1].op = "update" =>
       \E d : /\ IsDocument(d)
              /\ d.stage = job.steps[step - 1].stage
              /\ files.published = Filled(d))

IInv == Shaped /\ Turns /\ Written /\ PublishedIsOld /\ UpdateIsPublished

AllGuarded == \A j \in Jobs : Guarded(j)

-----------------------------------------------------------------------------
\* How an operation of the main thread changes whose turn it is.
LEMMA TurnAfter ==
  ASSUME NEW j, Guarded(j), NEW i \in DOMAIN j.steps
  PROVE  /\ i \in Nat /\ i + 1 \in 1..(Len(j.steps) + 1)
         /\ j.steps[i].op = "start" => ~Beating(j.steps, i) /\ Beating(j.steps, i + 1)
         /\ j.steps[i].op = "drop" => Beating(j.steps, i) /\ ~Beating(j.steps, i + 1)
         /\ j.steps[i].op = "update" => ~Beating(j.steps, i) /\ ~Beating(j.steps, i + 1)
         /\ j.steps[i].op = "search" => Beating(j.steps, i) /\ Beating(j.steps, i + 1)
<1> DEFINE s == j.steps
<1>1. s \in Seq([op : {"update", "start", "search", "drop"}, stage : STRING, size : Nat])
  BY DEF Guarded
<1>2. DOMAIN s = 1..Len(s) /\ Len(s) \in Nat /\ i \in 1..Len(s)
  BY <1>1
<1>3. /\ s[i].op \in {"update", "start"} => ~Beating(s, i)
      /\ s[i].op \in {"search", "drop"} => Beating(s, i)
  BY DEF Guarded
<1> HIDE DEF s
<1>4. s[i].op = "start" => Beating(s, i + 1)
  <2> SUFFICES ASSUME s[i].op = "start" PROVE Beating(s, i + 1)
    OBVIOUS
  <2>1. i \in 1..((i + 1) - 1) /\ (i + 1)..((i + 1) - 1) = {}
    BY <1>2
  <2> QED
    BY <2>1 DEF Beating
<1>5. s[i].op # "start" => (Beating(s, i + 1) <=> Beating(s, i) /\ s[i].op # "drop")
  <2> SUFFICES ASSUME s[i].op # "start"
               PROVE  Beating(s, i + 1) <=> Beating(s, i) /\ s[i].op # "drop"
    OBVIOUS
  <2>1. (i + 1) - 1 = i /\ 1..i = (1..(i - 1)) \cup {i}
    BY <1>2
  <2>2. \A b \in 1..(i - 1) : (b + 1)..i = ((b + 1)..(i - 1)) \cup {i}
    BY <1>2
  <2> QED
    BY <2>1, <2>2 DEF Beating
<1> QED
  BY <1>2, <1>3, <1>4, <1>5 DEF s

LEMMA QuietAtFirst == ASSUME NEW steps PROVE ~Beating(steps, 1)
BY DEF Beating

\* Whoever is in `update` is there alone.
LEMMA Alone ==
  ASSUME IInv, NEW t \in Threads, writer[t] # Idle
  PROVE  /\ InUpdate(t)
         /\ \A u \in Threads \ {t} : writer[u] = Idle
         /\ t = "beat" => Now /\ beat = "loop"
         /\ t = "main" => ~Now
<1>1. InUpdate(t)
  BY DEF IInv, Written
<1>2. /\ writer["beat"] # Idle => beat = "loop" /\ Now
      /\ writer["main"] # Idle => ~Now
  BY DEF IInv, Turns
<1> QED
  BY <1>1, <1>2 DEF Threads

\* A step of `update` keeps the invariant when the thread keeps its document,
\* and publishes nothing else.
LEMMA UpdatePreserves ==
  ASSUME AllGuarded, IInv, NEW t \in Threads, writer[t] # Idle,
         UNCHANGED <<job, step, snapshot, done, beat>>,
         DOMAIN writer' = Threads,
         \A u \in Threads \ {t} : writer'[u] = Idle,
         writer'[t] = Idle \/ (InUpdate(t)' /\ writer'[t].doc = writer[t].doc),
         files' = [temporary |-> files'.temporary, published |-> files'.published],
         files'.temporary = Absent \/ files'.temporary.exists = TRUE,
         files'.published \in {files.published, Absent, Filled(writer[t].doc)},
         (job.faults = {} /\ writer'[t] = Idle) =>
            files'.published = Filled(writer[t].doc)
  PROVE  IInv'
<1>1. /\ InUpdate(t)
      /\ \A u \in Threads \ {t} : writer[u] = Idle
      /\ t = "beat" => Now /\ beat = "loop"
      /\ t = "main" => ~Now
  BY Alone
<1>2. Now' <=> Now
  BY DEF Now
<1>3. Shaped'
  BY DEF IInv, Shaped
<1>4. Turns'
  BY <1>1, <1>2 DEF IInv, Turns, Threads
<1>5. Written'
  <2>1. \A u \in Threads : (writer[u] = Idle \/ InUpdate(u))'
    OBVIOUS
  <2> QED
    BY <2>1 DEF IInv, Written, Threads
<1>6. IsDocument(writer[t].doc)
  BY <1>1 DEF InUpdate
<1>7. /\ writer[t].doc.rank <= step - 1
      /\ Now => writer[t].doc.rank <= snapshot
  <2>1. step \in Int /\ snapshot \in Int /\ snapshot <= step - 1
        /\ writer[t].doc.rank \in Int
    BY <1>6 DEF IInv, Shaped, IsDocument
  <2>2. CASE t = "main"
    BY <1>1, <2>1, <2>2 DEF IInv, Written
  <2>3. CASE t = "beat"
    BY <1>1, <2>1, <2>3 DEF IInv, Written
  <2> QED
    BY <2>2, <2>3 DEF Threads
<1>8. ASSUME NEW rank, OfRank(files.published, rank), writer[t].doc.rank <= rank
      PROVE  OfRank(files'.published, rank)
  BY <1>6, <1>8 DEF OfRank
<1>9. PublishedIsOld'
  <2>1. /\ OfRank(files.published, step - 1)
        /\ Now => OfRank(files.published, snapshot)
        /\ OfRank(files.published, writer[t].doc.rank)
    BY DEF IInv, PublishedIsOld
  <2>2. writer[t].doc.rank <= writer[t].doc.rank
    BY <1>6 DEF IsDocument
  <2>3. OfRank(files'.published, writer[t].doc.rank)
    BY <1>8, <2>1, <2>2
  <2>4. OfRank(files'.published, step - 1) /\ (Now => OfRank(files'.published, snapshot))
    BY <1>7, <1>8, <2>1
  <2> QED
    BY <1>2, <2>3, <2>4 DEF PublishedIsOld
<1>10. UpdateIsPublished'
  <2> SUFFICES ASSUME job.faults = {}, writer'["main"] = Idle, step > 1,
                      job.steps[step - 1].op = "update"
               PROVE  \E d : /\ IsDocument(d)
                             /\ d.stage = job.steps[step - 1].stage
                             /\ files'.published = Filled(d)
    BY DEF UpdateIsPublished
  <2>1. CASE t = "main"
    <3>1. files'.published = Filled(writer[t].doc)
      BY <2>1
    <3>2. writer[t].doc.stage = job.steps[step - 1].stage
      BY <2>1 DEF IInv, Written
    <3> QED
      BY <1>6, <3>1, <3>2
  <2>2. CASE t = "beat"
    \* It is the heartbeat's turn, so the last operation was not an update.
    <3>1. Now
      BY <1>1, <2>2
    <3>2. job \in Jobs /\ step - 1 \in 1..Len(job.steps) /\ (step - 1) + 1 = step
      BY DEF IInv, Shaped
    <3>3. Guarded(job) /\ DOMAIN job.steps = 1..Len(job.steps)
      BY <3>2 DEF AllGuarded, Guarded
    <3>4. ~Beating(job.steps, step)
      BY <3>2, <3>3, TurnAfter
    <3> QED
      BY <3>1, <3>4 DEF Now
  <2> QED
    BY <2>1, <2>2 DEF Threads
<1> QED
  BY <1>3, <1>4, <1>5, <1>9, <1>10 DEF IInv

-----------------------------------------------------------------------------
\* What a thread in `update` knows, spelt out for its steps.
LEMMA UpdaterIs ==
  ASSUME IInv, NEW t \in Threads, writer[t] # Idle
  PROVE  /\ DOMAIN writer = Threads
         /\ \E at, d, fd : writer[t] = [at |-> at, doc |-> d, fd |-> fd]
         /\ \A u \in Threads \ {t} : writer[u] = Idle
         /\ IsDocument(writer[t].doc)
         /\ files = [temporary |-> files.temporary, published |-> files.published]
         /\ files.temporary = Absent \/ files.temporary.exists = TRUE
         /\ files.published = Absent \/ files.published.exists = TRUE
         /\ At(t, "open") => writer[t].fd = "none"
         /\ At(t, "write") => /\ writer[t].fd = "temporary"
                              /\ files.temporary = [exists |-> TRUE, cells |-> <<>>]
         /\ writer[t].at \in {"rename", "remove", "again"} =>
              /\ writer[t].fd = "none"
              /\ files.temporary = Filled(writer[t].doc)
              /\ files.temporary.exists = TRUE
              /\ At(t, "rename") \/ "rename" \in job.faults
<1>1. InUpdate(t) /\ \A u \in Threads \ {t} : writer[u] = Idle
  BY Alone
<1>2. files.published = Absent \/ files.published.exists = TRUE
  <2>1. OfRank(files.published, step - 1)
    BY DEF IInv, PublishedIsOld
  <2>2. \A d : Filled(d).exists = TRUE
    BY DEF Filled
  <2> QED
    BY <2>1, <2>2 DEF OfRank
<1>3. /\ DOMAIN writer = Threads
      /\ files = [temporary |-> files.temporary, published |-> files.published]
      /\ files.temporary = Absent \/ files.temporary.exists = TRUE
  BY DEF IInv, Shaped
<1>4. \E at, d, fd : writer[t] = [at |-> at, doc |-> d, fd |-> fd]
  BY <1>1 DEF InUpdate
<1>5. Filled(writer[t].doc).exists = TRUE
  BY DEF Filled
<1> QED
  BY <1>1, <1>2, <1>3, <1>4, <1>5 DEF InUpdate, At

\* A document overwrites an empty file from its first to its last cell.
LEMMA OverwrittenFills ==
  ASSUME NEW d, IsDocument(d)
  PROVE  Overwritten(<<>>, d, d.size) = [i \in 1..d.size |-> d]
BY DEF Overwritten, IsDocument

LEMMA OpenIInv ==
  ASSUME AllGuarded, IInv, NEW t \in Threads, Open(t),
         UNCHANGED <<job, step, snapshot, done, beat>>
  PROVE  IInv'
<1>1. At(t, "open") /\ writer[t] # Idle
  BY DEF Open, At, Idle
<1>2. /\ DOMAIN writer = Threads
      /\ \E at, d, fd : writer[t] = [at |-> at, doc |-> d, fd |-> fd]
      /\ \A u \in Threads \ {t} : writer[u] = Idle
      /\ IsDocument(writer[t].doc)
      /\ files = [temporary |-> files.temporary, published |-> files.published]
      /\ files.temporary = Absent \/ files.temporary.exists = TRUE
  BY <1>1, UpdaterIs
<1>3. CASE /\ files' = [files EXCEPT !.temporary = [exists |-> TRUE, cells |-> <<>>]]
           /\ writer' = [writer EXCEPT ![t].at = "write", ![t].fd = "temporary"]
  <2>1. /\ files' = [temporary |-> [exists |-> TRUE, cells |-> <<>>],
                     published |-> files.published]
        /\ DOMAIN writer' = Threads
        /\ \A u \in Threads \ {t} : writer'[u] = Idle
        /\ writer'[t] = [at |-> "write", doc |-> writer[t].doc, fd |-> "temporary"]
    BY <1>2, <1>3
  <2>2. InUpdate(t)' /\ writer'[t].doc = writer[t].doc /\ writer'[t] # Idle
    BY <1>2, <2>1 DEF InUpdate, At, Idle
  <2> QED
    BY <1>1, <2>1, <2>2, UpdatePreserves
<1>4. CASE "write" \in job.faults /\ writer' = [writer EXCEPT ![t] = Idle] /\ UNCHANGED files
  BY <1>1, <1>2, <1>4, UpdatePreserves
<1> QED
  BY <1>3, <1>4 DEF Open

LEMMA WriteIInv ==
  ASSUME AllGuarded, IInv, NEW t \in Threads, Write(t),
         UNCHANGED <<job, step, snapshot, done, beat>>
  PROVE  IInv'
<1>1. At(t, "write") /\ writer[t] # Idle
  BY DEF Write, At, Idle
<1>2. /\ DOMAIN writer = Threads
      /\ \E at, d, fd : writer[t] = [at |-> at, doc |-> d, fd |-> fd]
      /\ \A u \in Threads \ {t} : writer[u] = Idle
      /\ IsDocument(writer[t].doc)
      /\ files = [temporary |-> files.temporary, published |-> files.published]
      /\ writer[t].fd = "temporary"
      /\ files.temporary = [exists |-> TRUE, cells |-> <<>>]
  BY <1>1, UpdaterIs
<1>3. ASSUME NEW count, WriteCells(t, count)
      PROVE  files' = [temporary |-> [exists |-> TRUE,
                                      cells |-> Overwritten(<<>>, writer[t].doc, count)],
                       published |-> files.published]
  <2> DEFINE empty == [exists |-> TRUE, cells |-> <<>>]
             new == Overwritten(<<>>, writer[t].doc, count)
  <2>1. files = [temporary |-> empty, published |-> files.published]
    BY <1>2
  <2>2. files' = [files EXCEPT !["temporary"] =
                    [exists |-> TRUE,
                     cells |-> Overwritten(files["temporary"].cells, writer[t].doc, count)]]
    BY <1>2, <1>3 DEF WriteCells
  <2>3. files["temporary"].cells = <<>>
    BY <2>1
  <2>4. files' = [files EXCEPT !["temporary"] = [exists |-> TRUE, cells |-> new]]
    BY <2>2, <2>3
  <2> HIDE DEF new
  <2>5. files' = [temporary |-> [exists |-> TRUE, cells |-> new],
                  published |-> files.published]
    BY <2>1, <2>4
  <2> QED
    BY <2>5 DEF new
<1>4. CASE /\ WriteCells(t, writer[t].doc.size)
           /\ writer' = [writer EXCEPT ![t].at = "rename", ![t].fd = "none"]
  <2>1. files' = [temporary |-> Filled(writer[t].doc), published |-> files.published]
    BY <1>2, <1>3, <1>4, OverwrittenFills DEF Filled
  <2>2. /\ DOMAIN writer' = Threads
        /\ \A u \in Threads \ {t} : writer'[u] = Idle
        /\ writer'[t] = [at |-> "rename", doc |-> writer[t].doc, fd |-> "none"]
    BY <1>2, <1>4
  <2>3. InUpdate(t)' /\ writer'[t].doc = writer[t].doc /\ writer'[t] # Idle
    BY <1>2, <2>1, <2>2 DEF InUpdate, At, Idle
  <2>4. files'.temporary.exists = TRUE
    BY <2>1 DEF Filled
  <2> QED
    BY <1>1, <2>1, <2>2, <2>3, <2>4, UpdatePreserves
<1>5. CASE /\ "write" \in job.faults
           /\ \E count \in 0..(writer[t].doc.size - 1) : WriteCells(t, count)
           /\ writer' = [writer EXCEPT ![t] = Idle]
  <2>1. PICK count \in 0..(writer[t].doc.size - 1) : WriteCells(t, count)
    BY <1>5
  <2>2. files' = [temporary |-> [exists |-> TRUE,
                                 cells |-> Overwritten(<<>>, writer[t].doc, count)],
                  published |-> files.published]
    BY <1>3, <2>1
  <2> QED
    BY <1>1, <1>2, <1>5, <2>2, UpdatePreserves
<1> QED
  BY <1>4, <1>5 DEF Write

\* Publishing moves a whole document to the published name.
LEMMA PublishIInv ==
  ASSUME AllGuarded, IInv, NEW t \in Threads, writer[t].at \in {"rename", "again"},
         Publish(t, Idle), UNCHANGED <<job, step, snapshot, done, beat>>
  PROVE  IInv'
<1>1. writer[t] # Idle
  BY DEF Idle
<1>2. /\ DOMAIN writer = Threads
      /\ \A u \in Threads \ {t} : writer[u] = Idle
      /\ files.temporary = Filled(writer[t].doc)
  BY <1>1, UpdaterIs
<1>3. files' = [temporary |-> Absent, published |-> Filled(writer[t].doc)]
  BY <1>2 DEF Publish
<1>4. /\ DOMAIN writer' = Threads
      /\ writer'[t] = Idle
      /\ \A u \in Threads \ {t} : writer'[u] = Idle
  BY <1>2 DEF Publish, Renamed, Moved, Unlinked, Idle
<1> QED
  BY <1>1, <1>3, <1>4, UpdatePreserves

LEMMA RenameIInv ==
  ASSUME AllGuarded, IInv, NEW t \in Threads, Rename(t),
         UNCHANGED <<job, step, snapshot, done, beat>>
  PROVE  IInv'
<1>1. At(t, "rename") /\ writer[t] # Idle
  BY DEF Rename, At, Idle
<1>2. CASE Publish(t, Idle)
  BY <1>1, <1>2, PublishIInv DEF At
<1>3. CASE RenameRefused(t, [writer[t] EXCEPT !.at = "remove"])
  <2>1. /\ DOMAIN writer = Threads
        /\ \E at, d, fd : writer[t] = [at |-> at, doc |-> d, fd |-> fd]
        /\ \A u \in Threads \ {t} : writer[u] = Idle
        /\ IsDocument(writer[t].doc)
        /\ files = [temporary |-> files.temporary, published |-> files.published]
        /\ files.temporary = Filled(writer[t].doc)
        /\ files.temporary.exists = TRUE
        /\ writer[t].fd = "none"
    BY <1>1, UpdaterIs DEF At
  <2>2. "rename" \in job.faults /\ UNCHANGED files
    BY <1>3, <2>1 DEF RenameRefused
  <2>3. /\ DOMAIN writer' = Threads
        /\ \A u \in Threads \ {t} : writer'[u] = Idle
        /\ writer'[t] = [at |-> "remove", doc |-> writer[t].doc, fd |-> "none"]
    BY <1>3, <2>1 DEF RenameRefused
  <2>4. InUpdate(t)' /\ writer'[t].doc = writer[t].doc /\ writer'[t] # Idle
    BY <2>1, <2>2, <2>3 DEF InUpdate, At, Idle
  <2> QED
    BY <1>1, <2>1, <2>2, <2>3, <2>4, UpdatePreserves
<1> QED
  BY <1>2, <1>3 DEF Rename

\* The published file is removed only where a rename has failed.
LEMMA RemoveIInv ==
  ASSUME AllGuarded, IInv, NEW t \in Threads, Remove(t),
         UNCHANGED <<job, step, snapshot, done, beat>>
  PROVE  IInv'
<1>1. At(t, "remove") /\ writer[t] # Idle
  BY DEF Remove, At, Idle
<1>2. /\ DOMAIN writer = Threads
      /\ \E at, d, fd : writer[t] = [at |-> at, doc |-> d, fd |-> fd]
      /\ \A u \in Threads \ {t} : writer[u] = Idle
      /\ IsDocument(writer[t].doc)
      /\ files = [temporary |-> files.temporary, published |-> files.published]
      /\ files.temporary = Filled(writer[t].doc)
      /\ files.temporary.exists = TRUE
      /\ writer[t].fd = "none"
      /\ "rename" \in job.faults
  BY <1>1, UpdaterIs DEF At
<1>3. files' = [temporary |-> files.temporary, published |-> Absent]
  BY <1>2 DEF Remove
<1>4. /\ DOMAIN writer' = Threads
      /\ \A u \in Threads \ {t} : writer'[u] = Idle
      /\ writer'[t] = [at |-> "again", doc |-> writer[t].doc, fd |-> "none"]
  <2>1. writer' = [Renamed(writer, Unlinked) EXCEPT ![t].at = "again"]
    BY DEF Remove
  <2>2. PICK at, d, fd : writer[t] = [at |-> at, doc |-> d, fd |-> fd]
    BY <1>2
  <2>3. Renamed(writer, Unlinked)[t] = [at |-> at, doc |-> d, fd |-> "none"]
    BY <1>2, <2>2 DEF Renamed, Unlinked
  <2>4. \A u \in Threads \ {t} : Renamed(writer, Unlinked)[u] = Idle
    BY <1>2 DEF Renamed, Unlinked, Idle
  <2>5. DOMAIN Renamed(writer, Unlinked) = Threads
    BY DEF Renamed
  <2> HIDE DEF Renamed
  <2> QED
    BY <2>1, <2>2, <2>3, <2>4, <2>5
<1>5. InUpdate(t)' /\ writer'[t].doc = writer[t].doc /\ writer'[t] # Idle
  BY <1>2, <1>3, <1>4 DEF InUpdate, At, Idle
<1> QED
  BY <1>1, <1>2, <1>3, <1>4, <1>5, UpdatePreserves

LEMMA RenameAgainIInv ==
  ASSUME AllGuarded, IInv, NEW t \in Threads, RenameAgain(t),
         UNCHANGED <<job, step, snapshot, done, beat>>
  PROVE  IInv'
<1>1. At(t, "again") /\ writer[t] # Idle
  BY DEF RenameAgain, At, Idle
<1>2. CASE Publish(t, Idle)
  BY <1>1, <1>2, PublishIInv DEF At
<1>3. CASE RenameRefused(t, Idle)
  <2>1. /\ DOMAIN writer = Threads
        /\ \A u \in Threads \ {t} : writer[u] = Idle
        /\ files = [temporary |-> files.temporary, published |-> files.published]
        /\ files.temporary = Absent \/ files.temporary.exists = TRUE
        /\ "rename" \in job.faults
    BY <1>1, UpdaterIs DEF At
  <2>2. /\ UNCHANGED files
        /\ DOMAIN writer' = Threads
        /\ writer'[t] = Idle
        /\ \A u \in Threads \ {t} : writer'[u] = Idle
    BY <1>3, <2>1 DEF RenameRefused
  <2> QED
    BY <1>1, <2>1, <2>2, UpdatePreserves
<1> QED
  BY <1>2, <1>3 DEF RenameAgain

LEMMA UpdateStepIInv ==
  ASSUME AllGuarded, IInv, NEW t \in Threads, UpdateStep(t)
  PROVE  IInv'
BY OpenIInv, WriteIInv, RenameIInv, RemoveIInv, RenameAgainIInv DEF UpdateStep

-----------------------------------------------------------------------------
\* The operation the main thread is at, and whose turn it is before and after.
LEMMA DoingIs ==
  ASSUME AllGuarded, IInv, NEW op, Doing(op)
  PROVE  /\ step \in DOMAIN job.steps /\ step \in Nat /\ step > 0
         /\ step + 1 \in 1..(Len(job.steps) + 1)
         /\ job.steps[step].op = op
         /\ writer["main"] = Idle
         /\ op = "start" => ~Now /\ Beating(job.steps, step + 1)
         /\ op = "drop" => Now /\ ~Beating(job.steps, step + 1)
         /\ op = "update" => ~Now /\ ~Beating(job.steps, step + 1)
         /\ op = "search" => Now /\ Beating(job.steps, step + 1)
         /\ op = "update" => job.steps[step].size \in Nat \ {0}
<1>1. job \in Jobs /\ step \in 1..(Len(job.steps) + 1) /\ step <= Len(job.steps)
  BY DEF IInv, Shaped, Doing
<1>2. Guarded(job)
  BY <1>1 DEF AllGuarded
<1>3. /\ job.steps \in Seq([op : {"update", "start", "search", "drop"},
                            stage : STRING, size : Nat])
      /\ \A i \in DOMAIN job.steps :
           job.steps[i].op = "update" => job.steps[i].size > 0
  BY <1>2 DEF Guarded
<1>4. DOMAIN job.steps = 1..Len(job.steps) /\ Len(job.steps) \in Nat
  BY <1>3
<1>5. step \in DOMAIN job.steps /\ step \in Nat /\ step > 0
  BY <1>1, <1>4
<1>6. op = "update" => job.steps[step].size \in Nat \ {0}
  <2>1. job.steps[step] \in [op : {"update", "start", "search", "drop"},
                             stage : STRING, size : Nat]
    <3> DEFINE S == [op : {"update", "start", "search", "drop"},
                     stage : STRING, size : Nat]
    <3> HIDE DEF S
    <3>1. job.steps \in Seq(S)
      BY <1>3 DEF S
    <3>2. job.steps[step] \in S
      BY <1>4, <1>5, <3>1
    <3> QED
      BY <3>2 DEF S
  <2>2. op = "update" => job.steps[step].size > 0
    BY <1>3, <1>5 DEF Doing
  <2> QED
    BY <2>1, <2>2
<1>7. job.steps[step].op = op /\ writer["main"] = Idle
  BY DEF Doing
<1> QED
  BY <1>2, <1>5, <1>6, <1>7, TurnAfter DEF Now

LEMMA OfRankGrows ==
  ASSUME NEW file, NEW a \in Int, NEW b \in Int, a <= b, OfRank(file, a)
  PROVE  OfRank(file, b)
BY DEF OfRank, IsDocument

LEMMA Typed == IInv => step \in Nat /\ snapshot \in Nat /\ snapshot <= step - 1
BY DEF IInv, Shaped

LEMMA MainUpdateIInv ==
  ASSUME AllGuarded, IInv, MainUpdate
  PROVE  IInv'
<1> DEFINE d == Document(job.steps[step].stage, step, job.steps[step].size)
<1>1. /\ step \in DOMAIN job.steps /\ step \in Nat /\ step > 0
      /\ step + 1 \in 1..(Len(job.steps) + 1)
      /\ job.steps[step].op = "update"
      /\ writer["main"] = Idle
      /\ ~Now /\ ~Beating(job.steps, step + 1)
      /\ job.steps[step].size \in Nat \ {0}
  BY DoingIs DEF MainUpdate
<1>2. d.rank = step /\ d.stage = job.steps[step].stage /\ IsDocument(d)
  BY <1>1 DEF Document, IsDocument
<1> HIDE DEF d
<1>3. /\ writer' = [writer EXCEPT !["main"] = [at |-> "open", doc |-> d, fd |-> "none"]]
      /\ step' = step + 1
      /\ UNCHANGED <<job, snapshot, done, beat, files>>
  BY DEF MainUpdate, Begin, d
<1>4. DOMAIN writer = Threads /\ writer["beat"] = Idle
  BY <1>1 DEF IInv, Shaped, Turns
<1>5. /\ DOMAIN writer' = Threads
      /\ writer'["beat"] = Idle
      /\ writer'["main"] = [at |-> "open", doc |-> d, fd |-> "none"]
  BY <1>3, <1>4 DEF Threads
<1>6. writer'["main"] # Idle /\ ~Now'
  BY <1>1, <1>3, <1>5 DEF Idle, Now
<1>7. Shaped'
  BY <1>1, <1>3, <1>5 DEF IInv, Shaped
<1>8. Turns'
  BY <1>1, <1>3, <1>5, <1>6 DEF IInv, Turns
<1>9. InUpdate("main")'
  BY <1>2, <1>5 DEF InUpdate, At
<1>10. step' - 1 = step /\ step' > 1
  BY <1>1, <1>3
<1>11. Written'
  BY <1>1, <1>2, <1>3, <1>5, <1>9, <1>10 DEF Written, Threads
<1>12. OfRank(files'.published, step)
  BY <1>1, <1>3, OfRankGrows DEF IInv, PublishedIsOld
<1>13. PublishedIsOld'
  BY <1>2, <1>5, <1>6, <1>10, <1>12 DEF PublishedIsOld, Threads
<1>14. UpdateIsPublished'
  BY <1>6 DEF UpdateIsPublished
<1> QED
  BY <1>7, <1>8, <1>11, <1>13, <1>14 DEF IInv

\* The other operations of the main thread write nothing: they leave a turn
\* that fits the heartbeat's state, and a snapshot no document is ahead of.
LEMMA QuietPreserves ==
  ASSUME AllGuarded, IInv, writer["main"] = Idle, UNCHANGED <<job, writer, files>>,
         \/ step' = step /\ snapshot' = snapshot
         \/ /\ step \in DOMAIN job.steps
            /\ step' = step + 1
            /\ step + 1 \in 1..(Len(job.steps) + 1)
            /\ snapshot' \in {snapshot, step}
            /\ job.steps[step].op # "update"
            /\ Now' => Now \/ snapshot' = step,
         done' \in BOOLEAN,
         beat' \in {"none", "exited"} \/ (Now' /\ beat' \in {"loop", "sleep", "woken"}),
         writer["beat"] # Idle => beat' = "loop"
  PROVE  IInv'
<1>1. step \in Nat /\ snapshot \in Nat /\ snapshot <= step - 1
  BY Typed
<1>2. /\ step' \in Int /\ snapshot' \in Int
      /\ step - 1 <= step' - 1
      /\ snapshot <= snapshot'
      /\ snapshot' \in 0..(step' - 1)
  BY <1>1
<1>3. Shaped'
  BY <1>2 DEF IInv, Shaped
<1>4. Turns'
  BY DEF Turns
<1>5. Written'
  <2>1. \A t \in Threads : (writer[t] = Idle \/ InUpdate(t))'
    BY DEF IInv, Written, InUpdate, At
  <2>2. writer["beat"] # Idle => writer["beat"].doc.rank <= snapshot'
    <3> SUFFICES ASSUME writer["beat"] # Idle PROVE writer["beat"].doc.rank <= snapshot'
      OBVIOUS
    <3>1. writer["beat"].doc.rank \in Nat /\ writer["beat"].doc.rank <= snapshot
      BY DEF IInv, Written, InUpdate, IsDocument, Threads
    <3> QED
      BY <1>1, <1>2, <3>1
  <2> QED
    BY <2>1, <2>2 DEF Written
<1>6. OfRank(files.published, step' - 1)
  BY <1>1, <1>2, OfRankGrows DEF IInv, PublishedIsOld
<1>7. Now' => OfRank(files.published, snapshot')
  <2>1. CASE snapshot' = step
    <3>1. OfRank(files.published, step)
      BY <1>1, OfRankGrows DEF IInv, PublishedIsOld
    <3> QED
      BY <2>1, <3>1
  <2>2. CASE snapshot' # step
    <3>1. Now' => Now
      BY <2>2 DEF Now
    <3> QED
      BY <1>1, <1>2, <3>1, OfRankGrows DEF IInv, PublishedIsOld
  <2> QED
    BY <2>1, <2>2
<1>8. PublishedIsOld'
  BY <1>6, <1>7 DEF IInv, PublishedIsOld
<1>9. UpdateIsPublished'
  <2>1. CASE step' = step
    BY <2>1 DEF IInv, UpdateIsPublished
  <2>2. CASE step' = step + 1
    <3>1. step' - 1 = step /\ job.steps[step].op # "update"
      BY <1>1, <2>2
    <3> QED
      BY <3>1 DEF UpdateIsPublished
  <2> QED
    BY <2>1, <2>2
<1> QED
  BY <1>3, <1>4, <1>5, <1>8, <1>9 DEF IInv

LEMMA MainIInv ==
  ASSUME AllGuarded, IInv, Main
  PROVE  IInv'
<1>1. CASE MainUpdate
  BY <1>1, MainUpdateIInv
<1>2. CASE StartHeartbeat
  <2>1. Doing("start")
    BY <1>2 DEF StartHeartbeat
  <2>2. /\ step \in DOMAIN job.steps /\ step \in Nat
        /\ step + 1 \in 1..(Len(job.steps) + 1)
        /\ job.steps[step].op = "start"
        /\ writer["main"] = Idle
        /\ ~Now /\ Beating(job.steps, step + 1)
    BY <2>1, DoingIs
  <2>3. /\ step' = step + 1 /\ snapshot' = step /\ done' = FALSE /\ beat' = "loop"
        /\ UNCHANGED <<job, writer, files>>
    BY <1>2 DEF StartHeartbeat
  <2>4. Now'
    BY <2>2, <2>3 DEF Now
  <2> QED
    BY <2>2, <2>3, <2>4, QuietPreserves
<1>3. CASE SearchStep
  <2>1. Doing("search")
    BY <1>3 DEF SearchStep
  <2>2. /\ step \in DOMAIN job.steps /\ step \in Nat
        /\ step + 1 \in 1..(Len(job.steps) + 1)
        /\ job.steps[step].op = "search"
        /\ writer["main"] = Idle
        /\ Now /\ Beating(job.steps, step + 1)
    BY <2>1, DoingIs
  <2>3. /\ step' = step + 1 /\ snapshot' = step
        /\ UNCHANGED <<job, done, beat, writer, files>>
    BY <1>3 DEF SearchStep
  <2>4. Now'
    BY <2>2, <2>3 DEF Now
  <2> QED
    BY <2>2, <2>3, <2>4, QuietPreserves DEF IInv, Turns, Shaped
<1>4. CASE RequestStop
  <2>1. Doing("drop")
    BY <1>4 DEF RequestStop
  <2>2. step \in DOMAIN job.steps /\ writer["main"] = Idle
    BY <2>1, DoingIs
  <2>3. done' = TRUE /\ UNCHANGED <<job, step, snapshot, beat, writer, files>>
    BY <1>4 DEF RequestStop
  <2>4. Now' <=> Now
    BY <2>3 DEF Now
  <2> QED
    BY <2>2, <2>3, <2>4, QuietPreserves DEF IInv, Turns
<1>5. CASE Join
  <2>1. Doing("drop") /\ beat = "exited"
    BY <1>5 DEF Join
  <2>2. /\ step \in DOMAIN job.steps
        /\ step + 1 \in 1..(Len(job.steps) + 1)
        /\ job.steps[step].op = "drop"
        /\ writer["main"] = Idle
        /\ Now /\ ~Beating(job.steps, step + 1)
    BY <2>1, DoingIs
  <2>3. step' = step + 1 /\ UNCHANGED <<job, snapshot, done, beat, writer, files>>
    BY <1>5 DEF Join
  <2> QED
    BY <2>1, <2>2, <2>3, QuietPreserves DEF IInv, Turns, Shaped
<1>6. CASE UpdateStep("main")
  BY <1>6, UpdateStepIInv DEF Threads
<1> QED
  BY <1>1, <1>2, <1>3, <1>4, <1>5, <1>6 DEF Main

LEMMA HeartbeatIInv ==
  ASSUME AllGuarded, IInv, Heartbeat
  PROVE  IInv'
<1>1. CASE LoopTest \/ Wake
  <2>1. /\ beat \in {"loop", "sleep"}
        /\ beat' \in {"exited", "sleep", "woken"}
        /\ writer["beat"] = Idle
        /\ UNCHANGED <<job, step, snapshot, done, writer, files>>
    BY <1>1 DEF LoopTest, Wake, IInv, Turns
  <2>2. Now /\ writer["main"] = Idle
    BY <2>1 DEF IInv, Turns
  <2>3. Now'
    BY <2>1, <2>2 DEF Now
  <2> QED
    BY <2>1, <2>2, <2>3, QuietPreserves DEF IInv, Shaped
<1>2. CASE ReportSnapshot
  <2> DEFINE d == Document(BeatStage, snapshot, 2)
  <2>1. /\ beat = "woken" /\ beat' = "loop"
        /\ writer' = [writer EXCEPT !["beat"] = [at |-> "open", doc |-> d, fd |-> "none"]]
        /\ UNCHANGED <<job, step, snapshot, done, files>>
    BY <1>2 DEF ReportSnapshot, Begin
  <2>2. snapshot \in Nat /\ snapshot <= snapshot
    BY Typed
  <2>3. d.rank = snapshot /\ IsDocument(d)
    BY <2>2 DEF Document, IsDocument
  <2> HIDE DEF d
  <2>4. Now /\ writer["main"] = Idle /\ DOMAIN writer = Threads
    BY <2>1 DEF IInv, Turns, Shaped
  <2>5. /\ DOMAIN writer' = Threads
        /\ writer'["main"] = Idle
        /\ writer'["beat"] = [at |-> "open", doc |-> d, fd |-> "none"]
    BY <2>1, <2>4 DEF Threads
  <2>6. Now' /\ writer'["beat"] # Idle
    BY <2>1, <2>4, <2>5 DEF Now, Idle
  <2>7. Shaped'
    BY <2>1, <2>5 DEF IInv, Shaped
  <2>8. Turns'
    BY <2>1, <2>5, <2>6 DEF Turns
  <2>9. InUpdate("beat")'
    BY <2>3, <2>5 DEF InUpdate, At
  <2>10. Written'
    BY <2>1, <2>2, <2>3, <2>5, <2>9 DEF Written, Threads
  <2>11. PublishedIsOld'
    BY <2>1, <2>3, <2>4, <2>5, <2>6 DEF IInv, PublishedIsOld, Threads
  <2>12. UpdateIsPublished'
    BY <2>1, <2>4 DEF IInv, UpdateIsPublished
  <2> QED
    BY <2>7, <2>8, <2>10, <2>11, <2>12 DEF IInv
<1>3. CASE UpdateStep("beat")
  BY <1>3, UpdateStepIInv DEF Threads
<1> QED
  BY <1>1, <1>2, <1>3 DEF Heartbeat

LEMMA InitIInv == ASSUME AllGuarded, Init PROVE IInv
<1>1. job \in Jobs /\ Guarded(job) /\ step = 1
  BY DEF Init, AllGuarded
<1>2. Len(job.steps) \in Nat
  BY <1>1 DEF Guarded
<1>3. ~Now
  BY <1>1, QuietAtFirst DEF Now
<1>4. Shaped
  <2>1. files = [temporary |-> files.temporary, published |-> files.published]
        /\ files.temporary = Absent
    BY DEF Init
  <2>2. step \in 1..(Len(job.steps) + 1) /\ snapshot \in 0..(step - 1)
    BY <1>1, <1>2 DEF Init
  <2> QED
    BY <1>1, <2>1, <2>2 DEF Init, Shaped
<1>5. Turns
  BY <1>3 DEF Init, Turns, Threads
<1>6. Written
  BY DEF Init, Written, Threads
<1>7. PublishedIsOld
  BY <1>3 DEF Init, PublishedIsOld, OfRank, Threads
<1>8. UpdateIsPublished
  BY <1>1 DEF UpdateIsPublished
<1> QED
  BY <1>4, <1>5, <1>6, <1>7, <1>8 DEF IInv

LEMMA NextIInv == AllGuarded /\ IInv /\ [Next]_vars => IInv'
<1> SUFFICES ASSUME AllGuarded, IInv, [Next]_vars PROVE IInv'
  OBVIOUS
<1>1. CASE Main
  BY <1>1, MainIInv
<1>2. CASE Heartbeat
  BY <1>2, HeartbeatIInv
<1>3. CASE UNCHANGED vars
  BY <1>3 DEF vars, IInv, Shaped, Turns, Written, PublishedIsOld, UpdateIsPublished,
              InUpdate, At, Now
<1> QED
  BY <1>1, <1>2, <1>3 DEF Next

\* The turns the two threads take, and what is written when.
THEOREM Invariance == ASSUME AllGuarded PROVE Spec => []IInv
BY InitIInv, NextIInv, PTL DEF Spec

-----------------------------------------------------------------------------
LEMMA WholeWhenFilled ==
  ASSUME NEW d, IsDocument(d)
  PROVE  /\ Filled(d).exists
         /\ Whole(Filled(d).cells)
         /\ Filled(d).cells # <<>>
         /\ Filled(d).cells[1] = d
         /\ Rank(Filled(d)) = d.rank
<1>1. 1 \in 1..d.size /\ d.size \in Nat \ {0}
  BY DEF IsDocument
<1>2. Filled(d).exists = TRUE /\ Filled(d).cells = [i \in 1..d.size |-> d]
  BY DEF Filled
<1>3. Filled(d).cells[1] = d
  BY <1>1, <1>2
<1>4. Filled(d).cells # <<>>
  BY <1>1, <1>2
<1>5. Whole(Filled(d).cells)
  BY <1>2, <1>3, <1>4 DEF Whole
<1> QED
  BY <1>2, <1>3, <1>4, <1>5 DEF Rank

LEMMA PublishedIs ==
  ASSUME IInv
  PROVE  \/ Published = Absent
         \/ \E d : IsDocument(d) /\ Published = Filled(d)
BY DEF IInv, PublishedIsOld, OfRank, Published

LEMMA SoundIfInvariant == AllGuarded /\ IInv => SidecarSound
<1> SUFFICES ASSUME AllGuarded, IInv PROVE SidecarSound
  OBVIOUS
<1>1. PublishedIsWhole
  BY PublishedIs, WholeWhenFilled DEF PublishedIsWhole, Absent
<1>2. ASSUME NEW t \in Threads
      PROVE  /\ writer[t].at \in {"idle", "open", "write", "rename", "remove", "again"}
             /\ writer[t].fd # "none" => writer[t].at = "write"
  <2>1. CASE writer[t] = Idle
    BY <2>1 DEF Idle
  <2>2. CASE InUpdate(t)
    BY <2>2 DEF InUpdate, At
  <2> QED
    BY <2>1, <2>2 DEF IInv, Written
<1>3. files.temporary.exists \/ files.temporary = Absent
  BY DEF IInv, Shaped
<1>4. files.published.exists \/ files.published = Absent
  BY PublishedIs, WholeWhenFilled DEF Published
<1>5. /\ job \in Jobs
      /\ step \in 1..(Len(job.steps) + 1)
      /\ snapshot \in 0..(step - 1)
      /\ done \in BOOLEAN
      /\ beat \in {"none", "loop", "sleep", "woken", "exited"}
  BY DEF IInv, Shaped, Turns
<1>6. Len(job.steps) \in Nat
  BY <1>5 DEF AllGuarded, Guarded
<1>7. snapshot \in 0..Len(job.steps)
  BY <1>5, <1>6
<1> QED
  BY <1>1, <1>2, <1>3, <1>4, <1>5, <1>7 DEF SidecarSound, TypeOK

\* No reader of the progress file of a guarded command ever sees a torn, mixed or
\* empty document, whatever fails and however the two threads interleave.
THEOREM PublishedFileIsWhole == ASSUME AllGuarded PROVE Spec => []SidecarSound
BY Invariance, SoundIfInvariant, PTL

LEMMA EndedIfInvariant == AllGuarded /\ IInv => EndsCompleted
<1> SUFFICES ASSUME AllGuarded, IInv, Ended, job.faults = {}
             PROVE  Whole(Published.cells) /\ Published.cells[1].stage = "completed"
  BY DEF EndsCompleted
<1>1. Guarded(job) /\ step \in 1..(Len(job.steps) + 1)
  BY DEF IInv, Shaped, AllGuarded
<1>2. /\ Len(job.steps) \in Nat \ {0}
      /\ job.steps[Len(job.steps)].op = "update"
      /\ job.steps[Len(job.steps)].stage = "completed"
  BY <1>1 DEF Guarded
<1>3. step > 1 /\ step - 1 = Len(job.steps) /\ writer["main"] = Idle
  BY <1>1, <1>2 DEF Ended
<1>4. PICK d : IsDocument(d) /\ d.stage = "completed" /\ files.published = Filled(d)
  BY <1>2, <1>3 DEF IInv, UpdateIsPublished
<1> QED
  BY <1>4, WholeWhenFilled DEF Published

\* A guarded command that met no failure leaves its "completed" document behind.
THEOREM CompletedIsLast == ASSUME AllGuarded PROVE Spec => []EndsCompleted
BY Invariance, EndedIfInvariant, PTL

-----------------------------------------------------------------------------
(***************************************************************************)
(* The promise of ProgressFile is kept: what a reader sees changes only by *)
(* a replacement that tells of no earlier progress, or vanishes where      *)
(* renaming may fail.                                                      *)
(***************************************************************************)
Seen == [there |-> Published.exists,
         whole |-> Published.exists => Whole(Published.cells),
         rank  |-> Rank(Published)]

LEMMA SeenOf ==
  /\ Published = Absent => Seen = [there |-> FALSE, whole |-> TRUE, rank |-> 0]
  /\ \A d : IsDocument(d) /\ Published = Filled(d) =>
              Seen = [there |-> TRUE, whole |-> TRUE, rank |-> d.rank]
<1>1. Rank(Absent) = 0 /\ Absent.exists = FALSE
  BY DEF Rank, Absent
<1> QED
  BY <1>1, WholeWhenFilled DEF Seen

\* The only steps that change the published file.
LEMMA PublishedChanges ==
  ASSUME AllGuarded, IInv, [Next]_vars
  PROVE  \/ UNCHANGED files.published
         \/ /\ files'.published = Absent
            /\ "rename" \in job.faults
         \/ \E t \in Threads :
              writer[t] # Idle /\ files'.published = Filled(writer[t].doc)
<1>1. files = [temporary |-> files.temporary, published |-> files.published]
  BY DEF IInv, Shaped
<1>2. CASE UNCHANGED files
  BY <1>2
<1>3. ASSUME NEW t \in Threads, UpdateStep(t), files' # files
      PROVE  \/ UNCHANGED files.published
             \/ files'.published = Absent /\ "rename" \in job.faults
             \/ writer[t] # Idle /\ files'.published = Filled(writer[t].doc)
  <2>1. writer[t] # Idle
    BY <1>3 DEF UpdateStep, Open, Write, Rename, Remove, RenameAgain, At, Idle
  <2>2. /\ At(t, "write") => writer[t].fd = "temporary"
        /\ writer[t].at \in {"rename", "remove", "again"} =>
              /\ files.temporary = Filled(writer[t].doc)
              /\ At(t, "rename") \/ "rename" \in job.faults
    BY <2>1, UpdaterIs
  <2>3. CASE Open(t)
    BY <1>1, <1>3, <2>3 DEF Open
  <2>4. CASE Write(t)
    <3>1. \A count : WriteCells(t, count) => UNCHANGED files.published
      BY <1>1, <2>2, <2>4 DEF Write, WriteCells
    <3> QED
      BY <2>4, <3>1 DEF Write
  <2>5. CASE Rename(t)
    BY <1>3, <2>1, <2>2, <2>5 DEF Rename, Publish, RenameRefused, At
  <2>6. CASE Remove(t)
    BY <1>1, <2>2, <2>6 DEF Remove, At
  <2>7. CASE RenameAgain(t)
    BY <1>3, <2>1, <2>2, <2>7 DEF RenameAgain, Publish, RenameRefused, At
  <2> QED
    BY <1>3, <2>3, <2>4, <2>5, <2>6, <2>7 DEF UpdateStep
<1>4. \/ UNCHANGED files
      \/ UpdateStep("main")
      \/ UpdateStep("beat")
  BY DEF Next, Main, Heartbeat, MainUpdate, StartHeartbeat, SearchStep, RequestStop,
         Join, LoopTest, Wake, ReportSnapshot, vars
<1> QED
  BY <1>2, <1>3, <1>4 DEF Threads

\* A published document is never older than the one it replaces.
LEMMA RankGrows ==
  ASSUME AllGuarded, IInv, NEW t \in Threads, writer[t] # Idle
  PROVE  /\ IsDocument(writer[t].doc)
         /\ \A d : IsDocument(d) /\ files.published = Filled(d) => d.rank <= writer[t].doc.rank
<1>1. IsDocument(writer[t].doc)
  BY UpdaterIs
<1>2. OfRank(files.published, writer[t].doc.rank)
  BY DEF IInv, PublishedIsOld
<1>3. ASSUME NEW d, IsDocument(d), files.published = Filled(d)
      PROVE  d.rank <= writer[t].doc.rank
  <2>1. files.published # Absent
    BY <1>3 DEF Filled, Absent
  <2>2. PICK e : IsDocument(e) /\ e.rank <= writer[t].doc.rank /\ files.published = Filled(e)
    BY <1>2, <2>1 DEF OfRank
  <2>3. files.published.cells[1] = d /\ files.published.cells[1] = e
    BY <1>3, <2>2, WholeWhenFilled
  <2> QED
    BY <2>2, <2>3
<1> QED
  BY <1>1, <1>3

LEMMA StepKeepsPromise ==
  ASSUME AllGuarded, IInv, IInv', [Next]_vars
  PROVE  [Promised!Next]_(Promised!vars)
<1>1. UNCHANGED job
  BY DEF Next, Main, Heartbeat, MainUpdate, StartHeartbeat, SearchStep, RequestStop,
         Join, LoopTest, Wake, ReportSnapshot, UpdateStep, vars
<1>2. CASE UNCHANGED files.published
  <2>1. Seen' = Seen
    BY <1>2 DEF Seen, Published, Whole, Rank
  <2> QED
    BY <1>1, <2>1 DEF Promised!vars, Seen
<1>3. CASE files'.published = Absent /\ "rename" \in job.faults
  <2>1. Published' = Absent /\ Rank(Absent) = 0 /\ Absent.exists = FALSE
    BY <1>3 DEF Published, Rank, Absent
  <2>2. Seen' = [there |-> FALSE, whole |-> TRUE, rank |-> 0]
    BY <2>1 DEF Seen
  <2> QED
    BY <1>1, <1>3, <2>2 DEF Promised!Next, Promised!Vanish, Promised!Nothing, Seen
<1>4. ASSUME NEW t \in Threads, writer[t] # Idle, files'.published = Filled(writer[t].doc)
      PROVE  Promised!Next
  <2>1. IsDocument(writer[t].doc)
    BY <1>4, RankGrows
  <2>2. Published' = Filled(writer[t].doc)
    BY <1>4 DEF Published
  <2>3. Seen' = [there |-> TRUE, whole |-> TRUE, rank |-> writer[t].doc.rank]
    BY <2>1, <2>2, WholeWhenFilled DEF Seen
  <2>4. writer[t].doc.rank >= Seen.rank
    <3>1. CASE Published = Absent
      BY <2>1, <3>1, SeenOf DEF IsDocument
    <3>2. ASSUME NEW d, IsDocument(d), Published = Filled(d)
          PROVE  writer[t].doc.rank >= Seen.rank
      <4>1. Seen.rank = d.rank
        BY <3>2, SeenOf
      <4>2. d.rank <= writer[t].doc.rank
        BY <1>4, <3>2, RankGrows DEF Published
      <4> QED
        BY <2>1, <3>2, <4>1, <4>2 DEF IsDocument
    <3> QED
      BY <3>1, <3>2, PublishedIs
  <2>5. Seen'.there /\ Seen'.whole /\ Seen'.rank >= Seen.rank
    BY <2>3, <2>4
  <2> QED
    BY <1>1, <2>5 DEF Promised!Next, Promised!Replace, Seen
<1> QED
  BY <1>2, <1>3, <1>4, PublishedChanges

LEMMA InitKeepsPromise == AllGuarded /\ Init => Promised!Init
<1> SUFFICES ASSUME AllGuarded, Init PROVE Promised!Init
  OBVIOUS
<1>1. Published = Absent
  BY DEF Init, Published
<1>2. Seen = [there |-> FALSE, whole |-> TRUE, rank |-> 0]
  BY <1>1, SeenOf
<1> QED
  BY <1>2 DEF Promised!Init, Promised!Nothing, Seen

\* The sidecar of a guarded command implements the abstract progress file.
THEOREM SidecarKeepsPromise == ASSUME AllGuarded PROVE Spec => KeepsPromise
<1>1. Init => Promised!Init
  BY InitKeepsPromise
<1>2. IInv /\ IInv' /\ [Next]_vars => [Promised!Next]_(Promised!vars)
  BY StepKeepsPromise
<1> QED
  BY <1>1, <1>2, Invariance, PTL DEF Spec, KeepsPromise, Promised!Spec

-----------------------------------------------------------------------------
LEMMA StepPublishes ==
  ASSUME AllGuarded, IInv, IInv', [Next]_vars, Published.exists
  PROVE  /\ "rename" \notin job.faults => Published'.exists
         /\ Published'.exists => Rank(Published) <= Rank(Published')
<1>1. PICK d : IsDocument(d) /\ Published = Filled(d)
  BY PublishedIs DEF Absent
<1>2. Rank(Published) = d.rank /\ d.rank \in Nat
  BY <1>1, WholeWhenFilled DEF IsDocument
<1>3. CASE UNCHANGED files.published
  <2>1. Published' = Published /\ Rank(Published') = Rank(Published)
    BY <1>3 DEF Published, Rank
  <2> QED
    BY <1>2, <2>1
<1>4. CASE files'.published = Absent /\ "rename" \in job.faults
  BY <1>4 DEF Published, Absent
<1>5. ASSUME NEW t \in Threads, writer[t] # Idle, files'.published = Filled(writer[t].doc)
      PROVE  Published'.exists /\ Rank(Published) <= Rank(Published')
  <2>1. Published' = Filled(writer[t].doc)
    BY <1>5 DEF Published
  <2>2. /\ IsDocument(writer[t].doc)
        /\ d.rank <= writer[t].doc.rank
    BY <1>1, <1>5, RankGrows DEF Published
  <2>3. Filled(writer[t].doc).exists /\ Rank(Filled(writer[t].doc)) = writer[t].doc.rank
    BY <2>2, WholeWhenFilled
  <2>4. Rank(Published') = writer[t].doc.rank
    BY <2>1, <2>3 DEF Rank
  <2> QED
    BY <1>2, <2>1, <2>2, <2>3, <2>4
<1> QED
  BY <1>3, <1>4, <1>5, PublishedChanges

\* Replacing the file is atomic: only a failed rename makes it disappear.
THEOREM FileNeverGoesMissing == ASSUME AllGuarded PROVE Spec => NeverMissing
<1>1. IInv /\ IInv' /\ [Next]_vars =>
        [Published.exists /\ "rename" \notin job.faults => Published'.exists]_vars
  BY StepPublishes
<1> QED
  BY <1>1, Invariance, PTL DEF Spec, NeverMissing

\* No late heartbeat replaces what was reported after its search.
THEOREM ProgressNeverRunsBack == ASSUME AllGuarded PROVE Spec => ProgressIsMonotone
<1>1. IInv /\ IInv' /\ [Next]_vars =>
        [(Published.exists /\ Published'.exists) =>
           Rank(Published) <= Rank(Published')]_vars
  BY StepPublishes
<1> QED
  BY <1>1, Invariance, PTL DEF Spec, ProgressIsMonotone
=============================================================================
