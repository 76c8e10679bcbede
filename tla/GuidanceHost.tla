----------------------------- MODULE GuidanceHost -----------------------------
(***************************************************************************)
(* The host of the optional guidance addons (src/src/guidance.rs): one     *)
(* child process per addon, asked in turn over a pipe, with a reader       *)
(* thread that queues its answers and a timeout on every answer.           *)
(*                                                                         *)
(* An addon answers each request at most once, whenever it likes: in time, *)
(* too late, unusably or never; it may die.  Answers carry the number of   *)
(* the request they answer only in the model: the code cannot see it.      *)
(* The policy, the clamping of signals and the log events are left out.    *)
(***************************************************************************)
EXTENDS Integers, Sequences, FiniteSets, SequencesExt

CONSTANTS
  N,              \* addons are 1..N, in the order of their configuration
  Rounds,         \* score batches the planner asks for
  MaxSignals,     \* signals in one answer
  LargeRequests   \* the kinds of requests that may not fit into the pipe

ASSUME HostAssumption == N \in Nat /\ Rounds \in Nat /\ MaxSignals \in Nat

VARIABLES
  pc,        \* what the host is doing with the addons in turn
  at,        \* the addon whose turn it is
  link,      \* whether a request is being written or its answer awaited
  number,    \* requests sent so far
  round,     \* score batches completed
  session,   \* what the host keeps for each addon
  batch,     \* for each addon, the answer whose signals this round collected
  diagnostics,
  alive,     \* the addons whose process runs
  inbox,     \* the request an addon has not answered yet
  answers    \* what its reader thread has queued

addonVars == <<alive, inbox, answers>>
vars == <<pc, at, link, number, round, session, batch, diagnostics,
          alive, inbox, answers>>

Addons == 1..N
RequestKinds == {"describe", "prepare", "score", "close"}
NoRequest == [number |-> 0, kind |-> "none", read |-> TRUE]

NewSession == [state |-> "none", prepared |-> FALSE, batches |-> 0, accepted |-> 0]

Diagnostic(a, state, s) ==
  [addon |-> a, state |-> state, prepared |-> s.prepared,
   batches |-> s.batches, accepted |-> s.accepted]

-----------------------------------------------------------------------------
Sessions == [state : {"none", "active", "disabled", "closed"},
             prepared : BOOLEAN, batches : 0..Rounds, accepted : Nat]
Kinds == RequestKinds \cup {"none"}
Requests == [number : Nat, kind : Kinds, read : BOOLEAN]
Answers == [number : Nat, kind : Kinds, usable : BOOLEAN, signals : 0..MaxSignals]

TypeOK ==
  /\ pc \in {"spawn", "done"} \cup RequestKinds
  /\ at \in 1..(N + 1)
  /\ link \in {"idle", "writing", "waiting"}
  /\ link # "idle" => pc \in RequestKinds /\ at \in Addons
  /\ number \in Nat
  /\ round \in 0..Rounds
  /\ session \in [Addons -> Sessions]
  /\ batch \in [Addons -> Nat]
  /\ alive \subseteq Addons
  /\ inbox \in [Addons -> Requests]
  /\ answers \in [Addons -> Seq(Answers)]

Init ==
  /\ pc = "spawn"
  /\ at = 1
  /\ link = "idle"
  /\ number = 0
  /\ round = 0
  /\ session = [a \in Addons |-> NewSession]
  /\ batch = [a \in Addons |-> 0]
  /\ diagnostics = <<>>
  /\ alive = {}
  /\ inbox = [a \in Addons |-> NoRequest]
  /\ answers = [a \in Addons |-> <<>>]

-----------------------------------------------------------------------------
Spawn ==
  /\ pc = "spawn"
  /\ at <= N
  /\ \/ /\ session' = [session EXCEPT ![at].state = "active"]
        /\ alive' = alive \cup {at}
        /\ UNCHANGED diagnostics
     \/ /\ diagnostics' =
             Append(diagnostics, Diagnostic(at, "failed", NewSession))
        /\ UNCHANGED <<session, alive>>
  /\ at' = at + 1
  /\ UNCHANGED <<pc, link, number, round, batch, inbox, answers>>

\* The loop over the addons is over.
NextPhase ==
  IF pc = "spawn" THEN "describe"
  ELSE IF pc \in {"describe", "score"}
       THEN IF (IF pc = "score" THEN round + 1 ELSE round) < Rounds
            THEN "score" ELSE "close"
       ELSE "done"

\* Mutant: the batch of the last round is added to.
EndLoopKeepingBatch ==
  /\ pc # "done"
  /\ at = N + 1
  /\ pc' = NextPhase
  /\ at' = 1
  /\ round' = IF pc = "score" THEN round + 1 ELSE round
  /\ UNCHANGED <<link, number, session, batch, diagnostics, alive, inbox, answers>>

EndLoop ==
  /\ pc # "done"
  /\ at = N + 1
  /\ pc' = NextPhase
  /\ at' = 1
  /\ round' = IF pc = "score" THEN round + 1 ELSE round
  /\ batch' = [a \in Addons |-> 0]
  /\ UNCHANGED <<link, number, session, diagnostics, alive, inbox, answers>>

SkipDisabled ==
  /\ pc \in RequestKinds
  /\ at <= N
  /\ session[at].state # "active"
  /\ at' = at + 1
  /\ UNCHANGED <<pc, link, number, round, session, batch, diagnostics,
                 alive, inbox, answers>>

-----------------------------------------------------------------------------

\* The addon's turn ends: `prepare` falls back to the describe loop.
EndTurn ==
  /\ at' = at + 1
  /\ pc' = IF pc = "prepare" THEN "describe" ELSE pc
  /\ link' = "idle"

\* Mutant: a failed session is reported and not disabled.
FailWithoutDisabling ==
  /\ diagnostics' =
       IF pc = "close" THEN diagnostics
       ELSE Append(diagnostics, Diagnostic(at, "failed", session[at]))
  /\ session' = [session EXCEPT
                   ![at].state = IF pc = "close" THEN "closed" ELSE @]
  /\ EndTurn
  /\ UNCHANGED <<number, round, batch, alive>>

\* Any failure of a request kills and disables the session and is reported;
\* when the session is being closed it is only killed.
Fail ==
  /\ session' = [session EXCEPT
                   ![at].state = IF pc = "close" THEN "closed" ELSE "disabled"]
  /\ alive' = alive \ {at}
  /\ diagnostics' =
       IF pc = "close" THEN diagnostics
       ELSE Append(diagnostics, Diagnostic(at, "failed", session[at]))
  /\ EndTurn
  /\ UNCHANGED <<number, round, batch>>

Ready ==
  /\ pc \in RequestKinds
  /\ at <= N
  /\ session[at].state = "active"
  /\ link = "idle"

\* Writing fails on a dead addon; a request larger than the pipe is stuck until
\* the addon reads it.
Write ==
  /\ Ready
  /\ IF at \in alive
     THEN /\ number' = number + 1
          /\ inbox' = [inbox EXCEPT ![at] =
                         [number |-> number + 1, kind |-> pc,
                          read |-> pc \notin LargeRequests]]
          /\ link' = IF pc \in LargeRequests THEN "writing" ELSE "waiting"
          /\ UNCHANGED <<pc, at, round, session, batch, diagnostics, alive, answers>>
     ELSE Fail /\ UNCHANGED <<inbox, answers>>

Written ==
  /\ link = "writing"
  /\ IF at \notin alive THEN Fail /\ UNCHANGED <<inbox, answers>>
     ELSE /\ inbox[at].read
          /\ link' = "waiting"
          /\ UNCHANGED <<pc, at, number, round, session, batch, diagnostics,
                         alive, inbox, answers>>

\* Mutant: the answer of a running addon is awaited without a timeout.
NoAnswerOfDead ==
  /\ link = "waiting"
  /\ answers[at] = <<>>
  /\ at \notin alive
  /\ Fail
  /\ UNCHANGED <<inbox, answers>>

\* recv_timeout gives up, or finds the addon's pipe closed.
NoAnswer ==
  /\ link = "waiting"
  /\ answers[at] = <<>>
  /\ Fail
  /\ UNCHANGED <<inbox, answers>>

-----------------------------------------------------------------------------
\* Mutant: only the first batch is written back.
RefreshedOnce(log, a, s) ==
  [i \in DOMAIN log |->
     IF log[i].addon = a /\ log[i].state = "prepared" /\ s.batches = 1
     THEN Diagnostic(a, "prepared", s) ELSE log[i]]

\* The newest "prepared" diagnostic of an addon is kept current.
Refreshed(log, a, s) ==
  LET mine == {i \in DOMAIN log : log[i].addon = a /\ log[i].state = "prepared"}
  IN IF mine = {} THEN log
     ELSE [log EXCEPT ![CHOOSE i \in mine : \A j \in mine : j <= i] =
             Diagnostic(a, "prepared", s)]

\* What a usable answer does, by the kind of the request it is taken for.
Accept(answer) ==
  LET scored == [session[at] EXCEPT !.batches = @ + 1,
                                    !.accepted = @ + answer.signals]
      prepared == [session[at] EXCEPT !.prepared = TRUE]
  IN \/ /\ pc = "describe"
        /\ pc' = "prepare"
        /\ link' = "idle"
        /\ UNCHANGED <<at, session, batch, diagnostics, alive>>
     \/ /\ pc = "prepare"
        /\ session' = [session EXCEPT ![at] = prepared]
        /\ diagnostics' = Append(diagnostics, Diagnostic(at, "prepared", prepared))
        /\ EndTurn
        /\ UNCHANGED <<batch, alive>>
     \/ /\ pc = "score"
        /\ session' = [session EXCEPT ![at] = scored]
        /\ batch' = [batch EXCEPT ![at] = answer.number]
        /\ diagnostics' = Refreshed(diagnostics, at, scored)
        /\ EndTurn
        /\ UNCHANGED alive
     \/ /\ pc = "close"
        /\ session' = [session EXCEPT ![at].state = "closed"]
        /\ alive' = alive \ {at}
        /\ EndTurn
        /\ UNCHANGED <<batch, diagnostics>>

Usable(answer) == answer.usable /\ answer.kind = pc

Receive ==
  LET answer == Head(answers[at])
  IN /\ link = "waiting"
     /\ answers[at] # <<>>
     /\ answers' = [answers EXCEPT ![at] = Tail(@)]
     /\ IF Usable(answer)
        THEN Accept(answer) /\ UNCHANGED <<number, round>>
        ELSE Fail
     /\ UNCHANGED inbox

Host == Spawn \/ EndLoop \/ SkipDisabled \/ Write \/ Written \/ NoAnswer \/ Receive

-----------------------------------------------------------------------------
(***************************************************************************)
(* The addon and the thread that reads its output                          *)
(***************************************************************************)
Read(a) ==
  /\ ~inbox[a].read
  /\ inbox' = [inbox EXCEPT ![a].read = TRUE]
  /\ UNCHANGED <<pc, at, link, number, round, session, batch, diagnostics,
                 alive, answers>>

\* A killed addon's last answer may still be read.
Answer(a) ==
  /\ inbox[a] # NoRequest
  /\ inbox[a].read
  /\ \E usable \in BOOLEAN, signals \in 0..MaxSignals :
       answers' = [answers EXCEPT ![a] =
                     Append(@, [number |-> inbox[a].number, kind |-> inbox[a].kind,
                                usable |-> usable, signals |-> signals])]
  /\ inbox' = [inbox EXCEPT ![a] = NoRequest]
  /\ UNCHANGED <<pc, at, link, number, round, session, batch, diagnostics, alive>>

Die(a) ==
  /\ a \in alive
  /\ alive' = alive \ {a}
  /\ UNCHANGED <<pc, at, link, number, round, session, batch, diagnostics,
                 inbox, answers>>

Environment == \E a \in Addons : Read(a) \/ Answer(a) \/ Die(a)

Next == Host \/ Environment

\* Only the host is fair: nothing is assumed of an addon.
Spec == Init /\ [][Next]_vars /\ WF_vars(Host)

-----------------------------------------------------------------------------
\* An answer that came too late is never taken for the answer to a later
\* request, although no answer is matched with its request.
AnswersMatchRequests ==
  [][(link = "waiting" /\ session'[at].batches > session[at].batches) =>
       Head(answers[at]).number = number]_vars

\* After a score round the batch holds the signals of exactly the addons that
\* are still enabled: one addon's failure costs nobody else's signals, and
\* nothing of a failed one is left in the batch.
RoundIsComplete ==
  (pc = "score" /\ at = N + 1) =>
    \A a \in Addons :
      batch[a] # 0 <=> session[a].state = "active"

Failures(a) ==
  {i \in DOMAIN diagnostics :
     diagnostics[i].addon = a /\ diagnostics[i].state = "failed"}

Preparations(a) ==
  {i \in DOMAIN diagnostics :
     diagnostics[i].addon = a /\ diagnostics[i].state = "prepared"}

\* The diagnostics in the artifact tell each addon's fate: one failure iff it
\* never started or was disabled, one preparation iff it was prepared, and the
\* counts of the last entry are those of the session.
DiagnosticsAreCurrent ==
  \A a \in Addons :
    /\ Cardinality(Preparations(a)) = IF session[a].prepared THEN 1 ELSE 0
    /\ Cardinality(Failures(a)) <= 1
    /\ pc # "spawn" =>
         (session[a].state \in {"none", "disabled"} <=> Failures(a) # {})
    /\ \A i \in Preparations(a) \cup Failures(a) :
         diagnostics[i].accepted = session[a].accepted

\* Whatever the addons do, the host comes to an end, unless it is stuck in a
\* write for ever: answers that are late, unusable or missing cannot hold it up.
OnlyWritesBlock == <>(pc = "done") \/ <>[](link = "writing")

\* A failing or silent addon is neutral, never an obstacle.
HostFinishes == <>(pc = "done")
=============================================================================
