-------------------------- MODULE GuidanceHost_proofs --------------------------
(***************************************************************************)
(* The host takes no answer for the answer to another request and leaves   *)
(* nothing of a failed addon in a batch, for every number of addons and    *)
(* score batches.  TLC checks both with two addons and two batches.        *)
(***************************************************************************)
EXTENDS GuidanceHost, FiniteSetTheorems, TLAPS

Quiet(a) == inbox[a] = NoRequest /\ answers[a] = <<>>

\* The request being answered is either with the addon or in the channel.
Asked(a) ==
  /\ inbox[a].number = number
  /\ inbox[a] # NoRequest
  /\ answers[a] = <<>>

Answered(a) ==
  /\ inbox[a] = NoRequest
  /\ answers[a] # <<>>
  /\ Tail(answers[a]) = <<>>
  /\ Head(answers[a]).number = number

\* An enabled session has nothing outstanding except in its own exchange: the
\* only sessions with late answers are disabled or closed.
Exchange ==
  \A a \in Addons :
    /\ session[a].state = "none" => Quiet(a)
    /\ session[a].state = "active" =>
         IF a = at /\ link # "idle" THEN Asked(a) \/ Answered(a) ELSE Quiet(a)

Talking == link # "idle" => session[at].state = "active" /\ number > 0

Spawning ==
  pc = "spawn" => \A a \in Addons : a >= at => session[a].state = "none"

\* What the addons whose turn has come contributed to the round.
Collected ==
  \A a \in Addons :
    batch[a] # 0 <=> pc = "score" /\ a < at /\ session[a].state = "active"

Counted ==
  /\ pc = "score" => round < Rounds
  /\ \A a \in Addons :
       session[a].batches <= IF pc = "score" /\ a < at THEN round + 1 ELSE round

IInv == TypeOK /\ Exchange /\ Talking /\ Spawning /\ Collected /\ Counted

-----------------------------------------------------------------------------
\* What a change of one session's state leaves of the sessions.
LEMMA StateChanged ==
  ASSUME TypeOK, NEW b \in Addons,
         NEW state \in {"none", "active", "disabled", "closed"},
         session' = [session EXCEPT ![b].state = state]
  PROVE  /\ session' \in [Addons -> Sessions]
         /\ session'[b].state = state
         /\ \A a \in Addons : /\ a # b => session'[a] = session[a]
                              /\ session'[a].batches = session[a].batches
<1>1. session' \in [Addons -> Sessions]
  BY DEF TypeOK, Sessions
<1>2. session'[b] = [session[b] EXCEPT !.state = state]
  BY DEF TypeOK
<1>3. session'[b].state = state /\ session'[b].batches = session[b].batches
  BY <1>2 DEF TypeOK, Sessions
<1>4. \A a \in Addons : a # b => session'[a] = session[a]
  BY DEF TypeOK
<1> QED
  BY <1>1, <1>3, <1>4

LEMMA BatchesAreNat ==
  TypeOK => \A a \in Addons : session[a].batches \in Nat
BY HostAssumption DEF TypeOK, Sessions

LEMMA InitIInv == Init => IInv
<1> SUFFICES ASSUME Init PROVE IInv
  OBVIOUS
<1> USE HostAssumption DEF Init
<1>1. NewSession \in Sessions /\ NoRequest \in Requests
  BY DEF NewSession, NoRequest, Sessions, Requests, Kinds
<1>2. TypeOK
  BY <1>1 DEF TypeOK, Addons, RequestKinds
<1>3. Exchange /\ Talking /\ Spawning
  BY DEF Exchange, Talking, Spawning, Quiet, NewSession
<1>4. Collected /\ Counted
  BY DEF Collected, Counted, NewSession
<1> QED
  BY <1>2, <1>3, <1>4 DEF IInv

LEMMA SpawnIInv == IInv /\ Spawn => IInv'
<1> SUFFICES ASSUME IInv, Spawn PROVE IInv'
  OBVIOUS
<1> USE HostAssumption DEF IInv
<1>1. /\ pc = "spawn" /\ pc' = "spawn" /\ at' = at + 1 /\ at \in Addons
      /\ link = "idle" /\ session[at].state = "none" /\ Quiet(at)
      /\ UNCHANGED <<link, number, round, batch, inbox, answers>>
      /\ alive' \subseteq Addons
  BY DEF Spawn, TypeOK, Addons, Spawning, Exchange, RequestKinds
<1>2. session' = session \/ session' = [session EXCEPT ![at].state = "active"]
  BY DEF Spawn
<1>3. session' \in [Addons -> Sessions]
  BY <1>1, <1>2, StateChanged DEF TypeOK
<1>4. \A a \in Addons : /\ a # at => session'[a] = session[a]
                        /\ session'[a].batches = session[a].batches
  BY <1>1, <1>2, StateChanged
<1>5. TypeOK'
  BY <1>1, <1>3 DEF TypeOK, Addons
<1>6. Exchange'
  BY <1>1, <1>4 DEF Exchange, Quiet
<1>7. Talking' /\ Spawning'
  BY <1>1, <1>4 DEF Talking, Spawning, Addons
<1>8. Collected'
  BY <1>1 DEF Collected
<1>9. Counted'
  <2> SUFFICES ASSUME NEW a \in Addons PROVE session'[a].batches <= round'
    BY <1>1 DEF Counted
  <2>1. session[a].batches <= round
    BY <1>1 DEF Counted
  <2> QED
    BY <1>1, <1>4, <2>1
<1> QED
  BY <1>5, <1>6, <1>7, <1>8, <1>9

LEMMA EndLoopIInv == IInv /\ EndLoop => IInv'
<1> SUFFICES ASSUME IInv, EndLoop PROVE IInv'
  OBVIOUS
<1> USE HostAssumption DEF IInv
<1>1. /\ at = N + 1 /\ at' = 1 /\ link = "idle" /\ batch' = [a \in Addons |-> 0]
      /\ UNCHANGED <<link, number, session, alive, inbox, answers>>
  BY DEF EndLoop, TypeOK, Addons
<1>2. round' = IF pc = "score" THEN round + 1 ELSE round
  BY DEF EndLoop
<1>3. /\ round' \in 0..Rounds /\ (pc' = "score" => round' < Rounds)
      /\ pc' \in {"done"} \cup RequestKinds
  BY <1>2 DEF EndLoop, TypeOK, Counted, NextPhase, RequestKinds
<1>4. TypeOK'
  BY <1>1, <1>3 DEF TypeOK, Addons
<1>5. Exchange' /\ Talking' /\ Spawning'
  BY <1>1, <1>3 DEF Exchange, Talking, Spawning, Quiet, RequestKinds
<1>6. Collected'
  BY <1>1 DEF Collected, Addons
<1>7. ASSUME NEW a \in Addons PROVE session[a].batches <= round'
  BY <1>1, <1>2 DEF Counted, Addons, TypeOK
<1>8. Counted'
  BY <1>1, <1>3, <1>7 DEF Counted, Addons
<1> QED
  BY <1>4, <1>5, <1>6, <1>8

LEMMA SkipDisabledIInv == IInv /\ SkipDisabled => IInv'
<1> SUFFICES ASSUME IInv, SkipDisabled PROVE IInv'
  OBVIOUS
<1> USE HostAssumption DEF IInv
<1>1. /\ at \in Addons /\ at' = at + 1 /\ link = "idle" /\ pc \in RequestKinds
      /\ session[at].state # "active"
      /\ UNCHANGED <<pc, link, number, round, session, batch, alive, inbox, answers>>
  BY DEF SkipDisabled, TypeOK, Addons, Talking
<1>2. TypeOK'
  BY <1>1 DEF TypeOK, Addons
<1>3. Exchange' /\ Talking' /\ Spawning'
  BY <1>1 DEF Exchange, Talking, Spawning, Quiet, RequestKinds
<1>4. Collected'
  BY <1>1 DEF Collected, Addons, TypeOK
<1>5. Counted'
  <2>1. round \in Nat /\ \A a \in Addons : session[a].batches \in Nat
    BY BatchesAreNat DEF TypeOK
  <2> QED
    BY <1>1, <2>1 DEF Counted, Addons
<1> QED
  BY <1>2, <1>3, <1>4, <1>5

\* A failing turn leaves the rest of the host as it was; what the failed
\* addon still has to say no longer matters.
LEMMA FailIInv ==
  ASSUME IInv, Fail, at \in Addons, pc \in RequestKinds,
         session[at].state = "active",
         inbox' \in [Addons -> Requests], answers' \in [Addons -> Seq(Answers)],
         \A a \in Addons :
           a # at => inbox'[a] = inbox[a] /\ answers'[a] = answers[a]
  PROVE  IInv'
<1> USE HostAssumption DEF IInv
<1>1. /\ at' = at + 1 /\ link' = "idle" /\ alive' \subseteq Addons
      /\ pc' = IF pc = "prepare" THEN "describe" ELSE pc
      /\ UNCHANGED <<number, round, batch>>
  BY DEF Fail, EndTurn, TypeOK
<1>2. PICK state \in {"disabled", "closed"} :
        session' = [session EXCEPT ![at].state = state]
  BY DEF Fail
<1>3. /\ session' \in [Addons -> Sessions]
      /\ session'[at].state = state
      /\ \A a \in Addons : /\ a # at => session'[a] = session[a]
                           /\ session'[a].batches = session[a].batches
  BY <1>2, StateChanged
<1>4. pc' \in RequestKinds /\ (pc' = "score" <=> pc = "score")
  BY <1>1 DEF RequestKinds
<1>5. TypeOK'
  BY <1>1, <1>3, <1>4 DEF TypeOK, Addons
<1>6. Exchange'
  BY <1>1, <1>3 DEF Exchange, Quiet
<1>7. Talking' /\ Spawning'
  BY <1>1, <1>4 DEF Talking, Spawning, RequestKinds
<1>8. Collected'
  <2>1. \A a \in Addons : (a < at' <=> a < at \/ a = at) /\ ~(at < at)
    BY <1>1 DEF Addons
  <2>2. session'[at].state # "active"
    BY <1>2, <1>3
  <2> QED
    BY <1>1, <1>3, <1>4, <2>1, <2>2 DEF Collected
<1>9. Counted'
  <2>1. pc' = "score" => round' < Rounds
    BY <1>1, <1>4 DEF Counted
  <2>2. ASSUME NEW a \in Addons
        PROVE  session[a].batches <= IF pc' = "score" /\ a < at' THEN round + 1
                                     ELSE round
    <3>1. session[a].batches \in Nat
      BY BatchesAreNat
    <3>2. round \in Nat /\ at \in Nat /\ a \in Nat
      BY DEF TypeOK, Addons
    <3> QED
      BY <1>1, <1>4, <3>1, <3>2 DEF Counted
  <2> QED
    BY <1>1, <1>3, <2>1, <2>2 DEF Counted
<1> QED
  BY <1>5, <1>6, <1>7, <1>8, <1>9

LEMMA WriteIInv == IInv /\ Write => IInv'
<1> SUFFICES ASSUME IInv, Write PROVE IInv'
  OBVIOUS
<1> USE HostAssumption DEF IInv
<1>1. /\ at \in Addons /\ pc \in RequestKinds /\ link = "idle"
      /\ session[at].state = "active" /\ Quiet(at)
  BY DEF Write, Ready, TypeOK, Addons, Exchange
<1>2. CASE at \notin alive
  <2>1. Fail /\ UNCHANGED <<inbox, answers>>
    BY <1>2 DEF Write
  <2> QED
    BY <1>1, <2>1, FailIInv DEF TypeOK
<1>3. CASE at \in alive
  <2> DEFINE asked == [number |-> number + 1, kind |-> pc,
                       read |-> pc \notin LargeRequests]
  <2>1. /\ number' = number + 1 /\ link' \in {"writing", "waiting"}
        /\ inbox' = [inbox EXCEPT ![at] = asked]
        /\ UNCHANGED <<pc, at, round, session, batch, alive, answers>>
    BY <1>3 DEF Write
  <2>2. asked \in Requests /\ asked.number = number' /\ asked # NoRequest
    BY <1>1, <2>1 DEF Requests, Kinds, TypeOK, NoRequest
  <2> HIDE DEF asked
  <2>3. /\ inbox' \in [Addons -> Requests] /\ inbox'[at] = asked
        /\ \A a \in Addons : a # at => inbox'[a] = inbox[a]
    BY <1>1, <2>1, <2>2 DEF TypeOK
  <2>4. TypeOK'
    BY <1>1, <2>1, <2>3 DEF TypeOK, Addons
  <2>5. Exchange'
    BY <1>1, <2>1, <2>2, <2>3 DEF Exchange, Quiet, Asked
  <2>6. Talking' /\ Spawning'
    BY <1>1, <2>1 DEF Talking, Spawning, TypeOK
  <2>7. Collected' /\ Counted'
    BY <2>1 DEF Collected, Counted
  <2> QED
    BY <2>4, <2>5, <2>6, <2>7
<1> QED
  BY <1>2, <1>3

LEMMA WrittenIInv == IInv /\ Written => IInv'
<1> SUFFICES ASSUME IInv, Written PROVE IInv'
  OBVIOUS
<1> USE HostAssumption DEF IInv
<1>1. /\ at \in Addons /\ pc \in RequestKinds /\ link = "writing"
      /\ session[at].state = "active"
  BY DEF Written, TypeOK, Talking
<1>2. CASE at \notin alive
  <2>1. Fail /\ UNCHANGED <<inbox, answers>>
    BY <1>2 DEF Written
  <2> QED
    BY <1>1, <2>1, FailIInv DEF TypeOK
<1>3. CASE at \in alive
  <2>1. /\ link' = "waiting"
        /\ UNCHANGED <<pc, at, number, round, session, batch, alive, inbox, answers>>
    BY <1>3 DEF Written
  <2>2. TypeOK'
    BY <1>1, <2>1 DEF TypeOK
  <2>3. Exchange'
    BY <1>1, <2>1 DEF Exchange, Quiet, Asked, Answered
  <2>4. Talking' /\ Spawning' /\ Collected' /\ Counted'
    BY <1>1, <2>1 DEF Talking, Spawning, Collected, Counted
  <2> QED
    BY <2>2, <2>3, <2>4
<1> QED
  BY <1>2, <1>3

LEMMA NoAnswerIInv == IInv /\ NoAnswer => IInv'
<1> SUFFICES ASSUME IInv, NoAnswer PROVE IInv'
  OBVIOUS
<1>1. /\ at \in Addons /\ pc \in RequestKinds /\ session[at].state = "active"
      /\ Fail /\ UNCHANGED <<inbox, answers>>
  BY DEF NoAnswer, IInv, TypeOK, Talking
<1> QED
  BY <1>1, FailIInv DEF IInv, TypeOK

\* A usable answer is the only one there is, and is the current request's.
LEMMA AnswerIsCurrent ==
  ASSUME IInv, Receive
  PROVE  /\ at \in Addons /\ pc \in RequestKinds
         /\ session[at].state = "active" /\ number > 0
         /\ inbox[at] = NoRequest /\ Tail(answers[at]) = <<>>
         /\ Head(answers[at]) \in Answers
         /\ Head(answers[at]).number = number
<1> USE DEF IInv
<1>1. link = "waiting" /\ answers[at] # <<>>
  BY DEF Receive
<1>2. /\ at \in Addons /\ pc \in RequestKinds /\ session[at].state = "active"
      /\ number > 0
  BY <1>1 DEF TypeOK, Talking
<1>3. Answered(at)
  BY <1>1, <1>2 DEF Exchange, Asked
<1>4. Head(answers[at]) \in Answers
  BY <1>1, <1>2 DEF TypeOK
<1> QED
  BY <1>2, <1>3, <1>4 DEF Answered

\* What accepting an answer does, whatever the kind of the request.
LEMMA AcceptIInv ==
  ASSUME IInv, Receive, Accept(Head(answers[at])),
         UNCHANGED <<number, round, inbox>>,
         answers' = [answers EXCEPT ![at] = Tail(@)]
  PROVE  IInv'
<1> USE HostAssumption DEF IInv
<1> DEFINE answer == Head(answers[at])
<1>1. /\ at \in Addons /\ pc \in RequestKinds /\ session[at].state = "active"
      /\ inbox[at] = NoRequest /\ Tail(answers[at]) = <<>>
      /\ answer \in Answers /\ answer.number = number /\ number > 0
  BY AnswerIsCurrent
<1>2. /\ answers' \in [Addons -> Seq(Answers)] /\ answers'[at] = <<>>
      /\ \A a \in Addons : a # at => answers'[a] = answers[a]
  <2>1. answers' = [answers EXCEPT ![at] = <<>>]
    BY <1>1
  <2>2. <<>> \in Seq(Answers)
    OBVIOUS
  <2> QED
    BY <1>1, <2>1, <2>2 DEF TypeOK
<1>3. /\ \A a \in Addons : (a < at + 1 <=> a < at \/ a = at) /\ ~(at < at)
      /\ at + 1 \in 1..(N + 1) /\ round \in Nat
  BY <1>1 DEF Addons, TypeOK
<1> HIDE DEF answer
<1>4. CASE pc = "describe"
  <2>1. /\ pc' = "prepare" /\ link' = "idle"
        /\ UNCHANGED <<at, session, batch, alive>>
    BY <1>4 DEF Accept
  <2>2. TypeOK'
    BY <1>2, <2>1 DEF TypeOK, RequestKinds
  <2>3. Exchange'
    BY <1>1, <1>2, <2>1 DEF Exchange, Quiet
  <2>4. Talking' /\ Spawning' /\ Collected' /\ Counted'
    BY <1>4, <2>1 DEF Talking, Spawning, Collected, Counted
  <2> QED
    BY <2>2, <2>3, <2>4
<1>5. CASE pc = "prepare"
  <2> DEFINE prepared == [session[at] EXCEPT !.prepared = TRUE]
  <2>1. /\ pc' = "describe" /\ link' = "idle" /\ at' = at + 1
        /\ session' = [session EXCEPT ![at] = prepared]
        /\ UNCHANGED <<batch, alive>>
    BY <1>5 DEF Accept, EndTurn
  <2>2. /\ prepared \in Sessions /\ prepared.state = "active"
        /\ prepared.batches = session[at].batches
    BY <1>1 DEF TypeOK, Sessions
  <2> HIDE DEF prepared
  <2>3. /\ session' \in [Addons -> Sessions] /\ session'[at] = prepared
        /\ \A a \in Addons : a # at => session'[a] = session[a]
    BY <1>1, <2>1, <2>2 DEF TypeOK
  <2>4. TypeOK'
    BY <1>2, <1>3, <2>1, <2>3 DEF TypeOK, RequestKinds
  <2>5. Exchange'
    BY <1>1, <1>2, <2>1, <2>2, <2>3 DEF Exchange, Quiet
  <2>6. Talking' /\ Spawning' /\ Collected'
    BY <1>5, <2>1 DEF Talking, Spawning, Collected
  <2>7. Counted'
    BY <1>5, <2>1, <2>2, <2>3 DEF Counted
  <2> QED
    BY <2>4, <2>5, <2>6, <2>7
<1>6. CASE pc = "score"
  <2> DEFINE scored == [session[at] EXCEPT !.batches = @ + 1,
                                           !.accepted = @ + answer.signals]
  <2>1. /\ pc' = "score" /\ link' = "idle" /\ at' = at + 1
        /\ session' = [session EXCEPT ![at] = scored]
        /\ batch' = [batch EXCEPT ![at] = answer.number]
        /\ UNCHANGED alive
    BY <1>6 DEF Accept, EndTurn, answer
  <2>2. /\ session[at].batches \in Nat /\ session[at].batches <= round
        /\ round < Rounds
    BY <1>1, <1>3, <1>6, BatchesAreNat DEF Counted
  <2>3. answer.signals \in Nat
    BY <1>1 DEF Answers
  <2>4. /\ scored \in Sessions /\ scored.state = "active"
        /\ scored.batches <= round + 1
    <3>1. session[at] \in Sessions
      BY <1>1 DEF TypeOK
    <3>2. session[at].batches + 1 \in 0..Rounds
      BY <1>3, <2>2
    <3>3. session[at].accepted + answer.signals \in Nat
      BY <2>3, <3>1 DEF Sessions
    <3>4. scored \in Sessions
      BY <3>1, <3>2, <3>3 DEF Sessions
    <3>5. scored.state = session[at].state
      BY <3>1 DEF Sessions
    <3>6. scored.batches = session[at].batches + 1
      BY <3>1 DEF Sessions
    <3> QED
      BY <1>1, <1>3, <2>2, <3>4, <3>5, <3>6
  <2> HIDE DEF scored
  <2>5. /\ session' \in [Addons -> Sessions] /\ session'[at] = scored
        /\ \A a \in Addons : a # at => session'[a] = session[a]
    BY <1>1, <2>1, <2>4 DEF TypeOK
  <2>6. /\ batch' \in [Addons -> Nat] /\ batch'[at] # 0
        /\ \A a \in Addons : a # at => batch'[a] = batch[a]
    BY <1>1, <2>1 DEF TypeOK
  <2>7. TypeOK'
    BY <1>2, <1>3, <2>1, <2>5, <2>6 DEF TypeOK, RequestKinds
  <2>8. Exchange'
    BY <1>1, <1>2, <2>1, <2>4, <2>5 DEF Exchange, Quiet
  <2>9. Talking' /\ Spawning'
    BY <2>1 DEF Talking, Spawning
  <2>10. Collected'
    BY <1>3, <1>6, <2>1, <2>4, <2>5, <2>6 DEF Collected
  <2>11. Counted'
    BY <1>3, <1>6, <2>1, <2>2, <2>4, <2>5 DEF Counted
  <2> QED
    BY <2>7, <2>8, <2>9, <2>10, <2>11
<1>7. CASE pc = "close"
  <2>1. /\ pc' = "close" /\ link' = "idle" /\ at' = at + 1
        /\ session' = [session EXCEPT ![at].state = "closed"]
        /\ alive' = alive \ {at} /\ UNCHANGED batch
    BY <1>7 DEF Accept, EndTurn
  <2>2. /\ session' \in [Addons -> Sessions] /\ session'[at].state = "closed"
        /\ \A a \in Addons : /\ a # at => session'[a] = session[a]
                            /\ session'[a].batches = session[a].batches
    BY <1>1, <2>1, StateChanged
  <2>3. TypeOK'
    BY <1>2, <1>3, <2>1, <2>2 DEF TypeOK, RequestKinds
  <2>4. Exchange'
    BY <1>1, <1>2, <2>1, <2>2 DEF Exchange, Quiet
  <2>5. Talking' /\ Spawning' /\ Collected'
    BY <1>7, <2>1 DEF Talking, Spawning, Collected
  <2>6. Counted'
    BY <1>7, <2>1, <2>2 DEF Counted
  <2> QED
    BY <2>3, <2>4, <2>5, <2>6
<1> QED
  BY <1>1, <1>4, <1>5, <1>6, <1>7 DEF RequestKinds

LEMMA ReceiveIInv == IInv /\ Receive => IInv'
<1> SUFFICES ASSUME IInv, Receive PROVE IInv'
  OBVIOUS
<1>1. /\ at \in Addons /\ pc \in RequestKinds /\ session[at].state = "active"
      /\ answers' = [answers EXCEPT ![at] = Tail(@)] /\ UNCHANGED inbox
      /\ answers[at] # <<>>
  BY AnswerIsCurrent DEF Receive
<1>2. CASE Usable(Head(answers[at]))
  BY <1>1, <1>2, AcceptIInv DEF Receive
<1>3. CASE ~Usable(Head(answers[at]))
  <2>1. Fail
    BY <1>3 DEF Receive
  <2>2. /\ answers' \in [Addons -> Seq(Answers)]
        /\ \A a \in Addons : a # at => answers'[a] = answers[a]
    BY <1>1 DEF IInv, TypeOK
  <2> QED
    BY <1>1, <2>1, <2>2, FailIInv DEF IInv, TypeOK
<1> QED
  BY <1>2, <1>3

\* Nothing of the host changes but what it has with one addon.
LEMMA EnvironmentKeeps ==
  ASSUME IInv, TypeOK', Exchange',
         UNCHANGED <<pc, at, link, number, round, session, batch>>
  PROVE  IInv'
BY DEF IInv, Talking, Spawning, Collected, Counted

LEMMA EnvironmentIInv == IInv /\ Environment => IInv'
<1> SUFFICES ASSUME IInv, NEW a \in Addons, Read(a) \/ Answer(a) \/ Die(a)
             PROVE  IInv'
  BY DEF Environment
<1> USE HostAssumption DEF IInv
<1>1. CASE Read(a)
  <2> DEFINE read == [inbox[a] EXCEPT !.read = TRUE]
  <2>1. /\ ~inbox[a].read /\ inbox' = [inbox EXCEPT ![a] = read]
        /\ UNCHANGED <<pc, at, link, number, round, session, batch, alive, answers>>
    BY <1>1 DEF Read
  <2>2. read \in Requests /\ read.number = inbox[a].number
    BY DEF TypeOK, Requests
  <2> HIDE DEF read
  <2>3. /\ inbox' \in [Addons -> Requests] /\ inbox'[a] = read
        /\ \A b \in Addons : b # a => inbox'[b] = inbox[b]
    BY <2>1, <2>2 DEF TypeOK
  <2>4. inbox[a] # NoRequest
    BY <2>1 DEF NoRequest
  <2>5. number > 0 /\ read.number = number => read # NoRequest
    BY DEF NoRequest
  <2>6. TypeOK'
    BY <2>1, <2>3 DEF TypeOK
  <2>7. Exchange'
    BY <2>1, <2>2, <2>3, <2>4, <2>5 DEF Exchange, Talking, Quiet, Asked, Answered
  <2> QED
    BY <2>1, <2>6, <2>7, EnvironmentKeeps
<1>2. CASE Answer(a)
  <2> DEFINE answer(u, s) == [number |-> inbox[a].number, kind |-> inbox[a].kind,
                              usable |-> u, signals |-> s]
  <2>1. /\ inbox[a] # NoRequest /\ inbox' = [inbox EXCEPT ![a] = NoRequest]
        /\ UNCHANGED <<pc, at, link, number, round, session, batch, alive>>
    BY <1>2 DEF Answer
  <2>2. PICK u \in BOOLEAN, s \in 0..MaxSignals :
          answers' = [answers EXCEPT ![a] = Append(@, answer(u, s))]
    BY <1>2 DEF Answer
  <2>3. answer(u, s) \in Answers /\ answer(u, s).number = inbox[a].number
    BY DEF TypeOK, Requests, Answers
  <2> HIDE DEF answer
  <2>4. /\ inbox' \in [Addons -> Requests] /\ inbox'[a] = NoRequest
        /\ \A b \in Addons : b # a => inbox'[b] = inbox[b]
    BY <2>1 DEF TypeOK, Requests, Kinds, NoRequest
  <2>5. /\ answers' \in [Addons -> Seq(Answers)]
        /\ answers'[a] = Append(answers[a], answer(u, s))
        /\ \A b \in Addons : b # a => answers'[b] = answers[b]
    BY <2>2, <2>3 DEF TypeOK
  <2>6. TypeOK'
    BY <2>1, <2>4, <2>5 DEF TypeOK
  <2>7. ASSUME Asked(a) PROVE Answered(a)'
    <3>1. answers'[a] = <<answer(u, s)>> /\ inbox[a].number = number
      BY <2>5, <2>7 DEF Asked
    <3> QED
      BY <2>1, <2>3, <2>4, <3>1 DEF Answered
  <2>8. Exchange'
    <3> SUFFICES ASSUME NEW b \in Addons
                 PROVE  /\ session[b].state = "none" => Quiet(b)'
                        /\ session[b].state = "active" =>
                             IF b = at /\ link # "idle"
                             THEN Asked(b)' \/ Answered(b)' ELSE Quiet(b)'
      BY <2>1 DEF Exchange
    <3>1. CASE b = a
      BY <2>1, <2>7, <3>1 DEF Exchange, Quiet, Answered
    <3>2. CASE b # a
      BY <2>1, <2>4, <2>5, <3>2 DEF Exchange, Quiet, Asked, Answered
    <3> QED
      BY <3>1, <3>2
  <2> QED
    BY <2>1, <2>6, <2>8, EnvironmentKeeps
<1>3. CASE Die(a)
  <2>1. /\ alive' \subseteq Addons
        /\ UNCHANGED <<pc, at, link, number, round, session, batch, inbox, answers>>
    BY <1>3 DEF Die, TypeOK
  <2>2. TypeOK' /\ Exchange'
    BY <2>1 DEF TypeOK, Exchange, Quiet, Asked, Answered
  <2> QED
    BY <2>1, <2>2, EnvironmentKeeps
<1> QED
  BY <1>1, <1>2, <1>3

-----------------------------------------------------------------------------
LEMMA NextIInv == IInv /\ [Next]_vars => IInv'
<1>1. IInv /\ UNCHANGED vars => IInv'
  BY DEF IInv, vars, TypeOK, Exchange, Talking, Spawning, Collected, Counted,
         Quiet, Asked, Answered
<1> QED
  BY <1>1, SpawnIInv, EndLoopIInv, SkipDisabledIInv, WriteIInv, WrittenIInv,
     NoAnswerIInv, ReceiveIInv, EnvironmentIInv DEF Next, Host

\* The inductive invariant of the host and its addons.
THEOREM Invariance == Spec => []IInv
BY InitIInv, NextIInv, PTL DEF Spec

\* The host's bookkeeping has its types, and no session counts more score
\* batches than were asked for.
THEOREM TypeCorrect == Spec => []TypeOK
<1>1. IInv => TypeOK
  BY DEF IInv
<1> QED
  BY Invariance, <1>1, PTL

\* A score that Session::request accepts answers the request just written.
THEOREM AnswersAreMatched == Spec => AnswersMatchRequests
<1>1. ASSUME IInv, Next, link = "waiting",
             session'[at].batches > session[at].batches
      PROVE  Head(answers[at]).number = number
  <2>1. at \in Addons /\ session[at].batches \in Nat
    BY <1>1, BatchesAreNat DEF IInv, TypeOK
  <2>2. ~(session'[at].batches = session[at].batches)
    BY <1>1, <2>1
  <2>3. UNCHANGED session => FALSE
    BY <2>2
  <2>4. Fail => FALSE
    <3> SUFFICES ASSUME Fail PROVE FALSE
      OBVIOUS
    <3>1. PICK state \in {"disabled", "closed"} :
            session' = [session EXCEPT ![at].state = state]
      BY DEF Fail
    <3> QED
      BY <1>1, <2>1, <2>2, <3>1, StateChanged DEF IInv
  <2>5. pc # "spawn"
    BY <1>1 DEF IInv, TypeOK, RequestKinds
  <2>6. Receive
    BY <1>1, <2>3, <2>4, <2>5 DEF Next, Host, Environment, Spawn, EndLoop,
       SkipDisabled, Write, Ready, Written, NoAnswer, Read, Answer, Die
  <2> QED
    BY <1>1, <2>6, AnswerIsCurrent
<1>2. ASSUME IInv, [Next]_vars
      PROVE  [(link = "waiting" /\ session'[at].batches > session[at].batches) =>
                Head(answers[at]).number = number]_vars
  BY <1>1, <1>2
<1> QED
  BY Invariance, <1>2, PTL DEF Spec, AnswersMatchRequests

\* A finished round holds signals of exactly the enabled addons.
THEOREM RoundsAreComplete == Spec => []RoundIsComplete
<1>1. IInv => RoundIsComplete
  BY HostAssumption DEF IInv, Collected, RoundIsComplete, Addons
<1> QED
  BY Invariance, <1>1, PTL

-----------------------------------------------------------------------------
(***************************************************************************)
(* The log of diagnostics.                                                 *)
(***************************************************************************)
Entries == [addon : Addons, state : {"failed", "prepared"}, prepared : BOOLEAN,
            batches : Nat, accepted : Nat]

\* An addon that has not been started has had its turn when it has failed.
HadItsTurn(a) == pc # "spawn" \/ a < at

\* What the log says of one addon.
Fate(a) ==
  /\ \A i, j \in Preparations(a) : i = j
  /\ \A i, j \in Failures(a) : i = j
  /\ session[a].prepared <=> Preparations(a) # {}
  /\ Failures(a) # {} <=> \/ session[a].state = "disabled"
                          \/ session[a].state = "none" /\ HadItsTurn(a)
  /\ \A i \in Preparations(a) \cup Failures(a) :
       diagnostics[i].accepted = session[a].accepted
  /\ session[a].state = "none" => ~session[a].prepared /\ session[a].accepted = 0

\* Each addon is prepared once, in its turn of the describe loop.
Unprepared ==
  pc \in {"spawn", "describe", "prepare"} =>
    \A a \in Addons : pc = "spawn" \/ a >= at => ~session[a].prepared

DInv ==
  /\ IInv
  /\ diagnostics \in Seq(Entries)
  /\ \A a \in Addons : Fate(a)
  /\ Unprepared

\* The log changes in one place only, which is or becomes an entry of b.
LogChanges(b, k, e) ==
  /\ diagnostics' \in Seq(Entries)
  /\ DOMAIN diagnostics' = DOMAIN diagnostics \cup {k}
  /\ diagnostics'[k] = e /\ e.addon = b
  /\ \A i \in DOMAIN diagnostics : i # k => diagnostics'[i] = diagnostics[i]
  /\ k \in DOMAIN diagnostics => diagnostics[k].addon = b

LEMMA AppendChanges ==
  ASSUME DInv, NEW b \in Addons, NEW e \in Entries, e.addon = b,
         diagnostics' = Append(diagnostics, e)
  PROVE  /\ LogChanges(b, Len(diagnostics) + 1, e)
         /\ Len(diagnostics) + 1 \notin DOMAIN diagnostics
BY DEF DInv, LogChanges

\* What the change means for the addon it is about ...
LEMMA OwnEntries ==
  ASSUME DInv, NEW b \in Addons, NEW k, NEW e \in Entries, LogChanges(b, k, e)
  PROVE  /\ Preparations(b)' = IF e.state = "prepared" THEN Preparations(b) \cup {k}
                               ELSE Preparations(b) \ {k}
         /\ Failures(b)' = IF e.state = "failed" THEN Failures(b) \cup {k}
                           ELSE Failures(b) \ {k}
BY DEF LogChanges, Preparations, Failures, Entries

\* ... and for the others.
LEMMA OthersKeep ==
  ASSUME DInv, NEW a \in Addons, NEW b \in Addons, a # b,
         session'[a] = session[a], HadItsTurn(a)' <=> HadItsTurn(a),
         \/ UNCHANGED diagnostics
         \/ \E k : \E e \in Entries : LogChanges(b, k, e)
  PROVE  Fate(a)'
<1>1. /\ Preparations(a)' = Preparations(a) /\ Failures(a)' = Failures(a)
      /\ \A i \in Preparations(a) \cup Failures(a) : diagnostics'[i] = diagnostics[i]
  <2>1. CASE UNCHANGED diagnostics
    BY <2>1 DEF Preparations, Failures
  <2>2. CASE \E k : \E e \in Entries : LogChanges(b, k, e)
    <3>1. PICK k : \E e \in Entries : LogChanges(b, k, e)
      BY <2>2
    <3>2. PICK e \in Entries : LogChanges(b, k, e)
      BY <3>1
    <3> QED
      BY <3>2 DEF LogChanges, Preparations, Failures
  <2> QED
    BY <2>1, <2>2
<1>2. Fate(a)
  BY DEF DInv
<1> QED
  BY <1>1, <1>2 DEF Fate

LEMMA InitDInv == Init => DInv
<1> SUFFICES ASSUME Init PROVE DInv
  OBVIOUS
<1>1. IInv
  BY InitIInv
<1>2. diagnostics = <<>> /\ diagnostics \in Seq(Entries) /\ DOMAIN diagnostics = {}
  BY DEF Init
<1>3. \A a \in Addons : session[a] = NewSession
  BY DEF Init
<1>4. pc = "spawn" /\ at = 1 /\ \A a \in Addons : ~HadItsTurn(a)
  BY HostAssumption DEF Init, HadItsTurn, Addons
<1>5. \A a \in Addons : Fate(a)
  BY <1>2, <1>3, <1>4 DEF Fate, NewSession, Preparations, Failures
<1>6. Unprepared
  BY <1>3 DEF Unprepared, NewSession
<1> QED
  BY <1>1, <1>2, <1>5, <1>6 DEF DInv

\* A step that changes neither the sessions nor the log.
LEMMA LogKept ==
  ASSUME DInv, IInv', UNCHANGED <<session, diagnostics>>,
         \A a \in Addons : HadItsTurn(a)' <=> HadItsTurn(a), Unprepared'
  PROVE  DInv'
<1>1. \A a \in Addons : Preparations(a)' = Preparations(a) /\ Failures(a)' = Failures(a)
  BY DEF Preparations, Failures
<1>2. ASSUME NEW a \in Addons PROVE Fate(a)'
  <2>1. Fate(a)
    BY DEF DInv
  <2> QED
    BY <1>1, <2>1 DEF Fate
<1> QED
  BY <1>2 DEF DInv

\* A step about one addon: the others keep what they have.
LEMMA OneChanges ==
  ASSUME DInv, IInv', NEW b \in Addons, Fate(b)', Unprepared',
         \A a \in Addons : a # b => /\ session'[a] = session[a]
                                    /\ HadItsTurn(a)' <=> HadItsTurn(a),
         \/ UNCHANGED diagnostics
         \/ \E k : \E e \in Entries : LogChanges(b, k, e)
  PROVE  DInv'
<1>1. \A a \in Addons : Fate(a)'
  BY OthersKeep
<1>2. diagnostics' \in Seq(Entries)
  BY DEF DInv, LogChanges
<1> QED
  BY <1>1, <1>2 DEF DInv

\* A change of state leaves what the session has counted.
LEMMA CountsKept ==
  ASSUME TypeOK, NEW b \in Addons,
         NEW state \in {"none", "active", "disabled", "closed"},
         session' = [session EXCEPT ![b].state = state]
  PROVE  /\ session'[b].state = state
         /\ session'[b].prepared = session[b].prepared
         /\ session'[b].accepted = session[b].accepted
         /\ \A a \in Addons : a # b => session'[a] = session[a]
<1>1. session'[b] = [session[b] EXCEPT !.state = state] /\ session[b] \in Sessions
  BY DEF TypeOK
<1>2. /\ session'[b].state = state
      /\ session'[b].prepared = session[b].prepared
      /\ session'[b].accepted = session[b].accepted
  BY <1>1 DEF Sessions
<1>3. \A a \in Addons : a # b => session'[a] = session[a]
  BY DEF TypeOK
<1> QED
  BY <1>2, <1>3

\* What a diagnostic takes from the session.
LEMMA DiagnosticIs ==
  ASSUME NEW b \in Addons, NEW state \in {"failed", "prepared"}, NEW s \in Sessions
  PROVE  /\ Diagnostic(b, state, s) \in Entries
         /\ Diagnostic(b, state, s).addon = b
         /\ Diagnostic(b, state, s).state = state
         /\ Diagnostic(b, state, s).accepted = s.accepted
<1>1. s.prepared \in BOOLEAN /\ s.batches \in Nat /\ s.accepted \in Nat
  BY HostAssumption DEF Sessions
<1> QED
  BY <1>1 DEF Diagnostic, Entries

LEMMA SpawnDInv ==
  ASSUME DInv, IInv', Spawn, NEW b \in Addons, b = at
  PROVE  DInv'
<1>1. /\ pc = "spawn" /\ pc' = "spawn" /\ at' = at + 1 /\ at \in Int
      /\ session[b].state = "none"
  BY HostAssumption DEF Spawn, DInv, IInv, TypeOK, Addons, Spawning
<1>2. /\ \A a \in Addons : a # b => (HadItsTurn(a)' <=> HadItsTurn(a))
      /\ ~HadItsTurn(b) /\ HadItsTurn(b)'
  BY <1>1, HostAssumption DEF HadItsTurn, Addons
<1>3. Fate(b) /\ ~session[b].prepared
  BY <1>1 DEF DInv, Unprepared
<1>4. Preparations(b) = {} /\ Failures(b) = {} /\ session[b].accepted = 0
  BY <1>1, <1>2, <1>3 DEF Fate
<1>5. CASE /\ session' = [session EXCEPT ![at].state = "active"]
           /\ UNCHANGED diagnostics
  <2>1. /\ session'[b].state = "active" /\ session'[b].prepared = session[b].prepared
        /\ \A a \in Addons : a # b => session'[a] = session[a]
    BY <1>5, CountsKept DEF DInv, IInv
  <2>2. Preparations(b)' = {} /\ Failures(b)' = {}
    BY <1>4, <1>5 DEF Preparations, Failures
  <2>3. Fate(b)'
    BY <1>3, <2>1, <2>2 DEF Fate
  <2>4. Unprepared'
    BY <1>1, <1>3, <2>1 DEF DInv, Unprepared
  <2> QED
    BY <1>2, <1>5, <2>1, <2>3, <2>4, OneChanges
<1>6. CASE /\ diagnostics' = Append(diagnostics, Diagnostic(at, "failed", NewSession))
           /\ UNCHANGED session
  <2> DEFINE e == Diagnostic(b, "failed", NewSession)
             k == Len(diagnostics) + 1
  <2>1. NewSession \in Sessions /\ NewSession.accepted = 0
    BY HostAssumption DEF NewSession, Sessions
  <2>2. e \in Entries /\ e.addon = b /\ e.state = "failed" /\ e.accepted = 0
    BY <2>1, DiagnosticIs
  <2> HIDE DEF e
  <2>3. LogChanges(b, k, e) /\ k \notin DOMAIN diagnostics
    BY <1>6, <2>2, AppendChanges DEF e
  <2> HIDE DEF k
  <2>4. Preparations(b)' = {} /\ Failures(b)' = {k}
    BY <1>4, <2>2, <2>3, OwnEntries
  <2>5. Fate(b)'
    BY <1>1, <1>2, <1>3, <1>4, <1>6, <2>2, <2>3, <2>4 DEF Fate, LogChanges
  <2>6. Unprepared'
    BY <1>1, <1>6 DEF DInv, Unprepared
  <2> QED
    BY <1>2, <1>6, <2>2, <2>3, <2>5, <2>6, OneChanges
<1> QED
  BY <1>5, <1>6 DEF Spawn

LEMMA EndLoopDInv ==
  ASSUME DInv, IInv', EndLoop
  PROVE  DInv'
<1>1. /\ UNCHANGED <<session, diagnostics>> /\ at = N + 1 /\ pc' = NextPhase
      /\ pc \in {"spawn", "done"} \cup RequestKinds
  BY DEF EndLoop, DInv, IInv, TypeOK
<1>2. pc' # "spawn" /\ (pc' \in {"describe", "prepare"} => pc = "spawn")
  BY <1>1 DEF NextPhase
<1>3. \A a \in Addons : HadItsTurn(a)' /\ HadItsTurn(a)
  BY <1>1, <1>2, HostAssumption DEF HadItsTurn, Addons
<1>4. Unprepared'
  BY <1>1, <1>2 DEF DInv, Unprepared
<1> QED
  BY <1>1, <1>3, <1>4, LogKept

LEMMA SkipDInv ==
  ASSUME DInv, IInv', SkipDisabled
  PROVE  DInv'
<1>1. /\ UNCHANGED <<session, diagnostics, pc>> /\ pc # "spawn"
      /\ at' = at + 1 /\ at \in Int
  BY HostAssumption DEF SkipDisabled, RequestKinds, DInv, IInv, TypeOK
<1>2. \A a \in Addons : HadItsTurn(a)' /\ HadItsTurn(a)
  BY <1>1 DEF HadItsTurn
<1>3. Unprepared'
  BY <1>1 DEF DInv, Unprepared, Addons
<1> QED
  BY <1>1, <1>2, <1>3, LogKept

\* The host goes on with the same addon.
LEMMA SameTurnDInv ==
  ASSUME DInv, IInv', UNCHANGED <<session, diagnostics, at>>,
         pc' = pc \/ (pc = "describe" /\ pc' = "prepare")
  PROVE  DInv'
<1>1. \A a \in Addons : HadItsTurn(a)' <=> HadItsTurn(a)
  BY DEF HadItsTurn
<1>2. Unprepared'
  BY DEF DInv, Unprepared
<1> QED
  BY <1>1, <1>2, LogKept

\* The end of a turn: what it may have done to the session and the log of the
\* addon whose turn it was.
LEMMA TurnEndsDInv ==
  ASSUME DInv, IInv', EndTurn, pc \in RequestKinds, NEW b \in Addons, b = at, Fate(b)',
         \A a \in Addons : a # b => session'[a] = session[a],
         \/ UNCHANGED diagnostics
         \/ \E k : \E e \in Entries : LogChanges(b, k, e)
  PROVE  DInv'
<1>1. /\ pc # "spawn" /\ pc' # "spawn" /\ at' = at + 1 /\ at \in Int
      /\ pc' \in {"describe", "prepare"} => pc \in {"describe", "prepare"}
  BY HostAssumption DEF EndTurn, RequestKinds, DInv, IInv, TypeOK
<1>2. \A a \in Addons : HadItsTurn(a)' /\ HadItsTurn(a)
  BY <1>1 DEF HadItsTurn
<1>3. Unprepared'
  BY <1>1 DEF DInv, Unprepared, Addons
<1> QED
  BY <1>2, <1>3, OneChanges

LEMMA FailDInv ==
  ASSUME DInv, IInv', Fail, pc \in RequestKinds, NEW b \in Addons, b = at,
         session[b].state = "active"
  PROVE  DInv'
<1>1. EndTurn /\ pc' # "spawn" /\ pc # "spawn"
  BY DEF Fail, EndTurn, RequestKinds
<1>2. Fate(b) /\ session[b] \in Sessions
  BY DEF DInv, IInv, TypeOK
<1>3. Failures(b) = {}
  BY <1>2 DEF Fate
<1>4. CASE pc = "close"
  <2>1. session' = [session EXCEPT ![b].state = "closed"] /\ UNCHANGED diagnostics
    BY <1>4 DEF Fail
  <2>2. /\ session'[b].state = "closed"
        /\ session'[b].prepared = session[b].prepared
        /\ session'[b].accepted = session[b].accepted
        /\ \A a \in Addons : a # b => session'[a] = session[a]
    BY <2>1, CountsKept DEF DInv, IInv
  <2>3. Preparations(b)' = Preparations(b) /\ Failures(b)' = {}
    BY <1>3, <2>1 DEF Preparations, Failures
  <2>4. Fate(b)'
    BY <1>2, <2>1, <2>2, <2>3 DEF Fate
  <2> QED
    BY <1>1, <2>1, <2>2, <2>4, TurnEndsDInv
<1>5. CASE pc # "close"
  <2> DEFINE e == Diagnostic(b, "failed", session[b])
             k == Len(diagnostics) + 1
  <2>1. /\ session' = [session EXCEPT ![b].state = "disabled"]
        /\ diagnostics' = Append(diagnostics, e)
    BY <1>5 DEF Fail
  <2>2. /\ session'[b].state = "disabled"
        /\ session'[b].prepared = session[b].prepared
        /\ session'[b].accepted = session[b].accepted
        /\ \A a \in Addons : a # b => session'[a] = session[a]
    BY <2>1, CountsKept DEF DInv, IInv
  <2>3. /\ e \in Entries /\ e.addon = b /\ e.state = "failed"
        /\ e.accepted = session[b].accepted
    BY <1>2, DiagnosticIs
  <2> HIDE DEF e
  <2>4. LogChanges(b, k, e) /\ k \notin DOMAIN diagnostics
    BY <2>1, <2>3, AppendChanges
  <2> HIDE DEF k
  <2>5. Preparations(b)' = Preparations(b) /\ Failures(b)' = {k}
    <3>1. k \notin Preparations(b)
      BY <2>4 DEF Preparations
    <3>2. /\ Preparations(b)' = Preparations(b) \ {k}
          /\ Failures(b)' = Failures(b) \cup {k}
      BY <2>3, <2>4, OwnEntries
    <3> QED
      BY <1>3, <3>1, <3>2
  <2>6. \A i \in Preparations(b)' \cup Failures(b)' :
          diagnostics'[i].accepted = session'[b].accepted
    <3>1. \A i \in Preparations(b) : diagnostics'[i] = diagnostics[i]
      BY <2>4 DEF LogChanges, Preparations
    <3>2. \A i \in Preparations(b) : diagnostics[i].accepted = session[b].accepted
      BY <1>2 DEF Fate
    <3>3. diagnostics'[k] = e
      BY <2>4 DEF LogChanges
    <3> QED
      BY <2>2, <2>3, <2>5, <3>1, <3>2, <3>3
  <2>7. Fate(b)'
    BY <1>2, <2>2, <2>5, <2>6 DEF Fate
  <2> QED
    BY <1>1, <2>2, <2>3, <2>4, <2>7, TurnEndsDInv
<1> QED
  BY <1>4, <1>5

\* The addon that is prepared in its turn has no preparation in the log yet.
LEMMA PrepareDInv ==
  ASSUME DInv, IInv', Accept(Head(answers[at])), pc = "prepare",
         NEW b \in Addons, b = at, session[b].state = "active"
  PROVE  DInv'
<1> DEFINE s == [session[b] EXCEPT !.prepared = TRUE]
           e == Diagnostic(b, "prepared", s)
           k == Len(diagnostics) + 1
<1>1. /\ EndTurn /\ pc \in RequestKinds
      /\ session' = [session EXCEPT ![b] = s]
      /\ diagnostics' = Append(diagnostics, e)
  BY DEF Accept, RequestKinds
<1>2. Fate(b) /\ session[b] \in Sessions /\ ~session[b].prepared /\ session \in [Addons -> Sessions]
  BY DEF DInv, IInv, TypeOK, Unprepared, Addons
<1>3. /\ s \in Sessions /\ s.prepared = TRUE /\ s.state = "active"
      /\ s.accepted = session[b].accepted
  BY <1>2 DEF Sessions
<1>4. Preparations(b) = {} /\ Failures(b) = {}
  BY <1>2 DEF Fate
<1> HIDE DEF s
<1>5. /\ e \in Entries /\ e.addon = b /\ e.state = "prepared" /\ e.accepted = s.accepted
  BY <1>3, DiagnosticIs
<1> HIDE DEF e
<1>6. /\ session'[b] = s
      /\ \A a \in Addons : a # b => session'[a] = session[a]
  BY <1>1, <1>2
<1>7. LogChanges(b, k, e)
  BY <1>1, <1>5, AppendChanges
<1> HIDE DEF k
<1>8. Preparations(b)' = {k} /\ Failures(b)' = {}
  BY <1>4, <1>5, <1>7, OwnEntries
<1>9. diagnostics'[k] = e
  BY <1>7 DEF LogChanges
<1>10. Fate(b)'
  BY <1>3, <1>5, <1>6, <1>8, <1>9 DEF Fate
<1> QED
  BY <1>1, <1>5, <1>6, <1>7, <1>10, TurnEndsDInv

\* The one preparation of the addon is what a score brings up to date.
LEMMA ScoreDInv ==
  ASSUME DInv, IInv', Accept(Head(answers[at])), pc = "score",
         Head(answers[at]).signals \in Nat,
         NEW b \in Addons, b = at, session[b].state = "active"
  PROVE  DInv'
<1> DEFINE answer == Head(answers[at])
           s == [session[b] EXCEPT !.batches = @ + 1, !.accepted = @ + answer.signals]
           e == Diagnostic(b, "prepared", s)
<1>1. /\ EndTurn /\ pc \in RequestKinds
      /\ session' = [session EXCEPT ![b] = s]
      /\ diagnostics' = Refreshed(diagnostics, b, s)
  BY DEF Accept, RequestKinds
<1>2. Fate(b) /\ session[b] \in Sessions /\ session \in [Addons -> Sessions]
  BY DEF DInv, IInv, TypeOK
<1>3. session'[b] = s /\ \A a \in Addons : a # b => session'[a] = session[a]
  BY <1>1, <1>2
<1>4. session' \in [Addons -> Sessions]
  BY DEF IInv, TypeOK
<1>5. s \in Sessions
  BY <1>3, <1>4
<1>6. s.prepared = session[b].prepared /\ s.state = "active"
  BY <1>2 DEF Sessions
<1>7. Failures(b) = {}
  BY <1>2 DEF Fate
<1> HIDE DEF s
<1>8. e \in Entries /\ e.addon = b /\ e.state = "prepared" /\ e.accepted = s.accepted
  BY <1>5, DiagnosticIs
<1> HIDE DEF e
<1>9. Preparations(b) = {i \in DOMAIN diagnostics :
                            diagnostics[i].addon = b /\ diagnostics[i].state = "prepared"}
  BY DEF Preparations
<1>10. CASE Preparations(b) = {}
  <2>1. UNCHANGED diagnostics
    BY <1>1, <1>9, <1>10 DEF Refreshed
  <2>2. Preparations(b)' = {} /\ Failures(b)' = {}
    BY <1>7, <1>10, <2>1 DEF Preparations, Failures
  <2>3. Fate(b)'
    BY <1>2, <1>3, <1>6, <1>10, <2>2 DEF Fate
  <2> QED
    BY <1>1, <1>3, <2>1, <2>3, TurnEndsDInv
<1>11. CASE Preparations(b) # {}
  <2>1. PICK k \in Preparations(b) : TRUE
    BY <1>11
  <2>2. Preparations(b) = {k}
    BY <1>2, <2>1 DEF Fate
  <2>3. k \in DOMAIN diagnostics /\ diagnostics[k].addon = b /\ k \in Int
        /\ diagnostics \in Seq(Entries)
    BY <2>1 DEF Preparations, DInv
  <2>4. (CHOOSE i \in Preparations(b) : \A j \in Preparations(b) : j <= i) = k
    BY <2>2, <2>3
  <2>5. diagnostics' = [diagnostics EXCEPT ![k] = e]
    BY <1>1, <1>9, <1>11, <2>4 DEF Refreshed, e
  <2>6. LogChanges(b, k, e)
    <3>1. diagnostics' \in Seq(Entries) /\ DOMAIN diagnostics' = DOMAIN diagnostics
      BY <1>8, <2>3, <2>5
    <3>2. /\ diagnostics'[k] = e
          /\ \A i \in DOMAIN diagnostics : i # k => diagnostics'[i] = diagnostics[i]
      BY <2>3, <2>5
    <3> QED
      BY <1>8, <2>3, <3>1, <3>2 DEF LogChanges
  <2>7. Preparations(b)' = {k} /\ Failures(b)' = {}
    BY <1>7, <1>8, <2>2, <2>6, OwnEntries
  <2>8. diagnostics'[k] = e
    BY <2>6 DEF LogChanges
  <2>9. session[b].prepared
    BY <1>2, <1>11 DEF Fate
  <2>10. Fate(b)'
    BY <1>3, <1>6, <1>8, <2>7, <2>8, <2>9 DEF Fate
  <2> QED
    BY <1>1, <1>3, <1>8, <2>6, <2>10, TurnEndsDInv
<1> QED
  BY <1>10, <1>11

LEMMA CloseDInv ==
  ASSUME DInv, IInv', Accept(Head(answers[at])), pc = "close",
         NEW b \in Addons, b = at, session[b].state = "active"
  PROVE  DInv'
<1>1. /\ EndTurn /\ pc \in RequestKinds /\ UNCHANGED diagnostics
      /\ session' = [session EXCEPT ![b].state = "closed"]
  BY DEF Accept, RequestKinds
<1>2. /\ session'[b].state = "closed"
      /\ session'[b].prepared = session[b].prepared
      /\ session'[b].accepted = session[b].accepted
      /\ \A a \in Addons : a # b => session'[a] = session[a]
  BY <1>1, CountsKept DEF DInv, IInv
<1>3. Fate(b)
  BY DEF DInv
<1>4. Preparations(b)' = Preparations(b) /\ Failures(b)' = {}
  BY <1>1, <1>3 DEF Fate, Preparations, Failures
<1>5. Fate(b)'
  BY <1>1, <1>2, <1>3, <1>4 DEF Fate
<1> QED
  BY <1>1, <1>2, <1>5, TurnEndsDInv

LEMMA ReceiveDInv ==
  ASSUME DInv, IInv', Receive
  PROVE  DInv'
<1>1. /\ at \in Addons /\ pc \in RequestKinds /\ session[at].state = "active"
      /\ Head(answers[at]) \in Answers
  BY AnswerIsCurrent DEF DInv
<1>2. PICK b \in Addons : b = at
  BY <1>1
<1>3. Accept(Head(answers[at])) \/ Fail
  BY DEF Receive
<1>4. CASE Fail
  BY <1>1, <1>2, <1>4, FailDInv
<1>5. CASE Accept(Head(answers[at]))
  <2>1. CASE pc = "describe"
    <3>1. UNCHANGED <<session, diagnostics, at>> /\ pc' = "prepare"
      BY <1>5, <2>1 DEF Accept
    <3> QED
      BY <2>1, <3>1, SameTurnDInv
  <2>2. CASE pc = "prepare"
    BY <1>1, <1>2, <1>5, <2>2, PrepareDInv
  <2>3. CASE pc = "score"
    <3>1. Head(answers[at]).signals \in Nat
      BY <1>1, HostAssumption DEF Answers
    <3> QED
      BY <1>1, <1>2, <1>5, <2>3, <3>1, ScoreDInv
  <2>4. CASE pc = "close"
    BY <1>1, <1>2, <1>5, <2>4, CloseDInv
  <2> QED
    BY <1>1, <2>1, <2>2, <2>3, <2>4 DEF RequestKinds
<1> QED
  BY <1>3, <1>4, <1>5

LEMMA NextDInv == DInv /\ [Next]_vars => DInv'
<1> SUFFICES ASSUME DInv, [Next]_vars PROVE DInv'
  OBVIOUS
<1>1. IInv'
  BY NextIInv DEF DInv
<1>2. CASE Spawn
  <2>1. PICK b \in Addons : b = at
    BY <1>2, HostAssumption DEF Spawn, DInv, IInv, TypeOK, Addons
  <2> QED
    BY <1>1, <1>2, <2>1, SpawnDInv
<1>3. CASE EndLoop
  BY <1>1, <1>3, EndLoopDInv
<1>4. CASE SkipDisabled
  BY <1>1, <1>4, SkipDInv
<1>5. CASE Write
  <2>1. Ready /\ (Fail \/ UNCHANGED <<session, diagnostics, at, pc>>)
    BY <1>5 DEF Write
  <2>2. PICK b \in Addons : b = at
    BY <2>1, HostAssumption DEF Ready, DInv, IInv, TypeOK, Addons
  <2> QED
    BY <1>1, <2>1, <2>2, FailDInv, SameTurnDInv DEF Ready
<1>6. CASE Written \/ NoAnswer
  <2>1. Fail \/ UNCHANGED <<session, diagnostics, at, pc>>
    BY <1>6 DEF Written, NoAnswer
  <2>2. at \in Addons /\ pc \in RequestKinds /\ session[at].state = "active"
    BY <1>6 DEF Written, NoAnswer, DInv, IInv, TypeOK, Talking
  <2>3. PICK b \in Addons : b = at
    BY <2>2
  <2> QED
    BY <1>1, <2>1, <2>2, <2>3, FailDInv, SameTurnDInv
<1>7. CASE Receive
  BY <1>1, <1>7, ReceiveDInv
<1>8. CASE Environment
  <2>1. UNCHANGED <<session, diagnostics, at, pc>>
    BY <1>8 DEF Environment, Read, Answer, Die
  <2> QED
    BY <1>1, <2>1, SameTurnDInv
<1>9. CASE UNCHANGED vars
  <2>1. UNCHANGED <<session, diagnostics, at, pc>>
    BY <1>9 DEF vars
  <2> QED
    BY <1>1, <2>1, SameTurnDInv
<1> QED
  BY <1>2, <1>3, <1>4, <1>5, <1>6, <1>7, <1>8, <1>9 DEF Next, Host

\* The log, the sessions and the turns of every reachable state.
THEOREM LogInvariance == Spec => []DInv
BY InitDInv, NextDInv, PTL DEF Spec

\* Whatever the addons do, the diagnostics tell the fate of each: at most one
\* preparation and one failure, each there exactly when it happened, and the
\* counts of both those of the session.
THEOREM DiagnosticsStayCurrent == Spec => []DiagnosticsAreCurrent
<1>1. DInv => DiagnosticsAreCurrent
  <2> SUFFICES ASSUME DInv, NEW a \in Addons
               PROVE  /\ Cardinality(Preparations(a)) = IF session[a].prepared THEN 1 ELSE 0
                      /\ Cardinality(Failures(a)) <= 1
                      /\ pc # "spawn" =>
                           (session[a].state \in {"none", "disabled"} <=> Failures(a) # {})
                      /\ \A i \in Preparations(a) \cup Failures(a) :
                           diagnostics[i].accepted = session[a].accepted
    BY DEF DiagnosticsAreCurrent
  <2>1. Fate(a)
    BY DEF DInv
  <2>2. ASSUME NEW S, \A i, j \in S : i = j
        PROVE  Cardinality(S) = IF S = {} THEN 0 ELSE 1
    <3>1. CASE S = {}
      BY <3>1, FS_EmptySet
    <3>2. CASE S # {}
      <4>1. PICK x \in S : TRUE
        BY <3>2
      <4>2. S = {x}
        BY <2>2, <4>1
      <4> QED
        BY <3>2, <4>2, FS_Singleton
    <3> QED
      BY <3>1, <3>2
  <2>3. /\ Cardinality(Preparations(a)) = IF Preparations(a) = {} THEN 0 ELSE 1
        /\ Cardinality(Failures(a)) = IF Failures(a) = {} THEN 0 ELSE 1
    BY <2>1, <2>2 DEF Fate
  <2> QED
    BY <2>1, <2>3 DEF Fate, HadItsTurn
<1> QED
  BY <1>1, LogInvariance, PTL
=============================================================================
