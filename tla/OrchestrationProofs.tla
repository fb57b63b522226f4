------------------------ MODULE OrchestrationProofs ------------------------
(***************************************************************************)
(* Proofs about what keeps an experiment going, for any numbers of actors: *)
(* the outbox with the experiment's workflow, and the waits of builders    *)
(* with the supervisor that runs them.                                     *)
(***************************************************************************)
EXTENDS Dispatch, TeamRun, FiniteSetTheorems, WellFoundedInduction, TLAPS

USE DispatchAssumption

\* A delivery attempt that reports success had its effect: the workflow has the
\* command, or it ended by a cancellation and needs none.
SuccessTookEffect ==
    \A d \in Dispatcher, c \in Command :
        call[d][c].at = "ok" => c \in wf.received \/ wf.status = "cancelled"

\* An execution of the activity has made every branch that its position is past.
BranchesPassed ==
    \A e \in activity : \A m \in Model : 2 * m =< e.pos => branches[m] >= 1

\* A workflow that was not started received nothing.
NothingBefore == wf.status = "none" => wf.received = {}

DispatchInv ==
    /\ DispatchTypeOK
    /\ NothingBefore
    /\ SuccessTookEffect
    /\ DeliveredTookEffect
    /\ BranchesPassed
    /\ SeededOnce

LEMMA InitDispatch == DispatchInit => DispatchInv
<1> SUFFICES ASSUME DispatchInit PROVE DispatchInv
  OBVIOUS
<1>1. wf \in Workflow
  BY DEF DispatchInit, Workflow
<1>2. outbox \in [Command -> Row]
  <2> DEFINE row == [kind |-> "created", state |-> "absent", owner |-> Nobody,
                     attempts |-> 0, waits |-> FALSE]
  <2>1. row \in Row
    BY DEF Row, RowState, Status
  <2>2. outbox = [c \in Command |-> row]
    BY DEF DispatchInit
  <2> HIDE DEF row
  <2>3. QED BY <2>1, <2>2
<1>7. call \in [Dispatcher -> [Command -> Call]]
  <2>1. NoCall \in Call
    BY DEF Call, NoCall, At
  <2>2. QED BY <2>1 DEF DispatchInit
<1>3. DispatchTypeOK
  <2>1. experiment \in Status /\ activity = {} /\ faults \in 0 .. MaxFaults
    BY DEF DispatchInit, Status
  <2>2. branches \in [Model -> Nat] /\ tasks \in [Model -> Nat]
    BY DEF DispatchInit
  <2>3. QED BY <1>1, <1>2, <1>7, <2>1, <2>2 DEF DispatchTypeOK
<1>4. NothingBefore /\ SuccessTookEffect /\ DeliveredTookEffect
  BY DEF DispatchInit, NothingBefore, SuccessTookEffect, DeliveredTookEffect, NoCall
<1>5. BranchesPassed /\ SeededOnce
  BY DEF DispatchInit, BranchesPassed, SeededOnce
<1>6. QED BY <1>3, <1>4, <1>5 DEF DispatchInv

\* The steps of the outbox: the experiment changes, a row is claimed, its lease or
\* backoff ends, an attempt fails or its dispatcher dies.
OutboxStep ==
    \/ \E a \in DOMAIN Changes, c \in Command : ChangeExperiment(a, c)
    \/ \E d \in Dispatcher : Claim(d) \/ Crash(d)
    \/ \E d \in Dispatcher, c \in Command : AcknowledgeCommand(d, c) \/ DeliveryFails(d, c)
    \/ \E c \in Command : LeaseLapses(c) \/ BackoffEnds(c)

\* They leave the workflow and its activity alone, and make no attempt succeed.
LEMMA OutboxFrame ==
    ASSUME DispatchInv, DispatchTypeOK',
           wf' = wf, activity' = activity, branches' = branches, tasks' = tasks,
           \A d \in Dispatcher, c \in Command :
                call'[d][c].at = "ok" => call[d][c].at = "ok",
           \A c \in Command : outbox'[c].state = "delivered" =>
                \/ outbox[c].state = "delivered"
                \/ \E d \in Dispatcher : call[d][c].at = "ok"
    PROVE  DispatchInv'
<1>1. NothingBefore' /\ SuccessTookEffect'
  BY DEF DispatchInv, NothingBefore, SuccessTookEffect
<1>2. DeliveredTookEffect'
  BY DEF DispatchInv, SuccessTookEffect, DeliveredTookEffect
<1>3. BranchesPassed' /\ SeededOnce'
  BY DEF DispatchInv, BranchesPassed, SeededOnce
<1>4. QED BY <1>1, <1>2, <1>3 DEF DispatchInv

\* A fault is counted up to its bound.
LEMMA FaultCount == ASSUME DispatchTypeOK, Fault \/ Healthy PROVE faults' \in 0 .. MaxFaults
BY DEF DispatchTypeOK, Fault, Healthy

\* One row of the outbox, or one attempt, is updated.
LEMMA RowTypes ==
    ASSUME DispatchTypeOK, NEW c \in Command
    PROVE  /\ \A k \in Status, s \in RowState :
                [outbox EXCEPT ![c].kind = k, ![c].state = s] \in [Command -> Row]
           /\ \A s \in RowState, w \in BOOLEAN :
                [outbox EXCEPT ![c].state = s, ![c].waits = w] \in [Command -> Row]
           /\ \A w \in BOOLEAN : [outbox EXCEPT ![c].waits = w] \in [Command -> Row]
<1>1. outbox[c] \in Row
  BY DEF DispatchTypeOK
<1>2. /\ \A k \in Status, s \in RowState : [outbox[c] EXCEPT !.kind = k, !.state = s] \in Row
      /\ \A s \in RowState, w \in BOOLEAN : [outbox[c] EXCEPT !.state = s, !.waits = w] \in Row
      /\ \A w \in BOOLEAN : [outbox[c] EXCEPT !.waits = w] \in Row
  BY <1>1 DEF Row
<1>3. QED BY <1>2 DEF DispatchTypeOK

LEMMA CallTypes ==
    ASSUME DispatchTypeOK, NEW d \in Dispatcher, NEW c \in Command, NEW a \in At
    PROVE  /\ [call EXCEPT ![d][c].at = a] \in [Dispatcher -> [Command -> Call]]
           /\ [call EXCEPT ![d][c] = NoCall] \in [Dispatcher -> [Command -> Call]]
<1>1. call[d][c] \in Call /\ call[d] \in [Command -> Call] /\ NoCall \in Call
  BY DEF DispatchTypeOK, Call, NoCall, At
<1>2. [call[d][c] EXCEPT !.at = a] \in Call
  BY <1>1 DEF Call
<1>3. [call[d] EXCEPT ![c].at = a] \in [Command -> Call]
      /\ [call[d] EXCEPT ![c] = NoCall] \in [Command -> Call]
  BY <1>1, <1>2
<1>4. QED BY <1>3 DEF DispatchTypeOK

LEMMA OutboxKeeps == ASSUME DispatchInv, OutboxStep PROVE DispatchInv'
<1>1. DispatchTypeOK
  BY DEF DispatchInv
<1>2. ASSUME NEW a \in DOMAIN Changes, NEW c \in Command, ChangeExperiment(a, c)
      PROVE  DispatchInv'
  <2>1. experiment' \in Status
    BY <1>2 DEF ChangeExperiment, Changes, Status
  <2>2. outbox' \in [Command -> Row]
    BY <1>1, <1>2, <2>1, RowTypes DEF ChangeExperiment, RowState
  <2>3. DispatchTypeOK'
    BY <1>1, <1>2, <2>1, <2>2 DEF ChangeExperiment, DispatchTypeOK
  <2>4. \A b \in Command : outbox'[b].state = "delivered" => outbox[b].state = "delivered"
    BY <1>1, <1>2 DEF ChangeExperiment, DispatchTypeOK
  <2>5. QED BY <1>2, <2>3, <2>4, OutboxFrame DEF ChangeExperiment
<1>3. ASSUME NEW d \in Dispatcher, Claim(d) PROVE DispatchInv'
  <2>1. PICK S \in SUBSET Command :
          /\ outbox' = [c \in Command |->
                IF c \in S THEN [outbox[c] EXCEPT !.state = "dispatching", !.owner = d,
                                                  !.attempts = @ + 1, !.waits = TRUE]
                ELSE outbox[c]]
          /\ call' = [call EXCEPT ![d] = [c \in Command |->
                IF c \in S THEN [at |-> "start", attempt |-> outbox[c].attempts + 1]
                ELSE NoCall]]
    BY <1>3 DEF Claim
  <2>2. ASSUME NEW c \in Command
        PROVE  /\ [outbox[c] EXCEPT !.state = "dispatching", !.owner = d,
                                    !.attempts = @ + 1, !.waits = TRUE] \in Row
               /\ [at |-> "start", attempt |-> outbox[c].attempts + 1] \in Call
    <3>1. outbox[c] \in Row /\ outbox[c].attempts + 1 \in Nat
      BY <1>1 DEF DispatchTypeOK, Row
    <3>2. QED BY <3>1 DEF Row, RowState, Call, At
  <2>3. outbox' \in [Command -> Row]
    BY <1>1, <2>1, <2>2 DEF DispatchTypeOK
  <2>4. NoCall \in Call
    BY DEF NoCall, Call, At
  <2>5. call' \in [Dispatcher -> [Command -> Call]]
    BY <1>1, <2>1, <2>2, <2>4 DEF DispatchTypeOK
  <2>6. DispatchTypeOK'
    BY <1>1, <1>3, <2>3, <2>5 DEF Claim, DispatchTypeOK
  <2>7. \A b \in Command : outbox'[b].state = "delivered" => outbox[b].state = "delivered"
    BY <1>1, <2>1 DEF DispatchTypeOK, Row
  <2>8. \A e \in Dispatcher, c \in Command : call'[e][c].at = "ok" => call[e][c].at = "ok"
    BY <1>1, <2>1 DEF DispatchTypeOK, NoCall
  <2>9. QED BY <1>3, <2>6, <2>7, <2>8, OutboxFrame DEF Claim
<1>4. ASSUME NEW d \in Dispatcher, Crash(d) PROVE DispatchInv'
  <2>1. [c \in Command |-> NoCall] \in [Command -> Call]
    BY DEF NoCall, Call, At
  <2>2. DispatchTypeOK'
    BY <1>1, <1>4, <2>1, FaultCount DEF Crash, DispatchTypeOK
  <2>3. \A e \in Dispatcher, c \in Command : call'[e][c].at = "ok" => call[e][c].at = "ok"
    BY <1>1, <1>4 DEF Crash, DispatchTypeOK, NoCall
  <2>4. QED BY <1>4, <2>2, <2>3, OutboxFrame DEF Crash
<1>5. ASSUME NEW d \in Dispatcher, NEW c \in Command, AcknowledgeCommand(d, c)
      PROVE  DispatchInv'
  <2> DEFINE answer == call[d][c].at
  <2>1. /\ answer \in Outcome
        /\ AfterAnswer[answer] \in RowState
        /\ AfterAnswer[answer] = "delivered" => answer = "ok"
    BY <1>5 DEF AcknowledgeCommand, Outcome, AfterAnswer, RowState
  <2>2. outbox' \in [Command -> Row]
    <3> DEFINE next == AfterAnswer[answer]
               waits == answer # "ok"
    <3>1. outbox' = outbox \/ outbox' = [outbox EXCEPT ![c].state = next, ![c].waits = waits]
      BY <1>5 DEF AcknowledgeCommand
    <3>2. next \in RowState /\ waits \in BOOLEAN
      BY <2>1
    <3> HIDE DEF answer, next, waits
    <3>3. [outbox EXCEPT ![c].state = next, ![c].waits = waits] \in [Command -> Row]
      BY <1>1, <3>2, RowTypes, Zenon
    <3>4. QED BY <1>1, <3>1, <3>3 DEF DispatchTypeOK
  <2>3. call' \in [Dispatcher -> [Command -> Call]]
    BY <1>1, <1>5, CallTypes DEF AcknowledgeCommand, At
  <2>4. DispatchTypeOK'
    BY <1>1, <1>5, <2>2, <2>3 DEF AcknowledgeCommand, DispatchTypeOK
  <2>5. \A b \in Command : outbox'[b].state = "delivered" =>
            outbox[b].state = "delivered" \/ call[d][b].at = "ok"
    BY <1>1, <1>5, <2>1 DEF AcknowledgeCommand, DispatchTypeOK, Row
  <2>6. \A e \in Dispatcher, b \in Command : call'[e][b].at = "ok" => call[e][b].at = "ok"
    BY <1>1, <1>5 DEF AcknowledgeCommand, DispatchTypeOK, NoCall
  <2>7. QED BY <1>5, <2>4, <2>5, <2>6, OutboxFrame DEF AcknowledgeCommand
<1>6. ASSUME NEW d \in Dispatcher, NEW c \in Command, DeliveryFails(d, c) PROVE DispatchInv'
  <2>1. DispatchTypeOK'
    BY <1>1, <1>6, CallTypes, FaultCount DEF DeliveryFails, Go, DispatchTypeOK, At, Outcome
  <2>2. \A e \in Dispatcher, b \in Command : call'[e][b].at = "ok" => call[e][b].at = "ok"
    BY <1>1, <1>6 DEF DeliveryFails, Go, DispatchTypeOK, Call
  <2>3. QED BY <1>6, <2>1, <2>2, OutboxFrame DEF DeliveryFails
<1>7. ASSUME NEW c \in Command, LeaseLapses(c) \/ BackoffEnds(c) PROVE DispatchInv'
  <2>1. outbox' \in [Command -> Row] /\ faults' \in 0 .. MaxFaults
    BY <1>1, <1>7, RowTypes, FaultCount DEF LeaseLapses, BackoffEnds, DispatchTypeOK
  <2>2. DispatchTypeOK'
    BY <1>1, <1>7, <2>1 DEF LeaseLapses, BackoffEnds, DispatchTypeOK
  <2>3. \A b \in Command : outbox'[b].state = "delivered" => outbox[b].state = "delivered"
    BY <1>1, <1>7 DEF LeaseLapses, BackoffEnds, DispatchTypeOK, Row
  <2>4. QED BY <1>7, <2>2, <2>3, OutboxFrame DEF LeaseLapses, BackoffEnds
<1>8. QED BY <1>2, <1>3, <1>4, <1>5, <1>6, <1>7 DEF OutboxStep

\* The calls to Temporal: a command reaches a workflow that runs, and an attempt
\* succeeds where it did, or where the workflow was cancelled.
LEMMA CallFrame ==
    ASSUME DispatchInv, NEW d \in Dispatcher, NEW c \in Command, NEW a \in At,
           call' = [call EXCEPT ![d][c].at = a], wf' \in Workflow, faults' \in 0 .. MaxFaults,
           UNCHANGED <<experiment, outbox, activity, branches, tasks>>,
           wf.received \subseteq wf'.received,
           wf.status = "cancelled" => wf'.status = "cancelled",
           wf'.status = "none" => wf' = wf,
           a = "ok" => c \in wf'.received \/ wf'.status = "cancelled"
    PROVE  DispatchInv'
<1>1. DispatchTypeOK
  BY DEF DispatchInv
<1>2. DispatchTypeOK'
  BY <1>1, CallTypes DEF DispatchTypeOK
<1>3. ASSUME NEW e \in Dispatcher, NEW b \in Command
      PROVE  call'[e][b].at = "ok" => call[e][b].at = "ok" \/ (b = c /\ a = "ok")
  BY <1>1 DEF DispatchTypeOK, Call
<1>4. NothingBefore' /\ SuccessTookEffect' /\ DeliveredTookEffect'
  BY <1>3 DEF DispatchInv, NothingBefore, SuccessTookEffect, DeliveredTookEffect
<1>5. BranchesPassed' /\ SeededOnce'
  BY DEF DispatchInv, BranchesPassed, SeededOnce
<1>6. QED BY <1>2, <1>4, <1>5 DEF DispatchInv

LEMMA CallKeeps ==
    ASSUME DispatchInv, NEW d \in Dispatcher, NEW c \in Command,
           StartWorkflow(d, c) \/ Describe(d, c) \/ Signal(d, c)
    PROVE  DispatchInv'
<1>1. DispatchTypeOK /\ wf \in Workflow
  BY DEF DispatchInv, DispatchTypeOK
<1>2. CASE StartWorkflow(d, c)
  <2>1. CASE wf.status = "none"
    <3> DEFINE next == [wf EXCEPT !.status = "running", !.commands = <<c>>, !.received = {c}]
    <3>1. wf' = next /\ wf.received = {}
      BY <1>2, <2>1 DEF StartWorkflow, DispatchInv, NothingBefore
    <3>2. <<c>> \in Seq(Command)
      OBVIOUS
    <3>3. next \in Workflow /\ next.status = "running" /\ next.received = {c}
      BY <1>1, <3>2 DEF Workflow
    <3> HIDE DEF next
    <3>4. PICK a \in {"ok", "transient"} : Go(d, c, a) /\ (Fault \/ Healthy)
      BY <1>2, <2>1 DEF StartWorkflow, Answered
    <3>5. faults' \in 0 .. MaxFaults /\ a \in At
      BY <1>1, <3>4, FaultCount DEF At, Outcome
    <3>6. QED BY <1>1, <1>2, <2>1, <3>1, <3>3, <3>4, <3>5, CallFrame DEF StartWorkflow, Go
  <2>2. CASE wf.status # "none"
    BY <1>1, <1>2, <2>2, CallFrame, FaultCount
       DEF StartWorkflow, Go, Healthy, At, DispatchTypeOK
  <2>3. QED BY <2>1, <2>2
<1>3. CASE Describe(d, c)
  <2>1. /\ OnExisting(wf.status) \in At
        /\ OnExisting(wf.status) = "ok" => wf.status = "cancelled"
    BY DEF OnExisting, At, Outcome
  <2>2. QED BY <1>1, <1>3, <2>1, CallFrame DEF Describe, Go, DispatchTypeOK
<1>4. CASE Signal(d, c)
  <2>1. CASE wf.status = "running"
    <3> DEFINE queue == Append(wf.commands, c)
               next == [wf EXCEPT !.commands = queue, !.received = wf.received \cup {c}]
    <3>1. queue \in Seq(Command)
      BY <1>1 DEF Workflow
    <3>2. wf' = next
      BY <1>4, <2>1 DEF Signal
    <3> HIDE DEF queue
    <3>3. next \in Workflow /\ next.status = wf.status /\ next.received = wf.received \cup {c}
      BY <1>1, <3>1 DEF Workflow
    <3> HIDE DEF next
    <3>4. PICK a \in {"ok", "transient"} : Go(d, c, a) /\ (Fault \/ Healthy)
      BY <1>4, <2>1 DEF Signal, Answered
    <3>5. faults' \in 0 .. MaxFaults /\ a \in At
      BY <1>1, <3>4, FaultCount DEF At, Outcome
    <3>6. QED BY <1>1, <1>4, <2>1, <3>2, <3>3, <3>4, <3>5, CallFrame DEF Signal, Go
  <2>2. CASE wf.status # "running"
    BY <1>1, <1>4, <2>2, CallFrame DEF Signal, Go, At, Outcome, DispatchTypeOK
  <2>3. QED BY <2>1, <2>2
<1>5. QED BY <1>2, <1>3, <1>4

\* The workflow and its activity: no command is forgotten, a cancellation stays,
\* and positions pass a branch only once it exists.
LEMMA WorkflowFrame ==
    ASSUME DispatchInv, wf' \in Workflow, activity' \subseteq Execution, faults' \in 0 .. MaxFaults,
           branches' \in [Model -> Nat], tasks' \in [Model -> Nat],
           UNCHANGED <<experiment, outbox, call>>,
           wf'.received = wf.received,
           wf.status = "cancelled" => wf'.status = "cancelled",
           wf'.status = "none" => wf.status = "none",
           BranchesPassed', SeededOnce'
    PROVE  DispatchInv'
<1>1. DispatchTypeOK'
  BY DEF DispatchInv, DispatchTypeOK
<1>2. NothingBefore' /\ SuccessTookEffect' /\ DeliveredTookEffect'
  BY DEF DispatchInv, NothingBefore, SuccessTookEffect, DeliveredTookEffect
<1>3. QED BY <1>1, <1>2 DEF DispatchInv

LEMMA TakeKeeps == ASSUME DispatchInv, TakeCommand PROVE DispatchInv'
<1> DEFINE c == Head(wf.commands)
           rest == Tail(wf.commands)
           next == [wf EXCEPT !.commands = rest, !.applying = c, !.try = 1]
<1>1. DispatchTypeOK /\ wf \in Workflow /\ wf.commands \in Seq(Command) /\ wf.commands # <<>>
  BY DEF DispatchInv, DispatchTypeOK, TakeCommand, Workflow
<1>2. c \in Command /\ rest \in Seq(Command)
  BY <1>1
<1>3. wf' = next /\ activity' = activity \cup {Executes(c, 1)}
  BY DEF TakeCommand
<1> HIDE DEF c, rest
<1>4. next \in Workflow /\ next.status = wf.status /\ next.received = wf.received
  BY <1>1, <1>2 DEF Workflow
<1> HIDE DEF next
<1>5. Executes(c, 1) \in Execution /\ Executes(c, 1).pos = 0
  BY <1>2 DEF Executes, Execution
<1>6. BranchesPassed' /\ SeededOnce'
  BY <1>3, <1>5 DEF DispatchInv, BranchesPassed, SeededOnce, TakeCommand, Model
<1>7. QED BY <1>1, <1>3, <1>4, <1>5, <1>6, WorkflowFrame DEF TakeCommand, DispatchTypeOK

\* What becomes of the workflow when a result, an error or a timeout counts.
LEMMA NextTryTypes ==
    ASSUME DispatchTypeOK, wf.status = "running", NEW c \in Command
    PROVE  /\ NextTry(c) \in Workflow /\ NextTry(c).received = wf.received
           /\ NextTry(c).status # "none"
           /\ NewExecution(c) \subseteq Execution
           /\ \A e \in NewExecution(c) : e.pos = 0
<1>1. wf \in Workflow /\ wf.try + 1 \in Nat
  BY DEF DispatchTypeOK, Workflow
<1>2. /\ [wf EXCEPT !.try = wf.try + 1] \in Workflow
      /\ [wf EXCEPT !.status = "failed"] \in Workflow
  BY <1>1 DEF Workflow
<1>3. Executes(c, wf.try + 1) \in Execution /\ Executes(c, wf.try + 1).pos = 0
  BY <1>1 DEF Executes, Execution
<1>4. QED BY <1>1, <1>2, <1>3 DEF NextTry, NewExecution, Workflow

\* A result, an error or a timeout ends an execution or starts the next try; it
\* touches nothing else.
WorkflowTypes ==
    /\ wf' \in Workflow /\ activity' \subseteq Execution
    /\ wf'.received = wf.received
    /\ wf.status = "cancelled" => wf'.status = "cancelled"
    /\ wf'.status = "none" => wf.status = "none"

LEMMA ReturnedTypes ==
    ASSUME DispatchTypeOK, NEW e \in activity, Returned(e)
    PROVE  WorkflowTypes /\ activity' \subseteq activity
<1>1. wf \in Workflow /\ activity' = activity \ {e} /\ activity \subseteq Execution
  BY DEF DispatchTypeOK, Returned
<1>2. /\ [wf EXCEPT !.status = "cancelled"] \in Workflow
      /\ [wf EXCEPT !.applying = 0] \in Workflow
  BY <1>1 DEF Workflow
<1>3. QED BY <1>1, <1>2 DEF Returned, Current, WorkflowTypes, Workflow

LEMMA RaisedTypes ==
    ASSUME DispatchTypeOK, NEW e \in activity, Raised(e)
    PROVE  WorkflowTypes /\ \A x \in activity' : x \in activity \/ x.pos = 0
<1>1. wf \in Workflow /\ activity \subseteq Execution /\ e.command \in Command
  BY DEF DispatchTypeOK, Execution
<1>2. CASE Current(e)
  BY <1>1, <1>2, NextTryTypes DEF Raised, WorkflowTypes, Current
<1>3. CASE ~Current(e)
  BY <1>1, <1>3 DEF Raised, WorkflowTypes
<1>4. QED BY <1>2, <1>3

LEMMA ProceedTypes ==
    ASSUME DispatchTypeOK, NEW e \in activity, e.pos > 0, ProceedActivity(e)
    PROVE  /\ WorkflowTypes
           /\ \A x \in activity' : x \in activity \/ (x.pos = e.pos + 1 /\ e.pos < 2 * Models)
<1>1. wf \in Workflow /\ activity \subseteq Execution /\ e \in Execution
  BY DEF DispatchTypeOK
<1>2. CASE e.pos = 2 * Models
  <2>1. Returned(e)
    BY <1>2 DEF ProceedActivity
  <2>2. QED BY <2>1, ReturnedTypes
<1>3. CASE e.pos # 2 * Models
  <2> DEFINE n == e.pos + 1
             next == [e EXCEPT !.pos = n]
  <2>1. n \in 0 .. 2 * Models /\ e.pos < 2 * Models
    BY <1>1, <1>3 DEF Execution
  <2>2. activity' = (activity \ {e}) \cup {next} /\ wf' = wf
    BY <1>3 DEF ProceedActivity
  <2> HIDE DEF n
  <2>3. next \in Execution /\ next.pos = n
    BY <1>1, <2>1 DEF Execution
  <2>4. QED BY <1>1, <2>1, <2>2, <2>3 DEF WorkflowTypes, n
<1>4. QED BY <1>2, <1>3

LEMMA ActivityKeeps ==
    ASSUME DispatchInv, NEW e \in activity, ActivityStep(e) \/ ActivityTimesOut(e)
    PROVE  DispatchInv'
<1>1. DispatchTypeOK /\ wf \in Workflow /\ activity \subseteq Execution /\ e \in Execution
  BY DEF DispatchInv, DispatchTypeOK
<1>2. e.pos \in 0 .. 2 * Models /\ e.command \in Command
  BY <1>1 DEF Execution
<1>3. CASE ReadExperiment(e)
  <2>1. WorkflowTypes /\ \A x \in activity' : x \in activity \/ x.pos = 1
    <3>1. CASE Returned(e)
      BY <1>1, <3>1, ReturnedTypes
    <3>2. CASE Models > 0 /\ activity' = (activity \ {e}) \cup {[e EXCEPT !.pos = 1]} /\ wf' = wf
      <4> DEFINE next == [e EXCEPT !.pos = 1]
      <4>1. 1 \in 0 .. 2 * Models
        BY <3>2
      <4>2. next \in Execution /\ next.pos = 1
        BY <1>1, <4>1 DEF Execution
      <4> HIDE DEF next
      <4>3. QED BY <1>1, <3>2, <4>2 DEF WorkflowTypes, next
    <3>3. QED BY <1>3, <3>1, <3>2 DEF ReadExperiment
  <2>2. BranchesPassed' /\ SeededOnce'
    BY <1>3, <2>1 DEF ReadExperiment, DispatchInv, BranchesPassed, SeededOnce, Model
  <2>3. QED BY <1>1, <1>3, <2>1, <2>2, WorkflowFrame
       DEF ReadExperiment, WorkflowTypes, DispatchTypeOK
<1>4. CASE SeedBranch(e)
  <2> DEFINE m == ModelAt(e.pos)
  <2>1. m \in Model /\ 2 * m = e.pos + 1 /\ e.pos > 0
    BY <1>2, <1>4 DEF SeedBranch, ModelAt, Model
  <2>2. /\ branches' \in [Model -> Nat] /\ branches'[m] = 1
        /\ \A k \in Model : k # m => branches'[k] = branches[k]
        /\ tasks' = tasks
    BY <1>1, <1>4, <2>1 DEF SeedBranch, KeyUsed, DispatchTypeOK, DispatchInv, SeededOnce
  <2>3. WorkflowTypes /\ \A x \in activity' : x \in activity \/ x.pos = e.pos + 1
    BY <1>1, <1>4, <2>1, ProceedTypes DEF SeedBranch
  <2> HIDE DEF m
  <2>4. \A k \in Model : branches'[k] >= branches[k]
    BY <1>1, <2>1, <2>2 DEF DispatchInv, SeededOnce, DispatchTypeOK
  <2>5. BranchesPassed'
    <3> SUFFICES ASSUME NEW x \in activity', NEW k \in Model, 2 * k =< x.pos PROVE branches'[k] >= 1
      BY DEF BranchesPassed, Model
    <3>1. CASE x \in activity
      BY <1>1, <2>2, <2>4, <3>1 DEF DispatchInv, BranchesPassed, DispatchTypeOK
    <3>2. CASE x.pos = e.pos + 1 /\ k = m
      BY <2>2, <3>2
    <3>3. CASE x.pos = e.pos + 1 /\ k # m
      <4>1. 2 * k =< e.pos
        BY <1>2, <2>1, <3>3 DEF Model
      <4>2. QED BY <2>2, <3>3, <4>1 DEF DispatchInv, BranchesPassed
    <3>4. QED BY <2>3, <3>1, <3>2, <3>3
  <2>6. SeededOnce'
    BY <1>1, <2>1, <2>2, <2>4 DEF DispatchInv, SeededOnce, DispatchTypeOK
  <2>7. QED BY <1>1, <1>4, <2>2, <2>3, <2>5, <2>6, WorkflowFrame
            DEF SeedBranch, WorkflowTypes, DispatchTypeOK
<1>5. CASE SeedTask(e)
  <2> DEFINE m == ModelAt(e.pos)
  <2>1. m \in Model /\ 2 * m = e.pos /\ e.pos > 0
    BY <1>2, <1>5 DEF SeedTask, ModelAt, Model
  <2>2. branches[m] = 1 /\ branches[m] \in Nat
    BY <1>1, <1>2, <2>1 DEF DispatchInv, BranchesPassed, SeededOnce, DispatchTypeOK
  <2>3. tasks' \in [Model -> Nat] /\ \A k \in Model : tasks'[k] =< branches[k]
    BY <1>1, <1>5, <2>1, <2>2 DEF SeedTask, KeyUsed, DispatchTypeOK, DispatchInv, SeededOnce
  <2> HIDE DEF m
  <2>4. /\ WorkflowTypes
        /\ \A x \in activity' : x \in activity \/ x.pos = 0 \/ x.pos = e.pos + 1
    BY <1>1, <1>5, <2>1, ProceedTypes, RaisedTypes DEF SeedTask
  <2>5. BranchesPassed'
    <3> SUFFICES ASSUME NEW x \in activity', NEW k \in Model, 2 * k =< x.pos PROVE branches[k] >= 1
      BY <1>5 DEF SeedTask, BranchesPassed, Model
    <3>1. CASE x \in activity
      BY <3>1 DEF DispatchInv, BranchesPassed
    <3>2. CASE x.pos = 0
      BY <3>2 DEF Model
    <3>3. CASE x.pos = e.pos + 1
      <4>1. 2 * k =< e.pos
        BY <1>2, <2>1, <3>3 DEF Model
      <4>2. QED BY <4>1 DEF DispatchInv, BranchesPassed
    <3>4. QED BY <2>4, <3>1, <3>2, <3>3
  <2>6. SeededOnce'
    BY <1>5, <2>3 DEF SeedTask, DispatchInv, SeededOnce
  <2>7. QED BY <1>1, <1>5, <2>3, <2>4, <2>5, <2>6, WorkflowFrame
            DEF SeedTask, WorkflowTypes, DispatchTypeOK
<1>6. CASE ActivityTimesOut(e)
  <2>1. /\ wf' = NextTry(e.command) /\ activity' = activity \cup NewExecution(e.command)
        /\ wf.status = "running" /\ branches' = branches /\ tasks' = tasks
    BY <1>6 DEF ActivityTimesOut, Current
  <2>2. WorkflowTypes /\ \A x \in activity' : x \in activity \/ x.pos = 0
    BY <1>1, <1>2, <2>1, NextTryTypes DEF WorkflowTypes
  <2>3. BranchesPassed' /\ SeededOnce'
    BY <2>1, <2>2 DEF DispatchInv, BranchesPassed, SeededOnce, Model
  <2>4. faults' \in 0 .. MaxFaults
    BY <1>1, <1>6, FaultCount DEF ActivityTimesOut
  <2>5. QED BY <1>1, <1>6, <2>2, <2>3, <2>4, WorkflowFrame
            DEF ActivityTimesOut, WorkflowTypes, DispatchTypeOK
<1>7. QED BY <1>3, <1>4, <1>5, <1>6 DEF ActivityStep
-----------------------------------------------------------------------------
LEMMA DispatchKept == DispatchInv /\ [DispatchNext]_dispatchVars => DispatchInv'
<1> SUFFICES ASSUME DispatchInv, [DispatchNext]_dispatchVars PROVE DispatchInv'
  OBVIOUS
<1>1. CASE UNCHANGED dispatchVars
  BY <1>1 DEF dispatchVars, DispatchInv, DispatchTypeOK, NothingBefore, SuccessTookEffect,
              DeliveredTookEffect, BranchesPassed, SeededOnce
<1>2. CASE DispatchNext
  BY <1>2, OutboxKeeps, CallKeeps, TakeKeeps, ActivityKeeps
     DEF DispatchNext, DeliverCommand, OutboxStep
<1>3. QED BY <1>1, <1>2

\* The outbox and the seeding activity, for any dispatchers, models, limits and
\* faults: a command that is marked delivered took effect in the workflow (or a
\* cancellation ended it), and every approach is seeded at most once, its task
\* after its branch.
THEOREM DispatchSafety == DispatchSpec => []DispatchSound
<1>1. DispatchInv => DispatchSound
  BY DEF DispatchInv, DispatchSound
<1>2. QED BY <1>1, InitDispatch, DispatchKept, PTL DEF DispatchSpec

\* A command that was delivered or blocked stays so: the compare-and-set of
\* _deliver_one lets no late answer of an earlier attempt reopen it.
THEOREM DeliveriesFinal == DispatchSpec => DeliveryFinal
<1>1. ASSUME DispatchTypeOK, [DispatchNext]_dispatchVars PROVE [KeepsDelivered]_dispatchVars
  <2>1. CASE UNCHANGED dispatchVars
    BY <2>1
  <2> DEFINE Kept == \A c \in Command : outbox[c].state \in {"delivered", "blocked"} =>
                        outbox'[c].state = outbox[c].state
  <2>2. ASSUME NEW a \in DOMAIN Changes, NEW c \in Command, ChangeExperiment(a, c) PROVE Kept
    BY <1>1, <2>2 DEF ChangeExperiment, DispatchTypeOK
  <2>3. ASSUME NEW d \in Dispatcher, Claim(d) PROVE Kept
    BY <2>3 DEF Claim, Claimable
  <2>4. ASSUME NEW d \in Dispatcher, NEW c \in Command, AcknowledgeCommand(d, c) PROVE Kept
    BY <1>1, <2>4 DEF AcknowledgeCommand, OwnsAttempt, DispatchTypeOK
  <2>5. ASSUME NEW c \in Command, LeaseLapses(c) \/ BackoffEnds(c) PROVE Kept
    BY <1>1, <2>5 DEF LeaseLapses, BackoffEnds, DispatchTypeOK
  <2>6. ASSUME outbox' = outbox PROVE Kept
    BY <2>6
  <2>7. QED
    BY <1>1, <2>1, <2>2, <2>3, <2>4, <2>5, <2>6
       DEF DispatchNext, KeepsDelivered, Crash, DeliverCommand, StartWorkflow, Describe, Signal,
           DeliveryFails, TakeCommand, ActivityStep, ReadExperiment, SeedBranch, SeedTask,
           ActivityTimesOut
<1>2. QED BY <1>1, DispatchSafety, PTL DEF DispatchSpec, DispatchSound, DeliveryFinal
-----------------------------------------------------------------------------
(* Builders and their supervisor.  That nothing is missed rests on what an *)
(* anchor covers (Anchored, AnchorsKnown), on what a look that found       *)
(* nothing says of later events (LooksHold) and on what the supervisor may *)
(* conclude at each point of its pass (PassHolds).                         *)

TeamSpec == TeamInit /\ [][TeamNext]_teamVars

LEMMA LeastOfNat ==
    ASSUME NEW S \in SUBSET Nat, S # {}
    PROVE  Min(S) \in S /\ \A y \in S : Min(S) =< y
<1> DEFINE R == OpToRel(<, Nat)
<1>1. IsWellFoundedOn(R, Nat)
  BY NatLessThanWellFounded
<1>2. \A x, y \in Nat : <<x, y>> \in R <=> x < y
  BY DEF OpToRel
<1> HIDE DEF R
<1>3. \E x \in S : \A y \in S : ~ (<<y, x>> \in R)
  BY <1>1, WFMin
<1>4. \E x \in S : \A y \in S : x =< y
  <2>1. PICK x \in S : \A y \in S : ~ (<<y, x>> \in R)
    BY <1>3
  <2>2. \A y \in S : ~ (y < x) /\ y \in Nat /\ x \in Nat
    BY <1>2, <2>1
  <2>3. QED BY <2>2
<1>5. QED BY <1>4 DEF Min

\* What a wait anchored at v would be told.
Missed(b, v) == {n \in Watched(b) : n > v.at /\ n \notin v.seen}

\* The records of builders: a parked one waits from its session's anchor, a running one
\* has an anchor as soon as a request was answered, and none is ahead of the events.
Shaped(x) ==
    /\ x.status = "parked" => x.view # NoView /\ x.view = x.anchor
    /\ x.status = "running" => /\ x.phase # "idle"
                               /\ x.phase = "start" => x.view # NoView
                               /\ x.phase # "start" => x.anchor # NoView
Past(v) == v = NoView \/ v.at =< NewsHead
Anchored ==
    \A b \in Builder :
        Shaped(builder[b]) /\ Past(builder[b].view) /\ Past(builder[b].anchor)

\* An anchor covers only what a request could show.
Known(b, v) == v = NoView \/ (1 .. v.at \subseteq told[b] /\ v.seen \subseteq told[b])
AnchorsKnown == \A b \in Builder : Known(b, builder[b].anchor)

\* A look that found nothing stays right about every event up to the head it read, also
\* while the builder runs and parks again.
Passed(b, v) == v = NoView \/ \A n \in Missed(b, v) : n > looked[b].head
LooksHold ==
    \A b \in Builder :
        /\ looked[b].head =< NewsHead
        /\ looked[b].found = "waiting" =>
                Passed(b, builder[b].view) /\ Passed(b, builder[b].anchor)

\* The supervisor's pass: the builders it started are counted, and from CheckIdle on its
\* own builders stand still; from CheckOthers on every builder that goes on was found waiting.
Confirming == {"tasks", "others", "receipts"}
PassHolds ==
    /\ team.head =< NewsHead
    /\ \A b \in Own : builder[b].status # "queued" => b \in team.attempted
    /\ team.pc \in Confirming =>
        \A b \in Own : /\ builder[b].status # "running"
                       /\ builder[b].status = "parked" => FoundNothing(b)
    /\ team.pc = "receipts" =>
        \A b \in Builder \ Own : builder[b].status = "ended" \/ FoundNothing(b)

TeamInv == TeamTypeOK /\ Anchored /\ AnchorsKnown /\ LooksHold /\ PassHolds

LEMMA TeamParameters ==
    /\ MaxNews \in Nat /\ MaxSeen \in Nat /\ MaxTasks \in Nat /\ MaxMishaps \in Nat
    /\ Own \subseteq Builder
BY TeamAssumption

\* The head is the number of events.
LEMMA HeadOfNews ==
    ASSUME TeamTypeOK
    PROVE  /\ NewsHead \in Sequences /\ NewsHead \in Nat
           /\ news \in [1 .. NewsHead -> News] /\ DOMAIN news = 1 .. NewsHead
<1>1. PICK n \in Sequences : news \in [1 .. n -> News]
  BY DEF TeamTypeOK
<1>2. n \in Nat /\ DOMAIN news = 1 .. n
  BY <1>1, TeamParameters DEF Sequences
<1>3. Cardinality(1 .. n) = n
  BY <1>2, FS_Interval
<1>4. NewsHead = n
  BY <1>2, <1>3 DEF NewsHead
<1>5. QED BY <1>1, <1>2, <1>4

\* Events are never changed or taken back.
Appended ==
    /\ \E n \in Sequences : news' \in [1 .. n -> News]
    /\ NewsHead' \in Nat /\ NewsHead =< NewsHead'
    /\ DOMAIN news' = 1 .. NewsHead'
    /\ \A n \in 1 .. NewsHead : news'[n] = news[n]

LEMMA NewsKept ==
    ASSUME TeamTypeOK, UNCHANGED news
    PROVE  Appended
<1>1. NewsHead' = NewsHead
  BY DEF NewsHead
<1>2. QED BY <1>1, HeadOfNews DEF Appended

LEMMA NewsPublished ==
    ASSUME TeamTypeOK, NEW by \in Builder \cup {"platform"}, NEW watched \in BOOLEAN,
           Publish(by, watched)
    PROVE  Appended
<1>1. /\ NewsHead \in Sequences /\ NewsHead \in Nat
      /\ news \in [1 .. NewsHead -> News] /\ DOMAIN news = 1 .. NewsHead
  BY HeadOfNews
<1> DEFINE m == NewsHead + 1
<1>2. /\ m \in Nat /\ m \in Sequences
  BY <1>1, TeamParameters DEF Publish, Sequences
<1>3. [by |-> by, watched |-> watched] \in News
  BY DEF News
<1>4. news' \in [1 .. m -> News] /\ \A n \in 1 .. NewsHead : news'[n] = news[n]
  BY <1>1, <1>3 DEF Publish
<1>5. NewsHead' = m
  <2>1. DOMAIN news' = 1 .. m
    BY <1>4
  <2>2. Cardinality(1 .. m) = m
    BY <1>2, FS_Interval
  <2>3. QED BY <2>1, <2>2 DEF NewsHead
<1>6. NewsHead =< m
  BY <1>1
<1> HIDE DEF m
<1>7. QED BY <1>2, <1>4, <1>5, <1>6 DEF Appended

\* What a builder watches is what it watched, with what came after the head.
LEMMA WatchedGrow ==
    ASSUME TeamTypeOK, Appended, NEW b, NEW n \in Watched(b)'
    PROVE  n \in Nat /\ n > 0 /\ n =< NewsHead' /\ (n \in Watched(b) \/ n > NewsHead)
<1>1. n \in DOMAIN news' /\ news'[n].watched /\ news'[n].by # b
  BY DEF Watched
<1>2. n \in 1 .. NewsHead' /\ NewsHead' \in Nat /\ NewsHead \in Nat
  BY <1>1, HeadOfNews DEF Appended
<1>3. n =< NewsHead => n \in 1 .. NewsHead
  BY <1>2
<1>4. n =< NewsHead => n \in DOMAIN news /\ news'[n] = news[n]
  BY <1>3, HeadOfNews DEF Appended
<1>5. n =< NewsHead => n \in Watched(b)
  BY <1>1, <1>4 DEF Watched
<1>6. QED BY <1>2, <1>5

LEMMA WatchedPast ==
    ASSUME TeamTypeOK, NEW b, NEW n \in Watched(b)
    PROVE  n \in 1 .. NewsHead
BY HeadOfNews DEF Watched

LEMMA BuilderTypes ==
    ASSUME TeamTypeOK, NEW b \in Builder
    PROVE  /\ builder[b] \in BuilderState /\ builder[b].view \in View /\ builder[b].anchor \in View
           /\ builder[b].status \in {"queued", "parked", "running", "ended"}
           /\ builder[b].phase \in {"idle", "start", "answered", "tools"}
           /\ told[b] \in SUBSET (1 .. MaxNews)
           /\ looked[b] \in Look /\ looked[b].head \in Nat
BY TeamParameters DEF TeamTypeOK, BuilderState, Look, Sequences

LEMMA ViewTypes ==
    ASSUME NEW v \in View
    PROVE  v.at \in Nat /\ v.seen \in SUBSET (1 .. MaxNews)
BY TeamParameters DEF View, Sequences

LEMMA PastOn ==
    ASSUME TeamTypeOK, Appended, NEW v \in View, Past(v)
    PROVE  Past(v)'
<1>1. v.at \in Nat /\ NewsHead \in Nat /\ NewsHead' \in Nat /\ NewsHead =< NewsHead'
  BY ViewTypes, HeadOfNews DEF Appended
<1>2. QED BY <1>1 DEF Past

LEMMA PassedOn ==
    ASSUME TeamTypeOK, Appended, NEW b \in Builder, NEW v \in View, Passed(b, v),
           looked[b].head =< NewsHead, looked'[b] = looked[b]
    PROVE  Passed(b, v)'
<1>1. SUFFICES ASSUME v # NoView, NEW n \in Missed(b, v)' PROVE n > looked[b].head
  BY DEF Passed
<1>2. n \in Watched(b)' /\ n > v.at /\ n \notin v.seen
  BY DEF Missed
<1>3. n \in Nat /\ (n \in Watched(b) \/ n > NewsHead)
  BY <1>2, WatchedGrow
<1>4. CASE n \in Watched(b)
  <2>1. n \in Missed(b, v)
    BY <1>2, <1>4 DEF Missed
  <2>2. QED BY <1>1, <2>1 DEF Passed
<1>5. CASE n > NewsHead
  BY <1>3, <1>5, HeadOfNews, BuilderTypes
<1>6. QED BY <1>3, <1>4, <1>5

\* The record of b becomes y, and at most b is looked at anew.
Moves(b, y) ==
    /\ builder' = [builder EXCEPT ![b] = y]
    /\ y \in BuilderState /\ Shaped(y)
    /\ Past(y.view) /\ Past(y.anchor)
    /\ told' \in [Builder -> SUBSET (1 .. MaxNews)]
    /\ \A c \in Builder : told[c] \subseteq told'[c]
    /\ \/ y.anchor = NoView
       \/ 1 .. y.anchor.at \subseteq told'[b] /\ y.anchor.seen \subseteq told'[b]
    /\ \A c \in Builder \ {b} : looked'[c] = looked[c]
    /\ looked'[b] = Unknown \/ looked'[b] = looked[b]
    /\ looked[b].found = "waiting" => Passed(b, y.view) /\ Passed(b, y.anchor)

LEMMA MovesKeeps ==
    ASSUME TeamTypeOK, Anchored, AnchorsKnown, LooksHold, Appended,
           NEW b \in Builder, NEW y, Moves(b, y)
    PROVE  Anchored' /\ AnchorsKnown' /\ LooksHold' /\ builder' \in [Builder -> BuilderState]
<1>1. /\ builder \in [Builder -> BuilderState] /\ builder' \in [Builder -> BuilderState]
      /\ \A c \in Builder : builder'[c] = IF c = b THEN y ELSE builder[c]
      /\ y \in BuilderState
  BY DEF TeamTypeOK, Moves
<1>2. y.view \in View /\ y.anchor \in View
  BY <1>1 DEF BuilderState
<1>3. Anchored'
  <2>1. SUFFICES ASSUME NEW c \in Builder
                 PROVE  /\ Shaped(builder'[c]) /\ Past(builder[c].view)'
                        /\ Past(builder[c].anchor)'
    BY DEF Anchored, Shaped, Past
  <2>2. CASE c = b
    <3>1. Past(y.view)' /\ Past(y.anchor)'
      BY <1>2, PastOn DEF Moves
    <3>2. QED BY <1>1, <2>2, <3>1 DEF Moves
  <2>3. CASE c # b
    <3>1. PICK u \in View, v \in View : u = builder[c].view /\ v = builder[c].anchor
      BY BuilderTypes
    <3>2. Past(u)' /\ Past(v)'
      BY <3>1, PastOn DEF Anchored
    <3>3. builder'[c] = builder[c]
      BY <1>1, <2>3
    <3>4. builder'[c].view = u /\ builder'[c].anchor = v
      BY <3>1, <3>3
    <3>5. Shaped(builder'[c])
      BY <3>3 DEF Anchored
    <3>6. QED BY <3>2, <3>4, <3>5 DEF Past
  <2>4. QED BY <2>2, <2>3
<1>4. AnchorsKnown'
  <2>1. SUFFICES ASSUME NEW c \in Builder, NEW v \in View, v = builder'[c].anchor, v # NoView
                 PROVE  1 .. v.at \subseteq told'[c] /\ v.seen \subseteq told'[c]
    BY <1>1, <1>2, BuilderTypes DEF AnchorsKnown, Known
  <2>2. CASE c = b
    BY <1>1, <2>1, <2>2 DEF Moves
  <2>3. CASE c # b
    <3>1. v = builder[c].anchor
      BY <1>1, <2>1, <2>3
    <3>2. 1 .. v.at \subseteq told[c] /\ v.seen \subseteq told[c]
      BY <2>1, <3>1 DEF AnchorsKnown, Known
    <3>3. told[c] \subseteq told'[c]
      BY DEF Moves
    <3>4. QED BY <3>2, <3>3
  <2>4. QED BY <2>2, <2>3
<1>5. LooksHold'
  <2>1. SUFFICES ASSUME NEW c \in Builder
                 PROVE  /\ looked'[c].head =< NewsHead'
                        /\ looked'[c].found = "waiting" =>
                             Passed(c, builder[c].view)' /\ Passed(c, builder[c].anchor)'
    BY DEF LooksHold, Passed, Missed, Watched
  <2>2. looked'[c] = Unknown \/ looked'[c] = looked[c]
    BY DEF Moves
  <2>3. looked'[c].head =< NewsHead'
    <3>1. looked[c].head \in Nat /\ looked[c].head =< NewsHead
      BY BuilderTypes DEF LooksHold
    <3>2. NewsHead \in Nat /\ NewsHead' \in Nat /\ NewsHead =< NewsHead'
      BY HeadOfNews DEF Appended
    <3>3. QED BY <2>2, <3>1, <3>2 DEF Unknown
  <2>4. ASSUME looked'[c].found = "waiting"
        PROVE  Passed(c, builder[c].view)' /\ Passed(c, builder[c].anchor)'
    <3>1. looked'[c] = looked[c] /\ looked[c].found = "waiting" /\ looked[c].head =< NewsHead
      BY <2>2, <2>4 DEF Unknown, LooksHold
    <3>2. PICK u \in View, v \in View : u = builder'[c].view /\ v = builder'[c].anchor
      BY <1>1, <1>2, BuilderTypes
    <3>3. Passed(c, u) /\ Passed(c, v)
      <4>1. CASE c = b
        BY <1>1, <3>1, <3>2, <4>1 DEF Moves
      <4>2. CASE c # b
        <5>1. u = builder[c].view /\ v = builder[c].anchor
          BY <1>1, <3>2, <4>2
        <5>2. QED BY <3>1, <5>1 DEF LooksHold
      <4>3. QED BY <4>1, <4>2
    <3>4. Passed(c, u)' /\ Passed(c, v)'
      BY <3>1, <3>3, PassedOn
    <3>5. QED BY <3>2, <3>4 DEF Passed, Missed, Watched
  <2>5. QED BY <2>3, <2>4
<1>6. QED BY <1>1, <1>3, <1>4, <1>5

\* A builder moves while the supervisor does nothing.  Only others start by themselves.
Aside(b, y) ==
    /\ Moves(b, y)
    /\ UNCHANGED <<looked, team>>
    /\ receipt' \in BOOLEAN /\ mishaps' \in Nat
    /\ builder[b].status = "queued" => y.status = "queued" \/ b \notin Own
    /\ y.status = "running" => builder[b].status = "running" \/ b \notin Own
    /\ y.status = "parked" => builder[b].status \in {"parked", "running"}
    /\ builder[b].status = "ended" => y.status = "ended"

LEMMA AsideKeeps ==
    ASSUME TeamInv, Appended, NEW b \in Builder, NEW y, Aside(b, y)
    PROVE  TeamInv'
<1>1. Anchored' /\ AnchorsKnown' /\ LooksHold' /\ builder' \in [Builder -> BuilderState]
  BY MovesKeeps DEF TeamInv, Aside
<1>2. TeamTypeOK'
  BY <1>1 DEF TeamInv, TeamTypeOK, Aside, Moves, Appended
<1>3. PassHolds'
  <2>1. /\ looked' = looked /\ team' = team
        /\ \A c \in Builder : builder'[c] = IF c = b THEN y ELSE builder[c]
    BY DEF TeamInv, TeamTypeOK, Aside, Moves
  <2>2. \A c \in Builder : FoundNothing(c)' <=> FoundNothing(c)
    BY <2>1 DEF FoundNothing
  <2>3. team.head =< NewsHead'
    <3>1. team.head \in Nat /\ team.head =< NewsHead
      BY TeamParameters DEF TeamInv, TeamTypeOK, Team, Sequences, PassHolds
    <3>2. QED BY <3>1, HeadOfNews DEF TeamInv, Appended
  <2>4. ASSUME NEW c \in Own
        PROVE  /\ builder'[c].status # "queued" => c \in team.attempted
               /\ team.pc \in Confirming =>
                      /\ builder'[c].status # "running"
                      /\ builder'[c].status = "parked" => FoundNothing(c)
    <3>1. /\ builder[c].status # "queued" => c \in team.attempted
          /\ team.pc \in Confirming => /\ builder[c].status # "running"
                                       /\ builder[c].status = "parked" => FoundNothing(c)
      BY DEF TeamInv, PassHolds
    <3>2. CASE c = b
      BY <2>1, <3>1, <3>2, TeamParameters DEF Aside
    <3>3. CASE c # b
      BY <2>1, <3>1, <3>3, TeamParameters
    <3>4. QED BY <3>2, <3>3
  <2>5. ASSUME NEW c \in Builder \ Own, team.pc = "receipts"
        PROVE  builder'[c].status = "ended" \/ FoundNothing(c)
    <3>1. builder[c].status = "ended" \/ FoundNothing(c)
      BY <2>5 DEF TeamInv, PassHolds
    <3>2. QED BY <2>1, <3>1 DEF Aside
  <2>6. QED
    BY <2>1, <2>2, <2>3, <2>4, <2>5, TeamParameters DEF PassHolds
<1>4. QED BY <1>1, <1>2, <1>3 DEF TeamInv

\* Facts about one builder that its actions use.
LEMMA BuilderFacts ==
    ASSUME TeamInv, NEW b \in Builder
    PROVE  /\ Shaped(builder[b]) /\ Past(builder[b].view) /\ Past(builder[b].anchor)
           /\ Known(b, builder[b].anchor)
           /\ looked[b].found = "waiting" =>
                Passed(b, builder[b].view) /\ Passed(b, builder[b].anchor)
           /\ team.head \in Nat
BY TeamParameters DEF TeamInv, Anchored, AnchorsKnown, LooksHold, TeamTypeOK, Team, Sequences

\* What is captured now has seen everything.
LEMMA NowIsPast ==
    ASSUME TeamTypeOK, NEW b
    PROVE  Now \in View /\ Now # NoView /\ Past(Now) /\ Passed(b, Now) /\ NoView \in View
<1>1. NewsHead \in Nat /\ NewsHead \in Sequences /\ NewsHead # MaxNews + 1
  BY HeadOfNews, TeamParameters DEF Sequences
<1>2. Now.at = NewsHead /\ Now.seen = {} /\ Now \in View
  BY <1>1 DEF Now, View
<1>3. Now # NoView /\ Past(Now) /\ NoView \in View
  BY <1>1, <1>2 DEF NoView, Past, View
<1>4. Missed(b, Now) = {}
  BY <1>1, <1>2, WatchedPast DEF Missed
<1>5. QED BY <1>2, <1>3, <1>4 DEF Passed

\* The conditions under which a step that leaves the supervisor alone is such a move.
LEMMA TakesAside ==
    ASSUME TeamInv, NEW b \in Builder, NEW y \in BuilderState,
           builder' = [builder EXCEPT ![b] = y], Shaped(y),
           y.view \in {NoView, Now, builder[b].view, builder[b].anchor},
           y.anchor \in {NoView, builder[b].anchor},
           UNCHANGED <<told, looked, team>>, receipt' \in BOOLEAN, mishaps' \in Nat,
           builder[b].status = "queued" => y.status = "queued",
           y.status = "running" => builder[b].status = "running",
           y.status = "parked" => builder[b].status \in {"parked", "running"},
           builder[b].status = "ended" => y.status = "ended"
    PROVE  Aside(b, y)
<1>1. Past(NoView) /\ Past(Now) /\ Passed(b, NoView) /\ Passed(b, Now)
  BY NowIsPast DEF TeamInv, Past, Passed
<1>2. Past(y.view) /\ Past(y.anchor)
  BY <1>1, BuilderFacts
<1>3. looked[b].found = "waiting" => Passed(b, y.view) /\ Passed(b, y.anchor)
  BY <1>1, BuilderFacts
<1>4. y.anchor = NoView \/ (1 .. y.anchor.at \subseteq told[b] /\ y.anchor.seen \subseteq told[b])
  BY BuilderFacts DEF Known
<1>5. told \in [Builder -> SUBSET (1 .. MaxNews)]
  BY DEF TeamInv, TeamTypeOK
<1>6. QED BY <1>2, <1>3, <1>4, <1>5 DEF Aside, Moves

LEMMA RequestKeeps ==
    ASSUME TeamInv, NEW b \in Builder, Request(b)
    PROVE  TeamInv'
<1> DEFINE x == builder[b]
<1>1. /\ x \in BuilderState /\ x.status = "running" /\ x.phase \in {"start", "tools"}
      /\ Shaped(x) /\ Appended /\ mishaps \in Nat /\ receipt \in BOOLEAN
      /\ told \in [Builder -> SUBSET (1 .. MaxNews)] /\ builder \in [Builder -> BuilderState]
  BY NewsKept, BuilderFacts DEF Request, TeamInv, TeamTypeOK
<1>2. CASE x.view = NoView
  <2> DEFINE y0 == [x EXCEPT !.phase = "answered"]
  <2>1. PICK y \in BuilderState : y = y0
    BY <1>1 DEF BuilderState
  <2>2. /\ y.status = "running" /\ y.phase = "answered" /\ y.view = x.view /\ y.anchor = x.anchor
        /\ Shaped(y)
    BY <1>1, <1>2, <2>1 DEF BuilderState, Shaped
  <2>3. builder' = [builder EXCEPT ![b] = y]
    BY <1>2, <2>1 DEF Request
  <2>4. Aside(b, y)
    BY <1>1, <1>2, <2>2, <2>3, TakesAside DEF Request
  <2>5. QED BY <1>1, <2>4, AsideKeeps
<1>3. CASE x.view # NoView
  <2> DEFINE y0 == [x EXCEPT !.phase = "answered", !.anchor = x.view, !.view = NoView]
  <2>1. PICK y \in BuilderState : y = y0
    BY <1>1, NowIsPast DEF BuilderState, TeamInv
  <2>2. PICK v \in View : v = x.view
    BY <1>1 DEF BuilderState
  <2>3. /\ y.status = "running" /\ y.phase = "answered" /\ y.view = NoView /\ y.anchor = v
        /\ Shaped(y)
    BY <1>1, <1>3, <2>1, <2>2 DEF BuilderState, Shaped
  <2>4. /\ builder' = [builder EXCEPT ![b] = y]
        /\ told' = [told EXCEPT ![b] = @ \cup (1 .. v.at) \cup v.seen]
        /\ UNCHANGED <<receipt, looked, team, mishaps>>
    BY <1>3, <2>1, <2>2 DEF Request
  <2>5. Past(v) /\ (looked[b].found = "waiting" => Passed(b, v)) /\ v # NoView
    BY <1>3, <2>2, BuilderFacts
  <2>6. 1 .. v.at \subseteq 1 .. MaxNews /\ v.seen \subseteq 1 .. MaxNews
    <3>1. v.at =< NewsHead /\ v.at \in Nat /\ NewsHead \in 0 .. MaxNews
      BY <2>5, ViewTypes, HeadOfNews DEF Past, TeamInv, Sequences
    <3>2. QED BY <3>1, ViewTypes, TeamParameters
  <2>7. told[b] \cup (1 .. v.at) \cup v.seen \in SUBSET (1 .. MaxNews)
    BY <1>1, <2>6
  <2>8. told' \in [Builder -> SUBSET (1 .. MaxNews)]
    BY <1>1, <2>4, <2>7
  <2>9. /\ \A c \in Builder : told[c] \subseteq told'[c]
        /\ 1 .. v.at \subseteq told'[b] /\ v.seen \subseteq told'[b]
    BY <1>1, <2>4
  <2>10. Past(NoView) /\ Passed(b, NoView)
    BY DEF Past, Passed
  <2>11. Moves(b, y)
    BY <2>3, <2>4, <2>5, <2>8, <2>9, <2>10 DEF Moves
  <2>12. Aside(b, y)
    BY <1>1, <2>3, <2>4, <2>11 DEF Aside
  <2>13. QED BY <1>1, <2>12, AsideKeeps
<1>4. QED BY <1>2, <1>3

LEMMA CaptureKeeps ==
    ASSUME TeamInv, NEW b \in Builder, CaptureView(b)
    PROVE  TeamInv'
<1> DEFINE x == builder[b]
<1>1. /\ x \in BuilderState /\ x.status = "running" /\ x.phase = "answered"
      /\ Shaped(x) /\ Appended /\ mishaps \in Nat /\ receipt \in BOOLEAN
  BY NewsKept, BuilderFacts DEF CaptureView, TeamInv, TeamTypeOK
<1>2. PICK v \in View : v = IF x.view = NoView THEN Now ELSE x.view
  BY <1>1, NowIsPast DEF BuilderState, TeamInv
<1>3. PICK y \in BuilderState : y = [x EXCEPT !.phase = "tools", !.view = v]
  BY <1>1 DEF BuilderState
<1>4. /\ y.status = "running" /\ y.phase = "tools" /\ y.view = v /\ y.anchor = x.anchor
      /\ Shaped(y)
  BY <1>1, <1>3 DEF BuilderState, Shaped
<1>5. builder' = [builder EXCEPT ![b] = y]
  BY <1>2, <1>3 DEF CaptureView
<1>6. Aside(b, y)
  BY <1>1, <1>2, <1>4, <1>5, TakesAside DEF CaptureView
<1>7. QED BY <1>1, <1>6, AsideKeeps

LEMMA ParkKeeps ==
    ASSUME TeamInv, NEW b \in Builder, RequestEventWait(b)
    PROVE  TeamInv'
<1> DEFINE x == builder[b]
<1>1. /\ x \in BuilderState /\ x.status = "running" /\ x.phase = "tools"
      /\ Shaped(x) /\ Appended /\ mishaps \in Nat /\ receipt \in BOOLEAN
  BY NewsKept, BuilderFacts DEF RequestEventWait, TeamInv, TeamTypeOK
<1>2. WaitAnchor(x) = x.anchor /\ x.anchor # NoView
  BY <1>1 DEF Shaped, WaitAnchor
<1>3. PICK y \in BuilderState :
        y = [x EXCEPT !.status = "parked", !.phase = "idle", !.view = x.anchor,
                      !.asleep = TRUE, !.late = FALSE]
  BY <1>1 DEF BuilderState
<1>4. /\ y.status = "parked" /\ y.view = x.anchor /\ y.anchor = x.anchor
      /\ Shaped(y)
  BY <1>1, <1>2, <1>3 DEF BuilderState, Shaped
<1>5. builder' = [builder EXCEPT ![b] = y]
  BY <1>2, <1>3 DEF RequestEventWait
<1>6. Aside(b, y)
  BY <1>1, <1>4, <1>5, TakesAside DEF RequestEventWait
<1>7. QED BY <1>1, <1>6, AsideKeeps

LEMMA EndKeeps ==
    ASSUME TeamInv, NEW b \in Builder, EndTask(b)
    PROVE  TeamInv'
<1> DEFINE x == builder[b]
<1>1. /\ x \in BuilderState /\ x.status = "running" /\ Appended
      /\ mishaps \in Nat /\ receipt \in BOOLEAN
  BY NewsPublished DEF EndTask, TeamInv, TeamTypeOK
<1>2. PICK y \in BuilderState :
        y = [x EXCEPT !.status = "ended", !.phase = "idle", !.view = NoView, !.anchor = NoView]
  BY <1>1, NowIsPast DEF BuilderState, TeamInv
<1>3. /\ y.status = "ended" /\ y.view = NoView /\ y.anchor = NoView /\ Shaped(y)
  BY <1>1, <1>2 DEF BuilderState, Shaped
<1>4. builder' = [builder EXCEPT ![b] = y]
  BY <1>2 DEF EndTask
<1>5. Aside(b, y)
  BY <1>1, <1>3, <1>4, TakesAside DEF EndTask
<1>6. QED BY <1>1, <1>5, AsideKeeps

LEMMA ResumeKeeps ==
    ASSUME TeamInv, NEW b \in Builder, DieAndResume(b)
    PROVE  TeamInv'
<1> DEFINE x == builder[b]
<1>1. /\ x \in BuilderState /\ x.status = "running" /\ Appended
      /\ mishaps' \in Nat /\ receipt' \in BOOLEAN
  BY NewsKept DEF DieAndResume, TeamInv, TeamTypeOK
<1>2. PICK v \in View : v = IF x.anchor = NoView THEN Now ELSE x.anchor
  BY <1>1, NowIsPast DEF BuilderState, TeamInv
<1>3. v # NoView
  BY <1>2, NowIsPast DEF TeamInv
<1>4. PICK y \in BuilderState : y = [x EXCEPT !.phase = "start", !.view = v]
  BY <1>1 DEF BuilderState
<1>5. /\ y.status = "running" /\ y.view = v /\ y.anchor = x.anchor /\ Shaped(y)
  BY <1>1, <1>3, <1>4 DEF BuilderState, Shaped
<1>6. builder' = [builder EXCEPT ![b] = y]
  BY <1>2, <1>4 DEF DieAndResume
<1>7. Aside(b, y)
  BY <1>1, <1>2, <1>5, <1>6, TakesAside DEF DieAndResume
<1>8. QED BY <1>1, <1>7, AsideKeeps

\* Minimum sleeps and deadlines change nothing of the anchors.
LEMMA TimeKeeps ==
    ASSUME TeamInv, NEW b \in Builder, SleepEnds(b) \/ DeadlinePasses(b)
    PROVE  TeamInv'
<1> DEFINE x == builder[b]
<1>1. /\ x \in BuilderState /\ x.status = "parked" /\ Shaped(x) /\ Appended
      /\ mishaps' \in Nat /\ receipt' \in BOOLEAN /\ UNCHANGED <<told, looked, team>>
  BY NewsKept, BuilderFacts DEF SleepEnds, DeadlinePasses, TeamInv, TeamTypeOK
<1>2. PICK y \in BuilderState :
        /\ y \in {[x EXCEPT !.asleep = FALSE], [x EXCEPT !.late = TRUE]}
        /\ builder' = [builder EXCEPT ![b] = y]
  BY <1>1 DEF SleepEnds, DeadlinePasses, BuilderState
<1>3. y.status = "parked" /\ y.view = x.view /\ y.anchor = x.anchor /\ Shaped(y)
  BY <1>1, <1>2 DEF BuilderState, Shaped
<1>4. Aside(b, y)
  BY <1>1, <1>2, <1>3, TakesAside
<1>5. QED BY <1>1, <1>4, AsideKeeps

\* A wait that is ready and not past its deadline has an event to name, the least one.
LEMMA NamesUnseen ==
    ASSUME TeamInv, NEW b \in Builder, WaitStatus(b) = "ready", ~builder[b].late
    PROVE  Min(Unseen(b)) \in Missed(b, builder[b].view)
<1>1. Unseen(b) # {}
  BY DEF WaitStatus, TeamInv, TeamTypeOK, BuilderState
<1>2. Unseen(b) \in SUBSET Nat
  BY WatchedPast DEF Unseen, TeamInv
<1>3. Min(Unseen(b)) \in Unseen(b)
  BY <1>1, <1>2, LeastOfNat
<1>4. QED BY <1>3 DEF Unseen, Missed

\* The anchor of a woken wait is not ahead of the events, and it forgets what the wait had
\* seen only of events after the one that woke it.
LEMMA WokenAnchorHolds ==
    ASSUME TeamInv, NEW b \in Builder, NEW u \in View, u = builder[b].view, u # NoView,
           NEW named \in Missed(b, u), NEW v, v = WokenAnchor(u, named)
    PROVE  /\ v \in View /\ v # NoView /\ Past(v)
           /\ looked[b].found = "waiting" => Passed(b, v)
<1>1. named \in 1 .. NewsHead /\ NewsHead \in 0 .. MaxNews /\ NewsHead \in Nat
  BY WatchedPast, HeadOfNews DEF Missed, TeamInv, Sequences
<1>2. named \in 1 .. MaxNews /\ named \in Sequences /\ named =< NewsHead /\ named # MaxNews + 1
  BY <1>1, TeamParameters DEF Sequences
<1>3. u.at \in Nat /\ u.at =< NewsHead /\ u.at # MaxNews + 1
  <2>1. Past(u)
    BY BuilderFacts
  <2>2. QED BY <1>1, <2>1, ViewTypes, TeamParameters DEF Past
<1>4. CASE v = [at |-> named, seen |-> {}]
  <2>1. v.at = named /\ v.seen = {}
    BY <1>4
  <2>2. v \in View /\ v # NoView /\ Past(v)
    BY <1>2, <1>4 DEF View, NoView, Past
  <2>3. ASSUME looked[b].found = "waiting", NEW n \in Missed(b, v)
        PROVE  n > looked[b].head
    <3>1. named > looked[b].head
      BY <2>3, BuilderFacts DEF Passed
    <3>2. n \in Nat /\ n > named
      BY <2>1, WatchedPast DEF Missed, TeamInv
    <3>3. looked[b].head \in Nat
      BY BuilderTypes DEF TeamInv
    <3>4. QED BY <1>1, <3>1, <3>2, <3>3
  <2>4. QED BY <2>2, <2>3 DEF Passed
<1>5. CASE v = [u EXCEPT !.seen = @ \cup {named}]
  <2>1. v.at = u.at /\ v.seen = u.seen \cup {named}
    BY <1>5 DEF View
  <2>2. v \in View
    BY <1>2, <1>5, ViewTypes DEF View
  <2>3. v # NoView /\ Past(v)
    BY <1>3, <2>1 DEF NoView, Past
  <2>4. Missed(b, v) \subseteq Missed(b, u)
    BY <2>1 DEF Missed
  <2>5. looked[b].found = "waiting" => Passed(b, v)
    <3>1. looked[b].found = "waiting" => Passed(b, u)
      BY BuilderFacts
    <3>2. QED BY <2>4, <3>1 DEF Passed
  <2>6. QED BY <2>2, <2>3, <2>5
<1>6. QED BY <1>4, <1>5 DEF WokenAnchor

\* A task starts with an anchor that passes over nothing a look has not covered.
LEMMA StartHolds ==
    ASSUME TeamInv, NEW b \in Builder, StartTask(b)
    PROVE  /\ builder[b].status \in {"queued", "parked"}
           /\ \E y \in BuilderState :
                /\ builder' = [builder EXCEPT ![b] = y]
                /\ y.status = "running" /\ y.anchor = builder[b].anchor /\ Shaped(y)
                /\ Past(y.view)
                /\ looked[b].found = "waiting" => Passed(b, y.view)
<1> DEFINE x == builder[b]
<1>1. /\ x \in BuilderState /\ x.status \in {"queued", "parked"}
      /\ x.status = "parked" => WaitStatus(b) = "ready" /\ x.view # NoView
  BY BuilderFacts DEF StartTask, TeamInv, TeamTypeOK, Shaped
<1>2. PICK v \in {Now} \cup (IF x.status = "queued" THEN {}
                             ELSE IF x.late THEN {x.view}
                             ELSE {WokenAnchor(x.view, Min(Unseen(b)))}) :
        builder' = [builder EXCEPT ![b] =
            [x EXCEPT !.status = "running", !.phase = "start", !.view = v,
                      !.asleep = FALSE, !.late = FALSE]]
  BY DEF StartTask
<1>3. /\ v \in View /\ v # NoView /\ Past(v)
      /\ looked[b].found = "waiting" => Passed(b, v)
  <2>1. CASE v = Now
    BY <2>1, NowIsPast DEF TeamInv
  <2>2. CASE x.status # "queued" /\ x.late /\ v = x.view
    BY <1>1, <2>2, BuilderFacts DEF BuilderState
  <2>3. CASE x.status # "queued" /\ ~x.late /\ v = WokenAnchor(x.view, Min(Unseen(b)))
    <3>1. PICK u \in View : u = x.view
      BY <1>1 DEF BuilderState
    <3>2. u # NoView
      BY <1>1, <2>3, <3>1
    <3>3. PICK named \in Missed(b, u) : named = Min(Unseen(b))
      BY <1>1, <2>3, <3>1, NamesUnseen
    <3>4. v = WokenAnchor(u, named)
      BY <2>3, <3>1, <3>3
    <3>5. QED BY <3>1, <3>2, <3>4, WokenAnchorHolds
  <2>4. QED BY <1>2, <2>1, <2>2, <2>3
<1>4. PICK y \in BuilderState :
        y = [x EXCEPT !.status = "running", !.phase = "start", !.view = v,
                      !.asleep = FALSE, !.late = FALSE]
  BY <1>1, <1>3 DEF BuilderState
<1>5. y.status = "running" /\ y.phase = "start" /\ y.view = v /\ y.anchor = x.anchor
  BY <1>1, <1>4 DEF BuilderState
<1>6. QED BY <1>1, <1>2, <1>3, <1>4, <1>5 DEF Shaped

LEMMA StartMoves ==
    ASSUME TeamInv, NEW b \in Builder, StartTask(b), UNCHANGED told,
           looked' \in {looked, [looked EXCEPT ![b] = Unknown]}
    PROVE  \E y \in BuilderState : Moves(b, y) /\ y.status = "running"
<1>1. PICK y \in BuilderState :
        /\ builder' = [builder EXCEPT ![b] = y]
        /\ y.status = "running" /\ y.anchor = builder[b].anchor /\ Shaped(y)
        /\ Past(y.view)
        /\ looked[b].found = "waiting" => Passed(b, y.view)
  BY StartHolds
<1>2. told' \in [Builder -> SUBSET (1 .. MaxNews)] /\ looked \in [Builder -> Look]
  BY DEF TeamInv, TeamTypeOK
<1>3. /\ \A c \in Builder \ {b} : looked'[c] = looked[c]
      /\ looked'[b] = Unknown \/ looked'[b] = looked[b]
  BY <1>2
<1>4. Moves(b, y)
  BY <1>1, <1>2, <1>3, BuilderFacts DEF Moves, Known
<1>5. QED BY <1>1, <1>4

LEMMA OtherStartsKeeps ==
    ASSUME TeamInv, NEW b \in Builder, OtherStarts(b)
    PROVE  TeamInv'
<1>1. /\ b \notin Own /\ StartTask(b) /\ Appended /\ receipt' \in BOOLEAN /\ mishaps' \in Nat
      /\ UNCHANGED <<told, looked, team>>
  BY NewsKept DEF OtherStarts, TeamInv, TeamTypeOK
<1>2. PICK y \in BuilderState : Moves(b, y) /\ y.status = "running"
  BY <1>1, StartMoves
<1>3. builder[b].status \in {"queued", "parked"}
  BY <1>1, StartHolds
<1>4. Aside(b, y)
  BY <1>1, <1>2, <1>3 DEF Aside
<1>5. QED BY <1>1, <1>4, AsideKeeps

LEMMA LaunchKeeps ==
    ASSUME TeamInv, NEW b \in Builder, Launch(b)
    PROVE  TeamInv'
<1>1. /\ b \in Own /\ StartTask(b) /\ Appended /\ receipt' \in BOOLEAN /\ mishaps' \in Nat
      /\ UNCHANGED <<told, news>> /\ looked' = [looked EXCEPT ![b] = Unknown]
      /\ team' = [team EXCEPT !.attempted = @ \cup {b}, !.busy = @ \cup {b}]
      /\ team.pc = "scan" /\ team \in Team
      /\ builder \in [Builder -> BuilderState] /\ looked \in [Builder -> Look]
  BY NewsKept DEF Launch, Startable, TeamInv, TeamTypeOK
<1>2. PICK y \in BuilderState : Moves(b, y) /\ y.status = "running"
  BY <1>1, StartMoves
<1>3. Anchored' /\ AnchorsKnown' /\ LooksHold' /\ builder' \in [Builder -> BuilderState]
  BY <1>1, <1>2, MovesKeeps DEF TeamInv
<1>4. /\ team' \in Team /\ team'.pc = "scan" /\ team'.head = team.head
      /\ team'.attempted = team.attempted \cup {b}
  BY <1>1 DEF Team
<1>5. TeamTypeOK'
  <2>1. Unknown \in Look
    BY TeamParameters DEF Unknown, Look, Sequences
  <2>2. looked' \in [Builder -> Look]
    BY <1>1, <2>1
  <2>3. QED BY <1>1, <1>2, <1>3, <1>4, <2>2 DEF TeamTypeOK, Moves, Appended
<1>6. PassHolds'
  <2>1. \A c \in Builder : c # b => builder'[c] = builder[c]
    BY <1>1, <1>2 DEF Moves
  <2>2. NewsHead' = NewsHead
    BY <1>1 DEF NewsHead
  <2>3. \A c \in Own : builder'[c].status # "queued" => c \in team'.attempted
    BY <1>4, <2>1, TeamParameters DEF TeamInv, PassHolds
  <2>4. QED BY <1>4, <2>2, <2>3 DEF TeamInv, PassHolds, Confirming
<1>7. QED BY <1>3, <1>5, <1>6 DEF TeamInv

\* The steps that touch no builder keep its anchors, and its look unless it looks again.
LEMMA StillKeeps ==
    ASSUME TeamInv, Appended, UNCHANGED <<builder, told>>, looked' \in [Builder -> Look],
           \A b \in Builder : looked'[b].found = "waiting" =>
                \/ looked[b].found = "waiting" /\ looked'[b].head = looked[b].head
                \/ builder[b].status = "parked" /\ Unseen(b) = {},
           \A b \in Builder : looked'[b].head \in {looked[b].head, team.head}
    PROVE  Anchored' /\ AnchorsKnown' /\ LooksHold'
<1> USE DEF TeamInv
<1>1. Anchored'
  <2>1. SUFFICES ASSUME NEW b \in Builder
                 PROVE Past(builder[b].view)' /\ Past(builder[b].anchor)'
    BY DEF Anchored, Shaped
  <2>2. PICK u \in View, v \in View : u = builder[b].view /\ v = builder[b].anchor
    BY BuilderTypes
  <2>3. Past(u)' /\ Past(v)'
    BY <2>2, PastOn, BuilderFacts
  <2>4. QED BY <2>2, <2>3 DEF Past
<1>2. AnchorsKnown'
  BY DEF AnchorsKnown, Known
<1>3. ASSUME NEW b \in Builder PROVE looked'[b].head =< NewsHead'
  <2>1. /\ looked[b].head \in Nat /\ looked[b].head =< NewsHead
        /\ team.head \in Nat /\ team.head =< NewsHead
    BY BuilderTypes, BuilderFacts DEF LooksHold, PassHolds
  <2>2. QED BY <2>1, HeadOfNews DEF Appended
<1>4. ASSUME NEW b \in Builder, looked'[b].found = "waiting",
             NEW v \in View, v \in {builder[b].view, builder[b].anchor}, v # NoView,
             NEW n \in Missed(b, v)'
      PROVE  n > looked'[b].head
  <2>1. n \in Watched(b)' /\ n > v.at /\ n \notin v.seen
    BY <1>4 DEF Missed
  <2>2. n \in Nat /\ (n \in Watched(b) \/ n > NewsHead)
    BY <2>1, WatchedGrow
  <2>3. looked'[b].head \in Nat /\ looked'[b].head =< NewsHead
    BY BuilderTypes, BuilderFacts DEF LooksHold, PassHolds
  <2>4. CASE n > NewsHead
    BY <2>2, <2>3, <2>4, HeadOfNews
  <2>5. CASE n \in Watched(b)
    <3>1. n \in Missed(b, v)
      BY <2>1, <2>5 DEF Missed
    <3>2. CASE looked[b].found = "waiting" /\ looked'[b].head = looked[b].head
      BY <1>4, <3>1, <3>2, BuilderFacts DEF Passed
    <3>3. CASE builder[b].status = "parked" /\ Unseen(b) = {}
      <4>1. v = builder[b].view
        BY <1>4, <3>3, BuilderFacts DEF Shaped
      <4>2. n \in Unseen(b)
        BY <3>1, <4>1 DEF Missed, Unseen
      <4>3. QED BY <3>3, <4>2
    <3>4. QED BY <1>4, <3>2, <3>3
  <2>6. QED BY <2>2, <2>4, <2>5
<1>5. LooksHold'
  <2>1. SUFFICES ASSUME NEW b \in Builder, looked'[b].found = "waiting"
                 PROVE  Passed(b, builder[b].view)' /\ Passed(b, builder[b].anchor)'
    BY <1>3 DEF LooksHold
  <2>2. PICK u \in View, v \in View : u = builder[b].view /\ v = builder[b].anchor
    BY BuilderTypes
  <2>3. /\ u # NoView => \A n \in Missed(b, u)' : n > looked'[b].head
        /\ v # NoView => \A n \in Missed(b, v)' : n > looked'[b].head
    BY <1>4, <2>1, <2>2
  <2>4. builder'[b].view = u /\ builder'[b].anchor = v
    BY <2>2
  <2>5. Missed(b, builder[b].view)' = Missed(b, u)' /\ Missed(b, builder[b].anchor)' = Missed(b, v)'
    BY <2>4 DEF Missed
  <2>6. QED BY <2>3, <2>4, <2>5 DEF Passed
<1>6. QED BY <1>1, <1>2, <1>5

\* Announcements, submissions and verifications.
LEMMA EventsKeep ==
    ASSUME TeamInv, Appended, UNCHANGED <<builder, told, looked, team>>,
           receipt' \in BOOLEAN, mishaps' \in Nat
    PROVE  TeamInv'
<1>1. looked \in [Builder -> Look]
  BY DEF TeamInv, TeamTypeOK
<1>2. Anchored' /\ AnchorsKnown' /\ LooksHold'
  BY <1>1, StillKeeps
<1>3. TeamTypeOK'
  BY DEF TeamInv, TeamTypeOK, Appended
<1>4. team.head \in Nat /\ team.head =< NewsHead
  BY TeamParameters DEF TeamInv, PassHolds, TeamTypeOK, Team, Sequences
<1>5. team.head =< NewsHead'
  BY <1>4, HeadOfNews DEF TeamInv, Appended
<1>6. PassHolds'
  BY <1>5 DEF TeamInv, PassHolds, FoundNothing
<1>7. QED BY <1>2, <1>3, <1>6 DEF TeamInv

\* Steps of the supervisor that look at no wait.
PassOnly == UNCHANGED <<news, builder, told, receipt, mishaps>>
LEMMA PassKeeps ==
    ASSUME TeamInv, PassOnly, UNCHANGED looked, team' \in Team
    PROVE  TeamTypeOK' /\ Anchored' /\ AnchorsKnown' /\ LooksHold' /\ NewsHead' = NewsHead
<1>1. Appended /\ looked \in [Builder -> Look] /\ NewsHead' = NewsHead
  BY NewsKept DEF TeamInv, TeamTypeOK, PassOnly, NewsHead
<1>2. Anchored' /\ AnchorsKnown' /\ LooksHold'
  BY <1>1, StillKeeps DEF PassOnly
<1>3. TeamTypeOK'
  BY <1>1 DEF TeamInv, TeamTypeOK, PassOnly
<1>4. QED BY <1>1, <1>2, <1>3

LEMMA TeamTypes ==
    ASSUME TeamInv
    PROVE  /\ team \in Team /\ 0 \in Sequences /\ NewsHead \in Sequences /\ NewsHead \in Nat
           /\ looked \in [Builder -> Look] /\ team.head =< NewsHead /\ team.head \in Nat
           /\ Own \subseteq Builder /\ 0 =< NewsHead
           /\ \A b \in Own : builder[b].status # "queued" => b \in team.attempted
<1>1. NewsHead \in Sequences /\ NewsHead \in Nat
  BY HeadOfNews DEF TeamInv
<1>2. QED
  BY <1>1, TeamParameters DEF TeamInv, TeamTypeOK, PassHolds, Sequences, Team

\* The pass is over or begins anew.
LEMMA TopKeeps ==
    ASSUME TeamInv, PassOnly, UNCHANGED looked, team' \in Team,
           team'.pc \notin Confirming, team'.head \in {0, team.head, NewsHead},
           team'.attempted = team.attempted
    PROVE  TeamInv'
<1>1. TeamTypeOK' /\ Anchored' /\ AnchorsKnown' /\ LooksHold' /\ NewsHead' = NewsHead
  BY PassKeeps
<1>2. team'.head =< NewsHead'
  BY <1>1, TeamTypes
<1>3. PassHolds'
  BY <1>2, TeamTypes DEF PassHolds, PassOnly, Confirming
<1>4. QED BY <1>1, <1>3 DEF TeamInv

LEMMA AgainType ==
    ASSUME TeamInv, Again
    PROVE  /\ team' \in Team /\ team'.pc = "top" /\ team'.head = 0
           /\ team'.attempted = team.attempted /\ team'.stop = team.stop
BY TeamTypes DEF Again, Team

LEMMA ReadHeadKeeps ==
    ASSUME TeamInv, ReadHead \/ EndScan \/ StopEarly
    PROVE  TeamInv'
<1>1. CASE ReadHead
  <2>1. /\ team' \in Team /\ team'.pc = "scan" /\ team'.head = NewsHead
        /\ team'.attempted = team.attempted
    BY <1>1, TeamTypes DEF ReadHead, Team
  <2>2. QED BY <1>1, <2>1, TopKeeps DEF ReadHead, PassOnly, Confirming
<1>2. CASE EndScan
  <2>1. {b \in team.busy : builder[b].status = "running"} \in SUBSET Own
    BY TeamTypes DEF Team
  <2>2. /\ team' \in Team /\ team'.pc \in {"top", "work"} /\ team'.head \in {0, team.head}
        /\ team'.attempted = team.attempted
    BY <1>2, <2>1, TeamTypes DEF EndScan, Team
  <2>3. QED BY <1>2, <2>2, TopKeeps DEF EndScan, PassOnly, Confirming
<1>3. CASE StopEarly
  <2>1. /\ team' \in Team /\ team'.pc = "stopped" /\ team'.head = team.head
        /\ team'.attempted = team.attempted
    BY <1>3, TeamTypes DEF StopEarly, Team
  <2>2. QED BY <1>3, <2>1, TopKeeps DEF StopEarly, PassOnly, Confirming
<1>4. QED BY <1>1, <1>2, <1>3

\* Every own builder that was started and goes on is parked, and its wait found nothing.
LEMMA CheckIdleKeeps ==
    ASSUME TeamInv, CheckIdle
    PROVE  TeamInv'
<1>1. PassOnly /\ UNCHANGED looked /\ team \in Team
  BY TeamTypes DEF CheckIdle, PassOnly
<1>2. CASE \A b \in Waiting : builder[b].status # "parked"
  <2>1. /\ team' \in Team /\ team'.pc = "stopped" /\ team'.head = team.head
        /\ team'.attempted = team.attempted
    BY <1>1, <1>2 DEF CheckIdle, Team
  <2>2. QED BY <1>1, <2>1, TopKeeps DEF Confirming
<1>3. CASE Again
  BY <1>1, <1>3, AgainType, TopKeeps DEF Confirming
<1>4. CASE /\ \A b \in Waiting : builder[b].status = "parked" /\ FoundNothing(b)
           /\ team' = [team EXCEPT !.pc = "tasks"]
  <2>1. /\ team' \in Team /\ team'.pc = "tasks" /\ team'.head = team.head
        /\ team'.attempted = team.attempted
    BY <1>1, <1>4 DEF Team
  <2>2. TeamTypeOK' /\ Anchored' /\ AnchorsKnown' /\ LooksHold' /\ NewsHead' = NewsHead
    BY <1>1, <2>1, PassKeeps
  <2>3. ASSUME NEW b \in Own
        PROVE  builder[b].status # "running" /\ (builder[b].status = "parked" => FoundNothing(b))
    <3>1. builder[b].status \in {"running", "parked"} => b \in Waiting
      BY TeamTypes DEF Waiting, MayAttempt
    <3>2. QED BY <1>4, <3>1
  <2>4. PassHolds'
    BY <1>1, <2>1, <2>2, <2>3, TeamTypes DEF PassHolds, PassOnly, FoundNothing
  <2>5. QED BY <2>2, <2>4 DEF TeamInv
<1>5. QED BY <1>2, <1>3, <1>4 DEF CheckIdle

LEMMA ReadTasksKeeps ==
    ASSUME TeamInv, ReadTasks
    PROVE  TeamInv'
<1>1. PassOnly /\ UNCHANGED looked /\ team \in Team /\ team.pc = "tasks"
  BY TeamTypes DEF ReadTasks, PassOnly
<1>2. CASE Again
  BY <1>1, <1>2, AgainType, TopKeeps DEF Confirming
<1>3. CASE team' = [team EXCEPT !.pc = "others"]
  <2>1. /\ team' \in Team /\ team'.pc = "others" /\ team'.head = team.head
        /\ team'.attempted = team.attempted
    BY <1>1, <1>3 DEF Team
  <2>2. TeamTypeOK' /\ Anchored' /\ AnchorsKnown' /\ LooksHold' /\ NewsHead' = NewsHead
    BY <1>1, <2>1, PassKeeps
  <2>3. PassHolds'
    BY <1>1, <2>1, <2>2 DEF TeamInv, PassHolds, PassOnly, FoundNothing, Confirming
  <2>4. QED BY <2>2, <2>3 DEF TeamInv
<1>4. QED BY <1>2, <1>3 DEF ReadTasks

\* A look that finds nothing finds no unseen event.
LEMMA WaitingIsBlind ==
    ASSUME NEW b, WaitStatus(b) = "waiting", builder[b] \in BuilderState
    PROVE  Unseen(b) = {}
BY DEF WaitStatus, BuilderState

LEMMA WaitStatusType ==
    ASSUME NEW b, builder[b] \in BuilderState
    PROVE  WaitStatus(b) \in {"unknown", "min_sleep", "waiting", "ready"}
BY DEF WaitStatus, BuilderState

LEMMA CheckWaitKeeps ==
    ASSUME TeamInv, NEW b \in Builder, CheckWait(b)
    PROVE  TeamInv'
<1> DEFINE look == [head |-> team.head, found |-> WaitStatus(b), recent |-> team.idle]
<1>1. /\ UNCHANGED <<news, builder, told, receipt, team, mishaps>> /\ team.pc = "scan"
      /\ builder[b].status = "parked" /\ looked' = [looked EXCEPT ![b] = look]
      /\ builder[b] \in BuilderState /\ Appended /\ looked \in [Builder -> Look]
  BY NewsKept DEF CheckWait, Check, TeamInv, TeamTypeOK
<1>2. look \in Look
  BY <1>1, WaitStatusType, TeamTypes DEF Look, Team
<1>3. /\ looked' \in [Builder -> Look] /\ looked'[b] = look
      /\ \A c \in Builder \ {b} : looked'[c] = looked[c]
  BY <1>1, <1>2
<1>4. look.found = "waiting" => Unseen(b) = {}
  BY <1>1, WaitingIsBlind
<1>5. Anchored' /\ AnchorsKnown' /\ LooksHold'
  <2>1. look.head = team.head
    OBVIOUS
  <2> HIDE DEF look
  <2>2. QED BY <1>1, <1>3, <1>4, <2>1, StillKeeps
<1>6. TeamTypeOK'
  BY <1>1, <1>3 DEF TeamInv, TeamTypeOK, Appended
<1>7. NewsHead' = NewsHead
  BY <1>1 DEF NewsHead
<1>8. PassHolds'
  BY <1>1, <1>7 DEF TeamInv, PassHolds, Confirming
<1>9. QED BY <1>5, <1>6, <1>8 DEF TeamInv

\* The waits of others count once they were looked at in this pass.
LEMMA CheckOthersKeeps ==
    ASSUME TeamInv, CheckOthers
    PROVE  TeamInv'
<1> DEFINE due == {b \in Builder \ Own : builder[b].status # "ended" /\ CheckDue(b)}
           now == [b \in Builder |->
                     IF b \notin due THEN looked[b]
                     ELSE [head |-> team.head, recent |-> team.idle,
                           found |-> IF builder[b].status = "parked" THEN WaitStatus(b)
                                     ELSE "ready"]]
<1>1. /\ UNCHANGED <<news, builder, told, receipt, mishaps>> /\ team.pc = "others"
      /\ looked' = now /\ Appended /\ looked \in [Builder -> Look] /\ team \in Team
      /\ IF \A b \in Builder \ Own :
              builder[b].status = "ended" \/ (now[b].found = "waiting" /\ now[b].head = team.head)
         THEN team' = [team EXCEPT !.pc = "receipts"]
         ELSE Again
  BY NewsKept DEF CheckOthers, TeamInv, TeamTypeOK
<1>2. ASSUME NEW b \in Builder
      PROVE  /\ now[b] \in Look /\ now[b].head \in {looked[b].head, team.head}
             /\ now[b].found = "waiting" =>
                  \/ looked[b].found = "waiting" /\ now[b].head = looked[b].head
                  \/ builder[b].status = "parked" /\ Unseen(b) = {}
             /\ b \in Own => now[b] = looked[b]
  <2>1. builder[b] \in BuilderState
    BY DEF TeamInv, TeamTypeOK
  <2>2. CASE b \notin due
    BY <1>1, <2>2
  <2>3. CASE b \in due /\ builder[b].status = "parked"
    <3>1. now[b] = [head |-> team.head, recent |-> team.idle, found |-> WaitStatus(b)]
      BY <2>3
    <3>2. WaitStatus(b) \in {"unknown", "min_sleep", "waiting", "ready"}
      BY <2>1, WaitStatusType
    <3>3. WaitStatus(b) = "waiting" => Unseen(b) = {}
      BY <2>1, WaitingIsBlind
    <3>4. b \notin Own
      BY <2>3
    <3> HIDE DEF now, due
    <3>5. QED BY <1>1, <2>3, <3>1, <3>2, <3>3, <3>4 DEF Look, Team
  <2>4. CASE b \in due /\ builder[b].status # "parked"
    <3>1. now[b] = [head |-> team.head, recent |-> team.idle, found |-> "ready"]
      BY <2>4
    <3>2. b \notin Own
      BY <2>4
    <3> HIDE DEF now, due
    <3>3. QED BY <1>1, <3>1, <3>2 DEF Look, Team
  <2>5. QED BY <2>2, <2>3, <2>4
<1>3. now \in [Builder -> Look]
  <2>1. \A b \in Builder : now[b] \in Look
    BY <1>2
  <2>2. DOMAIN now = Builder /\ now = [b \in Builder |-> now[b]]
    OBVIOUS
  <2> HIDE DEF now
  <2>3. QED BY <2>1, <2>2
<1> HIDE DEF now, due
<1>4. looked' \in [Builder -> Look] /\ NewsHead' = NewsHead
  BY <1>1, <1>3 DEF NewsHead
<1>5. Anchored' /\ AnchorsKnown' /\ LooksHold'
  BY <1>1, <1>2, <1>4, StillKeeps
<1>6. CASE Again
  <2>1. /\ team' \in Team /\ team'.pc = "top" /\ team'.head = 0
        /\ team'.attempted = team.attempted
    BY <1>6, AgainType
  <2>2. TeamTypeOK'
    BY <1>1, <1>4, <2>1 DEF TeamInv, TeamTypeOK, Appended
  <2>3. PassHolds'
    BY <1>1, <1>4, <2>1, TeamTypes DEF PassHolds, Confirming
  <2>4. QED BY <1>5, <2>2, <2>3 DEF TeamInv
<1>7. CASE /\ \A b \in Builder \ Own :
                builder[b].status = "ended" \/ (now[b].found = "waiting" /\ now[b].head = team.head)
           /\ team' = [team EXCEPT !.pc = "receipts"]
  <2>1. /\ team' \in Team /\ team'.pc = "receipts" /\ team'.head = team.head
        /\ team'.attempted = team.attempted
    BY <1>1, <1>7 DEF Team
  <2>2. TeamTypeOK'
    BY <1>1, <1>4, <2>1 DEF TeamInv, TeamTypeOK, Appended
  <2>3. ASSUME NEW b \in Own
        PROVE  /\ builder[b].status # "running"
               /\ builder[b].status = "parked" => FoundNothing(b)'
    <3>1. looked'[b] = looked[b]
      BY <1>1, <1>2, TeamTypes
    <3>2. builder[b].status # "running" /\ (builder[b].status = "parked" => FoundNothing(b))
      BY <1>1 DEF TeamInv, PassHolds, Confirming
    <3>3. QED BY <2>1, <3>1, <3>2 DEF FoundNothing
  <2>4. \A b \in Builder \ Own : builder[b].status = "ended" \/ FoundNothing(b)'
    BY <1>1, <1>7, <2>1 DEF FoundNothing
  <2>5. PassHolds'
    BY <1>1, <1>4, <2>1, <2>3, <2>4, TeamTypes DEF PassHolds
  <2>6. QED BY <1>5, <2>2, <2>5 DEF TeamInv
<1>8. QED BY <1>1, <1>6, <1>7

LEMMA ReadReceiptsKeeps ==
    ASSUME TeamInv, ReadReceipts
    PROVE  TeamInv'
<1>1. PassOnly /\ team \in Team /\ team.pc = "receipts" /\ looked \in [Builder -> Look]
  BY TeamTypes DEF ReadReceipts, PassOnly
<1>2. CASE Again /\ UNCHANGED looked
  BY <1>1, <1>2, AgainType, TopKeeps DEF Confirming
<1>3. CASE /\ team' = [team EXCEPT !.pc = "stopped",
                            !.stop = IF Capped = {} THEN "idle" ELSE "task_limit"]
           /\ UNCHANGED looked
  <2>1. /\ team' \in Team /\ team'.pc = "stopped" /\ team'.head = team.head
        /\ team'.attempted = team.attempted
    BY <1>1, <1>3 DEF Team
  <2>2. QED BY <1>1, <1>3, <2>1, TopKeeps DEF Confirming
<1>4. CASE /\ team' = [team EXCEPT !.pc = "top", !.head = 0, !.idle = TRUE]
           /\ looked' = IF team.idle THEN looked
                        ELSE [b \in Builder |-> [looked[b] EXCEPT !.recent = FALSE]]
  <2>1. /\ team' \in Team /\ team'.pc = "top" /\ team'.head = 0
        /\ team'.attempted = team.attempted
    BY <1>1, <1>4, TeamTypes DEF Team
  <2>2. /\ looked' \in [Builder -> Look]
        /\ \A b \in Builder : looked'[b].found = looked[b].found /\ looked'[b].head = looked[b].head
    <3>1. CASE team.idle
      BY <1>1, <1>4, <3>1
    <3>2. CASE ~team.idle
      <4>1. \A b \in Builder : /\ [looked[b] EXCEPT !.recent = FALSE] \in Look
                               /\ looked'[b] = [looked[b] EXCEPT !.recent = FALSE]
        BY <1>1, <1>4, <3>2 DEF Look
      <4>2. \A b \in Builder : /\ looked'[b].found = looked[b].found
                               /\ looked'[b].head = looked[b].head
        BY <1>1, <4>1 DEF Look
      <4>3. looked' = [b \in Builder |-> [looked[b] EXCEPT !.recent = FALSE]]
        BY <1>4, <3>2
      <4>4. QED BY <4>1, <4>2, <4>3
    <3>3. QED BY <3>1, <3>2
  <2>3. Appended /\ NewsHead' = NewsHead
    BY <1>1, NewsKept DEF PassOnly, TeamInv, NewsHead
  <2>4. Anchored' /\ AnchorsKnown' /\ LooksHold'
    BY <1>1, <2>2, <2>3, StillKeeps DEF PassOnly
  <2>5. TeamTypeOK'
    BY <1>1, <2>1, <2>2, <2>3 DEF TeamInv, TeamTypeOK, PassOnly, Appended
  <2>6. PassHolds'
    BY <1>1, <2>1, <2>3, TeamTypes DEF PassHolds, PassOnly, Confirming
  <2>7. QED BY <2>4, <2>5, <2>6 DEF TeamInv
<1>5. QED BY <1>2, <1>3, <1>4 DEF ReadReceipts

LEMMA TeamInitInv ==
    ASSUME TeamInit
    PROVE  TeamInv
<1>1. 0 \in Sequences /\ MaxNews \in Nat /\ MaxNews # 0 - 1
  BY TeamParameters DEF Sequences
<1>2. TeamTypeOK
  <2>1. news \in [1 .. 0 -> News]
    BY DEF TeamInit
  <2>2. NoView \in View /\ Unknown \in Look
    BY <1>1 DEF NoView, View, Unknown, Look
  <2>3. QED
    BY <1>1, <2>1, <2>2 DEF TeamInit, TeamTypeOK, BuilderState, Team
<1>3. NewsHead \in Nat
  BY <1>2, HeadOfNews
<1>4. Anchored /\ AnchorsKnown
  BY DEF TeamInit, Anchored, AnchorsKnown, Shaped, Past, Known
<1>5. LooksHold /\ PassHolds
  BY <1>3, TeamParameters DEF TeamInit, LooksHold, PassHolds, Passed, Unknown, Confirming
<1>6. QED BY <1>2, <1>4, <1>5 DEF TeamInv

LEMMA TeamStep ==
    ASSUME TeamInv, [TeamNext]_teamVars
    PROVE  TeamInv'
<1>1. ASSUME NEW b \in Builder, Build(b)
      PROVE  TeamInv'
  <2>1. CASE Announce(b) \/ Submit(b)
    <3>1. Appended /\ receipt' \in BOOLEAN /\ mishaps' \in Nat
      BY <2>1, NewsPublished, NewsKept DEF Announce, Submit, TeamInv, TeamTypeOK
    <3>2. QED BY <2>1, <3>1, EventsKeep DEF Announce, Submit
  <2>2. QED
    BY <1>1, <2>1, RequestKeeps, CaptureKeeps, ParkKeeps, EndKeeps DEF Build
<1>2. ASSUME NEW b \in Builder,
             DieAndResume(b) \/ SleepEnds(b) \/ DeadlinePasses(b) \/ OtherStarts(b)
      PROVE  TeamInv'
  BY <1>2, ResumeKeeps, TimeKeeps, OtherStartsKeeps
<1>3. CASE Verify
  <2>1. Appended /\ receipt' \in BOOLEAN /\ mishaps' \in Nat
    BY <1>3, NewsPublished DEF Verify, TeamInv, TeamTypeOK
  <2>2. QED BY <1>3, <2>1, EventsKeep DEF Verify
<1>4. CASE Supervise \/ StopEarly
  BY <1>4, ReadHeadKeeps, CheckIdleKeeps, ReadTasksKeeps, CheckWaitKeeps, CheckOthersKeeps,
     ReadReceiptsKeeps, LaunchKeeps DEF Supervise
<1>5. CASE UNCHANGED teamVars
  <2>1. Appended
    BY <1>5, NewsKept DEF teamVars, TeamInv
  <2>2. QED BY <1>5, <2>1, EventsKeep DEF teamVars, TeamInv, TeamTypeOK
<1>6. QED BY <1>1, <1>2, <1>3, <1>4, <1>5 DEF TeamNext

\* A parked builder's anchor covers only what it was told, so the rest is unseen.
LEMMA NothingSlept ==
    ASSUME TeamInv
    PROVE  TeamSound
<1>1. SUFFICES ASSUME NEW b \in Builder, builder[b].status = "parked",
                      NEW n \in Watched(b) \ told[b]
               PROVE  n \in Unseen(b)
  BY DEF TeamSound, NoNewsLost, TeamInv
<1>2. PICK v \in View : v = builder[b].view
  BY BuilderTypes DEF TeamInv
<1>3. 1 .. v.at \subseteq told[b] /\ v.seen \subseteq told[b]
  BY <1>1, <1>2, BuilderFacts DEF Shaped, Known
<1>4. n \in 1 .. NewsHead /\ NewsHead \in Nat /\ v.at \in Nat
  BY WatchedPast, HeadOfNews, ViewTypes DEF TeamInv
<1>5. n > v.at /\ n \notin v.seen
  BY <1>3, <1>4
<1>6. QED BY <1>2, <1>5 DEF Unseen

\* The builders' waits: for any builders, events and deaths, a parked builder's wait
\* is woken by every event that it watches and that no request of its session could
\* show it (event_anchor, anchor_request, request_event_wait, _session_anchor).
THEOREM TeamSafety == TeamSpec => []TeamSound
<1>1. TeamInit => TeamInv
  BY TeamInitInv
<1>2. TeamInv /\ [TeamNext]_teamVars => TeamInv'
  BY TeamStep
<1>3. TeamInv => TeamSound
  BY NothingSlept
<1>4. QED BY <1>1, <1>2, <1>3, PTL DEF TeamSpec

\* The idle stop of ResearchTeamRunner.run: none of its own builders runs then, and every
\* event up to the head of the confirming pass has woken whom it should wake, although the
\* tasks, the waits and the receipts are read one after the other while builders work.
THEOREM IdleStops == TeamSpec => IdleStopMissedNothing
<1> DEFINE Stops == team.stop = "none" /\ team'.stop = "idle"
           Clear == /\ \A b \in Own : builder[b].status # "running"
                    /\ \A b \in Builder : builder[b].status = "parked" =>
                            \A n \in Unseen(b) : n > team.head
<1>1. TeamInv /\ [TeamNext]_teamVars => (Stops => Clear)
  <2>1. SUFFICES ASSUME TeamInv, [TeamNext]_teamVars, Stops PROVE Clear
    OBVIOUS
  <2>2. team.pc = "receipts"
    <3>1. team' # team /\ team \in Team
      BY <2>1 DEF TeamInv, TeamTypeOK
    <3>2. ReadReceipts => team.pc = "receipts"
      BY DEF ReadReceipts
    <3>3. ~(ReadHead \/ EndScan \/ CheckIdle \/ ReadTasks \/ CheckOthers \/ StopEarly)
      <4>1. ~Again
        BY <2>1, AgainType
      <4>2. QED
        BY <2>1, <3>1, <4>1 DEF ReadHead, EndScan, CheckIdle, ReadTasks, CheckOthers, StopEarly,
                                Team
    <3>4. \A b \in Builder : ~Launch(b) /\ ~CheckWait(b)
      BY <2>1, <3>1 DEF Launch, CheckWait, Team
    <3>5. \A b \in Builder : ~Build(b) /\ ~DieAndResume(b) /\ ~SleepEnds(b)
                             /\ ~DeadlinePasses(b) /\ ~OtherStarts(b)
      BY <3>1 DEF Build, Request, CaptureView, Announce, Submit, RequestEventWait, EndTask,
                  DieAndResume, SleepEnds, DeadlinePasses, OtherStarts
    <3>6. ~Verify /\ ~UNCHANGED teamVars
      BY <3>1 DEF Verify, teamVars
    <3>7. QED BY <2>1, <3>2, <3>3, <3>4, <3>5, <3>6 DEF TeamNext, Supervise
  <2>3. \A b \in Own : /\ builder[b].status # "running"
                       /\ builder[b].status = "parked" => FoundNothing(b)
    BY <2>1, <2>2 DEF TeamInv, PassHolds, Confirming
  <2>4. \A b \in Builder \ Own : builder[b].status = "ended" \/ FoundNothing(b)
    BY <2>1, <2>2 DEF TeamInv, PassHolds
  <2>5. ASSUME NEW b \in Builder, builder[b].status = "parked", NEW n \in Unseen(b)
        PROVE  n > team.head
    <3>1. looked[b].found = "waiting" /\ looked[b].head = team.head
      BY <2>3, <2>4, <2>5 DEF FoundNothing
    <3>2. Passed(b, builder[b].view) /\ builder[b].view # NoView
      BY <2>1, <2>5, <3>1, BuilderFacts DEF Shaped
    <3>3. n \in Missed(b, builder[b].view)
      BY <2>5 DEF Unseen, Missed
    <3>4. QED BY <3>1, <3>2, <3>3 DEF Passed
  <2>6. QED BY <2>3, <2>5
<1>2. TeamInit => TeamInv
  BY TeamInitInv
<1>3. TeamInv /\ [TeamNext]_teamVars => TeamInv'
  BY TeamStep
<1>4. TeamInv /\ [TeamNext]_teamVars => [Stops => Clear]_teamVars
  BY <1>1
<1>5. QED BY <1>2, <1>3, <1>4, PTL DEF TeamSpec, IdleStopMissedNothing
=============================================================================
