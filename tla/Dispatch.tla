------------------------------ MODULE Dispatch ------------------------------
(***************************************************************************)
(* The commands of one experiment on their way from the database to the    *)
(* work they start: transition_experiment writes a command to the outbox,  *)
(* OutboxDispatcher claims and delivers it, TemporalDelivery starts or     *)
(* signals the ExperimentWorkflow, and its activity                        *)
(* apply_experiment_command seeds one branch and one task per model.       *)
(*                                                                         *)
(* Outbox identifiers are random, so commands are delivered in any order.  *)
(* Temporal (workflow identities, signals, activity retries) is external   *)
(* and modelled from how the code uses it.  Crashes, lost answers and      *)
(* stalls are faults; their number is bounded by MaxFaults.                *)
(***************************************************************************)
EXTENDS Naturals, Sequences, FiniteSets

CONSTANTS
    Dispatcher,         \* dispatcher processes
    Models,             \* number of models the experiment's policy seeds
    ClaimLimit,         \* rows claimed at once (20 in the code)
    ActivityAttempts,   \* maximum_attempts of the activity (5 in the code)
    MaxCommands,        \* bound: transitions of the experiment
    MaxFaults           \* bound: faults

ASSUME DispatchAssumption ==
    /\ {Models, MaxCommands, MaxFaults} \subseteq Nat
    /\ {ClaimLimit, ActivityAttempts} \subseteq Nat \ {0}

VARIABLES
    experiment, \* status of the experiment
    outbox,     \* OutboxRow of each command, in the order of creation
    call,       \* the delivery attempts of each dispatcher's current run_once
    wf,         \* the experiment's workflow
    activity,   \* executions of apply_experiment_command, late ones included
    branches,   \* branches seeded for each model
    tasks,      \* tasks seeded for each model
    faults      \* faults so far

dispatchVars == <<experiment, outbox, call, wf, activity, branches, tasks, faults>>

Command == 1 .. MaxCommands
Model == 1 .. Models
Nobody == "nobody"

Status == {"created", "queued", "paused", "cancelled"}
RowState == {"absent", "pending", "dispatching", "delivered", "blocked"}
\* waits: lease_until is in the future.
Row == [kind : Status, state : RowState, owner : Dispatcher \cup {Nobody},
        attempts : Nat, waits : BOOLEAN]

\* Where one delivery attempt stands: the next call to Temporal, or its outcome.
Outcome == {"ok", "transient", "permanent"}
At == {"none", "start", "describe", "signal"} \cup Outcome
Call == [at : At, attempt : Nat]

Workflow == [status : {"none", "running", "cancelled", "failed"},
             commands : Seq(Command), received : SUBSET Command,
             applying : Command \cup {0}, try : Nat]
Execution == [command : Command, try : Nat, pos : 0 .. 2 * Models]

DispatchTypeOK ==
    /\ experiment \in Status
    /\ outbox \in [Command -> Row]
    /\ call \in [Dispatcher -> [Command -> Call]]
    /\ wf \in Workflow
    /\ activity \subseteq Execution
    /\ branches \in [Model -> Nat] /\ tasks \in [Model -> Nat]
    /\ faults \in 0 .. MaxFaults

NoCall == [at |-> "none", attempt |-> 0]

DispatchInit ==
    /\ experiment = "created"
    /\ outbox = [c \in Command |-> [kind |-> "created", state |-> "absent",
                                    owner |-> Nobody, attempts |-> 0, waits |-> FALSE]]
    /\ call = [d \in Dispatcher |-> [c \in Command |-> NoCall]]
    /\ wf = [status |-> "none", commands |-> <<>>, received |-> {}, applying |-> 0, try |-> 0]
    /\ activity = {}
    /\ branches = [m \in Model |-> 0] /\ tasks = [m \in Model |-> 0]
    /\ faults = 0

Fault == faults < MaxFaults /\ faults' = faults + 1
Healthy == faults' = faults
-----------------------------------------------------------------------------
(* HarnessService.transition_experiment of an approved target. *)

Changes ==
    [start  |-> [from |-> {"created"}, to |-> "queued"],
     pause  |-> [from |-> {"queued"}, to |-> "paused"],
     resume |-> [from |-> {"paused"}, to |-> "queued"],
     cancel |-> [from |-> {"created", "queued", "paused"}, to |-> "cancelled"]]

ChangeExperiment(a, c) ==
    /\ experiment \in Changes[a].from
    /\ outbox[c].state = "absent"
    /\ \A b \in Command : outbox[b].state = "absent" => c =< b
    /\ experiment' = Changes[a].to
    /\ outbox' = [outbox EXCEPT ![c].kind = experiment', ![c].state = "pending"]
    /\ UNCHANGED <<call, wf, activity, branches, tasks, faults>>
-----------------------------------------------------------------------------
(* OutboxDispatcher. *)

Claimable(c) == outbox[c].state \in {"pending", "dispatching"} /\ ~outbox[c].waits

Busy(d) == \E c \in Command : call[d][c].at # "none"

\* claim, by a dispatcher whose previous run_once has ended.
Claim(d) ==
    LET Ready == {c \in Command : Claimable(c)} IN
    /\ ~Busy(d)
    /\ \E S \in SUBSET Ready :
        /\ S # {}
        /\ \/ Cardinality(S) = ClaimLimit
           \/ Cardinality(S) < ClaimLimit /\ S = Ready
        /\ outbox' = [c \in Command |->
                        IF c \in S
                        THEN [outbox[c] EXCEPT !.state = "dispatching", !.owner = d,
                                               !.attempts = @ + 1, !.waits = TRUE]
                        ELSE outbox[c]]
        /\ call' = [call EXCEPT ![d] = [c \in Command |->
                        IF c \in S
                        THEN [at |-> "start", attempt |-> outbox[c].attempts + 1]
                        ELSE NoCall]]
    /\ UNCHANGED <<experiment, wf, activity, branches, tasks, faults>>

\* The 60 s lease outlasts the 45 s delivery timeout, so it lapses under a
\* dispatcher only when that dispatcher stalls.
LeaseLapses(c) ==
    /\ outbox[c].state = "dispatching" /\ outbox[c].waits
    /\ IF \E d \in Dispatcher : call[d][c].at # "none" /\ call[d][c].attempt = outbox[c].attempts
       THEN Fault ELSE Healthy
    /\ outbox' = [outbox EXCEPT ![c].waits = FALSE]
    /\ UNCHANGED <<experiment, call, wf, activity, branches, tasks>>

BackoffEnds(c) ==
    /\ outbox[c].state = "pending" /\ outbox[c].waits
    /\ outbox' = [outbox EXCEPT ![c].waits = FALSE]
    /\ UNCHANGED <<experiment, call, wf, activity, branches, tasks, faults>>

OwnsAttempt(d, c) ==
    /\ outbox[c].state = "dispatching"
    /\ outbox[c].owner = d
    /\ outbox[c].attempts = call[d][c].attempt

AfterAnswer == [ok |-> "delivered", transient |-> "pending", permanent |-> "blocked"]

\* The second half of _deliver_one: compare-and-set on the claimed attempt.
AcknowledgeCommand(d, c) ==
    LET answer == call[d][c].at IN
    /\ answer \in Outcome
    /\ IF OwnsAttempt(d, c)
       THEN outbox' = [outbox EXCEPT ![c].state = AfterAnswer[answer],
                                     ![c].waits = (answer # "ok")]
       ELSE UNCHANGED outbox
    /\ call' = [call EXCEPT ![d][c] = NoCall]
    /\ UNCHANGED <<experiment, wf, activity, branches, tasks, faults>>

\* The process dies; its successor has a new owner name, which the model does
\* not give it.
Crash(d) ==
    /\ Busy(d)
    /\ Fault
    /\ call' = [call EXCEPT ![d] = [c \in Command |-> NoCall]]
    /\ UNCHANGED <<experiment, outbox, wf, activity, branches, tasks>>
-----------------------------------------------------------------------------
(* TemporalDelivery.__call__ for an experiment command. *)

Go(d, c, at) == call' = [call EXCEPT ![d][c].at = at]

\* A call took effect; its answer arrives or is lost.
Answered(d, c) ==
    \/ Go(d, c, "ok") /\ Healthy
    \/ Go(d, c, "transient") /\ Fault

\* start_workflow, refused when the identity exists (REJECT_DUPLICATE).
StartWorkflow(d, c) ==
    /\ call[d][c].at = "start"
    /\ \/ /\ wf.status = "none"
          /\ wf' = [wf EXCEPT !.status = "running", !.commands = <<c>>, !.received = {c}]
          /\ Answered(d, c)
       \/ /\ wf.status # "none"
          /\ Go(d, c, "describe")
          /\ UNCHANGED <<wf, faults>>
    /\ UNCHANGED <<experiment, outbox, activity, branches, tasks>>

UseExisting(s) == IF s = "failed" THEN "permanent" ELSE "ok"         \* mutant
ClosedIsDelivered(s) == IF s = "running" THEN "signal" ELSE "ok"     \* mutant
\* What delivery does with an existing workflow: a cancelled one needs no more
\* commands, and a failed one is an error that retrying cannot cure.
OnExisting(s) ==
    IF s = "running" THEN "signal" ELSE IF s = "cancelled" THEN "ok" ELSE "permanent"

Describe(d, c) ==
    /\ call[d][c].at = "describe"
    /\ Go(d, c, OnExisting(wf.status))
    /\ UNCHANGED <<experiment, outbox, wf, activity, branches, tasks, faults>>

\* The workflow may have closed since it was described.
Signal(d, c) ==
    /\ call[d][c].at = "signal"
    /\ \/ /\ wf.status = "running"
          /\ wf' = [wf EXCEPT !.commands = Append(@, c), !.received = @ \cup {c}]
          /\ Answered(d, c)
       \/ /\ wf.status # "running"
          /\ Go(d, c, "transient")
          /\ UNCHANGED <<wf, faults>>
    /\ UNCHANGED <<experiment, outbox, activity, branches, tasks>>

\* An RPC fails, or the 45 s timeout ends the attempt, before any effect.
DeliveryFails(d, c) ==
    /\ call[d][c].at \in {"start", "describe", "signal"}
    /\ Fault
    /\ Go(d, c, "transient")
    /\ UNCHANGED <<experiment, outbox, wf, activity, branches, tasks>>
-----------------------------------------------------------------------------
(* ExperimentWorkflow.run and the activity apply_experiment_command. *)

Executes(c, n) == [command |-> c, try |-> n, pos |-> 0]

TakeCommand ==
    /\ wf.status = "running"
    /\ wf.applying = 0
    /\ wf.commands # <<>>
    /\ wf' = [wf EXCEPT !.commands = Tail(@), !.applying = Head(wf.commands), !.try = 1]
    /\ activity' = activity \cup {Executes(Head(wf.commands), 1)}
    /\ UNCHANGED <<experiment, outbox, call, branches, tasks, faults>>

\* A result or an error counts for the workflow's current attempt only.
Current(e) == wf.status = "running" /\ wf.applying = e.command /\ wf.try = e.try

Returned(e) ==
    /\ activity' = activity \ {e}
    /\ IF Current(e)
       THEN wf' = IF outbox[e.command].kind = "cancelled"
                  THEN [wf EXCEPT !.status = "cancelled"]
                  ELSE [wf EXCEPT !.applying = 0]
       ELSE UNCHANGED wf

NextTry(c) ==
    IF wf.try < ActivityAttempts THEN [wf EXCEPT !.try = @ + 1]
    ELSE [wf EXCEPT !.status = "failed"]
NewExecution(c) ==
    IF wf.try < ActivityAttempts THEN {Executes(c, wf.try + 1)} ELSE {}

Raised(e) ==
    IF Current(e)
    THEN /\ wf' = NextTry(e.command)
         /\ activity' = (activity \ {e}) \cup NewExecution(e.command)
    ELSE activity' = activity \ {e} /\ UNCHANGED wf

\* The activity reads the experiment once; only a queued command of an
\* experiment that is active now seeds anything.
ReadExperiment(e) ==
    /\ e \in activity /\ e.pos = 0
    /\ IF outbox[e.command].kind = "queued" /\ experiment = "queued" /\ Models > 0
       THEN activity' = (activity \ {e}) \cup {[e EXCEPT !.pos = 1]} /\ UNCHANGED wf
       ELSE Returned(e)
    /\ UNCHANGED <<experiment, outbox, call, branches, tasks, faults>>

\* Steps 1, 3, .. create the branch of a model, 2, 4, .. its task.
ModelAt(pos) == (pos + 1) \div 2

ProceedActivity(e) ==
    IF e.pos = 2 * Models THEN Returned(e)
    ELSE activity' = (activity \ {e}) \cup {[e EXCEPT !.pos = @ + 1]} /\ UNCHANGED wf

\* A command key that was used before returns its recorded result.
KeyUsed(made) == made > 0

\* create_branch does not ask for an active experiment.
SeedBranch(e) ==
    LET m == ModelAt(e.pos) IN
    /\ e \in activity /\ e.pos % 2 = 1
    /\ branches' = IF KeyUsed(branches[m]) THEN branches ELSE [branches EXCEPT ![m] = @ + 1]
    /\ ProceedActivity(e)
    /\ UNCHANGED <<experiment, outbox, call, tasks, faults>>

SeedTask(e) ==
    LET m == ModelAt(e.pos) IN
    /\ e \in activity /\ e.pos > 0 /\ e.pos % 2 = 0
    /\ \/ KeyUsed(tasks[m]) /\ ProceedActivity(e) /\ UNCHANGED tasks
       \/ ~KeyUsed(tasks[m]) /\ experiment = "queued" /\ ProceedActivity(e) /\ tasks' = [tasks EXCEPT ![m] = @ + 1]
       \/ ~KeyUsed(tasks[m]) /\ experiment # "queued" /\ Raised(e) /\ UNCHANGED tasks
    /\ UNCHANGED <<experiment, outbox, call, branches, faults>>

\* start_to_close_timeout, or a lost worker: the workflow gives up on the
\* attempt, whose thread may still be running.
ActivityTimesOut(e) ==
    /\ e \in activity /\ Current(e)
    /\ Fault
    /\ wf' = NextTry(e.command)
    /\ activity' = activity \cup NewExecution(e.command)
    /\ UNCHANGED <<experiment, outbox, call, branches, tasks>>

ActivityStep(e) == ReadExperiment(e) \/ SeedBranch(e) \/ SeedTask(e)
-----------------------------------------------------------------------------
DeliverCommand(d, c) ==
    StartWorkflow(d, c) \/ Describe(d, c) \/ Signal(d, c) \/ AcknowledgeCommand(d, c)

DispatchNext ==
    \/ \E a \in DOMAIN Changes, c \in Command : ChangeExperiment(a, c)
    \/ \E d \in Dispatcher : Claim(d) \/ Crash(d)
    \/ \E d \in Dispatcher, c \in Command : DeliverCommand(d, c) \/ DeliveryFails(d, c)
    \/ \E c \in Command : LeaseLapses(c) \/ BackoffEnds(c)
    \/ TakeCommand
    \/ \E e \in activity : ActivityStep(e) \/ ActivityTimesOut(e)

\* The worker polls the outbox forever, time passes, Temporal runs workflows
\* and their current activity attempt.  Nothing obliges anyone to transition
\* the experiment, a fault to happen or an abandoned attempt to go on.
DispatchFairness ==
    /\ \A d \in Dispatcher : WF_dispatchVars(Claim(d))
    /\ \A d \in Dispatcher, c \in Command : WF_dispatchVars(DeliverCommand(d, c))
    /\ \A c \in Command : WF_dispatchVars(LeaseLapses(c) /\ Healthy) /\ WF_dispatchVars(BackoffEnds(c))
    /\ WF_dispatchVars(TakeCommand)
    /\ WF_dispatchVars(\E e \in activity : Current(e) /\ ActivityStep(e))

DispatchSpec == DispatchInit /\ [][DispatchNext]_dispatchVars
FairDispatchSpec == DispatchSpec /\ DispatchFairness
-----------------------------------------------------------------------------
(* Properties. *)

\* A delivered command reached the workflow, unless the workflow had ended by
\* a cancellation: an acknowledgement never covers for a delivery that another
\* attempt lost.
DeliveredTookEffect ==
    \A c \in Command : outbox[c].state = "delivered" =>
        c \in wf.received \/ wf.status = "cancelled"

\* Each model is seeded at most once, however often commands are delivered and
\* activities retried or overlapped, and no task without its branch.
SeededOnce ==
    \A m \in Model : branches[m] =< 1 /\ tasks[m] =< branches[m]

\* A delivered or blocked command stays so: a late answer of an earlier attempt
\* never reopens or overwrites it.
KeepsDelivered ==
    \A c \in Command : outbox[c].state \in {"delivered", "blocked"} =>
        outbox'[c].state = outbox[c].state
DeliveryFinal == [][KeepsDelivered]_dispatchVars

\* No command stays undelivered, whatever dispatcher dies: it is delivered or
\* blocked in the end.
CommandsSettle ==
    \A c \in Command :
        []<>(outbox[c].state \in {"absent", "delivered", "blocked"})

\* An experiment that stays active gets all its approaches seeded, in whatever
\* order its start, pause and resume commands arrive, unless its workflow failed.
AllSeeded == \A m \in Model : tasks[m] > 0
ActiveGetsSeeded == <>[](experiment = "queued") => []<>(AllSeeded \/ wf.status = "failed")

\* A cancellation ends the experiment's workflow.
CancelEndsWorkflow ==
    []<>(experiment = "cancelled" => wf.status \in {"cancelled", "failed"})

\* The workflow follows the experiment: commands settle, what stays active is
\* seeded, and what is cancelled ends.
WorkflowFollows == CommandsSettle /\ ActiveGetsSeeded /\ CancelEndsWorkflow

\* The outbox is sound: what it calls delivered took effect, and no approach is
\* seeded twice by redelivered commands and retried activities.
DispatchSound == DispatchTypeOK /\ DeliveredTookEffect /\ SeededOnce
=============================================================================
