----------------------------- MODULE TaskLeases -----------------------------
(***************************************************************************)
(* Tasks of one experiment, their execution leases and the executor        *)
(* processes that work under them: CollaborationMixin.create_task,         *)
(* acquire_task, renew_task, finish_task and the recovery commands of      *)
(* ContinuationMixin, as seen from the task and lease rows.                *)
(*                                                                         *)
(* Every command is one serialised database transaction                    *)
(* (Database.transaction: BEGIN IMMEDIATE, or row locks), so every command *)
(* is one action.  An executor's own code runs between its commands: what  *)
(* it read earlier (work) may be stale when it issues the next one.        *)
(*                                                                         *)
(* A lease keeps the time left until expires_at, clipped at 0; Tick takes  *)
(* one unit from every lease.  Sessions, VMs and the ledger, which further *)
(* restrict the recovery commands, are left open here.                     *)
(***************************************************************************)
EXTENDS Naturals, FiniteSets

CONSTANTS
    Task,           \* identifiers of the tasks that may be created
    Proc,           \* executor processes
    Holder,         \* lease holder names
    HolderOf,       \* the name each process presents; two may share one
    None,           \* no task, no holder
    LeaseTTL,       \* ttl_seconds of acquire_task and renew_task
    TotalCap,       \* max_total_tasks of the workforce policy
    PendingCap,     \* max_pending_tasks of the workforce policy
    RecoveryLimit,  \* terminal recoveries per task (3 in the code)
    Overlap,        \* may two processes execute one task at the same time
    MaxFence,       \* bound: leases granted per task
    MaxAmendments   \* bound: objective amendments per task

ASSUME NoneAssumption == None \notin Task /\ None \notin Holder
ASSUME HolderAssumption == HolderOf \in [Proc -> Holder]
ASSUME LimitAssumption ==
    /\ LeaseTTL \in Nat \ {0}
    /\ {TotalCap, PendingCap, RecoveryLimit, MaxFence, MaxAmendments} \subseteq Nat
    /\ Overlap \in BOOLEAN

VARIABLES
    exp,        \* status of the experiment
    task,       \* task records
    lease,      \* LeaseRow of each task; fence 0 when there is no row
    work        \* what each executor process knows

vars == <<exp, task, lease, work>>

ExpStatus == {"created", "queued", "running", "paused", "blocked", "cancelled"}
Terminal == {"completed", "failed", "blocked"}
TaskStatus == {"absent", "queued", "running"} \cup Terminal

TaskRecord == [status : TaskStatus, objective : Nat, deps : SUBSET Task,
               parent : Task \cup {None}, lineage : SUBSET Task, recoveries : Nat]
LeaseRow == [holder : Holder \cup {None}, fence : Nat, left : 0..LeaseTTL]

\* A process is idle, has read the task it will execute (begun), or was granted
\* a lease (leased) and has read the objective it prompts with (working).
\* seen: the fence of the running task it read; fence: its own granted fence.
Phase == {"idle", "begun", "leased", "working"}
WorkRecord == [phase : Phase, task : Task \cup {None}, seen : Nat,
               fence : Nat, objective : Nat]
Idle == [phase |-> "idle", task |-> None, seen |-> 0, fence |-> 0, objective |-> 0]

TypeOK ==
    /\ exp \in ExpStatus
    /\ task \in [Task -> TaskRecord]
    /\ lease \in [Task -> LeaseRow]
    /\ work \in [Proc -> WorkRecord]

NoTask == [status |-> "absent", objective |-> 0, deps |-> {}, parent |-> None,
           lineage |-> {}, recoveries |-> 0]

Init ==
    /\ exp = "created"
    /\ task = [t \in Task |-> NoTask]
    /\ lease = [t \in Task |-> [holder |-> None, fence |-> 0, left |-> 0]]
    /\ work = [p \in Proc |-> Idle]

-----------------------------------------------------------------------------
(* State functions the commands share. *)

\* HarnessService._active.  An experiment past its deadline or awaiting budget
\* reconciliation refuses the same commands as a paused one, which may also be
\* resumed: its behaviours are among those of the paused experiment.
Active == exp \in {"queued", "running"}

Live(t) == lease[t].left > 0

\* _fenced: holder, fence and expiry of the current lease row.
Fenced(p, t) ==
    /\ lease[t].holder = HolderOf[p]
    /\ lease[t].fence = work[p].fence
    /\ Live(t)

Holds(p, t) == work[p].phase \in {"leased", "working"} /\ work[p].task = t

Created == {t \in Task : task[t].status # "absent"}
Pending == {t \in Task : task[t].status \in {"queued", "running"}}
Settled(t) == task[t].status \in Terminal
Joined(t) == {c \in Task : task[c].parent = t}

SetStatus(t, s) == task' = [task EXCEPT ![t].status = s]

Release(t) == lease' = [lease EXCEPT ![t].left = 0]
Forget(p) == work' = [work EXCEPT ![p] = Idle]
-----------------------------------------------------------------------------
(* The experiment. *)

Transitions ==
    [start  |-> [from |-> {"created"}, to |-> "queued"],
     pause  |-> [from |-> {"queued", "running"}, to |-> "paused"],
     resume |-> [from |-> {"paused", "blocked"}, to |-> "queued"],
     cancel |-> [from |-> ExpStatus \ {"cancelled"}, to |-> "cancelled"]]

\* A start or resume also needs the approved target (see Acceptance).
TransitionExperiment(a) ==
    /\ exp \in Transitions[a].from
    /\ exp' = Transitions[a].to
    /\ UNCHANGED <<task, lease, work>>
-----------------------------------------------------------------------------
(* Creation and amendment of tasks. *)

\* Tasks that wait, through joins, for a child of t: t and its own joiners.
JoinLineage(t) == IF t = None THEN {} ELSE {t} \cup task[t].lineage

\* _admit_research_tasks, for one more task.
WithinCaps ==
    /\ Cardinality(Created) + 1 =< TotalCap
    /\ Cardinality(Pending) + 1 =< PendingCap

\* create_task with dependencies D; parent is the task of the bound worker
\* for joined work, None for an operator's or a detached task.
AddTask(t, D, parent) ==
    /\ task[t].status = "absent"
    /\ Active
    /\ WithinCaps
    /\ D \cap JoinLineage(parent) = {}
    /\ D \subseteq Created
    /\ task' = [task EXCEPT ![t] = [status |-> "queued", objective |-> 1, deps |-> D,
                                    parent |-> parent, lineage |-> JoinLineage(parent),
                                    recoveries |-> 0]]
    /\ UNCHANGED <<exp, lease, work>>

OperatorCreates(t, D) == AddTask(t, D, None)

\* A model tool runs under worker_effects: its command needs the live fence.
WorkerCreates(p, t, D, detached) ==
    /\ work[p].phase = "working"
    /\ Fenced(p, work[p].task)
    /\ AddTask(t, D, IF detached THEN None ELSE work[p].task)

NeverLeased(t) == lease[t].fence = 0

AmendObjective(t) ==
    /\ Active
    /\ task[t].status = "queued"
    /\ NeverLeased(t)
    /\ task[t].objective =< MaxAmendments
    /\ task' = [task EXCEPT ![t].objective = @ + 1]
    /\ UNCHANGED <<exp, lease, work>>
-----------------------------------------------------------------------------
(* Executor processes. *)

\* ResearchTaskExecutor.execute reads the task before anything else and
\* returns when it is terminal.
BeginExecution(p, t) ==
    /\ work[p] = Idle
    /\ task[t].status \in {"queued", "running"}
    /\ Overlap \/ \A q \in Proc : work[q].task # t
    /\ work' = [work EXCEPT ![p] =
                  [Idle EXCEPT !.phase = "begun", !.task = t,
                               !.seen = IF task[t].status = "running"
                                        THEN lease[t].fence ELSE 0]]
    /\ UNCHANGED <<exp, task, lease>>

\* restore_unstarted_continuation, and issue_continuation with
\* recover_expired: the source's expired lease still names the holder and
\* fence that were read; the task's status is not read again.  Both need a
\* handed-off source with no later session, which no completed task has.
RecoverExpired(p) ==
    LET t == work[p].task IN
    /\ work[p].phase = "begun"
    /\ work[p].seen > 0
    /\ Active
    /\ lease[t].fence = work[p].seen
    /\ ~Live(t)
    /\ task[t].status # "completed"
    /\ SetStatus(t, "queued")
    /\ Release(t)
    /\ work' = [work EXCEPT ![p].seen = 0]
    /\ UNCHANGED exp

NotCompleted(t) == task[t].status \notin {"absent", "completed"}     \* mutant
Runnable(t) == task[t].status \in {"queued", "running"}

DependenciesDone(t) == \A d \in task[t].deps : task[d].status = "completed"

FenceKept(t) == IF NeverLeased(t) THEN 1 ELSE lease[t].fence        \* mutant
NextFence(t) == lease[t].fence + 1

AcquireTask(p) ==
    LET t == work[p].task
        f == NextFence(t) IN
    /\ work[p].phase = "begun"
    /\ Active
    /\ Runnable(t)
    /\ DependenciesDone(t)
    /\ ~Live(t)
    /\ f =< MaxFence
    /\ lease' = [lease EXCEPT ![t] = [holder |-> HolderOf[p], fence |-> f,
                                      left |-> LeaseTTL]]
    /\ SetStatus(t, "running")
    /\ work' = [work EXCEPT ![p].phase = "leased", ![p].seen = 0, ![p].fence = f]
    /\ UNCHANGED exp

\* The prompt is built from the task as read after the lease was granted.
ReadObjective(p) ==
    /\ work[p].phase = "leased"
    /\ work' = [work EXCEPT ![p].phase = "working",
                            ![p].objective = task[work[p].task].objective]
    /\ UNCHANGED <<exp, task, lease>>

\* renew_task reads neither the task's status nor its holder field.
RenewTask(p, t) ==
    /\ Holds(p, t)
    /\ Active
    /\ Fenced(p, t)
    /\ lease' = [lease EXCEPT ![t].left = LeaseTTL]
    /\ UNCHANGED <<exp, task, work>>

NoChildRuns(t) == \A c \in Joined(t) : task[c].status # "running"   \* mutant
JoinsSettled(t) == \A c \in Joined(t) : Settled(c)

FinishTask(p, t, s) ==
    /\ Holds(p, t)
    /\ Active
    /\ Fenced(p, t)
    /\ s = "completed" => JoinsSettled(t)
    /\ SetStatus(t, s)
    /\ Release(t)
    /\ Forget(p)
    /\ UNCHANGED exp

\* issue_continuation under the source's own live lease.
IssueContinuation(p, t) ==
    /\ Holds(p, t)
    /\ Active
    /\ Fenced(p, t)
    /\ SetStatus(t, "queued")
    /\ Release(t)
    /\ Forget(p)
    /\ UNCHANGED exp

\* The experiment need not be active here.
RequeueSettledTerminal(p, t) ==
    /\ Holds(p, t)
    /\ Fenced(p, t)
    /\ task[t].recoveries < RecoveryLimit
    /\ task' = [task EXCEPT ![t].status = "queued", ![t].recoveries = @ + 1]
    /\ Release(t)
    /\ Forget(p)
    /\ UNCHANGED exp

\* The process dies, is cancelled, or gives up after a refused command.
Abandon(p) ==
    /\ work[p] # Idle
    /\ Forget(p)
    /\ UNCHANGED <<exp, task, lease>>
-----------------------------------------------------------------------------
(* Controller commands that end a task no worker holds. *)

\* retire_queued_after_verified, at any time once a receipt is accepted.
RetireQueued(t) ==
    /\ task[t].status = "queued"
    /\ ~Live(t)
    /\ SetStatus(t, "blocked")
    /\ UNCHANGED <<exp, lease, work>>

\* run_research_task: execute raised an error that waiting cannot cure.
DispatchBlocked(p) ==
    LET t == work[p].task IN
    /\ work[p].phase = "begun"
    /\ task[t].status = "queued"
    /\ SetStatus(t, "blocked")
    /\ Forget(p)
    /\ UNCHANGED <<exp, lease>>

\* retire_failed_local_workspace, whose procedure first stops the attempt.
OperatorRetires(t) ==
    /\ exp \in {"paused", "cancelled"}
    /\ task[t].status \in {"blocked", "failed", "running"}
    /\ lease[t].fence > 0
    /\ ~Live(t)
    /\ Overlap \/ \A q \in Proc : work[q].task # t
    /\ SetStatus(t, "failed")
    /\ UNCHANGED <<exp, lease, work>>

LeftAfter(n) == IF n > 0 THEN n - 1 ELSE 0

Tick ==
    /\ \E t \in Task : Live(t)
    /\ lease' = [t \in Task |-> [lease[t] EXCEPT !.left = LeftAfter(@)]]
    /\ UNCHANGED <<exp, task, work>>
-----------------------------------------------------------------------------
TaskStep(t) ==
    \/ \E D \in SUBSET Task : OperatorCreates(t, D)
    \/ \E p \in Proc, D \in SUBSET Task, b \in BOOLEAN : WorkerCreates(p, t, D, b)
    \/ AmendObjective(t)
    \/ RetireQueued(t)
    \/ OperatorRetires(t)

ProcStep(p, t) ==
    \/ BeginExecution(p, t)
    \/ RenewTask(p, t)
    \/ \E s \in Terminal : FinishTask(p, t, s)
    \/ IssueContinuation(p, t)
    \/ RequeueSettledTerminal(p, t)

ProcLocal(p) ==
    \/ RecoverExpired(p)
    \/ AcquireTask(p)
    \/ ReadObjective(p)
    \/ DispatchBlocked(p)
    \/ Abandon(p)

Next ==
    \/ \E a \in DOMAIN Transitions : TransitionExperiment(a)
    \/ \E t \in Task : TaskStep(t)
    \/ \E p \in Proc, t \in Task : ProcStep(p, t)
    \/ \E p \in Proc : ProcLocal(p)
    \/ Tick

Spec == Init /\ [][Next]_vars
-----------------------------------------------------------------------------
(* Properties. *)

\* Two executions of a task never both pass _fenced, even when they present
\* the same holder name: the fence alone separates a worker that lost its
\* lease from its successor.
MutualExclusion ==
    \A t \in Task : \A p, q \in Proc :
        /\ Holds(p, t) /\ Fenced(p, t)
        /\ Holds(q, t) /\ Fenced(q, t)
        => p = q

\* A live lease always belongs to a running task.  renew_task does not read the
\* status and the dispatcher blocks a queued task without reading the lease:
\* both rely on every command that leaves "running" having ended the lease.
LiveLeaseMeansRunning ==
    \A t \in Task : Live(t) => task[t].status = "running"

\* Every executor works on the objective the task has now: amendments are
\* refused once any lease was granted, and prompts are built after the grant.
ObjectiveFrozen ==
    \A p \in Proc :
        work[p].phase = "working" => work[p].objective = task[work[p].task].objective

\* A task that runs, or ran to its end under a lease, has all its dependencies
\* completed (acquire_task checks them once, before the grant).
DependenciesFirst ==
    \A t \in Task : lease[t].fence > 0 =>
        \A d \in task[t].deps : task[d].status = "completed"

\* A completed task has no joined child still open: finish_task refuses
\* "completed" while one is pending, no child joins it afterwards, and no
\* settled child is opened again.
JoinedWorkSettled ==
    \A t \in Task : task[t].status = "completed" => \A c \in Joined(t) : Settled(c)

\* The pending-task cap of the workforce policy bounds the open tasks in every
\* state, though it is checked only when a task is created.
PendingWithinCap == Cardinality(Pending) =< PendingCap

\* What t cannot get past without u: a dependency before its first lease, a
\* joined child before its completion.
WaitsFor ==
    {e \in Task \X Task :
        /\ task[e[1]].status \in {"queued", "running"}
        /\ \/ e[2] \in task[e[1]].deps /\ task[e[2]].status # "completed"
           \/ e[2] \in Joined(e[1]) /\ ~Settled(e[2])}

\* No joined task waits, through dependencies and joins, for an ancestor that
\* waits for it (create_task: "Joined work cannot depend on an ancestor that
\* waits for it").
NoJoinDeadlock ==
    LET Closed(S) == \A e \in WaitsFor : e[1] \in S => e[2] \in S
    IN  \A t \in Task :
            \E S \in SUBSET (Task \ {t}) :
                Closed(S) /\ \A e \in WaitsFor : e[1] = t => e[2] \in S

\* Each task implements fenced ownership: its leases are successive epochs, a
\* new one only after the last lapsed, and none once the task has ended.
Owned == INSTANCE FencedOwnership WITH
            Item <- Task,
            epoch <- [t \in Task |-> lease[t].fence],
            live <- [t \in Task |-> Live(t)],
            closed <- [t \in Task |-> Settled(t)]

ImplementsFencedOwnership == Owned!Spec

\* Leases are sound: the rows are well formed, one executor passes the fence of a
\* task, a live lease belongs to a running task, and its objective is frozen.
LeasesSound == TypeOK /\ MutualExclusion /\ LiveLeaseMeansRunning /\ ObjectiveFrozen

\* Dependencies and joins are sound: a task starts after what it depends on and
\* completes after what it joined, and the open tasks stay within the policy's cap.
JoinsSound == DependenciesFirst /\ JoinedWorkSettled /\ PendingWithinCap
=============================================================================
