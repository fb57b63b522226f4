----------------------------- MODULE Workspaces -----------------------------
(***************************************************************************)
(* The virtual machines of one task: its executions                        *)
(* (ResearchTaskExecutor.execute), each with a worker slot, the task's     *)
(* lease for a while, and one local VM behind a WorkspaceBroker.           *)
(*                                                                         *)
(* The broker writes an operation record, calls the provider outside any   *)
(* transaction, and records the outcome in a second transaction, if it     *)
(* still has the authority: the lease may have expired, the experiment may *)
(* have been paused, the call may have been cancelled or the process may   *)
(* have died in between.  vm is the truth, ws what the database says.      *)
(*                                                                         *)
(* The reservations are those of Ledger, moved only by its actions.        *)
(***************************************************************************)
EXTENDS Integers, FiniteSets

CONSTANTS
    Execution,      \* executions of the task, each with its own holder and fence
    Command,        \* operation identifiers of an execution's commands
    None,           \* no execution, no operation
    MaxConcurrency  \* max_concurrency of the experiment

ASSUME WorkspacesAssumption ==
    /\ None \notin Execution \cup Command \cup {"provision", "final", "destroy"}
    /\ Command \cap {"provision", "final", "destroy"} = {}
    /\ MaxConcurrency \in Nat

VARIABLES
    open, overrun, budget, res, again,  \* the ledger
    lease,      \* holder of the task's LeaseRow, and whether it is live
    bound,      \* the execution whose slot is the task's worker_slot_id
    phase,      \* where each execution stands
    ws,         \* workspace records
    op,         \* workspace_operation records: their status
    call,       \* the operation an execution is awaiting
    vm,         \* the VM itself
    dirty,      \* history: the VM has files that no archive has
    dispatched  \* history: how often the provider was called for an operation

ledger == <<open, overrun, budget, res, again>>
workspaceVars ==
    <<open, overrun, budget, res, again, lease, bound, phase, ws, op, call, vm, dirty, dispatched>>

Slot(x) == <<"slot", x>>
VM(x) == <<"vm", x>>

L == INSTANCE Ledger WITH Res <- {"slot", "vm"} \X Execution,
                          Limit <- [u \in {"cost", "tokens"} |-> 0],
                          Limited <- {"cost"}, Charge <- {0}

Operation == {"provision", "final", "destroy"} \cup Command
Workspace == [status : {"absent", "provisioning", "ready", "reconciliation_required",
                        "destroyed"},
              active : Operation \cup {None}, confirmed : BOOLEAN]
\* "retained" is reconciliation_required with the code of a lost authority.
OperationStatus == {"absent", "pending", "completed", "rejected", "failed",
                    "reconciliation_required", "retained"}
Phase == {"new", "reserved", "leased", "working", "closing", "ending",
          "clear", "unresolved", "over", "dead"}

WorkspacesTypeOK ==
    /\ L!LedgerTypeOK
    /\ lease \in [holder : Execution \cup {None}, live : BOOLEAN]
    /\ bound \in Execution \cup {None}
    /\ phase \in [Execution -> Phase]
    /\ ws \in [Execution -> Workspace]
    /\ op \in [Execution -> [Operation -> OperationStatus]]
    /\ call \in [Execution -> Operation \cup {None}]
    /\ vm \in [Execution -> {"none", "creating", "up", "gone"}]
    /\ dirty \in [Execution -> BOOLEAN]
    /\ dispatched \in [Execution -> [Operation -> Nat]]

WorkspacesInit ==
    /\ L!LedgerInit
    /\ lease = [holder |-> None, live |-> FALSE]
    /\ bound = None
    /\ phase = [x \in Execution |-> "new"]
    /\ ws = [x \in Execution |-> [status |-> "absent", active |-> None, confirmed |-> FALSE]]
    /\ op = [x \in Execution |-> [o \in Operation |-> "absent"]]
    /\ call = [x \in Execution |-> None]
    /\ vm = [x \in Execution |-> "none"]
    /\ dirty = [x \in Execution |-> FALSE]
    /\ dispatched = [x \in Execution |-> [o \in Operation |-> 0]]

broker == <<ws, op, call, vm, dirty, dispatched>>
-----------------------------------------------------------------------------
(* The executions. *)

Fenced(x) == lease.holder = x /\ lease.live

Enter(x, p) == phase' = [phase EXCEPT ![x] = p]

ReserveSlot(x) ==
    /\ phase[x] = "new"
    /\ L!Reserve(Slot(x), L!Zero, 1)
    /\ Enter(x, "reserved")
    /\ UNCHANGED <<lease, bound>> /\ UNCHANGED broker

Acquire(x) ==
    /\ phase[x] = "reserved"
    /\ L!Active /\ ~lease.live
    /\ lease' = [holder |-> x, live |-> TRUE]
    /\ Enter(x, "leased")
    /\ UNCHANGED <<bound, ledger>> /\ UNCHANGED broker

\* The lease is refused and the unused slot given back.
AcquireRefused(x) ==
    /\ phase[x] = "reserved"
    /\ ~L!Active \/ lease.live
    /\ L!Settle(Slot(x), L!Zero)
    /\ Enter(x, "over")
    /\ UNCHANGED <<lease, bound>> /\ UNCHANGED broker

BindSlot(x) ==
    /\ phase[x] = "leased"
    /\ Fenced(x)
    /\ bound' = x
    /\ Enter(x, "working")
    /\ UNCHANGED <<lease, ledger>> /\ UNCHANGED broker

EndsEarly(x) ==
    /\ phase[x] = "leased"
    /\ Enter(x, "ending")
    /\ UNCHANGED <<lease, bound, ledger>> /\ UNCHANGED broker

\* The work is over, or has failed; no call is awaited any more.  close looks
\* at a VM that provision returned.
BeginClose(x) ==
    /\ phase[x] = "working"
    /\ call[x] = None
    /\ Enter(x, IF op[x]["provision"] = "completed" /\ ws[x].status = "ready"
                THEN "closing" ELSE "ending")
    /\ UNCHANGED <<lease, bound, ledger>> /\ UNCHANGED broker

\* Nothing is left to do, or nothing can be done without an operator.
NothingToClose(x) == ws[x].status # "ready" \/ ws[x].active # None

\* close returns, or raises.
EndClose(x) ==
    /\ phase[x] = "closing"
    /\ call[x] = None
    /\ NothingToClose(x)
    /\ Enter(x, "ending")
    /\ UNCHANGED <<lease, bound, ledger>> /\ UNCHANGED broker

\* finish_task, issue_continuation or requeue_settled_terminal end the lease.
ReleaseLease(x) ==
    /\ phase[x] = "ending"
    /\ Fenced(x)
    /\ lease' = [lease EXCEPT !.live = FALSE]
    /\ UNCHANGED <<bound, phase, ledger>> /\ UNCHANGED broker

OnlyReady(x) == ws[x].status \in {"provisioning", "ready"}          \* mutant
Unresolved(x) == ws[x].status \notin {"absent", "destroyed"}

\* The last steps of execute: what is unresolved, then the slot.
ReadUnresolved(x) ==
    /\ phase[x] = "ending"
    /\ Enter(x, IF Unresolved(x) THEN "unresolved" ELSE "clear")
    /\ UNCHANGED <<lease, bound, ledger>> /\ UNCHANGED broker

SettleSlot(x) ==
    /\ phase[x] \in {"clear", "unresolved"}
    /\ IF ~L!Unsettled(Slot(x)) THEN UNCHANGED ledger
       ELSE IF phase[x] = "clear" THEN L!Settle(Slot(x), L!Zero)
       ELSE L!SettleUncertain(Slot(x))
    /\ Enter(x, "over")
    /\ UNCHANGED <<lease, bound>> /\ UNCHANGED broker

\* The process dies; its provider call, if any, is never answered.
Crash(x) ==
    /\ phase[x] \notin {"new", "over", "dead"}
    /\ Enter(x, "dead")
    /\ call' = [call EXCEPT ![x] = None]
    /\ UNCHANGED <<lease, bound, ws, op, vm, dirty, dispatched, ledger>>
-----------------------------------------------------------------------------
(* WorkspaceBroker: authority and records. *)

\* _guard with cleanup: the lease and the shared slot.
GuardCleanup(x) == Fenced(x) /\ bound = x /\ res[Slot(x)].state = "active"

\* _guard: an active experiment as well.
Guard(x) == L!Active /\ GuardCleanup(x)

Record(x, o, s) == op' = [op EXCEPT ![x][o] = s]
Show(x, s, a, c) == ws' = [ws EXCEPT ![x] = [status |-> s, active |-> a, confirmed |-> c]]
Return(x) == call' = [call EXCEPT ![x] = None]

\* _record_uncertainty: no authority is needed and none is used.
RecordUncertainty(x, o, c) ==
    /\ Show(x, "reconciliation_required", ws[x].active, c)
    /\ Record(x, o, "reconciliation_required")
    /\ IF L!Unsettled(VM(x)) THEN L!SettleUncertain(VM(x)) ELSE UNCHANGED ledger

\* _uncertain; the database may refuse, and then nothing is recorded.
Uncertain(x, o, c) == RecordUncertainty(x, o, c) \/ UNCHANGED <<ws, op, ledger>>
-----------------------------------------------------------------------------
(* provision. *)

Dispatch(x, o) ==
    /\ call' = [call EXCEPT ![x] = o]
    /\ dispatched' = [dispatched EXCEPT ![x][o] = @ + 1]

ProvisionStart(x) ==
    /\ phase[x] = "working" /\ call[x] = None
    /\ Guard(x)
    /\ op[x]["provision"] = "absent"
    /\ ~Unresolved(x)
    /\ L!Provision(VM(x), 0, 0)
    /\ Show(x, "provisioning", "provision", FALSE)
    /\ Record(x, "provision", "pending")
    /\ Dispatch(x, "provision")
    /\ vm' = [vm EXCEPT ![x] = "creating"]
    /\ UNCHANGED <<lease, bound, phase, dirty>>

\* The provider creates the VM, perhaps after the broker stopped waiting.
VMCreated(x) ==
    /\ vm[x] = "creating"
    /\ vm' = [vm EXCEPT ![x] = "up"]
    /\ UNCHANGED <<lease, bound, phase, ws, op, call, dirty, dispatched, ledger>>

ProvisionDone(x) ==
    /\ call[x] = "provision" /\ vm[x] = "up"
    /\ IF Guard(x)
       THEN /\ Show(x, "ready", None, FALSE)
            /\ Record(x, "provision", "completed")
            /\ L!ProvisionCommitted(VM(x))
       ELSE Uncertain(x, "provision", FALSE)
    /\ Return(x)
    /\ UNCHANGED <<lease, bound, phase, vm, dirty, dispatched>>

\* WORKSPACE_CAPACITY: no container was made.  Without the authority nothing
\* is recorded and the workspace stays provisioning.
ProvisionRejected(x) ==
    /\ call[x] = "provision" /\ vm[x] = "creating"
    /\ vm' = [vm EXCEPT ![x] = "none"]
    /\ IF Guard(x)
       THEN /\ Show(x, "destroyed", None, TRUE)
            /\ Record(x, "provision", "rejected")
            /\ L!ProvisionRejected(VM(x))
       ELSE UNCHANGED <<ws, op, ledger>>
    /\ Return(x)
    /\ UNCHANGED <<lease, bound, phase, dirty, dispatched>>

\* Any other failure, or a cancellation: the VM may be up, or may come up.
ProvisionFailed(x) ==
    /\ call[x] = "provision"
    /\ Uncertain(x, "provision", FALSE)
    /\ Return(x)
    /\ UNCHANGED <<lease, bound, phase, vm, dirty, dispatched>>
-----------------------------------------------------------------------------
(* _perform: commands, the final checkpoint and the destruction. *)

\* _prior: a known operation is answered from its record, or refused.
Fresh(x, o) == op[x][o] = "absent"

\* close: the archive is saved, or its refusal is.
FinalSettled(x) == op[x]["final"] \in {"completed", "rejected"}

Calls(x, o) ==
    CASE o \in Command   -> phase[x] = "working"
      [] o = "final"     -> phase[x] = "closing"
      [] o = "destroy"   -> phase[x] = "closing" /\ FinalSettled(x)
      [] o = "provision" -> FALSE

Authority(x, o) == IF o \in Command THEN Guard(x) ELSE GuardCleanup(x)

\* _start.  A command may change files; an archive has all that came before.
Start(x, o) ==
    /\ Calls(x, o) /\ call[x] = None
    /\ Authority(x, o)
    /\ Fresh(x, o)
    /\ ws[x].status = "ready" /\ ws[x].active = None
    /\ Record(x, o, "pending")
    /\ ws' = [ws EXCEPT ![x].active = o]
    /\ Dispatch(x, o)
    /\ dirty' = [dirty EXCEPT ![x] = CASE o \in Command -> TRUE
                                       [] o = "final" -> FALSE
                                       [] OTHER -> @]
    /\ UNCHANGED <<lease, bound, phase, vm, ledger>>

\* _retain_without_authority: cleanup is not dispatched, and says so.
Retain(x, o) ==
    /\ o \in {"final", "destroy"}
    /\ Calls(x, o) /\ call[x] = None
    /\ ~GuardCleanup(x)
    /\ ws[x].status = "ready" /\ ws[x].active = None
    /\ Fresh(x, o)
    /\ Record(x, o, "retained")
    /\ Show(x, "reconciliation_required", o, FALSE)
    /\ IF L!Unsettled(VM(x)) THEN L!SettleUncertain(VM(x)) ELSE UNCHANGED ledger
    /\ UNCHANGED <<lease, bound, phase, call, vm, dirty, dispatched>>

\* The call of a command or of the archive has an answer.
Answered(x, o) ==
    /\ call[x] = o /\ o \in Command \cup {"final"}
    /\ \E s \in {"completed", "rejected"} :
        IF Authority(x, o)
        THEN Record(x, o, s) /\ ws' = [ws EXCEPT ![x].active = None] /\ UNCHANGED ledger
        ELSE Uncertain(x, o, FALSE)
    /\ Return(x)
    /\ UNCHANGED <<lease, bound, phase, vm, dirty, dispatched>>

\* close of the provider returned: the VM is gone.
Destroyed(x) ==
    /\ call[x] = "destroy"
    /\ vm' = [vm EXCEPT ![x] = "gone"]
    /\ IF GuardCleanup(x)
       THEN /\ Show(x, "destroyed", None, TRUE)
            /\ IF L!Unsettled(VM(x))
               THEN L!DestroyLocal(VM(x)) /\ Record(x, "destroy", "completed")
               ELSE L!DestroySettled(VM(x)) /\ Record(x, "destroy", "failed")
       ELSE Uncertain(x, "destroy", TRUE)
    /\ Return(x)
    /\ UNCHANGED <<lease, bound, phase, dirty, dispatched>>

\* The command failed and the provider observed that the VM is gone.
FailedAndGone(x, o) ==
    /\ call[x] = o /\ o \notin {None, "provision"}
    /\ vm' = [vm EXCEPT ![x] = "gone"]
    /\ IF GuardCleanup(x)
       THEN /\ Show(x, "destroyed", None, TRUE)
            /\ Record(x, o, "failed")
            /\ IF L!Unsettled(VM(x)) THEN L!FailedLocal(VM(x)) ELSE L!DestroySettled(VM(x))
       ELSE Uncertain(x, o, TRUE)
    /\ Return(x)
    /\ UNCHANGED <<lease, bound, phase, dirty, dispatched>>

\* A failure that says nothing of the VM, or a cancellation, which also records
\* what the provider observed.
Interrupted(x, o) ==
    /\ call[x] = o /\ o \notin {None, "provision"}
    /\ \E v \in {"up", "gone"}, c \in BOOLEAN :
        /\ c \/ vm[x] = "gone" => v = "gone"
        /\ vm' = [vm EXCEPT ![x] = v]
        /\ Uncertain(x, o, c)
    /\ Return(x)
    /\ UNCHANGED <<lease, bound, phase, dirty, dispatched>>
-----------------------------------------------------------------------------
(* The controller and its operators. *)

LeaseExpires ==
    /\ lease.live
    /\ lease' = [lease EXCEPT !.live = FALSE]
    /\ UNCHANGED <<bound, phase, ledger>> /\ UNCHANGED broker

SetOpen(b) == L!SetOpen(b) /\ UNCHANGED <<lease, bound, phase>> /\ UNCHANGED broker

\* reconcile_orphan_worker_slot of the bound execution's slot.
ReconcileSlot(x) ==
    /\ bound = x /\ lease.holder = x /\ ~lease.live
    /\ ~Unresolved(x)
    /\ L!ReleaseSlot(Slot(x))
    /\ UNCHANGED <<lease, bound, phase>> /\ UNCHANGED broker

\* settle_resources of the VM's reservation by hand.
OperatorSettles(x) ==
    /\ L!Settle(VM(x), L!Zero)
    /\ UNCHANGED <<lease, bound, phase>> /\ UNCHANGED broker

\* An operator removes the VM of an abandoned execution by hand.
OperatorDestroys(x) ==
    /\ vm[x] = "up" /\ ~Fenced(x)
    /\ vm' = [vm EXCEPT ![x] = "gone"]
    /\ UNCHANGED <<lease, bound, phase, ws, op, call, dirty, dispatched, ledger>>

\* The workspace waits for an operator, after a command, an archive, or a
\* destruction that was never dispatched.
Retirable(x) ==
    /\ ws[x].status = "reconciliation_required" /\ ~ws[x].confirmed
    /\ \/ /\ ws[x].active \in Command \cup {"final"}
          /\ op[x][ws[x].active] \in {"reconciliation_required", "retained"}
       \/ ws[x].active = "destroy" /\ op[x]["destroy"] = "retained"

\* retire_failed_local_workspace, on the evidence that the VM is gone.
Retire(x) ==
    /\ Retirable(x)
    /\ lease.holder = x /\ ~lease.live /\ bound = x
    /\ vm[x] = "gone"
    /\ L!RetireLocal(VM(x), Slot(x))
    /\ Record(x, ws[x].active, "failed")
    /\ Show(x, "destroyed", None, TRUE)
    /\ UNCHANGED <<lease, bound, phase, call, vm, dirty, dispatched>>
-----------------------------------------------------------------------------
Execute(x) ==
    \/ ReserveSlot(x) \/ Acquire(x) \/ AcquireRefused(x) \/ BindSlot(x) \/ EndsEarly(x)
    \/ BeginClose(x) \/ EndClose(x) \/ ReleaseLease(x) \/ ReadUnresolved(x) \/ SettleSlot(x)

Broker(x) ==
    \/ ProvisionStart(x) \/ ProvisionDone(x) \/ ProvisionRejected(x) \/ ProvisionFailed(x)
    \/ Destroyed(x)
    \/ \E o \in Operation : \/ Start(x, o) \/ Retain(x, o) \/ Answered(x, o)
                            \/ FailedAndGone(x, o) \/ Interrupted(x, o)

Controller(x) ==
    ReconcileSlot(x) \/ OperatorSettles(x) \/ OperatorDestroys(x) \/ Retire(x)

WorkspacesNext ==
    \/ LeaseExpires
    \/ \E b \in BOOLEAN : SetOpen(b)
    \/ \E x \in Execution : Execute(x) \/ Broker(x) \/ Controller(x) \/ VMCreated(x) \/ Crash(x)

WorkspacesSpec == WorkspacesInit /\ [][WorkspacesNext]_workspaceVars
-----------------------------------------------------------------------------
(* Properties. *)

\* However often an operation is retried, and whatever became of its first
\* attempt, the provider is called for it once.
AtMostOnce == \A x \in Execution, o \in Operation : dispatched[x][o] =< 1

\* A VM that runs, or may still come up, has its worker counted: no path gives
\* the slot back before the VM is known to be gone.
RunningVMCounted ==
    \A x \in Execution : vm[x] \in {"creating", "up"} => L!Unsettled(Slot(x))

\* So there are never more VMs than the experiment's concurrency, also when
\* executions lose their lease or die and others take over.
VMsWithinLimit == Cardinality({x \in Execution : vm[x] \in {"creating", "up"}}) =< MaxConcurrency

\* A workspace recorded as destroyed has no VM, and none will come up.
DestroyedIsGone ==
    \A x \in Execution : ws[x].status = "destroyed" => vm[x] \in {"none", "gone"}

\* Cleanup destroys a VM only when all its commands' files are archived, or the
\* archive was definitely refused and the refusal recorded.
NothingLost ==
    \A x \in Execution : dispatched[x]["destroy"] > 0 =>
        ~dirty[x] \/ op[x]["final"] = "rejected"

\* An execution that ends leaves no VM that looks ready for use: it is destroyed
\* or an operator is told.
NotLeftReady ==
    \A x \in Execution : phase[x] = "over" => ~(ws[x].status = "ready" /\ ws[x].active = None)

\* Workspaces are sound: no operation runs twice, every VM is counted within the
\* limit until it is gone, and cleanup loses no file and leaves nothing ready.
WorkspacesSound ==
    /\ WorkspacesTypeOK
    /\ AtMostOnce
    /\ RunningVMCounted
    /\ VMsWithinLimit
    /\ DestroyedIsGone
    /\ NothingLost
    /\ NotLeftReady
=============================================================================
