----------------------------- MODULE E2BProvider -----------------------------
(***************************************************************************)
(* E2BSandboxProvider: one remote VM, driven by calls that run             *)
(* concurrently on one event loop, and the durable CommandJournal of its   *)
(* native operations.  A call is interrupted only where it awaits the      *)
(* remote service: creating the VM, a command, a file transfer, killing    *)
(* the VM, or a native operation.  The answer may not come, and then the   *)
(* host does not know what happened in the VM.                             *)
(*                                                                         *)
(* The process may die at any time and be replaced by one with a new       *)
(* provider object and the same journal.                                   *)
(***************************************************************************)
EXTENDS Naturals, FiniteSets

CONSTANTS
    Call,           \* tasks of the event loop
    Op,             \* operation ids
    Sandbox,        \* identities of VMs, never reused
    MaxCrashes      \* bound: deaths of the process

ASSUME ProviderAssumption ==
    /\ MaxCrashes \in Nat
    /\ "none" \notin Call \cup Op \cup Sandbox

VARIABLES
    prov,           \* the provider object
    request,        \* what each task awaits
    remote,         \* the VMs, at the remote service
    frozen,         \* the pause and snapshot records that exist
    journal,        \* the journal's entry of each operation
    crashes,        \* deaths so far
    lost,           \* history: VMs on which this process lost a command or transfer
    confirmed,      \* history: VMs whose destruction was reported as confirmed
    allocations     \* history: how often each operation asked for a child

providerVars == <<prov, request, remote, frozen, journal, crashes, lost, confirmed, allocations>>

NoVM == "none"
NoOp == "none"
FileWork == "workspace"
NoCall == "none"
Free == [pc |-> "free", op |-> NoOp, vm |-> NoVM, then |-> "none", todo |-> {}]
\* last_execution_observation, and the call that may still confirm it.
NotObserved == [vm |-> NoVM, confirmed |-> FALSE, by |-> NoCall]
NewProvider == [sandbox |-> NoVM, active |-> {}, cancelled |-> {}, workspace |-> FALSE,
                quarantined |-> FALSE, creating |-> FALSE, closing |-> FALSE,
                paused |-> FALSE, observed |-> NotObserved]

ProviderTypeOK ==
    /\ prov.sandbox \in Sandbox \cup {NoVM}
    /\ prov.active \subseteq Op \cup {FileWork} /\ prov.cancelled \subseteq Op \cup {FileWork}
    /\ remote \in [Sandbox -> {"none", "alive", "gone"}]
    /\ \A o \in Op : journal[o].status \in {"none", "pending", "completed"}
    /\ \A c \in Call : request[c].vm \in Sandbox \cup {NoVM}
    /\ lost \subseteq Sandbox /\ confirmed \subseteq Sandbox /\ allocations \in [Op -> Nat]

ProviderInit ==
    /\ prov = NewProvider
    /\ request = [c \in Call |-> Free]
    /\ remote = [v \in Sandbox |-> "none"]
    /\ frozen = {}
    /\ journal = [o \in Op |-> [status |-> "none", children |-> {}, gone |-> {}]]
    /\ crashes = 0 /\ lost = {} /\ confirmed = {}
    /\ allocations = [o \in Op |-> 0]

UnusedVMs == {v \in Sandbox : remote[v] = "none"}
Await(c, pc, op, v) == request' = [request EXCEPT ![c] = [Free EXCEPT !.pc = pc, !.op = op, !.vm = v]]
End(c) == request' = [request EXCEPT ![c] = Free]
\* What a command or a kill may have done although no answer came.
MayBe(v, s) == remote' \in {remote, [remote EXCEPT ![v] = s]}
KeepNative == UNCHANGED <<frozen, journal, allocations, crashes>>
-----------------------------------------------------------------------------
(* create *)

Create(c) ==
    /\ request[c].pc = "free"
    /\ prov.sandbox = NoVM /\ ~prov.creating /\ prov.active = {} /\ ~prov.quarantined
    /\ prov' = [prov EXCEPT !.creating = TRUE]
    /\ Await(c, "creating", NoOp, NoVM)
    /\ UNCHANGED <<remote, lost, confirmed>> /\ KeepNative

Created(c) ==
    /\ request[c].pc = "creating"
    /\ \E v \in UnusedVMs :
        /\ remote' = [remote EXCEPT ![v] = "alive"]
        /\ prov' = [prov EXCEPT !.creating = FALSE, !.sandbox = v]
    /\ End(c)
    /\ UNCHANGED <<lost, confirmed>> /\ KeepNative

\* An error or a cancellation, whether or not a VM was created.
CreateFails(c) ==
    /\ request[c].pc = "creating"
    /\ prov' = [prov EXCEPT !.creating = FALSE, !.quarantined = TRUE]
    /\ remote' \in {remote} \cup {[remote EXCEPT ![v] = "alive"] : v \in UnusedVMs}
    /\ End(c)
    /\ UNCHANGED <<lost, confirmed>> /\ KeepNative
-----------------------------------------------------------------------------
(* _close_vm and its callers *)

MayKill(p) == ~p.creating /\ ~p.closing /\ p.sandbox # NoVM

NotQuarantined(p) == p                                              \* mutant
Quarantined(p) == [p EXCEPT !.quarantined = TRUE]

\* _close_vm up to its await of sandbox.kill.
Killing(p, c) ==
    [Quarantined(p) EXCEPT !.closing = TRUE, !.cancelled = @ \cup p.active,
        !.observed = [vm |-> p.sandbox, confirmed |-> FALSE, by |-> c]]

\* _quarantine_command up to that await: the first observation is kept.
Suspected(p, v) ==
    [Quarantined(p) EXCEPT !.observed =
        IF @.vm = v THEN @ ELSE [vm |-> v, confirmed |-> FALSE, by |-> NoCall]]

\* The end of the call that a kill served.
Leave(p, k) ==
    CASE k.then = "run"  -> [p EXCEPT !.active = @ \ {k.op}, !.cancelled = @ \ {k.op}]
      [] k.then = "file" -> [p EXCEPT !.active = @ \ {FileWork}, !.workspace = FALSE]
      [] OTHER           -> p

\* What the caller is told of the VM.
Told(p, v) == IF p.observed.vm = v /\ p.observed.confirmed THEN {v} ELSE {}

\* A call that holds k closes the VM, or goes on where it cannot.
CloseFor(c, k, p, orElse) ==
    IF MayKill(p)
    THEN /\ prov' = Killing(p, c)
         /\ request' = [request EXCEPT ![c] = [k EXCEPT !.pc = "killing"]]
         /\ UNCHANGED confirmed
    ELSE /\ prov' = orElse
         /\ End(c)
         /\ confirmed' = confirmed \cup Told(orElse, k.vm)

AlwaysOk(ok) == TRUE                                                \* mutant
\* Only an answer to kill confirms the destruction.
Confirms(ok) == ok

\* The kill answers, or times out or fails.
Killed(c, ok) ==
    LET k == request[c]
        closed == IF ~Confirms(ok) THEN [prov EXCEPT !.closing = FALSE]
                  ELSE [prov EXCEPT !.closing = FALSE, !.sandbox = NoVM, !.paused = FALSE,
                            !.observed.confirmed = @ \/ prov.observed.by = c]
        last == IF k.then \in {"file", "capture"}
                THEN [closed EXCEPT !.observed = [vm |-> k.vm, confirmed |-> Confirms(ok),
                                                  by |-> NoCall]]
                ELSE closed IN
    /\ k.pc = "killing"
    /\ IF ok THEN remote' = [remote EXCEPT ![k.vm] = "gone"] ELSE MayBe(k.vm, "gone")
    /\ prov' = Leave(last, k)
    /\ confirmed' = confirmed \cup Told(last, k.vm)
    /\ End(c)
    /\ UNCHANGED lost /\ KeepNative

\* close: refused during a workspace operation.
Close(c) ==
    /\ request[c].pc = "free"
    /\ ~prov.workspace /\ MayKill(prov)
    /\ CloseFor(c, [Free EXCEPT !.vm = prov.sandbox, !.then = "close"], prov, prov)
    /\ UNCHANGED <<remote, lost>> /\ KeepNative
-----------------------------------------------------------------------------
(* run and cancel *)

Run(c, op) ==
    /\ request[c].pc = "free"
    /\ ~prov.quarantined /\ prov.sandbox # NoVM /\ ~prov.paused /\ prov.active = {}
    /\ prov' = [prov EXCEPT !.active = {op}]
    /\ Await(c, "running", op, prov.sandbox)
    /\ UNCHANGED <<remote, lost, confirmed>> /\ KeepNative

\* The command ends.  If it was cancelled meanwhile, the caller is told that,
\* and what is known of the VM.
RunEnds(c) ==
    LET k == request[c] IN
    /\ k.pc = "running"
    /\ prov' = [prov EXCEPT !.active = @ \ {k.op}, !.cancelled = @ \ {k.op}]
    /\ confirmed' = IF k.op \in prov.cancelled THEN confirmed \cup Told(prov, k.vm)
                    ELSE confirmed
    /\ End(c)
    /\ UNCHANGED <<remote, lost>> /\ KeepNative

\* The command times out, its task is cancelled or its stream breaks.
RunLost(c) ==
    LET k == [request[c] EXCEPT !.then = "run"]
        p == Suspected(prov, k.vm) IN
    /\ k.pc = "running"
    /\ CloseFor(c, k, p, Leave(p, k))
    /\ lost' = lost \cup {k.vm}
    /\ UNCHANGED remote /\ KeepNative

\* cancel of a command that runs.
Cancel(c, op) ==
    LET v == IF prov.sandbox # NoVM THEN prov.sandbox ELSE prov.observed.vm
        p == Suspected([prov EXCEPT !.cancelled = @ \cup {op}], v) IN
    /\ request[c].pc = "free"
    /\ ~prov.workspace /\ op \in prov.active
    /\ CloseFor(c, [Free EXCEPT !.vm = v, !.then = "cancel"], p, p)
    /\ lost' = lost \cup {v}
    /\ UNCHANGED remote /\ KeepNative
-----------------------------------------------------------------------------
(* Files *)

\* _exclusive
MayEnter(v, paused, missing) ==
    /\ ~prov.quarantined /\ ~prov.creating
    /\ prov.sandbox \in {v} \cup (IF missing THEN {NoVM} ELSE {})
    /\ prov.active = {}
    /\ prov.paused => paused
Entered == [prov EXCEPT !.active = {FileWork}, !.workspace = TRUE]
Left(p) == [p EXCEPT !.active = @ \ {FileWork}, !.workspace = FALSE]

\* upload_file, download_file, export_workspace, restore_workspace.
Transfer(c) ==
    /\ request[c].pc = "free" /\ prov.sandbox # NoVM
    /\ MayEnter(prov.sandbox, FALSE, FALSE)
    /\ prov' = Entered
    /\ Await(c, "file", NoOp, prov.sandbox)
    /\ UNCHANGED <<remote, lost, confirmed>> /\ KeepNative

\* capture_file checks only the identity.
Capture(c) ==
    /\ request[c].pc = "free" /\ prov.sandbox # NoVM
    /\ Await(c, "capture", NoOp, prov.sandbox)
    /\ UNCHANGED <<prov, remote, lost, confirmed>> /\ KeepNative

\* The helper answered, with the file or with a refusal.
TransferEnds(c) ==
    /\ request[c].pc \in {"file", "capture"}
    /\ prov' = IF request[c].pc = "file" THEN Left(prov) ELSE prov
    /\ End(c)
    /\ UNCHANGED <<remote, lost, confirmed>> /\ KeepNative

\* No answer: the VM is closed; the observation is replaced by this call's own.
TransferLost(c) ==
    LET k == [request[c] EXCEPT !.then = request[c].pc]
        p == Quarantined(prov)
        unclosed == [p EXCEPT !.observed = [vm |-> k.vm, confirmed |-> FALSE, by |-> NoCall]] IN
    /\ k.pc \in {"file", "capture"}
    /\ IF prov.sandbox = NoVM
       THEN prov' = Leave(prov, k) /\ End(c) /\ UNCHANGED confirmed
       ELSE CloseFor(c, k, p, Leave(unclosed, k))
    /\ lost' = IF k.pc = "file" THEN lost \cup {k.vm} ELSE lost
    /\ UNCHANGED remote /\ KeepNative
-----------------------------------------------------------------------------
(* Native operations, each at most once in the journal *)

\* begin inserts a new entry; a completed one is replayed, a pending one refused.
MayBegin(op) == journal[op].status = "none"
Begun(op) == [journal EXCEPT ![op].status = "pending"]
Completed(op) == [journal EXCEPT ![op].status = "completed"]

\* A native operation is entered, journalled and sent to the service.
Native(c, pc, op, v, paused, missing) ==
    /\ request[c].pc = "free"
    /\ MayEnter(v, paused, missing)
    /\ MayBegin(op)
    /\ journal' = Begun(op)
    /\ prov' = Entered
    /\ Await(c, pc, op, v)
    /\ UNCHANGED <<remote, lost, confirmed, frozen, crashes>>

Pause(c, op) ==
    /\ prov.sandbox # NoVM
    /\ Native(c, "pausing", op, prov.sandbox, TRUE, FALSE)
    /\ UNCHANGED allocations

Snapshot(c, op) ==
    /\ prov.sandbox # NoVM
    /\ Native(c, "snapshotting", op, prov.sandbox, FALSE, FALSE)
    /\ UNCHANGED allocations

\* Both leave the VM paused and a record of it.
Frozen(c, ok) ==
    LET k == request[c] IN
    /\ k.pc \in {"pausing", "snapshotting"}
    /\ prov' = Left([prov EXCEPT !.paused = @ \/ ok])
    /\ journal' = IF ok THEN Completed(k.op) ELSE journal
    /\ frozen' = IF ok THEN frozen \cup {<<k.pc, k.vm>>} ELSE frozen
    /\ End(c)
    /\ UNCHANGED <<remote, lost, confirmed, crashes, allocations>>

\* resume, also by a new process that has only the record of the pause.
Resume(c, op, v) ==
    /\ <<"pausing", v>> \in frozen
    /\ Native(c, "resuming", op, v, TRUE, TRUE)
    /\ UNCHANGED allocations

Resumed(c) ==
    LET k == request[c] IN
    /\ k.pc = "resuming" /\ remote[k.vm] = "alive"
    /\ prov' = Left([prov EXCEPT !.sandbox = k.vm, !.paused = FALSE])
    /\ journal' = Completed(k.op)
    /\ End(c)
    /\ UNCHANGED <<remote, lost, confirmed, frozen, crashes, allocations>>

\* No connection, or the network policy of the VM cannot be verified: then the
\* VM is closed.
ResumeFails(c) ==
    LET k == [request[c] EXCEPT !.then = "file"] IN
    /\ k.pc = "resuming"
    /\ \E p \in {prov, [prov EXCEPT !.sandbox = k.vm]} : CloseFor(c, k, p, Leave(p, k))
    /\ UNCHANGED <<remote, lost>> /\ KeepNative

Asked(op) == allocations' = [allocations EXCEPT ![op] = @ + 1]

Fork(c, op) ==
    /\ prov.sandbox # NoVM
    /\ Native(c, "allocating", op, prov.sandbox, FALSE, FALSE)
    /\ Asked(op)

\* The source of the snapshot may be paused, or unknown to this provider.
RestoreSnapshot(c, op, v) ==
    /\ <<"snapshotting", v>> \in frozen
    /\ Native(c, "allocating", op, v, TRUE, TRUE)
    /\ Asked(op)

\* _retain_children: the identities are kept and journalled without an await.
\* Any number but one is a failure.
Allocated(c, K) ==
    LET k == request[c] IN
    /\ k.pc = "allocating" /\ K \subseteq UnusedVMs
    /\ remote' = [v \in Sandbox |-> IF v \in K THEN "alive" ELSE remote[v]]
    /\ journal' = [journal EXCEPT ![k.op].children = K]
    /\ request' = [request EXCEPT ![c].pc = IF Cardinality(K) = 1 THEN "verifying" ELSE "failing",
                            ![c].todo = K]
    /\ UNCHANGED <<prov, lost, confirmed, frozen, crashes, allocations>>

\* The child's network policy is verified and the operation completes.
Verified(c) ==
    /\ request[c].pc = "verifying"
    /\ journal' = Completed(request[c].op)
    /\ prov' = Left(prov)
    /\ End(c)
    /\ UNCHANGED <<remote, lost, confirmed, frozen, crashes, allocations>>

VerifyFails(c) ==
    /\ request[c].pc = "verifying"
    /\ request' = [request EXCEPT ![c].pc = "failing"]
    /\ UNCHANGED <<prov, remote, lost, confirmed>> /\ KeepNative

\* _fail_child closes each child and journals what is known of it.
FailChild(c, v, ok) ==
    LET op == request[c].op IN
    /\ request[c].pc = "failing" /\ v \in request[c].todo
    /\ IF ok THEN remote' = [remote EXCEPT ![v] = "gone"] ELSE MayBe(v, "gone")
    /\ journal' = IF Confirms(ok) THEN [journal EXCEPT ![op].gone = @ \cup {v}] ELSE journal
    /\ request' = [request EXCEPT ![c].todo = @ \ {v}]
    /\ UNCHANGED <<prov, lost, confirmed, frozen, crashes, allocations>>

\* The allocation is reported as uncertain; its journal entry stays pending.
AllocationFails(c) ==
    /\ request[c].pc \in {"allocating", "failing"} /\ request[c].todo = {}
    /\ prov' = Left(prov)
    /\ End(c)
    /\ UNCHANGED <<remote, lost, confirmed>> /\ KeepNative
-----------------------------------------------------------------------------
\* The process dies; a new one has a new provider and new calls.
ProcessDies ==
    /\ crashes < MaxCrashes
    /\ crashes' = crashes + 1
    /\ prov' = NewProvider
    /\ request' = [c \in Call |-> Free]
    /\ lost' = {}
    /\ UNCHANGED <<remote, frozen, journal, confirmed, allocations>>

ProviderNext ==
    \/ ProcessDies
    \/ \E c \in Call :
        \/ Create(c) \/ Created(c) \/ CreateFails(c) \/ Close(c)
        \/ RunEnds(c) \/ RunLost(c) \/ Transfer(c) \/ Capture(c) \/ TransferEnds(c)
        \/ TransferLost(c) \/ Resumed(c) \/ ResumeFails(c) \/ Verified(c) \/ VerifyFails(c)
        \/ AllocationFails(c)
        \/ \E ok \in BOOLEAN : Killed(c, ok) \/ Frozen(c, ok)
        \/ \E op \in Op : Run(c, op) \/ Cancel(c, op) \/ Pause(c, op) \/ Snapshot(c, op) \/ Fork(c, op)
        \/ \E op \in Op, v \in Sandbox : Resume(c, op, v) \/ RestoreSnapshot(c, op, v)
        \/ \E v \in Sandbox, ok \in BOOLEAN : FailChild(c, v, ok)
        \/ \E K \in SUBSET Sandbox : Allocated(c, K)

ProviderSpec == ProviderInit /\ [][ProviderNext]_providerVars
-----------------------------------------------------------------------------
(* Properties. *)

\* A VM whose destruction was reported as confirmed, by any of the calls that
\* overlap while it is killed or in the journal, no longer runs.
ConfirmedMeansGone ==
    \A v \in Sandbox : (v \in confirmed \/ \E op \in Op : v \in journal[op].gone) => remote[v] = "gone"

Starts(c) == request[c].pc = "free" /\ request'[c].pc \in {"running", "file", "pausing",
                                "snapshotting", "resuming", "allocating"}

\* After a command or transfer was lost, whose process may still run in the VM,
\* this process starts nothing but a capture in that VM.
LostVMNotReused == [][\A c \in Call : Starts(c) => request'[c].vm \notin lost]_providerVars

\* An operation asks for a child VM at most once, whatever fails and dies.
AllocatedOnce == \A op \in Op : allocations[op] <= 1

\* The provider claims no destruction and no VM that it cannot know of.
ProviderSound == ProviderTypeOK /\ ConfirmedMeansGone /\ AllocatedOnce
=============================================================================
