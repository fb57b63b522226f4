---------------------------- MODULE Continuations ----------------------------
(***************************************************************************)
(* One task worked through a chain of native model sessions.  An executor  *)
(* plans from what it reads, takes the task's lease, starts or recovers a  *)
(* session, runs its turns, and either finishes the task or hands the      *)
(* session off and issues the ticket of its successor                      *)
(* (ResearchTaskExecutor.execute, ContinuationMixin, CanonicalRuntimeStore *)
(* and the loop of ResponsesRuntime).                                      *)
(*                                                                         *)
(* An executor may die after any step, and it may go on, unaware, after    *)
(* its lease has expired.  Every acquisition has its own holder, so the    *)
(* fence stands for both.  What a session checkpoint holds is its status   *)
(* and the marks that recovery reads.  Money and virtual machines are in   *)
(* Ledger and Workspaces.                                                  *)
(***************************************************************************)
EXTENDS Naturals, FiniteSets, FiniteSetsExt

CONSTANTS
    Executor,       \* controller processes that may run the task
    MaxSessions,    \* bound: sessions of the task
    MaxTurns,       \* bound: model requests of a session
    MaxRecoveries,  \* terminal recoveries of the task (3 in the code)
    MaxChainFaults  \* bound: deaths, expiries under a live executor, and revivals

ASSUME ContinuationsAssumption ==
    /\ {MaxSessions, MaxTurns} \subseteq Nat \ {0}
    /\ {MaxRecoveries, MaxChainFaults} \subseteq Nat

VARIABLES
    task,       \* the task record
    lease,      \* the lease row: fence, and whether it is live
    link,       \* the continuation_link records, by ordinal
    session,    \* the saved checkpoints, in order of creation
    bill,       \* the model reservation bound to the task
    sent,       \* history: requests sent, by session and turn
    exec,       \* where each executor stands
    chainFaults \* deaths, early expiries and revivals so far

chainVars == <<task, lease, link, session, bill, sent, exec, chainFaults>>

Ordinal == 1 .. MaxSessions
Turn == 1 .. MaxTurns

Task == [status : {"queued", "running", "completed", "blocked"}, holder : Nat,
         ready : Nat, waiting : BOOLEAN, consumed : Nat, fence : Nat, count : Nat,
         intent : Nat, recoveries : Nat]
Link == [status : {"none", "issued", "consumed", "started", "retired"},
         source : Nat, successor : Nat, fence : Nat]
Checkpoint == [status : {"none", "ready", "running", "interrupted", "failed",
                         "uncertain", "handed_off", "completed"},
               settled : BOOLEAN, pending : BOOLEAN, terminal : BOOLEAN,
               asks : BOOLEAN, turns : Nat]
ChainStep == {"off", "read", "restore", "reissue", "planned", "held", "consumed", "begun",
          "turn", "marked", "reserved", "sent", "refused", "received", "paid",
          "answered", "tool", "boundary", "asked", "handed", "done", "failed"}
RunType == [pc : ChainStep, fence : Nat, ready : Nat, consumed : Nat, holder : Nat,
        mode : {"none", "fresh", "ticket", "recover", "completed"},
        s : Nat, mem : Checkpoint]

Unopened == [status |-> "none", settled |-> TRUE, pending |-> FALSE,
              terminal |-> FALSE, asks |-> FALSE, turns |-> 0]
Idle == [pc |-> "off", fence |-> 0, ready |-> 0, consumed |-> 0, holder |-> 0,
         mode |-> "none", s |-> 0, mem |-> Unopened]

ChainTypeOK ==
    /\ task \in Task
    /\ lease \in [fence : Nat, live : BOOLEAN]
    /\ link \in [Ordinal -> Link]
    /\ session \in [Ordinal -> Checkpoint]
    /\ bill \in {"none", "open", "paid"}
    /\ sent \in [Ordinal \X Turn -> Nat]
    /\ exec \in [Executor -> RunType]
    /\ chainFaults \in Nat

ChainInit ==
    /\ task = [status |-> "queued", holder |-> 0, ready |-> 0, waiting |-> FALSE,
               consumed |-> 0, fence |-> 0, count |-> 0, intent |-> 0, recoveries |-> 0]
    /\ lease = [fence |-> 0, live |-> FALSE]
    /\ link = [k \in Ordinal |-> [status |-> "none", source |-> 0, successor |-> 0,
                                  fence |-> 0]]
    /\ session = [k \in Ordinal |-> Unopened]
    /\ bill = "none"
    /\ sent = [r \in Ordinal \X Turn |-> 0]
    /\ exec = [e \in Executor |-> Idle]
    /\ chainFaults = 0

Terminal == task.status \in {"completed", "blocked"}

\* A ticket is given; that a task which has ended is queued again by it is counted.
CountRevival ==
    IF Terminal THEN chainFaults < MaxChainFaults /\ chainFaults' = chainFaults + 1
                ELSE UNCHANGED chainFaults
Sessions == Cardinality({k \in Ordinal : session[k].status # "none"})
Latest == session[Sessions]

AlwaysOwns(e) == exec[e].fence # 0                                  \* mutant
\* _fenced.
Owns(e) == lease.live /\ lease.fence = exec[e].fence

AtStep(e, pc) == exec[e].pc = pc
To(e, pc) == exec' = [exec EXCEPT ![e].pc = pc]
Leave(e) == exec' = [exec EXCEPT ![e] = Idle]
-----------------------------------------------------------------------------
(* execute, before the lease: what to do is decided from reads. *)

ReadTask(e) ==
    /\ AtStep(e, "off")
    /\ ~Terminal
    /\ exec' = [exec EXCEPT ![e] = [Idle EXCEPT !.pc = "read", !.ready = task.ready,
                                              !.consumed = task.consumed,
                                              !.holder = task.holder]]
    /\ UNCHANGED <<task, lease, link, session, bill, sent, chainFaults>>

\* The checkpoint has no effect whose outcome is unknown.
Recoverable(c) ==
    /\ c.status \in {"ready", "interrupted", "running", "failed"}
    /\ c.settled /\ ~c.pending
    /\ c.status = "failed" => c.terminal

\* reconcile_model_reservations: a settled ledger row ends its binding.
Reconciled == IF bill = "paid" THEN "none" ELSE bill

Choose(pc, mode, k) == [pc |-> pc, mode |-> mode, s |-> k]

\* The sessions are read after the task, which may have moved on.  The last
\* case is RECOVERY_RECONCILIATION_REQUIRED, CONTINUATION_STALE or "waiting".
Decision(v) ==
    LET n == Sessions
        k == v.consumed IN
    CASE n = 0 /\ v.ready = 0 -> Choose("planned", "fresh", 0)
      [] n > 0 /\ v.ready = n /\ ~task.waiting -> Choose("planned", "ticket", n)
      [] v.ready = 0 /\ k # 0 /\ n = k -> Choose("restore", "ticket", k)
      [] /\ v.ready = 0 /\ n = k + 1
         /\ Recoverable(Latest) /\ Reconciled = "none" -> Choose("planned", "recover", n)
      [] /\ v.ready = 0 /\ n > k /\ Latest.status = "handed_off"
         /\ v.holder # 0 -> Choose("reissue", "ticket", n)
      [] /\ v.ready = 0 /\ n > k /\ Latest.status = "completed"
         /\ Latest.settled /\ ~Latest.pending
         /\ Reconciled = "none" -> Choose("planned", "completed", n)
      [] OTHER -> Choose("off", "none", 0)

Plan(e) ==
    LET d == Decision(exec[e]) IN
    /\ AtStep(e, "read")
    /\ bill' = IF Sessions = 0 THEN bill ELSE Reconciled
    /\ IF d.pc = "off" THEN Leave(e)
       ELSE exec' = [exec EXCEPT ![e].pc = d.pc, ![e].mode = d.mode, ![e].s = d.s]
    /\ UNCHANGED <<task, lease, link, session, sent, chainFaults>>

RestoresLiveOnly ==                                                 \* mutant
    LET k == task.consumed IN
    /\ k # 0 /\ task.ready = 0
    /\ link[k].status = "consumed" /\ link[k].successor = 0
    /\ lease.fence = task.fence /\ lease.live
    /\ Sessions = k /\ session[k].status = "handed_off"
    /\ bill = "none"
\* restore_unstarted_continuation: the consumer died before it saved a session.
\* The task's status is not read: a task blocked meanwhile is queued again.
CanRestore ==
    LET k == task.consumed IN
    /\ k # 0 /\ task.ready = 0
    /\ link[k].status = "consumed" /\ link[k].successor = 0
    /\ lease.fence = task.fence /\ ~lease.live
    /\ Sessions = k /\ session[k].status = "handed_off"
    /\ bill = "none"

Restore(e) ==
    LET k == task.consumed IN
    /\ AtStep(e, "restore")
    /\ IF CanRestore
       THEN /\ link' = [link EXCEPT ![k].status = "issued", ![k].fence = 0]
            /\ task' = [task EXCEPT !.status = "queued", !.holder = 0, !.ready = k,
                                    !.consumed = 0, !.fence = 0]
            /\ exec' = [exec EXCEPT ![e].pc = "planned", ![e].s = k]
            /\ CountRevival
       ELSE Leave(e) /\ UNCHANGED <<link, task, chainFaults>>
    /\ UNCHANGED <<lease, session, bill, sent>>

\* Only the newest session of the chain may hand off.
IsHead(k) == task.count # 0 => link[task.count].successor = k

\* issue_continuation, for the holder with this fence, whatever the task's status.
CanIssue(k, fence) ==
    /\ task.intent \in {0, fence}
    /\ session[k].status = "handed_off" /\ session[k].settled /\ ~session[k].pending
    /\ session[k].turns > 0
    /\ bill = "none"
    /\ \A j \in 1 .. task.count : link[j].status = "started"
    /\ IsHead(k)

Issue(k) ==
    LET n == task.count + 1 IN
    /\ \E w \in IF task.intent = 0 THEN {FALSE} ELSE BOOLEAN :
        task' = [task EXCEPT !.status = "queued", !.holder = 0, !.intent = 0,
                             !.ready = n, !.count = n, !.waiting = w]
    /\ link' = [link EXCEPT ![n] = [status |-> "issued", source |-> k,
                                    successor |-> 0, fence |-> 0]]
    /\ lease' = [lease EXCEPT !.live = FALSE]
    /\ CountRevival

\* A source that died between its handoff and its ticket: the ticket is issued
\* for the expired lease that was read, with the reason of the intent.
Reissue(e) ==
    LET k == exec[e].s IN
    /\ AtStep(e, "reissue")
    /\ IF /\ lease.fence = exec[e].holder /\ ~lease.live
          /\ CanIssue(k, exec[e].holder)
       THEN Issue(k) /\ exec' = [exec EXCEPT ![e].pc = "planned", ![e].s = task.count + 1]
       ELSE Leave(e) /\ UNCHANGED <<task, link, lease, chainFaults>>
    /\ UNCHANGED <<session, bill, sent>>
-----------------------------------------------------------------------------
(* Under the lease, before the first turn. *)

\* acquire_task; the plan is kept, however old it is.
Acquire(e) ==
    LET f == lease.fence + 1 IN
    /\ AtStep(e, "planned")
    /\ IF ~Terminal /\ ~lease.live
       THEN /\ lease' = [fence |-> f, live |-> TRUE]
            /\ task' = [task EXCEPT !.status = "running", !.holder = f]
            /\ exec' = [exec EXCEPT ![e].pc = "held", ![e].fence = f, ![e].ready = 0,
                                  ![e].consumed = 0, ![e].holder = 0]
       ELSE Leave(e) /\ UNCHANGED <<lease, task>>
    /\ UNCHANGED <<link, session, bill, sent, chainFaults>>

\* consume_continuation: the ticket that was planned is still the task's.
Consume(e) ==
    LET k == exec[e].s IN
    /\ AtStep(e, "held") /\ exec[e].mode = "ticket" /\ Owns(e)
    /\ session[k].status = "handed_off"
    /\ task.ready = k /\ link[k].status = "issued"
    /\ task' = [task EXCEPT !.ready = 0, !.consumed = k, !.fence = exec[e].fence]
    /\ link' = [link EXCEPT ![k].status = "consumed", ![k].fence = exec[e].fence]
    /\ To(e, "consumed")
    /\ UNCHANGED <<lease, session, bill, sent, chainFaults>>

\* CanonicalRuntimeStore.publish of a session it has not seen.
MayBegin(e) ==
    LET n == Sessions
        k == task.consumed IN
    IF n = 0 THEN task.count = 0
    ELSE /\ k # 0 /\ task.fence = exec[e].fence /\ n = k
         /\ session[link[k].source].status = "handed_off"
         /\ link[k].status = "consumed" /\ link[k].fence = exec[e].fence
         /\ link[k].successor = 0

\* start, or start_from_handoff: a new session is saved, settled and ready.
Begin(e) ==
    LET n == Sessions + 1
        c == [Unopened EXCEPT !.status = "ready"] IN
    /\ \/ AtStep(e, "held") /\ exec[e].mode = "fresh"
       \/ AtStep(e, "consumed")
    /\ Owns(e) /\ n \in Ordinal
    /\ MayBegin(e)
    /\ session' = [session EXCEPT ![n] = c]
    /\ link' = IF n = 1 THEN link
               ELSE [link EXCEPT ![task.consumed].status = "started",
                                 ![task.consumed].successor = n]
    /\ exec' = [exec EXCEPT ![e].pc = "begun", ![e].s = n, ![e].mem = c]
    /\ UNCHANGED <<task, lease, bill, sent, chainFaults>>

\* recover_terminal: the answer is already paid; only the boundary is left.
RecoverTerminal(e) ==
    LET c == session[exec[e].s] IN
    /\ AtStep(e, "held") /\ exec[e].mode = "recover" /\ Owns(e)
    /\ c.terminal /\ Recoverable(c)
    /\ exec' = [exec EXCEPT ![e].pc = "boundary", ![e].mem = c]
    /\ UNCHANGED <<task, lease, link, session, bill, sent, chainFaults>>

\* resume of an interrupted or running session saves it as ready;
\* continue_session takes a ready or a completed one.
ResumeRun(e) ==
    LET k == exec[e].s
        c == session[k] IN
    /\ AtStep(e, "held") /\ exec[e].mode = "recover" /\ Owns(e)
    /\ ~c.terminal /\ c.settled /\ ~c.pending
    /\ c.status \in {"interrupted", "running", "ready", "completed"}
    /\ session' = IF c.status \in {"interrupted", "running"}
                  THEN [session EXCEPT ![k].status = "ready"] ELSE session
    /\ exec' = [exec EXCEPT ![e].pc = "begun", ![e].mem = session'[k]]
    /\ UNCHANGED <<task, lease, link, bill, sent, chainFaults>>

\* A completed session is only finished.
FinishRecovered(e) ==
    /\ AtStep(e, "held") /\ exec[e].mode = "completed"
    /\ To(e, "done")
    /\ UNCHANGED <<task, lease, link, session, bill, sent, chainFaults>>
-----------------------------------------------------------------------------
(* The turns of a session. *)

\* _save: the checkpoint c, under the fence.
SaveSession(e, c, pc) ==
    /\ Owns(e)
    /\ session' = [session EXCEPT ![exec[e].s] = c]
    /\ exec' = [exec EXCEPT ![e].pc = pc, ![e].mem = c]
Keep(e, c, pc) ==
    /\ session' = session
    /\ exec' = [exec EXCEPT ![e].pc = pc, ![e].mem = c]

\* _run publishes the session as running.
StartRun(e) ==
    /\ AtStep(e, "begun")
    /\ SaveSession(e, [exec[e].mem EXCEPT !.status = "running"], "turn")
    /\ UNCHANGED <<task, lease, link, bill, sent, chainFaults>>

\* The guard before a generation: the target is verified, the scope delivered.
CompleteVerified(e) ==
    /\ AtStep(e, "turn")
    /\ SaveSession(e, [exec[e].mem EXCEPT !.status = "completed"], "done")
    /\ UNCHANGED <<task, lease, link, bill, sent, chainFaults>>

\* pending_operation is saved before anything is reserved or sent.
Mark(e) ==
    /\ AtStep(e, "turn") /\ exec[e].mem.turns < MaxTurns
    /\ SaveSession(e, [exec[e].mem EXCEPT !.pending = TRUE], "marked")
    /\ UNCHANGED <<task, lease, link, bill, sent, chainFaults>>

\* generation_started: the reservation is made and bound, under the fence.
Reserve(e) ==
    /\ AtStep(e, "marked") /\ Owns(e)
    /\ bill' = "open"
    /\ To(e, "reserved")
    /\ UNCHANGED <<task, lease, link, session, sent, chainFaults>>

\* The reservation was refused, so nothing is pending.
ReserveRefused(e) ==
    /\ AtStep(e, "marked")
    /\ SaveSession(e, [exec[e].mem EXCEPT !.pending = FALSE, !.status = "failed"], "failed")
    /\ UNCHANGED <<task, lease, link, bill, sent, chainFaults>>

\* The request to the provider; no database can be asked at the same time.
SendGeneration(e) ==
    /\ AtStep(e, "reserved")
    /\ sent' = [sent EXCEPT ![<<exec[e].s, exec[e].mem.turns + 1>>] = @ + 1]
    /\ To(e, "sent")
    /\ UNCHANGED <<task, lease, link, session, bill, chainFaults>>

\* The provider refused the request: generation_aborted settles at nothing,
\* ends the binding and clears the mark.
Refuse(e) ==
    /\ AtStep(e, "sent")
    /\ bill' = "paid"
    /\ To(e, "refused")
    /\ UNCHANGED <<task, lease, link, session, sent, chainFaults>>

Abandon(e) ==
    /\ AtStep(e, "refused")
    /\ SaveSession(e, [exec[e].mem EXCEPT !.pending = FALSE, !.status = "failed"], "failed")
    /\ bill' = "none"
    /\ UNCHANGED <<task, lease, link, sent, chainFaults>>

\* The response is saved before it is paid for.
ReceiveAnswer(e) ==
    /\ AtStep(e, "sent")
    /\ SaveSession(e, [exec[e].mem EXCEPT !.settled = FALSE, !.turns = @ + 1], "received")
    /\ UNCHANGED <<task, lease, link, bill, sent, chainFaults>>

\* usage: the ledger settles, whoever holds the task,
Pay(e) ==
    /\ AtStep(e, "received")
    /\ bill' = "paid"
    /\ To(e, "paid")
    /\ UNCHANGED <<task, lease, link, session, sent, chainFaults>>

\* and the binding ends under the fence.  The mark is cleared in memory.
Untrack(e) ==
    /\ AtStep(e, "paid") /\ Owns(e)
    /\ bill' = "none"
    /\ Keep(e, [exec[e].mem EXCEPT !.pending = FALSE], "answered")
    /\ UNCHANGED <<task, lease, link, sent, chainFaults>>

\* A tool call is marked before it is made.
CallTool(e) ==
    /\ AtStep(e, "answered")
    /\ SaveSession(e, [exec[e].mem EXCEPT !.pending = TRUE], "tool")
    /\ UNCHANGED <<task, lease, link, bill, sent, chainFaults>>

\* request_handoff, request_peer_wait or request_event_wait from a tool.
RequestHandoff(e) ==
    /\ AtStep(e, "tool") /\ Owns(e)
    /\ task.intent # exec[e].fence
    /\ task' = [task EXCEPT !.intent = exec[e].fence]
    /\ UNCHANGED <<lease, link, session, bill, sent, exec, chainFaults>>

\* Every call has its result.  From here on the task may be one whose boundary
\* asks for a handoff: joined children to deliver, a replan, or stagnation.
ToolDone(e) ==
    /\ AtStep(e, "tool")
    /\ \E b \in BOOLEAN :
        SaveSession(e, [exec[e].mem EXCEPT !.pending = FALSE, !.settled = TRUE, !.asks = b], "boundary")
    /\ UNCHANGED <<task, lease, link, bill, sent, chainFaults>>

\* A final text: settled, with its boundary decision pending.
AnswerRequest(e) ==
    /\ AtStep(e, "answered")
    /\ \E b \in BOOLEAN :
        SaveSession(e, [exec[e].mem EXCEPT !.settled = TRUE, !.terminal = TRUE, !.asks = b], "boundary")
    /\ UNCHANGED <<task, lease, link, bill, sent, chainFaults>>
-----------------------------------------------------------------------------
(* The settled boundary: boundary_hook and _maybe_handoff. *)

OwnIntent(e) == task.intent = exec[e].fence

\* What the hook wants when the target is not verified.
WantsHandoff(e) == OwnIntent(e) \/ exec[e].mem.asks

\* The target is verified, or the final text is accepted as the end.
Complete(e) ==
    /\ AtStep(e, "boundary")
    /\ SaveSession(e, [exec[e].mem EXCEPT !.status = "completed", !.terminal = FALSE], "done")
    /\ UNCHANGED <<task, lease, link, bill, sent, chainFaults>>

\* The hook records an intent of this fence before the handoff.
AskHandoff(e) ==
    /\ AtStep(e, "boundary") /\ Owns(e)
    /\ ~OwnIntent(e) /\ exec[e].mem.asks /\ exec[e].s < MaxSessions
    /\ task' = [task EXCEPT !.intent = exec[e].fence]
    /\ To(e, "asked")
    /\ UNCHANGED <<lease, link, session, bill, sent, chainFaults>>

\* An intent of this fence, or automatic_context_boundary without one.
HandOff(e) ==
    /\ exec[e].pc \in {"boundary", "asked"}
    /\ exec[e].mem.asks => OwnIntent(e)
    /\ exec[e].s < MaxSessions
    /\ SaveSession(e, [exec[e].mem EXCEPT !.status = "handed_off"], "handed")
    /\ UNCHANGED <<task, lease, link, bill, sent, chainFaults>>

\* Nothing asks for a boundary: the next turn.
NextTurn(e) ==
    /\ AtStep(e, "boundary") /\ Owns(e)
    /\ ~exec[e].mem.terminal
    /\ ~WantsHandoff(e) \/ exec[e].s = MaxSessions
    /\ To(e, "turn")
    /\ UNCHANGED <<task, lease, link, session, bill, sent, chainFaults>>

\* After the VM is archived and closed; a refusal leaves the task as it is.
IssueTicket(e) ==
    LET k == exec[e].s IN
    /\ AtStep(e, "handed")
    /\ IF Owns(e) /\ CanIssue(k, exec[e].fence)
       THEN Issue(k)
       ELSE UNCHANGED <<task, link, lease, chainFaults>>
    /\ Leave(e)
    /\ UNCHANGED <<session, bill, sent>>

FinishHandedOff(e) ==                                               \* mutant
    /\ exec[e].pc \in {"done", "handed"} /\ Owns(e)
    /\ \E status \in {"completed", "blocked"} : task' = [task EXCEPT !.status = status]
    /\ lease' = [lease EXCEPT !.live = FALSE]
    /\ Leave(e)
    /\ UNCHANGED <<link, session, bill, sent, chainFaults>>
\* finish_task: completed, or blocked while joined work is pending.
Finish(e) ==
    /\ AtStep(e, "done") /\ Owns(e)
    /\ \E status \in {"completed", "blocked"} : task' = [task EXCEPT !.status = status]
    /\ lease' = [lease EXCEPT !.live = FALSE]
    /\ Leave(e)
    /\ UNCHANGED <<link, session, bill, sent, chainFaults>>
-----------------------------------------------------------------------------
(* Failures. *)

InSession == {"begun", "turn", "marked", "reserved", "sent", "refused", "received",
              "paid", "answered", "tool", "boundary", "asked"}
AfterSession == {"held", "consumed", "handed", "done"}

\* An exception in a turn: _run saves what is known, the mark included.
FailTurn(e) ==
    /\ exec[e].pc \in InSession
    /\ \E status \in IF exec[e].mem.pending THEN {"uncertain"}
                                           ELSE {"failed", "interrupted"} :
        SaveSession(e, [exec[e].mem EXCEPT !.status = status], "failed")
    /\ UNCHANGED <<task, lease, link, bill, sent, chainFaults>>

\* An exception elsewhere, or in recover_terminal, saves nothing.
FailOutside(e) ==
    /\ exec[e].pc \in AfterSession \cup {"boundary"}
    /\ Owns(e)
    /\ To(e, "failed")
    /\ UNCHANGED <<task, lease, link, session, bill, sent, chainFaults>>

\* requeue_settled_terminal.
CanRequeue ==
    /\ bill = "none"
    /\ task.recoveries < MaxRecoveries
    /\ Sessions > 0
    /\ Latest.terminal /\ Recoverable(Latest) /\ Latest.status # "ready"

\* The failure is requeued, or the task is blocked.
Failed(e) ==
    /\ AtStep(e, "failed") /\ Owns(e)
    /\ task' = IF CanRequeue
               THEN [task EXCEPT !.status = "queued", !.holder = 0, !.recoveries = @ + 1]
               ELSE [task EXCEPT !.status = "blocked"]
    /\ lease' = [lease EXCEPT !.live = FALSE]
    /\ Leave(e)
    /\ UNCHANGED <<link, session, bill, sent, chainFaults>>

\* A step that needs the fence is refused; so is every effect of the failure.
Refused(e) ==
    /\ exec[e].pc \notin {"off", "read", "restore", "reissue", "planned", "reserved",
                         "received"}
    /\ ~Owns(e)
    /\ Leave(e)
    /\ UNCHANGED <<task, lease, link, session, bill, sent, chainFaults>>

\* The controller process dies.
ExecutorDies(e) ==
    /\ ~AtStep(e, "off") /\ chainFaults < MaxChainFaults
    /\ Leave(e)
    /\ chainFaults' = chainFaults + 1
    /\ UNCHANGED <<task, lease, link, session, bill, sent>>

Working == \E e \in Executor : exec[e].fence = lease.fence

\* The lease runs out: its executor is gone, or could not renew in time.
Expire ==
    /\ lease.live
    /\ IF Working THEN chainFaults < MaxChainFaults /\ chainFaults' = chainFaults + 1
                  ELSE UNCHANGED chainFaults
    /\ lease' = [lease EXCEPT !.live = FALSE]
    /\ UNCHANGED <<task, link, session, bill, sent, exec>>

\* The children or the peer that a ticket waits for.
WaitOver ==
    /\ task.waiting
    /\ task' = [task EXCEPT !.waiting = FALSE]
    /\ UNCHANGED <<lease, link, session, bill, sent, exec, chainFaults>>

\* retire_queued_after_verified: another branch proved the target.
RetireQueued ==
    LET k == task.ready IN
    /\ task.status = "queued" /\ ~lease.live
    /\ task' = [task EXCEPT !.status = "blocked", !.ready = 0]
    /\ link' = IF k = 0 THEN link ELSE [link EXCEPT ![k].status = "retired"]
    /\ UNCHANGED <<lease, session, bill, sent, exec, chainFaults>>
-----------------------------------------------------------------------------
Prepare(e) ==
    \/ ReadTask(e) \/ Plan(e) \/ Restore(e) \/ Reissue(e) \/ Acquire(e)
    \/ Consume(e) \/ Begin(e) \/ RecoverTerminal(e) \/ ResumeRun(e) \/ FinishRecovered(e)

TakeTurn(e) ==
    \/ StartRun(e) \/ CompleteVerified(e) \/ Mark(e) \/ Reserve(e) \/ ReserveRefused(e)
    \/ SendGeneration(e) \/ Refuse(e) \/ Abandon(e) \/ ReceiveAnswer(e) \/ Pay(e) \/ Untrack(e)
    \/ CallTool(e) \/ RequestHandoff(e) \/ ToolDone(e) \/ AnswerRequest(e)

Close(e) ==
    \/ Complete(e) \/ AskHandoff(e) \/ HandOff(e) \/ NextTurn(e) \/ IssueTicket(e)
    \/ Finish(e) \/ FailTurn(e) \/ FailOutside(e) \/ Failed(e) \/ Refused(e)

Work(e) == Prepare(e) \/ TakeTurn(e) \/ Close(e)

ChainNext ==
    \/ \E e \in Executor : Work(e) \/ ExecutorDies(e)
    \/ Expire \/ WaitOver \/ RetireQueued

\* A controller keeps working, a dead lease runs out, and waits end.
ChainFairness ==
    /\ \A e \in Executor : WF_chainVars(Work(e))
    /\ WF_chainVars(Expire /\ ~Working)
    /\ WF_chainVars(WaitOver)

ChainSpec == ChainInit /\ [][ChainNext]_chainVars
FairChainSpec == ChainSpec /\ ChainFairness
-----------------------------------------------------------------------------
(* Properties. *)

\* No model request is sent twice, whatever died or expired: the mark that is
\* saved before a request keeps every recovery away from its turn.
NoRequestTwice == \A r \in Ordinal \X Turn : sent[r] =< 1

\* The links and the sessions form one chain: ticket k comes from session k,
\* which is handed off, and only a started ticket has a successor, session k+1.
OneChain ==
    /\ \A k \in Ordinal :
        /\ link[k].status # "none" <=> k =< task.count
        /\ k =< task.count => link[k].source = k /\ session[k].status = "handed_off"
        /\ link[k].successor = IF link[k].status = "started" THEN k + 1 ELSE 0
        /\ k < task.count => link[k].status = "started"
    /\ Sessions # 0 => Sessions = Cardinality({k \in Ordinal : link[k].status = "started"}) + 1

\* A completed task passes validate_terminal_lineage: its chain is settled and
\* its last session is still the completed one.
CompletedChainValid ==
    task.status = "completed" =>
        /\ task.ready = 0
        /\ Sessions = task.count + 1
        /\ \A k \in 1 .. task.count : link[k].status = "started"
        /\ session[task.count + 1].status \in {"completed", "failed"}
        /\ task.count # 0 => /\ task.consumed = task.count
                             /\ task.fence = link[task.count].fence

\* The sessions of a task are one chain, in which no model request is repeated.
ChainSound == ChainTypeOK /\ NoRequestTwice /\ OneChain

\* With one executor at a time a chain that ends is also complete.
LoneChainSound == ChainSound /\ CompletedChainValid

\* A handed-off session that still has no successor.
Awaiting(k) == session[k].status = "handed_off" /\ Sessions = k /\ ~Terminal
\* The task holds an intent that was recorded under an older fence.
StaleIntent == task.intent # 0 /\ task.intent # task.holder

\* No handed-off session waits forever: it gets its successor, or the task ends,
\* after any number of deaths on the way.
HandoffContinues == \A k \in Ordinal : []<>~Awaiting(k)
\* So it does unless an intent of an older fence is in the way.
HandoffContinuesUnlessStale == \A k \in Ordinal : []<>(Awaiting(k) => StaleIntent)
=============================================================================
