-------------------------- MODULE TaskLeasesProofs --------------------------
(* Proofs about tasks and leases, for any tasks, executors and limits. *)
EXTENDS TaskLeases, FiniteSetTheorems, TLAPS

\* An executor names the task it works on, and holds a fence already granted.
Authority ==
    \A p \in Proc :
        /\ work[p].phase # "idle" => work[p].task \in Task
        /\ work[p].phase \in {"leased", "working"} =>
             work[p].fence > 0 /\ work[p].fence =< lease[work[p].task].fence

\* No two executors were granted the same fence of one task.
UniqueFence ==
    \A p, q \in Proc :
        /\ work[p].phase \in {"leased", "working"} /\ work[q].phase \in {"leased", "working"}
        /\ work[p].task = work[q].task /\ work[p].fence = work[q].fence
        => p = q

\* Only created tasks have leases.
LeasedExists == \A t \in Task : task[t].status = "absent" => lease[t].fence = 0

Inv ==
    /\ TypeOK
    /\ LiveLeaseMeansRunning
    /\ Authority
    /\ UniqueFence
    /\ LeasedExists
    /\ ObjectiveFrozen
    /\ DependenciesFirst

USE NoneAssumption, HolderAssumption, LimitAssumption

LEMMA InitInv == Init => Inv
<1> SUFFICES ASSUME Init PROVE Inv
  OBVIOUS
<1>1. TypeOK
  BY DEF Init, TypeOK, ExpStatus, TaskRecord, LeaseRow, WorkRecord, NoTask, Idle, TaskStatus, Phase
<1>2. LiveLeaseMeansRunning /\ LeasedExists /\ DependenciesFirst
  BY DEF Init, LiveLeaseMeansRunning, LeasedExists, DependenciesFirst, Live
<1>3. Authority /\ UniqueFence /\ ObjectiveFrozen
  BY DEF Init, Authority, UniqueFence, ObjectiveFrozen, Idle
<1>4. QED BY <1>1, <1>2, <1>3 DEF Inv

\* Steps that change no lease and no executor.
LEMMA CreationKeeps ==
    ASSUME Inv, NEW t \in Task, NEW D \in SUBSET Task, NEW u \in Task \cup {None}, AddTask(t, D, u)
    PROVE  Inv'
<1>1. TypeOK /\ lease' = lease /\ work' = work /\ exp' = exp
  BY DEF Inv, AddTask
<1> DEFINE rec == [status |-> "queued", objective |-> 1, deps |-> D, parent |-> u,
                   lineage |-> JoinLineage(u), recoveries |-> 0]
<1>2. task' = [task EXCEPT ![t] = rec] /\ task[t].status = "absent"
  BY DEF AddTask
<1>3. JoinLineage(u) \in SUBSET Task
  BY <1>1 DEF JoinLineage, TypeOK, TaskRecord
<1>4. rec \in TaskRecord /\ rec.status = "queued"
  BY <1>3 DEF TaskRecord, TaskStatus
<1> HIDE DEF rec
<1>5. TypeOK'
  BY <1>1, <1>2, <1>4 DEF TypeOK
<1>6. LiveLeaseMeansRunning' /\ LeasedExists'
  BY <1>1, <1>2, <1>4 DEF Inv, LiveLeaseMeansRunning, LeasedExists, Live, TypeOK
<1>7. Authority' /\ UniqueFence'
  BY <1>1 DEF Inv, Authority, UniqueFence
<1>8. ObjectiveFrozen'
  BY <1>1, <1>2 DEF Inv, ObjectiveFrozen, Authority, LeasedExists, TypeOK, LeaseRow, WorkRecord
<1>9. DependenciesFirst'
  BY <1>1, <1>2 DEF Inv, DependenciesFirst, LeasedExists, TypeOK
<1>10. QED BY <1>5, <1>6, <1>7, <1>8, <1>9 DEF Inv

\* Most commands grant no lease, change no objective or dependency, undo no
\* completion, and leave every executor as it was or without authority.
LEMMA FrameKeeps ==
    ASSUME Inv, TypeOK',
           \A t \in Task : /\ lease'[t].fence = lease[t].fence
                           /\ task'[t].objective = task[t].objective
                           /\ task'[t].deps = task[t].deps
                           /\ task[t].status = "completed" => task'[t].status = "completed"
                           /\ task'[t].status = "absent" => task[t].status = "absent"
                           /\ lease'[t].left > 0 => task'[t].status = "running",
           \A p \in Proc : \/ work'[p] = work[p]
                           \/ work'[p].phase = "idle"
                           \/ work'[p].phase = "begun" /\ work'[p].task \in Task
    PROVE  Inv'
<1>1. LiveLeaseMeansRunning' /\ LeasedExists'
  BY DEF Inv, LiveLeaseMeansRunning, Live, LeasedExists
<1>2. Authority'
  BY DEF Inv, Authority
<1>3. UniqueFence'
  BY DEF Inv, UniqueFence
<1>4. ObjectiveFrozen'
  BY DEF Inv, ObjectiveFrozen, Authority
<1>5. DependenciesFirst'
  BY DEF Inv, DependenciesFirst, TypeOK, TaskRecord
<1>6. QED BY <1>1, <1>2, <1>3, <1>4, <1>5 DEF Inv

\* SetStatus and Release, as a record update of one row.
LEMMA SetStatusRow ==
    ASSUME TypeOK, NEW t \in Task, NEW s \in TaskStatus, SetStatus(t, s)
    PROVE  /\ task' \in [Task -> TaskRecord]
           /\ task'[t].status = s
           /\ \A u \in Task : /\ task'[u].objective = task[u].objective
                              /\ task'[u].deps = task[u].deps
                              /\ u # t => task'[u] = task[u]
<1>1. [task[t] EXCEPT !.status = s] \in TaskRecord
  BY DEF TypeOK, TaskRecord
<1>2. task' = [task EXCEPT ![t] = [task[t] EXCEPT !.status = s]]
  BY DEF SetStatus, TypeOK
<1>3. QED BY <1>1, <1>2 DEF TypeOK, TaskRecord

LEMMA ReleaseRow ==
    ASSUME TypeOK, NEW t \in Task, Release(t)
    PROVE  /\ lease' \in [Task -> LeaseRow]
           /\ lease'[t].left = 0
           /\ \A u \in Task : /\ lease'[u].fence = lease[u].fence
                              /\ u # t => lease'[u] = lease[u]
<1>1. [lease[t] EXCEPT !.left = 0] \in LeaseRow
  BY DEF TypeOK, LeaseRow
<1>2. lease' = [lease EXCEPT ![t] = [lease[t] EXCEPT !.left = 0]]
  BY DEF Release, TypeOK
<1>3. QED BY <1>1, <1>2 DEF TypeOK, LeaseRow

LEMMA ForgetRow ==
    ASSUME TypeOK, NEW p \in Proc, Forget(p)
    PROVE  /\ work' \in [Proc -> WorkRecord]
           /\ \A q \in Proc : work'[q] = work[q] \/ work'[q].phase = "idle"
<1>1. Idle \in WorkRecord /\ Idle.phase = "idle"
  BY DEF Idle, WorkRecord, Phase
<1>2. QED BY <1>1 DEF Forget, TypeOK

\* The commands of a fenced holder that give the task up.
LEMMA GiveUpKeeps ==
    ASSUME Inv, NEW p \in Proc, NEW t \in Task,
           \/ \E s \in Terminal : FinishTask(p, t, s)
           \/ IssueContinuation(p, t)
           \/ RequeueSettledTerminal(p, t)
    PROVE  Inv'
<1>1. TypeOK /\ Live(t) /\ task[t].status = "running"
  BY DEF Inv, FinishTask, IssueContinuation, RequeueSettledTerminal, Fenced, LiveLeaseMeansRunning
<1>2. Release(t) /\ Forget(p) /\ exp' = exp
  BY DEF FinishTask, IssueContinuation, RequeueSettledTerminal
<1> DEFINE Rows == /\ task' \in [Task -> TaskRecord] /\ task'[t].status # "absent"
                   /\ \A u \in Task : /\ task'[u].objective = task[u].objective
                                      /\ task'[u].deps = task[u].deps
                                      /\ u # t => task'[u] = task[u]
<1>3. Rows
  <2>1. ASSUME NEW s \in Terminal \cup {"queued"}, SetStatus(t, s) PROVE Rows
    BY <1>1, <2>1, SetStatusRow DEF TaskStatus, Terminal
  <2>2. CASE RequeueSettledTerminal(p, t)
    <3> DEFINE n == task[t].recoveries + 1
               rec == [task[t] EXCEPT !.status = "queued", !.recoveries = n]
    <3>a. n \in Nat /\ task[t] \in TaskRecord
      BY <1>1 DEF TypeOK, TaskRecord
    <3>2. task' = [task EXCEPT ![t] = rec]
      BY <1>1, <2>2 DEF RequeueSettledTerminal, TypeOK
    <3> HIDE DEF n
    <3>1. /\ rec \in TaskRecord /\ rec.status = "queued" /\ rec.objective = task[t].objective
          /\ rec.deps = task[t].deps
      BY <3>a DEF TaskRecord, TaskStatus
    <3> HIDE DEF rec
    <3>3. QED BY <1>1, <3>1, <3>2 DEF TypeOK
  <2>3. QED BY <2>1, <2>2 DEF FinishTask, IssueContinuation
<1>4. TypeOK'
  BY <1>1, <1>2, <1>3, ReleaseRow, ForgetRow DEF TypeOK
<1>5. \A q \in Proc : work'[q] = work[q] \/ work'[q].phase = "idle"
  BY <1>1, <1>2, ForgetRow
<1>6. ASSUME NEW u \in Task PROVE lease'[u].fence = lease[u].fence
  BY <1>1, <1>2, ReleaseRow
<1>7. ASSUME NEW u \in Task, lease'[u].left > 0 PROVE task'[u].status = "running"
  BY <1>1, <1>2, <1>3, <1>7, ReleaseRow DEF Inv, LiveLeaseMeansRunning, Live
<1>8. ASSUME NEW u \in Task
      PROVE  /\ task[u].status = "completed" => task'[u].status = "completed"
             /\ task'[u].status = "absent" => task[u].status = "absent"
  BY <1>1, <1>3
<1>9. QED BY <1>3, <1>4, <1>5, <1>6, <1>7, <1>8, FrameKeeps

\* The controller's commands on a task that nobody holds.
LEMMA ControllerKeeps ==
    ASSUME Inv, NEW t \in Task, RetireQueued(t) \/ OperatorRetires(t)
    PROVE  Inv'
<1>1. TypeOK /\ ~Live(t) /\ task[t].status \notin {"absent", "completed"}
  BY DEF Inv, RetireQueued, OperatorRetires
<1>2. lease' = lease /\ work' = work /\ exp' = exp
  BY DEF RetireQueued, OperatorRetires
<1>3. PICK s \in {"blocked", "failed"} : SetStatus(t, s)
  BY DEF RetireQueued, OperatorRetires
<1>4. /\ task' \in [Task -> TaskRecord] /\ task'[t].status = s
      /\ \A u \in Task : /\ task'[u].objective = task[u].objective
                         /\ task'[u].deps = task[u].deps
                         /\ u # t => task'[u] = task[u]
  BY <1>1, <1>3, SetStatusRow DEF TaskStatus, Terminal
<1>5. TypeOK'
  BY <1>1, <1>2, <1>4 DEF TypeOK
<1>6. ASSUME NEW u \in Task
      PROVE  /\ task[u].status = "completed" => task'[u].status = "completed"
             /\ task'[u].status = "absent" => task[u].status = "absent"
             /\ lease'[u].left > 0 => task'[u].status = "running"
  BY <1>1, <1>2, <1>4 DEF Inv, LiveLeaseMeansRunning, Live
<1>7. QED BY <1>2, <1>4, <1>5, <1>6, FrameKeeps

\* A queued task has no live lease, so blocking it at dispatch ends none.
LEMMA DispatchKeeps ==
    ASSUME Inv, NEW p \in Proc, DispatchBlocked(p)
    PROVE  Inv'
<1> DEFINE t == work[p].task
<1>1. TypeOK /\ t \in Task /\ task[t].status = "queued" /\ ~Live(t)
  BY DEF Inv, DispatchBlocked, Authority, LiveLeaseMeansRunning
<1>2. SetStatus(t, "blocked") /\ Forget(p) /\ lease' = lease /\ exp' = exp
  BY DEF DispatchBlocked
<1> HIDE DEF t
<1>3. /\ task' \in [Task -> TaskRecord] /\ task'[t].status = "blocked"
      /\ \A u \in Task : /\ task'[u].objective = task[u].objective
                         /\ task'[u].deps = task[u].deps
                         /\ u # t => task'[u] = task[u]
  BY <1>1, <1>2, SetStatusRow DEF TaskStatus, Terminal
<1>4. /\ work' \in [Proc -> WorkRecord]
      /\ \A q \in Proc : work'[q] = work[q] \/ work'[q].phase = "idle"
  BY <1>1, <1>2, ForgetRow
<1>5. TypeOK'
  BY <1>1, <1>2, <1>3, <1>4 DEF TypeOK
<1>6. ASSUME NEW u \in Task
      PROVE  /\ task[u].status = "completed" => task'[u].status = "completed"
             /\ task'[u].status = "absent" => task[u].status = "absent"
             /\ lease'[u].left > 0 => task'[u].status = "running"
  BY <1>1, <1>2, <1>3 DEF Inv, LiveLeaseMeansRunning, Live
<1>7. QED BY <1>2, <1>3, <1>4, <1>5, <1>6, FrameKeeps

\* Recovery of an expired lease queues the task and keeps the fence.
LEMMA RecoverKeeps ==
    ASSUME Inv, NEW p \in Proc, RecoverExpired(p)
    PROVE  Inv'
<1> DEFINE t == work[p].task
<1>1. /\ TypeOK /\ t \in Task /\ ~Live(t) /\ task[t].status # "completed"
      /\ lease[t].fence = work[p].seen /\ work[p].seen > 0
  BY DEF Inv, RecoverExpired, Authority
<1>2. task[t].status # "absent"
  BY <1>1 DEF Inv, LeasedExists
<1>3. SetStatus(t, "queued") /\ Release(t) /\ exp' = exp
  BY DEF RecoverExpired
<1>4. /\ work' \in [Proc -> WorkRecord]
      /\ \A q \in Proc : \/ work'[q] = work[q]
                         \/ work'[q].phase = "begun" /\ work'[q].task \in Task
  <2> DEFINE rec == [work[p] EXCEPT !.seen = 0]
  <2>1. rec \in WorkRecord /\ rec.phase = "begun" /\ rec.task = t
    BY <1>1 DEF RecoverExpired, TypeOK, WorkRecord
  <2>2. work' = [work EXCEPT ![p] = rec]
    BY <1>1 DEF RecoverExpired, TypeOK
  <2> HIDE DEF rec, t
  <2>3. QED BY <1>1, <2>1, <2>2 DEF TypeOK
<1> HIDE DEF t
<1>5. /\ task' \in [Task -> TaskRecord] /\ task'[t].status = "queued"
      /\ \A u \in Task : /\ task'[u].objective = task[u].objective
                         /\ task'[u].deps = task[u].deps
                         /\ u # t => task'[u] = task[u]
  BY <1>1, <1>3, SetStatusRow DEF TaskStatus, Terminal
<1>6. /\ lease' \in [Task -> LeaseRow] /\ lease'[t].left = 0
      /\ \A u \in Task : lease'[u].fence = lease[u].fence /\ (u # t => lease'[u] = lease[u])
  BY <1>1, <1>3, ReleaseRow
<1>7. TypeOK'
  BY <1>1, <1>3, <1>4, <1>5, <1>6 DEF TypeOK
<1>8. ASSUME NEW u \in Task
      PROVE  /\ task[u].status = "completed" => task'[u].status = "completed"
             /\ task'[u].status = "absent" => task[u].status = "absent"
             /\ lease'[u].left > 0 => task'[u].status = "running"
  BY <1>1, <1>2, <1>5, <1>6 DEF Inv, LiveLeaseMeansRunning, Live
<1>9. QED BY <1>4, <1>5, <1>6, <1>7, <1>8, FrameKeeps

\* Steps that touch no task: begin, abandon, renew, the clock, the experiment.
LEMMA LeaseOnlyKeeps ==
    ASSUME Inv, task' = task,
           \/ \E a \in DOMAIN Transitions : TransitionExperiment(a)
           \/ \E p \in Proc, t \in Task : BeginExecution(p, t) \/ RenewTask(p, t)
           \/ \E p \in Proc : Abandon(p)
           \/ Tick
    PROVE  Inv'
<1>1. TypeOK
  BY DEF Inv
<1>2. ASSUME NEW a \in DOMAIN Transitions, TransitionExperiment(a) PROVE Inv'
  <2>1. exp' \in ExpStatus /\ lease' = lease /\ work' = work
    BY <1>2 DEF TransitionExperiment, Transitions, ExpStatus
  <2>2. TypeOK'
    BY <1>1, <2>1 DEF TypeOK
  <2>3. QED BY <2>1, <2>2, FrameKeeps DEF Inv, LiveLeaseMeansRunning, Live
<1>3. ASSUME NEW p \in Proc, NEW t \in Task, BeginExecution(p, t) PROVE Inv'
  <2> DEFINE f == IF task[t].status = "running" THEN lease[t].fence ELSE 0
             rec == [Idle EXCEPT !.phase = "begun", !.task = t, !.seen = f]
  <2>1. f \in Nat
    BY <1>1 DEF TypeOK, LeaseRow
  <2>2. work' = [work EXCEPT ![p] = rec] /\ lease' = lease /\ exp' = exp
    BY <1>3 DEF BeginExecution
  <2> HIDE DEF f
  <2>3. rec \in WorkRecord /\ rec.phase = "begun" /\ rec.task = t
    BY <2>1 DEF Idle, WorkRecord, Phase
  <2> HIDE DEF rec
  <2>4. TypeOK'
    BY <1>1, <2>2, <2>3 DEF TypeOK
  <2>5. \A q \in Proc : \/ work'[q] = work[q]
                        \/ work'[q].phase = "begun" /\ work'[q].task \in Task
    BY <1>1, <2>2, <2>3 DEF TypeOK
  <2>6. QED BY <2>2, <2>4, <2>5, FrameKeeps DEF Inv, LiveLeaseMeansRunning, Live
<1>4. ASSUME NEW p \in Proc, Abandon(p) PROVE Inv'
  <2>1. Forget(p) /\ lease' = lease /\ exp' = exp
    BY <1>4 DEF Abandon
  <2>2. /\ work' \in [Proc -> WorkRecord]
        /\ \A q \in Proc : work'[q] = work[q] \/ work'[q].phase = "idle"
    BY <1>1, <2>1, ForgetRow
  <2>3. TypeOK'
    BY <1>1, <2>1, <2>2 DEF TypeOK
  <2>4. QED BY <2>1, <2>2, <2>3, FrameKeeps DEF Inv, LiveLeaseMeansRunning, Live
<1>5. ASSUME NEW p \in Proc, NEW t \in Task, RenewTask(p, t) PROVE Inv'
  <2> DEFINE rec == [lease[t] EXCEPT !.left = LeaseTTL]
  <2>1. rec \in LeaseRow /\ rec.fence = lease[t].fence
    BY <1>1 DEF TypeOK, LeaseRow
  <2>2. lease' = [lease EXCEPT ![t] = rec] /\ work' = work /\ exp' = exp /\ Live(t)
    BY <1>1, <1>5 DEF RenewTask, Fenced, TypeOK
  <2> HIDE DEF rec
  <2>3. TypeOK'
    BY <1>1, <2>1, <2>2 DEF TypeOK
  <2>4. \A u \in Task : /\ lease'[u].fence = lease[u].fence
                        /\ lease'[u].left > 0 => task[u].status = "running"
    BY <1>1, <2>1, <2>2 DEF Inv, LiveLeaseMeansRunning, Live, TypeOK
  <2>5. QED BY <2>2, <2>3, <2>4, FrameKeeps
<1>6. CASE Tick
  <2>1. \A u \in Task : lease'[u] = [lease[u] EXCEPT !.left = LeftAfter(lease[u].left)]
    BY <1>6 DEF Tick
  <2>2. \A u \in Task : LeftAfter(lease[u].left) \in 0 .. LeaseTTL
    BY <1>1 DEF LeftAfter, TypeOK, LeaseRow
  <2>3. ASSUME NEW u \in Task
        PROVE  /\ lease'[u] \in LeaseRow /\ lease'[u].fence = lease[u].fence
               /\ lease'[u].left = LeftAfter(lease[u].left)
    <3> DEFINE n == LeftAfter(lease[u].left)
    <3>1. lease'[u] = [lease[u] EXCEPT !.left = n] /\ n \in 0 .. LeaseTTL /\ lease[u] \in LeaseRow
      BY <1>1, <2>1, <2>2 DEF TypeOK
    <3> HIDE DEF n
    <3>2. QED BY <3>1 DEF LeaseRow, n
  <2>4. TypeOK'
    BY <1>1, <1>6, <2>3 DEF TypeOK, Tick
  <2>5. \A u \in Task : lease'[u].left > 0 => Live(u)
    BY <1>1, <2>3 DEF LeftAfter, Live, TypeOK, LeaseRow
  <2>6. QED BY <1>6, <2>3, <2>4, <2>5, FrameKeeps DEF Tick, Inv, LiveLeaseMeansRunning
<1>7. QED BY <1>2, <1>3, <1>4, <1>5, <1>6

\* A grant raises the fence above every fence granted before.
LEMMA AcquireKeeps ==
    ASSUME Inv, NEW p \in Proc, AcquireTask(p)
    PROVE  Inv'
<1> DEFINE t == work[p].task
           f == NextFence(t)
           row == [holder |-> HolderOf[p], fence |-> f, left |-> LeaseTTL]
           rec == [work[p] EXCEPT !.phase = "leased", !.seen = 0, !.fence = f]
<1>1. TypeOK /\ t \in Task /\ work[p].phase = "begun" /\ Runnable(t) /\ DependenciesDone(t)
  BY DEF Inv, AcquireTask, Authority
<1>2. f \in Nat /\ f = lease[t].fence + 1 /\ f > 0
  BY <1>1 DEF TypeOK, LeaseRow, NextFence
<1>3. /\ SetStatus(t, "running") /\ exp' = exp
      /\ lease' = [lease EXCEPT ![t] = row]
  BY DEF AcquireTask
<1>4. work' = [work EXCEPT ![p] = rec]
  BY <1>1 DEF AcquireTask, TypeOK
<1> HIDE DEF f
<1>a. rec \in WorkRecord /\ rec.phase = "leased" /\ rec.task = t /\ rec.fence = f
  <2>1. work[p] \in WorkRecord /\ f \in Nat
    BY <1>1, <1>2 DEF TypeOK
  <2>2. QED BY <2>1 DEF WorkRecord, Phase
<1>b. row \in LeaseRow /\ row.fence = f
  <2>1. HolderOf[p] \in Holder /\ LeaseTTL \in 0 .. LeaseTTL
    BY HolderAssumption, LimitAssumption
  <2>2. QED BY <1>2, <2>1 DEF LeaseRow
<1>5. /\ rec \in WorkRecord /\ rec.phase = "leased" /\ rec.task = t /\ rec.fence = f
      /\ row \in LeaseRow /\ row.fence = f
  BY <1>a, <1>b
<1> HIDE DEF t, row, rec
<1>6. /\ task' \in [Task -> TaskRecord] /\ task'[t].status = "running"
      /\ \A u \in Task : /\ task'[u].objective = task[u].objective
                         /\ task'[u].deps = task[u].deps
                         /\ u # t => task'[u] = task[u]
  BY <1>1, <1>3, SetStatusRow DEF TaskStatus
<1>7. TypeOK'
  BY <1>1, <1>3, <1>4, <1>5, <1>6 DEF TypeOK
<1>8. /\ lease'[t].fence = f /\ work'[p] = rec
      /\ \A u \in Task : u # t => lease'[u] = lease[u]
      /\ \A q \in Proc : q # p => work'[q] = work[q]
  BY <1>1, <1>3, <1>4, <1>5 DEF TypeOK
<1>9. LiveLeaseMeansRunning' /\ LeasedExists'
  BY <1>6, <1>8 DEF Inv, LiveLeaseMeansRunning, LeasedExists, Live
<1>10. ASSUME NEW q \in Proc, q # p, work[q].phase \in {"leased", "working"}, work[q].task = t
       PROVE  work[q].fence < f /\ work[q].fence > 0
  <2>1. work[q].fence > 0 /\ work[q].fence =< lease[t].fence /\ work[q].fence \in Nat
        /\ lease[t].fence \in Nat
    BY <1>1, <1>10 DEF Inv, Authority, TypeOK, WorkRecord, LeaseRow
  <2>2. QED BY <1>2, <2>1
<1>11. Authority'
  <2>1. ASSUME NEW q \in Proc
        PROVE  /\ work'[q].phase # "idle" => work'[q].task \in Task
               /\ work'[q].phase \in {"leased", "working"} =>
                    work'[q].fence > 0 /\ work'[q].fence =< lease'[work'[q].task].fence
    <3>1. CASE q = p
      BY <1>1, <1>2, <1>5, <1>8, <3>1
    <3>2. CASE q # p /\ work[q].task = t
      <4>1. work[q].phase \in {"leased", "working"} =>
              work[q].fence < f /\ work[q].fence > 0 /\ work[q].fence \in Nat
        BY <1>1, <1>10, <3>2 DEF TypeOK, WorkRecord
      <4>2. QED BY <1>1, <1>2, <1>8, <3>2, <4>1
    <3>3. CASE q # p /\ work[q].task # t
      BY <1>8, <3>3 DEF Inv, Authority
    <3>4. QED BY <3>1, <3>2, <3>3
  <2>2. QED BY <2>1 DEF Authority
<1>12. UniqueFence'
  <2>1. ASSUME NEW q \in Proc, q # p, work[q].phase \in {"leased", "working"}, work[q].task = t
        PROVE  work[q].fence # f
    BY <1>1, <1>2, <1>10, <2>1 DEF TypeOK, WorkRecord
  <2>2. QED BY <1>5, <1>8, <2>1 DEF Inv, UniqueFence
<1>13. ObjectiveFrozen'
  BY <1>1, <1>5, <1>6, <1>8 DEF Inv, ObjectiveFrozen, Authority
<1>14. DependenciesFirst'
  <2>1. task[t].status # "completed" /\ \A d \in task[t].deps : task[d].status = "completed"
    BY <1>1 DEF Runnable, DependenciesDone
  <2>2. \A u \in Task : task[u].deps \subseteq Task
    BY <1>1 DEF TypeOK, TaskRecord
  <2>3. \A u \in Task : task[u].status = "completed" => task'[u].status = "completed"
    BY <1>6, <2>1
  <2>4. QED BY <1>1, <1>6, <1>8, <2>1, <2>2, <2>3 DEF Inv, DependenciesFirst
<1>15. QED BY <1>7, <1>9, <1>11, <1>12, <1>13, <1>14 DEF Inv

\* The objective is read under the grant; it was amended only before the first.
LEMMA ReadKeeps ==
    ASSUME Inv, NEW p \in Proc, ReadObjective(p)
    PROVE  Inv'
<1> DEFINE n == task[work[p].task].objective
           rec == [work[p] EXCEPT !.phase = "working", !.objective = n]
<1>1. TypeOK /\ work[p].phase = "leased" /\ work[p].task \in Task
  BY DEF Inv, ReadObjective, Authority
<1>2. n \in Nat
  BY <1>1 DEF TypeOK, TaskRecord
<1>3. work' = [work EXCEPT ![p] = rec] /\ exp' = exp /\ task' = task /\ lease' = lease
  BY <1>1 DEF ReadObjective, TypeOK
<1> HIDE DEF n
<1>4. /\ rec \in WorkRecord /\ rec.phase = "working" /\ rec.task = work[p].task
      /\ rec.fence = work[p].fence /\ rec.objective = n
  BY <1>1, <1>2 DEF TypeOK, WorkRecord, Phase
<1> HIDE DEF rec
<1>5. TypeOK'
  BY <1>1, <1>3, <1>4 DEF TypeOK
<1>6. work'[p] = rec /\ \A q \in Proc : q # p => work'[q] = work[q]
  BY <1>1, <1>3 DEF TypeOK
<1>7. LiveLeaseMeansRunning' /\ LeasedExists' /\ DependenciesFirst'
  BY <1>3 DEF Inv, LiveLeaseMeansRunning, LeasedExists, DependenciesFirst, Live
<1>8. Authority' /\ UniqueFence'
  BY <1>1, <1>3, <1>4, <1>6 DEF Inv, Authority, UniqueFence
<1>9. ObjectiveFrozen'
  BY <1>3, <1>4, <1>6 DEF Inv, ObjectiveFrozen, n
<1>10. QED BY <1>5, <1>7, <1>8, <1>9 DEF Inv

LEMMA AmendKeeps ==
    ASSUME Inv, NEW t \in Task, AmendObjective(t)
    PROVE  Inv'
<1> DEFINE n == task[t].objective + 1
           rec == [task[t] EXCEPT !.objective = n]
<1>1. TypeOK /\ lease[t].fence = 0
  BY DEF Inv, AmendObjective, NeverLeased
<1>2. n \in Nat
  BY <1>1 DEF TypeOK, TaskRecord
<1>3. task' = [task EXCEPT ![t] = rec] /\ exp' = exp /\ work' = work /\ lease' = lease
  BY <1>1 DEF AmendObjective, TypeOK
<1> HIDE DEF n
<1>4. rec \in TaskRecord /\ rec.status = task[t].status /\ rec.deps = task[t].deps
  BY <1>1, <1>2 DEF TypeOK, TaskRecord
<1> HIDE DEF rec
<1>5. TypeOK'
  BY <1>1, <1>3, <1>4 DEF TypeOK
<1>6. \A u \in Task : /\ task'[u].status = task[u].status /\ task'[u].deps = task[u].deps
                      /\ u # t => task'[u] = task[u]
  BY <1>1, <1>3, <1>4 DEF TypeOK
<1>7. LiveLeaseMeansRunning' /\ LeasedExists' /\ DependenciesFirst'
  BY <1>1, <1>3, <1>6 DEF Inv, LiveLeaseMeansRunning, LeasedExists, DependenciesFirst, Live, TypeOK, TaskRecord
<1>8. Authority' /\ UniqueFence'
  BY <1>3 DEF Inv, Authority, UniqueFence
<1>9. ObjectiveFrozen'
  <2>1. ASSUME NEW p \in Proc, work[p].phase = "working" PROVE work[p].task \in Task /\ work[p].task # t
    BY <1>1, <2>1 DEF Inv, Authority, TypeOK, WorkRecord
  <2>2. QED BY <1>3, <1>6, <2>1 DEF Inv, ObjectiveFrozen
<1>10. QED BY <1>5, <1>7, <1>8, <1>9 DEF Inv
-----------------------------------------------------------------------------
LEMMA NextInv == Inv /\ [Next]_vars => Inv'
<1> SUFFICES ASSUME Inv, [Next]_vars PROVE Inv'
  OBVIOUS
<1>1. CASE UNCHANGED vars
  BY <1>1, FrameKeeps DEF vars, Inv, TypeOK, LiveLeaseMeansRunning, Live
<1>2. ASSUME NEW a \in DOMAIN Transitions, TransitionExperiment(a) PROVE Inv'
  BY <1>2, LeaseOnlyKeeps DEF TransitionExperiment
<1>3. ASSUME NEW t \in Task, TaskStep(t) PROVE Inv'
  <2>1. ASSUME NEW D \in SUBSET Task, OperatorCreates(t, D) PROVE Inv'
    BY <2>1, CreationKeeps DEF OperatorCreates
  <2>2. ASSUME NEW p \in Proc, NEW D \in SUBSET Task, NEW b \in BOOLEAN, WorkerCreates(p, t, D, b)
        PROVE  Inv'
    <3> DEFINE u == IF b THEN None ELSE work[p].task
    <3>1. u \in Task \cup {None} /\ AddTask(t, D, u)
      BY <2>2 DEF WorkerCreates, Inv, TypeOK, WorkRecord
    <3> HIDE DEF u
    <3>2. QED BY <3>1, CreationKeeps
  <2>3. QED BY <1>3, <2>1, <2>2, AmendKeeps, ControllerKeeps DEF TaskStep
<1>4. ASSUME NEW p \in Proc, NEW t \in Task, ProcStep(p, t) PROVE Inv'
  <2>1. CASE BeginExecution(p, t) \/ RenewTask(p, t)
    BY <2>1, LeaseOnlyKeeps DEF BeginExecution, RenewTask
  <2>2. QED BY <1>4, <2>1, GiveUpKeeps DEF ProcStep
<1>5. ASSUME NEW p \in Proc, ProcLocal(p) PROVE Inv'
  <2>1. CASE Abandon(p)
    BY <2>1, LeaseOnlyKeeps DEF Abandon
  <2>2. QED BY <1>5, <2>1, RecoverKeeps, AcquireKeeps, ReadKeeps, DispatchKeeps DEF ProcLocal
<1>6. CASE Tick
  BY <1>6, LeaseOnlyKeeps DEF Tick
<1>7. QED BY <1>1, <1>2, <1>3, <1>4, <1>5, <1>6 DEF Next

\* Tasks, leases and executors keep their types.
THEOREM TaskTypes == Spec => []TypeOK
<1>1. Inv => TypeOK
  BY DEF Inv
<1>2. QED BY <1>1, InitInv, NextInv, PTL DEF Spec

\* At most one execution of a task ever passes the fence check.
THEOREM LeaseMutualExclusion == Spec => []MutualExclusion
<1>1. Inv => MutualExclusion
  BY DEF Inv, UniqueFence, MutualExclusion, Holds, Fenced
<1>2. QED BY <1>1, InitInv, NextInv, PTL DEF Spec

\* A live lease always belongs to a running task.
THEOREM LiveLeases == Spec => []LiveLeaseMeansRunning
<1>1. Inv => LiveLeaseMeansRunning
  BY DEF Inv
<1>2. QED BY <1>1, InitInv, NextInv, PTL DEF Spec

\* Nobody works on an objective that was amended under them.
THEOREM FrozenObjectives == Spec => []ObjectiveFrozen
<1>1. Inv => ObjectiveFrozen
  BY DEF Inv
<1>2. QED BY <1>1, InitInv, NextInv, PTL DEF Spec

\* Nothing is leased before its dependencies completed, and they stay so.
THEOREM DependenciesCompleted == Spec => []DependenciesFirst
<1>1. Inv => DependenciesFirst
  BY DEF Inv
<1>2. QED BY <1>1, InitInv, NextInv, PTL DEF Spec

\* What the run `running' checks of acquire_task, renew_task, finish_task and the
\* recovery commands, for any tasks, executors, holder names and limits.
THEOREM LeaseSafety == Spec => []LeasesSound
BY TaskTypes, LeaseMutualExclusion, LiveLeases, FrozenObjectives, PTL DEF LeasesSound
-----------------------------------------------------------------------------
\* An executor works alone on its task, and a task that it saw running, under the
\* fence it read, runs until it decides otherwise.  Both hold only where no two
\* processes execute one task at the same time.
Alone == \A p, q \in Proc : work[p].task = work[q].task /\ work[p].task # None => p = q
SeenRuns ==
    \A p \in Proc : work[p].phase = "begun" /\ work[p].seen > 0 =>
        task[work[p].task].status = "running"
Exclusive == Inv /\ Alone /\ SeenRuns

\* What no command does to a task: it keeps its parent and its existence, an ended
\* one is never reopened, and it completes only after its joined work.
Onward(u) ==
    /\ task'[u].parent = task[u].parent
    /\ task[u].status = "absent" <=> task'[u].status = "absent"
    /\ Settled(u) => task'[u].status \in Terminal
    /\ task'[u].status = "completed" => task[u].status = "completed" \/ JoinsSettled(u)

\* A task's step seen from its fence: kept, granted, lapsed or closed.
Stays(u) ==
    lease'[u].fence = lease[u].fence /\ Live(u)' = Live(u) /\ Settled(u)' = Settled(u)
Grants(u) ==
    /\ ~Settled(u) /\ ~Live(u)
    /\ lease'[u].fence = lease[u].fence + 1 /\ Live(u)' /\ ~Settled(u)'
Lapses(u) ==
    /\ Live(u)
    /\ lease'[u].fence = lease[u].fence /\ ~Live(u)' /\ Settled(u)' = Settled(u)
Closes(u) ==
    /\ ~Settled(u)
    /\ lease'[u].fence = lease[u].fence /\ ~Live(u)' /\ Settled(u)'
Moves(u) == Stays(u) \/ Grants(u) \/ Lapses(u) \/ Closes(u)

LEMMA ParentKept ==
    ASSUME TypeOK, NEW t \in Task, NEW s \in TaskStatus, SetStatus(t, s)
    PROVE  \A u \in Task : task'[u].parent = task[u].parent
BY DEF TypeOK, TaskRecord, SetStatus

\* A task is created for an operator, or for a worker whose own task runs.
Creates ==
    \E t \in Task, D \in SUBSET Task, w \in Task \cup {None} :
        AddTask(t, D, w) /\ (w # None => task[w].status = "running")

\* Every command but a creation moves each task onward.
LEMMA StepMoves ==
    ASSUME ~Overlap, Exclusive, Next, NEW u \in Task
    PROVE  Creates \/ (Onward(u) /\ Moves(u))
<1>1. TypeOK /\ LiveLeaseMeansRunning /\ Authority
  BY DEF Exclusive, Inv
<1> USE DEF Terminal
<1>2. CASE task' = task /\ lease' = lease
  BY <1>2 DEF Onward, Moves, Stays, Live, Settled
<1>3. ASSUME NEW p \in Proc, NEW t \in Task, RenewTask(p, t) PROVE Onward(u) /\ Moves(u)
  <2>1. task' = task /\ lease'[u].fence = lease[u].fence /\ (lease'[u].left > 0 <=> Live(u))
    BY <1>1, <1>3 DEF RenewTask, Fenced, Live, TypeOK, LeaseRow
  <2>2. QED BY <2>1 DEF Onward, Moves, Stays, Settled, Live
<1>4. ASSUME NEW p \in Proc, NEW t \in Task, NEW s \in Terminal, FinishTask(p, t, s)
      PROVE  Onward(u) /\ Moves(u)
  <2>1. /\ SetStatus(t, s) /\ Release(t) /\ Live(t) /\ task[t].status = "running"
        /\ s = "completed" => JoinsSettled(t)
    BY <1>1, <1>4 DEF FinishTask, Fenced, LiveLeaseMeansRunning
  <2>2. QED BY <1>1, <2>1, SetStatusRow, ReleaseRow, ParentKept
            DEF Onward, Moves, Stays, Closes, Settled, Live, TaskStatus
<1>5. ASSUME NEW p \in Proc, NEW t \in Task, IssueContinuation(p, t) PROVE Onward(u) /\ Moves(u)
  <2>1. SetStatus(t, "queued") /\ Release(t) /\ Live(t) /\ task[t].status = "running"
    BY <1>1, <1>5 DEF IssueContinuation, Fenced, LiveLeaseMeansRunning
  <2>2. QED BY <1>1, <2>1, SetStatusRow, ReleaseRow, ParentKept
            DEF Onward, Moves, Stays, Lapses, Settled, Live, TaskStatus
<1>6. ASSUME NEW p \in Proc, NEW t \in Task, RequeueSettledTerminal(p, t)
      PROVE  Onward(u) /\ Moves(u)
  <2>1. Release(t) /\ Live(t) /\ task[t].status = "running"
    BY <1>1, <1>6 DEF RequeueSettledTerminal, Fenced, LiveLeaseMeansRunning
  <2>2. task'[t].status = "queued" /\ task'[t].parent = task[t].parent /\ (u # t => task'[u] = task[u])
    BY <1>1, <1>6 DEF RequeueSettledTerminal, TypeOK, TaskRecord
  <2>3. QED BY <1>1, <2>1, <2>2, ReleaseRow
            DEF Onward, Moves, Stays, Lapses, Settled, Live
<1>7. ASSUME NEW p \in Proc, RecoverExpired(p) PROVE Onward(u) /\ Moves(u)
  <2> DEFINE t == work[p].task
  <2>1. t \in Task /\ SetStatus(t, "queued") /\ Release(t) /\ ~Live(t) /\ task[t].status = "running"
    BY <1>1, <1>7 DEF RecoverExpired, Exclusive, Authority, SeenRuns
  <2> HIDE DEF t
  <2>2. QED BY <1>1, <2>1, SetStatusRow, ReleaseRow, ParentKept
            DEF Onward, Moves, Stays, Settled, Live, TaskStatus, TypeOK, LeaseRow
<1>8. ASSUME NEW p \in Proc, AcquireTask(p) PROVE Onward(u) /\ Moves(u)
  <2> DEFINE t == work[p].task
  <2>1. t \in Task /\ SetStatus(t, "running") /\ ~Live(t) /\ task[t].status \in {"queued", "running"}
    BY <1>1, <1>8 DEF AcquireTask, Authority, Runnable
  <2>2. lease'[t].fence = lease[t].fence + 1 /\ lease'[t].left > 0 /\ (u # t => lease'[u] = lease[u])
    BY <1>1, <1>8, <2>1 DEF AcquireTask, NextFence, TypeOK, LeaseRow
  <2> HIDE DEF t
  <2>3. QED BY <1>1, <2>1, <2>2, SetStatusRow, ParentKept
            DEF Onward, Moves, Stays, Grants, Settled, Live, TaskStatus
<1>9. ASSUME NEW t \in Task, RetireQueued(t) \/ OperatorRetires(t) PROVE Onward(u) /\ Moves(u)
  <2>1. PICK s \in {"blocked", "failed"} : SetStatus(t, s)
    BY <1>9 DEF RetireQueued, OperatorRetires
  <2>2. ~Live(t) /\ lease' = lease /\ task[t].status \notin {"absent", "completed"}
    BY <1>9 DEF RetireQueued, OperatorRetires
  <2>3. QED BY <1>1, <2>1, <2>2, SetStatusRow, ParentKept
            DEF Onward, Moves, Stays, Closes, Settled, Live, TaskStatus
<1>10. ASSUME NEW p \in Proc, DispatchBlocked(p) PROVE Onward(u) /\ Moves(u)
  <2> DEFINE t == work[p].task
  <2>1. t \in Task /\ SetStatus(t, "blocked") /\ ~Live(t) /\ task[t].status = "queued" /\ lease' = lease
    BY <1>1, <1>10 DEF DispatchBlocked, Authority, LiveLeaseMeansRunning
  <2> HIDE DEF t
  <2>2. QED BY <1>1, <2>1, SetStatusRow, ParentKept
            DEF Onward, Moves, Stays, Closes, Settled, Live, TaskStatus
<1>11. ASSUME NEW t \in Task, AmendObjective(t) PROVE Onward(u) /\ Moves(u)
  <2>1. lease' = lease /\ task'[u].status = task[u].status /\ task'[u].parent = task[u].parent
    BY <1>1, <1>11 DEF AmendObjective, TypeOK, TaskRecord
  <2>2. QED BY <2>1 DEF Onward, Moves, Stays, Live, Settled
<1>12. CASE Tick
  <2>1. task' = task /\ lease'[u].fence = lease[u].fence /\ (lease'[u].left > 0 => Live(u))
    BY <1>1, <1>12 DEF Tick, LeftAfter, Live, TypeOK, LeaseRow
  <2>2. QED BY <2>1 DEF Onward, Moves, Stays, Lapses, Settled, Live
<1>13. ASSUME NEW t \in Task, TaskStep(t) PROVE Creates \/ (Onward(u) /\ Moves(u))
  <2>1. ASSUME NEW D \in SUBSET Task, OperatorCreates(t, D) PROVE Creates
    BY <2>1 DEF OperatorCreates, Creates
  <2>2. ASSUME NEW p \in Proc, NEW D \in SUBSET Task, NEW b \in BOOLEAN, WorkerCreates(p, t, D, b)
        PROVE  Creates
    <3> DEFINE w == IF b THEN None ELSE work[p].task
    <3>1. /\ w \in Task \cup {None} /\ AddTask(t, D, w)
          /\ w # None => task[w].status = "running"
      BY <1>1, <2>2 DEF WorkerCreates, TypeOK, WorkRecord, Fenced, LiveLeaseMeansRunning
    <3> HIDE DEF w
    <3>2. QED BY <3>1 DEF Creates
  <2>3. QED BY <1>13, <2>1, <2>2, <1>9, <1>11 DEF TaskStep
<1>14. QED BY <1>2, <1>3, <1>4, <1>5, <1>6, <1>7, <1>8, <1>10, <1>12, <1>13
           DEF Next, TransitionExperiment, ProcStep, ProcLocal, BeginExecution, ReadObjective, Abandon

\* A creation adds one queued task, within the cap.
LEMMA CreationMoves ==
    ASSUME TypeOK, NEW t \in Task, NEW D \in SUBSET Task, NEW w \in Task \cup {None},
           AddTask(t, D, w)
    PROVE  /\ task[t].status = "absent" /\ task'[t].status = "queued" /\ task'[t].parent = w
           /\ \A u \in Task : u # t => task'[u] = task[u]
           /\ lease' = lease /\ work' = work
           /\ Cardinality(Pending) + 1 =< PendingCap
BY DEF AddTask, TypeOK, WithinCaps

\* Every step creates a task or moves each task onward.
LEMMA NextMoves ==
    ASSUME ~Overlap, Exclusive, [Next]_vars
    PROVE  Creates \/ \A u \in Task : Onward(u) /\ Moves(u)
<1>1. CASE UNCHANGED vars
  BY <1>1 DEF vars, Onward, Moves, Stays, Live, Settled
<1>2. QED BY <1>1, StepMoves

\* Whoever ends the running of a task is its one executor, which then forgets what
\* it read, or nobody executes it.
LEMMA RunsUntilLeft ==
    ASSUME ~Overlap, Exclusive, Next, NEW p \in Proc,
           work'[p] = work[p], work[p].phase = "begun", work[p].seen > 0
    PROVE  task'[work[p].task].status = "running"
<1> DEFINE t == work[p].task
<1>1. TypeOK /\ Authority /\ t \in Task /\ task[t].status = "running"
  BY DEF Exclusive, Inv, SeenRuns, Authority
<1>2. \A q \in Proc : work[q].task = t => q = p
  BY <1>1 DEF Exclusive, Alone
<1> HIDE DEF t
<1>3. \A q \in Proc : ~Holds(q, t)
  BY <1>2 DEF Holds, t
<1> DEFINE Stay == task'[t] = task[t] \/ task'[t].status = "running"
<1>4. ASSUME NEW q \in Proc, NEW u \in Task, ProcStep(q, u) PROVE Stay
  <2>1. CASE BeginExecution(q, u) \/ RenewTask(q, u)
    BY <2>1 DEF BeginExecution, RenewTask
  <2>2. CASE \E s \in Terminal : FinishTask(q, u, s)
    BY <1>1, <1>3, <2>2 DEF FinishTask, SetStatus, TypeOK
  <2>3. CASE IssueContinuation(q, u) \/ RequeueSettledTerminal(q, u)
    BY <1>1, <1>3, <2>3 DEF IssueContinuation, RequeueSettledTerminal, SetStatus, TypeOK
  <2>4. QED BY <1>4, <2>1, <2>2, <2>3 DEF ProcStep
<1>5. ASSUME NEW q \in Proc, ProcLocal(q) PROVE Stay
  <2>1. CASE RecoverExpired(q)
    <3>1. q # p
      BY <1>1, <2>1 DEF RecoverExpired, TypeOK, WorkRecord
    <3>2. work[q].task # t /\ work[q].task \in Task
      BY <1>1, <1>2, <2>1, <3>1 DEF RecoverExpired, Authority
    <3>3. QED BY <1>1, <2>1, <3>2 DEF RecoverExpired, SetStatus, TypeOK
  <2>2. CASE AcquireTask(q)
    BY <1>1, <2>2, SetStatusRow DEF AcquireTask, Authority, TaskStatus
  <2>3. CASE DispatchBlocked(q)
    BY <1>1, <2>3 DEF DispatchBlocked, SetStatus, TypeOK, Authority
  <2>4. CASE ReadObjective(q) \/ Abandon(q)
    BY <2>4 DEF ReadObjective, Abandon
  <2>5. QED BY <1>5, <2>1, <2>2, <2>3, <2>4 DEF ProcLocal
<1>6. ASSUME NEW u \in Task, TaskStep(u) PROVE Stay
  <2>1. CASE \/ \E D \in SUBSET Task : OperatorCreates(u, D)
             \/ \E q \in Proc, D \in SUBSET Task, b \in BOOLEAN : WorkerCreates(q, u, D, b)
    BY <1>1, <2>1 DEF OperatorCreates, WorkerCreates, AddTask, TypeOK
  <2>2. CASE AmendObjective(u) \/ RetireQueued(u)
    BY <1>1, <2>2 DEF AmendObjective, RetireQueued, SetStatus, TypeOK
  <2>3. CASE OperatorRetires(u)
    <3>1. u # t
      BY <2>3 DEF OperatorRetires, t
    <3>2. QED BY <1>1, <2>3, <3>1 DEF OperatorRetires, SetStatus, TypeOK
  <2>4. QED BY <1>6, <2>1, <2>2, <2>3 DEF TaskStep
<1>7. Stay
  BY <1>4, <1>5, <1>6 DEF Next, TransitionExperiment, Tick
<1>8. QED BY <1>1, <1>7 DEF t

\* An executor is as it was, forgets its task, begins one that nobody executes,
\* or goes on with the same task and nothing seen.
LEMMA ExecutorMoves ==
    ASSUME ~Overlap, TypeOK, Next, NEW p \in Proc
    PROVE  \/ work'[p] = work[p]
           \/ work'[p].task = None /\ work'[p].phase = "idle"
           \/ /\ work'[p].task = work[p].task
              /\ ~(work'[p].phase = "begun" /\ work'[p].seen > 0)
           \/ /\ \A q \in Proc : work[q].task # work'[p].task
              /\ \A q \in Proc : q # p => work'[q] = work[q]
              /\ work'[p].seen > 0 => task'[work'[p].task].status = "running"
<1> DEFINE Goal == \/ work'[p] = work[p]
                   \/ work'[p].task = None /\ work'[p].phase = "idle"
                   \/ /\ work'[p].task = work[p].task
                      /\ ~(work'[p].phase = "begun" /\ work'[p].seen > 0)
                   \/ /\ \A q \in Proc : work[q].task # work'[p].task
                      /\ \A q \in Proc : q # p => work'[q] = work[q]
                      /\ work'[p].seen > 0 => task'[work'[p].task].status = "running"
<1>1. ASSUME NEW q \in Proc, Forget(q) PROVE Goal
  BY <1>1 DEF Forget, TypeOK, Idle
<1>2. ASSUME NEW q \in Proc, NEW t \in Task, BeginExecution(q, t) PROVE Goal
  BY <1>2 DEF BeginExecution, TypeOK, Idle
<1>3. ASSUME NEW q \in Proc, RecoverExpired(q) PROVE Goal
  BY <1>3 DEF RecoverExpired, TypeOK, WorkRecord
<1>4. ASSUME NEW q \in Proc, AcquireTask(q) \/ ReadObjective(q) PROVE Goal
  BY <1>4 DEF AcquireTask, ReadObjective, TypeOK, WorkRecord
<1>5. ASSUME NEW t \in Task, TaskStep(t) PROVE Goal
  BY <1>5 DEF TaskStep, OperatorCreates, WorkerCreates, AddTask, AmendObjective, RetireQueued,
              OperatorRetires
<1>6. ASSUME NEW q \in Proc, NEW t \in Task, ProcStep(q, t) PROVE Goal
  BY <1>1, <1>2, <1>6 DEF ProcStep, RenewTask, FinishTask, IssueContinuation, RequeueSettledTerminal
<1>7. ASSUME NEW q \in Proc, ProcLocal(q) PROVE Goal
  BY <1>1, <1>3, <1>4, <1>7 DEF ProcLocal, DispatchBlocked, Abandon
<1>8. QED BY <1>5, <1>6, <1>7 DEF Next, TransitionExperiment, Tick

LEMMA ExclusiveKept ==
    ASSUME ~Overlap, Exclusive, [Next]_vars
    PROVE  Exclusive'
<1>1. TypeOK /\ Inv'
  BY NextInv DEF Exclusive, Inv
<1>2. CASE UNCHANGED vars
  BY <1>1, <1>2 DEF vars, Exclusive, Alone, SeenRuns
<1>3. CASE Next
  <2>1. Alone'
    BY <1>1, <1>3, ExecutorMoves DEF Exclusive, Alone
  <2>2. SeenRuns'
    BY <1>1, <1>3, ExecutorMoves, RunsUntilLeft DEF Exclusive, SeenRuns
  <2>3. QED BY <1>1, <2>1, <2>2 DEF Exclusive
<1>4. QED BY <1>2, <1>3
-----------------------------------------------------------------------------
\* Joined work is settled and the open tasks are finitely many, within the cap.
JoinInv ==
    /\ Exclusive
    /\ JoinedWorkSettled
    /\ IsFiniteSet(Pending) /\ PendingWithinCap

LEMMA InitJoin == Init => JoinInv
<1> SUFFICES ASSUME Init PROVE JoinInv
  OBVIOUS
<1>1. Exclusive
  BY InitInv DEF Init, Exclusive, Alone, SeenRuns, Idle
<1>2. JoinedWorkSettled /\ Pending = {}
  BY DEF Init, JoinedWorkSettled, Pending, NoTask
<1>3. QED BY <1>1, <1>2, FS_EmptySet DEF JoinInv, PendingWithinCap

LEMMA JoinKept ==
    ASSUME ~Overlap, JoinInv, [Next]_vars
    PROVE  JoinInv'
<1>1. Exclusive /\ TypeOK /\ Exclusive'
  BY ExclusiveKept DEF JoinInv, Exclusive, Inv
<1>2. CASE Creates
  <2>1. PICK t \in Task, D \in SUBSET Task, w \in Task \cup {None} :
            AddTask(t, D, w) /\ (w # None => task[w].status = "running")
    BY <1>2 DEF Creates
  <2>2. /\ task[t].status = "absent" /\ task'[t].status = "queued" /\ task'[t].parent = w
        /\ \A u \in Task : u # t => task'[u] = task[u]
        /\ Cardinality(Pending) + 1 =< PendingCap
    BY <1>1, <2>1, CreationMoves
  <2>3. JoinedWorkSettled'
    BY <2>1, <2>2 DEF JoinInv, JoinedWorkSettled, Joined, Settled, Terminal
  <2>4. Pending' = Pending \cup {t} /\ t \notin Pending
    BY <2>2 DEF Pending
  <2>5. IsFiniteSet(Pending') /\ Cardinality(Pending') = Cardinality(Pending) + 1
    BY <2>4, FS_AddElement DEF JoinInv
  <2>6. QED BY <1>1, <2>2, <2>3, <2>5 DEF JoinInv, PendingWithinCap
<1>3. CASE \A u \in Task : Onward(u) /\ Moves(u)
  <2>1. JoinedWorkSettled'
    <3>1. \A u \in Task : Joined(u)' = Joined(u)
      BY <1>3 DEF Joined, Onward
    <3>2. QED BY <1>3, <3>1 DEF JoinInv, JoinedWorkSettled, JoinsSettled, Onward, Settled, Joined
  <2>2. ASSUME NEW u \in Pending' PROVE u \in Pending
    BY <1>1, <1>3, <2>2 DEF Pending, Onward, Settled, Terminal, TypeOK, TaskRecord, TaskStatus
  <2>3. Pending' \subseteq Pending /\ IsFiniteSet(Pending)
    BY <2>2 DEF JoinInv
  <2>4. IsFiniteSet(Pending') /\ Cardinality(Pending') =< Cardinality(Pending)
    BY <2>3, FS_Subset
  <2>5. Cardinality(Pending) \in Nat /\ Cardinality(Pending') \in Nat
    BY <2>3, <2>4, FS_CardinalityType
  <2>6. QED BY <1>1, <2>1, <2>4, <2>5 DEF JoinInv, PendingWithinCap
<1>4. QED BY <1>1, <1>2, <1>3, NextMoves

\* Joined work and dependencies: where a task has one executor at a time, it runs
\* after its dependencies, completes after its joined work, and the open tasks stay
\* within the cap of create_task.
THEOREM JoinSafety == ~Overlap => (Spec => []JoinsSound)
<1> SUFFICES ASSUME ~Overlap PROVE Spec => []JoinsSound
  OBVIOUS
<1>1. JoinInv => JoinsSound
  BY DEF JoinInv, Exclusive, Inv, JoinsSound
<1>2. JoinInv /\ [Next]_vars => JoinInv'
  BY JoinKept
<1>3. QED BY <1>1, <1>2, InitJoin, PTL DEF Spec

\* The task and lease rows implement fenced ownership: whatever commands, crashes
\* and expiries do, authority over a task comes in successive epochs and an ended
\* task is never granted again.
THEOREM LeasesImplementOwnership == ~Overlap => (Spec => ImplementsFencedOwnership)
<1> SUFFICES ASSUME ~Overlap PROVE Spec => ImplementsFencedOwnership
  OBVIOUS
<1>1. Init => Owned!Init
  <2> SUFFICES ASSUME Init PROVE Owned!Init
    OBVIOUS
  <2>1. \A t \in Task : lease[t].fence = 0 /\ Live(t) = FALSE /\ Settled(t) = FALSE
    BY DEF Init, NoTask, Live, Settled, Terminal
  <2>2. QED BY <2>1, Zenon DEF Owned!Init
<1>2. ASSUME Exclusive, [Next]_vars
      PROVE  [Owned!Next]_<<[t \in Task |-> lease[t].fence], [t \in Task |-> Live(t)],
                            [t \in Task |-> Settled(t)]>>
  <2>1. ASSUME NEW u \in Task, Moves(u)
        PROVE  Owned!Keep(u) \/ Owned!Grant(u) \/ Owned!Lapse(u) \/ Owned!Close(u)
    <3>1. Stays(u) => Owned!Keep(u)
      BY Zenon DEF Stays, Owned!Keep
    <3>2. Grants(u) => Owned!Grant(u)
      BY Zenon DEF Grants, Owned!Grant
    <3>3. Lapses(u) => Owned!Lapse(u)
      BY Zenon DEF Lapses, Owned!Lapse
    <3>4. Closes(u) => Owned!Close(u)
      BY Zenon DEF Closes, Owned!Close
    <3>5. QED BY <2>1, <3>1, <3>2, <3>3, <3>4 DEF Moves
  <2>2. CASE Creates
    <3>1. PICK t \in Task, D \in SUBSET Task, w \in Task \cup {None} : AddTask(t, D, w)
      BY <2>2 DEF Creates
    <3>2. /\ task[t].status = "absent" /\ task'[t].status = "queued"
          /\ \A u \in Task : u # t => task'[u] = task[u]
          /\ lease' = lease
      BY <1>2, <3>1, CreationMoves DEF Exclusive, Inv
    <3>3. ASSUME NEW u \in Task PROVE Stays(u)
      BY <3>2 DEF Stays, Live, Settled, Terminal
    <3>4. QED BY <2>1, <3>3 DEF Moves, Owned!Next
  <2>3. CASE \A u \in Task : Moves(u)
    BY <2>1, <2>3 DEF Owned!Next
  <2>4. QED BY <1>2, <2>2, <2>3, NextMoves
<1>3. Init => Exclusive
  BY InitJoin DEF JoinInv
<1>4. Exclusive /\ [Next]_vars => Exclusive'
  BY ExclusiveKept
<1>5. QED BY <1>1, <1>2, <1>3, <1>4, PTL DEF Spec, ImplementsFencedOwnership, Owned!Spec
=============================================================================
