# PhysHarness: a TLA+ model of the research harness

PhysHarness (`src/src/physharness`) runs long research experiments on formal
targets: model-driven workers investigate a target under a budget, delegate work
to each other, use virtual machines, discuss, and submit proofs that an
independent checker accepts. All durable state is in one SQL database. Every
service command is one serialised transaction (`storage.Database.transaction`:
`BEGIN IMMEDIATE` on SQLite, row locks on PostgreSQL) with an idempotency key
(`HarnessService._execute`). Everything hard happens *between* transactions:
several executor processes, dispatchers, Temporal workflows and verifiers read,
compute for minutes, and then act on what they read.

## Inventory

| Component | State | Operations | Hard behaviour | Module |
|---|---|---|---|---|
| Experiments, outbox, delivery, workflows (`service.py`, `orchestration/outbox.py`, `temporal_delivery.py`, `workflows.py`) | status, `OutboxRow`, Temporal workflows | transition, claim, deliver, acknowledge, seed | commands reach Temporal late, twice and out of order | `Dispatch` |
| Tasks and leases (`collaboration.py`, `workforce.py`) | task records, `LeaseRow` | create, amend, acquire, renew, finish, retire | two live executors of one task; stale reads; joins and dependencies | `TaskLeases` |
| Continuations (`continuation.py`, `continuation_lineage.py`, `research_worker.py`) | sessions, handoffs, tickets, executor's plan | start, recover, hand off, issue, consume, finish | crashes between the steps of a handoff; plans made before the lease | `Continuations` |
| Waits and the team runner (`continuation.py`, `research_worker.py`) | event waits, anchors, idle decision | park, wake, supervise | an event between the last look and the parking | `TeamRun` |
| Token governor (`execution/admission.py`) | bucket, waiters, rate cuts | admit, settle, release, throttle | cancellation while granted; starvation | `Governor` |
| Ledger (`service.py`, broker) | `BudgetRow`, `ReservationRow` | reserve, settle, release | running totals adjusted by many commands | `Ledger` |
| Workspace broker (`orchestration/workspaces.py`) | workspace and operation records | provision, run, export, destroy | provider calls outside the transaction | `Workspaces` |
| Providers (`execution/local_docker.py`, `e2b.py`) | containers, native journal | start, command, export, restore, kill | shared host, lost answers, cancellation | `Workbench`, `E2BProvider`, `WorkspaceExport` |
| Verification boundary (`verification/*`) | bundle, checker container, result | stage, run, inspect, clean up, qualify | files replaced, checker killed, cleanup fails | `Verifier`, `Qualification` |
| Acceptance (`acceptance.py`, `service.review_problem`) | reviews, receipts, claims, goal | review, submit, process | the target is reviewed during a check | `Acceptance` |
| Commons (`commons*.py`) | nodes, statements, sources, claims, reviews | post, restate, claim, check, publish, review, close | a check outlives what it read | `Commons`, `Reviews` |
| Workforce (`workforce.py`) | policy, profiles, teams, registry, watermark | admit, publish, join, register, schedule | paging while others write; watermarks | `Directory`, `Synthesis`, `TaskLeases` |
| Recruiting (`orchestration/society_tools.py`) | scoped recruits | recruit, deliver, end | the statement changes under the recruit | `Recruiting` |
| Discussion (`discussion.py`) | posts, subscriptions, cursors, deliveries | post, subscribe, fetch, save, acknowledge | cursor against late, skipped and withdrawn items | `Inbox` |
| Memory and checkpoints (`memory.py`, `execution/checkpoint_chunks.py`) | notes, context checkpoints, chunks | note, page, save, load | fence lost in between; replayed saves | `PortableMemory`, `CheckpointStore` |
| Runtime (`execution/responses.py`) | turns, tool journal, archives | send, call, compact, archive, resume | crash between a call and its result | `Continuations`, `Transcript` |
| Lean session (`lean_session.py`, `lean_session_daemon.py`) | REPL, cached environments, request files | check, reset, restart | late replies, stale environment numbers | `LeanSession`, `LeanHost` |
| Literature (`knowledge/literature.py`) | learned identifiers, host buckets | search, fetch, screen, wait, retry | concurrent screens; shared limiter | `Literature`, `HostLimiter` |
| Records and run control (`service.py`, `run_control.py`) | records, idempotency keys | list, decide, prepare | paging under writes; retried preparation | `Records`, `Preparation` |
| API, CLI, MCP, research network tools; science, learning, evaluation | none that interleaves | parsing, formatting, numerics | - | - |

What makes them correct, in a sentence each: only one executor of a task can
write at a time, and joined, dependent and capped work is respected (tasks); no
request of a chain is sent twice and a handed-off session gets its successor
(continuations); nothing that should wake a parked builder is missed (team); the
rate limit holds and nobody starves (governor); no cent, token or worker is lost
or counted twice, but for one order of commands, and no limit is passed (ledger); an acknowledged command took
effect, once (delivery); a VM that runs is counted, a command runs once, and
nothing is destroyed unsaved (broker, providers); a positive verdict rests on a
check that ran to its end on the pinned inputs (boundary, qualification); a
proof counts exactly when the ruling review approves its target (acceptance); a
complete source still compiles with what it imports (commons); a branch misses
nothing it was owed, and what is acknowledged was saved first (inbox); every
answer of the Lean daemon belongs to the request it is given to (Lean session).

## Modules

A module models one component: its state as variables, one action per command,
handler or step between two awaits. `FencedOwnership` is the abstract
specification that `TaskLeases` implements. `*Proofs` modules extend the module
of their component and hold theorems. `MC*` modules only combine components and
give constants.

Definitions marked `mutant` are wrong variants of the definition that follows
them, as a plausible bug would make it. `PROJECT.json` names, for every property,
the mutant that TLC must find violating it, and, for every definition, the lines
it models.

### TaskLeases

State: `exp` (experiment status), `task` (task record: status, objective version,
dependencies, `reply_to_parent_task_id` as `parent` with the chain of its
joiners as `lineage`, terminal recoveries), `lease` (holder, fence, time left to
`expires_at`), `work` (what each executor process holds in memory).

| Action | Code |
|---|---|
| `OperatorCreates`, `WorkerCreates` | `create_task`, by an operator or by a model tool under `worker_effects` |
| `AmendObjective` | `amend_queued_task_objective` |
| `BeginExecution`, `ReadObjective`, `Abandon` | `ResearchTaskExecutor.execute`: its first read, the prompt, any way it dies |
| `AcquireTask`, `RenewTask`, `FinishTask` | `acquire_task`, `renew_task`, `finish_task` |
| `IssueContinuation`, `RecoverExpired`, `RequeueSettledTerminal` | `issue_continuation` with a live or an expired lease, `restore_unstarted_continuation`, `requeue_settled_terminal` |
| `RetireQueued`, `OperatorRetires`, `DispatchBlocked` | `retire_queued_after_verified`, `retire_failed_local_workspace`, `run_research_task` |
| `Tick` | time passes |

The recovery commands also check sessions, handoffs and VMs; this module leaves
those checks open, so a recovery may happen in more states than in the code
(that only strengthens the safety results). The one such fact that matters is
kept as a guard: a completed task has no handed-off session. Executors present
a fresh holder name each; the runs give both the *same* name, so that the fence
alone has to separate them.

### Continuations

State: `task` (status, holder, intent, counts of tickets), `lease`, `session`
(status and saved marks of each session), `link` (continuation tickets), `bill`
(reservations of the requests), `exec` (each executor: its step, its plan, the
state it holds in memory), `sent` (history: how often each request went out),
`chainFaults`.

| Action | Code |
|---|---|
| `ReadTask`, `Plan` (with `Decision`), `Restore`, `Reissue` | `execute` before the lease: read the task and sessions, decide the plan, `restore_unstarted_continuation`, `issue_continuation` |
| `Acquire`, `Consume`, `Begin`, `RecoverTerminal`, `ResumeRun`, `FinishRecovered` | the lease, `consume_continuation`, and how the runtime enters the session |
| `Mark`, `Reserve`, `SendGeneration`, `ReceiveAnswer`, `Pay`, `Refuse`, `CallTool`, `ToolDone`, `AnswerRequest`, `NextTurn` | the loop of `ResponsesRuntime` with its reservation and its marks |
| `RequestHandoff`, `AskHandoff`, `HandOff`, `IssueTicket`, `Finish` | `request_handoff`, the boundary hook, `issue_continuation`, `finish_task` |
| `SaveSession`, `ExecutorDies`, lease expiry | `publish` under the fence, death at any step, time |

A plan is made from reads before the lease and only the task is read again under
it, as in the code. Neither `CanRestore` nor `CanIssue` looks at the task's status: an
executor with an older read queues a blocked task again and its chain goes on
(`chainFaults` counts these revivals). With one executor at a time the stronger `LoneChainSound`
holds; with two, `CompletedChainValid` fails (run `stale_completion`).

### TeamRun and Governor

`TeamRun`: `news` (events in sequence order), `builder` (status, phase, anchor,
what it watches), `told` (what its requests showed), `team` (the supervisor's
pass). `Request`, `CaptureView`, the tool calls and `RequestEventWait` follow `anchor_request`,
`event_anchor`, `request_event_wait`; the supervisor's passes follow
`ResearchTeamRunner.run`. Another supervisor's deadline may wake a builder after
an idle stop: that wake is not an event and is excepted from
`IdleStopMissedNothing`. `Governor`: `level`, `ceiling` (history: what the bucket
was given less what was granted and not returned), the queue, each request's
phase; `_pump` is split at each grant.

### Ledger

State: `open`, `overrun`, `budget` (reserved and spent money and tokens, active
workers) and `res` (reservations, with the state of the VM a reservation pays
for). Every transaction of the system that touches `BudgetRow` or
`ReservationRow` is an action; their different treatment of `workers` (some
clear the reservation's field, some do not) is kept. Provider prices are the
set `Charge`; a provider's own invoice at destruction is the zero or the unknown
one, any other is settled later by `Settle`. An operator may settle any
unsettled reservation, also while its VM is being provisioned; `ProvisionRejected` reads
no reservation state, and `again` (history) records what it then releases once more.

### Dispatch

State: `experiment`, `outbox`, `call` (delivery attempts in flight), `wf` (the
Temporal workflow: status, queued signals, received commands, current activity
attempt), `activity` (running executions of `apply_experiment_command`, late ones
included), `branches`, `tasks`, `faults`. Temporal is external, modelled from its
use: a workflow identity starts once, signals are received in order, an activity
is retried after an error or a timeout, at most `ActivityAttempts` times. Faults
(dispatcher crash, lost answer, stalled dispatcher, activity timeout) may happen
anywhere, `MaxFaults` times.

### Acceptance

State: `reviews` (decisions, the last one rules), `receipt`, `claims`, `goal`,
`command` (idempotency keys), `check` (what each processor holds in memory).
A receipt remembers the review it was submitted under; `process_verification`
is split at its reads: receipt, problem, verifier, commit. The verifier may
answer anything `VerificationOutcome` admits, also about other evidence. What a
receipt pins besides the review is immutable and left out, as are receipts
without pins, which only become blocked.

### Inbox

State: `event` (posts and messages, open until their transaction commits),
`revoked` (sources the branch may not read now), `sub` (subscriptions), `reader`
(cursor and outstanding delivery), `delivery` (delivery records), `leaseholder` (the
session whose lease is live), `run` and `checkpoint` (where each session stands
in `_receive_updates`, and what it has saved). `due` is a history variable: what
was committed to the branch while it was following.

| Action | Code |
|---|---|
| `InsertEvent`, `CommitEvent`, `Rollback` | `_insert_post`, `_deliver_message` and the end of their transaction |
| `ChangeAccess` | whatever changes the answer of `_source_accessible` |
| `Subscribe`, `Unsubscribe`, `AutoSubscribe` | `subscribe_discussion`, `_auto_subscribe` with `_release_evictable_thread` |
| `Redeliver`, `Deliver` | `discussion_updates`, with and without an outstanding delivery |
| `Save` | `_receive_updates`: fingerprint and `_save` |
| `CheckAck`, `Acknowledge` | the two transactions of `acknowledge_discussion_updates` |
| `Start`, `Die` | a session takes the lease (resuming any earlier checkpoint, or none); it ends anywhere |

Whether a post is one that push skips (the reader's own, a platform status that
is not urgent) is decided at posting. The byte limit of a batch may bind before
any item but the first, as the excerpt bound guarantees. The model's own update tools
and the limit of 128 remembered fingerprints are left out.

### Workspaces

State: the ledger's variables (`L` is an instance of `Ledger`, with a slot and a
VM reservation per execution), `lease`, `bound` (the task's `worker_slot_id`),
`phase` (where each execution stands in `execute`), `ws` and `op` (workspace and
operation records), `call` (the awaited provider call), `vm` (the VM itself).
`dirty` and `dispatched` are history variables. One execution has one workspace:
its provision operation is named after its holder.

| Action | Code |
|---|---|
| `ReserveSlot`, `Acquire`, `AcquireRefused`, `BindSlot`, `EndsEarly` | the beginning of `execute` |
| `BeginClose`, `EndClose`, `ReleaseLease`, `ReadUnresolved`, `SettleSlot` | its end: `cleanup`, `WorkspaceTools.close`, `finish_task`, the `finally` block |
| `ProvisionStart`, `ProvisionDone`, `ProvisionRejected`, `ProvisionFailed` | `provision`, before and after the provider's `create` |
| `Start`, `Retain` | `_start`, `_retain_without_authority` |
| `Answered`, `Destroyed`, `FailedAndGone`, `Interrupted` | the outcomes `_perform` tells apart |
| `ReconcileSlot`, `OperatorSettles`, `Retire` | `reconcile_orphan_worker_slot`, `settle_resources`, `retire_failed_local_workspace` |
| `VMCreated`, `OperatorDestroys` | external: the provider, an operator's evidence is true |
| `LeaseExpires`, `SetOpen`, `Crash` | time, `transition_experiment`, death of the process |

Every write to a reservation is an action of `Ledger`, so what is proved of the
ledger holds here. `Uncertain` may also record nothing (the database refuses).
A command is assumed to change files as soon as it is dispatched. Left out: the
remote provider, which has no final checkpoint and whose VM stays ready when the
lease is lost before its teardown (`destroy` without a final checkpoint), its
native journal, and slots settled by hand.

Noticed on the way, without a run: the record of a provision rejected for capacity
has no `message`, which `_prior` reads when the provision is retried.

### Providers and the boundary

- `E2BProvider`: one remote VM, calls interleaved at their awaits, a durable
  journal of native operations; a cancelled or timed-out call quarantines the VM.
  `capture_file` reads without the exclusive lock, as in the code.
- `Workbench`: processes of one host under a file lock; `docker run` may take
  effect after its client gave up.
- `WorkspaceExport`: the listing, chunk reads and second listing of an export while
  guest processes write, remove and move; the restore into another VM. A listing reads
  the names of `/work`, hashes its files one at a time, and only then reads the names in
  the next folder, as `os.walk` does. Folder 0 is `/work` itself, file `p` is in folder
  `p \div Width`, and moving a folder keeps the stamps of its files. Folders in folders,
  hard links, excluded paths and the legacy export (version 2) are not modelled.
- `Verifier`: request checks, staged bundle, slot, container, inspection, removal;
  each may fail, time out, or be interrupted by the death of the checker.
- `Qualification`: reads the scope and each report by digest, then all again. A
  file that is replaced and put back between the two reads stays undetected.

### Society

- `Commons`: what `lean_check` reads in several steps, `record_lean_source` with
  its rank rule, links, claims, restatement. What is reachable along imports and
  links is stated as the least set that they do not leave.
- `Reviews`: panels per text version, referees of distinct model families.
- `Synthesis`: posts with their sequence numbers and commits, the watermark, the
  reservoir sample, the locks the scheduler takes.
- `Recruiting`: the steps of the recruit tool and what ends a scoped recruit. The
  objective quotes the statement read before the transaction while the scope
  binds the one inside it; only the scope decides.
- `Directory`: profiles and teams as appended records, pages in the order of
  random identifiers, the registry replaced under its revision.

### Sessions

- `CheckpointStore`: chunks are stored, then one transaction inserts rows and
  moves the pointer; each execution caches the rows it knows.
- `PortableMemory`: notes and context checkpoints under a fence, at read-committed
  isolation; the pages of obligations. Record ids are numbers after 0, which stands
  for the cursor of the first page.
- `Transcript`: stored outputs, stubs, archives, pruning at a compaction item. The
  provider gives each call an id of its own: a response never repeats the id of a call
  that ran, that has a page, or that is still in the input. The items of a response
  are bounded by `MaxItems`.
- `LeanSession`: daemon, REPL and pipe, with deadlines and crashes. The `tactics`
  operation, which no host code sends, is left out.
- `LeanHost`: how the host turns replies into verdicts. A one-shot run may be cut at
  `max_output_bytes` or killed: then only its first errors are there, and a status other
  than 0 makes an error without a line only when none is. `verify_statement` and the
  sketch of goals are not modelled. `_start_server` has a start race between two
  checks of one workspace that only costs a second upload.

### Evidence and records

- `Literature`: `_screen` and `_learn` split at their reads of the shared set. A text
  that names a work which the same search withholds is released, as in the code; one
  that names a work withheld earlier is not. The run leaves the policy's own entries
  empty; the theorem covers any.
- `HostLimiter`: the lock and bucket per host, retries and redirects.
- `Records`: keyset pages over rows a reader may not see, decisions on targets.
- `Preparation`: the commands of `prepare-run` under keys made from the run id.

## Runs

A run checks several components side by side: its MC module has one variable
`part` that chooses the component which moves, while the others stay in one of
their initial states. The state space is the sum, not the product, of the
components', every component's property is an invariant of the whole, and a
symmetry permutes sets of components that share none. `Workspaces` composes
`Ledger` by INSTANCE, because there the interaction is the point.

| Run | Instance | Shows |
|---|---|---|
| `running` | 2 tasks, 2 overlapping executors of one holder name, TTL 2, 2 leases, 1 amendment, 1 recovery; 2 preparers of 2 plans; 3 records, 2 branches, page 1, scan 2 | `LeasesSound`, `PreparationSound`, `ListingsSound` |
| `scheduling` | 3 tasks, one execution each, pending cap 2 of 3; 2 dispatchers, 3 commands, 2 models, 1 fault | `JoinsSound`, `DispatchSound`, `ImplementsFencedOwnership` |
| `progress` | 1 dispatcher, 3 commands; 2 builders, one supervised here; 2 requesters; 1 executor, 2 sessions of 2 turns, 2 faults; 1 reader, 2 events | `TeamSound`, `GovernorSound`, `LoneChainSound`, and under fairness `WakesArrive`, `NothingStarves`, `HandoffContinuesUnlessStale`, `WorkflowFollows`, `UpdatesArrive`; steps: `IdleStopMissedNothing`, `NoTokensLost` |
| `work` | 2 executions, 1 worker; 3 files in 3 folders, 1 write, any removals and moves; 2 calls, 2 operations, 2 VMs, 1 crash; 3 benches; 2 checkers | `WorkspacesSound`, `ExportSound`, `ProviderSound`, `BenchSound`, `VerifierSound`, `LostVMNotReused` |
| `society` | 3 nodes, 4 files, 2 branches; 2 reviewed nodes, 4 referees; 4 posts; 2 recruits; 4 profiles, 2 writers | `CommonsSound`, `ProofKeepsItsPlace`, `ReviewsSound`, `SynthesisSound`, `RecruitingSound`, `DirectorySound` |
| `sessions` | 2 executors, 2 sessions, 1 fault; 2 chunks, 4 rows; 2 records, 2 writers; 3 calls, 2 items per response; 3 clients; 2 Lean checks | `ChainSound`, `CheckpointsSound`, `MemorySound`, `TranscriptWhole`, `LeanSessionSound`, `LeanHostSound` |
| `evidence` | 1 receipt, 3 processors, 3 reviews; lists of up to 2 reports; 2 reservations, limits 1; 3 calls, 3 copies of a work; 2 fetchers, 2 hosts; 1 topic, 2 sessions | `AcceptanceSound`, `QualificationSound`, `LedgerSound`, `LiteratureSound`, `LimiterSound`, `InboxSound` |
| `task_revival` | 3 tasks, overlapping executions | **violates** `JoinedWorkSettled` |
| `join_deadlock` | 3 tasks, pending cap 3 | **violates** `NoJoinDeadlock` |
| `handoff_stuck` | 1 executor, fair | **violates** `HandoffContinues` |
| `literature_race` | 3 calls, 3 copies | **violates** `ScreenRemembers` |
| `stale_completion` | 2 executors, 1 recovery, 2 faults | **violates** `CompletedChainValid` |

Bounds. Two executors and a second lease are enough for a holder that lost its
lease and its successor; TTL 2 separates a renewed lease from an old one. Three
tasks give a parent, a child and a task both depend on. Three commands contain
start, pause, resume and start, pause, cancel in every delivery order. A third
review after an approval and its withdrawal lets the target be approved *again*,
under a new review. In the inbox a second event is what a cursor can step over,
and a second session resumes or forgets the first one's checkpoint. Two
executions and one worker make a successor wait for, or wrongly take, the slot of
its predecessor. Two sessions make one handoff with its ticket; a second turn is
what a recovery could repeat. Three copies of a work, each sharing an identifier
with the next, are the shortest chain that one pass of a screen does not close.
Two hosts make a redirect cross them. Three benches against a capacity of two
or one are what two simultaneous counts let through. Page 1 and scan 2 make a
page that is full and a scan that finds nothing. A file of `/work` and one in each of two
folders are what a write between two folders of one listing needs, and a folder that is
moved from the part not yet walked to the part already walked. `MaxFence`, `MaxRevisions`,
`MaxReviews`, `MaxEvents`, `MaxCommands`, `MaxNews`, `MaxAge`, `MaxClock`,
`MaxRows`, `MaxEnvs`, `MaxWrites`, `MaxRestores` and the `Max...Faults`, `...Crashes`, `...Deaths`,
`...Losses` bounds cap counters in guards. The limits of the code (20 claims, 5
attempts, 3 recoveries, 12 teams, 200 records) are constants, shrunk so that they
are reached. For `TaskLeases`, `Dispatch`, `TeamRun`, `Continuations`,
`Governor`, `CheckpointStore`, `Inbox`, `Workbench`, `E2BProvider`, `Workspaces`,
`WorkspaceExport`, `Verifier`, `Ledger`, `HostLimiter`, `Literature`, `Acceptance`,
`Preparation`, `Records`, `Qualification`, `LeanHost`, `LeanSession`,
`PortableMemory`, `Transcript`, `Commons`, `Reviews`, `Recruiting`, `Directory` and
`Synthesis` theorems state
the safety properties for every value of the constants. All runs may stop (an
experiment stays cancelled,
all bounds are reached), so deadlock is not checked.

Symmetry is used in safety runs only, over sets whose members no definition or
constant tells apart.

Fairness (`progress`), per component. *Dispatch*: `worker.main` polls the outbox
for ever and Temporal runs workflows and retries activities, so claims,
deliveries and the current activity attempt are weakly fair, as is time; nothing
obliges a user to transition the experiment, an abandoned attempt to continue, or
a fault to happen. *Inbox*: a running session calls `_receive_updates` before
every generation; nothing obliges a session to start or to stay alive.
*TeamRun*: the supervisor's loop runs until it stops; builders owe nothing.
*Governor*: the event loop runs what is ready, time passes, and an admitted
request ends; `MaxAge` is the age at which aging has overtaken every priority.
*Continuations*: an executor that is alive takes its next step, a dead one is
replaced (the dispatcher retries the task), leases expire; deaths are bounded by
`MaxChainFaults`. No fairness is assumed of failures.

### Findings

- `task_revival`: `restore_unstarted_continuation` and `issue_continuation`
  (`recover_expired`) compare the expired lease's holder and fence with what the
  executor read, not the task's status. If the owner finished the task as
  `blocked` meanwhile, the lease row still matches, and the task is queued
  again, even after a parent that joined it completed. It needs two executions
  of one task at once (an activity retry beside an attempt that is still alive).
- `join_deadlock`: `create_task` refuses a joined task that depends *directly*
  on an ancestor. A joined task that depends on a detached task which depends
  on the ancestor is admitted, and parent and child wait for each other.
- `handoff_stuck`: a handoff intent is authorized under one holder and fence. If
  that executor dies after its session was saved as handed off by the automatic
  boundary, every later executor that reissues the ticket is refused with
  `HANDOFF_INTENT_MISMATCH`, and nothing clears the intent. In every other case
  the handoff continues (`HandoffContinuesUnlessStale`).
- `literature_race`: two calls inside `_learn` at once each replace the shared
  set; the later assignment drops what the earlier one learned. It needs a caller that
  searches concurrently, which `_learn` provides for; the Responses runtime does not.
- `stale_completion`: the plan "finish the recovered session" is made before the
  lease and the session is not read again. It takes two executors with stale
  plans: one puts the completed session back to running, the other completes the
  task over it.

Noticed on the way, without a run:

- *A reservation is released twice.* `settle_resources` does not ask whether the VM is
  being provisioned. When an operator settles that reservation and the provider then
  refuses for capacity, `provision` (`workspaces.py` 553-558) takes the worker and the
  money out of the totals once more and sets the recorded charge to 0, without reading
  the reservation's state. `docs/VM_WORKSPACES.md` says "Later invoice settlement cannot
  release capacity twice" of a settlement after the destruction, where it is true, and
  warns at line 140 of operator calls to the ledger only for a slot. `again` records what was
  released twice, and `LedgerSound` says that the totals are wrong by exactly that.
- *A cut-off run passes statements.* `elaborate_statements` says that "a possibly
  truncated error list judges none of them" (`lean_session.py` 897). That holds for the
  list of messages; but `_one_shot` never reads `stdout_truncated`, and adds an error
  without a line only if no error was printed (1249). Statements whose errors lie behind
  the 65536th byte of output, or behind the point where Lean was killed, pass.
  `LeanHostSound` excepts runs whose output was cut; that such a run is still never "ok"
  with an error in its source is part of it.
- *A checkpoint need not be a state of the workspace.* The two listings of an export can
  agree on files that never stood beside what they leave out: two files that come and
  go, each while its own folder is not being read, are missing together although one of
  them was always there; and a folder moved at the right moment puts files together that
  never were. `docs/VM_WORKSPACES.md` line 49 says, of the remote provider's
  export, that "background processes can change files during traversal". What does hold
  is `CheckpointWasThere`: each name on its own, and all files together unless a folder
  moved.

Smaller ones: the record of a provision rejected for
capacity has no `message`, which `_prior` reads when the provision is retried.
And a verified node can go stale although no module it imports changed since it
was published: `blocking_rank` lets the publisher and the author replace a verified
source with a verified one, and the replacing check may have begun earlier, on
modules that were replaced before it records. `ProofKeepsItsPlace` is stated
accordingly.

## Proofs

All theorems hold for every value of the constants under the assumptions declared
with them: numbers are natural, limits the code divides or counts by are
positive, sentinels lie outside the sets they extend. The argument has the same
shape everywhere: an inductive invariant, one lemma per action, one step per
conjunct that the action can disturb, and general lemmas about a step ("only
this record changes") that the actions instantiate. TLC checked each inductive
invariant as an invariant of a run before it was proved.

- `TaskLeasesProofs`, `LeaseSafety`. `MutualExclusion` is not inductive: nothing
  in it says that a worker's fence was granted to nobody else. The invariant adds
  `Authority` (a worker's fence is at most the lease's), `UniqueFence` (no two
  workers of a task have one fence), `LeasedExists` and, with them,
  `LiveLeaseMeansRunning`, `ObjectiveFrozen` and `DependenciesFirst`. Nothing is
  assumed of holder names.
- `JoinSafety` and `LeasesImplementOwnership` assume `~Overlap`: one execution of a
  task at a time. That is what the deployment promises (one dispatcher, one
  activity attempt); without it `JoinedWorkSettled` is false, as run
  `task_revival` shows. The invariant (`Exclusive`) adds that an executor works alone
  on its task and that a task it saw running still runs under the fence it read
  until it decides otherwise, so that a recovery never acts on a row that its
  owner finished meanwhile.
- `OrchestrationProofs`. `DispatchInv` adds what a dispatcher that called Temporal
  knows (`SuccessTookEffect`), that a workflow that was not started received
  nothing (`NothingBefore`), and that a seeding attempt past the branches has
  them all (`BranchesPassed`). `TeamInv` adds that a builder has the views its
  phase needs, within the log (`Anchored`); that an anchor covers only what a
  request could show (`AnchorsKnown`), so that nothing falls between the last
  request and the wait; that a look which found nothing stays right about the
  events up to its head, although the builder may wake, see more and park again
  meanwhile (`LooksHold`); and that from the supervisor's first idle finding to its
  confirmation its own builders stand still and all others were found waiting
  (`PassHolds`).
- `ContinuationsProofs`, `ChainSafety`. Neither half of `ChainSound` is inductive.
  `Fences` orders the executors; `Current` says that only the one with the newest
  fence agrees with the saved session; `AboutToSend` what a stale executor past
  its last check may still do, since the request to the provider checks no fence;
  `SentOnce` which turns a recovery may still find unsent (the mark saved before a
  request is what keeps it away); `InOrder` and `LinksInOrder` that sessions and
  tickets are numbered along the chain and only the last ticket is open. None of it
  looks at whether the task has ended, so it also covers chains that a stale executor
  revives.
  `LoneChainSafety` assumes one executor (`Lone`) and adds that what it read or
  planned before the lease still holds while the task has not ended (`Knows`), and that
  without a ready ticket the last one is the one that was consumed (`Booked`). With two
  executors `Knows` fails, and so does the property (run `stale_completion`).
- `RuntimeProofs`. `GovernorSafety` and `TokensKept` follow from the account of
  tokens in and out. `CheckpointSafety` needs that an execution's cache holds only
  rows that are committed (`CachesResolve`) and that the rows of an
  open transaction are new and each of one save only (`WrittenFresh`). `InboxSafety` needs that
  a prefix of the sequence numbers is in use and only the last event may be
  uncommitted (`LogInOrder`), that a pending batch covers the
  events up to its cursor (`PendingCovers`) and that what a session holds is what
  is stored (`HeldAsStored`). `LeanHostSafety` needs that a report which is no
  failure says what Lean found, apart from the sorry axiom until the axioms are read;
  that of a one-shot run whose output was cut off is known only to show an error if
  there was one (`Faithful`). `LeanSessionSafety` needs that at most one command is outstanding
  (`Outstanding`): it waits, or the pipe holds its refusal or the newest environment of
  exactly the text it asks for, so that no reply is read for another request, and
  an error that leaves a reply behind resets the process (`ServiceFails`). `MemorySafety`
  needs that a draft was read at one moment under a fence no later than the task's
  (`DraftsOK`), and that a walk owes only records that are open and come after its
  cursor (`WalkOK`); lemmas say what a page of the first records cuts off. `TranscriptSafety`
  describes the input during a turn as one that was balanced, the response behind it, and
  one output for each of its calls answered so far (`Grown`). From that it follows
  that the place where pruning cuts lies in the response and before its first call, so
  that no output loses its call (`KeepsTheCalls`). What a crash restores is covered by
  what a saved copy promises (`Restorable`), and an output shown in full that becomes a
  stub has a stored result because only pages and results age (`Recallable`).
- `ComputeProofs`. `BenchSafety` needs that a process lists and starts containers only
  under the host's file lock and with room for one more (`LockedRoom`). `ProviderSafety` needs that calls are exclusive except
  `capture_file` (`OneAtATime`), what an operation may observe of its VM
  (`Observes`), and that a VM that was lost track of is quarantined
  (`LostQuarantined`). `WorkspacesSafety` needs that the experiment's active workers
  are exactly the held slots and these within the limit (`SlotsCounted`; that only
  finitely many slots are held is part of the invariant, not assumed of the
  executions), and one description of what an execution may look like at each
  point (`StageOf`): which records exist, which call it awaits, when files are
  archived and what it leaves behind. `ExportSafety` rests on a stamp being given out
  once: a file that has the stamp of the first listing, now or when the second came to
  it, was there when the second began (`Held`), which makes that state the witness
  for all files together. For names that are absent there is a witness each: a name
  of a folder already walked was listed, or left out, as it was at one moment
  (`Walking`). `VerifierSafety` needs one description per
  step of what request, result, container and comparator a checker process holds
  (`CheckerStage`).
- `LimitProofs`. `BooksBalance` is stated with cardinalities of sets of units, so
  that the sums need no recursion; lemmas say how such a sum changes when one
  reservation does. Each unit is either in a total, or in what `again` says a rejected
  provision took out of it a second time; `again` is written at most once, since the
  rejection destroys the VM. It assumes that the set of reservations is finite. The other
  results use the balance to know that no total is negative. `LimiterSafety` needs
  that a call past the lock holds its host's slot (`SlotHeld`). `LiteratureSafety`
  needs that the set computed by `_screen` is closed under sharing an identifier
  (`TaintedClosed`: the loop is stated as the least set at which it stops, so no
  induction is needed), and what calls that were inside `_learn` one after the other leave
  behind (`LearnedInTurn`): what finished screens withheld is learned and in the
  compiled pattern.
- `EvidenceProofs`. `PreparationSafety` needs that every command before the one a
  process issues next is recorded with what that process read (`PreparerStage`),
  that the manifest agrees with the other commands (`ManifestAgrees`), and that a
  preflight under way has seen every approval since it began (`LauncherStage`).
  `RecordsSafety` needs that a record carries its author's branch (`Attributed`) and
  that a scan has listed what its agent could read throughout, up to its position
  (`ScanCovers`); two lemmas about least and greatest numbers say what a page cuts
  off. It assumes that the set of record ids is finite. `QualificationSafety` rests on what is
  known while every check so far observed what it expects (`Found`): the
  reports assessed are valid, in the modes observed, and share neither run nor
  container (`ReportsApart`). `AcceptanceSafety`: the
  invariant adds what a processor in each phase may
  rely on: its receipt was submitted (`Assigned`), an outcome that verifies
  was reached under an approval of the receipt's own review (`Vetted`), reviews
  already given do not change (`Pinned`), and a receipt not closed has no claim
  (`Unproved`). Action properties follow from the same invariant.
- `SocietyProofs`. `CommonsSafety` rests on what a check knows of its own reads
  (`Traced`): the modules inlined and those still to read are the least set that its
  file leads to along the files *as they were read*, each at another time. A source
  keeps that trace, so while each of those files is still its node's
  (`source_state`), it is the closure along the sources stored now. A new edge from a
  node to nodes that do not lead back to it closes no circle (`AcyclicAdd`).
  `ProofPlace` needs in addition that a verified source was checked against a
  statement (`Justified`). `ReviewsSafety` needs that of the nodes with one text only
  one was ever refereed (`EarlierClosed`), that the one referee at work leaves room
  for either verdict (`PanelWithin`) and is of a family that judged least
  (`JudgedEvenly`). `RecruitingSafety` needs that a source stored for a statement was
  proved (`SourcesProved`), what each recruit's scope may claim (`ServesScope`), and
  that the reserved budget is that of the tasks at work (`Reserved`). `DirectorySafety`
  needs that a reader was shown or will still reach each profile that stood
  since it began (`BrowseCovers`); it assumes that the set of profile ids is finite.
  `SynthesisSafety` says that the syntheses cover the eligible posts up to some place
  and the pending sample those from there to the watermark (`AccountedFrom`), and that
  only the last post can be open (`OnlyLastOpen`), so that nothing commits behind the
  watermark. The total over the syntheses and the sample after a batch are recursive
  functions along an interval. The library's induction theorems take an operator and
  cannot be used, so lemmas about sets of numbers take their place: a least place
  where a set along an interval breaks off cannot exist (`AlongInterval`), hence a
  walk along it exists (`WalkExists`) and is the function that the model defines.

Only model-checked: every property under fairness (`WakesArrive`, `NothingStarves`,
`HandoffContinuesUnlessStale`, `WorkflowFollows`, `UpdatesArrive`), since neither
liveness nor ENABLED is in reach of the prover; and the five violations, which are
traces.

## Not modelled

Pure I/O and text (API, CLI, MCP, console, SDK bindings, containers, prompts),
sequential data processing (science, learning, evaluation), and the Lean
kernels. `PROJECT.json` lists every component with the reason. VMs are assumed
honest: what a guest answers is what happened in it. Staffing proposals, role
approvals, browsing and citations are rows that nothing else reads.

## Plan

Every safety invariant and action property that a run checks is proved. Theorems
worth proving next:

1. That an enabled step which fairness counts on stays enabled, stated without ENABLED
   by the guards themselves, for `HandoffContinuesUnlessStale` and `WakesArrive`: the
   step of the argument for these two properties that is safety.
