------------------------------ MODULE TeamRun ------------------------------
(***************************************************************************)
(* A society of builders and the supervisor that runs them.  A builder     *)
(* works in requests and tool calls, commits events that others may wait   *)
(* for, and may park itself on an event wait; the supervisor               *)
(* (ResearchTeamRunner.run) starts tasks, checks parked waits only when    *)
(* the event head moved, and stops when the whole society is idle.         *)
(*                                                                         *)
(* An event wait is anchored at what the last request of the builder could *)
(* show (event_anchor, anchor_request, request_event_wait).  Watched       *)
(* events commit in sequence order: each is written under the experiment's *)
(* row lock.  Builders outside Own belong to another supervisor.  What a   *)
(* continuation is, and how sessions survive a death, is Continuations.    *)
(***************************************************************************)
EXTENDS Naturals, FiniteSets, FiniteSetsExt

CONSTANTS
    Builder,        \* the research tasks of the experiment, one per branch
    Own,            \* the builders that this supervisor selects
    MaxNews,        \* bound: events
    MaxSeen,        \* events a wait may carry as seen (20 in the code)
    MaxConcurrency, \* builders that run at once
    MaxTasks,       \* builders that the supervisor may start
    MaxMishaps      \* bound: deaths of executors and passed deadlines

ASSUME TeamAssumption ==
    /\ Own \subseteq Builder
    /\ {MaxNews, MaxSeen, MaxConcurrency, MaxTasks, MaxMishaps} \subseteq Nat

VARIABLES
    news,       \* the events by sequence: who caused it, and whether it is watched
    builder,    \* each builder's task record and session
    told,       \* history: the events that each builder's requests could show
    receipt,    \* whether a verification receipt is queued
    looked,     \* wait_checks: the last check of each parked wait
    team,       \* the supervisor: where it is, the head it read, its idle state
    mishaps     \* deaths and passed deadlines so far

teamVars == <<news, builder, told, receipt, looked, team, mishaps>>

Sequences == 0 .. MaxNews
View == [at : Sequences \cup {MaxNews + 1}, seen : SUBSET (1 .. MaxNews)]
\* No anchor: nothing new was captured.
NoView == [at |-> MaxNews + 1, seen |-> {}]

News == [by : Builder \cup {"platform"}, watched : BOOLEAN]
BuilderState == [status : {"queued", "parked", "running", "ended"},
                 phase : {"idle", "start", "answered", "tools"},
                 view : View, anchor : View, asleep : BOOLEAN, late : BOOLEAN]
Look == [head : Sequences, found : {"unknown", "min_sleep", "waiting", "ready"},
         recent : BOOLEAN]
Team == [pc : {"top", "scan", "work", "tasks", "others", "receipts", "stopped"}, head : Sequences,
         busy : SUBSET Own, idle : BOOLEAN, attempted : SUBSET Own,
         stop : {"none", "done", "idle", "task_limit", "pending", "timeout"}]

TeamTypeOK ==
    /\ \E n \in Sequences : news \in [1 .. n -> News]
    /\ builder \in [Builder -> BuilderState]
    /\ told \in [Builder -> SUBSET (1 .. MaxNews)]
    /\ receipt \in BOOLEAN
    /\ looked \in [Builder -> Look]
    /\ team \in Team
    /\ mishaps \in Nat

Unknown == [head |-> 0, found |-> "unknown", recent |-> FALSE]

TeamInit ==
    /\ news = <<>>
    /\ builder = [b \in Builder |->
            [status |-> "queued", phase |-> "idle", view |-> NoView, anchor |-> NoView,
             asleep |-> FALSE, late |-> FALSE]]
    /\ told = [b \in Builder |-> {}]
    /\ receipt = FALSE
    /\ looked = [b \in Builder |-> Unknown]
    /\ team = [pc |-> "top", head |-> 0, busy |-> {}, idle |-> FALSE, attempted |-> {}, stop |-> "none"]
    /\ mishaps = 0

NewsHead == Cardinality(DOMAIN news)
Now == [at |-> NewsHead, seen |-> {}]
-----------------------------------------------------------------------------
(* Builders. *)

\* _event: one more event, under the experiment lock.
Publish(by, watched) ==
    /\ NewsHead < MaxNews
    /\ news' = [n \in 1 .. NewsHead + 1 |->
                    IF n =< NewsHead THEN news[n] ELSE [by |-> by, watched |-> watched]]

\* anchor_request at generation_started, then the request; a request can show
\* what was captured for it.  Without a capture the last anchor stays.
Request(b) ==
    LET x == builder[b] IN
    /\ x.status = "running" /\ x.phase \in {"start", "tools"}
    /\ IF x.view = NoView
       THEN /\ builder' = [builder EXCEPT ![b].phase = "answered"]
            /\ UNCHANGED told
       ELSE /\ builder' = [builder EXCEPT ![b].phase = "answered",
                                          ![b].anchor = x.view, ![b].view = NoView]
            /\ told' = [told EXCEPT ![b] = @ \cup (1 .. x.view.at) \cup x.view.seen]
    /\ UNCHANGED <<news, receipt, looked, team, mishaps>>

\* The first tool call of a response: capture_view, before it is dispatched.
CaptureView(b) ==
    LET x == builder[b] IN
    /\ x.status = "running" /\ x.phase = "answered"
    /\ builder' = [builder EXCEPT ![b].phase = "tools",
                                  ![b].view = IF x.view = NoView THEN Now ELSE x.view]
    /\ UNCHANGED <<news, told, receipt, looked, team, mishaps>>

\* A tool publishes something that others watch,
Announce(b) ==
    /\ builder[b].status = "running" /\ builder[b].phase = "tools"
    /\ Publish(b, TRUE)
    /\ UNCHANGED <<builder, told, receipt, looked, team, mishaps>>

\* or submits a candidate for verification.
Submit(b) ==
    /\ builder[b].status = "running" /\ builder[b].phase = "tools"
    /\ ~receipt
    /\ receipt' = TRUE
    /\ UNCHANGED <<news, builder, told, looked, team, mishaps>>

FromNow(x) == Now                                                   \* mutant
\* event_after and seen_sequences: the last request's anchor, else now.
WaitAnchor(x) == IF x.anchor = NoView THEN Now ELSE x.anchor

\* request_event_wait; the handoff parks the task with its ticket.
RequestEventWait(b) ==
    LET x == builder[b] IN
    /\ x.status = "running" /\ x.phase = "tools"
    /\ builder' = [builder EXCEPT ![b] =
            [x EXCEPT !.status = "parked", !.phase = "idle", !.view = WaitAnchor(x),
                      !.asleep = TRUE, !.late = FALSE]]
    /\ UNCHANGED <<news, told, receipt, looked, team, mishaps>>

\* finish_task: its event moves the head and is watched by nobody.
EndTask(b) ==
    /\ builder[b].status = "running" /\ builder[b].phase = "tools"
    /\ Publish(b, FALSE)
    /\ builder' = [builder EXCEPT ![b].status = "ended", ![b].phase = "idle",
                                  ![b].view = NoView, ![b].anchor = NoView]
    /\ UNCHANGED <<told, receipt, looked, team, mishaps>>

\* The executor dies and another one resumes the session: it keeps the anchor
\* that was saved with its last request.
DieAndResume(b) ==
    LET x == builder[b] IN
    /\ x.status = "running" /\ mishaps < MaxMishaps
    /\ mishaps' = mishaps + 1
    /\ builder' = [builder EXCEPT ![b].phase = "start",
                        ![b].view = IF x.anchor = NoView THEN Now ELSE x.anchor]
    /\ UNCHANGED <<news, told, receipt, looked, team>>

\* The verifier processes the receipt; the platform announces the node's status.
Verify ==
    /\ receipt
    /\ receipt' = FALSE
    /\ Publish("platform", TRUE)
    /\ UNCHANGED <<builder, told, looked, team, mishaps>>

\* min_sleep_until, then deadline_at.
SleepEnds(b) ==
    /\ builder[b].status = "parked" /\ builder[b].asleep
    /\ builder' = [builder EXCEPT ![b].asleep = FALSE]
    /\ UNCHANGED <<news, told, receipt, looked, team, mishaps>>
DeadlinePasses(b) ==
    /\ builder[b].status = "parked" /\ ~builder[b].asleep /\ ~builder[b].late
    /\ mishaps < MaxMishaps
    /\ mishaps' = mishaps + 1
    /\ builder' = [builder EXCEPT ![b].late = TRUE]
    /\ UNCHANGED <<news, told, receipt, looked, team>>
-----------------------------------------------------------------------------
(* Waits. *)

\* _watched_event, for a ticket that watches every other branch.
Watched(b) == {n \in DOMAIN news : news[n].watched /\ news[n].by # b}
Unseen(b) == {n \in Watched(b) : n > builder[b].view.at /\ n \notin builder[b].view.seen}

SleepIsWaiting(b) ==                                                \* mutant
    IF builder[b].late \/ (~builder[b].asleep /\ Unseen(b) # {}) THEN "ready" ELSE "waiting"
\* _event_wait_status.
WaitStatus(b) ==
    CASE builder[b].late -> "ready"
      [] ~builder[b].late /\ builder[b].asleep -> "min_sleep"
      [] ~builder[b].late /\ ~builder[b].asleep /\ Unseen(b) # {} -> "ready"
      [] OTHER -> "waiting"

\* _session_anchor of a woken wait: the ticket's anchor, with the event that
\* the wake note names marked as seen; past the limit, that event.
WokenAnchor(x, named) ==
    IF Cardinality(x.seen \cup {named}) > MaxSeen THEN [at |-> named, seen |-> {}]
    ELSE [x EXCEPT !.seen = @ \cup {named}]

\* execute: a fresh session, a native wake with its note, or a portable wake.
StartTask(b) ==
    LET x == builder[b] IN
    /\ \/ x.status = "queued"
       \/ x.status = "parked" /\ WaitStatus(b) = "ready"
    /\ \E v \in {Now} \cup (IF x.status = "queued" THEN {}
                            ELSE IF x.late THEN {x.view}
                            ELSE {WokenAnchor(x.view, Min(Unseen(b)))}) :
        builder' = [builder EXCEPT ![b] =
            [x EXCEPT !.status = "running", !.phase = "start", !.view = v,
                      !.asleep = FALSE, !.late = FALSE]]

\* Another supervisor starts or wakes a builder of its own.
OtherStarts(b) ==
    /\ b \notin Own
    /\ StartTask(b)
    /\ UNCHANGED <<news, told, receipt, looked, team, mishaps>>
-----------------------------------------------------------------------------
(* ResearchTeamRunner.run. *)

Running == team.stop = "none"

\* The top of the loop reads the event head before it reads the tasks.
ReadHead ==
    /\ Running /\ team.pc = "top"
    /\ team' = [team EXCEPT !.pc = "scan", !.head = NewsHead]
    /\ UNCHANGED <<news, builder, told, receipt, looked, mishaps>>

StaleHead(b) == looked[b].found = "unknown" \/ builder[b].late      \* mutant
\* wait_check_due; the last two cases are a check that has grown old and an
\* idle observation that awaits its confirmation.
CheckDue(b) ==
    \/ looked[b].found = "unknown" \/ builder[b].late
    \/ looked[b].head # team.head
    \/ looked[b].found = "min_sleep" /\ ~builder[b].asleep
    \/ team.idle /\ ~looked[b].recent

\* check_wait.
Check(b) ==
    looked' = [looked EXCEPT ![b] = [head |-> team.head, found |-> WaitStatus(b),
                                     recent |-> team.idle]]

CheckWait(b) ==
    /\ Running /\ team.pc = "scan"
    /\ b \in Own /\ builder[b].status = "parked" /\ looked[b].found # "ready"
    /\ CheckDue(b)
    /\ Check(b)
    /\ UNCHANGED <<news, builder, told, receipt, team, mishaps>>

\* max_tasks counts the builders that were ever started.
MayAttempt(b) == b \in team.attempted \/ Cardinality(team.attempted) < MaxTasks

Startable(b) ==
    /\ b \in Own
    /\ builder[b].status = "queued" \/ (builder[b].status = "parked" /\ looked[b].found = "ready")
    /\ b \notin team.busy /\ Cardinality(team.busy) < MaxConcurrency
    /\ MayAttempt(b)

Launch(b) ==
    /\ Running /\ team.pc = "scan"
    /\ Startable(b)
    /\ StartTask(b)
    /\ looked' = [looked EXCEPT ![b] = Unknown]
    /\ team' = [team EXCEPT !.attempted = @ \cup {b}, !.busy = @ \cup {b}]
    /\ UNCHANGED <<news, told, receipt, mishaps>>

Waiting == {b \in Own : builder[b].status # "ended" /\ MayAttempt(b)}
Capped == {b \in Own : builder[b].status = "queued" /\ ~MayAttempt(b)}

\* Every task was considered.  While work runs, an idle stop begins anew; the
\* pass ends with the futures that are done (active).
EndScan ==
    /\ Running /\ team.pc = "scan"
    /\ \A b \in Own : ~Startable(b)
    /\ \A b \in Own : builder[b].status = "parked" /\ looked[b].found # "ready" => ~CheckDue(b)
    /\ team' = IF team.busy # {}
               THEN [team EXCEPT !.pc = "top", !.head = 0, !.idle = FALSE,
                                 !.busy = {b \in @ : builder[b].status = "running"}]
               ELSE [team EXCEPT !.pc = "work"]
    /\ UNCHANGED <<news, builder, told, receipt, looked, mishaps>>

\* A wait that was checked at the head of this pass and found nothing.
FoundNothing(b) == looked[b].found = "waiting" /\ looked[b].head = team.head

Again == team' = [team EXCEPT !.pc = "top", !.head = 0, !.idle = FALSE]

\* all_waiting: every wait found nothing, and the head is still the one read.
\* With nothing parked the loop ends.
CheckIdle ==
    /\ Running /\ team.pc = "work"
    /\ IF \A b \in Waiting : builder[b].status # "parked"
       THEN team' = [team EXCEPT !.pc = "stopped",
                        !.stop = IF Waiting \cup Capped = {} THEN "done"
                                 ELSE IF Capped # {} THEN "task_limit" ELSE "pending"]
       ELSE IF (\A b \in Waiting : builder[b].status = "parked" /\ FoundNothing(b)) /\ NewsHead = team.head
            THEN team' = [team EXCEPT !.pc = "tasks"]
            ELSE Again
    /\ UNCHANGED <<news, builder, told, receipt, looked, mishaps>>

\* It reads the tasks again: no other one may run or be ready to start.
ReadTasks ==
    /\ Running /\ team.pc = "tasks"
    /\ IF \A b \in Builder \ Capped : builder[b].status \in {"ended", "parked"}
       THEN team' = [team EXCEPT !.pc = "others"]
       ELSE Again
    /\ UNCHANGED <<news, builder, told, receipt, looked, mishaps>>

\* A parked task outside the run counts as waiting once its wait was checked in
\* the same way.  One that was woken since had a wait that was ready.
CheckOthers ==
    LET due == {b \in Builder \ Own : builder[b].status # "ended" /\ CheckDue(b)}
        now == [b \in Builder |->
            IF b \notin due THEN looked[b]
            ELSE [head |-> team.head, recent |-> team.idle,
                  found |-> IF builder[b].status = "parked" THEN WaitStatus(b) ELSE "ready"]]
    IN
    /\ Running /\ team.pc = "others"
    /\ looked' = now
    /\ IF \A b \in Builder \ Own :
            builder[b].status = "ended" \/ (now[b].found = "waiting" /\ now[b].head = team.head)
       THEN team' = [team EXCEPT !.pc = "receipts"]
       ELSE Again
    /\ UNCHANGED <<news, builder, told, receipt, mishaps>>

\* No receipt is queued: the first observation, or its confirmation.
ReadReceipts ==
    /\ Running /\ team.pc = "receipts"
    /\ IF receipt THEN Again /\ UNCHANGED looked
       ELSE IF team.idle /\ \A b \in Builder : builder[b].status = "parked" => looked[b].recent
       THEN /\ team' = [team EXCEPT !.pc = "stopped",
                            !.stop = IF Capped = {} THEN "idle" ELSE "task_limit"]
            /\ UNCHANGED looked
       ELSE /\ team' = [team EXCEPT !.pc = "top", !.head = 0, !.idle = TRUE]
            /\ looked' = IF team.idle THEN looked
                         ELSE [b \in Builder |-> [looked[b] EXCEPT !.recent = FALSE]]
    /\ UNCHANGED <<news, builder, told, receipt, mishaps>>

\* TEAM_TIMEOUT, or the experiment is no longer active: the tasks keep what
\* they have.
StopEarly ==
    /\ Running /\ team.pc = "top"
    /\ team' = [team EXCEPT !.pc = "stopped", !.stop = "timeout"]
    /\ UNCHANGED <<news, builder, told, receipt, looked, mishaps>>
-----------------------------------------------------------------------------
Supervise ==
    \/ ReadHead \/ EndScan \/ CheckIdle \/ ReadTasks \/ ReadReceipts
    \/ CheckOthers \/ \E b \in Builder : Launch(b)
    \/ \E b \in Builder : CheckWait(b)

Build(b) ==
    \/ Request(b) \/ CaptureView(b) \/ Announce(b) \/ Submit(b) \/ RequestEventWait(b)
    \/ EndTask(b)

TeamNext ==
    \/ \E b \in Builder : Build(b) \/ DieAndResume(b) \/ SleepEnds(b) \/ DeadlinePasses(b)
                          \/ OtherStarts(b)
    \/ Verify \/ Supervise \/ StopEarly

\* The supervisor keeps going round its loop, and minimum sleeps end.
TeamFairness ==
    /\ WF_teamVars(Supervise)
    /\ \A b \in Builder : WF_teamVars(SleepEnds(b))
-----------------------------------------------------------------------------
(* Properties. *)

\* What another branch or the platform announced, and what no request of a
\* parked builder could show it, wakes its wait.
NoNewsLost ==
    \A b \in Builder : builder[b].status = "parked" => Watched(b) \ told[b] \subseteq Unseen(b)

\* When the supervisor stops as idle, no builder of its own runs and no event up
\* to the head of the confirming pass would wake a parked builder of anyone.
IdleStopMissedNothing ==
    [][team.stop = "none" /\ team'.stop = "idle" =>
        /\ \A b \in Own : builder[b].status # "running"
        /\ \A b \in Builder : builder[b].status = "parked" =>
                \A n \in Unseen(b) : n > team.head]_teamVars

\* A builder does not stay parked with an event that should wake it, unless the
\* supervisor stops or has no room for it.
WakesArrive ==
    \A b \in Own :
        []<>(builder[b].status = "parked" /\ Unseen(b) # {}
                => ~Running \/ Cardinality(team.busy) >= MaxConcurrency)

\* No parked builder sleeps through its news.
TeamSound == TeamTypeOK /\ NoNewsLost
=============================================================================
