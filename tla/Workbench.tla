------------------------------ MODULE Workbench ------------------------------
(***************************************************************************)
(* LocalDockerWorkspaceProvider: how the processes of one host share a     *)
(* bounded number of Docker workbenches.  Each provider object makes one   *)
(* container.  It takes a lock of the host, lists the running workbenches  *)
(* and starts its own while it holds the lock.                             *)
(*                                                                         *)
(* Every call of the Docker client may fail or time out.  The daemon may   *)
(* then carry out `docker run` all the same, even after the lock was       *)
(* released and after the provider tried to remove the container.          *)
(***************************************************************************)
EXTENDS Naturals, FiniteSets

CONSTANTS
    Bench,          \* provider objects, each with the container name it planned
    Capacity        \* max_active_workspaces of each of them

ASSUME WorkbenchAssumption == Capacity \in [Bench -> Nat \ {0}] /\ "none" \notin Bench

VARIABLES
    bench,          \* each provider: where it is and whether it is quarantined
    slot,           \* the provider that holds the host's lock
    containers,     \* the workbenches that run
    pending,        \* `docker run` requests that the daemon may still carry out
    late            \* history: containers started after their client gave up

benchVars == <<bench, slot, containers, pending, late>>

Nobody == "none"
\* Where a provider is: before create, in create, at work, or done with.
BenchPc == {"new", "waiting", "locked", "starting", "profile", "quarantine", "ready",
            "command", "lost", "closed", "dead"}

BenchTypeOK ==
    /\ bench \in [Bench -> [pc : BenchPc, quarantined : BOOLEAN, owns : BOOLEAN]]
    /\ slot \in Bench \cup {Nobody}
    /\ containers \subseteq Bench /\ pending \subseteq Bench /\ late \subseteq containers

BenchInit ==
    /\ bench = [b \in Bench |-> [pc |-> "new", quarantined |-> FALSE, owns |-> FALSE]]
    /\ slot = Nobody
    /\ containers = {} /\ pending = {} /\ late = {}

At(b, pc) == bench[b].pc = pc
Goes(b, pc) == bench' = [bench EXCEPT ![b].pc = pc]
-----------------------------------------------------------------------------
(* create *)

\* The image is the pinned one, and the provider was not used before.
BeginCreate(b) ==
    /\ At(b, "new") /\ ~bench[b].quarantined
    /\ Goes(b, "waiting")
    /\ UNCHANGED <<slot, containers, pending, late>>

Unlocked == TRUE                                                    \* mutant
\* The lock file of the host is free.
SlotFree == slot = Nobody

\* _physical_slot
TakeSlot(b) ==
    /\ At(b, "waiting") /\ SlotFree
    /\ slot' = b
    /\ Goes(b, "locked")
    /\ UNCHANGED <<containers, pending, late>>

\* Every workbench must carry the same capacity label.
PolicyConflict(b) == \E c \in containers : Capacity[c] # Capacity[b]

\* The listing shows room: `docker run` is sent.
Inspect(b) ==
    /\ At(b, "locked")
    /\ ~PolicyConflict(b) /\ Cardinality(containers) < Capacity[b]
    /\ Goes(b, "starting")
    /\ UNCHANGED <<slot, containers, pending, late>>

\* WORKSPACE_CAPACITY or PROVIDER_POLICY_MISMATCH: nothing was created and the
\* provider may try again.
Refuse(b) ==
    /\ At(b, "locked")
    /\ PolicyConflict(b) \/ Cardinality(containers) >= Capacity[b]
    /\ slot' = Nobody
    /\ Goes(b, "new")
    /\ UNCHANGED <<containers, pending, late>>

Started(b) ==
    /\ At(b, "starting")
    /\ containers' = containers \cup {b}
    /\ slot' = Nobody
    /\ bench' = [bench EXCEPT ![b].pc = "profile", ![b].owns = TRUE]
    /\ UNCHANGED <<pending, late>>

\* The listing or `docker run` fails, times out or is cancelled.  The lock is
\* released before the provider removes what it may have created.
StartFails(b) ==
    /\ \/ At(b, "locked") /\ UNCHANGED <<containers, pending>>
       \/ /\ At(b, "starting")
          /\ \/ UNCHANGED <<containers, pending>>
             \/ containers' = containers \cup {b} /\ UNCHANGED pending
             \/ pending' = pending \cup {b} /\ UNCHANGED containers
    /\ slot' = Nobody
    /\ bench' = [bench EXCEPT ![b].pc = "quarantine", ![b].quarantined = TRUE]
    /\ UNCHANGED late

\* The daemon carries out a request whose client is gone.
LateStart(b) ==
    /\ b \in pending
    /\ pending' = pending \ {b}
    /\ containers' = containers \cup {b} /\ late' = late \cup {b}
    /\ UNCHANGED <<bench, slot>>

\* The shell profile is written; then the workbench is ready.
WriteProfile(b, ok) ==
    /\ At(b, "profile")
    /\ bench' = [bench EXCEPT ![b].pc = IF ok THEN "ready" ELSE "quarantine",
                              ![b].quarantined = ~ok]
    /\ UNCHANGED <<slot, containers, pending, late>>

Gone(b) == containers' = containers \ {b} /\ late' = late \ {b}
Stays == UNCHANGED <<containers, late>>

\* _quarantine removes the planned container, if there is one and Docker answers.
Quarantine(b) ==
    /\ At(b, "quarantine")
    /\ Gone(b) \/ Stays
    /\ Goes(b, "closed")
    /\ UNCHANGED <<slot, pending>>
-----------------------------------------------------------------------------
(* run and close *)

\* run, under the provider's command lock.
RunCommand(b) ==
    /\ At(b, "ready") /\ ~bench[b].quarantined
    /\ Goes(b, "command")
    /\ UNCHANGED <<slot, containers, pending, late>>

\* The command ended and the workspace is quiescent, or the outcome is unknown.
CommandEnds(b, ok) ==
    /\ At(b, "command")
    /\ ok => b \in containers
    /\ bench' = [bench EXCEPT ![b].pc = IF ok THEN "ready" ELSE "lost",
                              ![b].quarantined = @ \/ ~ok]
    /\ UNCHANGED <<slot, containers, pending, late>>

\* close, by the caller or after a lost command.  Without an answer the
\* provider still has its container, and close may be called again.
CloseBench(b, ok) ==
    /\ bench[b].pc \in {"ready", "lost", "closed"} /\ bench[b].owns
    /\ IF ok THEN Gone(b) ELSE Gone(b) \/ Stays
    /\ bench' = [bench EXCEPT ![b].pc = IF ok \/ @ = "lost" THEN "closed" ELSE @,
                              ![b].owns = ~ok]
    /\ UNCHANGED <<slot, pending>>

\* The container's own time limit ends it.
Expires(b) ==
    /\ b \in containers
    /\ Gone(b)
    /\ UNCHANGED <<bench, slot, pending>>

\* The process dies; the kernel releases its lock.
HostDies(b) ==
    /\ ~At(b, "dead")
    /\ Goes(b, "dead")
    /\ slot' = IF slot = b THEN Nobody ELSE slot
    /\ IF At(b, "starting")
       THEN pending' = pending \cup {b} \/ UNCHANGED pending
       ELSE UNCHANGED pending
    /\ UNCHANGED <<containers, late>>

BenchNext ==
    \E b \in Bench :
        \/ BeginCreate(b) \/ TakeSlot(b) \/ Inspect(b) \/ Refuse(b) \/ Started(b)
        \/ StartFails(b) \/ LateStart(b) \/ Quarantine(b) \/ RunCommand(b)
        \/ Expires(b) \/ HostDies(b)
        \/ \E ok \in BOOLEAN : WriteProfile(b, ok) \/ CommandEnds(b, ok) \/ CloseBench(b, ok)

BenchSpec == BenchInit /\ [][BenchNext]_benchVars
-----------------------------------------------------------------------------
(* Properties. *)

\* However creations overlap, fail and are abandoned, the workbenches that run
\* are no more than the capacity of each of them, but for those that the daemon
\* started after their client had given up.
WithinCapacity ==
    LET prompt == containers \ late IN
    \A b \in prompt : Cardinality(prompt) <= Capacity[b]

\* Local workbenches stay within their capacity.
BenchSound == BenchTypeOK /\ WithinCapacity
=============================================================================
