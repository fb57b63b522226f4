--------------------------- MODULE ComputeProofs ---------------------------
(***************************************************************************)
(* Proofs about the places where work runs: the workbenches of one host, a *)
(* remote VM with the calls that drive it, the virtual machines of one     *)
(* task behind their brokers, a workspace's checkpoint and its restore,    *)
(* and the verification boundary.                                          *)
(***************************************************************************)
EXTENDS Workbench, E2BProvider, Workspaces, WorkspaceExport, Verifier,
        FiniteSetTheorems, WellFoundedInduction, TLAPS

USE WorkbenchAssumption
-----------------------------------------------------------------------------
(* Workbenches.  The inductive invariant adds to the bound on the running   *)
(* containers what the host's lock guarantees between a provider's listing  *)
(* and its start.                                                           *)

\* The workbenches whose start their client awaited.
Prompt == containers \ late

\* A provider lists and starts only while it holds the host's lock, and while it
\* starts there is room for one more workbench of its capacity.
LockedRoom ==
    \A b \in Bench :
        /\ bench[b].pc \in {"locked", "starting"} => slot = b
        /\ bench[b].pc = "starting" =>
             /\ \A c \in Prompt : Capacity[c] = Capacity[b]
             /\ Cardinality(Prompt) + 1 =< Capacity[b]

BenchInv ==
    /\ BenchTypeOK
    /\ IsFiniteSet(containers)
    /\ LockedRoom
    /\ WithinCapacity

LEMMA InitBench == BenchInit => BenchInv
<1> SUFFICES ASSUME BenchInit PROVE BenchInv
  OBVIOUS
<1>1. BenchTypeOK
  BY DEF BenchInit, BenchTypeOK, BenchPc
<1>2. LockedRoom /\ WithinCapacity /\ IsFiniteSet(containers)
  BY FS_EmptySet DEF BenchInit, LockedRoom, WithinCapacity
<1>3. QED BY <1>1, <1>2 DEF BenchInv

LEMMA PromptFinite ==
    ASSUME BenchInv
    PROVE  /\ IsFiniteSet(Prompt) /\ Cardinality(Prompt) \in Nat
           /\ Cardinality(Prompt) =< Cardinality(containers) /\ Cardinality(containers) \in Nat
           /\ Prompt \subseteq Bench
BY FS_Subset, FS_CardinalityType DEF BenchInv, BenchTypeOK, Prompt

\* Steps that start no workbench for a waiting client, whoever they stop.
LEMMA BenchFrame ==
    ASSUME BenchInv, BenchTypeOK', IsFiniteSet(containers'), Prompt' \subseteq Prompt,
           \A b \in Bench : /\ bench'[b].pc \in {"locked", "starting"} => slot' = b
                            /\ bench'[b].pc = "starting" => bench[b].pc = "starting"
    PROVE  BenchInv'
<1>1. /\ IsFiniteSet(Prompt) /\ Cardinality(Prompt) \in Nat
      /\ Cardinality(Prompt') \in Nat /\ Cardinality(Prompt') =< Cardinality(Prompt)
      /\ Prompt \subseteq Bench
  BY PromptFinite, FS_Subset, FS_CardinalityType
<1>2. \A b \in Bench : Capacity[b] \in Nat
  OBVIOUS
<1>3. LockedRoom'
  BY <1>1, <1>2 DEF BenchInv, LockedRoom
<1>4. \A b \in Prompt : Cardinality(Prompt) <= Capacity[b]
  BY DEF BenchInv, WithinCapacity, Prompt
<1>5. \A b \in Prompt' : Cardinality(Prompt') <= Capacity[b]
  BY <1>1, <1>2, <1>4
<1>6. WithinCapacity'
  BY <1>5 DEF WithinCapacity, Prompt
<1>7. QED BY <1>3, <1>6 DEF BenchInv

\* A workbench starts for its waiting client, which holds the lock.
LEMMA StartKeeps ==
    ASSUME BenchInv, BenchTypeOK', NEW b \in Bench, bench[b].pc = "starting",
           containers' = containers \cup {b}, late' = late,
           \A c \in Bench : bench'[c].pc \in {"locked", "starting"} => bench'[c] = bench[c] /\ c # b
    PROVE  BenchInv'
<1>1. /\ IsFiniteSet(Prompt) /\ Cardinality(Prompt) \in Nat
      /\ Prompt \subseteq Bench
  BY PromptFinite
<1>2. Prompt' \subseteq Prompt \cup {b}
  BY DEF Prompt
<1>3. /\ IsFiniteSet(Prompt \cup {b})
      /\ Cardinality(Prompt \cup {b}) =< Cardinality(Prompt) + 1
      /\ Cardinality(Prompt \cup {b}) \in Nat
  <2>1. /\ IsFiniteSet(Prompt \cup {b})
        /\ Cardinality(Prompt \cup {b}) \in {Cardinality(Prompt), Cardinality(Prompt) + 1}
    BY <1>1, FS_AddElement
  <2>2. QED BY <1>1, <2>1
<1>4. Cardinality(Prompt') =< Cardinality(Prompt) + 1 /\ Cardinality(Prompt') \in Nat
  BY <1>1, <1>2, <1>3, FS_Subset, FS_CardinalityType
<1>5. \A c \in Bench : bench[c].pc \in {"locked", "starting"} => c = b
  BY DEF BenchInv, LockedRoom
<1>6. LockedRoom'
  BY <1>5 DEF LockedRoom
<1>7. /\ \A c \in Prompt : Capacity[c] = Capacity[b]
      /\ Cardinality(Prompt) + 1 =< Capacity[b] /\ Capacity[b] \in Nat
  BY DEF BenchInv, LockedRoom
<1>8. \A c \in Prompt' : Cardinality(Prompt') <= Capacity[c]
  BY <1>1, <1>2, <1>4, <1>7
<1>9. WithinCapacity'
  BY <1>8 DEF WithinCapacity, Prompt
<1>10. IsFiniteSet(containers')
  BY FS_AddElement DEF BenchInv
<1>11. QED BY <1>6, <1>9, <1>10 DEF BenchInv

LEMMA BenchKept == BenchInv /\ [BenchNext]_benchVars => BenchInv'
<1> SUFFICES ASSUME BenchInv, [BenchNext]_benchVars PROVE BenchInv'
  OBVIOUS
<1>1. BenchTypeOK /\ IsFiniteSet(containers)
  BY DEF BenchInv
<1>2. CASE UNCHANGED benchVars
  BY <1>1, <1>2, BenchFrame DEF benchVars, BenchInv, LockedRoom, Prompt, BenchTypeOK
<1> DEFINE Locks == \A b \in Bench :
                        /\ bench'[b].pc \in {"locked", "starting"} => slot' = b
                        /\ bench'[b].pc = "starting" => bench[b].pc = "starting"
<1>3. ASSUME NEW b \in Bench, BeginCreate(b) \/ RunCommand(b) PROVE BenchInv'
  <2>1. BenchTypeOK'
    BY <1>1, <1>3 DEF BeginCreate, RunCommand, Goes, BenchTypeOK, BenchPc
  <2>2. Locks
    BY <1>1, <1>3 DEF BeginCreate, RunCommand, Goes, BenchInv, BenchTypeOK, LockedRoom
  <2>3. QED BY <1>1, <1>3, <2>1, <2>2, BenchFrame DEF BeginCreate, RunCommand, Prompt
<1>4. ASSUME NEW b \in Bench, TakeSlot(b) PROVE BenchInv'
  <2>1. BenchTypeOK'
    BY <1>1, <1>4 DEF TakeSlot, Goes, BenchTypeOK, BenchPc
  <2>2. \A c \in Bench : bench[c].pc \notin {"locked", "starting"}
    BY <1>4 DEF TakeSlot, SlotFree, Nobody, BenchInv, LockedRoom
  <2>3. Locks
    BY <1>1, <1>4, <2>2 DEF TakeSlot, Goes, BenchTypeOK
  <2>4. QED BY <1>1, <1>4, <2>1, <2>3, BenchFrame DEF TakeSlot, Prompt
<1>5. ASSUME NEW b \in Bench, Inspect(b) PROVE BenchInv'
  <2>1. BenchTypeOK'
    BY <1>1, <1>5 DEF Inspect, Goes, BenchTypeOK, BenchPc
  <2>2. /\ \A c \in Prompt : Capacity[c] = Capacity[b]
        /\ Cardinality(Prompt) + 1 =< Capacity[b]
    <3>1. Capacity[b] \in Nat
      OBVIOUS
    <3>2. Cardinality(containers) < Capacity[b] /\ \A c \in containers : Capacity[c] = Capacity[b]
      BY <1>5 DEF Inspect, PolicyConflict
    <3>3. \A c \in Prompt : Capacity[c] = Capacity[b]
      BY <3>2 DEF Prompt
    <3>4. QED BY <3>1, <3>2, <3>3, PromptFinite
  <2>3. Prompt' = Prompt /\ slot' = slot
    BY <1>5 DEF Inspect, Prompt
  <2>4. LockedRoom'
    BY <1>1, <1>5, <2>2, <2>3 DEF Inspect, Goes, At, BenchInv, BenchTypeOK, LockedRoom
  <2>5. QED BY <1>5, <2>1, <2>4 DEF Inspect, BenchInv, WithinCapacity
<1>6. ASSUME NEW b \in Bench, Refuse(b) PROVE BenchInv'
  <2>1. BenchTypeOK'
    BY <1>1, <1>6 DEF Refuse, Goes, BenchTypeOK, BenchPc
  <2>2. \A c \in Bench : c # b => bench[c].pc \notin {"locked", "starting"}
    BY <1>6 DEF Refuse, At, BenchInv, LockedRoom
  <2>3. Locks
    BY <1>1, <1>6, <2>2 DEF Refuse, Goes, BenchTypeOK
  <2>4. QED BY <1>1, <1>6, <2>1, <2>3, BenchFrame DEF Refuse, Prompt
<1>7. ASSUME NEW b \in Bench, Started(b) PROVE BenchInv'
  <2>1. BenchTypeOK'
    BY <1>1, <1>7 DEF Started, BenchTypeOK, BenchPc
  <2>2. \A c \in Bench : bench'[c].pc \in {"locked", "starting"} => bench'[c] = bench[c] /\ c # b
    BY <1>1, <1>7 DEF Started, BenchTypeOK
  <2>3. QED BY <1>7, <2>1, <2>2, StartKeeps DEF Started, At
<1>8. ASSUME NEW b \in Bench, StartFails(b) PROVE BenchInv'
  <2>1. BenchTypeOK'
    BY <1>1, <1>8 DEF StartFails, BenchTypeOK, BenchPc
  <2>2. \A c \in Bench : bench'[c].pc \in {"locked", "starting"} => bench'[c] = bench[c] /\ c # b
    BY <1>1, <1>8 DEF StartFails, BenchTypeOK
  <2>3. CASE containers' = containers
    <3>1. Locks
      BY <1>8, <2>2 DEF StartFails, At, BenchInv, LockedRoom
    <3>2. QED BY <1>1, <1>8, <2>1, <2>3, <3>1, BenchFrame DEF StartFails, Prompt
  <2>4. CASE containers' = containers \cup {b} /\ bench[b].pc = "starting"
    BY <1>8, <2>1, <2>2, <2>4, StartKeeps DEF StartFails
  <2>5. QED BY <1>8, <2>3, <2>4 DEF StartFails, At
<1>9. ASSUME NEW b \in Bench, LateStart(b) PROVE BenchInv'
  <2>1. BenchTypeOK' /\ Prompt' \subseteq Prompt /\ IsFiniteSet(containers')
    BY <1>1, <1>9, FS_AddElement DEF LateStart, BenchTypeOK, Prompt
  <2>2. Locks
    BY <1>9 DEF LateStart, BenchInv, LockedRoom
  <2>3. QED BY <2>1, <2>2, BenchFrame
\* What ends or moves no lock, and may remove workbenches.
<1>10. ASSUME BenchTypeOK', slot' = slot,
              containers' \subseteq containers, Prompt' \subseteq Prompt,
              \A b \in Bench : bench'[b] = bench[b] \/ bench'[b].pc \notin {"locked", "starting"}
       PROVE  BenchInv'
  <2>1. Locks
    BY <1>10 DEF BenchInv, LockedRoom
  <2>2. QED BY <1>1, <1>10, <2>1, BenchFrame, FS_Subset
<1>11. ASSUME NEW b \in Bench, NEW ok \in BOOLEAN, WriteProfile(b, ok) \/ CommandEnds(b, ok)
       PROVE  BenchInv'
  <2>1. BenchTypeOK'
    BY <1>1, <1>11 DEF WriteProfile, CommandEnds, BenchTypeOK, BenchPc
  <2>2. \A c \in Bench : bench'[c] = bench[c] \/ bench'[c].pc \notin {"locked", "starting"}
    BY <1>1, <1>11 DEF WriteProfile, CommandEnds, BenchTypeOK
  <2>3. QED BY <1>11, <2>1, <2>2, <1>10 DEF WriteProfile, CommandEnds, Prompt
<1>12. ASSUME NEW b \in Bench, NEW ok \in BOOLEAN, Quarantine(b) \/ CloseBench(b, ok)
       PROVE  BenchInv'
  <2>1. containers' \subseteq containers /\ late' \subseteq containers' /\ Prompt' \subseteq Prompt
    BY <1>1, <1>12 DEF Quarantine, CloseBench, Gone, Stays, Prompt, BenchTypeOK
  <2>2. BenchTypeOK'
    BY <1>1, <1>12, <2>1 DEF Quarantine, CloseBench, Goes, BenchTypeOK, BenchPc
  <2>3. \A c \in Bench : bench'[c] = bench[c] \/ bench'[c].pc \notin {"locked", "starting"}
    BY <1>1, <1>12 DEF Quarantine, CloseBench, Goes, BenchTypeOK
  <2>4. QED BY <1>12, <2>1, <2>2, <2>3, <1>10 DEF Quarantine, CloseBench
<1>13. ASSUME NEW b \in Bench, Expires(b) PROVE BenchInv'
  <2>1. BenchTypeOK' /\ Prompt' \subseteq Prompt /\ containers' \subseteq containers
    BY <1>1, <1>13 DEF Expires, Gone, BenchTypeOK, Prompt
  <2>2. QED BY <1>13, <2>1, <1>10 DEF Expires
<1>14. ASSUME NEW b \in Bench, HostDies(b) PROVE BenchInv'
  <2>1. BenchTypeOK'
    BY <1>1, <1>14 DEF HostDies, Goes, BenchTypeOK, BenchPc
  <2>2. Locks
    BY <1>1, <1>14 DEF HostDies, Goes, BenchTypeOK, BenchInv, LockedRoom
  <2>3. QED BY <1>1, <1>14, <2>1, <2>2, BenchFrame DEF HostDies, Prompt
<1>15. QED
  BY <1>2, <1>3, <1>4, <1>5, <1>6, <1>7, <1>8, <1>9, <1>11, <1>12, <1>13, <1>14 DEF BenchNext

\* Any number of processes of one host: the workbenches that run for a client that
\* awaited them never exceed the capacity of any of them.
THEOREM BenchSafety == BenchSpec => []BenchSound
<1>1. BenchInv => BenchSound
  BY DEF BenchInv, BenchSound
<1>2. QED BY <1>1, InitBench, BenchKept, PTL DEF BenchSpec

-----------------------------------------------------------------------------
(* The remote VM.  Its inductive invariant says which calls may overlap: at *)
(* most one command, transfer or native operation, any number of captures,  *)
(* of cancellations and of calls that close the VM.                         *)

HIDE WorkbenchAssumption
USE ProviderAssumption

ProvRecord ==
    [sandbox : Sandbox \cup {NoVM}, active : SUBSET (Op \cup {FileWork}),
     cancelled : SUBSET (Op \cup {FileWork}),
     workspace : BOOLEAN, quarantined : BOOLEAN, creating : BOOLEAN, closing : BOOLEAN,
     paused : BOOLEAN,
     observed : [vm : Sandbox \cup {NoVM}, confirmed : BOOLEAN, by : Call \cup {NoCall}]]
RequestRecord ==
    [pc : {"free", "creating", "running", "file", "capture", "pausing", "snapshotting",
           "resuming", "allocating", "verifying", "failing", "killing"},
     op : Op \cup {NoOp}, vm : Sandbox \cup {NoVM},
     then : {"none", "run", "file", "capture", "close", "cancel"}, todo : SUBSET Sandbox]
JournalEntry ==
    [status : {"none", "pending", "completed"}, children : SUBSET Sandbox, gone : SUBSET Sandbox]

\* The records of the provider, its calls and its journal, in full.
RecordTypes ==
    /\ prov \in ProvRecord
    /\ request \in [Call -> RequestRecord]
    /\ remote \in [Sandbox -> {"none", "alive", "gone"}]
    /\ journal \in [Op -> JournalEntry]
    /\ lost \subseteq Sandbox /\ confirmed \subseteq Sandbox /\ allocations \in [Op -> Nat]

Kills(c) == request[c].pc = "killing"
Commands(c) == request[c].pc = "running" \/ (Kills(c) /\ request[c].then = "run")
Excludes(c) ==
    \/ request[c].pc \in {"file", "pausing", "snapshotting", "resuming", "allocating",
                          "verifying", "failing"}
    \/ Kills(c) /\ request[c].then = "file"
Holds(c) == Commands(c) \/ Excludes(c)
Uses(c) == request[c].pc \in {"running", "file", "capture", "pausing", "snapshotting",
                              "resuming", "killing"}

\* One command, file transfer or native operation at a time, and the set of
\* active operations shows which.
OneAtATime ==
    /\ \A c \in Call : Commands(c) => prov.active # {} /\ ~prov.workspace
    /\ \A c \in Call : Excludes(c) => prov.workspace
    /\ prov.workspace => prov.active = {FileWork}
    /\ \A c, d \in Call : Holds(c) /\ Holds(d) => c = d

\* All calls that await a VM await one and the same, the provider's own while it
\* has one.
OneVM ==
    /\ \A c \in Call : Uses(c) =>
        request[c].vm \in Sandbox /\ prov.sandbox \in {request[c].vm, NoVM}
    /\ \A c, d \in Call : Uses(c) /\ Uses(d) => request[c].vm = request[d].vm

\* A provider without a VM that is not quarantined never had one, and only resumes.
WithoutVM ==
    /\ prov.sandbox = NoVM /\ ~prov.quarantined =>
        \A c \in Call : Uses(c) => request[c].pc = "resuming"
    /\ \A c \in Call : Kills(c) => prov.quarantined

\* A VM is created where nothing else goes on.
CreatesAlone ==
    /\ prov.creating =>
        prov.sandbox = NoVM /\ prov.active = {} /\ \A c \in Call : ~Uses(c)
    /\ \A c \in Call : request[c].pc = "creating" => prov.creating
    /\ \A c, d \in Call : request[c].pc = "creating" /\ request[d].pc = "creating" => c = d

\* What the provider observed of a VM is true, and the call that may confirm it
\* kills that VM.
Observes ==
    /\ prov.observed.confirmed =>
        prov.observed.vm \in Sandbox /\ remote[prov.observed.vm] = "gone"
    /\ \A c \in Call : Kills(c) =>
        /\ prov.observed.vm \in Sandbox
        /\ prov.observed.by = c => request[c].vm = prov.observed.vm
    /\ prov.sandbox = NoVM /\ prov.active # {} /\ ~prov.workspace => prov.observed.vm \in Sandbox

LostQuarantined == lost # {} => prov.quarantined

\* An operation asked for a child only after its journal entry was begun.
AskedOnce == \A o \in Op : allocations[o] =< (IF journal[o].status = "none" THEN 0 ELSE 1)

ProviderInv ==
    /\ RecordTypes
    /\ OneAtATime
    /\ OneVM
    /\ WithoutVM
    /\ CreatesAlone
    /\ Observes
    /\ LostQuarantined
    /\ ConfirmedMeansGone
    /\ AskedOnce

LEMMA InitProvider == ProviderInit => ProviderInv
<1> SUFFICES ASSUME ProviderInit PROVE ProviderInv
  OBVIOUS
<1>1. NewProvider \in ProvRecord /\ Free \in RequestRecord
  BY DEF NewProvider, ProvRecord, Free, RequestRecord, NotObserved, NoOp, NoVM, NoCall
<1>2. \A o \in Op : journal[o] \in JournalEntry /\ journal[o].gone = {} /\ allocations[o] = 0
  BY DEF ProviderInit, JournalEntry
<1>3. RecordTypes
  <2>1. journal \in [Op -> JournalEntry]
    BY <1>2 DEF ProviderInit
  <2>2. QED BY <1>1, <2>1 DEF ProviderInit, RecordTypes
<1>4. /\ prov.active = {} /\ ~prov.workspace /\ ~prov.creating /\ ~prov.observed.confirmed
      /\ \A c \in Call : request[c].pc = "free"
  BY DEF ProviderInit, NewProvider, NotObserved, Free
<1>5. OneAtATime /\ OneVM /\ WithoutVM /\ CreatesAlone /\ Observes
  BY <1>4 DEF OneAtATime, OneVM, WithoutVM, CreatesAlone, Observes, Holds, Commands, Excludes,
              Uses, Kills
<1>6. LostQuarantined /\ ConfirmedMeansGone /\ AskedOnce
  BY <1>2 DEF ProviderInit, LostQuarantined, ConfirmedMeansGone, AskedOnce
<1>7. QED BY <1>3, <1>5, <1>6 DEF ProviderInv

\* One call moves on, the others stay where they are.
LEMMA OneCallMoves ==
    ASSUME RecordTypes, NEW c \in Call, NEW k \in RequestRecord,
           request' = [request EXCEPT ![c] = k]
    PROVE  /\ request' \in [Call -> RequestRecord]
           /\ request'[c] = k
           /\ \A d \in Call : d # c => request'[d] = request[d]
BY DEF RecordTypes

LEMMA EndMoves ==
    ASSUME RecordTypes, NEW c \in Call, End(c)
    PROVE  /\ request' \in [Call -> RequestRecord]
           /\ request'[c].pc = "free"
           /\ \A d \in Call : d # c => request'[d] = request[d]
<1>1. Free \in RequestRecord /\ Free.pc = "free"
  BY DEF Free, RequestRecord, NoOp, NoVM
<1>2. QED BY <1>1, OneCallMoves DEF End

LEMMA AwaitMoves ==
    ASSUME RecordTypes, NEW c \in Call, NEW pc, NEW act \in Op \cup {NoOp},
           NEW v \in Sandbox \cup {NoVM}, Await(c, pc, act, v),
           pc \in {"creating", "running", "file", "capture", "pausing", "snapshotting",
                   "resuming", "allocating"}
    PROVE  /\ request' \in [Call -> RequestRecord]
           /\ request'[c].pc = pc /\ request'[c].op = act /\ request'[c].vm = v
           /\ \A d \in Call : d # c => request'[d] = request[d]
<1> DEFINE k == [Free EXCEPT !.pc = pc, !.op = act, !.vm = v]
<1>1. k \in RequestRecord /\ k.pc = pc /\ k.op = act /\ k.vm = v
  BY DEF Free, RequestRecord, NoOp, NoVM
<1>2. request' = [request EXCEPT ![c] = k]
  BY DEF Await
<1> HIDE DEF k
<1>3. QED BY <1>1, <1>2, OneCallMoves

LEMMA CreateKeeps ==
    ASSUME ProviderInv, NEW c \in Call, Create(c)
    PROVE  ProviderInv'
<1> DEFINE p == [prov EXCEPT !.creating = TRUE]
<1>1. RecordTypes
  BY DEF ProviderInv
<1>2. /\ p \in ProvRecord /\ p.creating /\ p.sandbox = prov.sandbox /\ p.active = prov.active
      /\ p.workspace = prov.workspace /\ p.quarantined = prov.quarantined
      /\ p.observed = prov.observed
  BY <1>1 DEF RecordTypes, ProvRecord
<1>3. prov' = p
  BY DEF Create
<1> HIDE DEF p
<1>4. /\ request' \in [Call -> RequestRecord] /\ request'[c].pc = "creating"
      /\ \A d \in Call : d # c => request'[d] = request[d]
  BY <1>1, AwaitMoves DEF Create, NoOp, NoVM
<1>5. RecordTypes'
  BY <1>1, <1>2, <1>3, <1>4 DEF RecordTypes, Create, KeepNative
<1>6. OneAtATime' /\ OneVM' /\ WithoutVM' /\ CreatesAlone'
  BY <1>2, <1>3, <1>4 DEF ProviderInv, OneAtATime, OneVM, WithoutVM, CreatesAlone, Create,
        Holds, Commands, Excludes, Uses, Kills
<1>7. Observes' /\ LostQuarantined' /\ ConfirmedMeansGone' /\ AskedOnce'
  BY <1>2, <1>3, <1>4 DEF ProviderInv, Observes, LostQuarantined, ConfirmedMeansGone, AskedOnce,
        Create, KeepNative, Kills
<1>8. QED BY <1>5, <1>6, <1>7 DEF ProviderInv

LEMMA CreatedKeeps ==
    ASSUME ProviderInv, NEW c \in Call, Created(c)
    PROVE  ProviderInv'
<1>0. PICK v \in UnusedVMs : /\ remote' = [remote EXCEPT ![v] = "alive"]
                            /\ prov' = [prov EXCEPT !.creating = FALSE, !.sandbox = v]
  BY DEF Created
<1> DEFINE p == [prov EXCEPT !.creating = FALSE, !.sandbox = v]
<1>1. RecordTypes
  BY DEF ProviderInv
<1>2. v \in Sandbox /\ remote[v] = "none" /\ v # NoVM
  BY DEF UnusedVMs, NoVM
<1>3. /\ p \in ProvRecord /\ ~p.creating /\ p.sandbox = v /\ p.active = prov.active
      /\ p.workspace = prov.workspace /\ p.quarantined = prov.quarantined
      /\ p.observed = prov.observed
  BY <1>1, <1>2 DEF RecordTypes, ProvRecord
<1> HIDE DEF p
<1>4. prov' = p
  BY <1>0 DEF p
<1>5. /\ remote' \in [Sandbox -> {"none", "alive", "gone"}]
      /\ \A w \in Sandbox : remote[w] = "gone" => remote'[w] = "gone"
  BY <1>0, <1>1, <1>2 DEF RecordTypes
<1>6. /\ request' \in [Call -> RequestRecord] /\ request'[c].pc = "free"
      /\ \A d \in Call : d # c => request'[d] = request[d]
  BY <1>1, EndMoves DEF Created
<1>7. RecordTypes'
  BY <1>1, <1>3, <1>4, <1>5, <1>6 DEF RecordTypes, Created, KeepNative
<1>8. OneAtATime' /\ OneVM' /\ WithoutVM' /\ CreatesAlone'
  BY <1>2, <1>3, <1>4, <1>6 DEF ProviderInv, OneAtATime, OneVM, WithoutVM, CreatesAlone, Created,
        Holds, Commands, Excludes, Uses, Kills
<1>9. Observes'
  BY <1>2, <1>3, <1>4, <1>5, <1>6 DEF ProviderInv, Observes, Kills
<1>10. LostQuarantined' /\ ConfirmedMeansGone' /\ AskedOnce'
  BY <1>3, <1>4, <1>5 DEF ProviderInv, LostQuarantined, ConfirmedMeansGone, AskedOnce, Created,
        KeepNative
<1>11. QED BY <1>7, <1>8, <1>9, <1>10 DEF ProviderInv

LEMMA CreateFailsKeeps ==
    ASSUME ProviderInv, NEW c \in Call, CreateFails(c)
    PROVE  ProviderInv'
<1> DEFINE p == [prov EXCEPT !.creating = FALSE, !.quarantined = TRUE]
<1>1. RecordTypes
  BY DEF ProviderInv
<1>2. /\ p \in ProvRecord /\ ~p.creating /\ p.quarantined /\ p.sandbox = prov.sandbox
      /\ p.active = prov.active /\ p.workspace = prov.workspace /\ p.observed = prov.observed
  BY <1>1 DEF RecordTypes, ProvRecord
<1>3. prov' = p
  BY DEF CreateFails
<1> HIDE DEF p
<1>4. /\ remote' \in [Sandbox -> {"none", "alive", "gone"}]
      /\ \A w \in Sandbox : remote[w] = "gone" => remote'[w] = "gone"
  <2>1. CASE remote' = remote
    BY <1>1, <2>1 DEF RecordTypes
  <2>2. CASE \E v \in UnusedVMs : remote' = [remote EXCEPT ![v] = "alive"]
    BY <1>1, <2>2 DEF RecordTypes, UnusedVMs
  <2>3. remote' \in {remote} \cup {[remote EXCEPT ![v] = "alive"] : v \in UnusedVMs}
    BY DEF CreateFails
  <2>4. QED BY <2>1, <2>2, <2>3
<1>5. /\ request' \in [Call -> RequestRecord] /\ request'[c].pc = "free"
      /\ \A d \in Call : d # c => request'[d] = request[d]
  BY <1>1, EndMoves DEF CreateFails
<1>6. RecordTypes'
  BY <1>1, <1>2, <1>3, <1>4, <1>5 DEF RecordTypes, CreateFails, KeepNative
<1>7. OneAtATime' /\ OneVM' /\ WithoutVM' /\ CreatesAlone'
  BY <1>2, <1>3, <1>5 DEF ProviderInv, OneAtATime, OneVM, WithoutVM, CreatesAlone, CreateFails,
        Holds, Commands, Excludes, Uses, Kills
<1>8. Observes' /\ LostQuarantined' /\ ConfirmedMeansGone' /\ AskedOnce'
  BY <1>2, <1>3, <1>4, <1>5 DEF ProviderInv, Observes, LostQuarantined, ConfirmedMeansGone,
        AskedOnce, CreateFails, KeepNative, Kills
<1>9. QED BY <1>6, <1>7, <1>8 DEF ProviderInv

\* The fields of what the callers of _close_vm make of the provider.
LEMMA SuspectedFields ==
    ASSUME NEW p \in ProvRecord, NEW v \in Sandbox \cup {NoVM}
    PROVE  LET q == Suspected(p, v) IN
           /\ q \in ProvRecord /\ q.quarantined
           /\ q.sandbox = p.sandbox /\ q.active = p.active /\ q.workspace = p.workspace
           /\ q.creating = p.creating /\ q.closing = p.closing
           /\ q.observed.vm = v
           /\ q.observed.confirmed => p.observed.vm = v /\ p.observed.confirmed
           /\ q.observed = p.observed \/ q.observed.by = NoCall
BY DEF Suspected, Quarantined, ProvRecord

LEMMA KillingFields ==
    ASSUME NEW p \in ProvRecord, NEW c \in Call
    PROVE  LET q == Killing(p, c) IN
           /\ q \in ProvRecord /\ q.quarantined
           /\ q.sandbox = p.sandbox /\ q.active = p.active /\ q.workspace = p.workspace
           /\ q.creating = p.creating
           /\ q.observed.vm = p.sandbox /\ ~q.observed.confirmed /\ q.observed.by = c
BY DEF Killing, Quarantined, ProvRecord

LEMMA LeaveFields ==
    ASSUME NEW p \in ProvRecord, NEW k \in RequestRecord
    PROVE  LET q == Leave(p, k) IN
           /\ q \in ProvRecord
           /\ q.sandbox = p.sandbox /\ q.quarantined = p.quarantined /\ q.creating = p.creating
           /\ q.closing = p.closing /\ q.observed = p.observed
           /\ k.then = "run" => q.active = p.active \ {k.op} /\ q.workspace = p.workspace
           /\ k.then = "file" => q.active = p.active \ {FileWork} /\ ~q.workspace
           /\ k.then \notin {"run", "file"} => q = p
BY DEF Leave, ProvRecord, RequestRecord

\* A call that closes the VM: either it awaits the kill, or it ends.
LEMMA CloseForMoves ==
    ASSUME RecordTypes, NEW c \in Call, NEW k \in RequestRecord, NEW p \in ProvRecord,
           NEW orElse \in ProvRecord, CloseFor(c, k, p, orElse)
    PROVE  /\ request' \in [Call -> RequestRecord]
           /\ \A d \in Call : d # c => request'[d] = request[d]
           /\ \/ /\ MayKill(p) /\ prov' = Killing(p, c) /\ confirmed' = confirmed
                 /\ request'[c].pc = "killing" /\ request'[c].vm = k.vm
                 /\ request'[c].then = k.then /\ request'[c].op = k.op
              \/ /\ ~MayKill(p) /\ prov' = orElse /\ confirmed' = confirmed \cup Told(orElse, k.vm)
                 /\ request'[c].pc = "free"
<1>1. CASE MayKill(p)
  <2> DEFINE n == [k EXCEPT !.pc = "killing"]
  <2>1. n \in RequestRecord /\ n.pc = "killing" /\ n.vm = k.vm /\ n.then = k.then /\ n.op = k.op
    BY DEF RequestRecord
  <2>2. /\ request' = [request EXCEPT ![c] = n]
        /\ prov' = Killing(p, c) /\ confirmed' = confirmed
    BY <1>1 DEF CloseFor
  <2> HIDE DEF n
  <2>3. QED BY <1>1, <2>1, <2>2, OneCallMoves
<1>2. CASE ~MayKill(p)
  BY <1>2, EndMoves DEF CloseFor
<1>3. QED BY <1>1, <1>2

\* A call that enters the VM with nothing else active: a command, a transfer or a
\* native operation.
LEMMA EnterKeeps ==
    ASSUME ProviderInv, NEW c \in Call, NEW pc, NEW act \in Op \cup {NoOp}, NEW v \in Sandbox,
           NEW p \in ProvRecord,
           pc \in {"running", "file", "pausing", "snapshotting", "resuming", "allocating"},
           request[c].pc = "free", Await(c, pc, act, v), prov' = p,
           ~prov.quarantined, ~prov.creating, prov.active = {},
           prov.sandbox \in {v, NoVM}, prov.sandbox = NoVM => pc \in {"resuming", "allocating"},
           p.sandbox = prov.sandbox, p.quarantined = prov.quarantined,
           p.creating = prov.creating, p.observed = prov.observed,
           IF pc = "running" THEN p.active # {} /\ ~p.workspace
           ELSE p.active = {FileWork} /\ p.workspace,
           UNCHANGED <<remote, lost, confirmed>>,
           journal' \in [Op -> JournalEntry], allocations' \in [Op -> Nat],
           AskedOnce', \A o \in Op : journal'[o].gone = journal[o].gone
    PROVE  ProviderInv'
<1>1. RecordTypes
  BY DEF ProviderInv
<1>2. /\ request' \in [Call -> RequestRecord]
      /\ request'[c].pc = pc /\ request'[c].op = act /\ request'[c].vm = v
      /\ \A d \in Call : d # c => request'[d] = request[d]
  <2>1. v \in Sandbox \cup {NoVM} /\ pc \in {"creating", "running", "file", "capture", "pausing",
            "snapshotting", "resuming", "allocating"}
    OBVIOUS
  <2>2. QED BY <1>1, <2>1, AwaitMoves
<1>3. RecordTypes'
  BY <1>1, <1>2 DEF RecordTypes
<1>4. \A d \in Call : ~Holds(d) /\ ~Kills(d)
  BY <1>1 DEF ProviderInv, OneAtATime, WithoutVM, Holds
<1>5. OneAtATime'
  BY <1>2, <1>4 DEF ProviderInv, OneAtATime, Holds, Commands, Excludes, Kills
<1>6. prov.sandbox = NoVM => \A d \in Call : ~Uses(d)
  BY <1>4 DEF ProviderInv, WithoutVM, Holds, Excludes
<1>7. OneVM' /\ WithoutVM' /\ CreatesAlone'
  BY <1>2, <1>4, <1>6 DEF ProviderInv, OneVM, WithoutVM, CreatesAlone, Uses, Kills, NoVM
<1>8. Observes' /\ LostQuarantined' /\ ConfirmedMeansGone'
  BY <1>2, <1>4 DEF ProviderInv, Observes, LostQuarantined, ConfirmedMeansGone, Kills
<1>9. QED BY <1>3, <1>5, <1>7, <1>8 DEF ProviderInv

LEMMA RunKeeps ==
    ASSUME ProviderInv, NEW c \in Call, NEW act \in Op, Run(c, act)
    PROVE  ProviderInv'
<1> DEFINE p == [prov EXCEPT !.active = {act}]
<1>1. RecordTypes
  BY DEF ProviderInv
<1>2. /\ p \in ProvRecord /\ p.sandbox = prov.sandbox /\ p.active = {act}
      /\ p.workspace = prov.workspace /\ p.quarantined = prov.quarantined
      /\ p.creating = prov.creating /\ p.observed = prov.observed
  BY <1>1 DEF RecordTypes, ProvRecord
<1>3. prov' = p
  BY DEF Run
<1> HIDE DEF p
<1>4. prov.sandbox \in Sandbox /\ ~prov.creating /\ ~prov.workspace /\ p.active # {}
  BY <1>1, <1>2 DEF Run, ProviderInv, RecordTypes, ProvRecord, CreatesAlone, OneAtATime
<1>5. journal' \in [Op -> JournalEntry] /\ allocations' \in [Op -> Nat] /\ AskedOnce'
  BY <1>1 DEF RecordTypes, ProviderInv, AskedOnce, Run, KeepNative
<1>6. /\ Await(c, "running", act, prov.sandbox) /\ request[c].pc = "free" /\ ~prov.quarantined
      /\ prov.active = {} /\ prov.sandbox # NoVM
      /\ UNCHANGED <<remote, lost, confirmed, journal>>
  BY DEF Run, KeepNative
<1>7. QED BY <1>2, <1>3, <1>4, <1>5, <1>6, EnterKeeps

LEMMA EnteredFields ==
    ASSUME RecordTypes
    PROVE  /\ Entered \in ProvRecord /\ Entered.sandbox = prov.sandbox
           /\ Entered.quarantined = prov.quarantined /\ Entered.creating = prov.creating
           /\ Entered.observed = prov.observed
           /\ Entered.active = {FileWork} /\ Entered.workspace
BY DEF RecordTypes, Entered, ProvRecord

LEMMA TransferKeeps ==
    ASSUME ProviderInv, NEW c \in Call, Transfer(c)
    PROVE  ProviderInv'
<1>1. RecordTypes
  BY DEF ProviderInv
<1>2. prov.sandbox \in Sandbox /\ NoOp \in Op \cup {NoOp}
  BY <1>1 DEF Transfer, RecordTypes, ProvRecord
<1>3. journal' \in [Op -> JournalEntry] /\ allocations' \in [Op -> Nat] /\ AskedOnce'
  BY <1>1 DEF RecordTypes, ProviderInv, AskedOnce, Transfer, KeepNative
<1>4. /\ Await(c, "file", NoOp, prov.sandbox) /\ request[c].pc = "free" /\ ~prov.quarantined
      /\ prov.active = {} /\ prov.sandbox # NoVM /\ ~prov.creating /\ prov' = Entered
      /\ UNCHANGED <<remote, lost, confirmed, journal>>
  BY DEF Transfer, KeepNative, MayEnter
<1>5. QED BY <1>1, <1>2, <1>3, <1>4, EnteredFields, EnterKeeps

LEMMA NativeKeeps ==
    ASSUME ProviderInv, NEW c \in Call, NEW pc, NEW act \in Op, NEW v \in Sandbox,
           NEW paused \in BOOLEAN, NEW missing \in BOOLEAN, Native(c, pc, act, v, paused, missing),
           pc \in {"pausing", "snapshotting", "resuming", "allocating"},
           missing => pc \in {"resuming", "allocating"},
           allocations' = allocations \/ Asked(act)
    PROVE  ProviderInv'
<1>1. RecordTypes
  BY DEF ProviderInv
<1>2. /\ Await(c, pc, act, v) /\ request[c].pc = "free" /\ ~prov.quarantined /\ ~prov.creating
      /\ prov.active = {} /\ prov' = Entered
      /\ UNCHANGED <<remote, lost, confirmed>>
  BY DEF Native, MayEnter
<1>3. prov.sandbox \in {v} \cup (IF missing THEN {NoVM} ELSE {})
  BY DEF Native, MayEnter
<1>4. prov.sandbox \in {v, NoVM} /\ (prov.sandbox = NoVM => missing)
  <2>1. v # NoVM
    BY DEF NoVM
  <2>2. QED BY <1>3, <2>1
<1>5. journal[act].status = "none" /\ journal' = [journal EXCEPT ![act].status = "pending"]
  BY DEF Native, MayBegin, Begun
<1>6. /\ journal' \in [Op -> JournalEntry]
      /\ \A o \in Op : journal'[o].gone = journal[o].gone
      /\ \A o \in Op : o # act => journal'[o] = journal[o]
      /\ journal'[act].status = "pending"
  BY <1>1, <1>5 DEF RecordTypes, JournalEntry
<1>7. /\ allocations' \in [Op -> Nat] /\ \A o \in Op : o # act => allocations'[o] = allocations[o]
      /\ allocations'[act] =< allocations[act] + 1
  BY <1>1 DEF RecordTypes, Asked
<1>8. AskedOnce'
  <2>1. allocations[act] =< 0 /\ allocations[act] \in Nat /\ allocations'[act] \in Nat
    BY <1>1, <1>5, <1>7 DEF ProviderInv, AskedOnce, RecordTypes
  <2>2. allocations'[act] =< 1
    BY <1>7, <2>1
  <2>3. QED BY <1>6, <1>7, <2>2 DEF ProviderInv, AskedOnce
<1>9. QED BY <1>1, <1>2, <1>4, <1>6, <1>7, <1>8, EnteredFields, EnterKeeps

LEMMA NativesKeep ==
    ASSUME ProviderInv, NEW c \in Call, NEW act \in Op,
           \/ Pause(c, act) \/ Snapshot(c, act) \/ Fork(c, act)
           \/ \E v \in Sandbox : Resume(c, act, v) \/ RestoreSnapshot(c, act, v)
    PROVE  ProviderInv'
<1>1. prov.sandbox # NoVM => prov.sandbox \in Sandbox
  BY DEF ProviderInv, RecordTypes, ProvRecord
<1>2. CASE Pause(c, act)
  BY <1>1, <1>2, NativeKeeps DEF Pause
<1>3. CASE Snapshot(c, act)
  BY <1>1, <1>3, NativeKeeps DEF Snapshot
<1>4. CASE Fork(c, act)
  BY <1>1, <1>4, NativeKeeps DEF Fork
<1>5. ASSUME NEW v \in Sandbox, Resume(c, act, v) PROVE ProviderInv'
  BY <1>5, NativeKeeps DEF Resume
<1>6. ASSUME NEW v \in Sandbox, RestoreSnapshot(c, act, v) PROVE ProviderInv'
  BY <1>6, NativeKeeps DEF RestoreSnapshot
<1>7. QED BY <1>2, <1>3, <1>4, <1>5, <1>6

\* capture_file enters nothing.
LEMMA CaptureKeeps ==
    ASSUME ProviderInv, NEW c \in Call, Capture(c)
    PROVE  ProviderInv'
<1>1. RecordTypes
  BY DEF ProviderInv
<1>2. prov.sandbox \in Sandbox /\ prov.sandbox # NoVM
  BY <1>1 DEF Capture, RecordTypes, ProvRecord
<1>3. /\ request' \in [Call -> RequestRecord] /\ request'[c].pc = "capture"
      /\ request'[c].vm = prov.sandbox
      /\ \A d \in Call : d # c => request'[d] = request[d]
  BY <1>1, <1>2, AwaitMoves DEF Capture
<1>4. RecordTypes'
  BY <1>1, <1>3 DEF RecordTypes, Capture, KeepNative
<1>5. prov' = prov /\ request[c].pc = "free" /\ remote' = remote
  BY DEF Capture
<1>6. OneAtATime' /\ OneVM' /\ WithoutVM' /\ CreatesAlone'
  BY <1>2, <1>3, <1>5 DEF ProviderInv, OneAtATime, OneVM, WithoutVM, CreatesAlone,
        Holds, Commands, Excludes, Uses, Kills
<1>7. Observes' /\ LostQuarantined' /\ ConfirmedMeansGone' /\ AskedOnce'
  BY <1>3, <1>5 DEF ProviderInv, Observes, LostQuarantined, ConfirmedMeansGone, AskedOnce,
        Capture, KeepNative, Kills
<1>8. QED BY <1>4, <1>6, <1>7 DEF ProviderInv

\* A kill that begins, or does not, for a call that used the VM or was idle.
LEMMA CloseKeeps ==
    ASSUME ProviderInv, NEW c \in Call, Close(c)
    PROVE  ProviderInv'
<1> DEFINE k == [Free EXCEPT !.vm = prov.sandbox, !.then = "close"]
<1> DEFINE p == Killing(prov, c)
<1>1. RecordTypes
  BY DEF ProviderInv
<1>2. /\ request[c].pc = "free" /\ MayKill(prov) /\ prov \in ProvRecord
      /\ prov.sandbox # NoVM /\ prov.sandbox \in Sandbox /\ ~prov.creating
  BY <1>1 DEF Close, MayKill, RecordTypes, ProvRecord
<1>3. k \in RequestRecord /\ k.vm = prov.sandbox /\ k.then = "close"
  BY <1>2 DEF Free, RequestRecord, NoOp
<1>4. CloseFor(c, k, prov, prov)
  BY DEF Close
<1> HIDE DEF k
<1>5. /\ request' \in [Call -> RequestRecord]
      /\ request'[c].pc = "killing" /\ request'[c].vm = prov.sandbox
      /\ request'[c].then = "close"
      /\ \A d \in Call : d # c => request'[d] = request[d]
      /\ prov' = p /\ confirmed' = confirmed
  BY <1>1, <1>2, <1>3, <1>4, CloseForMoves
<1>6. /\ p \in ProvRecord /\ p.quarantined /\ p.sandbox = prov.sandbox /\ p.active = prov.active
      /\ p.workspace = prov.workspace /\ p.creating = prov.creating
      /\ p.observed.vm = prov.sandbox /\ ~p.observed.confirmed /\ p.observed.by = c
  BY <1>2, KillingFields
<1> HIDE DEF p
<1>7. RecordTypes'
  BY <1>1, <1>5, <1>6 DEF RecordTypes, Close, KeepNative
<1>8. OneAtATime' /\ OneVM' /\ WithoutVM' /\ CreatesAlone'
  BY <1>2, <1>5, <1>6 DEF ProviderInv, OneAtATime, OneVM, WithoutVM, CreatesAlone,
        Holds, Commands, Excludes, Uses, Kills
<1>9. Observes'
  BY <1>2, <1>5, <1>6 DEF ProviderInv, Observes, OneVM, Uses, Kills
<1>10. LostQuarantined' /\ ConfirmedMeansGone' /\ AskedOnce'
  BY <1>5, <1>6 DEF ProviderInv, LostQuarantined, ConfirmedMeansGone, AskedOnce, Close, KeepNative
<1>11. QED BY <1>7, <1>8, <1>9, <1>10 DEF ProviderInv

\* A call that uses the VM, or none, begins to kill it.
LEMMA KillBegins ==
    ASSUME ProviderInv, NEW c \in Call, NEW p \in ProvRecord, prov' = Killing(p, c),
           request' \in [Call -> RequestRecord],
           \A d \in Call : d # c => request'[d] = request[d],
           request'[c].pc = "killing", request'[c].vm = p.sandbox,
           request'[c].then = "run" => Commands(c), request'[c].then = "file" => Excludes(c),
           p.sandbox \in Sandbox, \A d \in Call : Uses(d) => request[d].vm = p.sandbox,
           p.active = prov.active, p.workspace = prov.workspace,
           ~prov.creating, ~p.creating,
           UNCHANGED <<remote, confirmed>>, lost' \subseteq Sandbox, KeepNative
    PROVE  ProviderInv'
<1> DEFINE q == Killing(p, c)
<1>1. RecordTypes
  BY DEF ProviderInv
<1>2. /\ q \in ProvRecord /\ q.quarantined /\ q.sandbox = p.sandbox /\ q.active = prov.active
      /\ q.workspace = prov.workspace /\ ~q.creating
      /\ q.observed.vm = p.sandbox /\ ~q.observed.confirmed /\ q.observed.by = c
  BY KillingFields
<1>3. prov' = q
  OBVIOUS
<1> HIDE DEF q
<1>4. RecordTypes'
  BY <1>1, <1>2, <1>3 DEF RecordTypes, KeepNative
<1>5. \A d \in Call : Holds(d)' => Holds(d)
  BY DEF Holds, Commands, Excludes, Kills
<1>6. /\ \A d \in Call : Commands(d)' => Commands(d)
      /\ \A d \in Call : Excludes(d)' => Excludes(d)
  BY DEF Commands, Excludes, Kills
<1>7. OneAtATime'
  BY <1>2, <1>3, <1>5, <1>6 DEF ProviderInv, OneAtATime
<1>8. OneVM' /\ WithoutVM' /\ CreatesAlone'
  BY <1>2, <1>3 DEF ProviderInv, OneVM, WithoutVM, CreatesAlone, Uses, Kills
<1>9. Observes'
  BY <1>2, <1>3 DEF ProviderInv, Observes, Uses, Kills, NoVM
<1>10. LostQuarantined' /\ ConfirmedMeansGone' /\ AskedOnce'
  BY <1>2, <1>3 DEF ProviderInv, LostQuarantined, ConfirmedMeansGone, AskedOnce, KeepNative
<1>11. QED BY <1>4, <1>7, <1>8, <1>9, <1>10 DEF ProviderInv

\* A call ends and tells its caller what it knows of the VM.
LEMMA CallEnds ==
    ASSUME ProviderInv, NEW c \in Call, NEW p \in ProvRecord, prov' = p,
           request' \in [Call -> RequestRecord], request'[c].pc = "free",
           \A d \in Call : d # c => request'[d] = request[d],
           p.creating = prov.creating, prov.quarantined => p.quarantined,
           \/ p.sandbox = prov.sandbox
           \/ Uses(c) /\ p.sandbox = request[c].vm
           \/ Kills(c) /\ p.sandbox = NoVM,
           \/ p.active = prov.active /\ p.workspace = prov.workspace /\ ~Holds(c)
           \/ Commands(c) /\ p.active \subseteq prov.active /\ p.workspace = prov.workspace
           \/ Excludes(c) /\ p.active = prov.active \ {FileWork} /\ ~p.workspace,
           \/ p.observed.vm = prov.observed.vm /\ p.observed.by = prov.observed.by
           \/ p.observed.vm \in Sandbox /\ p.observed.by = NoCall,
           p.observed.confirmed =>
               p.observed.vm \in Sandbox /\ remote'[p.observed.vm] = "gone",
           remote' \in [Sandbox -> {"none", "alive", "gone"}],
           \A v \in Sandbox : remote[v] = "gone" => remote'[v] = "gone",
           NEW v \in Sandbox \cup {NoVM}, confirmed' \in {confirmed, confirmed \cup Told(p, v)},
           lost' \subseteq Sandbox, lost' # {} => p.quarantined,
           journal' \in [Op -> JournalEntry], allocations' = allocations,
           \A o \in Op : /\ journal'[o].gone = journal[o].gone
                         /\ journal'[o].status = "none" => journal[o].status = "none"
    PROVE  ProviderInv'
<1>1. RecordTypes
  BY DEF ProviderInv
<1>2. confirmed' \subseteq confirmed \cup {w \in Sandbox : remote'[w] = "gone"}
  BY DEF Told
<1>3. RecordTypes'
  BY <1>1, <1>2 DEF RecordTypes
<1>4. \A d \in Call : /\ Holds(d)' <=> d # c /\ Holds(d)
                      /\ Commands(d)' <=> d # c /\ Commands(d)
                      /\ Excludes(d)' <=> d # c /\ Excludes(d)
                      /\ Uses(d)' <=> d # c /\ Uses(d)
                      /\ Kills(d)' <=> d # c /\ Kills(d)
  BY DEF Holds, Commands, Excludes, Kills, Uses
<1>5. Commands(c) => prov.active # {} /\ ~prov.workspace
  BY DEF ProviderInv, OneAtATime
<1>6. Excludes(c) => prov.active = {FileWork}
  BY DEF ProviderInv, OneAtATime
<1>7. OneAtATime'
  BY <1>4, <1>5, <1>6 DEF ProviderInv, OneAtATime, Holds
<1>8. OneVM' /\ WithoutVM'
  BY <1>4 DEF ProviderInv, OneVM, WithoutVM, NoVM
<1>9. CreatesAlone'
  BY <1>4 DEF ProviderInv, CreatesAlone, Kills, Uses
<1>10. Observes'
  <2>1. p.sandbox = NoVM => prov.sandbox = NoVM \/ Kills(c)
    BY DEF ProviderInv, OneVM, NoVM
  <2>2. p.active # {} /\ ~p.workspace => prov.active # {} /\ ~prov.workspace
    BY <1>5, <1>6
  <2>3. NoCall \notin Call
    BY DEF NoCall
  <2>4. QED BY <1>4, <2>1, <2>2, <2>3 DEF ProviderInv, Observes
<1>11. LostQuarantined' /\ AskedOnce'
  <2>1. \A o \in Op : allocations[o] \in Nat
    BY <1>1 DEF RecordTypes
  <2>2. AskedOnce'
    BY <2>1 DEF ProviderInv, AskedOnce
  <2>3. QED BY <2>2 DEF LostQuarantined
<1>12. ConfirmedMeansGone'
  BY <1>1, <1>2 DEF ProviderInv, ConfirmedMeansGone, RecordTypes
<1>13. QED BY <1>3, <1>7, <1>8, <1>9, <1>10, <1>11, <1>12 DEF ProviderInv

LEMMA CloseForKeeps ==
    ASSUME ProviderInv, NEW c \in Call, NEW k \in RequestRecord, NEW p \in ProvRecord,
           NEW orElse \in ProvRecord, CloseFor(c, k, p, orElse),
           \* what goes on when the kill begins
           MayKill(p) => p.sandbox = k.vm /\ p.sandbox \in Sandbox
                            /\ \A d \in Call : Uses(d) => request[d].vm = k.vm,
           k.then = "run" => Commands(c), k.then = "file" => Excludes(c),
           p.active = prov.active, p.workspace = prov.workspace, ~prov.creating, ~p.creating,
           \* and when it does not
           ~orElse.creating, prov.quarantined => orElse.quarantined,
           orElse.sandbox = prov.sandbox \/ (Uses(c) /\ orElse.sandbox = request[c].vm),
           \/ orElse.active = prov.active /\ orElse.workspace = prov.workspace /\ ~Holds(c)
           \/ Commands(c) /\ orElse.active \subseteq prov.active
                          /\ orElse.workspace = prov.workspace
           \/ Excludes(c) /\ orElse.active = prov.active \ {FileWork} /\ ~orElse.workspace,
           \/ orElse.observed.vm = prov.observed.vm /\ orElse.observed.by = prov.observed.by
           \/ orElse.observed.vm \in Sandbox /\ orElse.observed.by = NoCall,
           orElse.observed.confirmed =>
               orElse.observed.vm \in Sandbox /\ remote[orElse.observed.vm] = "gone",
           remote' = remote, lost' \subseteq Sandbox, lost' # {} => orElse.quarantined, KeepNative
    PROVE  ProviderInv'
<1>1. RecordTypes
  BY DEF ProviderInv
<1>2. /\ request' \in [Call -> RequestRecord]
      /\ \A d \in Call : d # c => request'[d] = request[d]
      /\ \/ /\ MayKill(p) /\ prov' = Killing(p, c) /\ confirmed' = confirmed
            /\ request'[c].pc = "killing" /\ request'[c].vm = k.vm
            /\ request'[c].then = k.then
         \/ /\ prov' = orElse /\ confirmed' = confirmed \cup Told(orElse, k.vm)
            /\ request'[c].pc = "free"
  BY <1>1, CloseForMoves
<1>3. CASE MayKill(p) /\ prov' = Killing(p, c) /\ request'[c].pc = "killing"
  <2>1. confirmed' = confirmed /\ request'[c].vm = p.sandbox /\ request'[c].then = k.then
    BY <1>2, <1>3
  <2>2. QED BY <1>2, <1>3, <2>1, KillBegins
<1>4. CASE prov' = orElse /\ request'[c].pc = "free"
  <2>1. /\ confirmed' \in {confirmed, confirmed \cup Told(orElse, k.vm)}
        /\ k.vm \in Sandbox \cup {NoVM}
    BY <1>2, <1>4 DEF RequestRecord
  <2>2. /\ remote' \in [Sandbox -> {"none", "alive", "gone"}]
        /\ \A v \in Sandbox : remote[v] = "gone" => remote'[v] = "gone"
        /\ journal' \in [Op -> JournalEntry] /\ allocations' = allocations
        /\ \A o \in Op : /\ journal'[o].gone = journal[o].gone
                         /\ journal'[o].status = "none" => journal[o].status = "none"
    BY <1>1 DEF RecordTypes, KeepNative
  <2>3. /\ orElse.creating = prov.creating
        /\ orElse.observed.confirmed =>
               orElse.observed.vm \in Sandbox /\ remote'[orElse.observed.vm] = "gone"
        /\ \/ orElse.sandbox = prov.sandbox
           \/ Uses(c) /\ orElse.sandbox = request[c].vm
           \/ Kills(c) /\ orElse.sandbox = NoVM
    BY <1>1 DEF RecordTypes, ProvRecord
  <2>4. QED BY <1>2, <1>4, <2>1, <2>2, <2>3, CallEnds
<1>5. QED BY <1>2, <1>3, <1>4

LEMMA RunLostKeeps ==
    ASSUME ProviderInv, NEW c \in Call, RunLost(c)
    PROVE  ProviderInv'
<1> DEFINE k == [request[c] EXCEPT !.then = "run"]
<1> DEFINE p == Suspected(prov, k.vm)
<1> DEFINE q == Leave(p, k)
<1>1. /\ RecordTypes /\ request[c].pc = "running" /\ CloseFor(c, k, p, q) /\ remote' = remote
      /\ lost' = lost \cup {k.vm} /\ KeepNative
  BY DEF ProviderInv, RunLost
<1>2. /\ Uses(c) /\ Commands(c) /\ request[c].vm \in Sandbox
      /\ prov.sandbox \in {request[c].vm, NoVM}
      /\ \A d \in Call : Uses(d) => request[d].vm = request[c].vm
      /\ ~prov.creating
  BY <1>1 DEF ProviderInv, OneVM, CreatesAlone, Uses, Commands
<1>3. k \in RequestRecord /\ k.vm = request[c].vm /\ k.then = "run" /\ k.op = request[c].op
  BY <1>1 DEF RecordTypes, RequestRecord
<1> HIDE DEF k
<1>4. prov \in ProvRecord
  BY <1>1 DEF RecordTypes
<1>5. /\ p \in ProvRecord /\ p.quarantined /\ p.sandbox = prov.sandbox /\ p.active = prov.active
      /\ p.workspace = prov.workspace /\ p.creating = prov.creating /\ p.observed.vm = k.vm
      /\ p.observed.confirmed => prov.observed.vm = k.vm /\ prov.observed.confirmed
      /\ p.observed = prov.observed \/ p.observed.by = NoCall
  BY <1>2, <1>3, <1>4, SuspectedFields
<1> HIDE DEF p
<1>6. /\ q \in ProvRecord /\ q.sandbox = p.sandbox /\ q.quarantined = p.quarantined
      /\ q.creating = p.creating /\ q.observed = p.observed
      /\ q.active = p.active \ {k.op} /\ q.workspace = p.workspace
  <2>1. k \in RequestRecord /\ p \in ProvRecord /\ k.then = "run"
    BY <1>3, <1>5
  <2>2. QED BY <2>1, LeaveFields
<1> HIDE DEF q
<1>7. q.observed.confirmed => q.observed.vm \in Sandbox /\ remote[q.observed.vm] = "gone"
  BY <1>5, <1>6 DEF ProviderInv, Observes
<1>8. MayKill(p) => p.sandbox = k.vm /\ p.sandbox \in Sandbox
  BY <1>2, <1>3, <1>5 DEF MayKill
<1>9. q.quarantined
  BY <1>5, <1>6
<1>10. \/ q.observed.vm = prov.observed.vm /\ q.observed.by = prov.observed.by
       \/ q.observed.vm \in Sandbox /\ q.observed.by = NoCall
  BY <1>2, <1>3, <1>5, <1>6
<1>11. lost' \subseteq Sandbox
  BY <1>1, <1>2, <1>3 DEF RecordTypes
<1>12. QED
  BY <1>1, <1>2, <1>3, <1>5, <1>6, <1>7, <1>8, <1>9, <1>10, <1>11, CloseForKeeps

LEMMA CancelKeeps ==
    ASSUME ProviderInv, NEW c \in Call, NEW act \in Op, Cancel(c, act)
    PROVE  ProviderInv'
<1> DEFINE v == IF prov.sandbox # NoVM THEN prov.sandbox ELSE prov.observed.vm
<1> DEFINE k == [Free EXCEPT !.vm = v, !.then = "cancel"]
<1> DEFINE o == [prov EXCEPT !.cancelled = @ \cup {act}]
<1> DEFINE p == Suspected(o, v)
<1>1. /\ RecordTypes /\ request[c].pc = "free" /\ CloseFor(c, k, p, p) /\ remote' = remote
      /\ lost' = lost \cup {v} /\ KeepNative /\ ~prov.workspace /\ act \in prov.active
  BY DEF ProviderInv, Cancel
<1>2. /\ v \in Sandbox
      /\ prov.sandbox # NoVM => v = prov.sandbox
      /\ ~Holds(c) /\ ~prov.creating
  BY <1>1 DEF ProviderInv, Observes, CreatesAlone, RecordTypes, ProvRecord, Holds, Commands,
        Excludes, Kills
<1> HIDE DEF v
<1>3. k \in RequestRecord /\ k.vm = v /\ k.then = "cancel"
  BY <1>2 DEF Free, RequestRecord, NoOp
<1> HIDE DEF k
<1>4. /\ o \in ProvRecord /\ o.sandbox = prov.sandbox /\ o.active = prov.active
      /\ o.workspace = prov.workspace /\ o.creating = prov.creating /\ o.observed = prov.observed
  BY <1>1 DEF RecordTypes, ProvRecord
<1> HIDE DEF o
<1>5. /\ p \in ProvRecord /\ p.quarantined /\ p.sandbox = prov.sandbox /\ p.active = prov.active
      /\ p.workspace = prov.workspace /\ p.creating = prov.creating /\ p.observed.vm = v
      /\ p.observed.confirmed => prov.observed.vm = v /\ prov.observed.confirmed
      /\ p.observed = prov.observed \/ p.observed.by = NoCall
  BY <1>2, <1>4, SuspectedFields
<1> HIDE DEF p
<1>6. p.observed.confirmed => p.observed.vm \in Sandbox /\ remote[p.observed.vm] = "gone"
  BY <1>5 DEF ProviderInv, Observes
<1>7. MayKill(p) => /\ p.sandbox = k.vm /\ p.sandbox \in Sandbox
                    /\ \A d \in Call : Uses(d) => request[d].vm = k.vm
  BY <1>2, <1>3, <1>5 DEF MayKill, ProviderInv, OneVM
<1>8. lost' \subseteq Sandbox
  BY <1>1, <1>2 DEF RecordTypes
<1>9. \/ p.observed.vm = prov.observed.vm /\ p.observed.by = prov.observed.by
      \/ p.observed.vm \in Sandbox /\ p.observed.by = NoCall
  BY <1>2, <1>5
<1>10. QED
  BY <1>1, <1>2, <1>3, <1>5, <1>6, <1>7, <1>8, <1>9, CloseForKeeps

LEMMA TransferLostKeeps ==
    ASSUME ProviderInv, NEW c \in Call, TransferLost(c)
    PROVE  ProviderInv'
<1> DEFINE k == [request[c] EXCEPT !.then = request[c].pc]
<1> DEFINE p == Quarantined(prov)
<1> DEFINE u == [p EXCEPT !.observed = [vm |-> k.vm, confirmed |-> FALSE, by |-> NoCall]]
<1> DEFINE r == Leave(prov, k)
<1> DEFINE q == Leave(u, k)
<1>1. /\ RecordTypes /\ request[c].pc \in {"file", "capture"} /\ remote' = remote /\ KeepNative
      /\ IF prov.sandbox = NoVM THEN prov' = r /\ End(c) /\ UNCHANGED confirmed
                                ELSE CloseFor(c, k, p, q)
  BY DEF ProviderInv, TransferLost
<1>2. /\ Uses(c) /\ request[c].vm \in Sandbox /\ prov.sandbox \in {request[c].vm, NoVM}
      /\ \A d \in Call : Uses(d) => request[d].vm = request[c].vm
      /\ ~prov.creating
      /\ prov.sandbox = NoVM => prov.quarantined
  BY <1>1 DEF ProviderInv, OneVM, CreatesAlone, WithoutVM, Uses
<1>3. k \in RequestRecord /\ k.vm = request[c].vm /\ k.then = request[c].pc /\ k.pc = request[c].pc
  BY <1>1 DEF RecordTypes, RequestRecord
<1>4. lost' \subseteq lost \cup {k.vm}
  BY DEF TransferLost
<1> HIDE DEF k
<1>5. prov \in ProvRecord
  BY <1>1 DEF RecordTypes
<1>6. /\ p \in ProvRecord /\ p.quarantined /\ p.sandbox = prov.sandbox /\ p.active = prov.active
      /\ p.workspace = prov.workspace /\ p.creating = prov.creating
  BY <1>5 DEF Quarantined, ProvRecord
<1> HIDE DEF p
<1>7. /\ u \in ProvRecord /\ u.quarantined /\ u.sandbox = prov.sandbox /\ u.active = prov.active
      /\ u.workspace = prov.workspace /\ u.creating = prov.creating
      /\ u.observed.vm = k.vm /\ ~u.observed.confirmed /\ u.observed.by = NoCall
  BY <1>2, <1>3, <1>6 DEF ProvRecord
<1> HIDE DEF u
<1>8. /\ q \in ProvRecord /\ q.sandbox = u.sandbox /\ q.quarantined = u.quarantined
      /\ q.creating = u.creating /\ q.observed = u.observed
      /\ k.then = "file" => q.active = u.active \ {FileWork} /\ ~q.workspace
      /\ k.then = "capture" => q = u
  BY <1>3, <1>7, LeaveFields
<1>9. /\ r \in ProvRecord /\ r.sandbox = prov.sandbox /\ r.quarantined = prov.quarantined
      /\ r.creating = prov.creating /\ r.observed = prov.observed
      /\ k.then = "file" => r.active = prov.active \ {FileWork} /\ ~r.workspace
      /\ k.then = "capture" => r = prov
  BY <1>3, <1>5, LeaveFields
<1> HIDE DEF q, r
<1>10. /\ k.then = "file" => Excludes(c)
       /\ k.then = "capture" => ~Holds(c)
       /\ k.then \in {"file", "capture"}
  BY <1>1, <1>3 DEF Excludes, Holds, Commands, Kills
<1>11. lost' \subseteq Sandbox
  BY <1>1, <1>2, <1>3, <1>4 DEF RecordTypes
<1>12. CASE prov.sandbox # NoVM
  <2>1. CloseFor(c, k, p, q) /\ remote' = remote /\ KeepNative
    BY <1>1, <1>12
  <2>2. p.sandbox = k.vm /\ p.sandbox \in Sandbox
    BY <1>2, <1>3, <1>6, <1>12
  <2>3. \/ q.active = prov.active /\ q.workspace = prov.workspace /\ ~Holds(c)
        \/ Commands(c) /\ q.active \subseteq prov.active /\ q.workspace = prov.workspace
        \/ Excludes(c) /\ q.active = prov.active \ {FileWork} /\ ~q.workspace
    BY <1>7, <1>8, <1>10
  <2>4. k.then # "run" /\ (k.then = "file" => Excludes(c))
    BY <1>10
  <2>5. q.observed.vm \in Sandbox /\ q.observed.by = NoCall /\ ~q.observed.confirmed
    BY <1>2, <1>3, <1>7, <1>8
  <2>6. ~q.creating /\ q.quarantined /\ q.sandbox = prov.sandbox
    BY <1>2, <1>7, <1>8
  <2>7. QED
    BY <1>2, <1>3, <1>6, <1>8, <1>11, <2>1, <2>2, <2>3, <2>4, <2>5, <2>6, CloseForKeeps
<1>13. CASE prov.sandbox = NoVM
  <2>1. /\ prov' = r /\ request' \in [Call -> RequestRecord] /\ request'[c].pc = "free"
        /\ \A d \in Call : d # c => request'[d] = request[d]
        /\ confirmed' = confirmed
    BY <1>1, <1>13, EndMoves
  <2>2. \/ r.active = prov.active /\ r.workspace = prov.workspace /\ ~Holds(c)
        \/ Commands(c) /\ r.active \subseteq prov.active /\ r.workspace = prov.workspace
        \/ Excludes(c) /\ r.active = prov.active \ {FileWork} /\ ~r.workspace
    BY <1>9, <1>10
  <2>3. /\ remote' \in [Sandbox -> {"none", "alive", "gone"}]
        /\ \A w \in Sandbox : remote[w] = "gone" => remote'[w] = "gone"
        /\ journal' \in [Op -> JournalEntry] /\ allocations' = allocations
        /\ \A o \in Op : /\ journal'[o].gone = journal[o].gone
                         /\ journal'[o].status = "none" => journal[o].status = "none"
    BY <1>1 DEF RecordTypes, KeepNative
  <2>4. r.observed.confirmed => r.observed.vm \in Sandbox /\ remote'[r.observed.vm] = "gone"
    BY <1>1, <1>9 DEF ProviderInv, Observes
  <2>5. confirmed' \in {confirmed, confirmed \cup Told(r, NoVM)} /\ NoVM \in Sandbox \cup {NoVM}
    BY <2>1
  <2>6. QED
    BY <1>2, <1>9, <1>11, <1>13, <2>1, <2>2, <2>3, <2>4, <2>5, CallEnds
<1>14. QED BY <1>12, <1>13

LEMMA ResumeFailsKeeps ==
    ASSUME ProviderInv, NEW c \in Call, ResumeFails(c)
    PROVE  ProviderInv'
<1> DEFINE k == [request[c] EXCEPT !.then = "file"]
<1>1. PICK p \in {prov, [prov EXCEPT !.sandbox = k.vm]} : CloseFor(c, k, p, Leave(p, k))
  BY DEF ResumeFails
<1> DEFINE q == Leave(p, k)
<1>2. /\ RecordTypes /\ request[c].pc = "resuming" /\ remote' = remote /\ lost' = lost
      /\ KeepNative
  BY DEF ProviderInv, ResumeFails
<1>3. /\ Uses(c) /\ Excludes(c) /\ request[c].vm \in Sandbox
      /\ prov.sandbox \in {request[c].vm, NoVM}
      /\ \A d \in Call : Uses(d) => request[d].vm = request[c].vm
      /\ ~prov.creating /\ ~Commands(c)
  BY <1>2 DEF ProviderInv, OneVM, CreatesAlone, Uses, Excludes, Commands, Kills
<1>4. k \in RequestRecord /\ k.vm = request[c].vm /\ k.then = "file"
  BY <1>2 DEF RecordTypes, RequestRecord
<1> HIDE DEF k
<1>5. /\ p \in ProvRecord /\ p.sandbox \in {prov.sandbox, k.vm} /\ p.quarantined = prov.quarantined
      /\ p.active = prov.active /\ p.workspace = prov.workspace /\ p.creating = prov.creating
      /\ p.observed = prov.observed
  BY <1>2, <1>3, <1>4 DEF RecordTypes, ProvRecord
<1>6. /\ q \in ProvRecord /\ q.sandbox = p.sandbox /\ q.quarantined = p.quarantined
      /\ q.creating = p.creating /\ q.observed = p.observed
      /\ q.active = p.active \ {FileWork} /\ ~q.workspace
  BY <1>4, <1>5, LeaveFields
<1>7. CloseFor(c, k, p, q)
  BY <1>1
<1> HIDE DEF q
<1>8. q.observed.confirmed => q.observed.vm \in Sandbox /\ remote[q.observed.vm] = "gone"
  BY <1>5, <1>6 DEF ProviderInv, Observes
<1>9. /\ lost' \subseteq Sandbox
      /\ lost' # {} => q.quarantined
  BY <1>2, <1>5, <1>6 DEF ProviderInv, RecordTypes, LostQuarantined
<1>10. MayKill(p) => p.sandbox = k.vm /\ p.sandbox \in Sandbox
  BY <1>3, <1>4, <1>5 DEF MayKill
<1>11. /\ q.observed.vm = prov.observed.vm /\ q.observed.by = prov.observed.by
       /\ ~q.creating /\ (prov.quarantined => q.quarantined)
       /\ q.sandbox = prov.sandbox \/ (Uses(c) /\ q.sandbox = request[c].vm)
       /\ Excludes(c) /\ q.active = prov.active \ {FileWork} /\ ~q.workspace
  BY <1>3, <1>4, <1>5, <1>6
<1>12. QED
  BY <1>2, <1>3, <1>4, <1>5, <1>6, <1>7, <1>8, <1>9, <1>10, <1>11, CloseForKeeps

LEMMA KilledKeeps ==
    ASSUME ProviderInv, NEW c \in Call, NEW ok \in BOOLEAN, Killed(c, ok)
    PROVE  ProviderInv'
<1> DEFINE k == request[c]
<1> DEFINE closed == IF ~Confirms(ok) THEN [prov EXCEPT !.closing = FALSE]
                     ELSE [prov EXCEPT !.closing = FALSE, !.sandbox = NoVM, !.paused = FALSE,
                               !.observed.confirmed = @ \/ prov.observed.by = c]
<1> DEFINE last == IF k.then \in {"file", "capture"}
                   THEN [closed EXCEPT !.observed = [vm |-> k.vm, confirmed |-> Confirms(ok),
                                                     by |-> NoCall]]
                   ELSE closed
<1> DEFINE p == Leave(last, k)
<1>1. /\ RecordTypes /\ k.pc = "killing" /\ prov' = p /\ End(c)
      /\ confirmed' = confirmed \cup Told(last, k.vm) /\ lost' = lost /\ KeepNative
      /\ IF ok THEN remote' = [remote EXCEPT ![k.vm] = "gone"] ELSE MayBe(k.vm, "gone")
  BY DEF ProviderInv, Killed
<1>2. /\ k \in RequestRecord /\ k.vm \in Sandbox /\ prov \in ProvRecord /\ Kills(c) /\ Uses(c)
      /\ prov.quarantined /\ prov.observed.vm \in Sandbox
      /\ prov.observed.by = c => k.vm = prov.observed.vm
      /\ ~prov.creating
  BY <1>1 DEF ProviderInv, OneVM, WithoutVM, Observes, RecordTypes, Uses, Kills, CreatesAlone
<1>3. /\ remote' \in [Sandbox -> {"none", "alive", "gone"}]
      /\ \A w \in Sandbox : remote[w] = "gone" => remote'[w] = "gone"
      /\ ok => remote'[k.vm] = "gone"
  BY <1>1, <1>2 DEF RecordTypes, MayBe
<1>4. /\ closed \in ProvRecord /\ closed.quarantined /\ closed.active = prov.active
      /\ closed.workspace = prov.workspace /\ closed.creating = prov.creating
      /\ closed.observed.vm = prov.observed.vm /\ closed.observed.by = prov.observed.by
      /\ closed.observed.confirmed => prov.observed.confirmed \/ (ok /\ prov.observed.by = c)
      /\ closed.sandbox \in {prov.sandbox, NoVM}
  BY <1>2 DEF ProvRecord, Confirms
<1> HIDE DEF closed
<1>5. /\ last \in ProvRecord /\ last.quarantined /\ last.active = prov.active
      /\ last.workspace = prov.workspace /\ last.creating = prov.creating
      /\ last.sandbox \in {prov.sandbox, NoVM}
      /\ \/ last.observed.vm = prov.observed.vm /\ last.observed.by = prov.observed.by
         \/ last.observed.vm \in Sandbox /\ last.observed.by = NoCall
      /\ last.observed.confirmed =>
            \/ last.observed.vm = prov.observed.vm /\ prov.observed.confirmed
            \/ ok /\ last.observed.vm = k.vm
  BY <1>2, <1>4 DEF ProvRecord, Confirms
<1> HIDE DEF last
<1>6. /\ p \in ProvRecord /\ p.sandbox = last.sandbox /\ p.quarantined /\ p.creating = last.creating
      /\ p.observed = last.observed
      /\ k.then = "run" => p.active = last.active \ {k.op} /\ p.workspace = last.workspace
      /\ k.then = "file" => p.active = last.active \ {FileWork} /\ ~p.workspace
      /\ k.then \notin {"run", "file"} => p = last
  BY <1>2, <1>5, LeaveFields
<1> HIDE DEF p
<1>7. /\ k.then = "run" => Commands(c)
      /\ k.then = "file" => Excludes(c)
      /\ k.then \notin {"run", "file"} => ~Holds(c)
  BY <1>2 DEF Holds, Commands, Excludes, Kills
<1>8. \/ p.active = prov.active /\ p.workspace = prov.workspace /\ ~Holds(c)
      \/ Commands(c) /\ p.active \subseteq prov.active /\ p.workspace = prov.workspace
      \/ Excludes(c) /\ p.active = prov.active \ {FileWork} /\ ~p.workspace
  BY <1>5, <1>6, <1>7
<1>9. p.observed.confirmed => p.observed.vm \in Sandbox /\ remote'[p.observed.vm] = "gone"
  BY <1>2, <1>3, <1>5, <1>6 DEF ProviderInv, Observes
<1>10. /\ \A d \in Call : d # c => request'[d] = request[d]
       /\ request' \in [Call -> RequestRecord] /\ request'[c].pc = "free"
  BY <1>1, EndMoves
<1>11. confirmed' \in {confirmed, confirmed \cup Told(p, k.vm)} /\ k.vm \in Sandbox \cup {NoVM}
  BY <1>1, <1>2, <1>6 DEF Told
<1>12. /\ lost' \subseteq Sandbox /\ journal' \in [Op -> JournalEntry] /\ allocations' = allocations
       /\ \A o \in Op : /\ journal'[o].gone = journal[o].gone
                        /\ journal'[o].status = "none" => journal[o].status = "none"
  BY <1>1 DEF RecordTypes, KeepNative
<1>13. /\ \/ p.sandbox = prov.sandbox
          \/ Kills(c) /\ p.sandbox = NoVM
       /\ p.creating = prov.creating
       /\ \/ p.observed.vm = prov.observed.vm /\ p.observed.by = prov.observed.by
          \/ p.observed.vm \in Sandbox /\ p.observed.by = NoCall
  BY <1>2, <1>5, <1>6
<1>14. QED
  BY <1>1, <1>3, <1>6, <1>8, <1>9, <1>10, <1>11, <1>12, <1>13, CallEnds

\* The file transfers and native operations that end with their own VM.
LEMMA LeftFields ==
    ASSUME NEW p \in ProvRecord
    PROVE  /\ Left(p) \in ProvRecord /\ Left(p).sandbox = p.sandbox
           /\ Left(p).quarantined = p.quarantined /\ Left(p).creating = p.creating
           /\ Left(p).observed = p.observed
           /\ Left(p).active = p.active \ {FileWork} /\ ~Left(p).workspace
BY DEF Left, ProvRecord

LEMMA RunEndsKeeps ==
    ASSUME ProviderInv, NEW c \in Call, RunEnds(c)
    PROVE  ProviderInv'
<1> DEFINE k == request[c]
<1> DEFINE p == [prov EXCEPT !.active = @ \ {k.op}, !.cancelled = @ \ {k.op}]
<1>1. /\ RecordTypes /\ k.pc = "running" /\ prov' = p /\ End(c)
      /\ confirmed' \in {confirmed, confirmed \cup Told(prov, k.vm)}
      /\ remote' = remote /\ lost' = lost /\ KeepNative
  BY DEF ProviderInv, RunEnds
<1>2. /\ p \in ProvRecord /\ p.sandbox = prov.sandbox /\ p.quarantined = prov.quarantined
      /\ p.creating = prov.creating /\ p.observed = prov.observed
      /\ p.active \subseteq prov.active /\ p.workspace = prov.workspace
  BY <1>1 DEF RecordTypes, ProvRecord
<1> HIDE DEF p
<1>3. Commands(c)
  BY <1>1 DEF Commands
<1>4. /\ \A d \in Call : d # c => request'[d] = request[d]
      /\ request' \in [Call -> RequestRecord] /\ request'[c].pc = "free"
  BY <1>1, EndMoves
<1>5. confirmed' \in {confirmed, confirmed \cup Told(p, k.vm)} /\ k.vm \in Sandbox \cup {NoVM}
  BY <1>1, <1>2 DEF Told, RecordTypes, RequestRecord
<1>6. /\ lost' \subseteq Sandbox /\ journal' \in [Op -> JournalEntry] /\ allocations' = allocations
      /\ \A o \in Op : /\ journal'[o].gone = journal[o].gone
                       /\ journal'[o].status = "none" => journal[o].status = "none"
      /\ remote' \in [Sandbox -> {"none", "alive", "gone"}]
      /\ \A w \in Sandbox : remote[w] = "gone" => remote'[w] = "gone"
  BY <1>1 DEF RecordTypes, KeepNative
<1>7. /\ lost' # {} => p.quarantined
      /\ p.observed.confirmed => p.observed.vm \in Sandbox /\ remote'[p.observed.vm] = "gone"
  BY <1>1, <1>2 DEF ProviderInv, LostQuarantined, Observes
<1>8. prov' = p
  BY <1>1 DEF p
<1>9. QED BY <1>2, <1>3, <1>4, <1>5, <1>6, <1>7, <1>8, CallEnds

\* One entry of the journal changes.
LEMMA OneEntryMoves ==
    ASSUME RecordTypes, NEW act, NEW e, act \in Op => e \in JournalEntry,
           journal' = [journal EXCEPT ![act] = e]
    PROVE  /\ journal' \in [Op -> JournalEntry]
           /\ \A o \in Op : journal'[o] = IF o = act THEN e ELSE journal[o]
BY DEF RecordTypes

LEMMA ExclusiveEnds ==
    ASSUME ProviderInv, NEW c \in Call, Excludes(c), NEW p \in ProvRecord,
           p.active = prov.active, p.workspace = prov.workspace,
           p.quarantined = prov.quarantined, p.creating = prov.creating,
           p.observed = prov.observed,
           p.sandbox = prov.sandbox \/ (Uses(c) /\ p.sandbox = request[c].vm),
           prov' = Left(p), End(c), UNCHANGED <<remote, lost, confirmed, allocations>>,
           NEW act, journal' \in {journal, Completed(act)}
    PROVE  ProviderInv'
<1> DEFINE q == Left(p)
<1>1. RecordTypes
  BY DEF ProviderInv
<1>2. /\ q \in ProvRecord /\ q.sandbox = p.sandbox /\ q.quarantined = p.quarantined
      /\ q.creating = p.creating /\ q.observed = p.observed
      /\ q.active = p.active \ {FileWork} /\ ~q.workspace
  BY LeftFields
<1>3. prov' = q
  OBVIOUS
<1> HIDE DEF q
<1>4. /\ \A d \in Call : d # c => request'[d] = request[d]
      /\ request' \in [Call -> RequestRecord] /\ request'[c].pc = "free"
  BY <1>1, EndMoves
<1>5. /\ journal' \in [Op -> JournalEntry]
      /\ \A o \in Op : /\ journal'[o].gone = journal[o].gone
                       /\ journal'[o].status = "none" => journal[o].status = "none"
  <2>1. CASE journal' = journal
    BY <1>1, <2>1 DEF RecordTypes
  <2>2. CASE journal' = [journal EXCEPT ![act].status = "completed"]
    <3> DEFINE e == [journal[act] EXCEPT !.status = "completed"]
    <3>1. act \in Op => e \in JournalEntry /\ e.gone = journal[act].gone /\ e.status = "completed"
      BY <1>1 DEF RecordTypes, JournalEntry
    <3>2. journal' = [journal EXCEPT ![act] = e]
      BY <2>2
    <3> HIDE DEF e
    <3>3. QED BY <1>1, <3>1, <3>2, OneEntryMoves
  <2>3. QED BY <2>1, <2>2 DEF Completed
<1>6. /\ lost' \subseteq Sandbox
      /\ remote' \in [Sandbox -> {"none", "alive", "gone"}]
      /\ \A w \in Sandbox : remote[w] = "gone" => remote'[w] = "gone"
      /\ confirmed' \in {confirmed, confirmed \cup Told(q, NoVM)} /\ NoVM \in Sandbox \cup {NoVM}
  BY <1>1 DEF RecordTypes
<1>7. /\ lost' # {} => q.quarantined
      /\ q.observed.confirmed => q.observed.vm \in Sandbox /\ remote'[q.observed.vm] = "gone"
  BY <1>2 DEF ProviderInv, LostQuarantined, Observes
<1>8. QED BY <1>2, <1>3, <1>4, <1>5, <1>6, <1>7, CallEnds

LEMMA TransferEndsKeeps ==
    ASSUME ProviderInv, NEW c \in Call, TransferEnds(c)
    PROVE  ProviderInv'
<1>1. RecordTypes /\ prov \in ProvRecord
  BY DEF ProviderInv, RecordTypes
<1>2. /\ End(c) /\ UNCHANGED <<remote, lost, confirmed, allocations, journal>>
      /\ request[c].pc \in {"file", "capture"}
  BY DEF TransferEnds, KeepNative
<1>3. CASE request[c].pc = "file"
  <2>1. Excludes(c) /\ prov' = Left(prov) /\ journal' \in {journal, Completed(NoOp)}
    BY <1>2, <1>3 DEF Excludes, TransferEnds
  <2>2. QED BY <1>1, <1>2, <2>1, ExclusiveEnds
<1>4. CASE request[c].pc = "capture"
  <2>1. ~Holds(c) /\ prov' = prov
    BY <1>4 DEF Holds, Commands, Excludes, Kills, TransferEnds
  <2>2. /\ \A d \in Call : d # c => request'[d] = request[d]
        /\ request' \in [Call -> RequestRecord] /\ request'[c].pc = "free"
    BY <1>1, <1>2, EndMoves
  <2>3. /\ lost' \subseteq Sandbox /\ journal' \in [Op -> JournalEntry]
        /\ remote' \in [Sandbox -> {"none", "alive", "gone"}]
        /\ confirmed' \in {confirmed, confirmed \cup Told(prov, NoVM)}
        /\ NoVM \in Sandbox \cup {NoVM}
        /\ lost' # {} => prov.quarantined
        /\ prov.observed.confirmed =>
              prov.observed.vm \in Sandbox /\ remote'[prov.observed.vm] = "gone"
    BY <1>1, <1>2 DEF RecordTypes, ProviderInv, LostQuarantined, Observes
  <2>4. /\ \A w \in Sandbox : remote[w] = "gone" => remote'[w] = "gone"
        /\ \A o \in Op : /\ journal'[o].gone = journal[o].gone
                         /\ journal'[o].status = "none" => journal[o].status = "none"
        /\ allocations' = allocations
    BY <1>2
  <2>5. QED BY <1>1, <2>1, <2>2, <2>3, <2>4, CallEnds
<1>5. QED BY <1>2, <1>3, <1>4

LEMMA NativesEndKeep ==
    ASSUME ProviderInv, NEW c \in Call,
           \/ \E ok \in BOOLEAN : Frozen(c, ok)
           \/ Resumed(c) \/ Verified(c) \/ AllocationFails(c)
    PROVE  ProviderInv'
<1>1. RecordTypes /\ prov \in ProvRecord
  BY DEF ProviderInv, RecordTypes
<1>2. ASSUME NEW ok \in BOOLEAN, Frozen(c, ok) PROVE ProviderInv'
  <2> DEFINE p == [prov EXCEPT !.paused = @ \/ ok]
  <2>1. /\ p \in ProvRecord /\ p.active = prov.active /\ p.workspace = prov.workspace
        /\ p.quarantined = prov.quarantined /\ p.creating = prov.creating
        /\ p.observed = prov.observed /\ p.sandbox = prov.sandbox
    BY <1>1 DEF ProvRecord
  <2>2. /\ Excludes(c) /\ prov' = Left(p) /\ End(c)
        /\ UNCHANGED <<remote, lost, confirmed, allocations>>
        /\ journal' \in {journal, Completed(request[c].op)}
    BY <1>2 DEF Frozen, Excludes
  <2> HIDE DEF p
  <2>3. QED BY <2>1, <2>2, ExclusiveEnds
<1>3. CASE Resumed(c)
  <2> DEFINE p == [prov EXCEPT !.sandbox = request[c].vm, !.paused = FALSE]
  <2>1. Uses(c) /\ request[c].vm \in Sandbox
    BY <1>3 DEF Resumed, Uses, ProviderInv, OneVM
  <2>2. /\ p \in ProvRecord /\ p.active = prov.active /\ p.workspace = prov.workspace
        /\ p.quarantined = prov.quarantined /\ p.creating = prov.creating
        /\ p.observed = prov.observed /\ p.sandbox = request[c].vm
    BY <1>1, <2>1 DEF ProvRecord
  <2>3. /\ Excludes(c) /\ prov' = Left(p) /\ End(c)
        /\ UNCHANGED <<remote, lost, confirmed, allocations>>
        /\ journal' \in {journal, Completed(request[c].op)}
    BY <1>3 DEF Resumed, Excludes
  <2> HIDE DEF p
  <2>4. QED BY <2>1, <2>2, <2>3, ExclusiveEnds
<1>4. CASE Verified(c)
  <2>1. /\ Excludes(c) /\ prov' = Left(prov) /\ End(c)
        /\ UNCHANGED <<remote, lost, confirmed, allocations>>
        /\ journal' \in {journal, Completed(request[c].op)}
    BY <1>4 DEF Verified, Excludes
  <2>2. QED BY <1>1, <2>1, ExclusiveEnds
<1>5. CASE AllocationFails(c)
  <2>1. /\ Excludes(c) /\ prov' = Left(prov) /\ End(c)
        /\ UNCHANGED <<remote, lost, confirmed, allocations>>
        /\ journal' \in {journal, Completed(request[c].op)}
    BY <1>5 DEF AllocationFails, Excludes, KeepNative
  <2>2. QED BY <1>1, <2>1, ExclusiveEnds
<1>6. QED BY <1>2, <1>3, <1>4, <1>5

\* An allocation goes on: children appear, or one is closed.
LEMMA AllocationsKeep ==
    ASSUME ProviderInv, NEW c \in Call,
           \/ \E K \in SUBSET Sandbox : Allocated(c, K)
           \/ VerifyFails(c)
           \/ \E v \in Sandbox, ok \in BOOLEAN : FailChild(c, v, ok)
    PROVE  ProviderInv'
<1>1. RecordTypes
  BY DEF ProviderInv
<1>2. ASSUME request' \in [Call -> RequestRecord],
             \A d \in Call : d # c => request'[d] = request[d],
             request[c].pc \in {"allocating", "verifying", "failing"},
             request'[c].pc \in {"allocating", "verifying", "failing"},
             UNCHANGED <<prov, lost, confirmed, allocations>>,
             remote' \in [Sandbox -> {"none", "alive", "gone"}],
             \A w \in Sandbox : remote[w] = "gone" => remote'[w] = "gone",
             journal' \in [Op -> JournalEntry],
             \A o \in Op : /\ \A w \in journal'[o].gone :
                                w \in journal[o].gone \/ remote'[w] = "gone"
                           /\ journal'[o].status = journal[o].status
      PROVE  ProviderInv'
  <2>1. RecordTypes'
    BY <1>1, <1>2 DEF RecordTypes
  <2>2. \A d \in Call : /\ Holds(d)' <=> Holds(d)
                        /\ Commands(d)' <=> Commands(d)
                        /\ Excludes(d)' <=> Excludes(d)
                        /\ Uses(d)' <=> Uses(d) /\ d # c
                        /\ Kills(d)' <=> Kills(d) /\ d # c
    BY <1>2 DEF Holds, Commands, Excludes, Kills, Uses
  <2>3. OneAtATime' /\ OneVM' /\ WithoutVM'
    BY <1>2, <2>2 DEF ProviderInv, OneAtATime, OneVM, WithoutVM
  <2>4. CreatesAlone' /\ Observes'
    BY <1>2, <2>2 DEF ProviderInv, CreatesAlone, Observes
  <2>5. LostQuarantined' /\ AskedOnce'
    BY <1>2 DEF ProviderInv, LostQuarantined, AskedOnce
  <2>6. ConfirmedMeansGone'
    BY <1>2 DEF ProviderInv, ConfirmedMeansGone
  <2>7. QED BY <2>1, <2>3, <2>4, <2>5, <2>6 DEF ProviderInv
<1>3. ASSUME NEW K \in SUBSET Sandbox, Allocated(c, K) PROVE ProviderInv'
  <2>1. /\ remote' = [v \in Sandbox |-> IF v \in K THEN "alive" ELSE remote[v]]
        /\ K \subseteq UnusedVMs /\ request[c].pc = "allocating"
        /\ journal' = [journal EXCEPT ![request[c].op].children = K]
        /\ UNCHANGED <<prov, lost, confirmed, allocations>>
    BY <1>3 DEF Allocated
  <2>2. /\ remote' \in [Sandbox -> {"none", "alive", "gone"}]
        /\ \A w \in Sandbox : remote[w] = "gone" => remote'[w] = "gone"
    BY <1>1, <2>1 DEF RecordTypes, UnusedVMs
  <2>3. /\ journal' \in [Op -> JournalEntry]
        /\ \A o \in Op : /\ journal'[o].gone = journal[o].gone
                         /\ journal'[o].status = journal[o].status
    <3> DEFINE e == [journal[request[c].op] EXCEPT !.children = K]
    <3>1. request[c].op \in Op => /\ e \in JournalEntry
                                  /\ e.gone = journal[request[c].op].gone
                                  /\ e.status = journal[request[c].op].status
      BY <1>1 DEF RecordTypes, JournalEntry
    <3>2. journal' = [journal EXCEPT ![request[c].op] = e]
      BY <2>1
    <3> HIDE DEF e
    <3>3. QED BY <1>1, <3>1, <3>2, OneEntryMoves
  <2> DEFINE pc == IF Cardinality(K) = 1 THEN "verifying" ELSE "failing"
  <2> DEFINE n == [request[c] EXCEPT !.pc = pc, !.todo = K]
  <2>4. n \in RequestRecord /\ n.pc \in {"verifying", "failing"}
    <3>1. pc \in {"verifying", "failing"}
      OBVIOUS
    <3> HIDE DEF pc
    <3>2. request[c] \in RequestRecord /\ K \in SUBSET Sandbox
      BY <1>1 DEF RecordTypes
    <3>3. QED BY <3>1, <3>2 DEF RequestRecord
  <2>5. request' = [request EXCEPT ![c] = n]
    BY <1>1, <1>3 DEF Allocated, RecordTypes
  <2> HIDE DEF n
  <2>6. /\ request' \in [Call -> RequestRecord] /\ request'[c] = n
        /\ \A d \in Call : d # c => request'[d] = request[d]
    BY <1>1, <2>4, <2>5, OneCallMoves
  <2>7. QED BY <1>2, <2>1, <2>2, <2>3, <2>4, <2>6
<1>4. CASE VerifyFails(c)
  <2> DEFINE n == [request[c] EXCEPT !.pc = "failing"]
  <2>1. n \in RequestRecord /\ n.pc = "failing"
    BY <1>1 DEF RecordTypes, RequestRecord
  <2>2. request' = [request EXCEPT ![c] = n] /\ request[c].pc = "verifying"
    BY <1>1, <1>4 DEF VerifyFails, RecordTypes
  <2> HIDE DEF n
  <2>3. /\ request' \in [Call -> RequestRecord] /\ request'[c] = n
        /\ \A d \in Call : d # c => request'[d] = request[d]
    BY <1>1, <2>1, <2>2, OneCallMoves
  <2>4. UNCHANGED <<prov, lost, confirmed, allocations, remote, journal>>
    BY <1>4 DEF VerifyFails, KeepNative
  <2>5. QED BY <1>1, <1>2, <2>1, <2>2, <2>3, <2>4 DEF RecordTypes
<1>5. ASSUME NEW v \in Sandbox, NEW ok \in BOOLEAN, FailChild(c, v, ok) PROVE ProviderInv'
  <2> DEFINE n == [request[c] EXCEPT !.todo = @ \ {v}]
  <2>1. n \in RequestRecord /\ n.pc = request[c].pc
    BY <1>1 DEF RecordTypes, RequestRecord
  <2>2. request' = [request EXCEPT ![c] = n] /\ request[c].pc = "failing"
    BY <1>1, <1>5 DEF FailChild, RecordTypes
  <2> HIDE DEF n
  <2>3. /\ request' \in [Call -> RequestRecord] /\ request'[c] = n
        /\ \A d \in Call : d # c => request'[d] = request[d]
    BY <1>1, <2>1, <2>2, OneCallMoves
  <2>4. /\ remote' \in [Sandbox -> {"none", "alive", "gone"}]
        /\ \A w \in Sandbox : remote[w] = "gone" => remote'[w] = "gone"
        /\ ok => remote'[v] = "gone"
    BY <1>1, <1>5 DEF FailChild, MayBe, RecordTypes
  <2>5. journal' = IF ok THEN [journal EXCEPT ![request[c].op].gone = @ \cup {v}] ELSE journal
    BY <1>5 DEF FailChild, Confirms
  <2>6. /\ journal' \in [Op -> JournalEntry]
        /\ \A o \in Op : /\ \A w \in journal'[o].gone :
                               w \in journal[o].gone \/ remote'[w] = "gone"
                         /\ journal'[o].status = journal[o].status
    <3> DEFINE act == request[c].op
    <3> DEFINE e == [journal[act] EXCEPT !.gone = @ \cup {v}]
    <3>1. act \in Op => e \in JournalEntry /\ e.gone = journal[act].gone \cup {v}
                          /\ e.status = journal[act].status
      BY <1>1 DEF RecordTypes, JournalEntry
    <3>2. ok => journal' = [journal EXCEPT ![act] = e]
      BY <2>5
    <3> HIDE DEF e
    <3>3. ok => /\ journal' \in [Op -> JournalEntry]
                /\ \A o \in Op : journal'[o] = IF o = act THEN e ELSE journal[o]
      BY <1>1, <3>1, <3>2, OneEntryMoves
    <3>4. QED BY <1>1, <2>4, <2>5, <3>1, <3>3 DEF RecordTypes
  <2>7. UNCHANGED <<prov, lost, confirmed, allocations>>
    BY <1>5 DEF FailChild
  <2>8. QED BY <1>2, <2>1, <2>2, <2>3, <2>4, <2>6, <2>7
<1>6. QED BY <1>3, <1>4, <1>5

LEMMA ProcessDiesKeeps == ProviderInv /\ ProcessDies => ProviderInv'
<1> SUFFICES ASSUME ProviderInv, ProcessDies PROVE ProviderInv'
  OBVIOUS
<1>1. RecordTypes
  BY DEF ProviderInv
<1>2. NewProvider \in ProvRecord /\ Free \in RequestRecord
  BY DEF NewProvider, ProvRecord, Free, RequestRecord, NotObserved, NoOp, NoVM, NoCall
<1>3. RecordTypes'
  BY <1>1, <1>2 DEF RecordTypes, ProcessDies
<1>4. /\ prov'.active = {} /\ ~prov'.workspace /\ ~prov'.creating /\ ~prov'.observed.confirmed
      /\ \A c \in Call : request'[c].pc = "free"
  BY DEF ProcessDies, NewProvider, NotObserved, Free
<1>5. OneAtATime' /\ OneVM' /\ WithoutVM' /\ CreatesAlone' /\ Observes'
  BY <1>4 DEF OneAtATime, OneVM, WithoutVM, CreatesAlone, Observes, Holds, Commands, Excludes,
              Uses, Kills
<1>6. LostQuarantined' /\ ConfirmedMeansGone' /\ AskedOnce'
  BY DEF ProviderInv, ProcessDies, LostQuarantined, ConfirmedMeansGone, AskedOnce
<1>7. QED BY <1>3, <1>5, <1>6 DEF ProviderInv

LEMMA ProviderKept == ProviderInv /\ [ProviderNext]_providerVars => ProviderInv'
<1> SUFFICES ASSUME ProviderInv, [ProviderNext]_providerVars PROVE ProviderInv'
  OBVIOUS
<1>1. CASE UNCHANGED providerVars
  BY <1>1 DEF providerVars, ProviderInv, RecordTypes, OneAtATime, OneVM, WithoutVM, CreatesAlone,
        Observes, LostQuarantined, ConfirmedMeansGone, AskedOnce, Holds, Commands, Excludes, Uses,
        Kills
<1>2. CASE ProcessDies
  BY <1>2, ProcessDiesKeeps
<1>3. ASSUME NEW c \in Call,
             \/ Create(c) \/ Created(c) \/ CreateFails(c) \/ Close(c)
             \/ RunEnds(c) \/ RunLost(c) \/ Transfer(c) \/ Capture(c) \/ TransferEnds(c)
             \/ TransferLost(c) \/ Resumed(c) \/ ResumeFails(c) \/ Verified(c) \/ VerifyFails(c)
             \/ AllocationFails(c)
      PROVE  ProviderInv'
  BY <1>3, CreateKeeps, CreatedKeeps, CreateFailsKeeps, CloseKeeps, RunEndsKeeps, RunLostKeeps,
     TransferKeeps, CaptureKeeps, TransferEndsKeeps, TransferLostKeeps, NativesEndKeep,
     ResumeFailsKeeps, AllocationsKeep
<1>4. ASSUME NEW c \in Call, NEW ok \in BOOLEAN, Killed(c, ok) \/ Frozen(c, ok)
      PROVE  ProviderInv'
  BY <1>4, KilledKeeps, NativesEndKeep
<1>5. ASSUME NEW c \in Call, NEW act \in Op,
             Run(c, act) \/ Cancel(c, act) \/ Pause(c, act) \/ Snapshot(c, act) \/ Fork(c, act)
      PROVE  ProviderInv'
  BY <1>5, RunKeeps, CancelKeeps, NativesKeep
<1>6. ASSUME NEW c \in Call, NEW act \in Op, NEW v \in Sandbox,
             Resume(c, act, v) \/ RestoreSnapshot(c, act, v)
      PROVE  ProviderInv'
  BY <1>6, NativesKeep
<1>7. ASSUME NEW c \in Call, NEW v \in Sandbox, NEW ok \in BOOLEAN, FailChild(c, v, ok)
      PROVE  ProviderInv'
  BY <1>7, AllocationsKeep
<1>8. ASSUME NEW c \in Call, NEW K \in SUBSET Sandbox, Allocated(c, K) PROVE ProviderInv'
  BY <1>8, AllocationsKeep
<1>9. QED
  BY <1>1, <1>2, <1>3, <1>4, <1>5, <1>6, <1>7, <1>8 DEF ProviderNext

\* No provider reports the destruction of a VM that may still run, and no native
\* operation asks for a child VM twice, whatever is lost, cancelled or repeated.
THEOREM ProviderSafety == ProviderSpec => []ProviderSound
<1>1. ProviderInv => ProviderSound
  <2> SUFFICES ASSUME ProviderInv PROVE ProviderSound
    OBVIOUS
  <2>1. ProviderTypeOK
    BY DEF ProviderInv, RecordTypes, ProvRecord, RequestRecord, JournalEntry, ProviderTypeOK
  <2>2. AllocatedOnce
    BY DEF ProviderInv, RecordTypes, AskedOnce, AllocatedOnce
  <2>3. QED BY <2>1, <2>2 DEF ProviderInv, ProviderSound
<1>2. QED BY <1>1, InitProvider, ProviderKept, PTL DEF ProviderSpec

\* What a provider that lost a command or a transfer starts later is not in that VM.
THEOREM LostVMsLeft == ProviderSpec => LostVMNotReused
<1> DEFINE NotReused == \A c \in Call : Starts(c) => request'[c].vm \notin lost
<1>1. ProviderInv /\ [ProviderNext]_providerVars => [NotReused]_providerVars
  <2> SUFFICES ASSUME ProviderInv, ProviderNext, NEW c \in Call, Starts(c)
               PROVE  request'[c].vm \notin lost
    BY DEF NotReused
  <2>1. RecordTypes
    BY DEF ProviderInv
  <2>2. ASSUME ~prov.quarantined PROVE request'[c].vm \notin lost
    BY <2>2 DEF ProviderInv, LostQuarantined
  <2>3. /\ request[c].pc = "free"
        /\ request'[c].pc \in {"running", "file", "pausing", "snapshotting", "resuming",
                               "allocating"}
    BY DEF Starts
  <2>4. ASSUME NEW d \in Call, \A e \in Call : e # d => request'[e] = request[e],
               \/ request[d].pc # "free"
               \/ request'[d].pc \in {"free", "creating", "capture", "killing"}
        PROVE  FALSE
    BY <2>3, <2>4
  <2>5. ASSUME NEW d \in Call, End(d) PROVE FALSE
    BY <2>1, <2>4, <2>5, EndMoves
  <2>6. ASSUME NEW d \in Call, NEW pc \in {"creating", "capture"}, NEW v \in Sandbox \cup {NoVM},
               Await(d, pc, NoOp, v)
        PROVE  FALSE
    <3>1. pc \in {"creating", "running", "file", "capture", "pausing", "snapshotting",
                  "resuming", "allocating"} /\ NoOp \in Op \cup {NoOp}
      BY <2>6
    <3>2. request'[d].pc = pc /\ \A e \in Call : e # d => request'[e] = request[e]
      BY <2>1, <2>6, <3>1, AwaitMoves
    <3>3. QED BY <2>4, <2>6, <3>2
  <2>7. ASSUME NEW d \in Call, NEW k, NEW p, NEW q, CloseFor(d, k, p, q) PROVE FALSE
    <3>1. CASE End(d)
      BY <2>5, <3>1
    <3>2. CASE request' = [request EXCEPT ![d] = [k EXCEPT !.pc = "killing"]]
      BY <3>2, <2>1, <2>3 DEF RecordTypes
    <3>3. QED BY <2>7, <3>1, <3>2 DEF CloseFor
  <2>8. prov.quarantined => FALSE
    <3> SUFFICES ASSUME prov.quarantined PROVE FALSE
      OBVIOUS
    <3>1. CASE ProcessDies
      BY <2>3, <3>1 DEF ProcessDies, Free
    <3>2. ASSUME NEW d \in Call,
                 \/ Created(d) \/ CreateFails(d) \/ RunEnds(d) \/ TransferEnds(d) \/ Resumed(d)
                 \/ Verified(d) \/ AllocationFails(d)
                 \/ \E ok \in BOOLEAN : Killed(d, ok) \/ Frozen(d, ok)
          PROVE  FALSE
      BY <2>5, <3>2 DEF Created, CreateFails, RunEnds, TransferEnds, Resumed, Verified,
            AllocationFails, Killed, Frozen
    <3>3. ASSUME NEW d \in Call,
                 \/ Close(d) \/ RunLost(d) \/ TransferLost(d) \/ ResumeFails(d)
                 \/ \E act \in Op : Cancel(d, act)
          PROVE  FALSE
      BY <2>5, <2>7, <3>3 DEF Close, RunLost, TransferLost, ResumeFails, Cancel
    <3>4. ASSUME NEW d \in Call,
                 \/ Create(d) \/ Transfer(d)
                 \/ \E act \in Op : Run(d, act) \/ Pause(d, act) \/ Snapshot(d, act) \/ Fork(d, act)
                 \/ \E act \in Op, v \in Sandbox : Resume(d, act, v) \/ RestoreSnapshot(d, act, v)
          PROVE  FALSE
      BY <3>4 DEF Create, Transfer, Run, Pause, Snapshot, Fork, Resume, RestoreSnapshot, Native,
            MayEnter
    <3>5. ASSUME NEW d \in Call, Capture(d) PROVE FALSE
      <4>1. prov.sandbox \in Sandbox \cup {NoVM}
        BY <2>1 DEF RecordTypes, ProvRecord
      <4>2. QED BY <2>6, <3>5, <4>1 DEF Capture
    <3>6. ASSUME NEW d \in Call,
                 \/ \E K \in SUBSET Sandbox : Allocated(d, K)
                 \/ VerifyFails(d)
                 \/ \E v \in Sandbox, ok \in BOOLEAN : FailChild(d, v, ok)
          PROVE  FALSE
      <4>1. request[d].pc # "free"
        BY <3>6 DEF Allocated, VerifyFails, FailChild
      <4>2. \A e \in Call : e # d => request'[e] = request[e]
        BY <2>1, <3>6 DEF Allocated, VerifyFails, FailChild, RecordTypes
      <4>3. QED BY <2>4, <4>1, <4>2
    <3>7. QED BY <3>1, <3>2, <3>3, <3>4, <3>5, <3>6, <2>3 DEF ProviderNext
  <2>9. QED BY <2>2, <2>8
<1>2. QED BY <1>1, InitProvider, ProviderKept, PTL DEF ProviderSpec, LostVMNotReused, NotReused

-----------------------------------------------------------------------------
(* Workspaces.  A worker slot counts once among the experiment's active      *)
(* workers for as long as it is held, and every execution is at one of a few *)
(* stages, which its workspace and operation records, the call it awaits and *)
(* its VM must fit.  One step changes one execution; the others stay.        *)

HIDE ProviderAssumption
USE WorkspacesAssumption

\* What one execution may look like: p is its phase, w its workspace record, f its operation
\* records, c the call it awaits, v its VM, d whether files are unsaved, n how often the
\* provider was called, and h whether its slot is held.
Untouched(p, w, c) == p \in {"new", "reserved", "leased"} => w.status = "absent" /\ c = None
Existing(w, f, v) ==
    /\ f["provision"] = "absent" => w.status = "absent"
    /\ w.status = "absent" => v = "none"
    /\ w.status = "ready" => v \in {"up", "gone"} /\ f["provision"] = "completed"
    /\ w.status = "destroyed" => v \in {"none", "gone"}
Awaited(p, w, f, c) ==
    /\ c # None => f[c] = "pending"
    /\ c = "provision" => p = "working" /\ w.status = "provisioning"
    /\ c \notin {None, "provision"} =>
            p \in {"working", "closing"} /\ w.status = "ready" /\ w.active = c
CalledOnce(f, n) == \A o \in Operation : n[o] =< 1 /\ (f[o] = "absent" => n[o] = 0)
Archived(p, f, d, n) ==
    /\ f["final"] # "absent" => p \notin {"new", "reserved", "leased", "working"}
    /\ f["final"] \in {"pending", "completed"} => ~d
    /\ n["destroy"] > 0 => f["final"] \in {"completed", "rejected"}
Ended(p, w, c) ==
    /\ p \in {"ending", "clear", "unresolved", "over"} =>
            c = None /\ ~(w.status = "ready" /\ w.active = None)
    /\ p = "clear" => w.status \in {"absent", "destroyed"}

StageFits(p, w, f, c, v, d, n, h) ==
    /\ Untouched(p, w, c)
    /\ Existing(w, f, v)
    /\ Awaited(p, w, f, c)
    /\ CalledOnce(f, n)
    /\ Archived(p, f, d, n)
    /\ Ended(p, w, c)
    /\ v \in {"creating", "up"} => h

StageOf(x) ==
    StageFits(phase[x], ws[x], op[x], call[x], vm[x], dirty[x], dispatched[x], L!Unsettled(Slot(x)))

\* The worker slots that are held are the workers of the experiment; VMs share them.
HeldSlots == {x \in Execution : L!Unsettled(Slot(x))}
SlotsCounted ==
    /\ IsFiniteSet(HeldSlots)
    /\ budget.workers = Cardinality(HeldSlots) /\ budget.workers =< MaxConcurrency
    /\ \A x \in Execution : /\ L!Unsettled(Slot(x)) => res[Slot(x)].workers = 1
                            /\ res[VM(x)].workers = 0

WorkspacesInv ==
    /\ WorkspacesTypeOK
    /\ SlotsCounted
    /\ \A x \in Execution : StageOf(x)

Reservations == {"slot", "vm"} \X Execution
LEMMA Slots ==
    /\ \A x \in Execution : Slot(x) \in Reservations /\ VM(x) \in Reservations
    /\ \A x, y : Slot(x) # VM(y) /\ (Slot(x) = Slot(y) => x = y) /\ (VM(x) = VM(y) => x = y)
    /\ L!NoReservation \in L!Reservation /\ MaxConcurrency \in Nat
BY DEF Slot, VM, Reservations, L!NoReservation, L!Reservation, L!Zero, L!Unit

\* What a step may do to the ledger: at most one slot changes hands, that of x.
LedgerMoves(x) ==
    /\ L!LedgerTypeOK'
    /\ SlotsCounted'
    /\ \A y \in Execution \ {x} : L!Unsettled(Slot(y)) => L!Unsettled(Slot(y))'

LEMMA LedgerStays ==
    ASSUME WorkspacesTypeOK, SlotsCounted, UNCHANGED <<budget, res, again>>,
           open' \in BOOLEAN, overrun' \in BOOLEAN
    PROVE  /\ L!LedgerTypeOK' /\ SlotsCounted'
           /\ \A x \in Execution : L!Unsettled(Slot(x))' = L!Unsettled(Slot(x))
BY DEF WorkspacesTypeOK, L!LedgerTypeOK, SlotsCounted, HeldSlots, L!Unsettled

\* A VM's reservation changes.
LEMMA VMReservationMoves ==
    ASSUME WorkspacesTypeOK, SlotsCounted, NEW x \in Execution, NEW r \in L!Reservation,
           r.workers = 0, res' = [res EXCEPT ![VM(x)] = r],
           budget' \in L!Budget, budget'.workers = budget.workers,
           open' \in BOOLEAN, overrun' \in BOOLEAN, again' \in [Reservations -> L!Release]
    PROVE  /\ L!LedgerTypeOK' /\ SlotsCounted'
           /\ \A y \in Execution : L!Unsettled(Slot(y))' = L!Unsettled(Slot(y))
<1>1. res \in [Reservations -> L!Reservation]
  BY DEF WorkspacesTypeOK, L!LedgerTypeOK, Reservations
<1>2. /\ res' \in [Reservations -> L!Reservation]
      /\ \A y \in Execution : /\ res'[Slot(y)] = res[Slot(y)]
                              /\ res'[VM(y)] = IF y = x THEN r ELSE res[VM(y)]
  BY <1>1, Slots
<1>3. L!LedgerTypeOK'
  BY <1>2 DEF L!LedgerTypeOK, Reservations
<1>4. \A y \in Execution : L!Unsettled(Slot(y))' = L!Unsettled(Slot(y))
  BY <1>2 DEF L!Unsettled
<1>5. HeldSlots' = HeldSlots
  BY <1>4 DEF HeldSlots
<1>6. SlotsCounted'
  BY <1>2, <1>4, <1>5 DEF SlotsCounted
<1>7. QED BY <1>3, <1>4, <1>6

\* A slot's reservation changes and stays held.
LEMMA SlotStaysHeld ==
    ASSUME WorkspacesTypeOK, SlotsCounted, NEW x \in Execution, L!SettleUncertain(Slot(x))
    PROVE  /\ L!LedgerTypeOK' /\ SlotsCounted'
           /\ \A y \in Execution : L!Unsettled(Slot(y))' = L!Unsettled(Slot(y))
<1>1. res \in [Reservations -> L!Reservation] /\ UNCHANGED <<open, overrun, budget, again>>
      /\ L!Unsettled(Slot(x))
  BY DEF WorkspacesTypeOK, L!LedgerTypeOK, Reservations, L!SettleUncertain
<1>2. PICK r \in L!Reservation : r = [res[Slot(x)] EXCEPT !.state = "uncertain"]
  BY <1>1, Slots DEF L!Reservation
<1>3. r.state = "uncertain" /\ r.workers = res[Slot(x)].workers
  BY <1>1, <1>2, Slots DEF L!Reservation
<1>4. res' = [res EXCEPT ![Slot(x)] = r]
  BY <1>1, <1>2, Slots DEF L!SettleUncertain
<1>5. /\ res' \in [Reservations -> L!Reservation]
      /\ \A y \in Execution : /\ res'[Slot(y)] = IF y = x THEN r ELSE res[Slot(y)]
                              /\ res'[VM(y)] = res[VM(y)]
  BY <1>1, <1>4, Slots
<1>6. L!LedgerTypeOK'
  BY <1>1, <1>5 DEF WorkspacesTypeOK, L!LedgerTypeOK, Reservations
<1>7. \A y \in Execution : L!Unsettled(Slot(y))' = L!Unsettled(Slot(y))
  BY <1>1, <1>3, <1>5 DEF L!Unsettled
<1>8. HeldSlots' = HeldSlots
  BY <1>7 DEF HeldSlots
<1>9. SlotsCounted'
  <2>1. \A y \in Execution : L!Unsettled(Slot(y)) => res'[Slot(y)].workers = 1
    BY <1>1, <1>3, <1>5 DEF SlotsCounted
  <2>2. QED BY <1>1, <1>5, <1>7, <1>8, <2>1 DEF SlotsCounted
<1>10. QED BY <1>6, <1>7, <1>9

\* A slot is taken while there is room.
LEMMA SlotTaken ==
    ASSUME WorkspacesTypeOK, SlotsCounted, NEW x \in Execution, L!Reserve(Slot(x), L!Zero, 1)
    PROVE  LedgerMoves(x) /\ L!Unsettled(Slot(x))'
<1>1. /\ res \in [Reservations -> L!Reservation] /\ budget \in L!Budget
      /\ res[Slot(x)].state = "absent" /\ budget.workers + 1 =< MaxConcurrency
      /\ UNCHANGED <<open, overrun, again>> /\ open \in BOOLEAN /\ overrun \in BOOLEAN
      /\ again \in [Reservations -> L!Release]
  BY DEF WorkspacesTypeOK, L!LedgerTypeOK, Reservations, L!Reserve, L!WorkersFit, L!Enter
<1>2. PICK r \in L!Reservation :
        r = [state |-> "active", reserved |-> L!Zero, actual |-> L!Zero, workers |-> 1,
             vm |-> "none"]
  BY DEF L!Reservation, L!Zero, L!Unit
<1>3. r.state = "active" /\ r.workers = 1
  BY <1>2
<1>4. res' = [res EXCEPT ![Slot(x)] = r]
  BY <1>2 DEF L!Reserve, L!Enter
<1>5. budget' \in L!Budget /\ budget'.workers = budget.workers + 1
  <2> DEFINE R == [u \in L!Unit |-> budget.reserved[u] + L!Zero[u]]
  <2>1. R \in [L!Unit -> Int] /\ budget.workers + 1 \in Int
    BY <1>1 DEF L!Budget, L!Zero
  <2>2. budget' = [budget EXCEPT !.reserved = R, !.workers = budget.workers + 1]
    BY DEF L!Reserve, L!Enter
  <2> HIDE DEF R
  <2>3. QED BY <1>1, <2>1, <2>2 DEF L!Budget
<1>6. /\ res' \in [Reservations -> L!Reservation]
      /\ \A y \in Execution : /\ res'[Slot(y)] = IF y = x THEN r ELSE res[Slot(y)]
                              /\ res'[VM(y)] = res[VM(y)]
  BY <1>1, <1>4, Slots
<1>7. L!LedgerTypeOK'
  BY <1>1, <1>5, <1>6 DEF L!LedgerTypeOK, Reservations
<1>8. /\ L!Unsettled(Slot(x))' /\ ~L!Unsettled(Slot(x))
      /\ \A y \in Execution \ {x} : L!Unsettled(Slot(y))' = L!Unsettled(Slot(y))
  BY <1>1, <1>3, <1>6 DEF L!Unsettled
<1>9. HeldSlots' = HeldSlots \cup {x} /\ x \notin HeldSlots
  BY <1>8 DEF HeldSlots
<1>10. IsFiniteSet(HeldSlots)' /\ Cardinality(HeldSlots)' = Cardinality(HeldSlots) + 1
  BY <1>9, FS_AddElement DEF SlotsCounted
<1>11. \A y \in Execution : /\ L!Unsettled(Slot(y))' => res'[Slot(y)].workers = 1
                            /\ res'[VM(y)].workers = 0
  BY <1>3, <1>6, <1>8 DEF SlotsCounted
<1>12. SlotsCounted'
  BY <1>1, <1>5, <1>10, <1>11 DEF SlotsCounted
<1>13. QED BY <1>7, <1>8, <1>12 DEF LedgerMoves

\* A held slot is given back, its worker with it.
LEMMA SlotGiven ==
    ASSUME WorkspacesTypeOK, SlotsCounted, NEW x \in Execution, L!Unsettled(Slot(x)),
           NEW r \in L!Reservation, r.state = "settled",
           \A y \in Execution : /\ res'[Slot(y)] = IF y = x THEN r ELSE res[Slot(y)]
                                /\ res'[VM(y)].workers = 0,
           res' \in [Reservations -> L!Reservation],
           budget' \in L!Budget, budget'.workers = budget.workers - 1,
           open' \in BOOLEAN, overrun' \in BOOLEAN, again' \in [Reservations -> L!Release]
    PROVE  LedgerMoves(x)
<1>1. L!LedgerTypeOK'
  BY DEF L!LedgerTypeOK, Reservations
<1>2. /\ ~L!Unsettled(Slot(x))'
      /\ \A y \in Execution \ {x} : L!Unsettled(Slot(y))' = L!Unsettled(Slot(y))
  BY DEF L!Unsettled
<1>3. HeldSlots' = HeldSlots \ {x} /\ x \in HeldSlots
  BY <1>2 DEF HeldSlots
<1>4. /\ IsFiniteSet(HeldSlots)' /\ Cardinality(HeldSlots)' = Cardinality(HeldSlots) - 1
      /\ Cardinality(HeldSlots) \in Nat
  BY <1>3, FS_RemoveElement, FS_CardinalityType DEF SlotsCounted
<1>5. \A y \in Execution : L!Unsettled(Slot(y))' => res'[Slot(y)].workers = 1
  BY <1>2 DEF SlotsCounted
<1>6. SlotsCounted'
  BY <1>4, <1>5, Slots DEF SlotsCounted
<1>7. QED BY <1>1, <1>2, <1>6 DEF LedgerMoves

\* A settlement at zero of what reserves no money.
LEMMA ChargedZero ==
    ASSUME WorkspacesTypeOK, NEW r \in Reservations
    PROVE  L!Charged(r, L!Zero) \in L!Budget /\
           L!Charged(r, L!Zero).workers = budget.workers - res[r].workers
<1>1. budget \in L!Budget /\ res[r] \in L!Reservation
  BY DEF WorkspacesTypeOK, L!LedgerTypeOK, Reservations
<1> DEFINE R == [u \in L!Unit |-> budget.reserved[u] - res[r].reserved[u]]
           S == [u \in L!Unit |-> budget.spent[u] + L!Zero[u]]
<1>2. R \in [L!Unit -> Int] /\ S \in [L!Unit -> Int] /\ budget.workers - res[r].workers \in Int
  BY <1>1 DEF L!Budget, L!Reservation, L!Zero
<1>3. L!Charged(r, L!Zero) =
        [budget EXCEPT !.reserved = R, !.spent = S, !.workers = budget.workers - res[r].workers]
  BY DEF L!Charged
<1> HIDE DEF R, S
<1>4. QED BY <1>1, <1>2, <1>3 DEF L!Budget

LEMMA ZeroType == L!Zero \in [L!Unit -> Nat]
BY DEF L!Zero, L!Unit

\* Every command on a VM's reservation leaves the slots alone.
VMCommand(x) ==
    \/ L!SettleUncertain(VM(x)) \/ L!Settle(VM(x), L!Zero) \/ L!Provision(VM(x), 0, 0)
    \/ L!ProvisionCommitted(VM(x)) \/ L!ProvisionRejected(VM(x)) \/ L!DestroyLocal(VM(x))
    \/ L!FailedLocal(VM(x)) \/ L!DestroySettled(VM(x))
    \/ UNCHANGED ledger

LEMMA VMCommandMoves ==
    ASSUME WorkspacesTypeOK, SlotsCounted, NEW x \in Execution, VMCommand(x)
    PROVE  /\ LedgerMoves(x)
           /\ L!LedgerTypeOK' /\ SlotsCounted'
           /\ \A y \in Execution : L!Unsettled(Slot(y))' = L!Unsettled(Slot(y))
<1> DEFINE q == res[VM(x)]
<1>1. /\ res \in [Reservations -> L!Reservation] /\ budget \in L!Budget
      /\ open \in BOOLEAN /\ overrun \in BOOLEAN /\ again \in [Reservations -> L!Release]
      /\ q \in L!Reservation /\ q.workers = 0 /\ VM(x) \in Reservations
      /\ budget.workers \in Int /\ budget.workers - q.workers = budget.workers
  BY Slots DEF WorkspacesTypeOK, L!LedgerTypeOK, Reservations, SlotsCounted, L!Budget
<1>2. SUFFICES
        \/ UNCHANGED ledger
        \/ /\ open' \in BOOLEAN /\ overrun' \in BOOLEAN /\ again' \in [Reservations -> L!Release]
           /\ budget' \in L!Budget /\ budget'.workers = budget.workers
           /\ \E r \in L!Reservation : r.workers = 0 /\ res' = [res EXCEPT ![VM(x)] = r]
  <2>1. CASE UNCHANGED ledger
    BY <1>1, <2>1, LedgerStays DEF ledger, LedgerMoves
  <2>2. CASE /\ open' \in BOOLEAN /\ overrun' \in BOOLEAN /\ again' \in [Reservations -> L!Release]
             /\ budget' \in L!Budget /\ budget'.workers = budget.workers
             /\ \E r \in L!Reservation : r.workers = 0 /\ res' = [res EXCEPT ![VM(x)] = r]
    BY <2>2, VMReservationMoves DEF LedgerMoves
  <2>3. QED BY <2>1, <2>2
<1>3. CASE L!SettleUncertain(VM(x))
  <2>1. PICK r \in L!Reservation : r = [q EXCEPT !.state = "uncertain"]
    BY <1>1 DEF L!Reservation
  <2>2. r.workers = 0 /\ res' = [res EXCEPT ![VM(x)] = r]
    BY <1>1, <1>3, <2>1 DEF L!SettleUncertain, L!Reservation
  <2>3. QED BY <1>1, <1>3, <2>2 DEF L!SettleUncertain
<1>4. CASE L!Settle(VM(x), L!Zero)
  <2>1. PICK r \in L!Reservation : r = [q EXCEPT !.state = "settled", !.actual = L!Zero]
    BY <1>1, ZeroType DEF L!Reservation
  <2>2. r.workers = 0 /\ res' = [res EXCEPT ![VM(x)] = r]
    BY <1>1, <1>4, <2>1 DEF L!Settle, L!Reservation
  <2>3. budget' \in L!Budget /\ budget'.workers = budget.workers
    BY <1>1, <1>4, ChargedZero DEF L!Settle
  <2>4. QED BY <1>1, <1>4, <2>2, <2>3 DEF L!Settle
<1>5. CASE L!Provision(VM(x), 0, 0)
  <2> DEFINE a == [L!Zero EXCEPT !["cost"] = 0]
  <2>1. a \in [L!Unit -> Nat]
    BY ZeroType DEF L!Unit
  <2>2. PICK r \in L!Reservation :
          r = [state |-> "active", reserved |-> a, actual |-> L!Zero, workers |-> 0,
               vm |-> "pending"]
    BY <2>1, ZeroType DEF L!Reservation
  <2>3. r.workers = 0 /\ res' = [res EXCEPT ![VM(x)] = r]
    BY <1>5, <2>2 DEF L!Provision, L!Enter
  <2> DEFINE R == [u \in L!Unit |-> budget.reserved[u] + a[u]]
  <2>4. R \in [L!Unit -> Int]
    BY <1>1, <2>1 DEF L!Budget
  <2>5. budget' = [budget EXCEPT !.reserved = R, !.workers = budget.workers]
    <3>1. budget' = [budget EXCEPT !.reserved = R, !.workers = budget.workers + 0]
      BY <1>5 DEF L!Provision, L!Enter
    <3>2. budget.workers + 0 = budget.workers
      BY <1>1
    <3>3. QED BY <3>1, <3>2
  <2>6. budget' \in L!Budget /\ budget'.workers = budget.workers
    <3> HIDE DEF R
    <3>1. QED BY <1>1, <2>4, <2>5 DEF L!Budget
  <2>7. QED BY <1>1, <1>5, <2>3, <2>6 DEF L!Provision, L!Enter
<1>6. CASE L!ProvisionCommitted(VM(x))
  <2>1. PICK r \in L!Reservation : r = [q EXCEPT !.vm = "live"]
    BY <1>1 DEF L!Reservation
  <2>2. r.workers = 0 /\ res' = [res EXCEPT ![VM(x)] = r]
    BY <1>1, <1>6, <2>1 DEF L!ProvisionCommitted, L!Reservation
  <2>3. QED BY <1>1, <1>6, <2>2 DEF L!ProvisionCommitted
<1>7. CASE L!ProvisionRejected(VM(x))
  <2>1. PICK r \in L!Reservation :
          r = [q EXCEPT !.state = "settled", !.actual["cost"] = 0, !.workers = 0,
                        !.vm = "destroyed"]
    <3>1. [q.actual EXCEPT !["cost"] = 0] \in [L!Unit -> Nat]
      BY <1>1 DEF L!Reservation, L!Unit
    <3>2. QED BY <1>1, <3>1 DEF L!Reservation
  <2>2. r.workers = 0 /\ res' = [res EXCEPT ![VM(x)] = r]
    BY <1>1, <1>7, <2>1 DEF L!ProvisionRejected, L!Reservation
  <2> DEFINE R == [budget.reserved EXCEPT !["cost"] = @ - q.reserved["cost"]]
  <2>3. R \in [L!Unit -> Int]
    BY <1>1 DEF L!Budget, L!Reservation, L!Unit
  <2>4. budget' = [budget EXCEPT !.workers = budget.workers, !.reserved = R]
    BY <1>1, <1>7 DEF L!ProvisionRejected
  <2>5. budget' \in L!Budget /\ budget'.workers = budget.workers
    <3> HIDE DEF R
    <3>1. QED BY <1>1, <2>3, <2>4 DEF L!Budget
  <2>6. again' \in [Reservations -> L!Release]
    <3>1. L!Repeated(VM(x)) \in L!Release
      BY <1>1 DEF L!Repeated, L!Release, L!Reservation, L!Unit
    <3>2. QED BY <1>1, <1>7, <3>1 DEF L!ProvisionRejected
  <2>7. QED BY <1>1, <1>7, <2>2, <2>5, <2>6 DEF L!ProvisionRejected
<1>8. CASE L!DestroyLocal(VM(x)) \/ L!FailedLocal(VM(x))
  <2>1. budget' \in L!Budget /\ budget'.workers = budget.workers
    BY <1>1, <1>8, ChargedZero DEF L!DestroyLocal, L!FailedLocal
  <2>2. \E r \in L!Reservation : r.workers = 0 /\ res' = [res EXCEPT ![VM(x)] = r]
    <3>1. CASE L!DestroyLocal(VM(x))
      <4>1. PICK r \in L!Reservation :
              r = [[q EXCEPT !.state = "settled", !.actual = L!Zero] EXCEPT !.vm = "destroyed"]
        BY <1>1, ZeroType DEF L!Reservation
      <4>2. QED BY <1>1, <3>1, <4>1 DEF L!DestroyLocal, L!SettledZero, L!Reservation
    <3>2. CASE L!FailedLocal(VM(x))
      <4>1. PICK r \in L!Reservation :
              r = [[q EXCEPT !.state = "settled", !.actual = L!Zero]
                     EXCEPT !.vm = "destroyed", !.workers = 0]
        BY <1>1, ZeroType DEF L!Reservation
      <4>2. QED BY <1>1, <3>2, <4>1 DEF L!FailedLocal, L!SettledZero, L!Reservation
    <3>3. QED BY <1>8, <3>1, <3>2
  <2>3. QED BY <1>1, <1>8, <2>1, <2>2 DEF L!DestroyLocal, L!FailedLocal
<1>9. CASE L!DestroySettled(VM(x))
  <2>1. PICK r \in L!Reservation : r = [q EXCEPT !.vm = "destroyed"]
    BY <1>1 DEF L!Reservation
  <2>2. r.workers = 0 /\ res' = [res EXCEPT ![VM(x)] = r]
    BY <1>1, <1>9, <2>1 DEF L!DestroySettled, L!Reservation
  <2>3. QED BY <1>1, <1>9, <2>2 DEF L!DestroySettled
<1>10. QED
  BY <1>3, <1>4, <1>5, <1>6, <1>7, <1>8, <1>9 DEF VMCommand

\* The slot is settled at the end of the execution, or by the controller.
LEMMA SlotSettled ==
    ASSUME WorkspacesTypeOK, SlotsCounted, NEW x \in Execution,
           L!Settle(Slot(x), L!Zero) \/ L!ReleaseSlot(Slot(x))
    PROVE  LedgerMoves(x)
<1> DEFINE q == res[Slot(x)]
<1>1. /\ res \in [Reservations -> L!Reservation] /\ budget \in L!Budget
      /\ open \in BOOLEAN /\ overrun \in BOOLEAN /\ again \in [Reservations -> L!Release]
      /\ q \in L!Reservation /\ Slot(x) \in Reservations /\ L!Unsettled(Slot(x))
      /\ q.workers = 1
  BY Slots DEF WorkspacesTypeOK, L!LedgerTypeOK, Reservations, SlotsCounted, L!Settle,
               L!ReleaseSlot, L!ActiveSlot, L!Unsettled
<1>2. PICK r \in L!Reservation : r = [q EXCEPT !.state = "settled", !.actual = L!Zero]
  BY <1>1, ZeroType DEF L!Reservation
<1>3. r.state = "settled" /\ res' = [res EXCEPT ![Slot(x)] = r]
  BY <1>1, <1>2 DEF L!Settle, L!ReleaseSlot, L!SettledZero, L!Reservation
<1>4. /\ res' \in [Reservations -> L!Reservation]
      /\ \A y \in Execution : /\ res'[Slot(y)] = IF y = x THEN r ELSE res[Slot(y)]
                              /\ res'[VM(y)].workers = 0
  BY <1>1, <1>3, Slots DEF SlotsCounted
<1>5. budget' \in L!Budget /\ budget'.workers = budget.workers - 1
  <2>1. CASE L!Settle(Slot(x), L!Zero)
    BY <1>1, <2>1, ChargedZero DEF L!Settle
  <2>2. CASE L!ReleaseSlot(Slot(x))
    BY <1>1, <2>2 DEF L!ReleaseSlot, L!Budget
  <2>3. QED BY <2>1, <2>2
<1>6. open' \in BOOLEAN /\ overrun' \in BOOLEAN /\ again' \in [Reservations -> L!Release]
  BY <1>1 DEF L!Settle, L!ReleaseSlot
<1>7. QED BY <1>1, <1>3, <1>4, <1>5, <1>6, SlotGiven

LEMMA BothRetired ==
    ASSUME WorkspacesTypeOK, SlotsCounted, NEW x \in Execution, L!RetireLocal(VM(x), Slot(x))
    PROVE  LedgerMoves(x)
<1> DEFINE q == res[Slot(x)]
           p == res[VM(x)]
<1>1. /\ res \in [Reservations -> L!Reservation] /\ budget \in L!Budget
      /\ open \in BOOLEAN /\ overrun \in BOOLEAN /\ again \in [Reservations -> L!Release]
      /\ q \in L!Reservation /\ p \in L!Reservation /\ p.workers = 0
      /\ Slot(x) \in Reservations /\ VM(x) \in Reservations /\ L!Unsettled(Slot(x))
  BY Slots DEF WorkspacesTypeOK, L!LedgerTypeOK, Reservations, SlotsCounted, L!RetireLocal
<1>2. PICK r \in L!Reservation : r = [q EXCEPT !.state = "settled", !.actual = L!Zero]
  BY <1>1, ZeroType DEF L!Reservation
<1>3. PICK s \in L!Reservation :
        s = [[p EXCEPT !.state = "settled", !.actual = L!Zero] EXCEPT !.vm = "destroyed"]
  BY <1>1, ZeroType DEF L!Reservation
<1>4. r.state = "settled" /\ s.workers = 0
  BY <1>1, <1>2, <1>3 DEF L!Reservation
<1>5. res' = [res EXCEPT ![VM(x)] = s, ![Slot(x)] = r]
  BY <1>1, <1>2, <1>3, Slots DEF L!RetireLocal, L!SettledZero
<1>6. /\ res' \in [Reservations -> L!Reservation]
      /\ \A y \in Execution : /\ res'[Slot(y)] = IF y = x THEN r ELSE res[Slot(y)]
                              /\ res'[VM(y)] = IF y = x THEN s ELSE res[VM(y)]
  BY <1>1, <1>5, Slots
<1>7. \A y \in Execution : res'[VM(y)].workers = 0
  BY <1>4, <1>6 DEF SlotsCounted
<1>8. budget' \in L!Budget /\ budget'.workers = budget.workers - 1
  BY <1>1 DEF L!RetireLocal, L!Budget
<1>9. open' \in BOOLEAN /\ overrun' \in BOOLEAN /\ again' \in [Reservations -> L!Release]
  BY <1>1 DEF L!RetireLocal
<1>10. QED BY <1>1, <1>4, <1>6, <1>7, <1>8, <1>9, SlotGiven

\* One step of execution x, or of what acts on it: only its own records change.
Becomes(x, p, w, f, c, v, d, n) ==
    /\ phase' = [phase EXCEPT ![x] = p]
    /\ ws' = [ws EXCEPT ![x] = w]
    /\ op' = [op EXCEPT ![x] = f]
    /\ call' = [call EXCEPT ![x] = c]
    /\ vm' = [vm EXCEPT ![x] = v]
    /\ dirty' = [dirty EXCEPT ![x] = d]
    /\ dispatched' = [dispatched EXCEPT ![x] = n]

Status == [Operation -> OperationStatus]
Counts == [Operation -> Nat]
VMState == {"none", "creating", "up", "gone"}

\* The present records of x.
Is(x, p, w, f, c, v, d, n) ==
    /\ p \in Phase /\ w \in Workspace /\ f \in Status /\ c \in Operation \cup {None}
    /\ v \in VMState /\ d \in BOOLEAN /\ n \in Counts
    /\ p = phase[x] /\ w = ws[x] /\ f = op[x] /\ c = call[x] /\ v = vm[x] /\ d = dirty[x]
    /\ n = dispatched[x]
    /\ StageFits(p, w, f, c, v, d, n, L!Unsettled(Slot(x)))
    /\ phase = [phase EXCEPT ![x] = p] /\ ws = [ws EXCEPT ![x] = w]
    /\ op = [op EXCEPT ![x] = f] /\ call = [call EXCEPT ![x] = c]
    /\ vm = [vm EXCEPT ![x] = v] /\ dirty = [dirty EXCEPT ![x] = d]
    /\ dispatched = [dispatched EXCEPT ![x] = n]

LEMMA AtRest ==
    ASSUME WorkspacesInv, NEW x \in Execution
    PROVE  \E p \in Phase, w \in Workspace, f \in Status, c \in Operation \cup {None},
              v \in VMState, d \in BOOLEAN, n \in Counts : Is(x, p, w, f, c, v, d, n)
<1>1. /\ phase \in [Execution -> Phase] /\ ws \in [Execution -> Workspace]
      /\ op \in [Execution -> Status] /\ call \in [Execution -> Operation \cup {None}]
      /\ vm \in [Execution -> VMState] /\ dirty \in [Execution -> BOOLEAN]
      /\ dispatched \in [Execution -> Counts]
  BY DEF WorkspacesInv, WorkspacesTypeOK, Status, Counts, VMState
<1>2. Is(x, phase[x], ws[x], op[x], call[x], vm[x], dirty[x], dispatched[x])
  BY <1>1 DEF Is, WorkspacesInv, StageOf
<1>3. /\ phase[x] \in Phase /\ ws[x] \in Workspace /\ op[x] \in Status
      /\ call[x] \in Operation \cup {None} /\ vm[x] \in VMState /\ dirty[x] \in BOOLEAN
      /\ dispatched[x] \in Counts
  BY <1>1
<1> USE <1>3
<1> WITNESS phase[x] \in Phase, ws[x] \in Workspace, op[x] \in Status,
           call[x] \in Operation \cup {None}, vm[x] \in VMState, dirty[x] \in BOOLEAN,
           dispatched[x] \in Counts
<1>4. QED BY <1>2

\* A step that leaves the records, the ledger and the lease as they may be.
Moved(x, p, w, f, c, v, d, n) ==
    /\ p \in Phase /\ w \in Workspace /\ f \in Status /\ c \in Operation \cup {None}
    /\ v \in VMState /\ d \in BOOLEAN /\ n \in Counts
    /\ Becomes(x, p, w, f, c, v, d, n)
    /\ LedgerMoves(x)
    /\ lease' \in [holder : Execution \cup {None}, live : BOOLEAN]
    /\ bound' \in Execution \cup {None}
    /\ StageFits(p, w, f, c, v, d, n, L!Unsettled(Slot(x))')

LEMMA StepKeeps ==
    ASSUME WorkspacesInv, NEW x \in Execution, NEW p, NEW w, NEW f, NEW c, NEW v, NEW d, NEW n,
           Moved(x, p, w, f, c, v, d, n)
    PROVE  WorkspacesInv'
<1> USE DEF Moved
<1>1. /\ phase \in [Execution -> Phase] /\ ws \in [Execution -> Workspace]
      /\ op \in [Execution -> Status] /\ call \in [Execution -> Operation \cup {None}]
      /\ vm \in [Execution -> VMState] /\ dirty \in [Execution -> BOOLEAN]
      /\ dispatched \in [Execution -> Counts]
  BY DEF WorkspacesInv, WorkspacesTypeOK, Status, Counts, VMState
<1>2. /\ phase' \in [Execution -> Phase] /\ ws' \in [Execution -> Workspace]
      /\ op' \in [Execution -> Status] /\ call' \in [Execution -> Operation \cup {None}]
      /\ vm' \in [Execution -> VMState] /\ dirty' \in [Execution -> BOOLEAN]
      /\ dispatched' \in [Execution -> Counts]
  BY <1>1 DEF Becomes
<1>3. WorkspacesTypeOK'
  BY <1>2 DEF WorkspacesTypeOK, Status, Counts, VMState, LedgerMoves
<1>4. ASSUME NEW y \in Execution PROVE StageOf(y)'
  <2>1. CASE y = x
    <3>1. /\ phase'[x] = p /\ ws'[x] = w /\ op'[x] = f /\ call'[x] = c /\ vm'[x] = v
          /\ dirty'[x] = d /\ dispatched'[x] = n
      BY <1>1 DEF Becomes
    <3>2. QED BY <2>1, <3>1 DEF StageOf
  <2>2. CASE y # x
    <3>1. /\ phase'[y] = phase[y] /\ ws'[y] = ws[y] /\ op'[y] = op[y] /\ call'[y] = call[y]
          /\ vm'[y] = vm[y] /\ dirty'[y] = dirty[y] /\ dispatched'[y] = dispatched[y]
      BY <1>1, <2>2 DEF Becomes
    <3>2. L!Unsettled(Slot(y)) => L!Unsettled(Slot(y))'
      BY <2>2 DEF LedgerMoves
    <3>3. StageOf(y)
      BY DEF WorkspacesInv
    <3>4. QED BY <3>1, <3>2, <3>3 DEF StageOf, StageFits
  <2>3. QED BY <2>1, <2>2
<1>5. QED BY <1>3, <1>4 DEF WorkspacesInv, LedgerMoves

LEMMA Frame ==
    ASSUME WorkspacesInv
    PROVE  /\ WorkspacesTypeOK /\ SlotsCounted
           /\ lease \in [holder : Execution \cup {None}, live : BOOLEAN]
           /\ bound \in Execution \cup {None}
           /\ open \in BOOLEAN /\ overrun \in BOOLEAN
           /\ None \notin Operation
           /\ {"provision", "final", "destroy"} \subseteq Operation /\ Command \subseteq Operation
           /\ {"provision", "final", "destroy"} \cap Command = {}
BY DEF WorkspacesInv, WorkspacesTypeOK, L!LedgerTypeOK, Operation

LEMMA SlotReserved ==
    ASSUME WorkspacesInv, NEW x \in Execution, ReserveSlot(x)
    PROVE  WorkspacesInv'
<1>1. PICK p \in Phase, w \in Workspace, f \in Status, c \in Operation \cup {None},
           v \in VMState, d \in BOOLEAN, n \in Counts : Is(x, p, w, f, c, v, d, n)
  BY AtRest
<1>2. LedgerMoves(x) /\ L!Unsettled(Slot(x))'
  BY Frame, SlotTaken DEF ReserveSlot
<1>3. Becomes(x, "reserved", w, f, c, v, d, n) /\ p = "new"
  BY <1>1 DEF Is, Becomes, ReserveSlot, Enter, broker
<1>4. StageFits("reserved", w, f, c, v, d, n, L!Unsettled(Slot(x))')
  BY <1>1, <1>2, <1>3 DEF Is, StageFits, Untouched, Existing, Awaited, CalledOnce, Archived, Ended
<1>5. "reserved" \in Phase /\ UNCHANGED <<lease, bound>>
  BY DEF Phase, ReserveSlot
<1>6. Moved(x, "reserved", w, f, c, v, d, n)
  BY <1>2, <1>3, <1>4, <1>5, Frame DEF Moved
<1>7. QED BY <1>6, StepKeeps

\* The steps of an execution that leave the ledger alone.
LEMMA PhaseMoves ==
    ASSUME WorkspacesInv, NEW x \in Execution,
           \/ Acquire(x) \/ BindSlot(x) \/ EndsEarly(x) \/ BeginClose(x) \/ EndClose(x)
           \/ ReadUnresolved(x) \/ Crash(x)
    PROVE  WorkspacesInv'
<1>1. PICK p \in Phase, w \in Workspace, f \in Status, c \in Operation \cup {None},
           v \in VMState, d \in BOOLEAN, n \in Counts : Is(x, p, w, f, c, v, d, n)
  BY AtRest
<1>2. UNCHANGED ledger
  BY DEF Acquire, BindSlot, EndsEarly, BeginClose, EndClose, ReadUnresolved, Crash
<1>3. LedgerMoves(x) /\ L!Unsettled(Slot(x))' = L!Unsettled(Slot(x))
  BY <1>2, Frame, LedgerStays DEF ledger, LedgerMoves
<1>4. /\ lease' \in [holder : Execution \cup {None}, live : BOOLEAN]
      /\ bound' \in Execution \cup {None}
  <2>1. /\ lease' = lease \/ lease' = [holder |-> x, live |-> TRUE]
        /\ bound' = bound \/ bound' = x
    BY DEF Acquire, BindSlot, EndsEarly, BeginClose, EndClose, ReadUnresolved, Crash
  <2>2. /\ lease \in [holder : Execution \cup {None}, live : BOOLEAN]
        /\ bound \in Execution \cup {None}
    BY Frame
  <2>3. [holder |-> x, live |-> TRUE] \in [holder : Execution \cup {None}, live : BOOLEAN]
    OBVIOUS
  <2>4. QED BY <2>1, <2>2, <2>3
<1>5. PICK q \in Phase, e \in Operation \cup {None} :
        /\ Becomes(x, q, w, f, e, v, d, n)
        /\ StageFits(q, w, f, e, v, d, n, L!Unsettled(Slot(x)))
  <2> DEFINE Next(q, e) == /\ Becomes(x, q, w, f, e, v, d, n)
                           /\ StageFits(q, w, f, e, v, d, n, L!Unsettled(Slot(x)))
  <2>1. CASE Acquire(x)
    <3>1. Becomes(x, "leased", w, f, c, v, d, n) /\ p = "reserved"
      BY <1>1, <2>1 DEF Is, Becomes, Acquire, Enter, broker
    <3>2. Next("leased", c)
      BY <1>1, <3>1 DEF Is, StageFits, Untouched, Existing, Awaited, CalledOnce, Archived, Ended
    <3>3. "leased" \in Phase
      BY DEF Phase
    <3>4. QED BY <3>2, <3>3
  <2>2. CASE BindSlot(x)
    <3>1. Becomes(x, "working", w, f, c, v, d, n) /\ p = "leased"
      BY <1>1, <2>2 DEF Is, Becomes, BindSlot, Enter, broker
    <3>2. Next("working", c)
      BY <1>1, <3>1 DEF Is, StageFits, Untouched, Existing, Awaited, CalledOnce, Archived, Ended
    <3>3. "working" \in Phase
      BY DEF Phase
    <3>4. QED BY <3>2, <3>3
  <2>3. CASE EndsEarly(x)
    <3>1. Becomes(x, "ending", w, f, c, v, d, n) /\ p = "leased"
      BY <1>1, <2>3 DEF Is, Becomes, EndsEarly, Enter, broker
    <3>2. Next("ending", c)
      BY <1>1, <3>1 DEF Is, StageFits, Untouched, Existing, Awaited, CalledOnce, Archived, Ended
    <3>3. "ending" \in Phase
      BY DEF Phase
    <3>4. QED BY <3>2, <3>3
  <2>4. CASE BeginClose(x)
    <3>1. PICK q \in {"closing", "ending"} :
            /\ Becomes(x, q, w, f, c, v, d, n) /\ p = "working" /\ c = None
            /\ q = "ending" => ~(f["provision"] = "completed" /\ w.status = "ready")
      BY <1>1, <2>4 DEF Is, Becomes, BeginClose, Enter, broker
    <3>2. Next(q, c)
      BY <1>1, <3>1 DEF Is, StageFits, Untouched, Existing, Awaited, CalledOnce, Archived, Ended
    <3>3. q \in Phase
      BY <3>1 DEF Phase
    <3>4. QED BY <3>2, <3>3
  <2>5. CASE EndClose(x)
    <3>1. /\ Becomes(x, "ending", w, f, c, v, d, n) /\ p = "closing" /\ c = None
          /\ w.status # "ready" \/ w.active # None
      BY <1>1, <2>5 DEF Is, Becomes, EndClose, NothingToClose, Enter, broker
    <3>2. Next("ending", c)
      BY <1>1, <3>1 DEF Is, StageFits, Untouched, Existing, Awaited, CalledOnce, Archived, Ended
    <3>3. "ending" \in Phase
      BY DEF Phase
    <3>4. QED BY <3>2, <3>3
  <2>6. CASE ReadUnresolved(x)
    <3>1. PICK q \in {"unresolved", "clear"} :
            /\ Becomes(x, q, w, f, c, v, d, n) /\ p = "ending"
            /\ q = "clear" => w.status \in {"absent", "destroyed"}
      BY <1>1, <2>6 DEF Is, Becomes, ReadUnresolved, Unresolved, Enter, broker
    <3>2. Next(q, c)
      BY <1>1, <3>1 DEF Is, StageFits, Untouched, Existing, Awaited, CalledOnce, Archived, Ended
    <3>3. q \in Phase
      BY <3>1 DEF Phase
    <3>4. QED BY <3>2, <3>3
  <2>7. CASE Crash(x)
    <3>1. Becomes(x, "dead", w, f, None, v, d, n) /\ p # "new"
      BY <1>1, <2>7 DEF Is, Becomes, Crash, Enter
    <3>2. Next("dead", None)
      BY <1>1, <3>1 DEF Is, StageFits, Untouched, Existing, Awaited, CalledOnce, Archived, Ended
    <3>3. "dead" \in Phase
      BY DEF Phase
    <3>4. QED BY <3>2, <3>3
  <2>8. QED BY <2>1, <2>2, <2>3, <2>4, <2>5, <2>6, <2>7
<1>6. StageFits(q, w, f, e, v, d, n, L!Unsettled(Slot(x))')
  BY <1>3, <1>5 DEF StageFits
<1>7. Moved(x, q, w, f, e, v, d, n)
  BY <1>3, <1>4, <1>5, <1>6 DEF Moved
<1>8. QED BY <1>7, StepKeeps

\* The slot is given back only by an execution that made no VM or saw it gone.
LEMMA SlotReturned ==
    ASSUME WorkspacesInv, NEW x \in Execution, AcquireRefused(x) \/ SettleSlot(x)
    PROVE  WorkspacesInv'
<1>1. PICK p \in Phase, w \in Workspace, f \in Status, c \in Operation \cup {None},
           v \in VMState, d \in BOOLEAN, n \in Counts : Is(x, p, w, f, c, v, d, n)
  BY AtRest
<1>2. /\ Becomes(x, "over", w, f, c, v, d, n) /\ p \in {"reserved", "clear", "unresolved"}
      /\ UNCHANGED <<lease, bound>>
  BY <1>1 DEF Is, Becomes, AcquireRefused, SettleSlot, Enter, broker
<1>3. LedgerMoves(x) /\ (L!Unsettled(Slot(x)) /\ p = "unresolved" => L!Unsettled(Slot(x))')
  <2>1. CASE L!Settle(Slot(x), L!Zero) /\ p # "unresolved"
    BY <2>1, Frame, SlotSettled
  <2>2. CASE UNCHANGED ledger
    BY <2>2, Frame, LedgerStays DEF ledger, LedgerMoves
  <2>3. CASE L!SettleUncertain(Slot(x))
    BY <2>3, Frame, SlotStaysHeld DEF LedgerMoves
  <2>4. QED
    BY <1>1, <2>1, <2>2, <2>3 DEF AcquireRefused, SettleSlot, Is
<1>4. StageFits("over", w, f, c, v, d, n, L!Unsettled(Slot(x))')
  <2>1. v \in {"creating", "up"} => p = "unresolved" /\ L!Unsettled(Slot(x))
    BY <1>1, <1>2 DEF Is, StageFits, Untouched, Existing, Ended
  <2>2. QED
    BY <1>1, <1>2, <1>3, <2>1
    DEF Is, StageFits, Untouched, Existing, Awaited, CalledOnce, Archived, Ended
<1>5. "over" \in Phase
  BY DEF Phase
<1>6. Moved(x, "over", w, f, c, v, d, n)
  BY <1>2, <1>3, <1>4, <1>5, Frame DEF Moved
<1>7. QED BY <1>6, StepKeeps

\* Leases, the experiment's status and an operator's settlement touch no execution's records.
LEMMA OutsideMoves ==
    ASSUME WorkspacesInv,
           \/ LeaseExpires \/ \E b \in BOOLEAN : SetOpen(b)
           \/ \E x \in Execution : ReleaseLease(x) \/ OperatorSettles(x)
           \/ UNCHANGED workspaceVars
    PROVE  WorkspacesInv'
<1>1. UNCHANGED <<phase, ws, op, call, vm, dirty, dispatched>>
  BY DEF LeaseExpires, SetOpen, ReleaseLease, OperatorSettles, broker, workspaceVars
<1>2. /\ lease' \in [holder : Execution \cup {None}, live : BOOLEAN]
      /\ bound' \in Execution \cup {None}
  BY Frame DEF LeaseExpires, SetOpen, ReleaseLease, OperatorSettles, workspaceVars
<1>3. /\ L!LedgerTypeOK' /\ SlotsCounted'
      /\ \A y \in Execution : L!Unsettled(Slot(y))' = L!Unsettled(Slot(y))
  <2>1. CASE UNCHANGED ledger \/ \E b \in BOOLEAN : L!SetOpen(b)
    BY <2>1, Frame, LedgerStays DEF ledger, L!SetOpen
  <2>2. ASSUME NEW x \in Execution, L!Settle(VM(x), L!Zero)
        PROVE  /\ L!LedgerTypeOK' /\ SlotsCounted'
               /\ \A y \in Execution : L!Unsettled(Slot(y))' = L!Unsettled(Slot(y))
    BY <2>2, Frame, VMCommandMoves DEF VMCommand
  <2>3. QED
    BY <2>1, <2>2 DEF LeaseExpires, SetOpen, ReleaseLease, OperatorSettles, workspaceVars, ledger
<1>4. WorkspacesTypeOK'
  BY <1>1, <1>2, <1>3 DEF WorkspacesInv, WorkspacesTypeOK
<1>5. ASSUME NEW y \in Execution PROVE StageOf(y)'
  <2>1. StageOf(y)
    BY DEF WorkspacesInv
  <2>2. QED BY <1>1, <1>3, <2>1 DEF StageOf, StageFits
<1>6. QED BY <1>3, <1>4, <1>5 DEF WorkspacesInv

\* A step of the broker: it moves at most the VM's reservation.
BrokerMoved(x, p, w, f, c, v, d, n) ==
    /\ p \in Phase /\ w \in Workspace /\ f \in Status /\ c \in Operation \cup {None}
    /\ v \in VMState /\ d \in BOOLEAN /\ n \in Counts
    /\ Becomes(x, p, w, f, c, v, d, n)
    /\ VMCommand(x)
    /\ UNCHANGED <<lease, bound>>
    /\ StageFits(p, w, f, c, v, d, n, L!Unsettled(Slot(x)))

LEMMA BrokerKeeps ==
    ASSUME WorkspacesInv, NEW x \in Execution, NEW p, NEW w, NEW f, NEW c, NEW v, NEW d, NEW n,
           BrokerMoved(x, p, w, f, c, v, d, n)
    PROVE  WorkspacesInv'
<1>1. LedgerMoves(x) /\ L!Unsettled(Slot(x))' = L!Unsettled(Slot(x))
  BY Frame, VMCommandMoves DEF BrokerMoved
<1>2. StageFits(p, w, f, c, v, d, n, L!Unsettled(Slot(x))')
  BY <1>1 DEF BrokerMoved, StageFits
<1>3. Moved(x, p, w, f, c, v, d, n)
  BY <1>1, <1>2, Frame DEF BrokerMoved, Moved
<1>4. QED BY <1>3, StepKeeps

\* What an uncertain outcome records, if the database takes it.
Unsure(w, f, o, w1, f1) ==
    \/ w1 = w /\ f1 = f
    \/ /\ w1.status = "reconciliation_required" /\ w1.active = w.active
       /\ f1 = [f EXCEPT ![o] = "reconciliation_required"]

LEMMA UncertainRecords ==
    ASSUME WorkspacesInv, NEW x \in Execution, NEW o \in Operation, NEW b \in BOOLEAN,
           Uncertain(x, o, b),
           NEW p, NEW w, NEW f, NEW c, NEW v, NEW d, NEW n, Is(x, p, w, f, c, v, d, n)
    PROVE  /\ VMCommand(x)
           /\ \E w1 \in Workspace, f1 \in Status :
                /\ ws' = [ws EXCEPT ![x] = w1] /\ op' = [op EXCEPT ![x] = f1]
                /\ Unsure(w, f, o, w1, f1)
<1>1. CASE UNCHANGED <<ws, op, ledger>>
  <2>1. ws' = [ws EXCEPT ![x] = w] /\ op' = [op EXCEPT ![x] = f]
    BY <1>1 DEF Is
  <2>2. w \in Workspace /\ f \in Status /\ Unsure(w, f, o, w, f)
    BY DEF Is, Unsure
  <2>3. QED BY <1>1, <2>1, <2>2 DEF VMCommand
<1>2. CASE RecordUncertainty(x, o, b)
  <2>1. VMCommand(x)
    BY <1>2 DEF RecordUncertainty, VMCommand
  <2>2. PICK w1 \in Workspace :
          w1 = [status |-> "reconciliation_required", active |-> w.active, confirmed |-> b]
    BY DEF Workspace, Is
  <2>3. PICK f1 \in Status : f1 = [f EXCEPT ![o] = "reconciliation_required"]
    BY DEF Status, OperationStatus, Is
  <2>4. ws' = [ws EXCEPT ![x] = w1] /\ op' = [op EXCEPT ![x] = f1]
    BY <1>2, <2>2, <2>3 DEF RecordUncertainty, Show, Record, Is
  <2>5. w1.status = "reconciliation_required" /\ w1.active = w.active
    BY <2>2
  <2>6. QED BY <2>1, <2>3, <2>4, <2>5 DEF Unsure
<1>3. QED BY <1>1, <1>2 DEF Uncertain

\* The stage of an execution whose call came back with an uncertain outcome.
LEMMA UnsureStage ==
    ASSUME NEW p, NEW w \in Workspace, NEW f \in Status, NEW c \in Operation,
           NEW v, NEW d, NEW n \in Counts, NEW h,
           StageFits(p, w, f, c, v, d, n, h),
           NEW w1 \in Workspace, NEW f1 \in Status, Unsure(w, f, c, w1, f1),
           NEW v1, v1 \in {"creating", "up"} => h,
           v1 = v \/ (c # "provision" /\ v1 \in {"up", "gone"}),
           None \notin Operation, {"provision", "final", "destroy"} \subseteq Operation
    PROVE  StageFits(p, w1, f1, None, v1, d, n, h)
<1>1. /\ f[c] = "pending" /\ p \in {"working", "closing"}
      /\ w.status \in {"provisioning", "ready"} /\ f["provision"] # "absent"
      /\ c # "provision" => w.status = "ready"
  BY DEF StageFits, Awaited, Existing
<1>2. f1["provision"] # "absent" /\ \A o \in Operation : o # c => f1[o] = f[o]
  BY <1>1 DEF Unsure, Status
<1>3. f1[c] \in {"pending", "reconciliation_required"}
  BY <1>1 DEF Unsure, Status
<1>4. /\ w1.status \in {"provisioning", "ready", "reconciliation_required"}
      /\ w1.status = "ready" => w.status = "ready" /\ f1 = f
  BY <1>1 DEF Unsure
<1>5. Existing(w1, f1, v1)
  BY <1>1, <1>2, <1>4 DEF StageFits, Existing
<1>6. CalledOnce(f1, n)
  BY <1>1, <1>2, <1>3 DEF StageFits, CalledOnce
<1>7. Archived(p, f1, d, n)
  <2>1. CASE c = "final"
    BY <1>1, <1>3, <2>1 DEF StageFits, Archived, Counts
  <2>2. CASE c # "final"
    BY <1>2, <2>2 DEF StageFits, Archived
  <2>3. QED BY <2>1, <2>2
<1>8. Untouched(p, w1, None) /\ Awaited(p, w1, f1, None) /\ Ended(p, w1, None)
  BY <1>1 DEF Untouched, Awaited, Ended
<1>9. QED BY <1>5, <1>6, <1>7, <1>8 DEF StageFits

LEMMA VMIsCreated ==
    ASSUME WorkspacesInv, NEW x \in Execution, VMCreated(x) \/ OperatorDestroys(x)
    PROVE  WorkspacesInv'
<1>1. PICK p \in Phase, w \in Workspace, f \in Status, c \in Operation \cup {None},
           v \in VMState, d \in BOOLEAN, n \in Counts : Is(x, p, w, f, c, v, d, n)
  BY AtRest
<1>2. PICK v1 \in VMState :
        /\ Becomes(x, p, w, f, c, v1, d, n)
        /\ (v = "creating" /\ v1 = "up") \/ (v = "up" /\ v1 = "gone")
  <2>1. "up" \in VMState /\ "gone" \in VMState
    BY DEF VMState
  <2>2. QED BY <1>1, <2>1 DEF Is, Becomes, VMCreated, OperatorDestroys
<1>3. StageFits(p, w, f, c, v1, d, n, L!Unsettled(Slot(x)))
  BY <1>1, <1>2 DEF Is, StageFits, Untouched, Existing, Awaited, CalledOnce, Archived, Ended
<1>4. VMCommand(x) /\ UNCHANGED <<lease, bound>>
  BY DEF VMCommand, VMCreated, OperatorDestroys
<1>5. BrokerMoved(x, p, w, f, c, v1, d, n)
  BY <1>2, <1>3, <1>4 DEF BrokerMoved
<1>6. QED BY <1>5, BrokerKeeps

LEMMA ProvisionStarts ==
    ASSUME WorkspacesInv, NEW x \in Execution, ProvisionStart(x)
    PROVE  WorkspacesInv'
<1>1. PICK p \in Phase, w \in Workspace, f \in Status, c \in Operation \cup {None},
           v \in VMState, d \in BOOLEAN, n \in Counts : Is(x, p, w, f, c, v, d, n)
  BY AtRest
<1>2. /\ p = "working" /\ c = None /\ f["provision"] = "absent"
      /\ L!Unsettled(Slot(x)) /\ L!Provision(VM(x), 0, 0) /\ UNCHANGED <<lease, bound>>
  BY <1>1 DEF Is, ProvisionStart, Guard, GuardCleanup, L!Unsettled
<1>3. PICK w1 \in Workspace :
        w1 = [status |-> "provisioning", active |-> "provision", confirmed |-> FALSE]
  BY DEF Workspace, Operation
<1>4. PICK f1 \in Status : f1 = [f EXCEPT !["provision"] = "pending"]
  BY Frame DEF Status, OperationStatus
<1>5. PICK n1 \in Counts : n1 = [n EXCEPT !["provision"] = n["provision"] + 1]
  <2>1. n["provision"] + 1 \in Nat
    BY Frame DEF Counts
  <2>2. QED BY <2>1 DEF Counts
<1>6. Becomes(x, p, w1, f1, "provision", "creating", d, n1)
  BY <1>1, <1>3, <1>4, <1>5 DEF Is, Becomes, ProvisionStart, Show, Record, Dispatch
<1>7. StageFits(p, w1, f1, "provision", "creating", d, n1, L!Unsettled(Slot(x)))
  <2>1. w.status = "absent" /\ v = "none" /\ n["provision"] = 0
    BY <1>1, <1>2, Frame DEF Is, StageFits, Existing, CalledOnce
  <2>2. /\ w1.status = "provisioning" /\ f1["provision"] = "pending" /\ n1["provision"] = 1
        /\ \A o \in Operation : o # "provision" => f1[o] = f[o] /\ n1[o] = n[o]
    BY <1>3, <1>4, <1>5, <2>1, Frame DEF Status, Counts
  <2>3. f1["final"] = f["final"] /\ n1["destroy"] = n["destroy"]
    BY <2>2, Frame
  <2>4. CalledOnce(f1, n1)
    BY <1>1, <2>2 DEF Is, StageFits, CalledOnce
  <2>5. Archived(p, f1, d, n1)
    BY <1>1, <2>3 DEF Is, StageFits, Archived
  <2>6. QED
    BY <1>2, <2>2, <2>4, <2>5, Frame DEF StageFits, Untouched, Existing, Awaited, Ended
<1>8. "creating" \in VMState /\ "provision" \in Operation
  BY Frame DEF VMState
<1>9. BrokerMoved(x, p, w1, f1, "provision", "creating", d, n1)
  BY <1>2, <1>6, <1>7, <1>8 DEF BrokerMoved, VMCommand
<1>10. QED BY <1>9, BrokerKeeps

\* An answer to provision; a refusal says that no container was made.
LEMMA ProvisionReturns ==
    ASSUME WorkspacesInv, NEW x \in Execution,
           ProvisionDone(x) \/ ProvisionRejected(x) \/ ProvisionFailed(x)
    PROVE  WorkspacesInv'
<1>1. PICK p \in Phase, w \in Workspace, f \in Status, c \in Operation \cup {None},
           v \in VMState, d \in BOOLEAN, n \in Counts : Is(x, p, w, f, c, v, d, n)
  BY AtRest
<1>2. /\ c = "provision" /\ c \in Operation /\ None \notin Operation
      /\ {"provision", "final", "destroy"} \subseteq Operation
      /\ UNCHANGED <<lease, bound, phase, dirty, dispatched>>
      /\ call' = [call EXCEPT ![x] = None]
  BY <1>1, Frame DEF Is, ProvisionDone, ProvisionRejected, ProvisionFailed, Return
<1>3. StageFits(p, w, f, c, v, d, n, L!Unsettled(Slot(x)))
  BY <1>1 DEF Is
<1>4. p = "working" /\ w.status = "provisioning" /\ f["provision"] = "pending"
  BY <1>2, <1>3 DEF StageFits, Awaited
<1>5. ASSUME Uncertain(x, "provision", FALSE), UNCHANGED vm
      PROVE  WorkspacesInv'
  <2>1. VMCommand(x)
    BY <1>1, <1>2, <1>5, UncertainRecords
  <2>2. PICK w1 \in Workspace, f1 \in Status :
          /\ ws' = [ws EXCEPT ![x] = w1] /\ op' = [op EXCEPT ![x] = f1]
          /\ Unsure(w, f, "provision", w1, f1)
    BY <1>1, <1>2, <1>5, UncertainRecords
  <2>3. v \in {"creating", "up"} => L!Unsettled(Slot(x))
    BY <1>3 DEF StageFits
  <2>4. StageFits(p, w1, f1, None, v, d, n, L!Unsettled(Slot(x)))
    BY <1>2, <1>3, <2>2, <2>3, UnsureStage
  <2>5. Becomes(x, p, w1, f1, None, v, d, n)
    BY <1>1, <1>2, <1>5, <2>2 DEF Is, Becomes
  <2>6. BrokerMoved(x, p, w1, f1, None, v, d, n)
    BY <1>2, <2>1, <2>4, <2>5 DEF BrokerMoved
  <2>7. QED BY <2>6, BrokerKeeps
<1>6. CASE ProvisionDone(x) /\ Guard(x)
  <2>1. PICK w1 \in Workspace : w1 = [status |-> "ready", active |-> None, confirmed |-> FALSE]
    BY DEF Workspace
  <2>2. PICK f1 \in Status : f1 = [f EXCEPT !["provision"] = "completed"]
    BY <1>2 DEF Status, OperationStatus
  <2>3. v = "up" /\ Becomes(x, p, w1, f1, None, v, d, n) /\ VMCommand(x)
    BY <1>1, <1>2, <1>6, <2>1, <2>2
    DEF Is, Becomes, ProvisionDone, Show, Record, VMCommand
  <2>4. /\ w1.status = "ready" /\ f1["provision"] = "completed"
        /\ \A o \in Operation : o # "provision" => f1[o] = f[o]
        /\ f1["final"] = f["final"]
    BY <1>2, <2>1, <2>2 DEF Status
  <2>5. StageFits(p, w1, f1, None, v, d, n, L!Unsettled(Slot(x)))
    BY <1>2, <1>3, <1>4, <2>3, <2>4
    DEF StageFits, Untouched, Existing, Awaited, CalledOnce, Archived, Ended
  <2>6. BrokerMoved(x, p, w1, f1, None, v, d, n)
    BY <1>2, <2>3, <2>5 DEF BrokerMoved
  <2>7. QED BY <2>6, BrokerKeeps
<1>7. CASE ProvisionRejected(x) /\ Guard(x)
  <2>1. PICK w1 \in Workspace : w1 = [status |-> "destroyed", active |-> None, confirmed |-> TRUE]
    BY DEF Workspace
  <2>2. PICK f1 \in Status : f1 = [f EXCEPT !["provision"] = "rejected"]
    BY <1>2 DEF Status, OperationStatus
  <2>3. Becomes(x, p, w1, f1, None, "none", d, n) /\ VMCommand(x)
    BY <1>1, <1>2, <1>7, <2>1, <2>2
    DEF Is, Becomes, ProvisionRejected, Show, Record, VMCommand
  <2>4. /\ w1.status = "destroyed" /\ f1["provision"] = "rejected"
        /\ \A o \in Operation : o # "provision" => f1[o] = f[o]
        /\ f1["final"] = f["final"]
    BY <1>2, <2>1, <2>2 DEF Status
  <2>5. StageFits(p, w1, f1, None, "none", d, n, L!Unsettled(Slot(x)))
    BY <1>2, <1>3, <1>4, <2>3, <2>4
    DEF StageFits, Untouched, Existing, Awaited, CalledOnce, Archived, Ended
  <2>6. BrokerMoved(x, p, w1, f1, None, "none", d, n)
    BY <1>2, <2>3, <2>5 DEF BrokerMoved, VMState
  <2>7. QED BY <2>6, BrokerKeeps
<1>8. CASE ProvisionRejected(x) /\ ~Guard(x)
  <2>1. Becomes(x, p, w, f, None, "none", d, n) /\ VMCommand(x)
    BY <1>1, <1>2, <1>8 DEF Is, Becomes, ProvisionRejected, VMCommand
  <2>2. StageFits(p, w, f, None, "none", d, n, L!Unsettled(Slot(x)))
    BY <1>3, <1>4 DEF StageFits, Untouched, Existing, Awaited, CalledOnce, Archived, Ended
  <2>3. BrokerMoved(x, p, w, f, None, "none", d, n)
    BY <1>2, <2>1, <2>2 DEF BrokerMoved, VMState
  <2>4. QED BY <2>3, BrokerKeeps
<1>9. QED
  BY <1>5, <1>6, <1>7, <1>8 DEF ProvisionDone, ProvisionRejected, ProvisionFailed

LEMMA OperationStarts ==
    ASSUME WorkspacesInv, NEW x \in Execution, NEW o \in Operation, Start(x, o)
    PROVE  WorkspacesInv'
<1>1. PICK p \in Phase, w \in Workspace, f \in Status, c \in Operation \cup {None},
           v \in VMState, d \in BOOLEAN, n \in Counts : Is(x, p, w, f, c, v, d, n)
  BY AtRest
<1>2. /\ c = None /\ f[o] = "absent" /\ w.status = "ready" /\ w.active = None
      /\ UNCHANGED <<lease, bound, phase, vm>> /\ VMCommand(x)
      /\ o # "provision"
      /\ o \in Command => p = "working"
      /\ o \in {"final", "destroy"} => p = "closing"
      /\ o = "destroy" => f["final"] \in {"completed", "rejected"}
      /\ o \in Command \cup {"final", "destroy"}
  BY <1>1, Frame DEF Is, Start, Calls, Fresh, FinalSettled, VMCommand, Operation
<1>3. StageFits(p, w, f, c, v, d, n, L!Unsettled(Slot(x)))
  BY <1>1 DEF Is
<1>4. PICK w1 \in Workspace : w1 = [w EXCEPT !.active = o]
  BY DEF Workspace
<1>5. PICK f1 \in Status : f1 = [f EXCEPT ![o] = "pending"]
  BY DEF Status, OperationStatus
<1>6. PICK n1 \in Counts : n1 = [n EXCEPT ![o] = n[o] + 1]
  <2>1. n[o] + 1 \in Nat
    BY DEF Counts
  <2>2. QED BY <2>1 DEF Counts
<1>7. PICK d1 \in BOOLEAN : d1 = CASE o \in Command -> TRUE [] o = "final" -> FALSE [] OTHER -> d
  BY Frame
<1>8. Becomes(x, p, w1, f1, o, v, d1, n1)
  <2>1. dirty' = [dirty EXCEPT ![x] = d1]
    BY <1>1, <1>7 DEF Is, Start
  <2>2. QED
    BY <1>1, <1>2, <1>4, <1>5, <1>6, <2>1 DEF Is, Becomes, Start, Record, Dispatch
<1>9. StageFits(p, w1, f1, o, v, d1, n1, L!Unsettled(Slot(x)))
  <2>1. /\ w1.status = "ready" /\ w1.active = o /\ f1[o] = "pending" /\ n1[o] = n[o] + 1
        /\ \A q \in Operation : q # o => f1[q] = f[q] /\ n1[q] = n[q]
    BY <1>2, <1>4, <1>5, <1>6 DEF Workspace, Status, Counts
  <2>2. n[o] = 0 /\ n1[o] = 1
    BY <1>2, <1>3, <2>1 DEF StageFits, CalledOnce
  <2>3. Existing(w1, f1, v) /\ Untouched(p, w1, o) /\ Ended(p, w1, o) /\ Awaited(p, w1, f1, o)
    <3>1. f1["provision"] = f["provision"]
      BY <1>2, <2>1, Frame
    <3>2. p \in {"working", "closing"}
      BY <1>2
    <3>3. QED
      BY <1>2, <1>3, <2>1, <3>1, <3>2 DEF StageFits, Existing, Untouched, Ended, Awaited
  <2>4. CalledOnce(f1, n1)
    BY <1>3, <2>1, <2>2 DEF StageFits, CalledOnce
  <2>5. Archived(p, f1, d1, n1)
    <3>1. CASE o \in Command
      <4>1. f1["final"] = f["final"] /\ n1["destroy"] = n["destroy"] /\ f["final"] = "absent"
        BY <1>2, <1>3, <2>1, <3>1, Frame DEF StageFits, Archived
      <4>2. QED BY <1>3, <4>1 DEF StageFits, Archived
    <3>2. CASE o = "final"
      <4>1. n1["destroy"] = n["destroy"] /\ f1["final"] = "pending" /\ ~d1
        BY <1>7, <2>1, <3>2, Frame
      <4>2. QED BY <1>2, <1>3, <3>2, <4>1 DEF StageFits, Archived
    <3>3. CASE o = "destroy"
      <4>1. f1["final"] = f["final"] /\ d1 = d
        BY <1>7, <2>1, <3>3, Frame
      <4>2. QED BY <1>2, <1>3, <3>3, <4>1 DEF StageFits, Archived
    <3>4. QED BY <1>2, <3>1, <3>2, <3>3
  <2>6. QED BY <1>3, <2>3, <2>4, <2>5 DEF StageFits
<1>10. BrokerMoved(x, p, w1, f1, o, v, d1, n1)
  BY <1>2, <1>8, <1>9 DEF BrokerMoved
<1>11. QED BY <1>10, BrokerKeeps

LEMMA CleanupRetained ==
    ASSUME WorkspacesInv, NEW x \in Execution, NEW o \in Operation, Retain(x, o)
    PROVE  WorkspacesInv'
<1>1. PICK p \in Phase, w \in Workspace, f \in Status, c \in Operation \cup {None},
           v \in VMState, d \in BOOLEAN, n \in Counts : Is(x, p, w, f, c, v, d, n)
  BY AtRest
<1>2. /\ c = None /\ f[o] = "absent" /\ w.status = "ready" /\ p = "closing"
      /\ o \in {"final", "destroy"} /\ VMCommand(x)
      /\ UNCHANGED <<lease, bound, phase, call, vm, dirty, dispatched>>
  BY <1>1, Frame DEF Is, Retain, Calls, Fresh, VMCommand
<1>3. StageFits(p, w, f, c, v, d, n, L!Unsettled(Slot(x)))
  BY <1>1 DEF Is
<1>4. PICK w1 \in Workspace :
        w1 = [status |-> "reconciliation_required", active |-> o, confirmed |-> FALSE]
  BY DEF Workspace
<1>5. PICK f1 \in Status : f1 = [f EXCEPT ![o] = "retained"]
  BY DEF Status, OperationStatus
<1>6. Becomes(x, p, w1, f1, c, v, d, n)
  BY <1>1, <1>2, <1>4, <1>5 DEF Is, Becomes, Retain, Show, Record
<1>7. StageFits(p, w1, f1, c, v, d, n, L!Unsettled(Slot(x)))
  <2>1. /\ w1.status = "reconciliation_required" /\ f1[o] = "retained"
        /\ \A q \in Operation : q # o => f1[q] = f[q]
    BY <1>4, <1>5 DEF Status
  <2>2. f1["provision"] = f["provision"] /\ f["provision"] = "completed"
    BY <1>2, <1>3, <2>1, Frame DEF StageFits, Existing
  <2>3. CalledOnce(f1, n)
    BY <1>2, <1>3, <2>1 DEF StageFits, CalledOnce
  <2>4. f1["final"] \in {f["final"], "retained"} /\ (n["destroy"] > 0 => f1["final"] = f["final"])
    BY <1>2, <1>3, <2>1, Frame DEF StageFits, Archived
  <2>5. Archived(p, f1, d, n)
    BY <1>2, <1>3, <2>4 DEF StageFits, Archived
  <2>6. QED
    BY <1>2, <1>3, <2>1, <2>2, <2>3, <2>5 DEF StageFits, Untouched, Existing, Awaited, Ended
<1>8. BrokerMoved(x, p, w1, f1, c, v, d, n)
  BY <1>2, <1>6, <1>7 DEF BrokerMoved
<1>9. QED BY <1>8, BrokerKeeps

\* A call other than provision came back.
LEMMA OperationReturns ==
    ASSUME WorkspacesInv, NEW x \in Execution, NEW o \in Operation,
           Answered(x, o) \/ (o = "destroy" /\ Destroyed(x)) \/ FailedAndGone(x, o)
           \/ Interrupted(x, o)
    PROVE  WorkspacesInv'
<1>1. PICK p \in Phase, w \in Workspace, f \in Status, c \in Operation \cup {None},
           v \in VMState, d \in BOOLEAN, n \in Counts : Is(x, p, w, f, c, v, d, n)
  BY AtRest
<1>2. /\ c = o /\ o # "provision" /\ None \notin Operation
      /\ {"provision", "final", "destroy"} \subseteq Operation
      /\ UNCHANGED <<lease, bound, phase, dirty, dispatched>>
      /\ call' = [call EXCEPT ![x] = None]
  BY <1>1, Frame DEF Is, Answered, Destroyed, FailedAndGone, Interrupted, Return
<1>3. StageFits(p, w, f, o, v, d, n, L!Unsettled(Slot(x)))
  BY <1>1, <1>2 DEF Is
<1>4. /\ p \in {"working", "closing"} /\ w.status = "ready" /\ f[o] = "pending"
      /\ f["provision"] = "completed" /\ v \in {"up", "gone"}
  BY <1>2, <1>3 DEF StageFits, Awaited, Existing
<1>5. ASSUME NEW b \in BOOLEAN, NEW v1 \in VMState, Uncertain(x, o, b),
             v1 \in {"up", "gone"}, v = "gone" => v1 = "gone", vm' = [vm EXCEPT ![x] = v1]
      PROVE  WorkspacesInv'
  <2>1. VMCommand(x)
    BY <1>1, <1>5, UncertainRecords
  <2>2. PICK w1 \in Workspace, f1 \in Status :
          /\ ws' = [ws EXCEPT ![x] = w1] /\ op' = [op EXCEPT ![x] = f1]
          /\ Unsure(w, f, o, w1, f1)
    BY <1>1, <1>5, UncertainRecords
  <2>3. v1 \in {"creating", "up"} => L!Unsettled(Slot(x))
    BY <1>3, <1>4, <1>5 DEF StageFits
  <2>4. StageFits(p, w1, f1, None, v1, d, n, L!Unsettled(Slot(x)))
    BY <1>2, <1>3, <1>5, <2>2, <2>3, UnsureStage
  <2>5. Becomes(x, p, w1, f1, None, v1, d, n)
    BY <1>1, <1>2, <1>5, <2>2 DEF Is, Becomes
  <2>6. BrokerMoved(x, p, w1, f1, None, v1, d, n)
    BY <1>2, <2>1, <2>4, <2>5 DEF BrokerMoved
  <2>7. QED BY <2>6, BrokerKeeps
\* A definite outcome s of the operation.
<1>6. ASSUME NEW s \in {"completed", "rejected", "failed"}, op' = [op EXCEPT ![x][o] = s],
             NEW w1 \in Workspace, ws' = [ws EXCEPT ![x] = w1],
             NEW v1 \in VMState, vm' = [vm EXCEPT ![x] = v1], VMCommand(x),
             \/ w1.status = "ready" /\ v1 = v
             \/ w1.status = "destroyed" /\ v1 = "gone"
      PROVE  WorkspacesInv'
  <2>1. PICK f1 \in Status : f1 = [f EXCEPT ![o] = s]
    BY DEF Status, OperationStatus
  <2>2. Becomes(x, p, w1, f1, None, v1, d, n)
    BY <1>1, <1>2, <1>6, <2>1 DEF Is, Becomes
  <2>3. f1[o] = s /\ \A q \in Operation : q # o => f1[q] = f[q]
    BY <2>1 DEF Status
  <2>4. f1["provision"] = "completed"
    BY <1>2, <1>4, <2>3
  <2>5. CalledOnce(f1, n)
    BY <1>3, <1>4, <2>3 DEF StageFits, CalledOnce
  <2>6. Archived(p, f1, d, n)
    <3>1. CASE o = "final"
      BY <1>3, <1>4, <2>3, <3>1 DEF StageFits, Archived, Counts
    <3>2. CASE o # "final"
      BY <1>2, <1>3, <2>3, <3>2 DEF StageFits, Archived
    <3>3. QED BY <3>1, <3>2
  <2>7. StageFits(p, w1, f1, None, v1, d, n, L!Unsettled(Slot(x)))
    BY <1>2, <1>3, <1>4, <1>6, <2>4, <2>5, <2>6 DEF StageFits, Untouched, Existing, Awaited, Ended
  <2>8. BrokerMoved(x, p, w1, f1, None, v1, d, n)
    BY <1>2, <1>6, <2>2, <2>7 DEF BrokerMoved
  <2>9. QED BY <2>8, BrokerKeeps
<1>7. /\ [status |-> "destroyed", active |-> None, confirmed |-> TRUE] \in Workspace
      /\ "gone" \in VMState
  BY DEF Workspace, VMState
<1>8. CASE Answered(x, o)
  <2>1. PICK s \in {"completed", "rejected"} :
          IF Authority(x, o)
          THEN Record(x, o, s) /\ ws' = [ws EXCEPT ![x].active = None] /\ UNCHANGED ledger
          ELSE Uncertain(x, o, FALSE)
    BY <1>8 DEF Answered
  <2>2. UNCHANGED vm /\ vm' = [vm EXCEPT ![x] = v]
    BY <1>1, <1>8 DEF Answered, Is
  <2>3. CASE Authority(x, o)
    <3>1. PICK w1 \in Workspace : w1 = [w EXCEPT !.active = None]
      BY DEF Workspace
    <3>2. w1.status = "ready" /\ ws' = [ws EXCEPT ![x] = w1]
      BY <1>1, <1>4, <2>1, <2>3, <3>1 DEF Is, Workspace
    <3>3. op' = [op EXCEPT ![x][o] = s] /\ VMCommand(x)
      BY <2>1, <2>3 DEF Record, VMCommand
    <3>4. QED BY <1>6, <2>1, <2>2, <3>2, <3>3
  <2>4. CASE ~Authority(x, o)
    BY <1>4, <1>5, <2>1, <2>2, <2>4
  <2>5. QED BY <2>3, <2>4
<1>9. CASE o = "destroy" /\ Destroyed(x)
  <2>1. CASE GuardCleanup(x)
    <3>1. PICK s \in {"completed", "failed"} : Record(x, "destroy", s) /\ VMCommand(x)
      BY <1>9, <2>1 DEF Destroyed, VMCommand
    <3>2. PICK w1 \in Workspace :
            w1 = [status |-> "destroyed", active |-> None, confirmed |-> TRUE]
      BY <1>7
    <3>3. w1.status = "destroyed" /\ ws' = [ws EXCEPT ![x] = w1] /\ vm' = [vm EXCEPT ![x] = "gone"]
      BY <1>9, <2>1, <3>2 DEF Destroyed, Show
    <3>4. op' = [op EXCEPT ![x][o] = s]
      BY <1>9, <3>1 DEF Record
    <3>5. QED BY <1>6, <1>7, <3>1, <3>3, <3>4
  <2>2. CASE ~GuardCleanup(x)
    <3>1. Uncertain(x, o, TRUE) /\ vm' = [vm EXCEPT ![x] = "gone"]
      BY <1>9, <2>2 DEF Destroyed
    <3>2. QED BY <1>5, <1>7, <3>1
  <2>3. QED BY <2>1, <2>2
<1>10. CASE FailedAndGone(x, o)
  <2>1. CASE GuardCleanup(x)
    <3>1. Record(x, o, "failed") /\ VMCommand(x)
      BY <1>10, <2>1 DEF FailedAndGone, VMCommand
    <3>2. PICK w1 \in Workspace :
            w1 = [status |-> "destroyed", active |-> None, confirmed |-> TRUE]
      BY <1>7
    <3>3. w1.status = "destroyed" /\ ws' = [ws EXCEPT ![x] = w1] /\ vm' = [vm EXCEPT ![x] = "gone"]
      BY <1>10, <2>1, <3>2 DEF FailedAndGone, Show
    <3>4. op' = [op EXCEPT ![x][o] = "failed"]
      BY <3>1 DEF Record
    <3>5. QED BY <1>6, <1>7, <3>1, <3>3, <3>4
  <2>2. CASE ~GuardCleanup(x)
    <3>1. Uncertain(x, o, TRUE) /\ vm' = [vm EXCEPT ![x] = "gone"]
      BY <1>10, <2>2 DEF FailedAndGone
    <3>2. QED BY <1>5, <1>7, <3>1
  <2>3. QED BY <2>1, <2>2
<1>11. CASE Interrupted(x, o)
  <2>1. PICK v1 \in {"up", "gone"}, b \in BOOLEAN :
          /\ b \/ vm[x] = "gone" => v1 = "gone"
          /\ vm' = [vm EXCEPT ![x] = v1]
          /\ Uncertain(x, o, b)
    BY <1>11 DEF Interrupted
  <2>2. v1 \in VMState /\ (v = "gone" => v1 = "gone")
    BY <1>1, <2>1 DEF Is, VMState
  <2>3. QED BY <1>5, <2>1, <2>2
<1>12. QED BY <1>8, <1>9, <1>10, <1>11

LEMMA SlotReconciled ==
    ASSUME WorkspacesInv, NEW x \in Execution, ReconcileSlot(x)
    PROVE  WorkspacesInv'
<1>1. PICK p \in Phase, w \in Workspace, f \in Status, c \in Operation \cup {None},
           v \in VMState, d \in BOOLEAN, n \in Counts : Is(x, p, w, f, c, v, d, n)
  BY AtRest
<1>2. /\ Becomes(x, p, w, f, c, v, d, n) /\ w.status \in {"absent", "destroyed"}
      /\ UNCHANGED <<lease, bound>>
  BY <1>1 DEF Is, Becomes, ReconcileSlot, Unresolved, broker
<1>3. LedgerMoves(x)
  BY Frame, SlotSettled DEF ReconcileSlot
<1>4. StageFits(p, w, f, c, v, d, n, L!Unsettled(Slot(x))')
  BY <1>1, <1>2 DEF Is, StageFits, Existing
<1>5. Moved(x, p, w, f, c, v, d, n)
  BY <1>1, <1>2, <1>3, <1>4, Frame DEF Moved
<1>6. QED BY <1>5, StepKeeps

LEMMA WorkspaceRetired ==
    ASSUME WorkspacesInv, NEW x \in Execution, Retire(x)
    PROVE  WorkspacesInv'
<1>1. PICK p \in Phase, w \in Workspace, f \in Status, c \in Operation \cup {None},
           v \in VMState, d \in BOOLEAN, n \in Counts : Is(x, p, w, f, c, v, d, n)
  BY AtRest
<1>2. PICK o \in Operation : o = w.active /\ o \in Command \cup {"final", "destroy"}
  BY <1>1, Frame DEF Is, Retire, Retirable
<1>3. /\ w.status = "reconciliation_required" /\ v = "gone"
      /\ f[o] \in {"reconciliation_required", "retained"}
      /\ UNCHANGED <<lease, bound, phase, call, vm, dirty, dispatched>>
  BY <1>1, <1>2 DEF Is, Retire, Retirable
<1>4. LedgerMoves(x)
  BY Frame, BothRetired DEF Retire
<1>5. PICK w1 \in Workspace : w1 = [status |-> "destroyed", active |-> None, confirmed |-> TRUE]
  BY DEF Workspace
<1>6. PICK f1 \in Status : f1 = [f EXCEPT ![o] = "failed"]
  BY DEF Status, OperationStatus
<1>7. Becomes(x, p, w1, f1, c, v, d, n)
  BY <1>1, <1>2, <1>3, <1>5, <1>6 DEF Is, Becomes, Retire, Show, Record
<1>8. StageFits(p, w, f, c, v, d, n, L!Unsettled(Slot(x)))
  BY <1>1 DEF Is
<1>9. c = None
  BY <1>3, <1>8 DEF StageFits, Awaited
<1>10. w1.status = "destroyed" /\ f1[o] = "failed" /\ \A q \in Operation : q # o => f1[q] = f[q]
  BY <1>5, <1>6 DEF Status
<1>11. f1["provision"] = f["provision"] /\ f["provision"] # "absent"
  BY <1>2, <1>3, <1>8, <1>10, Frame DEF StageFits, Existing
<1>12. CalledOnce(f1, n)
  BY <1>3, <1>8, <1>10 DEF StageFits, CalledOnce
<1>13. Archived(p, f1, d, n)
  <2>1. f1["final"] = f["final"] \/ o = "final"
    BY <1>10, Frame
  <2>2. CASE o = "final"
    BY <1>3, <1>8, <1>10, <2>2 DEF StageFits, Archived
  <2>3. CASE o # "final"
    BY <1>8, <2>1, <2>3 DEF StageFits, Archived
  <2>4. QED BY <2>2, <2>3
<1>14. StageFits(p, w1, f1, c, v, d, n, L!Unsettled(Slot(x))')
  BY <1>3, <1>8, <1>9, <1>10, <1>11, <1>12, <1>13
  DEF StageFits, Untouched, Existing, Awaited, Ended
<1>15. Moved(x, p, w1, f1, c, v, d, n)
  BY <1>1, <1>3, <1>4, <1>7, <1>14, Frame DEF Moved
<1>16. QED BY <1>15, StepKeeps

LEMMA WorkspacesInitInv ==
    ASSUME WorkspacesInit
    PROVE  WorkspacesInv
<1>1. /\ "provision" \in Operation /\ "final" \in Operation /\ "destroy" \in Operation
      /\ L!Zero \in [L!Unit -> Int] /\ L!NoReservation \in L!Reservation
  BY Slots DEF Operation, L!Zero, L!Unit
<1>2. L!LedgerTypeOK
  <2> DEFINE R == {"slot", "vm"} \X Execution
  <2>1. res \in [R -> L!Reservation]
    BY <1>1 DEF WorkspacesInit, L!LedgerInit
  <2>2. [reserved |-> L!Zero, spent |-> L!Zero, workers |-> 0] \in L!Budget
    BY <1>1 DEF L!Budget, L!Unit
  <2>3. budget \in L!Budget /\ open \in BOOLEAN /\ overrun \in BOOLEAN
    BY <2>2 DEF WorkspacesInit, L!LedgerInit
  <2>4. again \in [R -> L!Release]
    BY DEF WorkspacesInit, L!LedgerInit, L!NoRelease, L!Release
  <2>5. QED BY <2>1, <2>3, <2>4 DEF L!LedgerTypeOK
<1>3. /\ \A x \in Execution : res[Slot(x)].state = "absent" /\ res[VM(x)].workers = 0
      /\ budget.workers = 0
  BY Slots DEF WorkspacesInit, L!LedgerInit, L!NoReservation, Reservations
<1>4. HeldSlots = {}
  BY <1>3 DEF HeldSlots, L!Unsettled
<1>5. SlotsCounted
  <2>1. IsFiniteSet({}) /\ Cardinality({}) = 0
    BY FS_EmptySet
  <2>2. IsFiniteSet(HeldSlots) /\ Cardinality(HeldSlots) = 0
    BY <1>4, <2>1
  <2>3. 0 =< MaxConcurrency
    BY WorkspacesAssumption
  <2>4. QED BY <1>3, <2>2, <2>3 DEF SlotsCounted, L!Unsettled
<1>6. WorkspacesTypeOK
  BY <1>2 DEF WorkspacesInit, WorkspacesTypeOK, Phase, Workspace, OperationStatus
<1>7. ASSUME NEW x \in Execution PROVE StageOf(x)
  BY <1>1
     DEF WorkspacesInit, StageOf, StageFits, Untouched, Existing, Awaited, CalledOnce, Archived,
         Ended
<1>8. QED BY <1>5, <1>6, <1>7 DEF WorkspacesInv

LEMMA WorkspacesStep ==
    ASSUME WorkspacesInv, [WorkspacesNext]_workspaceVars
    PROVE  WorkspacesInv'
<1>1. ASSUME NEW x \in Execution, Execute(x) \/ Crash(x)
      PROVE  WorkspacesInv'
  BY <1>1, SlotReserved, PhaseMoves, SlotReturned, OutsideMoves DEF Execute
<1>2. ASSUME NEW x \in Execution, Broker(x)
      PROVE  WorkspacesInv'
  BY <1>2, Frame, ProvisionStarts, ProvisionReturns, OperationStarts, CleanupRetained,
     OperationReturns DEF Broker
<1>3. ASSUME NEW x \in Execution, Controller(x) \/ VMCreated(x)
      PROVE  WorkspacesInv'
  BY <1>3, SlotReconciled, OutsideMoves, VMIsCreated, WorkspaceRetired DEF Controller
<1>4. QED BY <1>1, <1>2, <1>3, OutsideMoves DEF WorkspacesNext

\* VMs that run or may come up hold their slots, and slots are workers within the limit.
LEMMA WorkspacesFollow ==
    ASSUME WorkspacesInv
    PROVE  WorkspacesSound
<1>1. ASSUME NEW x \in Execution
      PROVE  /\ \A o \in Operation : dispatched[x][o] =< 1
             /\ vm[x] \in {"creating", "up"} => L!Unsettled(Slot(x))
             /\ ws[x].status = "destroyed" => vm[x] \in {"none", "gone"}
             /\ dispatched[x]["destroy"] > 0 => ~dirty[x] \/ op[x]["final"] = "rejected"
             /\ phase[x] = "over" => ~(ws[x].status = "ready" /\ ws[x].active = None)
  <2>1. StageOf(x)
    BY DEF WorkspacesInv
  <2>2. QED BY <2>1 DEF StageOf, StageFits, CalledOnce, Existing, Archived, Ended
<1>2. VMsWithinLimit
  <2> DEFINE R == {x \in Execution : vm[x] \in {"creating", "up"}}
  <2>1. R \in SUBSET HeldSlots
    BY <1>1 DEF HeldSlots
  <2>2. IsFiniteSet(HeldSlots) /\ Cardinality(HeldSlots) =< MaxConcurrency
    BY DEF WorkspacesInv, SlotsCounted
  <2>3. Cardinality(R) =< Cardinality(HeldSlots) /\ IsFiniteSet(R)
    BY <2>1, <2>2, FS_Subset
  <2>4. Cardinality(R) \in Nat /\ Cardinality(HeldSlots) \in Nat
    BY <2>2, <2>3, FS_CardinalityType
  <2>5. QED BY <2>2, <2>3, <2>4, Slots DEF VMsWithinLimit
<1>3. QED
  BY <1>1, <1>2 DEF WorkspacesInv, WorkspacesSound, AtMostOnce, RunningVMCounted, DestroyedIsGone,
                    NothingLost, NotLeftReady

\* The broker with its executions, for any numbers of both: WorkspaceBroker calls the
\* provider once per operation, a worker slot is given back only when its VM is known to be
\* gone, so that max_concurrency bounds the VMs, and close destroys no unsaved file.
THEOREM WorkspacesSafety == WorkspacesSpec => []WorkspacesSound
<1>1. WorkspacesInit => WorkspacesInv
  BY WorkspacesInitInv
<1>2. WorkspacesInv /\ [WorkspacesNext]_workspaceVars => WorkspacesInv'
  BY WorkspacesStep
<1>3. WorkspacesInv => WorkspacesSound
  BY WorkspacesFollow
<1>4. QED BY <1>1, <1>2, <1>3, PTL DEF WorkspacesSpec

-----------------------------------------------------------------------------
(* Export.  A stamp is given out once, so a file that still has the stamp of *)
(* the first listing has not changed and, unless a folder was moved, was     *)
(* there when the second listing began; a name that this listing left out    *)
(* was not a file when its folder was read.                                  *)

HIDE WorkspacesAssumption
USE ExportAssumption

\* A table of files, and what is added to or taken from one.
LEMMA NoFilesAreTable ==
    ASSUME NEW T
    PROVE  NoFiles \in Tables(T) /\ DOMAIN NoFiles = {}
<1>1. NoFiles \in [{} -> T] /\ DOMAIN NoFiles = {}
  BY DEF NoFiles
<1>2. {} \in SUBSET Path
  OBVIOUS
<1>3. QED BY <1>1, <1>2 DEF Tables

LEMMA TableIs ==
    ASSUME NEW T, NEW t \in Tables(T)
    PROVE  /\ DOMAIN t \subseteq Path /\ t \in [DOMAIN t -> T]
           /\ \A p \in DOMAIN t : t[p] \in T
<1>1. PICK P \in SUBSET Path : t \in [P -> T]
  BY DEF Tables
<1>2. QED BY <1>1

LEMMA IsTable ==
    ASSUME NEW T, NEW P \in SUBSET Path, NEW t \in [P -> T]
    PROVE  t \in Tables(T)
BY DEF Tables

LEMMA TableWith ==
    ASSUME NEW T, NEW t \in Tables(T), NEW x \in Path, NEW v \in T
    PROVE  With(t, x, v) \in Tables(T)
<1>1. DOMAIN t \subseteq Path /\ \A p \in DOMAIN t : t[p] \in T
  BY TableIs
<1>2. With(t, x, v) \in [DOMAIN t \cup {x} -> T]
  BY <1>1 DEF With
<1>3. QED BY <1>1, <1>2, IsTable

LEMMA TableWithout ==
    ASSUME NEW T, NEW t \in Tables(T), NEW x
    PROVE  /\ Restrict(t, DOMAIN t \ {x}) \in Tables(T)
           /\ DOMAIN Restrict(t, DOMAIN t \ {x}) = DOMAIN t \ {x}
           /\ \A y \in DOMAIN t \ {x} : Restrict(t, DOMAIN t \ {x})[y] = t[y]
<1>1. DOMAIN t \subseteq Path /\ \A p \in DOMAIN t : t[p] \in T
  BY TableIs
<1>2. Restrict(t, DOMAIN t \ {x}) \in [DOMAIN t \ {x} -> T]
  BY <1>1 DEF Restrict
<1>3. Restrict(t, DOMAIN t \ {x}) \in Tables(T)
  BY <1>1, <1>2, IsTable
<1>4. QED BY <1>1, <1>3 DEF Restrict

FileRecord == [content : Content, stamp : 0 .. MaxWrites]
LEMMA ViewIsTable ==
    ASSUME NEW t \in Files
    PROVE  /\ View(t) \in Tables(Content) /\ DOMAIN View(t) = DOMAIN t
           /\ \A p \in DOMAIN t : View(t)[p] = t[p].content
<1>1. t \in Tables(FileRecord)
  BY DEF Files, FileRecord
<1>2. DOMAIN t \subseteq Path /\ \A p \in DOMAIN t : t[p] \in FileRecord
  BY <1>1, TableIs
<1>3. View(t) \in [DOMAIN t -> Content]
  BY <1>2 DEF View, FileRecord
<1>4. View(t) \in Tables(Content)
  BY <1>2, <1>3, IsTable
<1>5. QED BY <1>4 DEF View

\* Min of the community modules finds the least path.
LEMMA LeastPath ==
    ASSUME NEW S \in SUBSET Path, S # {}
    PROVE  Min(S) \in S
<1> DEFINE R == OpToRel(<, Nat)
<1>1. S \subseteq Nat
  BY ExportAssumption
<1>2. \E x \in S : \A y \in S : <<y, x>> \notin R
  BY <1>1, NatLessThanWellFounded, WFMin
<1>3. PICK x \in S : \A y \in S : <<y, x>> \notin R
  BY <1>2
<1>4. \A y \in S : x =< y
  <2>1. ASSUME NEW y \in S PROVE x =< y
    <3>1. ~(y < x)
      BY <1>1, <1>3 DEF OpToRel
    <3>2. QED BY <1>1, <3>1
  <2>2. QED BY <2>1
<1>5. QED BY <1>4 DEF Min
-----------------------------------------------------------------------------
ExportRecord(e) ==
    e \in [pc : ExportPc, pass : 1 .. 2, folders : SUBSET Folders, todo : SUBSET Path,
           listing : Files, before : Files, read : Tables(Content), parts : {e.parts}]

\* The stamps of t were given out.
Stamped(t) == \A p \in DOMAIN t : t[p].stamp =< writes

\* What was read so far is what the first listing showed.
ReadSoFar(e) ==
    /\ e.pass = 1 /\ e.pc # "read" => e.read = NoFiles
    /\ e.pc = "read" => /\ e.pass = 1 /\ e.todo \subseteq DOMAIN e.before
                        /\ DOMAIN e.read = DOMAIN e.before \ e.todo
    /\ e.pass = 2 => DOMAIN e.read = DOMAIN e.before
    /\ \A p \in DOMAIN e.read : p \in DOMAIN e.before /\ e.read[p] = e.before[p].content

\* v, the workspace when the second listing began, holds every file that has the stamp of
\* the first listing, now or when the second listing came to it.
Held(e, v) ==
    \A p \in DOMAIN e.before :
        /\ p \in DOMAIN files /\ files[p].stamp = e.before[p].stamp =>
             p \in DOMAIN v /\ v[p] = files[p].content
        /\ e.pc = "scan" /\ p \in DOMAIN e.listing /\ e.listing[p] = e.before[p] =>
             p \in DOMAIN v /\ v[p] = e.before[p].content

\* A folder that is still to be walked has no name listed, and a name of the other folders
\* was listed, or left out, as it was at one moment.
Walking(e, states) ==
    /\ \A p \in DOMAIN e.listing \cup e.todo : Folder(p) \notin e.folders
    /\ \A p \in Path : p \notin e.todo /\ Folder(p) \notin e.folders =>
         \E v \in states : SameAt(View(e.listing), v, p)

ExportStage(e) ==
    /\ ExportRecord(e)
    /\ Stamped(e.listing) /\ Stamped(e.before)
    /\ ReadSoFar(e)

SourceOK ==
    /\ files \in Files /\ writes \in 0 .. MaxWrites /\ moved \in BOOLEAN
    /\ Stamped(files)

Witnessed(e) ==
    /\ e.pass = 2 /\ e.pc \in {"walk", "scan"} =>
         /\ View(files) \in during
         /\ moved \/ \E v \in during : Held(e, v)
    /\ e.pass = 2 /\ e.pc = "scan" => Walking(e, during)

RestoreOK ==
    /\ archive \in Tables(Content)
    /\ restore \in [pc : RestorePc, todo : SUBSET Path, staged : {restore.staged},
                    count : 0 .. MaxRestores]
    /\ export.pc = "done" => WasThere(archive)
    /\ restore.pc # "idle" => export.pc = "done"
    /\ restore.pc = "done" => target = archive

ExportInv ==
    /\ SourceOK
    /\ ExportStage(export)
    /\ Witnessed(export)
    /\ RestoreOK

LEMMA NoExportStage ==
    ASSUME NEW e \in {NoExport, [NoExport EXCEPT !.pc = "failed"], [NoExport EXCEPT !.pc = "done"]}
    PROVE  /\ ExportStage(e) /\ Witnessed(e) /\ e.pc \in {"idle", "failed", "done"}
           /\ e = [NoExport EXCEPT !.pc = "failed"] => e.pc = "failed"
           /\ e = [NoExport EXCEPT !.pc = "done"] => e.pc = "done"
           /\ e = NoExport => e.pc = "idle"
<1>1. /\ e.pass = 1 /\ e.todo = {} /\ e.listing = NoFiles /\ e.before = NoFiles
      /\ e.read = NoFiles /\ e.pc \in {"idle", "failed", "done"}
      /\ e = [NoExport EXCEPT !.pc = "failed"] => e.pc = "failed"
      /\ e = [NoExport EXCEPT !.pc = "done"] => e.pc = "done"
      /\ e = NoExport => e.pc = "idle"
  BY DEF NoExport
<1>2. NoFiles \in Files /\ NoFiles \in Tables(Content) /\ DOMAIN NoFiles = {}
  BY NoFilesAreTable DEF Files
<1>3. ExportRecord(e)
  BY <1>2 DEF ExportRecord, NoExport, ExportPc
<1>4. Stamped(e.listing) /\ Stamped(e.before)
  BY <1>1, <1>2 DEF Stamped
<1>5. ReadSoFar(e)
  BY <1>1, <1>2 DEF ReadSoFar
<1>6. Witnessed(e)
  BY <1>1 DEF Witnessed
<1>7. QED BY <1>1, <1>3, <1>4, <1>5, <1>6 DEF ExportStage

LEMMA InitExport ==
    ASSUME ExportInit
    PROVE  ExportInv
<1>1. NoFiles \in Tables(Content)
  BY NoFilesAreTable
<1>2. files \in Files /\ \A p \in DOMAIN files : files[p].stamp = 0
  <2>1. PICK P \in SUBSET Path, c \in Content : files = [p \in P |-> [content |-> c, stamp |-> 0]]
    BY DEF ExportInit
  <2>2. [content |-> c, stamp |-> 0] \in FileRecord
    BY ExportAssumption DEF FileRecord
  <2>3. files \in [P -> FileRecord]
    BY <2>1, <2>2
  <2>4. files \in Tables(FileRecord)
    BY <2>3, IsTable
  <2>5. QED BY <2>1, <2>4 DEF Files, FileRecord
<1>3. SourceOK
  <2>1. writes = 0 /\ moved = FALSE
    BY DEF ExportInit
  <2>2. 0 \in 0 .. MaxWrites
    BY ExportAssumption
  <2>3. Stamped(files)
    BY <1>2, <2>1 DEF Stamped
  <2>4. QED BY <1>2, <2>1, <2>2, <2>3 DEF SourceOK
<1>4. /\ ExportStage(NoExport) /\ Witnessed(NoExport) /\ NoExport.pc = "idle"
  BY NoExportStage
<1>5. /\ ExportStage(export) /\ Witnessed(export) /\ export.pc = "idle"
  BY <1>4 DEF ExportInit
<1>6. RestoreOK
  <2> DEFINE r == [pc |-> "idle", todo |-> {}, staged |-> <<>>, count |-> 0]
  <2>1. restore = r /\ archive = NoFiles
    BY DEF ExportInit
  <2>2. /\ r \in [pc : {"idle"}, todo : SUBSET Path, staged : {r.staged}, count : {0}]
        /\ r.pc = "idle"
    OBVIOUS
  <2> HIDE DEF r
  <2>3. 0 \in 0 .. MaxRestores /\ "idle" \in RestorePc
    BY ExportAssumption DEF RestorePc
  <2>4. QED BY <1>1, <1>5, <2>1, <2>2, <2>3 DEF RestoreOK
<1>7. QED BY <1>3, <1>5, <1>6 DEF ExportInv

LEMMA ExportStays ==
    ASSUME ExportStage(export), Witnessed(export), SourceOK,
           UNCHANGED <<files, writes, export, moved, during>>
    PROVE  SourceOK' /\ ExportStage(export)' /\ Witnessed(export)'
<1>1. SourceOK'
  BY DEF SourceOK, Stamped
<1>2. PICK e : e = export
  OBVIOUS
<1>3. export' = e /\ ExportStage(e) /\ Witnessed(e)
  BY <1>2
<1>4. ExportStage(export)'
  BY <1>3 DEF ExportStage, ExportRecord, Stamped, ReadSoFar
<1>5. \A v : Held(e, v) => Held(export, v)'
  BY <1>3 DEF Held
<1>6. Walking(e, during) => Walking(export, during)'
  BY <1>3 DEF Walking
<1>7. (View(files) \in during) => (View(files) \in during)'
  BY DEF View
<1>8. Witnessed(export)'
  BY <1>3, <1>5, <1>6, <1>7 DEF Witnessed
<1>9. QED BY <1>1, <1>4, <1>8

\* The guest's files are as before; a step of the export changes its own record.
LEMMA ExportKeeps ==
    ASSUME ExportInv, NEW e, ExportStage(e), export' = e, moved' \in BOOLEAN,
           UNCHANGED <<files, writes, archive, target, restore>>,
           export.pc # "done", e.pc # "done",
           e.pass = 2 /\ e.pc \in {"walk", "scan"} =>
             /\ View(files) \in during'
             /\ moved' \/ \E v \in during' : Held(e, v),
           e.pass = 2 /\ e.pc = "scan" => Walking(e, during')
    PROVE  ExportInv'
<1>1. SourceOK'
  BY DEF ExportInv, SourceOK, Stamped
<1>2. ExportStage(export)'
  BY DEF ExportStage, ExportRecord, Stamped, ReadSoFar
<1>3. Witnessed(export)'
  <2>1. \A v : Held(e, v) => Held(export, v)'
    BY DEF Held
  <2>2. Walking(e, during') => Walking(export, during)'
    BY DEF Walking
  <2>3. View(files)' = View(files)
    BY DEF View
  <2>4. QED BY <2>1, <2>2, <2>3 DEF Witnessed
<1>4. RestoreOK'
  BY DEF ExportInv, RestoreOK
<1>5. QED BY <1>1, <1>2, <1>3, <1>4 DEF ExportInv

LEMMA ExportBegins ==
    ASSUME ExportInv, BeginExport \/ ExportFails \/ RetryExport \/ CheckQuiescent \/ SecondListing
    PROVE  ExportInv'
<1> DEFINE y == export
           c == [y EXCEPT !.pc = "check"]
           w == [y EXCEPT !.pc = "walk"]
           s == [y EXCEPT !.pc = "check", !.pass = 2]
           f == [NoExport EXCEPT !.pc = "failed"]
<1>1. /\ ExportStage(y) /\ ExportRecord(y) /\ Stamped(y.listing) /\ Stamped(y.before)
      /\ ReadSoFar(y) /\ moved \in BOOLEAN
  BY DEF ExportInv, ExportStage, SourceOK
<1>2. UNCHANGED <<files, writes, archive, target, restore>>
  BY DEF BeginExport, ExportFails, RetryExport, CheckQuiescent, SecondListing, Step
<1>3. CASE BeginExport
  <2>1. export' = c /\ y.pc = "idle" /\ moved' = moved
    BY <1>3 DEF BeginExport, Step
  <2>2. /\ c.pc = "check" /\ c.pass = y.pass /\ c.listing = y.listing /\ c.before = y.before
        /\ c.read = y.read /\ ExportRecord(c)
    BY <1>1 DEF ExportRecord, ExportPc
  <2> HIDE DEF c
  <2>3. ExportStage(c)
    BY <1>1, <2>1, <2>2 DEF ExportStage, ReadSoFar
  <2>4. QED BY <1>1, <1>2, <2>1, <2>2, <2>3, ExportKeeps
<1>4. CASE ExportFails
  <2>1. export' = f /\ y.pc # "done" /\ moved' = FALSE
    BY <1>4 DEF ExportFails, Exporting, Step
  <2>2. ExportStage(f) /\ f.pc = "failed"
    BY NoExportStage
  <2> HIDE DEF f
  <2>3. QED BY <1>2, <2>1, <2>2, ExportKeeps
<1>5. CASE RetryExport
  <2>1. export' = NoExport /\ y.pc = "failed" /\ moved' = moved
    BY <1>5 DEF RetryExport, Step
  <2>2. ExportStage(NoExport) /\ NoExport.pc = "idle"
    BY NoExportStage
  <2>3. QED BY <1>1, <1>2, <2>1, <2>2, ExportKeeps
<1>6. CASE CheckQuiescent
  <2>1. /\ export' = w /\ y.pc = "check" /\ moved' = moved
        /\ y.pass = 2 => during' = {View(files)}
    BY <1>6 DEF CheckQuiescent, Step
  <2>2. /\ w.pc = "walk" /\ w.pass = y.pass /\ w.listing = y.listing /\ w.before = y.before
        /\ w.read = y.read /\ ExportRecord(w)
    BY <1>1 DEF ExportRecord, ExportPc
  <2> HIDE DEF w
  <2>3. ExportStage(w)
    BY <1>1, <2>1, <2>2 DEF ExportStage, ReadSoFar
  <2>4. Held(w, View(files))
    BY <2>2 DEF Held, View
  <2>5. w.pass = 2 => View(files) \in during' /\ \E v \in during' : Held(w, v)
    BY <2>1, <2>2, <2>4
  <2>6. QED BY <1>1, <1>2, <2>1, <2>2, <2>3, <2>5, ExportKeeps
<1>7. CASE SecondListing
  <2>1. export' = s /\ y.pc = "read" /\ y.todo = {} /\ moved' = moved
    BY <1>7 DEF SecondListing, Step
  <2>2. /\ s.pc = "check" /\ s.pass = 2 /\ s.listing = y.listing /\ s.before = y.before
        /\ s.read = y.read /\ ExportRecord(s)
    <3>1. 2 \in 1 .. 2 /\ "check" \in ExportPc
      BY DEF ExportPc
    <3>2. QED BY <1>1, <3>1 DEF ExportRecord
  <2> HIDE DEF s
  <2>3. ExportStage(s)
    BY <1>1, <2>1, <2>2 DEF ExportStage, ReadSoFar
  <2>4. QED BY <1>1, <1>2, <2>1, <2>2, <2>3, ExportKeeps
<1>8. QED BY <1>3, <1>4, <1>5, <1>6, <1>7

\* Where the names of a folder are read, one that is left out is not a file now.
LEMMA LeftOut ==
    ASSUME NEW p \in Path, NEW t \in Files, View(files) \in during, files \in Files,
           p \notin DOMAIN t, p \notin DOMAIN files
    PROVE  \E v \in during : SameAt(View(t), v, p)
<1>1. p \notin DOMAIN View(t) /\ p \notin DOMAIN View(files)
  BY ViewIsTable
<1>2. SameAt(View(t), View(files), p)
  BY <1>1 DEF SameAt
<1>3. QED BY <1>2

LEMMA NamesWalked ==
    ASSUME ExportInv, Walk
    PROVE  ExportInv'
<1> DEFINE y == export
<1>1. PICK empty \in SUBSET {d \in Folders : FilesIn(d) = {}} :
        Step([y EXCEPT !.pc = "scan", !.todo = FilesIn(0), !.listing = NoFiles,
                       !.folders = {d \in Folders : FilesIn(d) # {}} \cup empty])
  BY DEF Walk
<1> DEFINE D == {d \in Folders : FilesIn(d) # {}} \cup empty
           w == [y EXCEPT !.pc = "scan", !.todo = FilesIn(0), !.listing = NoFiles, !.folders = D]
<1>2. /\ ExportStage(y) /\ ExportRecord(y) /\ Stamped(y.listing) /\ Stamped(y.before)
      /\ ReadSoFar(y) /\ moved \in BOOLEAN /\ Witnessed(y) /\ files \in Files
  BY DEF ExportInv, ExportStage, SourceOK
<1>3. /\ export' = w /\ y.pc = "walk" /\ UNCHANGED <<moved, during>>
      /\ UNCHANGED <<files, writes, archive, target, restore>>
  BY <1>1 DEF Walk, Step
<1>4. /\ DOMAIN files \subseteq Path /\ FilesIn(0) \subseteq Path /\ D \subseteq Folders
      /\ NoFiles \in Files /\ DOMAIN NoFiles = {}
  BY <1>2, TableIs, NoFilesAreTable DEF Files, FilesIn
<1>5. /\ \A d \in Folders : FilesIn(d) # {} => d \in D
      /\ 0 \notin D
  BY DEF Folders
<1> HIDE DEF D
<1>6. /\ w.pc = "scan" /\ w.pass = y.pass /\ w.listing = NoFiles /\ w.before = y.before
      /\ w.read = y.read /\ w.todo = FilesIn(0) /\ w.folders = D /\ ExportRecord(w)
  BY <1>2, <1>4 DEF ExportRecord, ExportPc
<1> HIDE DEF w
<1>7. ExportStage(w)
  BY <1>2, <1>3, <1>4, <1>6 DEF ExportStage, ReadSoFar, Stamped
<1>8. ASSUME w.pass = 2
      PROVE  /\ View(files) \in during /\ (moved \/ \E v \in during : Held(w, v))
             /\ Walking(w, during)
  <2>1. View(files) \in during /\ (moved \/ \E v \in during : Held(y, v))
    BY <1>2, <1>3, <1>6, <1>8 DEF Witnessed
  <2>2. \A v \in during : Held(y, v) => Held(w, v)
    BY <1>4, <1>6 DEF Held
  <2>3. ASSUME NEW p \in DOMAIN w.listing \cup w.todo PROVE Folder(p) \notin w.folders
    BY <1>4, <1>5, <1>6 DEF FilesIn
  <2>4. ASSUME NEW p \in Path, p \notin w.todo, Folder(p) \notin w.folders
        PROVE  \E v \in during : SameAt(View(w.listing), v, p)
    <3>1. CASE p \notin DOMAIN files
      BY <1>2, <1>4, <1>6, <2>1, <3>1, LeftOut
    <3>2. CASE p \in DOMAIN files
      <4>1. Folder(p) # 0
        BY <1>6, <2>4, <3>2 DEF FilesIn
      <4>2. Folder(p) \in Folders /\ p \in FilesIn(Folder(p))
        BY <3>2, <4>1 DEF Folders, FilesIn
      <4>3. QED BY <1>5, <1>6, <2>4, <4>2
    <3>3. QED BY <3>1, <3>2
  <2>5. QED BY <2>1, <2>2, <2>3, <2>4 DEF Walking
<1>9. QED BY <1>2, <1>3, <1>6, <1>7, <1>8, ExportKeeps

\* A file is listed with the stamp it has now.
LEMMA FileScanned ==
    ASSUME ExportInv, NEW p \in Path, Scan(p)
    PROVE  ExportInv'
<1> DEFINE y == export
           t == With(y.listing, p, files[p])
           w == [y EXCEPT !.todo = @ \ {p}, !.listing = t]
<1>1. /\ ExportStage(y) /\ ExportRecord(y) /\ Stamped(y.listing) /\ Stamped(y.before)
      /\ ReadSoFar(y) /\ SourceOK /\ Witnessed(y) /\ files \in Files /\ moved \in BOOLEAN
      /\ Stamped(files)
  BY DEF ExportInv, ExportStage, SourceOK
<1>2. /\ export' = w /\ y.pc = "scan" /\ p \in y.todo /\ p \in DOMAIN files
      /\ UNCHANGED <<moved, during>>
      /\ UNCHANGED <<files, writes, archive, target, restore>>
  BY DEF Scan, Step
<1>3. files[p] \in FileRecord /\ y.listing \in Tables(FileRecord)
  BY <1>1, <1>2, TableIs DEF ExportRecord, Files, FileRecord
<1>4. /\ t \in Files /\ DOMAIN t = DOMAIN y.listing \cup {p} /\ t[p] = files[p]
      /\ \A q \in DOMAIN y.listing : q # p => t[q] = y.listing[q]
  <2>1. Files = Tables(FileRecord)
    BY DEF Files, FileRecord
  <2>2. t \in Tables(FileRecord)
    BY <1>3, TableWith
  <2>3. /\ DOMAIN t = DOMAIN y.listing \cup {p} /\ t[p] = files[p]
        /\ \A q \in DOMAIN y.listing : q # p => t[q] = y.listing[q]
    BY DEF With
  <2>4. QED BY <2>1, <2>2, <2>3
<1> HIDE DEF t
<1>5. /\ w.pc = "scan" /\ w.pass = y.pass /\ w.listing = t /\ w.before = y.before
      /\ w.read = y.read /\ w.todo = y.todo \ {p} /\ w.folders = y.folders /\ ExportRecord(w)
  BY <1>1, <1>2, <1>4 DEF ExportRecord
<1> HIDE DEF w
<1>6. Stamped(w.listing)
  BY <1>1, <1>2, <1>4, <1>5 DEF Stamped
<1>7. ExportStage(w)
  BY <1>1, <1>2, <1>5, <1>6 DEF ExportStage, ReadSoFar
<1>8. ASSUME w.pass = 2
      PROVE  /\ View(files) \in during /\ (moved \/ \E v \in during : Held(w, v))
             /\ Walking(w, during)
  <2>1. /\ View(files) \in during /\ (moved \/ \E v \in during : Held(y, v))
        /\ Walking(y, during)
    BY <1>1, <1>2, <1>5, <1>8 DEF Witnessed
  <2>2. ASSUME NEW v \in during, Held(y, v) PROVE Held(w, v)
    <3>1. ASSUME NEW q \in DOMAIN y.before, q \in DOMAIN t, t[q] = y.before[q]
          PROVE  q \in DOMAIN v /\ v[q] = y.before[q].content
      <4>1. CASE q = p
        BY <1>2, <1>4, <2>2, <3>1, <4>1 DEF Held
      <4>2. CASE q # p
        BY <1>2, <1>4, <2>2, <3>1, <4>2 DEF Held
      <4>3. QED BY <4>1, <4>2
    <3>2. QED BY <1>5, <2>2, <3>1 DEF Held
  <2>3. ASSUME NEW q \in DOMAIN w.listing \cup w.todo PROVE Folder(q) \notin w.folders
    BY <1>2, <1>4, <1>5, <2>1 DEF Walking
  <2>4. ASSUME NEW q \in Path, q \notin w.todo, Folder(q) \notin w.folders
        PROVE  \E v \in during : SameAt(View(w.listing), v, q)
    <3>1. CASE q = p
      <4>1. SameAt(View(t), View(files), p)
        BY <1>1, <1>2, <1>4, ViewIsTable DEF SameAt
      <4>2. QED BY <1>5, <2>1, <3>1, <4>1
    <3>2. CASE q # p
      <4>1. PICK v \in during : SameAt(View(y.listing), v, q)
        BY <1>5, <2>1, <2>4, <3>2 DEF Walking
      <4>2. y.listing \in Files
        BY <1>1 DEF ExportRecord
      <4>3. SameAt(View(t), v, q)
        BY <1>4, <3>2, <4>1, <4>2, ViewIsTable DEF SameAt
      <4>4. QED BY <1>5, <4>3
    <3>3. QED BY <3>1, <3>2
  <2>5. QED BY <2>1, <2>2, <2>3, <2>4 DEF Walking
<1>9. QED BY <1>1, <1>2, <1>5, <1>7, <1>8, ExportKeeps

\* The names of a folder are read after the files of those before it.
LEMMA FolderWalked ==
    ASSUME ExportInv, NEW d \in Folders, NextFolder(d)
    PROVE  ExportInv'
<1> DEFINE y == export
           w == [y EXCEPT !.folders = @ \ {d}, !.todo = FilesIn(d)]
<1>1. /\ ExportStage(y) /\ ExportRecord(y) /\ Stamped(y.listing) /\ Stamped(y.before)
      /\ ReadSoFar(y) /\ Witnessed(y) /\ files \in Files /\ moved \in BOOLEAN
      /\ y.listing \in Files
  BY DEF ExportInv, ExportStage, SourceOK, ExportRecord
<1>2. /\ export' = w /\ y.pc = "scan" /\ y.todo = {} /\ d \in y.folders
      /\ UNCHANGED <<moved, during>>
      /\ UNCHANGED <<files, writes, archive, target, restore>>
  BY DEF NextFolder, Step
<1>3. FilesIn(d) \subseteq Path
  BY <1>1, TableIs DEF Files, FilesIn
<1>4. /\ w.pc = "scan" /\ w.pass = y.pass /\ w.listing = y.listing /\ w.before = y.before
      /\ w.read = y.read /\ w.todo = FilesIn(d) /\ w.folders = y.folders \ {d}
      /\ ExportRecord(w)
  BY <1>1, <1>2, <1>3 DEF ExportRecord
<1> HIDE DEF w
<1>5. ExportStage(w)
  BY <1>1, <1>2, <1>4 DEF ExportStage, ReadSoFar
<1>6. ASSUME w.pass = 2
      PROVE  /\ View(files) \in during /\ (moved \/ \E v \in during : Held(w, v))
             /\ Walking(w, during)
  <2>1. /\ View(files) \in during /\ (moved \/ \E v \in during : Held(y, v))
        /\ Walking(y, during)
    BY <1>1, <1>2, <1>4, <1>6 DEF Witnessed
  <2>2. \A v \in during : Held(y, v) => Held(w, v)
    BY <1>2, <1>4 DEF Held
  <2>3. ASSUME NEW p \in DOMAIN w.listing \cup w.todo PROVE Folder(p) \notin w.folders
    BY <1>2, <1>4, <2>1 DEF Walking, FilesIn
  <2>4. ASSUME NEW p \in Path, p \notin w.todo, Folder(p) \notin w.folders
        PROVE  \E v \in during : SameAt(View(w.listing), v, p)
    <3>1. CASE Folder(p) = d
      <4>1. p \notin DOMAIN files /\ p \notin DOMAIN y.listing
        BY <1>2, <1>4, <2>1, <2>4, <3>1 DEF Walking, FilesIn
      <4>2. QED BY <1>1, <1>4, <2>1, <4>1, LeftOut
    <3>2. CASE Folder(p) # d
      BY <1>2, <1>4, <2>1, <2>4, <3>2 DEF Walking
    <3>3. QED BY <3>1, <3>2
  <2>5. QED BY <2>1, <2>2, <2>3, <2>4 DEF Walking
<1>7. QED BY <1>1, <1>2, <1>4, <1>5, <1>6, ExportKeeps

LEMMA FilesListed ==
    ASSUME ExportInv, Listed
    PROVE  ExportInv'
<1> DEFINE y == export
           f == [NoExport EXCEPT !.pc = "failed"]
           w == [y EXCEPT !.pc = "read", !.before = y.listing, !.todo = DOMAIN y.listing]
<1>1. /\ ExportStage(y) /\ ExportRecord(y) /\ Stamped(y.listing) /\ ReadSoFar(y)
      /\ moved \in BOOLEAN
  BY DEF ExportInv, ExportStage, SourceOK
<1>2. /\ export' = f \/ export' = w
      /\ y.pc = "scan" /\ y.pass = 1 /\ moved' = moved
      /\ UNCHANGED <<files, writes, archive, target, restore>>
  BY DEF Listed, Walked, Step
<1>3. CASE export' = f
  <2>1. ExportStage(f) /\ f.pc = "failed"
    BY NoExportStage
  <2> HIDE DEF f
  <2>2. QED BY <1>1, <1>2, <1>3, <2>1, ExportKeeps
<1>4. CASE export' = w
  <2>1. DOMAIN y.listing \subseteq Path
    BY <1>1, TableIs DEF ExportRecord, Files
  <2>2. /\ w.pc = "read" /\ w.pass = 1 /\ w.listing = y.listing /\ w.before = y.listing
        /\ w.read = NoFiles /\ w.todo = DOMAIN y.listing /\ ExportRecord(w)
    BY <1>1, <1>2, <2>1 DEF ExportRecord, ExportPc, ReadSoFar
  <2> HIDE DEF w
  <2>3. DOMAIN NoFiles = {}
    BY NoFilesAreTable
  <2>4. ReadSoFar(w)
    BY <2>2, <2>3 DEF ReadSoFar
  <2>5. ExportStage(w)
    BY <1>1, <2>2, <2>4 DEF ExportStage
  <2>6. QED BY <1>1, <1>2, <1>4, <2>2, <2>5, ExportKeeps
<1>5. QED BY <1>2, <1>3, <1>4

\* A piece is read, or all pieces of a file: what is kept of it is what was listed.
LEMMA FilesRead ==
    ASSUME ExportInv, ReadChunk \/ FileRead
    PROVE  ExportInv'
<1> DEFINE y == export
           p == Reading
           k == With(y.read, p, y.parts)
           w == [y EXCEPT !.todo = @ \ {p}, !.parts = <<>>, !.read = k]
<1>1. /\ ExportStage(y) /\ ExportRecord(y) /\ Stamped(y.listing) /\ Stamped(y.before)
      /\ ReadSoFar(y) /\ moved \in BOOLEAN
  BY DEF ExportInv, ExportStage, SourceOK
<1>2. /\ y.pc = "read" /\ y.todo # {} /\ moved' = moved
      /\ UNCHANGED <<files, writes, archive, target, restore>>
  BY DEF ReadChunk, FileRead, Step
<1>3. CASE ReadChunk
  <2>1. PICK piece : export' = [y EXCEPT !.parts = Append(@, piece)]
    BY <1>3 DEF ReadChunk, Step
  <2> DEFINE u == [y EXCEPT !.parts = Append(@, piece)]
  <2>2. /\ u.pc = "read" /\ u.pass = y.pass /\ u.listing = y.listing /\ u.before = y.before
        /\ u.read = y.read /\ u.todo = y.todo /\ ExportRecord(u)
    BY <1>1, <1>2 DEF ExportRecord
  <2>3. export' = u
    BY <2>1
  <2> HIDE DEF u
  <2>4. ExportStage(u)
    BY <1>1, <1>2, <2>2 DEF ExportStage, ReadSoFar
  <2>5. QED BY <1>1, <1>2, <2>2, <2>3, <2>4, ExportKeeps
<1>4. CASE FileRead
  <2>1. y.parts = y.before[p].content /\ export' = w
    BY <1>4 DEF FileRead, Step
  <2>2. p \in y.todo /\ p \in Path
    BY <1>1, <1>2, LeastPath DEF Reading, ExportRecord
  <2>3. /\ DOMAIN y.read = DOMAIN y.before \ y.todo /\ y.pass = 1 /\ p \in DOMAIN y.before
        /\ \A q \in DOMAIN y.read : q \in DOMAIN y.before /\ y.read[q] = y.before[q].content
    BY <1>1, <1>2, <2>2 DEF ReadSoFar
  <2>4. y.before[p] \in FileRecord
    BY <1>1, <2>3, TableIs DEF ExportRecord, Files, FileRecord
  <2>5. y.parts \in Content /\ y.read \in Tables(Content)
    BY <1>1, <2>1, <2>4 DEF FileRecord, ExportRecord
  <2>6. k \in Tables(Content)
    BY <2>2, <2>5, TableWith
  <2>7. /\ DOMAIN k = DOMAIN y.read \cup {p} /\ k[p] = y.parts
        /\ \A q \in DOMAIN y.read : q # p => k[q] = y.read[q]
    BY DEF With
  <2> HIDE DEF k
  <2>8. /\ w.pc = "read" /\ w.pass = 1 /\ w.listing = y.listing /\ w.before = y.before
        /\ w.read = k /\ w.todo = y.todo \ {p} /\ ExportRecord(w)
    BY <1>1, <1>2, <2>3, <2>6 DEF ExportRecord
  <2> HIDE DEF w, p
  <2>9. DOMAIN k = DOMAIN y.before \ (y.todo \ {p})
    BY <2>2, <2>3, <2>7
  <2>10. ASSUME NEW q \in DOMAIN k
         PROVE  q \in DOMAIN y.before /\ k[q] = y.before[q].content
    BY <2>1, <2>3, <2>7
  <2>11. y.todo \subseteq DOMAIN y.before
    BY <1>1, <1>2 DEF ReadSoFar
  <2>12. ReadSoFar(w)
    BY <2>8, <2>9, <2>10, <2>11 DEF ReadSoFar
  <2>13. ExportStage(w)
    BY <1>1, <2>8, <2>12 DEF ExportStage
  <2>14. QED BY <1>1, <1>2, <2>1, <2>8, <2>13, ExportKeeps
<1>5. QED BY <1>3, <1>4

\* The second listing is the first: a file of both was there with one stamp all along.
LEMMA CheckpointMade ==
    ASSUME ExportInv, Exported
    PROVE  ExportInv'
<1> DEFINE y == export
           e == [NoExport EXCEPT !.pc = "done"]
<1>1. /\ ExportRecord(y) /\ ReadSoFar(y) /\ Witnessed(y)
      /\ SourceOK /\ RestoreOK
  BY DEF ExportInv, ExportStage
<1>2. /\ export' = e /\ y.pc = "scan" /\ y.pass = 2 /\ y.todo = {} /\ y.folders = {}
      /\ y.listing = y.before /\ archive' = y.read
      /\ UNCHANGED <<files, writes, chunks, target, restore, moved, during>>
  BY DEF Exported, SameListing, Walked
<1>3. ExportStage(e) /\ e.pc = "done"
  BY NoExportStage
<1> HIDE DEF e
<1>4. /\ DOMAIN y.read = DOMAIN y.before /\ y.read \in Tables(Content) /\ y.listing \in Files
      /\ \A p \in DOMAIN y.read : y.read[p] = y.before[p].content
  BY <1>1, <1>2 DEF ReadSoFar, ExportRecord
<1>5. WasThere(y.read)
  <2>1. ASSUME NEW p \in Path PROVE \E v \in during : SameAt(y.read, v, p)
    <3>1. PICK v \in during : SameAt(View(y.listing), v, p)
      BY <1>1, <1>2 DEF Witnessed, Walking
    <3>2. SameAt(y.read, v, p)
      BY <1>2, <1>4, <3>1, ViewIsTable DEF SameAt
    <3>3. QED BY <3>2
  <2>2. ASSUME ~moved PROVE \E v \in during : \A p \in DOMAIN y.read : SameAt(y.read, v, p)
    <3>1. PICK v \in during : Held(y, v)
      BY <1>1, <1>2, <2>2 DEF Witnessed
    <3>2. ASSUME NEW p \in DOMAIN y.read PROVE SameAt(y.read, v, p)
      BY <1>2, <1>4, <3>1 DEF Held, SameAt
    <3>3. QED BY <3>2
  <2>3. QED BY <2>1, <2>2 DEF WasThere
<1>6. (WasThere(archive))'
  BY <1>2, <1>5 DEF WasThere, SameAt
<1>7. restore.pc = "idle"
  BY <1>1, <1>2 DEF RestoreOK
<1>8. RestoreOK'
  BY <1>1, <1>2, <1>3, <1>4, <1>6, <1>7 DEF RestoreOK
<1>9. ExportStage(export)' /\ Witnessed(export)' /\ SourceOK'
  BY <1>1, <1>2, <1>3 DEF ExportStage, ExportRecord, Stamped, ReadSoFar, Witnessed, SourceOK
<1>10. QED BY <1>8, <1>9 DEF ExportInv

\* What stays true when processes of the guest change the files to fs: a new stamp is
\* larger than all before it, and a file keeps its name unless a folder is moved.
LEMMA FilesChange ==
    ASSUME ExportInv, Exporting, NEW fs \in Files, Changed(fs), moved' \in BOOLEAN,
           writes' \in 0 .. MaxWrites, writes =< writes',
           \A p \in DOMAIN fs : fs[p].stamp =< writes',
           during # {} =>
             \/ moved'
             \/ /\ ~moved
                /\ \A p \in DOMAIN fs :
                     (p \in DOMAIN files /\ fs[p] = files[p]) \/ fs[p].stamp > writes
    PROVE  ExportInv'
<1> DEFINE y == export
<1>1. /\ ExportStage(y) /\ ExportRecord(y) /\ Stamped(y.listing) /\ Stamped(y.before)
      /\ ReadSoFar(y) /\ Witnessed(y) /\ SourceOK /\ RestoreOK /\ writes \in Nat
  BY DEF ExportInv, ExportStage, SourceOK
<1>2. /\ files' = fs /\ during' = (IF during = {} THEN {} ELSE during \cup {View(fs)})
      /\ export' = y /\ UNCHANGED <<chunks, archive, target, restore>>
  BY DEF Changed
<1>3. SourceOK'
  BY <1>2 DEF SourceOK, Stamped
<1>4. ASSUME NEW t \in Files, Stamped(t)
      PROVE  \A p \in DOMAIN t : t[p].stamp \in Nat /\ t[p].stamp =< writes'
  <2>1. t \in Tables(FileRecord)
    BY <1>4 DEF Files, FileRecord
  <2>2. \A p \in DOMAIN t : t[p] \in FileRecord
    BY <2>1, TableIs
  <2>3. \A p \in DOMAIN t : t[p].stamp \in Nat
    BY <2>2 DEF FileRecord
  <2>4. QED BY <1>1, <1>4, <2>3 DEF Stamped
<1>5. ExportStage(export)'
  <2>1. /\ \A p \in DOMAIN y.listing : y.listing[p].stamp =< writes'
        /\ \A p \in DOMAIN y.before : y.before[p].stamp =< writes'
    BY <1>1, <1>4 DEF ExportRecord
  <2>2. Stamped(export.listing)' /\ Stamped(export.before)'
    BY <1>2, <2>1 DEF Stamped
  <2>3. ExportRecord(export)' /\ ReadSoFar(export)'
    BY <1>1, <1>2 DEF ExportRecord, ReadSoFar
  <2>4. QED BY <2>2, <2>3 DEF ExportStage
<1>6. ASSUME y.pass = 2, y.pc \in {"walk", "scan"}
      PROVE  /\ View(fs) \in during' /\ during \subseteq during'
             /\ moved' \/ \E v \in during' : Held(export, v)'
             /\ y.pc = "scan" => Walking(export, during)'
  <2>1. /\ View(files) \in during /\ (moved \/ \E v \in during : Held(y, v))
        /\ y.pc = "scan" => Walking(y, during)
    BY <1>1, <1>6 DEF Witnessed
  <2>2. View(fs) \in during' /\ during \subseteq during'
    BY <1>2, <2>1
  <2>3. ASSUME ~moved' PROVE \E v \in during' : Held(export, v)'
    <3>1. PICK v \in during : Held(y, v)
      BY <2>1, <2>3
    <3>2. ASSUME NEW p \in DOMAIN y.before, p \in DOMAIN fs, fs[p].stamp = y.before[p].stamp
          PROVE  p \in DOMAIN v /\ v[p] = fs[p].content
      <4>1. y.before[p].stamp =< writes /\ y.before[p].stamp \in Nat
        BY <1>1, <1>4 DEF Stamped, ExportRecord
      <4>2. p \in DOMAIN files /\ fs[p] = files[p]
        BY <1>1, <2>1, <2>3, <3>2, <4>1
      <4>3. QED BY <3>1, <3>2, <4>2 DEF Held
    <3>3. Held(export, v)'
      BY <1>2, <3>1, <3>2 DEF Held
    <3>4. QED BY <2>2, <3>3
  <2>4. ASSUME y.pc = "scan" PROVE Walking(export, during)'
    BY <1>2, <2>1, <2>2, <2>4 DEF Walking
  <2>5. QED BY <2>2, <2>3, <2>4
<1>7. Witnessed(export)'
  <2>1. View(files)' = View(fs)
    BY <1>2 DEF View
  <2>2. QED BY <1>2, <1>6, <2>1 DEF Witnessed
<1>8. RestoreOK'
  BY <1>1, <1>2 DEF RestoreOK, Exporting
<1>9. QED BY <1>3, <1>5, <1>7, <1>8 DEF ExportInv

LEMMA GuestWrites ==
    ASSUME ExportInv,
           \/ \E p \in Path, c \in Content : WriteFile(p, c)
           \/ \E p \in Path : RemoveFile(p)
           \/ \E a, b \in Folders : MoveFolder(a, b)
    PROVE  ExportInv'
<1>1. /\ files \in Tables(FileRecord) /\ writes \in 0 .. MaxWrites /\ writes \in Nat
      /\ moved \in BOOLEAN /\ Stamped(files) /\ Files = Tables(FileRecord)
  BY ExportAssumption DEF ExportInv, SourceOK, Files, FileRecord
<1>2. \A p \in DOMAIN files :
        files[p] \in FileRecord /\ files[p].stamp =< writes /\ files[p].stamp \in Nat
  <2>1. \A p \in DOMAIN files : files[p] \in FileRecord
    BY <1>1, TableIs
  <2>2. QED BY <1>1, <2>1 DEF FileRecord, Stamped
<1>3. ASSUME NEW p \in Path, NEW c \in Content, WriteFile(p, c) PROVE ExportInv'
  <2> DEFINE fs == With(files, p, [content |-> c, stamp |-> writes + 1])
  <2>1. /\ Exporting /\ writes < MaxWrites /\ writes' = writes + 1 /\ Changed(fs)
        /\ moved' = moved
    BY <1>3 DEF WriteFile
  <2>2. /\ [content |-> c, stamp |-> writes + 1] \in FileRecord /\ writes' \in 0 .. MaxWrites
        /\ writes =< writes'
    BY <1>1, <2>1, ExportAssumption DEF FileRecord
  <2>3. fs \in Files
    BY <1>1, <2>2, TableWith
  <2>4. /\ p \in DOMAIN fs /\ fs[p].stamp = writes + 1
        /\ \A q \in DOMAIN fs : q # p => q \in DOMAIN files /\ fs[q] = files[q]
    BY DEF With
  <2> HIDE DEF fs
  <2>5. ASSUME NEW q \in DOMAIN fs
        PROVE  /\ fs[q].stamp =< writes'
               /\ (q \in DOMAIN files /\ fs[q] = files[q]) \/ fs[q].stamp > writes
    BY <1>1, <1>2, <2>1, <2>4
  <2>6. QED BY <1>1, <2>1, <2>2, <2>3, <2>5, FilesChange
<1>4. ASSUME NEW p \in Path, RemoveFile(p) PROVE ExportInv'
  <2> DEFINE fs == Restrict(files, DOMAIN files \ {p})
  <2>1. Exporting /\ writes' = writes /\ moved' = moved /\ Changed(fs)
    BY <1>4 DEF RemoveFile
  <2>2. /\ fs \in Files /\ DOMAIN fs = DOMAIN files \ {p}
        /\ \A q \in DOMAIN fs : q \in DOMAIN files /\ fs[q] = files[q]
    BY <1>1, TableWithout
  <2> HIDE DEF fs
  <2>3. QED BY <1>1, <1>2, <2>1, <2>2, FilesChange
<1>5. ASSUME NEW a \in Folders, NEW b \in Folders, MoveFolder(a, b) PROVE ExportInv'
  <2> DEFINE there == {Into(p, b) : p \in FilesIn(a)}
             N == (DOMAIN files \ FilesIn(a)) \cup there
             source(q) == CHOOSE p \in FilesIn(a) : Into(p, b) = q
             fs == [q \in N |-> IF q \in DOMAIN files THEN files[q] ELSE files[source(q)]]
  <2>1. /\ Exporting /\ there \subseteq Path /\ writes' = writes /\ moved' = (during # {})
        /\ Changed(fs)
    BY <1>5 DEF MoveFolder
  <2>2. DOMAIN files \subseteq Path
    BY <1>1, TableIs
  <2>3. ASSUME NEW q \in N PROVE \E p \in DOMAIN files : fs[q] = files[p]
    <3>1. CASE q \in DOMAIN files
      BY <2>3, <3>1
    <3>2. CASE q \notin DOMAIN files
      <4>1. \E p \in FilesIn(a) : Into(p, b) = q
        BY <2>3, <3>2
      <4>2. source(q) \in FilesIn(a)
        BY <4>1
      <4>3. fs[q] = files[source(q)]
        BY <2>3, <3>2
      <4>4. QED BY <4>2, <4>3 DEF FilesIn
    <3>3. QED BY <3>1, <3>2
  <2>4. DOMAIN fs = N /\ N \subseteq Path
    BY <2>1, <2>2
  <2>5. fs \in [N -> FileRecord]
    <3>1. \A q \in N : fs[q] \in FileRecord
      BY <1>2, <2>3
    <3> HIDE DEF N, source
    <3>2. QED BY <3>1
  <2>6. \A q \in DOMAIN fs : fs[q].stamp =< writes
    BY <1>2, <2>3, <2>4
  <2> HIDE DEF fs, N, there, source
  <2>7. fs \in Files
    BY <1>1, <2>4, <2>5, IsTable
  <2>8. writes' \in 0 .. MaxWrites /\ writes =< writes'
    BY <1>1, <2>1
  <2>9. \A q \in DOMAIN fs : fs[q].stamp =< writes'
    BY <2>1, <2>6, Zenon
  <2>10. moved' \in BOOLEAN /\ (during # {} => moved')
    BY <2>1, Zenon
  <2>11. QED BY <2>1, <2>7, <2>8, <2>9, <2>10, FilesChange
<1>6. QED BY <1>3, <1>4, <1>5

\* A restore reports success only of a target equal to the archive.
LEMMA RestoreKeeps ==
    ASSUME ExportInv, BeginRestore \/ StageChunk \/ CommitStage \/ Restored \/ RestoreFails
    PROVE  ExportInv'
<1>1. UNCHANGED <<files, writes, export, chunks, archive, moved, during>> /\ RestoreOK
  <2>1. RestoreOK
    BY DEF ExportInv
  <2>2. CASE BeginRestore \/ StageChunk
    BY <2>1, <2>2 DEF BeginRestore, StageChunk, Restoring
  <2>3. CASE CommitStage \/ Restored \/ RestoreFails
    BY <2>1, <2>3 DEF CommitStage, Restored, RestoreFails, Restoring
  <2>4. QED BY <2>2, <2>3
<1>2. SourceOK' /\ ExportStage(export)' /\ Witnessed(export)'
  BY <1>1, ExportStays DEF ExportInv
<1> DEFINE r == restore
           s == [pc |-> IF target = NoFiles THEN "next" ELSE "failed", todo |-> DOMAIN archive,
                 staged |-> <<>>, count |-> r.count + 1]
<1>3. /\ restore' \in [pc : RestorePc, todo : SUBSET Path, staged : {restore'.staged},
                       count : 0 .. MaxRestores]
      /\ export.pc = "done" \/ (r.pc # "idle" /\ restore'.pc # "idle")
      /\ restore'.pc = "done" => target' = archive
  <2>1. CASE BeginRestore
    <3>1. /\ restore' = s /\ export.pc = "done" /\ r.count < MaxRestores
      BY <2>1 DEF BeginRestore, Restoring
    <3>2. DOMAIN archive \in SUBSET Path
      BY <1>1, TableIs DEF RestoreOK
    <3>3. r.count + 1 \in 0 .. MaxRestores
      BY <1>1, <3>1, ExportAssumption DEF RestoreOK
    <3>4. QED BY <3>1, <3>2, <3>3 DEF RestorePc
  <2>2. CASE StageChunk
    <3>1. PICK g : restore' = [r EXCEPT !.pc = "stage", !.staged = g] /\ r.pc \in {"next", "stage"}
      BY <2>2 DEF StageChunk, Restoring
    <3>2. QED BY <1>1, <3>1 DEF RestoreOK, RestorePc
  <2>3. CASE CommitStage
    <3>1. PICK T \in SUBSET r.todo :
            restore' = [r EXCEPT !.pc = "next", !.todo = T, !.staged = <<>>] /\ r.pc = "stage"
      <4>1. r.todo \ {Min(r.todo)} \in SUBSET r.todo
        OBVIOUS
      <4>2. QED BY <2>3, <4>1 DEF CommitStage, Restoring
    <3>2. QED BY <1>1, <3>1 DEF RestoreOK, RestorePc
  <2>4. CASE Restored
    BY <1>1, <2>4 DEF Restored, Restoring, RestoreOK, RestorePc
  <2>5. CASE RestoreFails
    BY <1>1, <2>5 DEF RestoreFails, Restoring, RestoreOK, RestorePc
  <2>6. QED BY <2>1, <2>2, <2>3, <2>4, <2>5
<1>4. RestoreOK'
  <2>1. WasThere(archive) => WasThere(archive)'
    BY <1>1 DEF WasThere, SameAt
  <2>2. QED BY <1>1, <1>3, <2>1 DEF RestoreOK
<1>5. QED BY <1>2, <1>4 DEF ExportInv

LEMMA ExportStep ==
    ASSUME ExportInv, [ExportNext]_exportVars
    PROVE  ExportInv'
<1>1. CASE UNCHANGED exportVars
  <2>1. WasThere(archive) => WasThere(archive)'
    BY <1>1 DEF WasThere, SameAt, exportVars
  <2>2. RestoreOK'
    BY <1>1, <2>1 DEF ExportInv, RestoreOK, exportVars
  <2>3. QED BY <1>1, <2>2, ExportStays DEF ExportInv, exportVars
<1>2. CASE ExportNext
  BY <1>2, GuestWrites, FileScanned, FolderWalked, ExportBegins, NamesWalked, FilesListed,
     FilesRead, CheckpointMade, RestoreKeeps DEF ExportNext
<1>3. QED BY <1>1, <1>2

\* export_workspace_stream and restore_workspace_stream, for any files, folders, contents,
\* numbers of writes and of restores: a checkpoint, read folder by folder, holds nothing and
\* leaves out nothing that the workspace did not hold or lack at some moment of the second
\* listing; all its files were there at one moment unless a folder was moved meanwhile; and
\* a restore that reports success rebuilt it.
THEOREM ExportSafety == ExportSpec => []ExportSound
<1>1. ExportInit => ExportInv
  BY InitExport
<1>2. ExportInv /\ [ExportNext]_exportVars => ExportInv'
  BY ExportStep
<1>3. ExportInv => ExportSound
  <2> SUFFICES ASSUME ExportInv PROVE ExportSound
    OBVIOUS
  <2>1. DOMAIN export.read \subseteq Path
    BY TableIs DEF ExportInv, ExportStage, ExportRecord
  <2>2. ExportTypeOK
    BY <2>1 DEF ExportInv, SourceOK, ExportStage, ExportRecord, RestoreOK, ExportTypeOK
  <2>3. CheckpointWasThere
    BY DEF ExportInv, RestoreOK, CheckpointWasThere
  <2>4. QED BY <2>2, <2>3 DEF ExportSound
<1>4. QED BY <1>1, <1>2, <1>3, PTL DEF ExportSpec

-----------------------------------------------------------------------------
(* The verification boundary.  Each process is at one of a few stages, which *)
(* its request, its result, its container and the comparator's run must fit. *)

HIDE ExportAssumption
USE VerifierAssumption

\* What a checker knows at each of its steps: x is the process, b its container, h what the
\* comparator did for it.
CheckerRecord ==
    [pc : {"free", "dead", "bundle", "slot", "stage", "run", "inspect", "cleanup", "judge"},
     req : Request, sources : BOOLEAN, failed : BOOLEAN, oom : BOOLEAN,
     result : [status : {"none", "verified", "blocked"}, kernel : BOOLEAN],
     verdict : {"none", "verified", "rejected", "blocked"}]
RunRecord == [accepted : BOOLEAN, kernel : BOOLEAN, oom : BOOLEAN]
BoxState == {"none", "running", "ended"}

Sent(r) == r.digest /\ (r.scientific => r.reviewed /\ ~r.holes)
Staged(r) == Sent(r) /\ r.matches /\ (r.publication => KernelPinned)

\* The result that was read is what the comparator did, until a kill is seen.
ResultHonest(x, h) ==
    x.result.status = "verified" =>
        h.accepted /\ ~h.oom /\ (x.result.kernel => h.kernel)

CheckerStage(x, b, h) ==
    /\ x.pc # "free" => x.verdict = "none"
    /\ x.pc \notin Resting => Sent(x.req)
    /\ x.pc \notin Resting \cup {"bundle"} => Staged(x.req)
    /\ x.pc \in {"bundle", "slot", "stage"} \/ (x.pc = "free" /\ x.verdict = "none") =>
            b = "none" /\ x.result = NoResult
    /\ b = "running" => x.result.status # "verified"
    /\ ResultHonest(x, h)
    /\ x.pc = "judge" => x.failed \/ b = "none"
    /\ x.verdict = "verified" =>
            /\ Staged(x.req)
            /\ h.accepted /\ ~h.oom /\ (x.req.publication => h.kernel)
            /\ b = "none"

VerifierInv ==
    /\ VerifierTypeOK
    /\ checker \in [Checker -> CheckerRecord]
    /\ \A c \in Checker : CheckerStage(checker[c], box[c], ran[c])

\* A step changes one process, its container and its history.
Alone(c) ==
    \A d \in Checker : d # c =>
        checker'[d] = checker[d] /\ box'[d] = box[d] /\ ran'[d] = ran[d]

LEMMA CheckerKeeps ==
    ASSUME VerifierInv, NEW c \in Checker,
           NEW x \in CheckerRecord, NEW b \in BoxState, NEW h \in RunRecord,
           checker' = [checker EXCEPT ![c] = x],
           box' = [box EXCEPT ![c] = b] \/ (box' = box /\ b = box[c]),
           ran' = [ran EXCEPT ![c] = h] \/ (ran' = ran /\ h = ran[c]),
           CheckerStage(x, b, h),
           holder' \in Checker \cup {NoHolder}, UNCHANGED <<pinned, changes>>
    PROVE  VerifierInv'
<1>1. checker' \in [Checker -> CheckerRecord] /\ checker'[c] = x
  BY DEF VerifierInv
<1>2. box' \in [Checker -> BoxState] /\ box'[c] = b
  BY DEF VerifierInv, VerifierTypeOK, BoxState
<1>3. ran' \in [Checker -> RunRecord] /\ ran'[c] = h
  BY DEF VerifierInv, VerifierTypeOK, RunRecord
<1>4. Alone(c)
  BY DEF Alone, VerifierInv, VerifierTypeOK
<1>5. VerifierTypeOK'
  BY <1>1, <1>2, <1>3 DEF VerifierInv, VerifierTypeOK, CheckerRecord, BoxState, RunRecord
<1>6. ASSUME NEW d \in Checker
      PROVE  CheckerStage(checker'[d], box'[d], ran'[d])
  BY <1>1, <1>2, <1>3, <1>4 DEF Alone, VerifierInv
<1>7. QED BY <1>1, <1>5, <1>6 DEF VerifierInv

LEMMA InitVerifier == VerifierInit => VerifierInv
<1> SUFFICES ASSUME VerifierInit PROVE VerifierInv
  OBVIOUS
<1>1. ASSUME NEW r \in Request
      PROVE  [NewChecker(r) EXCEPT !.pc = "free"] \in CheckerRecord
  BY DEF NewChecker, CheckerRecord, NoResult
<1>2. checker \in [Checker -> CheckerRecord]
  BY <1>1 DEF VerifierInit
<1>3. VerifierTypeOK
  BY <1>2 DEF VerifierInit, VerifierTypeOK, CheckerRecord, NotRun
<1>4. ASSUME NEW c \in Checker PROVE CheckerStage(checker[c], box[c], ran[c])
  <2>1. PICK r \in Request : checker[c] = [NewChecker(r) EXCEPT !.pc = "free"]
    BY DEF VerifierInit
  <2>2. checker[c].pc = "free" /\ checker[c].verdict = "none" /\ checker[c].result = NoResult
    BY <2>1 DEF NewChecker
  <2>3. QED BY <2>2 DEF VerifierInit, CheckerStage, ResultHonest, NoResult, Resting
<1>5. QED BY <1>2, <1>3, <1>4 DEF VerifierInv

LEMMA CheckerSubmits ==
    ASSUME VerifierInv, NEW c \in Checker, Submit(c) \/ ReadBundle(c) \/ EnterSlot(c)
    PROVE  VerifierInv'
<1> DEFINE y == checker[c]
           X == {[y EXCEPT !.pc = "bundle"], [y EXCEPT !.pc = "slot"], [y EXCEPT !.pc = "stage"],
                 [y EXCEPT !.pc = "free", !.verdict = "blocked"],
                 [y EXCEPT !.pc = "free", !.verdict = "rejected"]}
<1>1. /\ y \in CheckerRecord /\ box[c] \in BoxState /\ ran[c] \in RunRecord
      /\ CheckerStage(y, box[c], ran[c]) /\ holder \in Checker \cup {NoHolder}
  BY DEF VerifierInv, VerifierTypeOK, BoxState, RunRecord
<1>2. /\ UNCHANGED <<box, ran, pinned, changes>>
      /\ holder' \in Checker \cup {NoHolder}
  BY <1>1 DEF Submit, ReadBundle, EnterSlot
<1>3. \E x \in X : checker' = [checker EXCEPT ![c] = x] /\ CheckerStage(x, box[c], ran[c])
  <2>1. CASE Submit(c)
    <3>1. CASE Preflight(y.req) = "none"
      BY <1>1, <2>1, <3>1
         DEF Submit, Preflight, CheckerStage, ResultHonest, Resting, Sent, CheckerRecord
    <3>2. CASE Preflight(y.req) # "none"
      BY <1>1, <2>1, <3>2
         DEF Submit, Preflight, Ends, CheckerStage, ResultHonest, Resting, CheckerRecord
    <3>3. QED BY <3>1, <3>2
  <2>2. CASE ReadBundle(c)
    BY <1>1, <2>2
       DEF ReadBundle, BundleValid, KernelReady, Ends, CheckerStage, ResultHonest, Resting,
           Staged, CheckerRecord
  <2>3. CASE EnterSlot(c)
    BY <1>1, <2>3 DEF EnterSlot, Ends, CheckerStage, ResultHonest, Resting, CheckerRecord
  <2>4. QED BY <2>1, <2>2, <2>3
<1>4. PICK x \in X : checker' = [checker EXCEPT ![c] = x] /\ CheckerStage(x, box[c], ran[c])
  BY <1>3
<1>5. x \in CheckerRecord
  BY <1>1 DEF CheckerRecord
<1>6. QED BY <1>1, <1>2, <1>4, <1>5, CheckerKeeps

LEMMA CheckerRuns ==
    ASSUME VerifierInv, NEW c \in Checker,
           Stage(c) \/ StageFails(c) \/ ReadResult(c) \/ RunFails(c) \/ CheckerDies(c)
    PROVE  VerifierInv'
<1> DEFINE y == checker[c]
           X == {[y EXCEPT !.pc = "run", !.sources = pinned["sources"]],
                 [y EXCEPT !.pc = "inspect", !.failed = TRUE], [y EXCEPT !.pc = "inspect"],
                 [y EXCEPT !.pc = "dead"]}
<1>1. /\ y \in CheckerRecord /\ box[c] \in BoxState /\ ran[c] \in RunRecord
      /\ CheckerStage(y, box[c], ran[c]) /\ holder \in Checker \cup {NoHolder}
      /\ pinned["sources"] \in BOOLEAN /\ ran' = ran
  BY DEF VerifierInv, VerifierTypeOK, BoxState, RunRecord, HostFile,
         Stage, StageFails, ReadResult, RunFails, CheckerDies
<1>2. UNCHANGED <<pinned, changes>> /\ holder' \in Checker \cup {NoHolder}
  BY <1>1 DEF Stage, StageFails, ReadResult, RunFails, CheckerDies
<1>3. \E x \in X, b \in BoxState :
        /\ checker' = [checker EXCEPT ![c] = x] /\ CheckerStage(x, b, ran[c])
        /\ box' = [box EXCEPT ![c] = b] \/ (box' = box /\ b = box[c])
  <2>1. CASE Stage(c)
    <3> DEFINE x == [y EXCEPT !.pc = "run", !.sources = pinned["sources"]]
    <3>1. /\ checker' = [checker EXCEPT ![c] = x] /\ box' = [box EXCEPT ![c] = "running"]
          /\ y.pc = "stage"
      BY <2>1 DEF Stage
    <3>2. /\ x.pc = "run" /\ x.req = y.req /\ x.verdict = y.verdict /\ x.result = y.result
      BY <1>1 DEF CheckerRecord
    <3>3. y.result.status = "none" /\ y.verdict = "none" /\ Sent(y.req) /\ Staged(y.req)
      BY <1>1, <3>1 DEF CheckerStage, Resting, NoResult
    <3>4. CheckerStage(x, "running", ran[c])
      BY <3>2, <3>3 DEF CheckerStage, ResultHonest, Resting
    <3>5. x \in X /\ "running" \in BoxState
      BY DEF BoxState
    <3>6. QED BY <3>1, <3>4, <3>5
  <2>2. CASE StageFails(c)
    <3> DEFINE x == [y EXCEPT !.pc = "inspect", !.failed = TRUE]
    <3>1. checker' = [checker EXCEPT ![c] = x] /\ box' = box /\ y.pc = "stage"
      BY <2>2 DEF StageFails
    <3>2. /\ x.pc = "inspect" /\ x.req = y.req /\ x.verdict = y.verdict /\ x.result = y.result
      BY <1>1 DEF CheckerRecord
    <3>3. CheckerStage(x, box[c], ran[c])
      BY <1>1, <3>1, <3>2 DEF CheckerStage, ResultHonest, Resting
    <3>4. x \in X
      OBVIOUS
    <3>5. QED BY <1>1, <3>1, <3>3, <3>4
  <2>3. CASE ReadResult(c)
    <3> DEFINE x == [y EXCEPT !.pc = "inspect"]
    <3>1. checker' = [checker EXCEPT ![c] = x] /\ box' = box /\ y.pc = "run"
      BY <2>3 DEF ReadResult
    <3>2. /\ x.pc = "inspect" /\ x.req = y.req /\ x.verdict = y.verdict /\ x.result = y.result
      BY <1>1 DEF CheckerRecord
    <3>3. CheckerStage(x, box[c], ran[c])
      BY <1>1, <3>1, <3>2 DEF CheckerStage, ResultHonest, Resting
    <3>4. x \in X
      OBVIOUS
    <3>5. QED BY <1>1, <3>1, <3>3, <3>4
  <2>4. CASE RunFails(c)
    <3> DEFINE x == [y EXCEPT !.pc = "inspect", !.failed = TRUE]
    <3>1. checker' = [checker EXCEPT ![c] = x] /\ box' = box /\ y.pc = "run"
      BY <2>4 DEF RunFails
    <3>2. /\ x.pc = "inspect" /\ x.req = y.req /\ x.verdict = y.verdict /\ x.result = y.result
      BY <1>1 DEF CheckerRecord
    <3>3. CheckerStage(x, box[c], ran[c])
      BY <1>1, <3>1, <3>2 DEF CheckerStage, ResultHonest, Resting
    <3>4. x \in X
      OBVIOUS
    <3>5. QED BY <1>1, <3>1, <3>3, <3>4
  <2>5. CASE CheckerDies(c)
    <3> DEFINE x == [y EXCEPT !.pc = "dead"]
    <3>1. checker' = [checker EXCEPT ![c] = x] /\ box' = box /\ y.pc \notin Resting
      BY <2>5 DEF CheckerDies
    <3>2. /\ x.pc = "dead" /\ x.req = y.req /\ x.verdict = y.verdict /\ x.result = y.result
      BY <1>1 DEF CheckerRecord
    <3>3. CheckerStage(x, box[c], ran[c])
      BY <1>1, <3>1, <3>2 DEF CheckerStage, ResultHonest, Resting
    <3>4. x \in X
      OBVIOUS
    <3>5. QED BY <1>1, <3>1, <3>3, <3>4
  <2>6. QED BY <2>1, <2>2, <2>3, <2>4, <2>5
<1>4. PICK x \in X, b \in BoxState :
        /\ checker' = [checker EXCEPT ![c] = x] /\ CheckerStage(x, b, ran[c])
        /\ box' = [box EXCEPT ![c] = b] \/ (box' = box /\ b = box[c])
  BY <1>3
<1>5. x \in CheckerRecord
  BY <1>1 DEF CheckerRecord
<1>6. QED BY <1>1, <1>2, <1>4, <1>5, CheckerKeeps

\* The driver accepts only what ran to its end on the sources that were staged; its result
\* is read only by the call that waits for it.
LEMMA DriverAnswers ==
    ASSUME VerifierInv, NEW c \in Checker, NEW boundary \in BOOLEAN, NEW zero \in BOOLEAN,
           NEW oom \in BOOLEAN, NEW seen \in BOOLEAN, DriverEnds(c, boundary, zero, oom, seen)
    PROVE  VerifierInv'
<1> DEFINE y == checker[c]
           ok == DriverChecks(c, boundary)
           status == DriverStatus(ok, zero, oom /\ seen)
           result == [status |-> status, kernel |-> status = "verified" /\ y.req.publication]
           h == [accepted |-> ok /\ zero, oom |-> oom /\ seen, kernel |-> y.req.publication]
           x == IF y.pc = "run" THEN [y EXCEPT !.oom = oom, !.result = result] ELSE y
<1>1. /\ y \in CheckerRecord /\ CheckerStage(y, box[c], ran[c])
      /\ holder \in Checker \cup {NoHolder} /\ box[c] = "running"
      /\ checker \in [Checker -> CheckerRecord]
  BY DEF VerifierInv, VerifierTypeOK, DriverEnds
<1>2. /\ checker' = [checker EXCEPT ![c] = x]
      /\ box' = [box EXCEPT ![c] = "ended"] /\ ran' = [ran EXCEPT ![c] = h]
      /\ UNCHANGED <<pinned, changes>> /\ holder' = holder
  BY <1>1 DEF DriverEnds
<1>3. y.req \in Request /\ y.req.publication \in BOOLEAN /\ y.sources \in BOOLEAN
  BY <1>1, VerifierAssumption DEF CheckerRecord
<1>4. /\ h \in RunRecord /\ "ended" \in BoxState
      /\ result \in [status : {"none", "verified", "blocked"}, kernel : BOOLEAN]
  BY <1>3 DEF RunRecord, BoxState, DriverChecks, DriverStatus
<1>5. x \in CheckerRecord
  <2>1. [y EXCEPT !.oom = oom, !.result = result] \in CheckerRecord
    <3> HIDE DEF result
    <3>1. QED BY <1>1, <1>4 DEF CheckerRecord
  <2>2. QED BY <1>1, <2>1
<1>6. result.status = "verified" => h.accepted /\ ~h.oom /\ (result.kernel => h.kernel)
  BY <1>3 DEF DriverStatus
<1>7. CheckerStage(x, "ended", h)
  <2>1. CASE y.pc = "run"
    <3>1. x.pc = "run" /\ x.req = y.req /\ x.verdict = y.verdict /\ x.result = result
      BY <1>1, <2>1 DEF CheckerRecord
    <3>2. QED BY <1>1, <1>6, <3>1 DEF CheckerStage, ResultHonest, Resting
  <2>2. CASE y.pc # "run"
    BY <1>1, <2>2 DEF CheckerStage, ResultHonest, Resting
  <2>3. QED BY <2>1, <2>2
<1>8. QED BY <1>1, <1>2, <1>4, <1>5, <1>7, CheckerKeeps

LEMMA BoxInspected ==
    ASSUME VerifierInv, NEW c \in Checker, NEW readable \in BOOLEAN, InspectBox(c, readable)
    PROVE  VerifierInv'
<1> DEFINE y == checker[c]
           oom == readable /\ y.oom
           x == [y EXCEPT !.pc = "cleanup",
                          !.result = IF oom THEN [status |-> "blocked", kernel |-> FALSE] ELSE @]
           h == [ran[c] EXCEPT !.oom = @ \/ oom]
<1>1. /\ y \in CheckerRecord /\ box[c] \in BoxState /\ ran[c] \in RunRecord
      /\ CheckerStage(y, box[c], ran[c]) /\ holder \in Checker \cup {NoHolder}
      /\ y.pc = "inspect"
  BY DEF VerifierInv, VerifierTypeOK, BoxState, RunRecord, InspectBox
<1>2. /\ checker' = [checker EXCEPT ![c] = x] /\ ran' = [ran EXCEPT ![c] = h]
      /\ UNCHANGED <<pinned, changes, holder, box>>
  BY <1>1 DEF InspectBox, VerifierInv, VerifierTypeOK
<1>3. /\ h \in RunRecord /\ h.accepted = ran[c].accepted /\ h.kernel = ran[c].kernel
      /\ h.oom = (ran[c].oom \/ oom)
  BY <1>1 DEF RunRecord, CheckerRecord
<1>4. /\ x \in CheckerRecord /\ x.pc = "cleanup" /\ x.req = y.req /\ x.verdict = y.verdict
      /\ ~oom => x.result = y.result
      /\ oom => x.result.status = "blocked"
  BY <1>1 DEF CheckerRecord
<1>5. CheckerStage(x, box[c], h)
  BY <1>1, <1>3, <1>4 DEF CheckerStage, ResultHonest, Resting
<1>6. QED BY <1>1, <1>2, <1>3, <1>4, <1>5, CheckerKeeps

LEMMA BoxCleaned ==
    ASSUME VerifierInv, NEW c \in Checker, NEW removed \in BOOLEAN, CleanUp(c, removed)
    PROVE  VerifierInv'
<1> DEFINE y == checker[c]
           x == [y EXCEPT !.pc = "judge", !.failed = @ \/ ~removed]
           b == IF removed THEN "none" ELSE box[c]
<1>1. /\ y \in CheckerRecord /\ box[c] \in BoxState /\ ran[c] \in RunRecord
      /\ CheckerStage(y, box[c], ran[c]) /\ y.pc = "cleanup"
  BY DEF VerifierInv, VerifierTypeOK, BoxState, RunRecord, CleanUp
<1>2. /\ checker' = [checker EXCEPT ![c] = x] /\ ran' = ran /\ holder' = NoHolder
      /\ UNCHANGED <<pinned, changes>>
      /\ box' = [box EXCEPT ![c] = b] \/ (box' = box /\ b = box[c])
  BY <1>1 DEF CleanUp, CleanupFailure
<1>3. /\ x \in CheckerRecord /\ x.pc = "judge" /\ x.req = y.req /\ x.verdict = y.verdict
      /\ x.result = y.result /\ x.failed = (y.failed \/ ~removed) /\ b \in BoxState
  BY <1>1 DEF CheckerRecord, BoxState
<1>4. CheckerStage(x, b, ran[c])
  BY <1>1, <1>3 DEF CheckerStage, ResultHonest, Resting
<1>5. NoHolder \in Checker \cup {NoHolder}
  OBVIOUS
<1>6. QED BY <1>1, <1>2, <1>3, <1>4, <1>5, CheckerKeeps

\* _verify_pinned: only a verified result of an undisturbed run gives "verified".
LEMMA CheckJudged ==
    ASSUME VerifierInv, NEW c \in Checker, Judge(c)
    PROVE  VerifierInv'
<1> DEFINE y == checker[c]
           v == Verdict(y.req, y.result, y.failed)
           x == [y EXCEPT !.pc = "free", !.verdict = v]
<1>1. /\ y \in CheckerRecord /\ box[c] \in BoxState /\ ran[c] \in RunRecord
      /\ CheckerStage(y, box[c], ran[c]) /\ holder \in Checker \cup {NoHolder} /\ y.pc = "judge"
  BY DEF VerifierInv, VerifierTypeOK, BoxState, RunRecord, Judge
<1>2. /\ checker' = [checker EXCEPT ![c] = x]
      /\ UNCHANGED <<pinned, changes, holder, box, ran>>
  BY <1>1 DEF Judge, Ends
<1>3. /\ x \in CheckerRecord /\ x.pc = "free" /\ x.req = y.req /\ x.verdict = v
      /\ x.result = y.result /\ v \in {"verified", "blocked"}
  BY <1>1 DEF CheckerRecord, Verdict
<1>4. v = "verified" => /\ ~y.failed /\ y.result.status = "verified"
                        /\ y.req.publication => y.result.kernel
  BY DEF Verdict
<1>5. Staged(y.req) /\ (y.failed \/ box[c] = "none")
  BY <1>1 DEF CheckerStage, Resting
<1>6. CheckerStage(x, box[c], ran[c])
  BY <1>1, <1>3, <1>4, <1>5 DEF CheckerStage, ResultHonest, Resting
<1>7. QED BY <1>1, <1>2, <1>3, <1>6, CheckerKeeps

LEMMA VerifierStep ==
    ASSUME VerifierInv, [VerifierNext]_verifierVars
    PROVE  VerifierInv'
<1>1. CASE UNCHANGED verifierVars
  BY <1>1 DEF verifierVars, VerifierInv, VerifierTypeOK
<1>2. ASSUME NEW f \in HostFile, ReplaceFile(f) PROVE VerifierInv'
  <2>1. /\ pinned' \in [HostFile -> BOOLEAN] /\ changes' \in 0 .. MaxChanges
        /\ UNCHANGED <<checker, holder, box, ran>>
    BY <1>2, VerifierAssumption DEF ReplaceFile, VerifierInv, VerifierTypeOK
  <2>2. QED BY <2>1 DEF VerifierInv, VerifierTypeOK
<1>3. QED
  BY <1>1, <1>2, CheckerSubmits, CheckerRuns, DriverAnswers, BoxInspected, BoxCleaned,
     CheckJudged DEF VerifierNext

\* The verification boundary, for any processes and requests: ComparatorVerifier.verify
\* answers "verified" only for a reviewed target whose bytes and bundle match, after the
\* comparator of the pinned image accepted it without a memory kill, with the independent
\* kernel for a publication, and after its container was removed.
THEOREM VerifierSafety == VerifierSpec => []VerifierSound
<1>1. VerifierInv => VerifierSound
  BY DEF VerifierInv, VerifierSound, VerifiedMeansChecked, CheckerStage, Staged, Sent
<1>2. VerifierInit => VerifierInv
  BY InitVerifier
<1>3. VerifierInv /\ [VerifierNext]_verifierVars => VerifierInv'
  BY VerifierStep
<1>4. QED BY <1>1, <1>2, <1>3, PTL DEF VerifierSpec
=============================================================================
