--------------------------- MODULE EvidenceProofs ---------------------------
(***************************************************************************)
(* Proofs about what is on record and what is decided from it: the         *)
(* commands that set an experiment up, the records agents share, the       *)
(* receipts that acceptance turns into claims, and qualification packets.  *)
(***************************************************************************)
EXTENDS Preparation, Records, Acceptance, Qualification, SequenceTheorems,
        FiniteSetTheorems, WellFoundedInduction, TLAPS
-----------------------------------------------------------------------------
(* next is recorded with the inputs that this process read, so the manifest  *)
(* it records at last agrees with all of them; and a preflight under way has *)
(* seen every approval of the target since it began.                         *)

\* What a process read when it has read everything.
FullInput == [campaign : Version, target : Version, setup : Version, source : Version]
Parts == {"campaign", "problem", "experiment"}

\* A process that issues commands has read everything, each command before its next one
\* is recorded with what it read, and a prepared run has the process's manifest.
PreparerStage(x) ==
    /\ x.pc = "plan" \/ x.pc = "source" => x.next = 1
    /\ x.pc = "source" => x.read.campaign \in Version /\ x.read.target \in Version
                          /\ x.read.setup \in Version
    /\ x.pc = "create" =>
          /\ x.read \in FullInput
          /\ \A k \in 1 .. 4 : k < x.next =>
                recorded[PrepareStep[k]] = CommandInputs(PrepareStep[k], x.read)
    /\ x.pc = "prepared" => x.read \in FullInput /\ x.read = recorded["manifest"]

ManifestAgrees ==
    recorded["manifest"] # Nothing =>
        /\ recorded["manifest"] \in FullInput
        /\ \A s \in Parts : recorded[s] = CommandInputs(s, recorded["manifest"])

\* A preflight under way has seen every approval since it began.
LauncherStage(x) ==
    /\ x.pc # "idle" /\ NowApproved => x.reviewed
    /\ x.pc = "review" /\ ~x.blocked => x.reviewed
    /\ x.pc \in {"ready", "started"} => x.reviewed

PreparationInv ==
    /\ PreparationTypeOK
    /\ \A p \in Preparer : PreparerStage(preparer[p])
    /\ ManifestAgrees
    /\ \A l \in Launcher : LauncherStage(launcher[l])

PreparerRecord == [pc : {"plan", "source", "create", "prepared", "conflict", "refused", "dead"},
                   next : 1 .. 4, read : Input]
LauncherRecord == [pc : {"idle", "problem", "review", "ready", "started", "blocked"},
                   blocked : BOOLEAN, review : 0 .. MaxDecisions, reviewed : BOOLEAN]

\* A command's inputs are never those of no command.
LEMMA CommandHasInputs ==
    ASSUME NEW r \in FullInput, NEW s \in Parts \cup {"manifest"}
    PROVE  CommandInputs(s, r) \in Input /\ CommandInputs(s, r) # Nothing
<1>1. s = "campaign" \/ s = "problem" \/ s = "experiment" \/ s = "manifest"
  BY DEF Parts
<1>2. r \in Input /\ 0 \notin Version
  BY PreparationAssumption DEF FullInput, Input
<1>3. CASE s = "campaign"
  <2>1. CommandInputs(s, r) = [Nothing EXCEPT !.campaign = r.campaign]
    BY <1>3 DEF CommandInputs
  <2>2. QED BY <2>1, <1>2 DEF FullInput, Input, Nothing
<1>4. CASE s = "problem"
  <2>1. CommandInputs(s, r) = [Nothing EXCEPT !.target = r.target, !.source = r.source]
    BY <1>4 DEF CommandInputs
  <2>2. CommandInputs(s, r) = [campaign |-> 0, target |-> r.target, setup |-> 0,
                               source |-> r.source]
    BY <2>1 DEF Nothing
  <2>3. r.target \in Version /\ r.source \in Version /\ r.target # 0
    BY <1>2 DEF FullInput
  <2>4. QED BY <2>2, <2>3 DEF Input, Nothing
<1>5. CASE s = "experiment"
  <2>1. CommandInputs(s, r) = [Nothing EXCEPT !.setup = r.setup]
    BY <1>5 DEF CommandInputs
  <2>2. QED BY <2>1, <1>2 DEF FullInput, Input, Nothing
<1>6. CASE s = "manifest"
  <2>1. CommandInputs(s, r) = r
    BY <1>6 DEF CommandInputs
  <2>2. QED BY <2>1, <1>2 DEF FullInput, Nothing
<1>7. QED BY <1>1, <1>3, <1>4, <1>5, <1>6

\* A step of one process of prepare-run that records nothing.
LEMMA PreparerMoves ==
    ASSUME PreparationInv, NEW p \in Preparer, NEW x \in PreparerRecord, PreparerStage(x),
           preparer' = [preparer EXCEPT ![p] = x],
           UNCHANGED <<disk, revisions, recorded, decisions, launcher, started>>
    PROVE  PreparationInv'
<1>1. PreparationTypeOK'
  BY DEF PreparationInv, PreparationTypeOK, PreparerRecord
<1>2. ASSUME NEW q \in Preparer PROVE PreparerStage(preparer[q])'
  <2>1. preparer'[q] = IF q = p THEN x ELSE preparer[q]
    BY DEF PreparationInv, PreparationTypeOK
  <2>2. PreparerStage(preparer'[q])
    BY <2>1 DEF PreparationInv
  <2>3. QED BY <2>2 DEF PreparerStage
<1>3. ManifestAgrees'
  BY DEF PreparationInv, ManifestAgrees
<1>4. (\A l \in Launcher : LauncherStage(launcher[l]))'
  BY DEF PreparationInv, LauncherStage, NowApproved
<1>5. QED BY <1>1, <1>2, <1>3, <1>4 DEF PreparationInv

\* A step of one launcher.
LEMMA LauncherMoves ==
    ASSUME PreparationInv, NEW l \in Launcher, NEW x \in LauncherRecord, LauncherStage(x),
           launcher' = [launcher EXCEPT ![l] = x], started' \in BOOLEAN,
           UNCHANGED <<disk, revisions, preparer, recorded, decisions>>
    PROVE  PreparationInv'
<1>1. PreparationTypeOK'
  BY DEF PreparationInv, PreparationTypeOK, LauncherRecord
<1>2. (\A p \in Preparer : PreparerStage(preparer[p]))'
  BY DEF PreparationInv, PreparerStage
<1>3. ManifestAgrees'
  BY DEF PreparationInv, ManifestAgrees
<1>4. ASSUME NEW m \in Launcher PROVE LauncherStage(launcher[m])'
  <2>1. launcher'[m] = IF m = l THEN x ELSE launcher[m]
    BY DEF PreparationInv, PreparationTypeOK
  <2>2. LauncherStage(launcher'[m])
    BY <2>1 DEF PreparationInv
  <2>3. QED BY <2>2 DEF LauncherStage, NowApproved
<1>5. QED BY <1>1, <1>2, <1>3, <1>4 DEF PreparationInv

LEMMA InitPreparation == PreparationInit => PreparationInv
<1> SUFFICES ASSUME PreparationInit PROVE PreparationInv
  OBVIOUS
<1>1. PreparationTypeOK
  <2>1. PICK v \in Version : disk = [campaign |-> v, target |-> v, setup |-> v, source |-> v]
    BY PreparationAssumption DEF PreparationInit
  <2>2. Nothing \in Input
    BY DEF Nothing, Input
  <2>3. decisions \in [1 .. 0 -> BOOLEAN] /\ 0 \in 0 .. MaxDecisions
    BY PreparationAssumption DEF PreparationInit
  <2>4. decisions \in UNION {[1 .. n -> BOOLEAN] : n \in 0 .. MaxDecisions}
    BY <2>3
  <2>5. NewLauncher \in LauncherRecord
    BY PreparationAssumption DEF NewLauncher, LauncherRecord
  <2>6. launcher \in [Launcher -> LauncherRecord]
    BY <2>5 DEF PreparationInit
  <2>7. preparer \in [Preparer -> PreparerRecord]
    BY <2>2 DEF PreparationInit, PreparerRecord
  <2>8. recorded \in [{"campaign", "problem", "experiment", "manifest"} -> Input]
    BY <2>2 DEF PreparationInit
  <2>9. disk \in [campaign : Version, target : Version, setup : Version, source : Version]
    BY <2>1
  <2>10. revisions \in 0 .. MaxRevisions
    BY PreparationAssumption DEF PreparationInit
  <2>11. started \in BOOLEAN
    BY DEF PreparationInit
  <2>12. QED
    BY <2>4, <2>6, <2>7, <2>8, <2>9, <2>10, <2>11
    DEF PreparationTypeOK, LauncherRecord, PreparerRecord
<1>2. \A p \in Preparer : PreparerStage(preparer[p])
  BY DEF PreparationInit, PreparerStage
<1>3. ManifestAgrees
  BY DEF PreparationInit, ManifestAgrees
<1>4. \A l \in Launcher : LauncherStage(launcher[l])
  BY DEF PreparationInit, LauncherStage, NewLauncher
<1>5. QED BY <1>1, <1>2, <1>3, <1>4 DEF PreparationInv

\* The operator edits a file; what was read stands.
LEMMA Revised ==
    ASSUME PreparationInv, NEW part \in {"campaign", "target", "setup", "source"},
           NEW v \in Version, Revise(part, v)
    PROVE  PreparationInv'
<1>1. PreparationTypeOK'
  <2>1. disk \in [campaign : Version, target : Version, setup : Version, source : Version]
    BY DEF PreparationInv, PreparationTypeOK
  <2>2. disk' \in [campaign : Version, target : Version, setup : Version, source : Version]
    BY <2>1 DEF Revise
  <2>3. revisions' \in 0 .. MaxRevisions
    BY PreparationAssumption DEF PreparationInv, PreparationTypeOK, Revise
  <2>4. QED BY <2>2, <2>3 DEF PreparationInv, PreparationTypeOK, Revise
<1>2. QED
  BY <1>1 DEF PreparationInv, Revise, PreparerStage, ManifestAgrees, LauncherStage, NowApproved

LEMMA PlanRead ==
    ASSUME PreparationInv, NEW p \in Preparer, NEW valid \in BOOLEAN, ReadPlan(p, valid)
    PROVE  PreparationInv'
<1> DEFINE r == [disk EXCEPT !.source = 0]
           x == [preparer[p] EXCEPT !.pc = IF valid THEN "source" ELSE "refused", !.read = r]
<1>1. r \in Input /\ r.campaign \in Version /\ r.target \in Version /\ r.setup \in Version
  BY DEF PreparationInv, PreparationTypeOK, Input
<1>2. preparer[p] \in PreparerRecord /\ preparer[p].next = 1
  BY DEF PreparationInv, PreparationTypeOK, PreparerRecord, PreparerStage, ReadPlan
<1>3. x \in PreparerRecord /\ x.next = 1 /\ x.read = r /\ x.pc \in {"source", "refused"}
  BY <1>1, <1>2 DEF PreparerRecord
<1>4. preparer' = [preparer EXCEPT ![p] = x]
  BY DEF ReadPlan
<1> HIDE DEF r, x
<1>5. PreparerStage(x)
  BY <1>1, <1>3 DEF PreparerStage
<1>6. QED BY <1>3, <1>4, <1>5, PreparerMoves DEF ReadPlan

LEMMA InputRead ==
    ASSUME PreparationInv, NEW p \in Preparer, NEW valid \in BOOLEAN, ReadInput(p, valid)
    PROVE  PreparationInv'
<1> DEFINE r == [preparer[p].read EXCEPT !.source = disk.source]
           x == [preparer[p] EXCEPT !.pc = IF valid THEN "create" ELSE "refused", !.read = r]
<1>1. preparer[p] \in PreparerRecord /\ preparer[p].next = 1 /\ preparer[p].read \in Input
  BY DEF PreparationInv, PreparationTypeOK, PreparerRecord, PreparerStage, ReadInput
<1>2. r \in FullInput /\ r \in Input
  BY <1>1 DEF PreparationInv, PreparationTypeOK, PreparerStage, ReadInput, FullInput, Input
<1>3. x \in PreparerRecord /\ x.next = 1 /\ x.read = r /\ x.pc \in {"create", "refused"}
  BY <1>1, <1>2 DEF PreparerRecord
<1>4. preparer' = [preparer EXCEPT ![p] = x]
  BY DEF ReadInput
<1> HIDE DEF r, x
<1>5. PreparerStage(x)
  BY <1>2, <1>3 DEF PreparerStage
<1>6. QED BY <1>3, <1>4, <1>5, PreparerMoves DEF ReadInput

LEMMA PreparerEnds ==
    ASSUME PreparationInv, NEW p \in Preparer, NEW pc \in {"dead", "conflict"},
           preparer' = [preparer EXCEPT ![p].pc = pc],
           UNCHANGED <<disk, revisions, recorded, decisions, launcher, started>>
    PROVE  PreparationInv'
<1> DEFINE x == [preparer[p] EXCEPT !.pc = pc]
<1>1. preparer[p] \in PreparerRecord
  BY DEF PreparationInv, PreparationTypeOK, PreparerRecord
<1>2. x \in PreparerRecord /\ x.pc \in {"dead", "conflict"}
  BY <1>1 DEF PreparerRecord
<1>3. preparer' = [preparer EXCEPT ![p] = x]
  OBVIOUS
<1> HIDE DEF x
<1>4. PreparerStage(x)
  BY <1>2 DEF PreparerStage
<1>5. QED BY <1>2, <1>3, <1>4, PreparerMoves

\* A command is recorded once, so it is answered with the inputs of all who issued it.
LEMMA CommandIssued ==
    ASSUME PreparationInv, NEW p \in Preparer, IssueCommand(p)
    PROVE  PreparationInv'
<1> DEFINE old == preparer[p]
           cmd == PrepareStep[old.next]
           read == old.read
           inputs == CommandInputs(cmd, read)
<1>1. old \in PreparerRecord /\ old.pc = "create" /\ read \in FullInput /\ old.next \in 1 .. 4
  BY DEF PreparationInv, PreparationTypeOK, PreparerRecord, PreparerStage, IssueCommand
<1>2. /\ cmd \in Parts \cup {"manifest"}
      /\ cmd = "manifest" <=> old.next = 4
      /\ \A s \in Parts \cup {"manifest"} : \E k \in 1 .. 4 : s = PrepareStep[k]
      /\ \A s \in Parts : \E k \in 1 .. 3 : s = PrepareStep[k]
      /\ \A j, k \in 1 .. 4 : PrepareStep[j] = PrepareStep[k] => j = k
  <2>1. /\ PrepareStep[1] = "campaign" /\ PrepareStep[2] = "problem"
        /\ PrepareStep[3] = "experiment" /\ PrepareStep[4] = "manifest"
    BY DEF PrepareStep
  <2>2. old.next = 1 \/ old.next = 2 \/ old.next = 3 \/ old.next = 4
    BY <1>1
  <2>3. QED BY <2>1, <2>2 DEF Parts
<1>3. inputs \in Input /\ inputs # Nothing
  BY <1>1, <1>2, CommandHasInputs
<1>4. CASE ~SameInputs(cmd, read)
  BY <1>4, PreparerEnds DEF IssueCommand
<1>5. CASE SameInputs(cmd, read)
  <2> DEFINE x == IF cmd = "manifest" THEN [old EXCEPT !.pc = "prepared"]
                  ELSE [old EXCEPT !.next = @ + 1]
  <2>1. recorded \in [Parts \cup {"manifest"} -> Input]
    BY DEF PreparationInv, PreparationTypeOK, Parts
  <2>2. /\ recorded' = [recorded EXCEPT ![cmd] = IF @ = Nothing THEN inputs ELSE @]
        /\ recorded[cmd] \in {Nothing, inputs}
        /\ UNCHANGED <<disk, revisions, decisions, launcher, started>>
    BY <1>5 DEF IssueCommand, SameInputs
  <2>3. /\ recorded' \in [Parts \cup {"manifest"} -> Input] /\ recorded'[cmd] = inputs
        /\ \A s \in Parts \cup {"manifest"} : s # cmd => recorded'[s] = recorded[s]
        /\ \A s \in Parts \cup {"manifest"} :
              recorded[s] # Nothing => recorded'[s] = recorded[s]
    BY <1>2, <1>3, <2>1, <2>2
  <2>4. /\ x \in PreparerRecord /\ x.read = read
        /\ cmd = "manifest" => x.pc = "prepared" /\ x.next = old.next
        /\ cmd # "manifest" => x.pc = "create" /\ x.next = old.next + 1
    BY <1>1, <1>2 DEF PreparerRecord
  <2>5. preparer' = [preparer EXCEPT ![p] = x]
    BY <1>5 DEF IssueCommand
  <2> HIDE DEF x
  <2>6. \A q \in Preparer : preparer'[q] = IF q = p THEN x ELSE preparer[q]
    BY <2>5 DEF PreparationInv, PreparationTypeOK
  <2>7. PreparationTypeOK'
    BY <2>2, <2>3, <2>4, <2>5 DEF PreparationInv, PreparationTypeOK, PreparerRecord, Parts
  <2>8. \A k \in 1 .. 4 : k < old.next =>
           recorded[PrepareStep[k]] = CommandInputs(PrepareStep[k], read)
    BY <1>1 DEF PreparationInv, PreparerStage
  <2>9. ASSUME NEW y \in PreparerRecord, y.pc = "create" \/ y.pc = "prepared",
               PreparerStage(y)
        PROVE  /\ y.pc = "prepared" => y.read = recorded'["manifest"]
               /\ y.pc = "create" => \A k \in 1 .. 4 : k < y.next =>
                      recorded'[PrepareStep[k]] = CommandInputs(PrepareStep[k], y.read)
    <3>1. CASE y.pc = "prepared"
      <4>1. y.read \in FullInput /\ y.read = recorded["manifest"]
        BY <3>1, <2>9 DEF PreparerStage
      <4>2. recorded["manifest"] # Nothing
        BY <4>1, PreparationAssumption DEF FullInput, Nothing
      <4>3. QED BY <3>1, <4>1, <4>2, <2>3
    <3>2. CASE y.pc = "create"
      <4>1. ASSUME NEW k \in 1 .. 4, k < y.next
            PROVE  recorded'[PrepareStep[k]] = CommandInputs(PrepareStep[k], y.read)
        <5>1. y.read \in FullInput /\ recorded[PrepareStep[k]] = CommandInputs(PrepareStep[k], y.read)
          BY <3>2, <4>1, <2>9 DEF PreparerStage
        <5>2. PrepareStep[k] \in Parts \cup {"manifest"}
          BY DEF PrepareStep, Parts
        <5>3. QED BY <5>1, <5>2, <2>3, CommandHasInputs
      <4>2. QED BY <3>2, <4>1
    <3>3. QED BY <2>9, <3>1, <3>2
  <2>10. ASSUME NEW q \in Preparer PROVE PreparerStage(preparer[q])'
    <3>1. PreparerStage(preparer[q]) /\ preparer[q] \in PreparerRecord
      BY DEF PreparationInv, PreparationTypeOK, PreparerRecord
    <3>2. CASE q # p
      <4>1. preparer'[q] = preparer[q]
        BY <2>6, <3>2
      <4>2. QED BY <2>9, <3>1, <4>1 DEF PreparerStage
    <3>3. CASE q = p
      <4>1. preparer'[q] = x
        BY <2>6, <3>3
      <4>2. CASE cmd = "manifest"
        <5>1. inputs = read
          BY <4>2 DEF CommandInputs
        <5>2. x.pc = "prepared" /\ x.read = read /\ recorded'["manifest"] = read
          BY <2>3, <2>4, <4>2, <5>1
        <5>3. QED BY <1>1, <4>1, <5>2 DEF PreparerStage
      <4>3. CASE cmd # "manifest"
        <5>1. x.pc = "create" /\ x.read = read /\ x.next = old.next + 1
          BY <2>4, <4>3
        <5>2. ASSUME NEW k \in 1 .. 4, k < x.next
              PROVE  recorded'[PrepareStep[k]] = CommandInputs(PrepareStep[k], read)
          <6>1. CASE k = old.next
            BY <2>3, <6>1
          <6>2. CASE k # old.next
            <7>1. k < old.next
              BY <1>1, <5>1, <5>2, <6>2
            <7>2. recorded[PrepareStep[k]] = CommandInputs(PrepareStep[k], read)
              BY <2>8, <7>1
            <7>3. PrepareStep[k] \in Parts \cup {"manifest"}
              BY DEF PrepareStep, Parts
            <7>4. QED BY <1>1, <7>2, <7>3, <2>3, CommandHasInputs
          <6>3. QED BY <6>1, <6>2
        <5>3. QED BY <1>1, <4>1, <5>1, <5>2 DEF PreparerStage
      <4>4. QED BY <4>2, <4>3
    <3>4. QED BY <3>2, <3>3
  <2>11. ManifestAgrees'
    <3>1. CASE recorded["manifest"] # Nothing
      <4>1. recorded'["manifest"] = recorded["manifest"] /\ recorded["manifest"] \in FullInput
        BY <2>3, <3>1 DEF PreparationInv, ManifestAgrees
      <4>2. ASSUME NEW s \in Parts
            PROVE  recorded'[s] = CommandInputs(s, recorded["manifest"])
        <5>1. recorded[s] = CommandInputs(s, recorded["manifest"])
          BY <3>1 DEF PreparationInv, ManifestAgrees
        <5>2. recorded[s] # Nothing
          BY <4>1, <5>1, CommandHasInputs
        <5>3. QED BY <2>3, <5>1, <5>2
      <4>3. QED BY <4>1, <4>2 DEF ManifestAgrees
    <3>2. CASE recorded["manifest"] = Nothing /\ cmd # "manifest"
      BY <2>3, <3>2 DEF ManifestAgrees
    <3>3. CASE recorded["manifest"] = Nothing /\ cmd = "manifest"
      <4>1. recorded'["manifest"] = read /\ old.next = 4
        BY <1>2, <2>3, <3>3 DEF CommandInputs
      <4>2. ASSUME NEW s \in Parts PROVE recorded'[s] = CommandInputs(s, read)
        <5>1. PICK k \in 1 .. 3 : s = PrepareStep[k]
          BY <1>2
        <5>2. recorded[s] = CommandInputs(s, read)
          BY <2>8, <4>1, <5>1
        <5>3. recorded[s] # Nothing
          BY <1>1, <5>2, CommandHasInputs
        <5>4. QED BY <2>3, <5>2, <5>3
      <4>3. QED BY <1>1, <4>1, <4>2 DEF ManifestAgrees
    <3>4. QED BY <3>1, <3>2, <3>3
  <2>12. (\A l \in Launcher : LauncherStage(launcher[l]))'
    BY <2>2 DEF PreparationInv, LauncherStage, NowApproved
  <2>13. QED BY <2>7, <2>10, <2>11, <2>12 DEF PreparationInv
<1>6. QED BY <1>4, <1>5

\* Reviews are a sequence with at most MaxDecisions members.
LEMMA DecisionsAreSequence ==
    ASSUME PreparationTypeOK
    PROVE  decisions \in Seq(BOOLEAN) /\ Len(decisions) \in 0 .. MaxDecisions
<1>1. PICK n \in 0 .. MaxDecisions : decisions \in [1 .. n -> BOOLEAN]
  BY DEF PreparationTypeOK
<1>2. n \in Nat
  BY PreparationAssumption
<1>3. decisions \in Seq(BOOLEAN) /\ Len(decisions) = n
  BY <1>1, <1>2
<1>4. QED BY <1>3

\* A review is appended, and a preflight under way remembers an approval.
LEMMA TargetReviewed ==
    ASSUME PreparationInv, NEW approve \in BOOLEAN, ReviewTarget(approve)
    PROVE  PreparationInv'
<1>1. decisions \in Seq(BOOLEAN) /\ Len(decisions) \in 0 .. MaxDecisions
  BY DecisionsAreSequence DEF PreparationInv
<1>2. decisions' = Append(decisions, approve) /\ Len(decisions) < MaxDecisions
  BY DEF ReviewTarget
<1>3. /\ decisions' \in Seq(BOOLEAN) /\ Len(decisions') = Len(decisions) + 1
      /\ decisions'[Len(decisions')] = approve /\ decisions' # <<>>
  BY <1>1, <1>2, AppendProperties
<1>4. Len(decisions) + 1 \in 0 .. MaxDecisions
  BY <1>1, <1>2, PreparationAssumption
<1>5. decisions' \in UNION {[1 .. n -> BOOLEAN] : n \in 0 .. MaxDecisions}
  <2>1. decisions' \in [1 .. Len(decisions) + 1 -> BOOLEAN]
    BY <1>3, LenProperties
  <2>2. QED BY <1>4, <2>1
<1>6. ASSUME NEW l \in Launcher
      PROVE  /\ launcher'[l] \in LauncherRecord
             /\ launcher'[l].pc = launcher[l].pc /\ launcher'[l].blocked = launcher[l].blocked
             /\ launcher'[l].reviewed = (launcher[l].reviewed
                                           \/ (approve /\ launcher[l].pc # "idle"))
  BY DEF PreparationInv, PreparationTypeOK, LauncherRecord, ReviewTarget
<1>7. launcher' \in [Launcher -> LauncherRecord]
  BY <1>6 DEF ReviewTarget
<1>8. PreparationTypeOK'
  BY <1>5, <1>7 DEF PreparationInv, PreparationTypeOK, ReviewTarget, LauncherRecord
<1>9. (NowApproved)' = approve
  BY <1>3 DEF NowApproved
<1>10. ASSUME NEW l \in Launcher PROVE LauncherStage(launcher[l])'
  <2>1. LauncherStage(launcher[l])
    BY DEF PreparationInv
  <2>2. QED BY <1>6, <1>9, <2>1 DEF LauncherStage
<1>11. (\A p \in Preparer : PreparerStage(preparer[p]))' /\ ManifestAgrees'
  BY DEF PreparationInv, PreparerStage, ManifestAgrees, ReviewTarget
<1>12. QED BY <1>8, <1>10, <1>11 DEF PreparationInv

LEMMA PreflightBegins ==
    ASSUME PreparationInv, NEW l \in Launcher, NEW blocked \in BOOLEAN,
           BeginPreflight(l, blocked)
    PROVE  PreparationInv'
<1> DEFINE x == [pc |-> "problem", blocked |-> blocked, review |-> 0, reviewed |-> NowApproved]
<1>1. NowApproved \in BOOLEAN
  <2>1. decisions \in Seq(BOOLEAN)
    BY DecisionsAreSequence DEF PreparationInv
  <2>2. CASE decisions # <<>>
    <3>1. Len(decisions) \in 1 .. Len(decisions)
      BY <2>1, <2>2, EmptySeq
    <3>2. decisions[Len(decisions)] \in BOOLEAN
      BY <2>1, <3>1
    <3>3. QED BY <2>2, <3>2 DEF NowApproved
  <2>3. QED BY <2>2 DEF NowApproved
<1>2. x \in LauncherRecord
  BY <1>1, PreparationAssumption DEF LauncherRecord
<1>3. LauncherStage(x)
  BY DEF LauncherStage
<1>4. launcher' = [launcher EXCEPT ![l] = x] /\ started' \in BOOLEAN
  BY DEF BeginPreflight, PreparationInv, PreparationTypeOK
<1> HIDE DEF x
<1>5. QED BY <1>2, <1>3, <1>4, LauncherMoves DEF BeginPreflight

LEMMA TargetRead ==
    ASSUME PreparationInv, NEW l \in Launcher, ReadTarget(l)
    PROVE  PreparationInv'
<1> DEFINE x == [launcher[l] EXCEPT !.pc = "review", !.blocked = @ \/ ~NowApproved,
                                    !.review = Len(decisions)]
<1>1. launcher[l] \in LauncherRecord /\ LauncherStage(launcher[l])
      /\ Len(decisions) \in 0 .. MaxDecisions
  BY DecisionsAreSequence DEF PreparationInv, PreparationTypeOK, LauncherRecord
<1>2. /\ x \in LauncherRecord /\ x.pc = "review" /\ x.reviewed = launcher[l].reviewed
      /\ x.blocked = (launcher[l].blocked \/ ~NowApproved)
  BY <1>1 DEF LauncherRecord
<1>3. launcher' = [launcher EXCEPT ![l] = x] /\ started' \in BOOLEAN
  BY DEF ReadTarget, PreparationInv, PreparationTypeOK
<1> HIDE DEF x
<1>4. LauncherStage(x)
  BY <1>1, <1>2 DEF LauncherStage, ReadTarget
<1>5. QED BY <1>2, <1>3, <1>4, LauncherMoves DEF ReadTarget

LEMMA ReviewRead ==
    ASSUME PreparationInv, NEW l \in Launcher, ReadReview(l)
    PROVE  PreparationInv'
<1> DEFINE ok == ~launcher[l].blocked /\ decisions[launcher[l].review]
           x == [launcher[l] EXCEPT !.pc = IF ok THEN "ready" ELSE "blocked"]
<1>1. launcher[l] \in LauncherRecord /\ LauncherStage(launcher[l])
  BY DEF PreparationInv, PreparationTypeOK, LauncherRecord
<1>2. /\ x \in LauncherRecord /\ x.reviewed = launcher[l].reviewed
      /\ (x.pc = "ready" /\ ~launcher[l].blocked) \/ x.pc = "blocked"
  BY <1>1 DEF LauncherRecord
<1>3. launcher' = [launcher EXCEPT ![l] = x] /\ started' \in BOOLEAN
  BY DEF ReadReview, PreparationInv, PreparationTypeOK
<1> HIDE DEF x
<1>4. LauncherStage(x)
  BY <1>1, <1>2 DEF LauncherStage, ReadReview
<1>5. QED BY <1>2, <1>3, <1>4, LauncherMoves DEF ReadReview

LEMMA ExperimentStarted ==
    ASSUME PreparationInv, NEW l \in Launcher, StartExperiment(l)
    PROVE  PreparationInv'
<1>1. launcher[l] \in LauncherRecord /\ LauncherStage(launcher[l])
  BY DEF PreparationInv, PreparationTypeOK, LauncherRecord
<1>2. PICK pc \in {"started", "blocked"} : launcher' = [launcher EXCEPT ![l].pc = pc]
  BY DEF StartExperiment
<1> DEFINE x == [launcher[l] EXCEPT !.pc = pc]
<1>3. x \in LauncherRecord /\ x.reviewed = launcher[l].reviewed /\ x.pc = pc
  BY <1>1 DEF LauncherRecord
<1>4. launcher' = [launcher EXCEPT ![l] = x] /\ started' \in BOOLEAN
  BY <1>2 DEF StartExperiment, PreparationInv, PreparationTypeOK
<1> HIDE DEF x
<1>5. LauncherStage(x)
  BY <1>1, <1>3 DEF LauncherStage, StartExperiment
<1>6. QED BY <1>3, <1>4, <1>5, LauncherMoves DEF StartExperiment

\* Every step keeps the invariant.
LEMMA PreparationStep == PreparationInv /\ [PreparationNext]_prepareVars => PreparationInv'
<1> SUFFICES ASSUME PreparationInv, [PreparationNext]_prepareVars PROVE PreparationInv'
  OBVIOUS
<1>1. CASE UNCHANGED prepareVars
  BY <1>1
  DEF prepareVars, PreparationInv, PreparationTypeOK, PreparerStage, ManifestAgrees,
      LauncherStage, NowApproved
<1>2. CASE \E part \in {"campaign", "target", "setup", "source"}, v \in Version : Revise(part, v)
  BY <1>2, Revised
<1>3. ASSUME NEW p \in Preparer, IssueCommand(p) \/ PreparerDies(p) \/
             \E valid \in BOOLEAN : ReadPlan(p, valid) \/ ReadInput(p, valid)
      PROVE  PreparationInv'
  <2>1. ASSUME PreparerDies(p) PROVE PreparationInv'
    BY <2>1, PreparerEnds DEF PreparerDies
  <2>2. QED BY <1>3, <2>1, CommandIssued, PlanRead, InputRead
<1>4. CASE \E approve \in BOOLEAN : ReviewTarget(approve)
  BY <1>4, TargetReviewed
<1>5. ASSUME NEW l \in Launcher, ReadTarget(l) \/ ReadReview(l) \/ StartExperiment(l) \/
             \E blocked \in BOOLEAN : BeginPreflight(l, blocked)
      PROVE  PreparationInv'
  BY <1>5, TargetRead, ReviewRead, ExperimentStarted, PreflightBegins
<1>6. QED BY <1>1, <1>2, <1>3, <1>4, <1>5 DEF PreparationNext

\* What the run `running' checks of prepare_run and run_preflight, for any processes,
\* edits and reviews.
THEOREM PreparationSafety == PreparationSpec => []PreparationSound
<1>1. PreparationInv => PreparationSound
  BY DEF PreparationInv, PreparationSound, PreparedTogether, ManifestAgrees, Parts,
         PreparerStage, ReadyWasReviewed, LauncherStage
<1>2. QED BY <1>1, InitPreparation, PreparationStep, PTL DEF PreparationSpec
-----------------------------------------------------------------------------
(* listed, up to its position, what its agent could read since it began.     *)

\* The least and the largest of finitely many numbers.
LEMMA LeastNumber ==
    ASSUME NEW S \in SUBSET Nat, S # {}
    PROVE  \E x \in S : \A y \in S : x =< y
<1> DEFINE R == OpToRel(<, Nat)
<1>1. IsWellFoundedOn(R, Nat)
  BY NatLessThanWellFounded
<1>2. \A x, y \in Nat : <<x, y>> \in R <=> x < y
  BY DEF OpToRel
<1> HIDE DEF R
<1>3. PICK x \in S : \A y \in S : ~ (<<y, x>> \in R)
  BY <1>1, WFMin
<1>4. \A y \in S : ~ (y < x) /\ y \in Nat /\ x \in Nat
  BY <1>2, <1>3
<1>5. QED BY <1>4

LEMMA LargestNumber ==
    ASSUME NEW S \in SUBSET Nat, S # {}, IsFiniteSet(S)
    PROVE  Max(S) \in S /\ \A y \in S : y =< Max(S)
<1> DEFINE Above(i) == {j \in S : j > i}
           C == {Cardinality(Above(i)) : i \in S}
<1>1. \A i \in S : IsFiniteSet(Above(i)) /\ Cardinality(Above(i)) \in Nat
  BY FS_Subset, FS_CardinalityType
<1>2. C \in SUBSET Nat /\ C # {}
  BY <1>1
<1>3. PICK n \in C : \A c \in C : n =< c
  BY <1>2, LeastNumber
<1>4. PICK m \in S : n = Cardinality(Above(m))
  OBVIOUS
<1>5. ASSUME NEW j \in S, j > m PROVE FALSE
  <2>1. m \in Nat /\ j \in Nat /\ \A k \in S : k \in Nat /\ (k > j => k > m) /\ ~(j > j)
    BY <1>5
  <2>2. Above(j) \in SUBSET Above(m) /\ j \in Above(m) /\ j \notin Above(j)
    BY <1>5, <2>1
  <2>3. Cardinality(Above(j)) =< Cardinality(Above(m)) /\ Above(j) # Above(m)
    BY <1>1, <2>2, FS_Subset
  <2>4. Cardinality(Above(j)) # Cardinality(Above(m))
    BY <1>1, <2>2, <2>3, FS_Subset
  <2>5. Cardinality(Above(j)) \in C
    OBVIOUS
  <2>6. n =< Cardinality(Above(j))
    BY <1>3, <2>5
  <2>7. Cardinality(Above(j)) \in Nat /\ n \in Nat
    BY <1>1, <1>4
  <2>8. QED BY <1>4, <2>3, <2>4, <2>6, <2>7
<1>6. \A j \in S : m >= j
  BY <1>5
<1>7. Max(S) \in S /\ \A y \in S : Max(S) >= y
  BY <1>6 DEF Max
<1>8. QED BY <1>7

RecordType == [kind : RecordKind \cup {"none"}, branch : RecBranch \cup {NoBranch},
               author : RecBranch \cup {NoBranch}, to : RecBranch \cup {NoBranch},
               refs : SUBSET RecId, review : 0 .. MaxDecided]
ScanType == [pc : {"idle", "reading", "listed"}, kind : RecordKind, position : RecId \cup {0},
             items : SUBSET RecId, steady : SUBSET RecId]

\* A record belongs to the branch of its author; an artifact has one, a trusted input none.
Attributed(row) ==
    /\ row.branch = row.author
    /\ row.kind = "input" => row.author = NoBranch
    /\ row.kind = "artifact" => row.author # NoBranch
    /\ row.kind = "none" => row = NoRecord

\* A scan has listed what its agent could read throughout, up to its position.
ScanCovers(x) ==
    x.pc # "idle" =>
        \A i \in x.steady :
            /\ record[i].kind = x.kind
            /\ x.pc = "listed" \/ i =< x.position => i \in x.items

RecordsInv ==
    /\ RecordsTypeOK
    /\ \A i \in RecId : Attributed(record[i])
    /\ \A b \in Lister : ScanCovers(listing[b])

LEMMA InitRecords == RecordsInit => RecordsInv
<1> SUFFICES ASSUME RecordsInit PROVE RecordsInv
  OBVIOUS
<1>1. NoRecord \in RecordType /\ NoScan \in ScanType
  BY RecordsAssumption DEF NoRecord, RecordType, NoScan, ScanType, RecordKind
<1>2. RecordsTypeOK
  BY <1>1, RecordsAssumption DEF RecordsInit, RecordsTypeOK, RecordType, ScanType
<1>3. \A i \in RecId : Attributed(record[i])
  BY DEF RecordsInit, Attributed, NoRecord
<1>4. \A b \in Lister : ScanCovers(listing[b])
  BY DEF RecordsInit, ScanCovers, NoScan
<1>5. QED BY <1>2, <1>3, <1>4 DEF RecordsInv

\* A new record takes a free id; what scans follow stays as it is.
LEMMA RecordInserted ==
    ASSUME RecordsInv, NEW i \in RecId, NEW row \in RecordType, record[i] = NoRecord,
           Attributed(row), record' = [record EXCEPT ![i] = row],
           UNCHANGED <<sharing, approval, listing>>
    PROVE  RecordsInv'
<1>1. RecordsTypeOK'
  BY DEF RecordsInv, RecordsTypeOK, RecordType
<1>2. \A k \in RecId : record'[k] = IF k = i THEN row ELSE record[k]
  BY DEF RecordsInv, RecordsTypeOK
<1>3. (\A k \in RecId : Attributed(record[k]))'
  BY <1>2 DEF RecordsInv, Attributed
<1>4. ASSUME NEW b \in Lister PROVE ScanCovers(listing[b])'
  <2>1. listing' = listing /\ ScanCovers(listing[b]) /\ listing[b] \in ScanType
    BY DEF RecordsInv, RecordsTypeOK, ScanType
  <2>2. ASSUME NEW k \in listing[b].steady, listing[b].pc # "idle"
        PROVE  record'[k].kind = listing[b].kind
    <3>1. k \in RecId /\ record[k].kind = listing[b].kind /\ listing[b].kind \in RecordKind
      BY <2>1, <2>2 DEF ScanCovers, ScanType
    <3>2. k # i
      BY <3>1 DEF NoRecord, RecordKind
    <3>3. QED BY <1>2, <3>1, <3>2
  <2>3. QED BY <2>1, <2>2 DEF ScanCovers
<1>5. QED BY <1>1, <1>3, <1>4 DEF RecordsInv

LEMMA AgentInserts ==
    ASSUME RecordsInv, NEW b \in RecBranch, NEW i \in RecId, NEW kind \in RecordKind,
           NEW to \in RecBranch \cup {NoBranch}, NEW refs \in SUBSET RecId,
           AgentInsert(b, i, kind, to, refs)
    PROVE  RecordsInv'
<1> DEFINE row == [kind |-> kind, branch |-> b, author |-> b, to |-> to, refs |-> refs,
                   review |-> 0]
<1>1. row \in RecordType
  BY RecordsAssumption DEF RecordType
<1>2. Attributed(row)
  BY RecordsAssumption DEF Attributed, AgentInsert
<1>3. record[i] = NoRecord /\ record' = [record EXCEPT ![i] = row]
  BY DEF AgentInsert
<1> HIDE DEF row
<1>4. QED BY <1>1, <1>2, <1>3, RecordInserted DEF AgentInsert

\* A receipt is the record of the branch whose artifact it verifies.
LEMMA ControllerInserts ==
    ASSUME RecordsInv, NEW i \in RecId, NEW kind \in RecordKind,
           NEW declared \in RecBranch \cup {NoBranch}, NEW a \in RecId,
           ControllerInsert(i, kind, declared, a)
    PROVE  RecordsInv'
<1> DEFINE linked == IF kind = "receipt" THEN record[a].branch ELSE NoBranch
           branch == ControllerBranch(declared, linked)
           author == IF kind = "receipt" THEN record[a].author ELSE declared
           refs == IF kind = "receipt" THEN {a} ELSE {}
           review == IF kind = "receipt" THEN approval.number ELSE 0
           row == [NoRecord EXCEPT !.kind = kind, !.branch = branch, !.author = author,
                                   !.refs = refs, !.review = review]
<1>1. record[a] \in RecordType /\ Attributed(record[a]) /\ approval.number \in 0 .. MaxDecided
  BY DEF RecordsInv, RecordsTypeOK, RecordType
<1>2. branch = author /\ author \in RecBranch \cup {NoBranch}
  <2>1. CASE kind = "receipt"
    <3>1. record[a].branch = record[a].author /\ record[a].author # NoBranch
      BY <1>1, <2>1 DEF ControllerInsert, Attributed
    <3>2. declared = NoBranch \/ declared = record[a].branch
      BY <2>1, <3>1 DEF ControllerInsert
    <3>3. QED BY <1>1, <2>1, <3>1, <3>2 DEF ControllerBranch, RecordType
  <2>2. CASE kind # "receipt"
    BY <2>2 DEF ControllerBranch
  <2>3. QED BY <2>1, <2>2
<1>3. refs \in SUBSET RecId /\ review \in 0 .. MaxDecided
  BY <1>1, RecordsAssumption
<1>4. kind \in {"receipt", "checkpoint", "private"}
  BY DEF ControllerInsert
<1>5. record[i] = NoRecord /\ record' = [record EXCEPT ![i] = row]
  BY DEF ControllerInsert
<1> HIDE DEF branch, author, refs, review
<1>6. /\ row.kind = kind /\ row.branch = branch /\ row.author = author
      /\ row \in RecordType
  BY <1>2, <1>3 DEF NoRecord, RecordType
<1>7. Attributed(row)
  BY <1>2, <1>4, <1>6 DEF Attributed
<1> HIDE DEF row
<1>8. QED BY <1>5, <1>6, <1>7, RecordInserted DEF ControllerInsert

LEMMA InputTrusted ==
    ASSUME RecordsInv, NEW i \in RecId, TrustedInput(i)
    PROVE  RecordsInv'
<1> DEFINE row == [NoRecord EXCEPT !.kind = "input"]
<1>1. row \in RecordType
  BY RecordsAssumption DEF RecordType, NoRecord, RecordKind
<1>2. Attributed(row)
  BY DEF Attributed, NoRecord
<1>3. record[i] = NoRecord /\ record' = [record EXCEPT ![i] = row]
  BY DEF TrustedInput
<1> HIDE DEF row
<1>4. QED BY <1>1, <1>2, <1>3, RecordInserted DEF TrustedInput

LEMMA TargetDecided ==
    ASSUME RecordsInv, NEW approved \in BOOLEAN, DecideTarget(approved)
    PROVE  RecordsInv'
<1>1. approval' \in [number : 0 .. MaxDecided, approved : BOOLEAN]
  BY RecordsAssumption DEF RecordsInv, RecordsTypeOK, DecideTarget
<1>2. QED
  BY <1>1 DEF RecordsInv, RecordsTypeOK, DecideTarget, Attributed, ScanCovers

\* A step of one scan.
LEMMA ScanMoves ==
    ASSUME RecordsInv, NEW b \in Lister, NEW x \in ScanType, ScanCovers(x),
           listing' = [listing EXCEPT ![b] = x], UNCHANGED <<sharing, record, approval>>
    PROVE  RecordsInv'
<1>1. RecordsTypeOK'
  BY DEF RecordsInv, RecordsTypeOK, ScanType
<1>2. \A c \in Lister : listing'[c] = IF c = b THEN x ELSE listing[c]
  BY DEF RecordsInv, RecordsTypeOK
<1>3. QED BY <1>1, <1>2 DEF RecordsInv, ScanCovers, Attributed

LEMMA ScanStarts ==
    ASSUME RecordsInv, NEW b \in Lister, NEW kind \in ListedKind, StartScan(b, kind)
    PROVE  RecordsInv'
<1> DEFINE steady == {i \in RecId : record[i].kind = kind /\ InScope(b, i)}
           x == [NoScan EXCEPT !.pc = "reading", !.kind = kind, !.steady = steady]
<1>1. /\ x \in ScanType /\ x.steady = steady /\ x.kind = kind /\ x.position = 0
      /\ x.pc = "reading"
  BY RecordsAssumption DEF NoScan, ScanType
<1>2. \A i \in steady : record[i].kind = kind /\ ~(i =< 0)
  BY RecordsAssumption
<1>3. listing' = [listing EXCEPT ![b] = x]
  BY DEF StartScan
<1> HIDE DEF x
<1>4. ScanCovers(x)
  BY <1>1, <1>2 DEF ScanCovers
<1>5. QED BY <1>1, <1>3, <1>4, ScanMoves DEF StartScan

\* The scanned rows are the first of the rows after the position.
LEMMA ScannedFirst ==
    ASSUME RecordsInv, NEW b \in Lister
    PROVE  /\ RowsAfter(b) \in SUBSET RecId /\ IsFiniteSet(RowsAfter(b))
           /\ ScannedRows(b) \in SUBSET RowsAfter(b) /\ IsFiniteSet(ScannedRows(b))
           /\ \A s \in ScannedRows(b), i \in RowsAfter(b) : i =< s => i \in ScannedRows(b)
           /\ RowsAfter(b) # {} => ScannedRows(b) # {}
<1> DEFINE Rows == RowsAfter(b)
           Upto(i) == {j \in Rows : j =< i}
           Before(i) == {j \in Rows : j < i /\ InScope(b, j)}
<1>1. Rows \in SUBSET RecId /\ IsFiniteSet(Rows) /\ Rows \subseteq Nat
  <2>1. Rows \in SUBSET RecId
    BY DEF RowsAfter
  <2>2. QED BY <2>1, RecordsAssumption, FS_Subset
<1>2. /\ ScannedRows(b) = {i \in Rows : /\ Cardinality(Upto(i)) <= ScanLimit
                                        /\ Cardinality(Before(i)) < PageLimit}
  BY DEF ScannedRows
<1>3. ScannedRows(b) \in SUBSET Rows /\ IsFiniteSet(ScannedRows(b))
  BY <1>1, <1>2, FS_Subset
<1> HIDE DEF Rows
<1>4. \A i : /\ IsFiniteSet(Upto(i)) /\ Cardinality(Upto(i)) \in Nat
             /\ IsFiniteSet(Before(i)) /\ Cardinality(Before(i)) \in Nat
  <2>1. ASSUME NEW i
        PROVE  /\ IsFiniteSet(Upto(i)) /\ Cardinality(Upto(i)) \in Nat
               /\ IsFiniteSet(Before(i)) /\ Cardinality(Before(i)) \in Nat
    <3>1. Upto(i) \in SUBSET Rows /\ Before(i) \in SUBSET Rows
      OBVIOUS
    <3>2. IsFiniteSet(Upto(i)) /\ IsFiniteSet(Before(i))
      BY <1>1, <3>1, FS_Subset
    <3>3. QED BY <3>2, FS_CardinalityType
  <2>2. QED BY <2>1
<1>5. ASSUME NEW s \in ScannedRows(b), NEW i \in Rows, i =< s
      PROVE  i \in ScannedRows(b)
  <2>1. s \in Rows /\ Cardinality(Upto(s)) <= ScanLimit /\ Cardinality(Before(s)) < PageLimit
    BY <1>2
  <2>2. s \in Nat /\ i \in Nat
    BY <1>1, <2>1
  <2>3. \A j \in Rows : (j =< i => j =< s) /\ (j < i => j < s)
    BY <1>1, <1>5, <2>2
  <2>4. Upto(i) \in SUBSET Upto(s) /\ Before(i) \in SUBSET Before(s)
    BY <2>3
  <2>5. Cardinality(Upto(i)) <= Cardinality(Upto(s))
    BY <1>4, <2>4, FS_Subset
  <2>6. Cardinality(Before(i)) <= Cardinality(Before(s))
    BY <1>4, <2>4, FS_Subset
  <2>7. \A p, q, l \in Nat : (p <= q /\ q <= l => p <= l) /\ (p <= q /\ q < l => p < l)
    OBVIOUS
  <2>8. ScanLimit \in Nat /\ PageLimit \in Nat
    BY RecordsAssumption
  <2>9. Cardinality(Upto(i)) <= ScanLimit /\ Cardinality(Before(i)) < PageLimit
    BY <1>4, <2>1, <2>5, <2>6, <2>7, <2>8
  <2>10. QED BY <1>2, <2>9
<1>6. ASSUME Rows # {} PROVE ScannedRows(b) # {}
  <2>1. PICK m \in Rows : \A y \in Rows : m =< y
    BY <1>1, <1>6, LeastNumber
  <2>2. \A j \in Rows : (j =< m <=> j = m) /\ ~(j < m)
    BY <1>1, <2>1
  <2>3. Upto(m) = {m} /\ Before(m) = {}
    BY <2>2
  <2>4. Cardinality(Upto(m)) = 1 /\ Cardinality(Before(m)) = 0
    BY <2>3, FS_Singleton, FS_EmptySet
  <2>5. m \in ScannedRows(b)
    BY <1>2, <2>4, RecordsAssumption
  <2>6. QED BY <2>5
<1>7. QED BY <1>1, <1>3, <1>5, <1>6 DEF Rows

\* A page without rows beyond it ends the rows; a page with them ends at a scanned row.
LEMMA PageEnds ==
    ASSUME RecordsInv, NEW b \in Lister
    PROVE  /\ ~RowsRemain(b) => ScannedRows(b) = RowsAfter(b)
           /\ RowsRemain(b) => /\ Max(ScannedRows(b)) \in ScannedRows(b)
                               /\ \A i \in RowsAfter(b) :
                                     i =< Max(ScannedRows(b)) => i \in ScannedRows(b)
<1> DEFINE Rows == RowsAfter(b)
           Scanned == ScannedRows(b)
           n == Cardinality(Rows)
           k == Cardinality(Scanned)
<1>1. /\ Rows \in SUBSET RecId /\ IsFiniteSet(Rows) /\ Scanned \in SUBSET Rows
      /\ IsFiniteSet(Scanned)
      /\ \A s \in Scanned, i \in Rows : i =< s => i \in Scanned
      /\ Rows # {} => Scanned # {}
  BY ScannedFirst
<1>2. n \in Nat /\ k \in Nat /\ k =< n /\ (n = k => Rows = Scanned)
  BY <1>1, FS_Subset, FS_CardinalityType
<1>3. Scanned # {} => Max(Scanned) \in Scanned /\ \A y \in Scanned : y =< Max(Scanned)
  <2>1. Scanned \in SUBSET Nat
    BY <1>1, RecordsAssumption
  <2>2. QED BY <1>1, <2>1, LargestNumber
<1>4. k =< ScanLimit
  <2>1. CASE Scanned = {}
    BY <2>1, FS_EmptySet, RecordsAssumption
  <2>2. CASE Scanned # {}
    <3>1. Max(Scanned) \in Scanned /\ \A y \in Scanned : y =< Max(Scanned)
      BY <1>3, <2>2
    <3>2. Cardinality({j \in Rows : j <= Max(Scanned)}) =< ScanLimit
      BY <3>1 DEF ScannedRows
    <3>3. Scanned \in SUBSET {j \in Rows : j <= Max(Scanned)}
      BY <1>1, <3>1
    <3>4. {j \in Rows : j <= Max(Scanned)} \in SUBSET Rows
      OBVIOUS
    <3>5. IsFiniteSet({j \in Rows : j <= Max(Scanned)})
      BY <1>1, <3>4, FS_Subset
    <3>6. /\ k =< Cardinality({j \in Rows : j <= Max(Scanned)})
          /\ Cardinality({j \in Rows : j <= Max(Scanned)}) \in Nat
      BY <3>3, <3>5, FS_Subset, FS_CardinalityType
    <3>7. QED BY <1>2, <3>2, <3>6, RecordsAssumption
  <2>3. QED BY <2>1, <2>2
<1>5. RowsRemain(b) <=> k < Min({ScanLimit + 1, n})
  BY DEF RowsRemain
<1> HIDE DEF Rows, Scanned, n, k
<1>6. Min({ScanLimit + 1, n}) = IF n < ScanLimit + 1 THEN n ELSE ScanLimit + 1
  <2> DEFINE S == {ScanLimit + 1, n}
             m == IF n < ScanLimit + 1 THEN n ELSE ScanLimit + 1
  <2>1. m \in S /\ \A y \in S : m =< y
    BY <1>2, RecordsAssumption
  <2>2. \A x \in S : (\A y \in S : x =< y) => x = m
    BY <1>2, RecordsAssumption
  <2>3. QED BY <2>1, <2>2 DEF Min
<1>7. ASSUME ~RowsRemain(b) PROVE Scanned = Rows
  <2>1. k = n
    BY <1>2, <1>4, <1>5, <1>6, <1>7, RecordsAssumption
  <2>2. QED BY <1>2, <2>1
<1>8. ASSUME RowsRemain(b)
      PROVE  /\ Max(Scanned) \in Scanned
             /\ \A i \in Rows : i =< Max(Scanned) => i \in Scanned
  <2>1. n > 0
    BY <1>2, <1>5, <1>6, <1>8, RecordsAssumption
  <2>2. Rows # {}
    BY <2>1, FS_EmptySet DEF n
  <2>3. QED BY <1>1, <1>3, <2>2
<1>9. QED BY <1>7, <1>8 DEF Rows, Scanned

LEMMA PageRead ==
    ASSUME RecordsInv, NEW b \in Lister, ReadPage(b)
    PROVE  RecordsInv'
<1> DEFINE old == listing[b]
           steady == {i \in old.steady : InScope(b, i)}
           items == old.items \cup {i \in ScannedRows(b) : InScope(b, i)}
           pc == IF RowsRemain(b) THEN "reading" ELSE "listed"
           position == IF RowsRemain(b) THEN Max(ScannedRows(b)) ELSE old.position
           x == [old EXCEPT !.steady = steady, !.items = items, !.pc = pc, !.position = position]
<1>1. old \in ScanType /\ ScanCovers(old) /\ old.pc = "reading"
  BY DEF RecordsInv, RecordsTypeOK, ScanType, ReadPage
<1>2. ScannedRows(b) \in SUBSET RowsAfter(b) /\ RowsAfter(b) \in SUBSET RecId
  BY ScannedFirst
<1>3. /\ steady \in SUBSET RecId /\ items \in SUBSET RecId /\ position \in RecId \cup {0}
      /\ pc \in {"reading", "listed"}
  BY <1>1, <1>2, PageEnds DEF ScanType
<1>4. listing' = [listing EXCEPT ![b] = x]
  BY DEF ReadPage
<1>5. ASSUME NEW i \in steady, pc = "listed" \/ i =< position
      PROVE  i \in items
  <2>1. i \in RecId /\ InScope(b, i) /\ record[i].kind = old.kind /\ i \in old.steady
    BY <1>1 DEF ScanCovers, ScanType
  <2>2. CASE i =< old.position
    BY <1>1, <2>1, <2>2 DEF ScanCovers
  <2>3. CASE ~(i =< old.position)
    <3>1. old.position \in Nat /\ i \in Nat
      <4>1. old.position \in RecId \cup {0}
        BY <1>1 DEF ScanType
      <4>2. RecId \subseteq Nat /\ 0 \in Nat
        BY RecordsAssumption
      <4>3. i \in RecId
        BY <2>1
      <4>4. QED BY <4>1, <4>2, <4>3
    <3>2. i > old.position
      BY <2>3, <3>1
    <3>3. i \in RowsAfter(b)
      BY <2>1, <3>2 DEF RowsAfter
    <3>4. i \in ScannedRows(b)
      BY <1>5, <2>3, <3>3, PageEnds
    <3>5. QED BY <2>1, <3>4
  <2>4. QED BY <2>2, <2>3
<1>6. \A i \in steady : record[i].kind = old.kind
  BY <1>1 DEF ScanCovers
<1> HIDE DEF steady, items, pc, position
<1>7. /\ x \in ScanType /\ x.steady = steady /\ x.items = items /\ x.pc = pc
      /\ x.position = position /\ x.kind = old.kind
  BY <1>1, <1>3 DEF ScanType
<1> HIDE DEF x
<1>8. ScanCovers(x)
  BY <1>5, <1>6, <1>7 DEF ScanCovers
<1>9. QED BY <1>4, <1>7, <1>8, ScanMoves DEF ReadPage

\* Every step keeps the invariant.
LEMMA RecordsStep == RecordsInv /\ [RecordsNext]_recordVars => RecordsInv'
<1> SUFFICES ASSUME RecordsInv, [RecordsNext]_recordVars PROVE RecordsInv'
  OBVIOUS
<1>1. CASE UNCHANGED recordVars
  BY <1>1 DEF recordVars, RecordsInv, RecordsTypeOK, Attributed, ScanCovers
<1>2. ASSUME NEW i \in RecId, NEW b \in RecBranch, NEW kind \in RecordKind,
             NEW to \in RecBranch \cup {NoBranch}, NEW refs \in {{}} \cup {{a} : a \in RecId \ {i}},
             AgentInsert(b, i, kind, to, refs)
      PROVE  RecordsInv'
  <2>1. refs \in SUBSET RecId
    OBVIOUS
  <2>2. QED BY <1>2, <2>1, AgentInserts
<1>3. QED
  BY <1>1, <1>2, InputTrusted, ControllerInserts, TargetDecided, PageRead, ScanStarts
  DEF RecordsNext

\* Scope follows ownership and sharing: the rules of _in_scope applied to attributed records.
LEMMA ScopesApart ==
    ASSUME RecordsInv, NEW b \in RecBranch, NEW i \in RecId, InScope(b, i),
           record[i].author \notin {b, NoBranch}
    PROVE  /\ sharing # "none"
           /\ record[i].kind \notin {"checkpoint", "private", "reader"}
           /\ sharing = "verified" => Accepted(i)
           /\ record[i].kind \in {"message", "post"} => \A a \in record[i].refs : InScope(b, a)
<1>1. record[i] \in RecordType /\ record[i].branch \notin {b, NoBranch}
      /\ record[i].kind # "input"
  BY DEF RecordsInv, RecordsTypeOK, RecordType, Attributed
<1>2. \A a \in RecId : ReferenceInScope(b, a) => InScope(b, a)
  BY DEF ReferenceInScope, InScope
<1>3. sharing \in {"none", "verified", "ideas"} /\ record[i].refs \in SUBSET RecId
  BY <1>1 DEF RecordsInv, RecordsTypeOK, RecordType
<1>4. SharedWith(b, i) =>
        /\ record[i].kind # "checkpoint" /\ sharing # "none"
        /\ record[i].kind = "message" => sharing = "ideas" /\ record[i].to = b
        /\ sharing = "verified" => Accepted(i)
  BY <1>1 DEF SharedWith
<1>5. CASE record[i].kind \in {"none", "private", "reader"}
  BY <1>1, <1>5 DEF InScope
<1>6. CASE record[i].kind = "node"
  BY <1>6 DEF InScope
<1>7. CASE record[i].kind = "post"
  BY <1>1, <1>2, <1>3, <1>7 DEF InScope
<1>8. CASE record[i].kind = "message"
  BY <1>2, <1>3, <1>4, <1>8 DEF InScope
<1>9. CASE record[i].kind \notin {"none", "private", "reader", "node", "post", "message"}
  <2>1. SharedWith(b, i)
    BY <1>9 DEF InScope
  <2>2. QED BY <1>4, <1>9, <2>1
<1>10. QED BY <1>5, <1>6, <1>7, <1>8, <1>9

\* What the run `running' checks of _in_scope, _insert and _page_records, for any branches,
\* records, reviews and sizes of a page.
THEOREM RecordsSafety == RecordsSpec => []ListingsSound
<1>1. RecordsInv => ListsAllReadable
  BY DEF RecordsInv, ListsAllReadable, ScanCovers
<1>2. RecordsInv => BranchesKeptApart
  BY ScopesApart DEF BranchesKeptApart
<1>3. RecordsInv => ListingsSound
  BY <1>1, <1>2 DEF RecordsInv, ListingsSound
<1>4. QED BY <1>3, InitRecords, RecordsStep, PTL DEF RecordsSpec
-----------------------------------------------------------------------------

Submitted(r) == receipt[r].status # "absent" /\ receipt[r].review \in 0 .. Len(reviews)

ApprovedBy(r) == receipt[r].review \in 1 .. Len(reviews)
                 /\ reviews[receipt[r].review] = "approved"

\* What a worker with receipt r in hand may rely on: a receipt that is being
\* verified, or has a positive outcome, was submitted under an approving review.
VettedFor(k, r) ==
    /\ check[k].phase # "idle" => Submitted(r)
    /\ check[k].phase = "verifying" => ApprovedBy(r)
    /\ check[k].phase = "decided" /\ check[k].outcome.status = "verified" =>
          /\ ApprovedBy(r)
          /\ receipt[r].publication => check[k].outcome.assurance = "independent_kernel"

Assigned == \A k \in Checker : check[k].phase # "idle" => check[k].receipt \in Receipt
Vetted == \A k \in Checker, r \in Receipt : check[k].receipt = r => VettedFor(k, r)

\* Receipts name reviews that exist, and carry no assurance while queued.
Pinned == \A r \in Receipt : receipt[r].status # "absent" => Submitted(r)
Unproved == \A r \in Receipt : receipt[r].status = "queued" => receipt[r].assurance = "none"

Inv == /\ AcceptanceTypeOK /\ Assigned /\ Vetted /\ Pinned /\ Unproved
       /\ OneClaimPerProof /\ PublicationAssured /\ GoalMatchesProof

-----------------------------------------------------------------------------
(* Outcomes and records. *)

\* The two outcomes the worker makes up itself are well formed.
LEMMA OwnOutcomes == Blocked \in OutcomeRecord /\ Rejected \in OutcomeRecord
BY DEF Blocked, Rejected, OutcomeRecord, Closed, Assurance

\* What is admitted is well formed, and strong enough when it is positive.
LEMMA AdmittedOutcome ==
    ASSUME NEW r \in Receipt, NEW o \in OutcomeRecord, NEW b \in BOOLEAN
    PROVE  /\ Admitted(r, o, b) \in OutcomeRecord
           /\ Admitted(r, o, b).status = "verified" /\ receipt[r].publication =>
                 Admitted(r, o, b).assurance = "independent_kernel"
<1>1. Blocked.status = "blocked"
  BY DEF Blocked
<1>2. QED BY <1>1, OwnOutcomes DEF Admitted

\* The initial state satisfies the invariant.
LEMMA InitInv == AcceptanceInit => Inv
<1> SUFFICES ASSUME AcceptanceInit PROVE Inv
  OBVIOUS
<1>1. Idle \in CheckRecord /\ Idle.phase = "idle"
  BY OwnOutcomes DEF Idle, CheckRecord
<1>2. ASSUME NEW r \in Receipt PROVE receipt[r] \in ReceiptRecord
  BY DEF AcceptanceInit, ReceiptRecord, Assurance
<1>3. AcceptanceTypeOK
  <2>1. reviews \in Seq(Decision) /\ command \subseteq Actor \X Receipt
    BY DEF AcceptanceInit
  <2>2. receipt \in [Receipt -> ReceiptRecord]
    BY <1>2 DEF AcceptanceInit
  <2>3. claims \in [Receipt -> Nat] /\ check \in [Checker -> CheckRecord]
    BY <1>1 DEF AcceptanceInit
  <2>4. goal \in BOOLEAN
    BY DEF AcceptanceInit
  <2>5. QED BY <2>1, <2>2, <2>3, <2>4 DEF AcceptanceTypeOK
<1>4. Assigned /\ Vetted /\ Pinned
  BY <1>1 DEF AcceptanceInit, Assigned, Vetted, VettedFor, Pinned
<1>5. QED
  BY <1>3, <1>4 DEF AcceptanceInit, Inv, Unproved, OneClaimPerProof, PublicationAssured, GoalMatchesProof
-----------------------------------------------------------------------------
(* One lemma per action. *)

\* Only the review list grows: whatever approved still does.
LEMMA ReviewKeeps ==
    ASSUME Inv, NEW d \in Decision, ReviewProblem(d)
    PROVE  Inv'
<1>1. /\ reviews \in Seq(Decision) /\ reviews' = Append(reviews, d)
      /\ UNCHANGED <<receipt, claims, goal, command, check>>
  BY DEF Inv, AcceptanceTypeOK, ReviewProblem
<1>2. /\ reviews' \in Seq(Decision) /\ Len(reviews') = Len(reviews) + 1
      /\ \A i \in 1 .. Len(reviews) : reviews'[i] = reviews[i]
      /\ Len(reviews) \in Nat
  BY <1>1
<1>3. AcceptanceTypeOK'
  BY <1>1, <1>2 DEF Inv, AcceptanceTypeOK
<1>4. ASSUME NEW r \in Receipt
      PROVE  /\ Submitted(r) => Submitted(r)'
             /\ ApprovedBy(r) => ApprovedBy(r)'
  BY <1>1, <1>2 DEF Submitted, ApprovedBy
<1>5. Assigned' /\ Vetted' /\ Pinned'
  BY <1>1, <1>4 DEF Inv, Assigned, Vetted, VettedFor, Pinned
<1>6. QED
  BY <1>1, <1>3, <1>5 DEF Inv, Unproved, OneClaimPerProof, PublicationAssured, GoalMatchesProof

\* A new receipt is queued under the review that rules now.
LEMMA SubmitKeeps ==
    ASSUME Inv, NEW s \in Receipt, NEW b \in BOOLEAN, VerifyCandidate(s, b)
    PROVE  Inv'
<1> DEFINE rec == [status |-> "queued", assurance |-> "none", review |-> Len(reviews),
                   publication |-> b]
<1>1. /\ receipt' = [receipt EXCEPT ![s] = rec] /\ receipt[s].status = "absent"
      /\ UNCHANGED <<reviews, claims, goal, command, check>>
      /\ receipt \in [Receipt -> ReceiptRecord]
  BY DEF Inv, AcceptanceTypeOK, VerifyCandidate
<1>2. rec \in ReceiptRecord
  <2> DEFINE n == Len(reviews)
  <2>1. n \in Nat
    BY DEF Inv, AcceptanceTypeOK
  <2> HIDE DEF n
  <2>2. QED BY <2>1 DEF ReceiptRecord, Assurance, n
<1>3. rec.status = "queued" /\ rec.assurance = "none"
  OBVIOUS
<1> HIDE DEF rec
<1>4. /\ receipt' \in [Receipt -> ReceiptRecord] /\ receipt'[s] = rec
      /\ \A r \in Receipt : r # s => receipt'[r] = receipt[r]
  BY <1>1, <1>2
<1>5. AcceptanceTypeOK'
  BY <1>1, <1>4 DEF Inv, AcceptanceTypeOK
<1>6. ASSUME NEW k \in Checker, NEW r \in Receipt, check[k].receipt = r
      PROVE  VettedFor(k, r)'
  <2>1. CASE r = s
    BY <1>1, <1>6, <2>1 DEF Inv, Vetted, VettedFor, Submitted
  <2>2. CASE r # s
    BY <1>1, <1>4, <1>6, <2>2 DEF Inv, Vetted, VettedFor, Submitted, ApprovedBy
  <2>3. QED BY <2>1, <2>2
<1>7. Assigned' /\ Vetted'
  BY <1>1, <1>6 DEF Inv, Assigned, Vetted
<1>8. Unproved' /\ PublicationAssured'
  BY <1>3, <1>4 DEF Inv, Unproved, PublicationAssured
<1>a. rec.review = Len(reviews) /\ Len(reviews) \in Nat
  BY DEF Inv, AcceptanceTypeOK, rec
<1>b. Pinned'
  <2> SUFFICES ASSUME NEW r \in Receipt, receipt'[r].status # "absent" PROVE Submitted(r)'
    BY DEF Pinned
  <2>1. CASE r = s
    BY <1>1, <1>4, <1>a, <2>1 DEF Submitted
  <2>2. CASE r # s
    BY <1>1, <1>4, <2>2 DEF Inv, Pinned, Submitted
  <2>3. QED BY <2>1, <2>2
<1>9. OneClaimPerProof'
  BY <1>1, <1>3, <1>4 DEF Inv, OneClaimPerProof
<1>10. receipt[s].assurance = "none"
  BY <1>1 DEF Inv, PublicationAssured
<1>11. GoalMatchesProof'
  BY <1>1, <1>3, <1>4, <1>10 DEF Inv, GoalMatchesProof
<1>12. QED BY <1>5, <1>7, <1>8, <1>9, <1>11, <1>b DEF Inv

\* Steps that change nothing but one worker's memory.
LEMMA MemoryKeeps ==
    ASSUME Inv, NEW k \in Checker, NEW c \in CheckRecord,
           check' = [check EXCEPT ![k] = c],
           UNCHANGED <<reviews, receipt, claims, goal, command>>,
           c.phase # "idle" => c.receipt \in Receipt,
           \A r \in Receipt : c.receipt = r =>
              /\ c.phase # "idle" => Submitted(r)
              /\ c.phase = "verifying" => ApprovedBy(r)
              /\ c.phase = "decided" /\ c.outcome.status = "verified" =>
                    /\ ApprovedBy(r)
                    /\ receipt[r].publication => c.outcome.assurance = "independent_kernel"
    PROVE  Inv'
<1>1. check \in [Checker -> CheckRecord]
  BY DEF Inv, AcceptanceTypeOK
<1>2. /\ check' \in [Checker -> CheckRecord] /\ check'[k] = c
      /\ \A q \in Checker : q # k => check'[q] = check[q]
  BY <1>1
<1>3. AcceptanceTypeOK'
  BY <1>2 DEF Inv, AcceptanceTypeOK
<1>4. Assigned'
  BY <1>2 DEF Inv, Assigned
<1>5. \A r \in Receipt : (Submitted(r)' <=> Submitted(r)) /\ (ApprovedBy(r)' <=> ApprovedBy(r))
  BY DEF Submitted, ApprovedBy
<1>6. Vetted'
  <2> SUFFICES ASSUME NEW q \in Checker, NEW r \in Receipt, check'[q].receipt = r
               PROVE  VettedFor(q, r)'
    BY DEF Vetted
  <2>1. CASE q = k
    BY <1>2, <1>5, <2>1 DEF VettedFor
  <2>2. CASE q # k
    BY <1>2, <1>5, <2>2 DEF Inv, Vetted, VettedFor
  <2>3. QED BY <2>1, <2>2
<1>7. Pinned'
  BY <1>5 DEF Inv, Pinned
<1>8. QED
  BY <1>3, <1>4, <1>6, <1>7
     DEF Inv, Unproved, OneClaimPerProof, PublicationAssured, GoalMatchesProof

\* What the invariant says of a worker that is not idle.
LEMMA AtWork ==
    ASSUME Inv, NEW k \in Checker, check[k].phase # "idle"
    PROVE  /\ check[k] \in CheckRecord /\ check[k].receipt \in Receipt
           /\ VettedFor(k, check[k].receipt)
BY DEF Inv, AcceptanceTypeOK, Assigned, Vetted

\* Reading the receipt.
LEMMA BeginKeeps ==
    ASSUME Inv, NEW k \in Checker, NEW r \in Receipt, BeginCheck(k, r)
    PROVE  Inv'
<1> DEFINE c == [Idle EXCEPT !.phase = "begun", !.receipt = r]
<1>1. c \in CheckRecord /\ c.phase = "begun" /\ c.receipt = r
  BY OwnOutcomes DEF Idle, CheckRecord
<1>2. check' = [check EXCEPT ![k] = c] /\ UNCHANGED <<reviews, receipt, claims, goal, command>>
  BY DEF BeginCheck
<1>3. Submitted(r)
  BY DEF Inv, Pinned, BeginCheck
<1> HIDE DEF c
<1>4. QED BY <1>1, <1>2, <1>3, MemoryKeeps

\* A decision replaces phase and outcome and keeps the receipt.
LEMMA DecideKeeps ==
    ASSUME Inv, NEW k \in Checker, check[k].phase \in {"begun", "verifying"},
           NEW o \in OutcomeRecord, Decide(k, o),
           UNCHANGED <<reviews, receipt, claims, goal, command>>,
           o.status = "verified" =>
              /\ ApprovedBy(check[k].receipt)
              /\ receipt[check[k].receipt].publication => o.assurance = "independent_kernel"
    PROVE  Inv'
<1> DEFINE c == [check[k] EXCEPT !.phase = "decided", !.outcome = o]
<1>1. /\ check[k] \in CheckRecord /\ check[k].receipt \in Receipt
      /\ VettedFor(k, check[k].receipt) /\ check[k].phase # "idle"
  BY AtWork
<1>2. /\ c \in CheckRecord /\ c.phase = "decided" /\ c.receipt = check[k].receipt
      /\ c.outcome = o
  BY <1>1 DEF CheckRecord
<1>3. check' = [check EXCEPT ![k] = c]
  BY DEF Inv, AcceptanceTypeOK, Decide
<1> HIDE DEF c
<1>4. Submitted(check[k].receipt)
  BY <1>1 DEF VettedFor
<1>5. QED BY <1>1, <1>2, <1>3, <1>4, MemoryKeeps

\* Reading the problem: only an approving, ruling review leads to the verifier.
LEMMA ReadKeeps ==
    ASSUME Inv, NEW k \in Checker, ReadProblem(k)
    PROVE  Inv'
<1>1. /\ check[k] \in CheckRecord /\ check[k].receipt \in Receipt
      /\ VettedFor(k, check[k].receipt)
      /\ check[k].phase = "begun" /\ check[k].phase \in {"begun", "verifying"}
      /\ UNCHANGED <<reviews, receipt, claims, goal, command>>
  BY AtWork DEF ReadProblem
<1>2. Blocked.status # "verified" /\ Rejected.status # "verified"
  BY DEF Blocked, Rejected
<1>3. CASE Decide(k, Blocked) \/ Decide(k, Rejected)
  BY <1>1, <1>2, <1>3, OwnOutcomes, DecideKeeps
<1>4. CASE /\ ~RevisionChanged(check[k].receipt) /\ Approved
           /\ check' = [check EXCEPT ![k].phase = "verifying"]
  <2> DEFINE c == [check[k] EXCEPT !.phase = "verifying"]
  <2>1. c \in CheckRecord /\ c.phase = "verifying" /\ c.receipt = check[k].receipt
    BY <1>1 DEF CheckRecord
  <2>2. check' = [check EXCEPT ![k] = c]
    BY <1>4 DEF Inv, AcceptanceTypeOK
  <2> HIDE DEF c
  <2>3. Submitted(check[k].receipt)
    BY <1>1 DEF VettedFor
  <2>4. ApprovedBy(check[k].receipt)
    <3>1. reviews \in Seq(Decision) /\ reviews # <<>>
      BY <1>4 DEF Inv, AcceptanceTypeOK, Approved
    <3>2. Len(reviews) \in 1 .. Len(reviews)
      BY <3>1
    <3>3. QED BY <1>4, <3>2 DEF ApprovedBy, Approved, RevisionChanged
  <2>5. QED BY <1>1, <2>1, <2>2, <2>3, <2>4, MemoryKeeps
<1>5. QED BY <1>3, <1>4 DEF ReadProblem

\* The verifier's answer, whatever it is.
LEMMA VerifyKeeps ==
    ASSUME Inv, NEW k \in Checker, NEW o \in OutcomeRecord, NEW b \in BOOLEAN, Verify(k, o, b)
    PROVE  Inv'
<1> DEFINE r == check[k].receipt
           a == Admitted(r, o, b)
<1>1. /\ r \in Receipt /\ VettedFor(k, r) /\ check[k].phase = "verifying"
      /\ check[k].phase \in {"begun", "verifying"}
      /\ Decide(k, a) /\ UNCHANGED <<reviews, receipt, claims, goal, command>>
  BY AtWork DEF Verify
<1>2. /\ a \in OutcomeRecord
      /\ a.status = "verified" /\ receipt[r].publication => a.assurance = "independent_kernel"
  BY <1>1, AdmittedOutcome
<1>3. ApprovedBy(r)
  BY <1>1 DEF VettedFor
<1> HIDE DEF a
<1>4. QED BY <1>1, <1>2, <1>3, DecideKeeps

\* The memory is lost.
LEMMA AbandonKeeps ==
    ASSUME Inv, NEW k \in Checker, Abandon(k)
    PROVE  Inv'
<1>1. Idle \in CheckRecord /\ Idle.phase = "idle"
  BY OwnOutcomes DEF Idle, CheckRecord
<1>2. QED BY <1>1, MemoryKeeps DEF Abandon

\* The commit: a verified outcome is written only under the ruling review.
LEMMA CommitKeeps ==
    ASSUME Inv, NEW k \in Checker, Commit(k)
    PROVE  Inv' /\ VerifiesUnderReview /\ KeepsClosed
<1> DEFINE r == check[k].receipt
           key == <<ActorOf[k], r>>
           o == IF RevisionChanged(r) THEN Blocked ELSE check[k].outcome
           closed == [receipt[r] EXCEPT !.status = o.status, !.assurance = o.assurance]
<1>1. /\ check[k] \in CheckRecord /\ r \in Receipt /\ VettedFor(k, r) /\ check[k].phase = "decided"
      /\ reviews \in Seq(Decision) /\ reviews' = reviews /\ Len(reviews) \in Nat
      /\ check' = [check EXCEPT ![k] = Idle] /\ command' = command \cup {key}
  BY AtWork DEF Commit, Inv, AcceptanceTypeOK
<1>2. o \in OutcomeRecord
  BY <1>1, OwnOutcomes DEF CheckRecord
<1>3. o.status = "verified" =>
        /\ receipt[r].review = Len(reviews) /\ Approved
        /\ receipt[r].publication => o.assurance = "independent_kernel"
  <2>1. o.status = "verified" => ~RevisionChanged(r) /\ o = check[k].outcome
    BY DEF Blocked
  <2>2. o.status = "verified" =>
          /\ ApprovedBy(r)
          /\ receipt[r].publication => o.assurance = "independent_kernel"
    BY <1>1, <2>1 DEF VettedFor
  <2>3. ~RevisionChanged(r) /\ ApprovedBy(r) => receipt[r].review = Len(reviews) /\ Approved
    <3>1. ~RevisionChanged(r) /\ ApprovedBy(r) =>
            receipt[r].review = Len(reviews) /\ Len(reviews) >= 1
            /\ reviews[Len(reviews)] = "approved"
      BY <1>1 DEF RevisionChanged, ApprovedBy
    <3>2. Len(reviews) >= 1 => reviews # <<>>
      BY <1>1
    <3>3. QED BY <3>1, <3>2 DEF Approved
  <2>4. QED BY <2>1, <2>2, <2>3
<1>4. /\ Idle \in CheckRecord /\ Idle.phase = "idle"
  BY OwnOutcomes DEF Idle, CheckRecord
<1>5. /\ check' \in [Checker -> CheckRecord] /\ check'[k] = Idle
      /\ \A q \in Checker : q # k => check'[q] = check[q]
  BY <1>1, <1>4 DEF Inv, AcceptanceTypeOK
<1>6. command' \subseteq Actor \X Receipt
  <2>1. ActorOf[k] \in Actor
    BY AcceptanceAssumption
  <2>2. key \in Actor \X Receipt
    BY <1>1, <2>1
  <2> HIDE DEF key
  <2>3. QED BY <1>1, <2>2 DEF Inv, AcceptanceTypeOK
<1>7. Assigned'
  BY <1>4, <1>5 DEF Inv, Assigned
<1>8. CASE UNCHANGED <<receipt, claims, goal>>
  <2>1. AcceptanceTypeOK'
    BY <1>1, <1>5, <1>6, <1>8 DEF Inv, AcceptanceTypeOK
  <2>2. \A s \in Receipt : (Submitted(s)' <=> Submitted(s)) /\ (ApprovedBy(s)' <=> ApprovedBy(s))
    BY <1>1, <1>8 DEF Submitted, ApprovedBy
  <2>3. Vetted' /\ Pinned'
    BY <1>4, <1>5, <1>8, <2>2 DEF Inv, Vetted, VettedFor, Pinned
  <2>4. QED
    BY <1>7, <1>8, <2>1, <2>3 DEF Inv, Unproved, OneClaimPerProof, PublicationAssured,
       GoalMatchesProof, VerifiesUnderReview, KeepsClosed
<1>9. CASE /\ StillQueued(r)
           /\ receipt' = [receipt EXCEPT ![r] = closed]
           /\ claims' = [claims EXCEPT ![r] = IF o.status = "verified" THEN @ + 1 ELSE @]
           /\ goal' = (goal \/ AcceptedEvidence(closed))
  <2>1. receipt[r] \in ReceiptRecord /\ receipt[r].status = "queued" /\ o.status \in Closed
        /\ o.assurance \in Assurance /\ (o.status = "verified" <=> o.assurance # "none")
    BY <1>1, <1>2, <1>9 DEF Inv, AcceptanceTypeOK, StillQueued, OutcomeRecord
  <2> HIDE DEF o
  <2>2. /\ closed \in ReceiptRecord /\ closed.status = o.status /\ closed.assurance = o.assurance
        /\ closed.review = receipt[r].review /\ closed.publication = receipt[r].publication
    BY <2>1 DEF ReceiptRecord
  <2> HIDE DEF closed, r, key
  <2>3. /\ receipt' \in [Receipt -> ReceiptRecord] /\ receipt'[r] = closed
        /\ \A s \in Receipt : s # r => receipt'[s] = receipt[s]
    BY <1>1, <1>9, <2>2 DEF Inv, AcceptanceTypeOK
  <2>4. /\ claims' \in [Receipt -> Nat]
        /\ claims'[r] = (IF o.status = "verified" THEN claims[r] + 1 ELSE claims[r])
        /\ \A s \in Receipt : s # r => claims'[s] = claims[s]
    BY <1>1, <1>9 DEF Inv, AcceptanceTypeOK
  <2>5. goal' \in BOOLEAN
    BY <1>9
  <2>6. AcceptanceTypeOK'
    BY <1>1, <1>5, <1>6, <2>3, <2>4, <2>5 DEF Inv, AcceptanceTypeOK
  <2>7. \A s \in Receipt : receipt'[s].review = receipt[s].review
                           /\ receipt'[s].publication = receipt[s].publication
    BY <2>2, <2>3
  <2>8. \A s \in Receipt : (Submitted(s) => Submitted(s)') /\ (ApprovedBy(s)' <=> ApprovedBy(s))
    <3>1. closed.status # "absent"
      BY <2>1, <2>2 DEF Closed
    <3>2. QED BY <1>1, <2>3, <2>7, <3>1 DEF Submitted, ApprovedBy
  <2>9. Vetted'
    BY <1>4, <1>5, <2>7, <2>8 DEF Inv, Vetted, VettedFor
  <2>10. Pinned'
    <3>1. Submitted(r)
      BY <1>1, <2>1 DEF Inv, Pinned
    <3>2. QED BY <2>3, <2>8, <3>1 DEF Inv, Pinned
  <2>11. Unproved'
    BY <2>1, <2>2, <2>3 DEF Inv, Unproved, Closed
  <2>12. OneClaimPerProof'
    <3>1. claims[r] = 0
      BY <1>1, <2>1 DEF Inv, OneClaimPerProof
    <3>2. QED BY <2>2, <2>3, <2>4, <3>1 DEF Inv, OneClaimPerProof
  <2>13. PublicationAssured'
    BY <1>3, <2>1, <2>2, <2>3 DEF Inv, PublicationAssured
  <2>14. GoalMatchesProof'
    <3>1. AcceptedEvidence(closed) <=> closed.assurance = "independent_kernel"
      <4>1. closed.assurance = "independent_kernel" => closed.status = "verified"
        BY <2>1, <2>2
      <4>2. QED BY <1>3, <2>2, <4>1 DEF AcceptedEvidence
    <3>2. receipt[r].assurance = "none"
      BY <1>1, <2>1 DEF Inv, Unproved
    <3>3. QED BY <1>1, <1>9, <2>3, <3>1, <3>2 DEF Inv, GoalMatchesProof
  <2>15. VerifiesUnderReview
    BY <1>3, <2>2, <2>3 DEF VerifiesUnderReview
  <2>16. KeepsClosed
    BY <2>1, <2>3 DEF KeepsClosed, Closed
  <2>17. QED
    BY <1>7, <2>6, <2>9, <2>10, <2>11, <2>12, <2>13, <2>14, <2>15, <2>16 DEF Inv
<1>10. QED BY <1>8, <1>9 DEF Commit

\* Every step keeps the invariant and obeys both action properties.
LEMMA NextKeeps == Inv /\ [AcceptanceNext]_acceptanceVars => Inv' /\ VerifiesUnderReview /\ KeepsClosed
<1> SUFFICES ASSUME Inv, [AcceptanceNext]_acceptanceVars PROVE Inv' /\ VerifiesUnderReview /\ KeepsClosed
  OBVIOUS
<1>1. ASSUME receipt' = receipt PROVE VerifiesUnderReview /\ KeepsClosed
  BY <1>1 DEF VerifiesUnderReview, KeepsClosed
<1>2. CASE UNCHANGED acceptanceVars
  <2>1. \A r \in Receipt : (Submitted(r)' <=> Submitted(r)) /\ (ApprovedBy(r)' <=> ApprovedBy(r))
    BY <1>2 DEF acceptanceVars, Submitted, ApprovedBy
  <2>2. Assigned' /\ Vetted' /\ Pinned'
    BY <1>2, <2>1 DEF acceptanceVars, Inv, Assigned, Vetted, VettedFor, Pinned
  <2>3. QED
    BY <1>1, <1>2, <2>2 DEF acceptanceVars, Inv, AcceptanceTypeOK, Unproved, OneClaimPerProof, PublicationAssured,
       GoalMatchesProof
<1>3. ASSUME NEW d \in Decision, ReviewProblem(d)
      PROVE  Inv' /\ VerifiesUnderReview /\ KeepsClosed
  BY <1>1, <1>3, ReviewKeeps DEF ReviewProblem
<1>4. ASSUME NEW r \in Receipt, NEW b \in BOOLEAN, VerifyCandidate(r, b)
      PROVE  Inv' /\ VerifiesUnderReview /\ KeepsClosed
  <2> DEFINE rec == [status |-> "queued", assurance |-> "none", review |-> Len(reviews),
                     publication |-> b]
  <2>1. rec.status = "queued"
    OBVIOUS
  <2>2. receipt' = [receipt EXCEPT ![r] = rec] /\ receipt[r].status = "absent"
        /\ receipt \in [Receipt -> ReceiptRecord]
    BY <1>4 DEF VerifyCandidate, Inv, AcceptanceTypeOK
  <2> HIDE DEF rec
  <2>3. receipt'[r] = rec /\ \A s \in Receipt : s # r => receipt'[s] = receipt[s]
    BY <2>2
  <2>4. VerifiesUnderReview /\ KeepsClosed
    BY <2>1, <2>2, <2>3 DEF VerifiesUnderReview, KeepsClosed, Closed
  <2>5. QED BY <1>4, <2>4, SubmitKeeps
<1>5. ASSUME NEW k \in Checker, NEW r \in Receipt, BeginCheck(k, r)
      PROVE  Inv' /\ VerifiesUnderReview /\ KeepsClosed
  BY <1>1, <1>5, BeginKeeps DEF BeginCheck
<1>6. ASSUME NEW k \in Checker, ReadProblem(k)
      PROVE  Inv' /\ VerifiesUnderReview /\ KeepsClosed
  <2>1. receipt' = receipt
    BY <1>6 DEF ReadProblem
  <2>2. QED BY <1>1, <1>6, <2>1, ReadKeeps
<1>7. ASSUME NEW k \in Checker, NEW o \in OutcomeRecord, NEW b \in BOOLEAN, Verify(k, o, b)
      PROVE  Inv' /\ VerifiesUnderReview /\ KeepsClosed
  BY <1>1, <1>7, VerifyKeeps DEF Verify
<1>8. ASSUME NEW k \in Checker, Abandon(k)
      PROVE  Inv' /\ VerifiesUnderReview /\ KeepsClosed
  BY <1>1, <1>8, AbandonKeeps DEF Abandon
<1>9. QED
  BY <1>2, <1>3, <1>4, <1>5, <1>6, <1>7, <1>8, CommitKeeps DEF AcceptanceNext
-----------------------------------------------------------------------------
(* Theorems. *)

\* The inductive invariant holds in every reachable state.
THEOREM AcceptanceInvariant == AcceptanceSpec => []Inv
<1>1. Inv /\ [AcceptanceNext]_acceptanceVars => Inv'
  BY NextKeeps
<1>2. QED BY <1>1, InitInv, PTL DEF AcceptanceSpec

\* The records keep their types.
THEOREM AcceptanceTypes == AcceptanceSpec => []AcceptanceTypeOK
<1>1. Inv => AcceptanceTypeOK
  BY DEF Inv
<1>2. QED BY <1>1, AcceptanceInvariant, PTL

\* Claims correspond one to one to verified receipts, whoever processed them.
THEOREM ClaimsMatchProofs == AcceptanceSpec => []OneClaimPerProof
<1>1. Inv => OneClaimPerProof
  BY DEF Inv
<1>2. QED BY <1>1, AcceptanceInvariant, PTL

\* No publication is verified without an independent kernel.
THEOREM PublicationsAssured == AcceptanceSpec => []PublicationAssured
<1>1. Inv => PublicationAssured
  BY DEF Inv
<1>2. QED BY <1>1, AcceptanceInvariant, PTL

\* The goal is accepted exactly when an independent proof is recorded.
THEOREM GoalAccepted == AcceptanceSpec => []GoalMatchesProof
<1>1. Inv => GoalMatchesProof
  BY DEF Inv
<1>2. QED BY <1>1, AcceptanceInvariant, PTL

\* A receipt turns verified only under the ruling, approving review.
THEOREM VerifiedReviews == AcceptanceSpec => VerifiedUnderReview
<1>1. Inv /\ [AcceptanceNext]_acceptanceVars => [VerifiesUnderReview]_acceptanceVars
  BY NextKeeps
<1>2. QED BY <1>1, AcceptanceInvariant, PTL DEF AcceptanceSpec, VerifiedUnderReview

\* A closed receipt never changes again.
THEOREM ReceiptsFinal == AcceptanceSpec => ReceiptFinal
<1>1. Inv /\ [AcceptanceNext]_acceptanceVars => [KeepsClosed]_acceptanceVars
  BY NextKeeps
<1>2. QED BY <1>1, AcceptanceInvariant, PTL DEF AcceptanceSpec, ReceiptFinal

\* What the run `evidence' checks of review_problem, verify_candidate and
\* process_verification, for any receipts, workers and reviews.
THEOREM AcceptanceSafety == AcceptanceSpec => []AcceptanceSound
BY AcceptanceTypes, ClaimsMatchProofs, PublicationsAssured, GoalAccepted, PTL
DEF AcceptanceSound
-----------------------------------------------------------------------------
(* assessed so far are valid and share neither run nor container, and each   *)
(* later part found what the packet claims.                                  *)

Given == evidence.suites
Ident(i) == <<Given[i].suite, Given[i].mode>>
\* The reports that were assessed.
Assessed == {i \in 1 .. Len(Given) : i < step}
Clean == \A c \in checks : c[2] = "observed"

\* Every assessed report is valid and rests on a run and a container of its own.
ReportsApart ==
    /\ \A i \in Assessed : /\ Given[i].valid /\ Ident(i) \in observed
                           /\ Given[i].run \in runs /\ Given[i].box \in boxes
    /\ \A i, j \in Assessed : i # j => Given[i].run # Given[j].run /\ Given[i].box # Given[j].box

\* What each later step found, if no check so far says otherwise.
BoundaryFound ==
    LET b == evidence.boundary IN
    /\ Required \subseteq observed
    /\ b.given /\ b.valid
    /\ \A i \in 1 .. Len(Given) : Given[i].run # b.run /\ Given[i].box # b.box
RegressionsFound ==
    LET r == evidence.regressions IN
    r.given /\ r.current /\ r.complete /\ ~r.failed

Found ==
    Clean => /\ ReportsApart
             /\ step > Len(Given) + 1 => BoundaryFound
             /\ step > Len(Given) + 2 => RegressionsFound

QualificationInv ==
    /\ QualificationTypeOK
    /\ Given \in Reports
    /\ step \in 0 .. Len(Given) + 4
    /\ packet # "none" => step = Len(Given) + 4
    /\ observed \subseteq {Ident(i) : i \in {j \in 1 .. Len(Given) : Given[j].valid}}
    /\ Found
    /\ SatisfiedIsComplete

LEMMA InitQualification == QualificationInit => QualificationInv
<1> SUFFICES ASSUME QualificationInit PROVE QualificationInv
  OBVIOUS
<1>1. Given \in Reports /\ Len(Given) \in Nat
  BY QualificationAssumption DEF QualificationInit, Given
<1>2. Assessed = {}
  BY <1>1 DEF QualificationInit, Assessed
<1>3. QED
  BY <1>1, <1>2
  DEF QualificationInit, QualificationInv, QualificationTypeOK, Found, ReportsApart,
      SatisfiedIsComplete

LEMMA InputReplaced ==
    ASSUME QualificationInv, NEW f \in QFiles, ReplaceInput(f)
    PROVE  QualificationInv'
<1>1. fresh' \subseteq QFiles
  BY DEF ReplaceInput, QualificationInv, QualificationTypeOK
<1>2. QFiles' = QFiles /\ Given' = Given /\ Found'
  BY DEF ReplaceInput, QualificationInv, QFiles, SuiteFile, Given, Found, Clean, ReportsApart,
         Assessed, Ident, BoundaryFound, RegressionsFound
<1>3. packet' = "none"
  BY DEF ReplaceInput
<1>4. QED
  BY <1>1, <1>2, <1>3
  DEF ReplaceInput, QualificationInv, QualificationTypeOK, SatisfiedIsComplete, Ident, Given

\* A step of the assessment that adds one check or more.
LEMMA AssessmentStep ==
    ASSUME QualificationInv, Advance, checks \subseteq checks',
           step \in 0 .. Len(Given) + 2,
           \A c \in checks' : c[2] \in {"observed", "missing", "invalid"},
           observed' \subseteq {Ident(i) : i \in {j \in 1 .. Len(Given) : Given[j].valid}},
           Found'
    PROVE  QualificationInv'
<1>1. Len(Given) \in Nat /\ Given' = Given /\ QFiles' = QFiles
  BY QualificationAssumption DEF QualificationInv, Advance, Given, QFiles, SuiteFile
<1>2. packet = "none" /\ packet' = "none"
  BY <1>1 DEF QualificationInv, Advance
<1>3. observed' \subseteq Required
  BY QualificationAssumption DEF QualificationInv, Required, Ident, Given
<1>4. QualificationTypeOK'
  BY <1>1, <1>2, <1>3 DEF QualificationInv, QualificationTypeOK, Advance, Required
<1>5. step' \in 0 .. Len(Given) + 4
  BY <1>1 DEF Advance
<1>6. QED
  BY <1>1, <1>2, <1>4, <1>5
  DEF QualificationInv, Advance, SatisfiedIsComplete, Ident, Given

LEMMA InputsChecked ==
    ASSUME QualificationInv, CurrentInputs
    PROVE  QualificationInv'
<1>1. Len(Given) \in Nat /\ Given' = Given /\ step = 0 /\ step' = 1
  BY QualificationAssumption DEF QualificationInv, CurrentInputs, Advance, Given
<1>2. Assessed' = {}
  BY <1>1 DEF Assessed
<1>3. Found'
  BY <1>1, <1>2 DEF Found, ReportsApart
<1>4. \A c \in checks' : c[2] \in {"observed", "missing", "invalid"}
  BY DEF CurrentInputs, Check, QualificationInv, QualificationTypeOK
<1>5. checks \subseteq checks'
  BY DEF CurrentInputs, Check
<1>6. QED
  BY <1>1, <1>3, <1>4, <1>5, AssessmentStep DEF CurrentInputs, QualificationInv

\* One more report: it is observed only on a run and a container not seen before.
LEMMA SuiteAssessed ==
    ASSUME QualificationInv, AssessSuite
    PROVE  QualificationInv'
<1> DEFINE r == Given[step]
           id == <<r.suite, r.mode>>
           ok == SuiteFile(step) \in fresh /\ r.valid /\ Unused(r) /\ id \notin observed
<1>1. Len(Given) \in Nat /\ Given' = Given /\ step \in 1 .. Len(Given) /\ step' = step + 1
  BY QualificationAssumption DEF QualificationInv, AssessSuite, Advance, Given
<1>2. /\ checks' = checks \cup {<<id, IF ok THEN "observed" ELSE "invalid">>}
      /\ observed' = IF ok THEN observed \cup {id} ELSE observed
      /\ ok => runs' = runs \cup {r.run} /\ boxes' = boxes \cup {r.box}
  BY DEF AssessSuite, Check, Given, Unused
<1>3. id = Ident(step)
  BY DEF Ident
<1>4. Assessed' = Assessed \cup {step} /\ step \notin Assessed
  BY <1>1 DEF Assessed
<1>5. Clean' => Clean /\ ok
  <2>1. <<id, IF ok THEN "observed" ELSE "invalid">> \in checks'
    BY <1>2
  <2>2. Clean' => (IF ok THEN "observed" ELSE "invalid") = "observed"
    BY <2>1 DEF Clean
  <2>3. QED BY <1>2, <2>2 DEF Clean
<1>6. ASSUME Clean' PROVE ReportsApart'
  <2>1. ReportsApart /\ r.valid /\ r.run \notin runs /\ r.box \notin boxes
    BY <1>5, <1>6 DEF QualificationInv, Found, Unused
  <2>2. runs' = runs \cup {r.run} /\ boxes' = boxes \cup {r.box} /\ observed' = observed \cup {id}
    BY <1>2, <1>5, <1>6
  <2>3. \A i : Ident(i)' = Ident(i)
    BY <1>1 DEF Ident
  <2> HIDE DEF ok
  <2>4. ASSUME NEW i \in Assessed \cup {step}
        PROVE  /\ Given[i].valid /\ Ident(i) \in observed'
               /\ Given[i].run \in runs' /\ Given[i].box \in boxes'
    BY <1>3, <2>1, <2>2 DEF ReportsApart
  <2>5. ASSUME NEW i \in Assessed \cup {step}, NEW j \in Assessed \cup {step}, i # j
        PROVE  Given[i].run # Given[j].run /\ Given[i].box # Given[j].box
    BY <1>4, <2>1, <2>5 DEF ReportsApart
  <2>6. QED BY <1>1, <1>4, <2>3, <2>4, <2>5 DEF ReportsApart
<1>7. Found'
  BY <1>1, <1>6 DEF Found
<1>8. \A c \in checks' : c[2] \in {"observed", "missing", "invalid"}
  BY <1>2 DEF QualificationInv, QualificationTypeOK
<1>9. observed' \subseteq {Ident(i) : i \in {j \in 1 .. Len(Given) : Given[j].valid}}
  BY <1>1, <1>2, <1>3 DEF QualificationInv
<1>10. checks \subseteq checks' /\ step \in 0 .. Len(Given) + 2
  BY <1>1, <1>2
<1>11. QED
  BY <1>7, <1>8, <1>9, <1>10, AssessmentStep DEF AssessSuite

LEMMA BoundaryAssessed ==
    ASSUME QualificationInv, AssessBoundary
    PROVE  QualificationInv'
<1> DEFINE b == evidence.boundary
           ok == BoundaryFile \in fresh /\ b.valid /\ Unused(b)
           missing == {<<id, "missing">> : id \in Required \ observed}
           status == IF ~b.given THEN "missing" ELSE IF ok THEN "observed" ELSE "invalid"
<1>1. /\ Len(Given) \in Nat /\ Given' = Given /\ step = Len(Given) + 1 /\ step' = step + 1
      /\ evidence' = evidence /\ observed' = observed
  BY QualificationAssumption DEF QualificationInv, AssessBoundary, Advance, Given
<1>2. checks' = checks \cup missing \cup {<<<<"boundary">>, status>>}
  BY DEF AssessBoundary
<1>3. runs \subseteq runs' /\ boxes \subseteq boxes'
  BY DEF AssessBoundary
<1>4. Assessed' = 1 .. Len(Given) /\ Assessed = 1 .. Len(Given)
  BY <1>1 DEF Assessed
<1>5. ASSUME Clean' PROVE ReportsApart' /\ BoundaryFound'
  <2>1. Clean /\ ReportsApart
    BY <1>2, <1>5 DEF QualificationInv, Found, Clean
  <2>2. <<<<"boundary">>, status>> \in checks'
    BY <1>2
  <2>3. status = "observed"
    BY <1>5, <2>2 DEF Clean
  <2>4. b.given /\ ok
    BY <2>3
  <2>5. Required \subseteq observed
    <3>1. ASSUME NEW q \in Required \ observed PROVE FALSE
      <4>1. <<q, "missing">> \in checks'
        BY <1>2
      <4>2. QED BY <1>5, <4>1 DEF Clean
    <3>2. QED BY <3>1
  <2>6. \A i : Ident(i)' = Ident(i)
    BY <1>1 DEF Ident
  <2>7. b.run \notin runs /\ b.box \notin boxes /\ b.valid
    BY <2>4 DEF Unused
  <2>8. \A i \in 1 .. Len(Given) : Given[i].run # b.run /\ Given[i].box # b.box
    BY <1>4, <2>1, <2>7 DEF ReportsApart
  <2>9. BoundaryFound'
    BY <1>1, <2>4, <2>5, <2>7, <2>8 DEF BoundaryFound, Required
  <2>10. QED BY <1>1, <1>3, <1>4, <2>1, <2>6, <2>9 DEF ReportsApart
<1>6. Found'
  BY <1>1, <1>5 DEF Found
<1>7. \A c \in checks' : c[2] \in {"observed", "missing", "invalid"}
  BY <1>2 DEF QualificationInv, QualificationTypeOK
<1>8. checks \subseteq checks' /\ step \in 0 .. Len(Given) + 2
  BY <1>1, <1>2
<1>9. QED
  BY <1>1, <1>6, <1>7, <1>8, AssessmentStep DEF AssessBoundary, QualificationInv

LEMMA RegressionsAssessed ==
    ASSUME QualificationInv, AssessRegressions
    PROVE  QualificationInv'
<1> DEFINE r == evidence.regressions
           status == IF ~r.given THEN "missing"
             ELSE IF RegressionFile \notin fresh \/ ~r.current \/ r.failed THEN "invalid"
             ELSE IF ~r.complete THEN "missing" ELSE "observed"
<1>1. /\ Len(Given) \in Nat /\ Given' = Given /\ step = Len(Given) + 2 /\ step' = step + 1
      /\ evidence' = evidence /\ observed' = observed /\ runs' = runs /\ boxes' = boxes
  BY QualificationAssumption DEF QualificationInv, AssessRegressions, Advance, Given
<1>2. checks' = checks \cup {<<<<"regressions">>, status>>}
  BY DEF AssessRegressions, Check
<1>3. Assessed' = Assessed
  BY <1>1 DEF Assessed
<1>4. ASSUME Clean' PROVE Found'
  <2>1. Clean
    BY <1>2, <1>4 DEF Clean
  <2>2. ReportsApart /\ BoundaryFound
    BY <1>1, <2>1 DEF QualificationInv, Found
  <2>3. <<<<"regressions">>, status>> \in checks'
    BY <1>2
  <2>4. status = "observed"
    BY <1>4, <2>3 DEF Clean
  <2>5. RegressionsFound
    BY <2>4 DEF RegressionsFound
  <2>6. ReportsApart' /\ BoundaryFound' /\ RegressionsFound'
    BY <1>1, <1>3, <2>2, <2>5
    DEF ReportsApart, BoundaryFound, RegressionsFound, Required, Ident
  <2>7. QED BY <2>6 DEF Found
<1>5. Found'
  BY <1>4 DEF Found
<1>6. \A c \in checks' : c[2] \in {"observed", "missing", "invalid"}
  BY <1>2 DEF QualificationInv, QualificationTypeOK
<1>7. checks \subseteq checks' /\ step \in 0 .. Len(Given) + 2
  BY <1>1, <1>2
<1>8. QED
  BY <1>1, <1>5, <1>6, <1>7, AssessmentStep DEF AssessRegressions, QualificationInv

\* The packet: satisfied only if nothing was missing or invalid and all files are as named.
LEMMA PacketDecided ==
    ASSUME QualificationInv, DecidePacket
    PROVE  QualificationInv'
<1> DEFINE all == IF Recheck THEN checks ELSE checks \cup {<<<<"final">>, "invalid">>}
<1>1. /\ Len(Given) \in Nat /\ Given' = Given /\ step = Len(Given) + 3 /\ step' = step + 1
      /\ checks' = all /\ packet' = Status(all)
      /\ UNCHANGED <<evidence, fresh, observed, runs, boxes>>
  BY QualificationAssumption DEF QualificationInv, DecidePacket, Given
<1>2. Assessed = 1 .. Len(Given) /\ Assessed' = 1 .. Len(Given)
  BY <1>1 DEF Assessed
<1>3. QFiles' = QFiles
  BY <1>1 DEF QFiles, SuiteFile
<1>4. /\ packet' \in {"invalid", "incomplete", "satisfied"}
      /\ \A c \in checks' : c[2] \in {"observed", "missing", "invalid"}
      /\ packet' = "satisfied" => Recheck /\ Clean
  <2>1. Status(all) \in {"invalid", "incomplete", "satisfied"}
    BY DEF Status
  <2>2. \A c \in all : c[2] \in {"observed", "missing", "invalid"}
    BY DEF QualificationInv, QualificationTypeOK
  <2>3. Status(all) = "satisfied" => \A c \in all : c[2] = "observed"
    BY <2>2 DEF Status
  <2>4. ASSUME \A c \in all : c[2] = "observed" PROVE Recheck /\ Clean
    <3>1. <<<<"final">>, "invalid">>[2] # "observed"
      OBVIOUS
    <3>2. <<<<"final">>, "invalid">> \notin all
      BY <2>4, <3>1
    <3>3. Recheck
      BY <3>2
    <3>4. QED BY <2>4, <3>3 DEF Clean
  <2>5. QED BY <1>1, <2>1, <2>2, <2>3, <2>4
<1>5. Clean' => Clean
  BY <1>1 DEF Clean
<1>6. Clean => ReportsApart /\ BoundaryFound /\ RegressionsFound
  BY <1>1 DEF QualificationInv, Found
<1>7. Found'
  BY <1>1, <1>2, <1>5, <1>6
  DEF Found, ReportsApart, BoundaryFound, RegressionsFound, Required, Ident
<1>8. ASSUME packet' = "satisfied" PROVE SatisfiedIsComplete'
  <2>1. Recheck /\ ReportsApart /\ BoundaryFound /\ RegressionsFound
    BY <1>4, <1>6, <1>8
  <2>2. QFiles \subseteq fresh
    BY <2>1 DEF Recheck, BoundaryFound, RegressionsFound
  <2>3. Required = {Ident(i) : i \in {j \in 1 .. Len(Given) : Given[j].valid}}
    <3>1. Required \subseteq observed /\ observed \subseteq Required
      BY <2>1 DEF BoundaryFound, QualificationInv, QualificationTypeOK
    <3>2. \A i \in 1 .. Len(Given) : Ident(i) \in observed
      BY <1>2, <2>1 DEF ReportsApart
    <3>3. observed \subseteq {Ident(i) : i \in {j \in 1 .. Len(Given) : Given[j].valid}}
      BY DEF QualificationInv
    <3>4. QED BY <3>1, <3>2, <3>3
  <2>4. \A i, j \in 1 .. Len(Given) : i # j =>
           Given[i].run # Given[j].run /\ Given[i].box # Given[j].box
    BY <1>2, <2>1 DEF ReportsApart
  <2>5. Given = evidence.suites /\ evidence' = evidence /\ fresh' = fresh
    BY <1>1 DEF Given
  <2>6. QED
    BY <1>3, <2>1, <2>2, <2>3, <2>4, <2>5
    DEF SatisfiedIsComplete, BoundaryFound, RegressionsFound, Required, Ident
<1>9. SatisfiedIsComplete'
  BY <1>8 DEF SatisfiedIsComplete
<1>10. QED
  BY <1>1, <1>3, <1>4, <1>7, <1>9
  DEF QualificationInv, QualificationTypeOK, Required, Ident

\* Every step keeps the invariant.
LEMMA QualificationStep ==
    QualificationInv /\ [QualificationNext]_qualificationVars => QualificationInv'
<1> SUFFICES ASSUME QualificationInv, [QualificationNext]_qualificationVars
             PROVE  QualificationInv'
  OBVIOUS
<1>1. CASE UNCHANGED qualificationVars
  BY <1>1
  DEF qualificationVars, QualificationInv, QualificationTypeOK, QFiles, SuiteFile, Required, Given,
      Ident, Found, Clean, ReportsApart, Assessed, BoundaryFound, RegressionsFound,
      SatisfiedIsComplete
<1>2. QED
  BY <1>1, InputReplaced, InputsChecked, SuiteAssessed, BoundaryAssessed, RegressionsAssessed,
     PacketDecided
  DEF QualificationNext

\* What the run `evidence' checks of assess_qualification, for any matrix, reports and
\* replacements of files.
THEOREM QualificationSafety == QualificationSpec => []QualificationSound
<1>1. QualificationInv => QualificationSound
  BY DEF QualificationInv, QualificationSound
<1>2. QED BY <1>1, InitQualification, QualificationStep, PTL DEF QualificationSpec
=============================================================================
