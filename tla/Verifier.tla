------------------------------- MODULE Verifier -------------------------------
(***************************************************************************)
(* The verification boundary: how a candidate becomes "verified".          *)
(* ComparatorVerifier.verify and EngineeringVerifier.run check the request,*)
(* read the pinned bundle, take the host's one checker slot, start a       *)
(* container with the pinned image and read the result of the driver that  *)
(* runs in it; then they inspect and remove the container.                 *)
(*                                                                         *)
(* Meanwhile the files of the host may be replaced, Docker calls may fail  *)
(* or time out, the comparator may be killed, and a checker process may    *)
(* die at any step.  Digests are what they are computed from.              *)
(***************************************************************************)
EXTENDS Naturals, FiniteSets

CONSTANTS
    Checker,        \* processes that verify
    Request,        \* the requests made
    KernelPinned,   \* the qualified image has an independent kernel
    MaxChanges      \* bound: replacements of the host's files

ASSUME VerifierAssumption ==
    /\ Request \subseteq [scientific : BOOLEAN, digest : BOOLEAN, reviewed : BOOLEAN,
                          holes : BOOLEAN, matches : BOOLEAN, publication : BOOLEAN]
    /\ KernelPinned \in BOOLEAN /\ MaxChanges \in Nat

VARIABLES
    pinned,         \* which files of the host are the pinned ones
    changes,        \* replacements so far
    checker,        \* each process
    holder,         \* the process that has the checker slot
    box,            \* each process's container
    ran             \* history: what the comparator did for each process

verifierVars == <<pinned, changes, checker, holder, box, ran>>

\* The bundle directory, and the harness's own driver, launcher and policies.
HostFile == {"bundle", "sources"}
NoHolder == "none"
NoResult == [status |-> "none", kernel |-> FALSE]
NotRun == [accepted |-> FALSE, kernel |-> FALSE, oom |-> FALSE]
NewChecker(r) == [pc |-> "bundle", req |-> r, sources |-> FALSE, result |-> NoResult,
                  failed |-> FALSE, oom |-> FALSE, verdict |-> "none"]
Resting == {"free", "dead"}

VerifierTypeOK ==
    /\ pinned \in [HostFile -> BOOLEAN] /\ changes \in 0 .. MaxChanges
    /\ holder \in Checker \cup {NoHolder}
    /\ box \in [Checker -> {"none", "running", "ended"}]
    /\ ran \in [Checker -> [accepted : BOOLEAN, kernel : BOOLEAN, oom : BOOLEAN]]
    /\ \A c \in Checker : checker[c].verdict \in {"none", "verified", "rejected", "blocked"}

VerifierInit ==
    /\ pinned = [f \in HostFile |-> TRUE] /\ changes = 0
    /\ checker \in [Checker -> {[NewChecker(r) EXCEPT !.pc = "free"] : r \in Request}]
    /\ holder = NoHolder
    /\ box = [c \in Checker |-> "none"]
    /\ ran = [c \in Checker |-> NotRun]

Ends(c, verdict) == checker' = [checker EXCEPT ![c].pc = "free", ![c].verdict = verdict]

\* An operator replaces or restores files of the host.
ReplaceFile(f) ==
    /\ changes < MaxChanges
    /\ changes' = changes + 1
    /\ pinned' = [pinned EXCEPT ![f] = ~@]
    /\ UNCHANGED <<checker, holder, box, ran>>
-----------------------------------------------------------------------------
\* candidate_preflight and, for a scientific request, preflight.
Preflight(r) ==
    CASE ~r.digest                       -> "rejected"
      [] r.scientific /\ ~r.reviewed     -> "blocked"
      [] r.scientific /\ r.holes         -> "blocked"
      [] OTHER                           -> "none"

\* verify or run begins.  A verdict is not asked for twice.
Submit(c) ==
    LET early == Preflight(checker[c].req) IN
    /\ checker[c].pc = "free" /\ checker[c].verdict = "none"
    /\ IF early = "none" THEN checker' = [checker EXCEPT ![c].pc = "bundle"]
       ELSE Ends(c, early)
    /\ UNCHANGED <<pinned, changes, holder, box, ran>>

\* _bundle: every file is the pinned one and the manifest is the request's.
BundleValid(r) == pinned["bundle"] /\ pinned["sources"] /\ r.matches
\* _publication_preflight
KernelReady(r) == r.publication => KernelPinned

ReadBundle(c) ==
    /\ checker[c].pc = "bundle"
    /\ IF BundleValid(checker[c].req) /\ KernelReady(checker[c].req)
       THEN checker' = [checker EXCEPT ![c].pc = "slot"]
       ELSE Ends(c, "blocked")
    /\ UNCHANGED <<pinned, changes, holder, box, ran>>

\* checker_slot: checker_busy if another process has it.
EnterSlot(c) ==
    /\ checker[c].pc = "slot"
    /\ IF holder = NoHolder
       THEN holder' = c /\ checker' = [checker EXCEPT ![c].pc = "stage"]
       ELSE UNCHANGED holder /\ Ends(c, "blocked")
    /\ UNCHANGED <<pinned, changes, box, ran>>

\* The files read before are staged with the digests of the sources as they
\* are now, and `docker run` starts the container.
Stage(c) ==
    /\ checker[c].pc = "stage"
    /\ checker' = [checker EXCEPT ![c].pc = "run", ![c].sources = pinned["sources"]]
    /\ box' = [box EXCEPT ![c] = "running"]
    /\ UNCHANGED <<pinned, changes, holder, ran>>

\* Docker is missing, or the container does not start.
StageFails(c) ==
    /\ checker[c].pc = "stage"
    /\ checker' = [checker EXCEPT ![c].pc = "inspect", ![c].failed = TRUE]
    /\ UNCHANGED <<pinned, changes, holder, box, ran>>
-----------------------------------------------------------------------------
(* The driver in the container *)

\* main and classify_execution: the boundary and the digests hold, the
\* comparator exits with 0 and no memory kill is observed.
DriverStatus(ok, zero, oom) == IF ok /\ zero /\ ~oom THEN "verified" ELSE "blocked"

\* What the driver's own source must be for its digest check to pass.
DriverChecks(c, boundary) == boundary /\ checker[c].sources

\* The driver runs to its end and prints its result.  `zero` is the comparator's
\* exit with 0, `oom` a kill for memory, which the driver or Docker may observe.
DriverEnds(c, boundary, zero, oom, seen) ==
    LET ok == DriverChecks(c, boundary)
        status == DriverStatus(ok, zero, oom /\ seen) IN
    /\ box[c] = "running"
    /\ box' = [box EXCEPT ![c] = "ended"]
    /\ ran' = [ran EXCEPT ![c] = [accepted |-> ok /\ zero, oom |-> oom /\ seen,
                                  kernel |-> checker[c].req.publication]]
    /\ IF checker[c].pc = "run"
       THEN checker' = [checker EXCEPT ![c].oom = oom,
                ![c].result = [status |-> status,
                               kernel |-> status = "verified" /\ checker[c].req.publication]]
       ELSE UNCHANGED checker
    /\ UNCHANGED <<pinned, changes, holder>>

\* `docker run` ends with the result.
ReadResult(c) ==
    /\ checker[c].pc = "run" /\ box[c] = "ended"
    /\ checker' = [checker EXCEPT ![c].pc = "inspect"]
    /\ UNCHANGED <<pinned, changes, holder, box, ran>>

\* bounded_process gives up: a timeout, too much output, or an exit code.  The
\* container may still run.
RunFails(c) ==
    /\ checker[c].pc = "run"
    /\ checker' = [checker EXCEPT ![c].pc = "inspect", ![c].failed = TRUE]
    /\ UNCHANGED <<pinned, changes, holder, box, ran>>

\* _container_state: Docker's memory-kill flag overrides the result, when it can
\* be read.
InspectBox(c, readable) ==
    LET oom == readable /\ checker[c].oom IN
    /\ checker[c].pc = "inspect"
    /\ checker' = [checker EXCEPT ![c].pc = "cleanup",
                     ![c].result = IF oom THEN [status |-> "blocked", kernel |-> FALSE] ELSE @]
    /\ ran' = [ran EXCEPT ![c].oom = @ \/ oom]
    /\ UNCHANGED <<pinned, changes, holder, box>>

IgnoresCleanup(c) == checker[c].failed                              \* mutant
\* A failed removal replaces any result.
CleanupFailure(c) == TRUE

\* _cleanup_container: removed, or listed as absent; otherwise the check fails.
\* Then the slot is free.
CleanUp(c, removed) ==
    /\ checker[c].pc = "cleanup"
    /\ checker' = [checker EXCEPT ![c].pc = "judge",
                                  ![c].failed = @ \/ (~removed /\ CleanupFailure(c))]
    /\ box' = IF removed THEN [box EXCEPT ![c] = "none"] ELSE box
    /\ holder' = NoHolder
    /\ UNCHANGED <<pinned, changes, ran>>

\* _verify_pinned after the container.
Verdict(r, result, failed) ==
    IF failed \/ result.status # "verified" \/ (r.publication /\ ~result.kernel)
    THEN "blocked" ELSE "verified"

Judge(c) ==
    /\ checker[c].pc = "judge"
    /\ Ends(c, Verdict(checker[c].req, checker[c].result, checker[c].failed))
    /\ UNCHANGED <<pinned, changes, holder, box, ran>>

\* The process dies; the kernel frees its slot, its container is left.
CheckerDies(c) ==
    /\ checker[c].pc \notin Resting
    /\ checker' = [checker EXCEPT ![c].pc = "dead"]
    /\ holder' = IF holder = c THEN NoHolder ELSE holder
    /\ UNCHANGED <<pinned, changes, box, ran>>

VerifierNext ==
    \/ \E f \in HostFile : ReplaceFile(f)
    \/ \E c \in Checker :
        \/ Submit(c) \/ ReadBundle(c) \/ EnterSlot(c) \/ Stage(c) \/ StageFails(c)
        \/ ReadResult(c) \/ RunFails(c) \/ Judge(c) \/ CheckerDies(c)
        \/ \E b, z, o, s \in BOOLEAN : DriverEnds(c, b, z, o, s)
        \/ \E yes \in BOOLEAN : InspectBox(c, yes) \/ CleanUp(c, yes)

VerifierSpec == VerifierInit /\ [][VerifierNext]_verifierVars
-----------------------------------------------------------------------------
(* Properties. *)

\* A candidate is reported as verified only for a reviewed target without holes
\* whose bytes were sent, when the comparator of the pinned image ran on the
\* pinned bundle and accepted it, no kill for memory was observed, with the
\* independent kernel if it is for publication, and the container is gone.
VerifiedMeansChecked ==
    \A c \in Checker :
        LET r == checker[c].req IN
        checker[c].verdict = "verified" =>
            /\ r.digest /\ r.matches /\ (r.scientific => r.reviewed /\ ~r.holes)
            /\ ran[c].accepted /\ ~ran[c].oom
            /\ r.publication => ran[c].kernel /\ KernelPinned
            /\ box[c] = "none"

\* A verified answer stands for a whole check.
VerifierSound == VerifierTypeOK /\ VerifiedMeansChecked
=============================================================================
