---------------------------- MODULE Qualification ----------------------------
(***************************************************************************)
(* assess_qualification: from a captured deployment scope and reports of   *)
(* what ran in it, whether the mechanical part of a qualification is       *)
(* satisfied.  Every file is read by its digest, one after the other, and  *)
(* all of them once more at the end; files may be replaced in between.     *)
(*                                                                         *)
(* A report is abstracted to the run and the container it names and to     *)
(* whether its contents match the scope and the fixed cases.               *)
(***************************************************************************)
EXTENDS Naturals, FiniteSets, Sequences

CONSTANTS
    Suite, Mode,    \* the suites of the matrix and the kernel modes each requires
    Reports,        \* the sequences of suite reports that may be given
    Boundary,       \* the boundary reports that may be given
    Regression      \* the regression reports that may be given

\* A report that is valid fills one of the required modes.
ASSUME QualificationAssumption ==
    \A s \in Reports :
        /\ Len(s) \in Nat
        /\ \A i \in 1 .. Len(s) : s[i].valid => s[i].suite \in Suite /\ s[i].mode \in Mode

VARIABLES
    evidence,       \* the suite reports, boundary report and regression report
    fresh,          \* the files that are as the caller's digests say
    step,           \* the next read of assess_qualification
    checks,         \* the checks so far: an id and a status
    observed,       \* the required modes that a report filled
    runs,           \* the run ids seen
    boxes,          \* the containers seen
    packet          \* mechanical_status of the packet

qualificationVars == <<evidence, fresh, step, checks, observed, runs, boxes, packet>>

Absent == [given |-> FALSE]
Required == Suite \X Mode
\* The scope's inputs, each suite report, the boundary report and the regressions.
Inputs == <<"inputs", 0>>
BoundaryFile == <<"boundary", 0>>
RegressionFile == <<"regressions", 0>>
SuiteFile(i) == <<"suite", i>>
QFiles == {Inputs, BoundaryFile, RegressionFile} \cup
          {SuiteFile(i) : i \in 1 .. Len(evidence.suites)}

QualificationTypeOK ==
    /\ fresh \subseteq QFiles
    /\ observed \subseteq Required
    /\ packet \in {"none", "invalid", "incomplete", "satisfied"}
    /\ \A c \in checks : c[2] \in {"observed", "missing", "invalid"}

QualificationInit ==
    /\ \E s \in Reports, b \in Boundary \cup {Absent}, r \in Regression \cup {Absent} :
        evidence = [suites |-> s, boundary |-> b, regressions |-> r]
    /\ fresh = QFiles
    /\ step = 0
    /\ checks = {} /\ observed = {} /\ runs = {} /\ boxes = {}
    /\ packet = "none"

\* A file is replaced, or the named one is put back; one at a time.
ReplaceInput(f) ==
    /\ packet = "none"
    /\ QFiles \ fresh \subseteq {f}
    /\ fresh' = IF f \in fresh THEN fresh \ {f} ELSE fresh \cup {f}
    /\ UNCHANGED <<evidence, step, checks, observed, runs, boxes, packet>>

Check(id, status) == checks' = checks \cup {<<id, status>>}
Advance == step' = step + 1 /\ UNCHANGED <<evidence, fresh, packet>>

\* capture_scope: the current inputs are those of the scope.
CurrentInputs ==
    /\ step = 0 /\ Advance
    /\ Check(<<"inputs">>, IF Inputs \in fresh THEN "observed" ELSE "invalid")
    /\ UNCHANGED <<observed, runs, boxes>>

AnyBox(r) == r.run \notin runs                                      \* mutant
\* A run id and its containers support one report only.
Unused(r) == r.run \notin runs /\ r.box \notin boxes

\* _suite_report.  The run id counts as seen even if the report is refused.
AssessSuite ==
    LET r == evidence.suites[step]
        id == <<r.suite, r.mode>>
        ok == SuiteFile(step) \in fresh /\ r.valid /\ Unused(r) /\ id \notin observed IN
    /\ step \in 1 .. Len(evidence.suites) /\ Advance
    /\ Check(id, IF ok THEN "observed" ELSE "invalid")
    /\ observed' = IF ok THEN observed \cup {id} ELSE observed
    /\ runs' = IF SuiteFile(step) \in fresh THEN runs \cup {r.run} ELSE runs
    /\ boxes' = IF SuiteFile(step) \in fresh /\ r.run \notin runs /\ r.valid THEN boxes \cup {r.box}
                ELSE boxes

\* _boundary_report, after the modes that no report filled.
AssessBoundary ==
    LET b == evidence.boundary
        ok == BoundaryFile \in fresh /\ b.valid /\ Unused(b)
        missing == {<<id, "missing">> : id \in Required \ observed} IN
    /\ step = Len(evidence.suites) + 1 /\ Advance
    /\ checks' = checks \cup missing \cup
                 {<<<<"boundary">>, IF ~b.given THEN "missing" ELSE IF ok THEN "observed"
                                ELSE "invalid">>}
    /\ runs' = IF b.given /\ ok THEN runs \cup {b.run} ELSE runs
    /\ boxes' = IF b.given /\ ok THEN boxes \cup {b.box} ELSE boxes
    /\ UNCHANGED observed

\* _regressions: every required test is in the report of this scope and passed.
AssessRegressions ==
    LET r == evidence.regressions IN
    /\ step = Len(evidence.suites) + 2 /\ Advance
    /\ Check(<<"regressions">>,
             IF ~r.given THEN "missing"
             ELSE IF RegressionFile \notin fresh \/ ~r.current \/ r.failed THEN "invalid"
             ELSE IF ~r.complete THEN "missing" ELSE "observed")
    /\ UNCHANGED <<observed, runs, boxes>>

\* Every input and report that was given is read once more.
Recheck ==
    QFiles \ (  (IF evidence.boundary.given THEN {} ELSE {BoundaryFile})
             \cup (IF evidence.regressions.given THEN {} ELSE {RegressionFile})) \subseteq fresh

Status(cs) == IF \E c \in cs : c[2] = "invalid" THEN "invalid"
              ELSE IF \E c \in cs : c[2] = "missing" THEN "incomplete" ELSE "satisfied"

DecidePacket ==
    LET all == IF Recheck THEN checks ELSE checks \cup {<<<<"final">>, "invalid">>} IN
    /\ step = Len(evidence.suites) + 3
    /\ step' = step + 1
    /\ checks' = all
    /\ packet' = Status(all)
    /\ UNCHANGED <<evidence, fresh, observed, runs, boxes>>

QualificationNext ==
    \/ \E f \in QFiles : ReplaceInput(f)
    \/ CurrentInputs \/ AssessSuite \/ AssessBoundary \/ AssessRegressions \/ DecidePacket

QualificationSpec == QualificationInit /\ [][QualificationNext]_qualificationVars
-----------------------------------------------------------------------------
(* Properties. *)

\* A packet is satisfied only if, for files that were all as named at the end,
\* each suite has a valid report in each mode, the boundary and the regressions
\* have one, and no two of them rest on the same run or the same container.
SatisfiedIsComplete ==
    LET s == evidence.suites IN
    packet = "satisfied" =>
        /\ QFiles \subseteq fresh
        /\ Required = {<<s[i].suite, s[i].mode>> : i \in {j \in 1 .. Len(s) : s[j].valid}}
        /\ evidence.boundary.given /\ evidence.boundary.valid
        /\ evidence.regressions.given /\ evidence.regressions.current
        /\ evidence.regressions.complete /\ ~evidence.regressions.failed
        /\ \A i, j \in 1 .. Len(s) : i # j => s[i].run # s[j].run /\ s[i].box # s[j].box
        /\ \A i \in 1 .. Len(s) : /\ s[i].run # evidence.boundary.run
                                  /\ s[i].box # evidence.boundary.box

\* A satisfied packet is complete.
QualificationSound == QualificationTypeOK /\ SatisfiedIsComplete
=============================================================================
