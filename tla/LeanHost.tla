------------------------------ MODULE LeanHost ------------------------------
(***************************************************************************)
(* LeanSession on the host: how a check, a batch of statements or a        *)
(* statement verdict is obtained from the workspace.  The backend is       *)
(* chosen once; a request file is piped to the daemon, which may be gone   *)
(* after a restore of the VM and is then uploaded again; a REPL that       *)
(* cannot start is replaced by one-shot Lean with a second run for the     *)
(* axioms.  Every step may fail or time out.                               *)
(*                                                                         *)
(* A source is described by what Lean would say of it: where its errors    *)
(* are (0: in the header, i: in its i-th statement), whether it has a      *)
(* sorry, whether an axiom report shows sorryAx, whether it ends early.    *)
(***************************************************************************)
EXTENDS Naturals, Sequences, FiniteSets, SequencesExt

CONSTANTS
    LeanCheck,          \* calls of check and elaborate_statements
    Sources,            \* sources that a call may submit
    Statements,         \* 1 .. the number of statements in a batch
    MaxMessages,        \* MAX_MESSAGES
    ReplBinary,         \* whether the image has a REPL
    Background,         \* whether the provider lets processes outlive a command
    MaxLosses           \* bound of the model: restores and failures

ASSUME LeanHostAssumption ==
    /\ Sources \subseteq [errors : Seq(Statements \cup {0}), sorry : BOOLEAN,
                          sorryAx : BOOLEAN, exits : BOOLEAN]
    /\ MaxMessages \in Nat \ {0}
    /\ ReplBinary \in BOOLEAN /\ Background \in BOOLEAN /\ MaxLosses \in Nat

VARIABLES
    leanBackend,        \* _backend
    daemonThere,        \* the daemon's file is in the VM
    leanCall,           \* each call: where it is, its source, attempt and report, and (a
                        \* history) whether the output of a one-shot run was cut off
    verdict,            \* each call: what it answered
    losses              \* restores and failures so far

leanHostVars == <<leanBackend, daemonThere, leanCall, verdict, losses>>

Unknown == [ok |-> FALSE, complete |-> FALSE, infra |-> FALSE, passed |-> {}]
NoReportYet == [errors |-> <<>>, sorry |-> FALSE, sorryAx |-> FALSE, phase |-> FALSE,
                failure |-> FALSE]

LeanHostTypeOK ==
    /\ leanBackend \in {"unknown", "repl", "repl_inline", "one_shot"}
    /\ daemonThere \in BOOLEAN
    /\ \A c \in LeanCheck :
        /\ leanCall[c].pc \in {"new", "probe", "write", "run", "read", "scratch", "axioms", "done"}
        /\ leanCall[c].attempt \in 0 .. 1 /\ leanCall[c].cut \in BOOLEAN
        /\ verdict[c].passed \subseteq Statements
    /\ losses \in 0 .. MaxLosses

LeanHostInit ==
    /\ leanBackend = "unknown" /\ daemonThere = FALSE
    /\ leanCall \in [LeanCheck -> [pc : {"new"}, source : Sources, attempt : {0},
                                   report : {NoReportYet}, cut : {FALSE}]]
    /\ verdict = [c \in LeanCheck |-> Unknown]
    /\ losses = 0

At(c, pc) == leanCall[c].pc = pc
Step(c, pc) == leanCall' = [leanCall EXCEPT ![c].pc = pc]

\* The VM was restored, or the agent removed the file.
LoseDaemon ==
    /\ losses < MaxLosses /\ daemonThere
    /\ daemonThere' = FALSE /\ losses' = losses + 1
    /\ UNCHANGED <<leanBackend, leanCall, verdict>>
-----------------------------------------------------------------------------
(* _select_backend *)

BeginCheck(c) ==
    /\ At(c, "new")
    /\ Step(c, IF leanBackend = "unknown" THEN "probe"
               ELSE IF leanBackend = "one_shot" THEN "scratch" ELSE "write")
    /\ UNCHANGED <<leanBackend, daemonThere, verdict, losses>>

\* The probe finds a REPL (or fails to); its daemon is uploaded.
SelectBackend(c) ==
    /\ At(c, "probe")
    /\ \/ /\ ReplBinary
          /\ leanBackend' = IF Background THEN "repl" ELSE "repl_inline"
          /\ daemonThere' = TRUE /\ losses' = losses
          /\ Step(c, "write")
       \/ /\ ~ReplBinary \/ losses < MaxLosses
          /\ leanBackend' = "one_shot"
          /\ losses' = IF ReplBinary THEN losses + 1 ELSE losses
          /\ UNCHANGED daemonThere
          /\ Step(c, "scratch")
    /\ UNCHANGED verdict
-----------------------------------------------------------------------------
(* _request and _interpret *)

WriteRequest(c) ==
    /\ At(c, "write")
    /\ Step(c, "run")
    /\ UNCHANGED <<leanBackend, daemonThere, verdict, losses>>

\* select_messages: at most MaxMessages are kept, errors first.
Shown(errors) == SubSeq(errors, 1, IF Len(errors) < MaxMessages THEN Len(errors) ELSE MaxMessages)

\* What the daemon, or Lean itself, reports of a source.
Report(s) == [errors |-> Shown(s.errors), sorry |-> s.sorry, sorryAx |-> s.sorryAx,
              phase |-> FALSE, failure |-> FALSE]

\* The command ran with the daemon in place.
RunCheck(c) ==
    /\ At(c, "run") /\ daemonThere
    /\ leanCall' = [leanCall EXCEPT ![c].pc = "read",
                                    ![c].report = Report(leanCall[c].source)]
    /\ UNCHANGED <<leanBackend, daemonThere, verdict, losses>>

\* A timeout or crash: of the whole request, or of the axiom report after the body.
RunFails(c) ==
    /\ At(c, "run") /\ daemonThere /\ losses < MaxLosses
    /\ losses' = losses + 1
    /\ \E whole \in BOOLEAN :
        leanCall' = [leanCall EXCEPT ![c].pc = "read",
            ![c].report = IF whole THEN [NoReportYet EXCEPT !.failure = TRUE]
                          ELSE [Report(leanCall[c].source) EXCEPT !.phase = TRUE,
                                                                  !.sorryAx = FALSE]]
    /\ UNCHANGED <<leanBackend, daemonThere, verdict>>

\* The daemon was missing: upload it and try once more, then give up on the REPL.
DaemonMissing(c) ==
    /\ At(c, "run") /\ ~daemonThere
    /\ IF leanCall[c].attempt = 0
       THEN /\ daemonThere' = TRUE
            /\ leanCall' = [leanCall EXCEPT ![c].pc = "write", ![c].attempt = 1]
            /\ UNCHANGED leanBackend
       ELSE /\ leanBackend' = "one_shot"
            /\ Step(c, "scratch")
            /\ UNCHANGED daemonThere
    /\ UNCHANGED <<verdict, losses>>

\* The daemon answers that the REPL cannot start: one-shot from now on.
ReplCannotStart(c) ==
    /\ At(c, "run") /\ daemonThere /\ losses < MaxLosses
    /\ losses' = losses + 1
    /\ leanBackend' = "one_shot"
    /\ Step(c, "scratch")
    /\ UNCHANGED <<daemonThere, verdict>>

OnlyMoreErrors(r) == r.failure \/ Len(r.errors) > MaxMessages       \* mutant
\* elaborate_statements: a failure without a line, or a list of errors that may have been
\* cut, judges no statement.
JudgesNothing(r) == r.failure \/ Len(r.errors) >= MaxMessages

\* Otherwise a statement passes if no error is in its lines or outside all of them.
Passed(r) ==
    IF JudgesNothing(r) THEN {}
    ELSE {i \in Statements : 0 \notin Range(r.errors) /\ i \notin Range(r.errors)}

Answer(r, axiomsOk) ==
    [ok |-> ~r.failure /\ r.errors = <<>>,
     complete |-> ~r.failure /\ r.errors = <<>> /\ ~r.sorry /\ ~r.phase /\ axiomsOk
                  /\ ~r.sorryAx,
     infra |-> JudgesNothing(r) \/ r.phase, passed |-> Passed(r)]

ReadAnswer(c) ==
    /\ At(c, "read")
    /\ verdict' = [verdict EXCEPT ![c] = Answer(leanCall[c].report, TRUE)]
    /\ Step(c, "done")
    /\ UNCHANGED <<leanBackend, daemonThere, losses>>
-----------------------------------------------------------------------------
(* _one_shot *)

\* lake env lean on a scratch file; no axioms are seen yet.  The output may be cut at
\* max_output_bytes or Lean may be killed, and then only the first errors are there, or
\* none, and perhaps no sorry.  A status other than 0 becomes an error without a line
\* only if no error was printed; that the output was cut is never read.
OneShot(c) ==
    LET s == leanCall[c].source IN
    /\ At(c, "scratch")
    /\ \E cut, killed \in BOOLEAN, n \in 0 .. Len(s.errors), sorry \in {s.sorry, FALSE} :
        LET exit == killed \/ s.errors # <<>>
            r == [errors |-> Shown(SubSeq(s.errors, 1, n)), sorry |-> sorry, sorryAx |-> FALSE,
                  phase |-> FALSE, failure |-> exit /\ n = 0]
        IN  /\ killed => cut
            /\ ~cut => n = Len(s.errors) /\ sorry = s.sorry
            /\ cut => losses < MaxLosses
            /\ losses' = IF cut THEN losses + 1 ELSE losses
            /\ leanCall' = [leanCall EXCEPT
                    ![c].pc = IF n = 0 /\ ~exit /\ ~sorry THEN "axioms" ELSE "read",
                    ![c].report = r, ![c].cut = @ \/ cut]
    /\ UNCHANGED <<leanBackend, daemonThere, verdict>>

\* _appended_axioms: the second run may fail, be cut short of its reports or of some of
\* them; it counts if it succeeded and one of the lines that were appended to the source
\* shows a report.
OneShotAxioms(c) ==
    LET s == leanCall[c].source
    IN  /\ At(c, "axioms")
        /\ \E ran, cut \in BOOLEAN, sorryAx \in {s.sorryAx, FALSE} :
            /\ cut => ran
            /\ ~cut => sorryAx = s.sorryAx
            /\ (ran /\ ~cut) \/ losses < MaxLosses
            /\ losses' = IF ran /\ ~cut THEN losses ELSE losses + 1
            /\ verdict' = [verdict EXCEPT ![c] =
                 Answer([leanCall[c].report EXCEPT !.sorryAx = ran /\ ~s.exits /\ sorryAx],
                        ran /\ ~s.exits)]
            /\ leanCall' = [leanCall EXCEPT ![c].pc = "done", ![c].cut = @ \/ cut]
        /\ UNCHANGED <<leanBackend, daemonThere>>

LeanHostNext ==
    \/ LoseDaemon
    \/ \E c \in LeanCheck :
        \/ BeginCheck(c) \/ SelectBackend(c) \/ WriteRequest(c) \/ RunCheck(c) \/ RunFails(c)
        \/ DaemonMissing(c) \/ ReplCannotStart(c) \/ ReadAnswer(c) \/ OneShot(c)
        \/ OneShotAxioms(c)

LeanHostSpec == LeanHostInit /\ [][LeanHostNext]_leanHostVars
-----------------------------------------------------------------------------
(* Properties *)

\* A check that reports "ok" compiled without error, whichever backend served it and
\* whatever failed on the way.  Unless the output of a one-shot run was cut off, one that
\* reports "complete" has no sorry and no sorryAx, and a statement of a batch passes only
\* if Lean found no error in it or in the header, even when the list of messages was cut.
HonestLeanResult ==
    \A c \in LeanCheck :
        LET s == leanCall[c].source
        IN  /\ verdict[c].ok \/ verdict[c].complete => s.errors = <<>>
            /\ leanCall[c].cut
                \/ /\ verdict[c].complete => ~s.sorry /\ ~s.sorryAx
                   /\ \A i \in verdict[c].passed :
                        i \notin Range(s.errors) /\ 0 \notin Range(s.errors)

\* The host passes on nothing that Lean did not say.
LeanHostSound == LeanHostTypeOK /\ HonestLeanResult
=============================================================================
