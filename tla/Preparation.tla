---------------------------- MODULE Preparation ----------------------------
(***************************************************************************)
(* prepare-run and the preflight: an operator's process reads a plan and   *)
(* its inputs from files and creates campaign, problem, experiment and     *)
(* manifest, each in a transaction of its own, under keys made from the    *)
(* run id.  A process may die between any two; the operator may edit the   *)
(* files and start it again, also while another process still runs.  The   *)
(* preflight reads the records one by one while reviewers decide.          *)
(***************************************************************************)
EXTENDS Naturals, Sequences

CONSTANTS
    Preparer,       \* the processes of prepare-run with the same run id
    Launcher,       \* the processes of run-team
    Version,        \* what a file says
    MaxRevisions,   \* bound of the model on edits of the files
    MaxDecisions    \* bound of the model on reviews

\* Zero stands for what was not read or recorded yet.
ASSUME PreparationAssumption ==
    /\ Version # {} /\ 0 \notin Version
    /\ MaxRevisions \in Nat /\ MaxDecisions \in Nat

VARIABLES
    disk,           \* the plan (campaign, target and setup), and the source and environment
                    \* that the target names
    revisions,      \* edits of the files so far
    preparer,       \* each process: where it is, and what it read
    recorded,       \* what each of the run's commands was recorded with
    decisions,      \* the reviews of the target: TRUE approves
    launcher,       \* each launcher: where it is, blockers found, the review it read, and
                    \* (history) whether the target was approved while it looked
    started         \* whether the experiment was started

prepareVars == <<disk, revisions, preparer, recorded, decisions, launcher, started>>

Nothing == [campaign |-> 0, target |-> 0, setup |-> 0, source |-> 0]
Input == [campaign : Version \cup {0}, target : Version \cup {0}, setup : Version \cup {0},
          source : Version \cup {0}]
NewLauncher == [pc |-> "idle", blocked |-> FALSE, review |-> 0, reviewed |-> FALSE]

\* The run's commands, in the order in which they are issued.
PrepareStep == <<"campaign", "problem", "experiment", "manifest">>

PreparationTypeOK ==
    /\ disk \in [campaign : Version, target : Version, setup : Version, source : Version]
    /\ revisions \in 0 .. MaxRevisions
    /\ preparer \in [Preparer -> [pc : {"plan", "source", "create", "prepared", "conflict",
                                        "refused", "dead"},
                                  next : 1 .. 4, read : Input]]
    /\ recorded \in [{"campaign", "problem", "experiment", "manifest"} -> Input]
    /\ decisions \in UNION {[1 .. n -> BOOLEAN] : n \in 0 .. MaxDecisions}
    /\ launcher \in [Launcher -> [pc : {"idle", "problem", "review", "ready", "started",
                                        "blocked"},
                                  blocked : BOOLEAN, review : 0 .. MaxDecisions,
                                  reviewed : BOOLEAN]]
    /\ started \in BOOLEAN

PreparationInit ==
    /\ LET v == CHOOSE v \in Version : TRUE
       IN  disk = [campaign |-> v, target |-> v, setup |-> v, source |-> v]
    /\ revisions = 0
    /\ preparer = [p \in Preparer |-> [pc |-> "plan", next |-> 1, read |-> Nothing]]
    /\ recorded = [k \in {"campaign", "problem", "experiment", "manifest"} |-> Nothing]
    /\ decisions = <<>>
    /\ launcher = [l \in Launcher |-> NewLauncher]
    /\ started = FALSE
-----------------------------------------------------------------------------
(* prepare_run *)

\* The operator edits the plan or the source.
Revise(part, v) ==
    /\ revisions < MaxRevisions /\ disk[part] # v
    /\ disk' = [disk EXCEPT ![part] = v]
    /\ revisions' = revisions + 1
    /\ UNCHANGED <<preparer, recorded, decisions, launcher, started>>

\* prepare-run reads and validates the plan; a plan that does not validate ends it.
ReadPlan(p, valid) ==
    /\ preparer[p].pc = "plan"
    /\ preparer' = [preparer EXCEPT ![p].pc = IF valid THEN "source" ELSE "refused",
                                    ![p].read = [disk EXCEPT !.source = 0]]
    /\ UNCHANGED <<disk, revisions, recorded, decisions, launcher, started>>

\* prepare_run reads the inputs that the plan names, before the first command.
ReadInput(p, valid) ==
    /\ preparer[p].pc = "source"
    /\ preparer' = [preparer EXCEPT ![p].pc = IF valid THEN "create" ELSE "refused",
                                    ![p].read.source = disk.source]
    /\ UNCHANGED <<disk, revisions, recorded, decisions, launcher, started>>

\* The inputs of a command: the part of the plan, or all of it in the manifest, which the
\* record is made from.
CommandInputs(step, read) ==
    CASE step = "campaign" -> [Nothing EXCEPT !.campaign = read.campaign]
      [] step = "problem" -> [Nothing EXCEPT !.target = read.target, !.source = read.source]
      [] step = "experiment" -> [Nothing EXCEPT !.setup = read.setup]
      [] step = "manifest" -> read

IgnoresInputs(step, read) == TRUE                                   \* mutant
\* _execute: a key that was used before must come with the same inputs.
SameInputs(step, read) == recorded[step] \in {Nothing, CommandInputs(step, read)}

\* The next command: it creates its record, or is answered with the record of the same
\* command of another process.
IssueCommand(p) ==
    LET step == PrepareStep[preparer[p].next]
        read == preparer[p].read
    IN  /\ preparer[p].pc = "create"
        /\ IF SameInputs(step, read)
           THEN /\ recorded' = [recorded EXCEPT ![step] = IF @ = Nothing
                                                        THEN CommandInputs(step, read) ELSE @]
                /\ preparer' = IF step = "manifest"
                               THEN [preparer EXCEPT ![p].pc = "prepared"]
                               ELSE [preparer EXCEPT ![p].next = @ + 1]
           ELSE /\ preparer' = [preparer EXCEPT ![p].pc = "conflict"]
                /\ recorded' = recorded
        /\ UNCHANGED <<disk, revisions, decisions, launcher, started>>

PreparerDies(p) ==
    /\ preparer[p].pc \in {"source", "create"}
    /\ preparer' = [preparer EXCEPT ![p].pc = "dead"]
    /\ UNCHANGED <<disk, revisions, recorded, decisions, launcher, started>>
-----------------------------------------------------------------------------
(* Reviews of the target, and run_preflight *)

NowApproved == IF decisions = <<>> THEN FALSE ELSE decisions[Len(decisions)]

\* review_problem
ReviewTarget(approve) ==
    /\ recorded["problem"] # Nothing /\ Len(decisions) < MaxDecisions
    /\ decisions' = Append(decisions, approve)
    /\ launcher' = [l \in Launcher |-> [launcher[l] EXCEPT
                        !.reviewed = @ \/ (approve /\ launcher[l].pc # "idle")]]
    /\ UNCHANGED <<disk, revisions, preparer, recorded, started>>

\* run_preflight reads the experiment; whatever else it checks may block.
BeginPreflight(l, blocked) ==
    /\ launcher[l].pc = "idle" /\ recorded["experiment"] # Nothing
    /\ launcher' = [launcher EXCEPT ![l] = [pc |-> "problem", blocked |-> blocked, review |-> 0,
                                            reviewed |-> NowApproved]]
    /\ UNCHANGED <<disk, revisions, preparer, recorded, decisions, started>>

\* It reads the problem with its latest decision.
ReadTarget(l) ==
    /\ launcher[l].pc = "problem"
    /\ launcher' = [launcher EXCEPT ![l].pc = "review", ![l].blocked = @ \/ ~NowApproved,
                                    ![l].review = Len(decisions)]
    /\ UNCHANGED <<disk, revisions, preparer, recorded, decisions, started>>

\* It reads the review that the problem named, and reports.
ReadReview(l) ==
    LET ok == ~launcher[l].blocked /\ decisions[launcher[l].review]
    IN  /\ launcher[l].pc = "review"
        /\ launcher' = [launcher EXCEPT ![l].pc = IF ok THEN "ready" ELSE "blocked"]
        /\ UNCHANGED <<disk, revisions, preparer, recorded, decisions, started>>

\* run-team then starts the experiment, unless it was started; the transition needs an
\* approved target.
StartExperiment(l) ==
    /\ launcher[l].pc = "ready"
    /\ IF started \/ NowApproved
       THEN /\ started' = TRUE
            /\ launcher' = [launcher EXCEPT ![l].pc = "started"]
       ELSE /\ started' = started
            /\ launcher' = [launcher EXCEPT ![l].pc = "blocked"]
    /\ UNCHANGED <<disk, revisions, preparer, recorded, decisions>>

PreparationNext ==
    \/ \E part \in {"campaign", "target", "setup", "source"}, v \in Version : Revise(part, v)
    \/ \E p \in Preparer :
        \/ IssueCommand(p) \/ PreparerDies(p)
        \/ \E valid \in BOOLEAN : ReadPlan(p, valid) \/ ReadInput(p, valid)
    \/ \E approve \in BOOLEAN : ReviewTarget(approve)
    \/ \E l \in Launcher :
        \/ ReadTarget(l) \/ ReadReview(l) \/ StartExperiment(l)
        \/ \E blocked \in BOOLEAN : BeginPreflight(l, blocked)

PreparationSpec == PreparationInit /\ [][PreparationNext]_prepareVars
-----------------------------------------------------------------------------
(* Properties *)

\* The records of a run come from one plan and one source: what the manifest says is what
\* the campaign, the problem and the experiment were created from, however often
\* preparation died, was repeated after an edit of the files, or ran twice at once; and a
\* process that reports a prepared run read exactly that.
PreparedTogether ==
    /\ recorded["manifest"] # Nothing =>
          \A step \in {"campaign", "problem", "experiment"} :
              recorded[step] = CommandInputs(step, recorded["manifest"])
    /\ \A p \in Preparer : preparer[p].pc = "prepared" => preparer[p].read = recorded["manifest"]

\* A preflight that found nothing missing was made while the target was approved.
ReadyWasReviewed ==
    \A l \in Launcher : launcher[l].pc \in {"ready", "started"} => launcher[l].reviewed

\* A prepared run is one run, and it is ready only for a reviewed target.
PreparationSound == PreparationTypeOK /\ PreparedTogether /\ ReadyWasReviewed
=============================================================================
