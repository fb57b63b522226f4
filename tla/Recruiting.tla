----------------------------- MODULE Recruiting -----------------------------
(***************************************************************************)
(* The recruit tool of a society: a task reads a focus node, has a branch  *)
(* and a task made for a colleague under the shared budget, and claims the *)
(* node for it.  A recruit "until proved" is bound to the node's statement *)
(* and ends by itself once that statement has a complete source, or once   *)
(* the node is closed or restated.  A recruiter that dies inside the call  *)
(* leaves what the call committed; the call is not made again.             *)
(***************************************************************************)
EXTENDS Naturals, FiniteSets

CONSTANTS
    Recruit,        \* recruit calls; each makes at most one task, named like the call
    Recruiter,      \* Recruiter[r]: the recruit whose task makes the call, or Team
    Team,           \* stands for a root task of the experiment
    FocusNode,      \* nodes of the commons
    Statement,      \* elaborated Lean statements
    NoStatement,
    Price,          \* one task's first output reservation
    MaxCost,        \* max_cost of the experiment
    Floor,          \* admission_floor_usd
    MaxEdits        \* bound of the model: edits of nodes, and crashes of recruiters

ASSUME RecruitingAssumption ==
    /\ Recruiter \in [Recruit -> Recruit \cup {Team}] /\ Team \notin Recruit
    /\ NoStatement \notin Statement
    /\ Price \in Nat \ {0} /\ MaxCost \in Nat /\ Floor \in Nat /\ MaxEdits \in Nat

VARIABLES
    focus,          \* each node: open, its statement, the statement its source proves
    hire,           \* each call: where it is, its arguments, the node as it was read
    staff,          \* each recruit's task
    purse,          \* dollars spent and reserved
    edits,          \* edits and crashes so far
    proved          \* history: statements that had a complete source at a node

recruitVars == <<focus, hire, staff, purse, edits, proved>>

NoNode == "none"
FocusState == [open : BOOLEAN, statement : Statement \cup {NoStatement},
               source : Statement \cup {NoStatement}]
NoTask == [status |-> "none", joined |-> FALSE, node |-> NoNode, scope |-> NoStatement,
           objective |-> NoStatement, result |-> "none", source |-> NoStatement,
           reason |-> "none"]

RecruitingTypeOK ==
    /\ focus \in [FocusNode -> FocusState]
    /\ hire \in [Recruit -> [pc : {"new", "read", "created", "done", "refused", "lost"},
                             node : FocusNode \cup {NoNode}, joined : BOOLEAN, until : BOOLEAN,
                             quoted : Statement \cup {NoStatement}, claim : BOOLEAN]]
    /\ \A r \in Recruit :
        /\ staff[r].status \in {"none", "queued", "running", "ending", "ended"}
        /\ staff[r].scope \in Statement \cup {NoStatement}
        /\ staff[r].reason \in {"none", "scope_proved", "scope_closed", "result_returned", "final"}
        /\ staff[r].result \in {"none", "own", "source"}
    /\ purse \in [spent : Nat, reserved : Nat]

RecruitingInit ==
    /\ focus = [n \in FocusNode |-> [open |-> TRUE, statement |-> NoStatement,
                                     source |-> NoStatement]]
    /\ hire = [r \in Recruit |-> [pc |-> "new", node |-> NoNode, joined |-> FALSE,
                                  until |-> FALSE, quoted |-> NoStatement, claim |-> FALSE]]
    /\ staff = [r \in Recruit |-> NoTask]
    /\ purse = [spent |-> 0, reserved |-> 0]
    /\ edits = 0 /\ proved = {}
-----------------------------------------------------------------------------
(* The commons, as far as recruits depend on it *)

\* source_state: only a source of the node's present statement counts.
Complete(n) == focus[n].source # NoStatement /\ focus[n].source = focus[n].statement

\* set_lean_statement, or a source that replaces its node's statement
Restate(n, s) ==
    /\ edits < MaxEdits /\ focus[n].open /\ focus[n].statement # s
    /\ focus' = [focus EXCEPT ![n].statement = s]
    /\ edits' = edits + 1
    /\ UNCHANGED <<hire, staff, purse, proved>>

\* A complete source of the present statement, by anyone.
PublishSource(n) ==
    /\ edits < MaxEdits /\ focus[n].open /\ focus[n].statement # NoStatement
    /\ ~Complete(n)
    /\ focus' = [focus EXCEPT ![n].source = focus[n].statement]
    /\ proved' = proved \cup {<<n, focus[n].statement>>}
    /\ edits' = edits + 1
    /\ UNCHANGED <<hire, staff, purse>>

\* A module that it imports changed: the source is stale.
SourceStale(n) ==
    /\ edits < MaxEdits /\ focus[n].source # NoStatement
    /\ focus' = [focus EXCEPT ![n].source = NoStatement]
    /\ edits' = edits + 1
    /\ UNCHANGED <<hire, staff, purse, proved>>

CloseNode(n) ==
    /\ edits < MaxEdits /\ focus[n].open
    /\ focus' = [focus EXCEPT ![n].open = FALSE]
    /\ edits' = edits + 1
    /\ UNCHANGED <<hire, staff, purse, proved>>
-----------------------------------------------------------------------------
(* The recruit tool *)

\* scope_statement_error: an open node with an elaborated statement
CanScope(n) == focus[n].open /\ focus[n].statement # NoStatement

MayRecruit(r) == Recruiter[r] # Team => staff[Recruiter[r]].status = "running"

\* The handler reads the focus node; the objective quotes what it read.
ReadFocus(r, n, joined, until) ==
    LET quoted == IF n = NoNode THEN NoStatement ELSE focus[n].statement
    IN  /\ hire[r].pc = "new" /\ MayRecruit(r)
        /\ hire' = [hire EXCEPT ![r] = [pc |-> IF \/ n # NoNode /\ ~focus[n].open
                                                  \/ until /\ (IF n = NoNode THEN TRUE
                                                               ELSE ~CanScope(n))
                                               THEN "refused" ELSE "read",
                                        node |-> n, joined |-> joined, until |-> until,
                                        quoted |-> quoted, claim |-> FALSE]]
        /\ UNCHANGED <<focus, staff, purse, edits, proved>>

\* _admit_by_budget
Admits == purse.spent + purse.reserved + Floor + Price <= MaxCost

\* recruit_researcher: one transaction under the experiment's lock.
RecruitResearcher(r) ==
    LET n == hire[r].node
        accepted == /\ hire[r].until => CanScope(n)
                    /\ Admits
    IN  /\ hire[r].pc = "read" /\ MayRecruit(r)
        /\ IF accepted
           THEN /\ hire' = [hire EXCEPT ![r].pc = "created"]
                /\ staff' = [staff EXCEPT ![r] =
                     [NoTask EXCEPT !.status = "queued", !.joined = hire[r].joined,
                                    !.node = n, !.objective = hire[r].quoted,
                                    !.scope = IF hire[r].until THEN focus[n].statement
                                              ELSE NoStatement]]
           ELSE /\ hire' = [hire EXCEPT ![r].pc = "refused"]
                /\ staff' = staff
        /\ UNCHANGED <<focus, purse, edits, proved>>

\* focus_claim: the platform claims the node for the new branch; a refusal is reported
\* beside the recruit.
FocusClaim(r) ==
    LET n == hire[r].node
    IN  /\ hire[r].pc = "created"
        /\ hire' = [hire EXCEPT ![r].pc = "done",
                                ![r].claim = IF n = NoNode THEN FALSE ELSE focus[n].open]
        /\ UNCHANGED <<focus, staff, purse, edits, proved>>

\* The recruiter's process dies inside the call, which is not made again: its outcome is
\* uncertain, and the recruit may exist without a claim.
RecruiterDies(r) ==
    /\ edits < MaxEdits /\ hire[r].pc \in {"read", "created"}
    /\ hire' = [hire EXCEPT ![r].pc = "lost"]
    /\ edits' = edits + 1
    /\ UNCHANGED <<focus, staff, purse, proved>>
-----------------------------------------------------------------------------
(* The recruit's own task *)

StartRecruit(r) ==
    /\ staff[r].status = "queued"
    /\ purse.spent + purse.reserved + Price <= MaxCost
    /\ staff' = [staff EXCEPT ![r].status = "running"]
    /\ purse' = [purse EXCEPT !.reserved = @ + Price]
    /\ UNCHANGED <<focus, hire, edits, proved>>

\* The recruit itself calls return_result: only joined work returns to a parent.
ReturnResult(r) ==
    /\ staff[r].status = "running" /\ staff[r].joined
    /\ staff[r].result = "none"
    /\ staff' = [staff EXCEPT ![r].result = "own"]
    /\ UNCHANGED <<focus, hire, purse, edits, proved>>

PendingRecruits(r) ==
    {c \in Recruit : Recruiter[c] = r /\ staff[c].joined
                     /\ staff[c].status \in {"queued", "running", "ending"}}

\* Any complete source of the node counts as the recruit's.
AnySource(r) ==                                                     \* mutant
    IF Complete(staff[r].node) THEN "scope_proved"
    ELSE IF ~focus[staff[r].node].open THEN "scope_closed" ELSE "none"

\* scope_ending
ScopeEnding(r) ==
    LET n == focus[staff[r].node]
    IN  IF n.statement # staff[r].scope THEN "scope_closed"
        ELSE IF Complete(staff[r].node) THEN "scope_proved"
        ELSE IF ~n.open THEN "scope_closed" ELSE "none"

\* _society_completion, at the end of a turn: the node and its source are read together.
Completion(r) ==
    LET scoped == IF staff[r].scope = NoStatement THEN "none" ELSE ScopeEnding(r)
    IN  IF PendingRecruits(r) # {} THEN "none"
        ELSE IF scoped # "none" THEN scoped
        ELSE IF staff[r].joined /\ staff[r].result # "none" THEN "result_returned" ELSE "none"

\* The work is delivered.  A joined recruit whose node is proved returns that source.
DeliverWork(r) ==
    LET reason == Completion(r)
        returns == reason = "scope_proved" /\ staff[r].joined /\ staff[r].result = "none"
    IN  /\ staff[r].status = "running" /\ reason # "none"
        /\ staff' = [staff EXCEPT ![r].status = "ending", ![r].reason = reason,
                                  ![r].result = IF returns THEN "source" ELSE @,
                                  ![r].source = IF returns THEN focus[staff[r].node].source
                                                ELSE @]
        /\ UNCHANGED <<focus, hire, purse, edits, proved>>

\* A final answer of the model ends the task like any other.
FinalAnswer(r) ==
    /\ staff[r].status = "running" /\ PendingRecruits(r) = {}
    /\ Completion(r) = "none"
    /\ staff' = [staff EXCEPT ![r].status = "ending", ![r].reason = "final"]
    /\ UNCHANGED <<focus, hire, purse, edits, proved>>

\* finish_task refuses while joined work is pending; the task then goes on.
FinishRecruit(r) ==
    /\ staff[r].status = "ending"
    /\ IF PendingRecruits(r) # {}
       THEN /\ staff' = [staff EXCEPT ![r].status = "running", ![r].reason = "none"]
            /\ purse' = purse
       ELSE /\ staff' = [staff EXCEPT ![r].status = "ended"]
            /\ \E cost \in 0 .. Price :
                purse' = [spent |-> purse.spent + cost, reserved |-> purse.reserved - Price]
    /\ UNCHANGED <<focus, hire, edits, proved>>

RecruitingNext ==
    \/ \E n \in FocusNode :
        \/ PublishSource(n) \/ SourceStale(n) \/ CloseNode(n)
        \/ \E s \in Statement : Restate(n, s)
    \/ \E r \in Recruit :
        \/ \E n \in FocusNode \cup {NoNode}, joined, until \in BOOLEAN :
              ReadFocus(r, n, joined, until)
        \/ RecruitResearcher(r) \/ FocusClaim(r) \/ RecruiterDies(r)
        \/ StartRecruit(r) \/ ReturnResult(r) \/ DeliverWork(r) \/ FinalAnswer(r)
        \/ FinishRecruit(r)

RecruitingSpec == RecruitingInit /\ [][RecruitingNext]_recruitVars
-----------------------------------------------------------------------------
(* Properties *)

\* A recruit "until proved" ends as proved only if the very statement it was recruited
\* for had a complete source, whatever happened to the node since, and the source that
\* it hands to its parent is one of that statement.  Nothing that it waited for is
\* pending when it ends, even if it recruited again while it was ending.
ProvedMeansItsStatement ==
    \A r \in Recruit :
        /\ staff[r].reason = "scope_proved" => <<staff[r].node, staff[r].scope>> \in proved
        /\ staff[r].result = "source" => staff[r].source = staff[r].scope
        /\ staff[r].status = "ended" => PendingRecruits(r) = {}

\* A recruit ends for what it was recruited for.
RecruitingSound == RecruitingTypeOK /\ ProvedMeansItsStatement
=============================================================================
