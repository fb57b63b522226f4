------------------------------ MODULE Reviews ------------------------------
(***************************************************************************)
(* Referee panels of the commons (commons_review.py): request_review and   *)
(* submit_review, with the rules that keep a statement from being reviewed *)
(* until a referee approves it.  The requests of all branches are          *)
(* serialised by the experiment lock; a referee task runs on its own and   *)
(* ends with a verdict or without one, while authors abandon nodes and     *)
(* post the same text again.                                               *)
(***************************************************************************)
EXTENDS Naturals, Sequences, FiniteSets

CONSTANTS
    RNode,          \* reviewable nodes (approaches, conjectures, lemmas)
    Text,           \* the normalised informal text of each node
    Models,         \* the experiment's models, each as its model family
    AuthorModel,    \* the position in Models of each author's model
    PanelLimit,     \* referee_quorum + REVIEW_RETRIES
    MaxReferees     \* bound: referee tasks created

ASSUME ReviewsAssumption ==
    /\ DOMAIN Text = RNode
    /\ Len(Models) \in Nat \ {0}
    /\ AuthorModel \in [RNode -> 1..Len(Models)]
    /\ PanelLimit \in Nat \ {0}
    /\ MaxReferees \in Nat

VARIABLES
    posted,    \* the nodes in the order of their creation events
    closed,    \* abandoned nodes
    provedAsStated, \* nodes whose elaborated statement has a complete source now
    referees   \* the referee tasks, in the order they were created

reviewsVars == <<posted, closed, provedAsStated, referees>>

Posted == {posted[i] : i \in 1..Len(posted)}
Position(n) == CHOOSE i \in 1..Len(posted) : posted[i] = n

\* A referee counts once it gave a verdict or while its task is live.
Live(t) == ~t.ended
Counts(t) == Live(t) \/ t.verdict # "none"
Panel(n) == {i \in 1..Len(referees) : referees[i].node = n /\ Counts(referees[i])}
Gaps(n) == {i \in Panel(n) : referees[i].verdict = "gaps"}
Open(n) == {i \in Panel(n) : Live(referees[i]) /\ referees[i].verdict = "none"}

\* _statement_owner: an earlier node with the text that is open or refereed.
OpenOwners(n) ==                                                   \* mutant
    {m \in Posted : Text[m] = Text[n] /\ Position(m) < Position(n) /\ m \notin closed}
Owners(n) ==
    {m \in Posted :
        /\ Text[m] = Text[n]
        /\ Position(m) < Position(n)
        /\ \/ m \notin closed
           \/ \E i \in 1..Len(referees) : referees[i].node = m}

\* _review_panel: neither the verdicts nor the gap reports may fill the panel.
Room(n) ==
    /\ Cardinality(Panel(n) \ Gaps(n)) < PanelLimit
    /\ Cardinality(Gaps(n)) < PanelLimit

\* _referee_model: the family this panel used least, then one that is not the
\* author's, then the first after the author's in rotation.
Family(n, step) == Models[((AuthorModel[n] - 1 + step) % Len(Models)) + 1]
UsedBy(n, f) == Cardinality({i \in Panel(n) : referees[i].family = f})
IsAuthors(n, step) == IF Family(n, step) = Models[AuthorModel[n]] THEN 1 ELSE 0

Sooner(n, s, t) ==
    LET us == UsedBy(n, Family(n, s)) ut == UsedBy(n, Family(n, t)) IN
    \/ us < ut
    \/ us = ut /\ IsAuthors(n, s) < IsAuthors(n, t)
    \/ us = ut /\ IsAuthors(n, s) = IsAuthors(n, t) /\ s <= t

RefereeFamily(n) ==
    Family(n, CHOOSE s \in 1..Len(Models) : \A t \in 1..Len(Models) : Sooner(n, s, t))
-----------------------------------------------------------------------------
ReviewsTypeOK ==
    /\ Posted \subseteq RNode /\ closed \subseteq Posted /\ provedAsStated \subseteq RNode
    /\ Len(referees) <= MaxReferees
    /\ \A i \in 1..Len(referees) :
        /\ referees[i].node \in Posted /\ referees[i].ended \in BOOLEAN
        /\ referees[i].verdict \in {"none", "sound", "gaps", "wrong"}

ReviewsInit ==
    /\ posted = <<>>
    /\ closed = {}
    /\ provedAsStated = {}
    /\ referees = <<>>

PostNode(n) ==
    /\ n \notin Posted
    /\ posted' = Append(posted, n)
    /\ UNCHANGED <<closed, provedAsStated, referees>>

\* abandon_node by the author.
CloseReviewed(n) ==
    /\ n \in Posted \ closed
    /\ closed' = closed \cup {n}
    /\ UNCHANGED <<posted, provedAsStated, referees>>

\* A complete source is published, or goes stale.
SourceChanges(n) ==
    /\ n \in Posted \ closed
    /\ provedAsStated' = IF n \in provedAsStated THEN provedAsStated \ {n} ELSE provedAsStated \cup {n}
    /\ UNCHANGED <<posted, closed, referees>>

\* request_review that creates a referee; one for the same version that is
\* still at work is returned instead, and changes nothing.
RequestReview(n) ==
    /\ n \in Posted \ (closed \cup provedAsStated)
    /\ Owners(n) = {}
    /\ Open(n) = {}
    /\ Room(n)
    /\ Len(referees) < MaxReferees
    /\ referees' = Append(referees,
         [node |-> n, family |-> RefereeFamily(n), verdict |-> "none", ended |-> FALSE])
    /\ UNCHANGED <<posted, closed, provedAsStated>>

\* submit_review: the task's single verdict, whatever became of the node.
SubmitReview(i, verdict) ==
    /\ Live(referees[i])
    /\ referees[i].verdict = "none"
    /\ referees' = [referees EXCEPT ![i].verdict = verdict]
    /\ UNCHANGED <<posted, closed, provedAsStated>>

\* The referee's task ends, with its verdict given or not.
RefereeEnds(i) ==
    /\ Live(referees[i])
    /\ referees' = [referees EXCEPT ![i].ended = TRUE]
    /\ UNCHANGED <<posted, closed, provedAsStated>>

ReviewsNext ==
    \/ \E n \in RNode : PostNode(n)
    \/ \E n \in RNode : CloseReviewed(n)
    \/ \E n \in RNode : SourceChanges(n)
    \/ \E n \in RNode : RequestReview(n)
    \/ \E i \in 1..Len(referees), v \in {"sound", "gaps", "wrong"} : SubmitReview(i, v)
    \/ \E i \in 1..Len(referees) : RefereeEnds(i)

ReviewsSpec == ReviewsInit /\ [][ReviewsNext]_reviewsVars
-----------------------------------------------------------------------------
Verdicts(text, wanted) ==
    {i \in 1..Len(referees) : Text[referees[i].node] = text /\ referees[i].verdict \in wanted}

\* No shopping for a verdict: whatever is abandoned and posted again, one text
\* never collects more than quorum + retries verdicts, nor more gap reports
\* than that (_statement_owner and _review_panel together).
VerdictsPerText ==
    \A n \in RNode :
        /\ Cardinality(Verdicts(Text[n], {"sound", "wrong"})) <= PanelLimit
        /\ Cardinality(Verdicts(Text[n], {"gaps"})) <= PanelLimit

\* A panel spreads over the configured model families, also when referees end
\* without a verdict: no family judged a version two times more often than
\* another.
PanelSpreads ==
    \A n \in RNode, i, j \in 1..Len(Models) :
        UsedBy(n, Models[i]) <= UsedBy(n, Models[j]) + 1

\* A statement is judged by one bounded and mixed panel.
ReviewsSound == ReviewsTypeOK /\ VerdictsPerText /\ PanelSpreads
=============================================================================
