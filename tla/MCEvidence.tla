----------------------------- MODULE MCEvidence -----------------------------
(***************************************************************************)
(* Small instances of what a result rests on and of what a branch is told, *)
(* one next to the other: the acceptance of proofs, the qualification of   *)
(* the checker, the books, the literature with the hosts it is fetched     *)
(* from, and the inbox.  A behaviour is one of the part that `part' names, *)
(* while the others stay in one of their initial states.                   *)
(***************************************************************************)
EXTENDS Acceptance, Qualification, Ledger, Literature, HostLimiter, Inbox,
        SequencesExt, TLC

CONSTANTS
    a1, a2, k1, k2, k3,             \* Acceptance
    d1, d2, d3, i1, i2, i3          \* Literature

\* Two workers of one principal (an activity and its retry) and one of another.
CheckerActor == [k \in Checker |-> IF k = k3 THEN a2 ELSE a1]

\* A small envelope of money and tokens.
Envelope == [u \in Unit |-> 1]

\* Three copies of one work: each shares an identifier with the next, and each is
\* found under one of its own.
CopyIds == d1 :> {i1} @@ d2 :> {i1, i2} @@ d3 :> {i2, i3}
CopyUrls == d1 :> {i1} @@ d2 :> {i2} @@ d3 :> {i3}
CopyMentions == d1 :> {} @@ d2 :> {} @@ d3 :> {i1, i3}

\* The kernel report, and independent ones that repeat its run, its container,
\* neither, or are invalid.
Report(m, r, b, v) == [suite |-> "basic", mode |-> m, run |-> r, box |-> b, valid |-> v]
SuiteReports ==
    {Report("kernel", 1, 1, TRUE), Report("independent", 1, 2, TRUE),
     Report("independent", 2, 1, TRUE), Report("independent", 2, 2, TRUE),
     Report("independent", 2, 2, FALSE)}
ReportLists == BoundedSeq(SuiteReports, 2)
BoundaryReports == [given : {TRUE}, valid : BOOLEAN, run : {3}, box : {2, 3}]
RegressionReports ==
    [given : {TRUE}, current : BOOLEAN, failed : {FALSE}, complete : BOOLEAN]

Symmetry == Permutations(Session)

VARIABLE part

Parked(others) == UNCHANGED <<part, others>>

EvidenceInit ==
    /\ part \in {"acceptance", "qualification", "ledger", "literature", "limiter",
                 "inbox"}
    /\ AcceptanceInit /\ QualificationInit /\ LedgerInit /\ LiteratureInit
    /\ LimiterInit /\ InboxInit
    /\ part # "literature" => broker = [mode |-> "off", usable |-> FALSE]
    /\ part # "qualification" =>
          evidence = [suites |-> <<>>, boundary |-> Absent, regressions |-> Absent]

EvidenceNext ==
    \/ /\ part = "acceptance" /\ AcceptanceNext
       /\ Parked(<<qualificationVars, ledgerVars, litVars, limiterVars, inboxVars>>)
    \/ /\ part = "qualification" /\ QualificationNext
       /\ Parked(<<acceptanceVars, ledgerVars, litVars, limiterVars, inboxVars>>)
    \/ /\ part = "ledger" /\ LedgerNext
       /\ Parked(<<acceptanceVars, qualificationVars, litVars, limiterVars, inboxVars>>)
    \/ /\ part = "literature" /\ LiteratureNext
       /\ Parked(<<acceptanceVars, qualificationVars, ledgerVars, limiterVars, inboxVars>>)
    \/ /\ part = "limiter" /\ LimiterNext
       /\ Parked(<<acceptanceVars, qualificationVars, ledgerVars, litVars, inboxVars>>)
    \/ /\ part = "inbox" /\ InboxNext
       /\ Parked(<<acceptanceVars, qualificationVars, ledgerVars, litVars, limiterVars>>)

evidenceVars ==
    <<part, acceptanceVars, qualificationVars, ledgerVars, litVars, limiterVars,
      inboxVars>>

EvidenceSpec == EvidenceInit /\ [][EvidenceNext]_evidenceVars
=============================================================================
