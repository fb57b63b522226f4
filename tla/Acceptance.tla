----------------------------- MODULE Acceptance -----------------------------
(***************************************************************************)
(* Acceptance of proofs for the target of one experiment: reviewers judge  *)
(* the target (review_problem), workers submit candidates                  *)
(* (verify_candidate), acceptance workers check them and commit the result *)
(* (AcceptanceMixin.process_verification).                                 *)
(*                                                                         *)
(* A check takes minutes and holds no lock: the target may be reviewed     *)
(* again meanwhile, and the same receipt may be processed by several       *)
(* workers (activity retries, a supervisor beside Temporal).  Everything   *)
(* else a receipt pins (statement, theorem, environment, candidate bytes)  *)
(* is immutable.  The verifier itself is external: it may answer anything  *)
(* that VerificationOutcome admits, also about other evidence.             *)
(***************************************************************************)
EXTENDS Naturals, Sequences

CONSTANTS
    Receipt,        \* verification receipts
    Checker,        \* acceptance worker processes
    Actor,          \* principals that process receipts
    ActorOf,        \* the principal of each process
    None,           \* no receipt
    MaxReviews      \* bound: reviews of the target

ASSUME AcceptanceAssumption ==
    /\ None \notin Receipt
    /\ ActorOf \in [Checker -> Actor]
    /\ MaxReviews \in Nat

VARIABLES
    reviews,    \* decisions on the target, oldest first; the last one rules
    receipt,    \* the receipts
    claims,     \* number of claims recorded for each receipt
    goal,       \* the society's goal node is accepted
    command,    \* idempotency keys used: acceptance-result of <<actor, receipt>>
    check       \* what each worker holds in memory

acceptanceVars == <<reviews, receipt, claims, goal, command, check>>

Decision == {"approved", "rejected"}
Closed == {"verified", "rejected", "blocked"}
Assurance == {"none", "kernel", "independent_kernel"}

\* review: review_id, as the number of the review the submission was made
\* under (0 before the first).
ReceiptRecord == [status : {"absent", "queued"} \cup Closed, assurance : Assurance,
                  review : Nat, publication : BOOLEAN]

\* VerificationOutcome: only verified outcomes carry assurance.
OutcomeRecord == {o \in [status : Closed, assurance : Assurance] :
                    o.status = "verified" <=> o.assurance # "none"}
Blocked == [status |-> "blocked", assurance |-> "none"]
Rejected == [status |-> "rejected", assurance |-> "none"]

CheckRecord == [phase : {"idle", "begun", "verifying", "decided"},
                receipt : Receipt \cup {None}, outcome : OutcomeRecord]
Idle == [phase |-> "idle", receipt |-> None, outcome |-> Blocked]

AcceptanceTypeOK ==
    /\ reviews \in Seq(Decision)
    /\ receipt \in [Receipt -> ReceiptRecord]
    /\ claims \in [Receipt -> Nat]
    /\ goal \in BOOLEAN
    /\ command \subseteq Actor \X Receipt
    /\ check \in [Checker -> CheckRecord]

AcceptanceInit ==
    /\ reviews = <<>>
    /\ receipt = [r \in Receipt |-> [status |-> "absent", assurance |-> "none",
                                     review |-> 0, publication |-> FALSE]]
    /\ claims = [r \in Receipt |-> 0]
    /\ goal = FALSE
    /\ command = {}
    /\ check = [k \in Checker |-> Idle]
-----------------------------------------------------------------------------
\* review_problem: an approval may be withdrawn and given again at any time.
ReviewProblem(d) ==
    /\ Len(reviews) < MaxReviews
    /\ reviews' = Append(reviews, d)
    /\ UNCHANGED <<receipt, claims, goal, command, check>>

\* verify_candidate asks for no approval: processing does.
VerifyCandidate(r, publication) ==
    /\ receipt[r].status = "absent"
    /\ receipt' = [receipt EXCEPT ![r] = [status |-> "queued", assurance |-> "none",
                                          review |-> Len(reviews),
                                          publication |-> publication]]
    /\ UNCHANGED <<reviews, claims, goal, command, check>>
-----------------------------------------------------------------------------
(* process_verification. *)

\* _verification_revision_changed, of the problem as it is now.
RevisionChanged(r) == Len(reviews) # receipt[r].review

\* semantic_review of the problem, and decision of the review it names.
Approved == reviews # <<>> /\ reviews[Len(reviews)] = "approved"

\* The receipt is read; a processed one is returned as it is.
BeginCheck(k, r) ==
    /\ check[k] = Idle
    /\ receipt[r].status = "queued"
    /\ check' = [check EXCEPT ![k] = [Idle EXCEPT !.phase = "begun", !.receipt = r]]
    /\ UNCHANGED <<reviews, receipt, claims, goal, command>>

Decide(k, o) == check' = [check EXCEPT ![k].phase = "decided", ![k].outcome = o]

\* The problem is read, later than the receipt; then the candidate, the
\* preflight and the review.  An unreadable or oversized candidate blocks, one
\* that fails the preflight is rejected.
ReadProblem(k) ==
    /\ check[k].phase = "begun"
    /\ \/ Decide(k, Blocked)
       \/ ~RevisionChanged(check[k].receipt) /\ Decide(k, Rejected)
       \/ /\ ~RevisionChanged(check[k].receipt)
          /\ Approved
          /\ check' = [check EXCEPT ![k].phase = "verifying"]
    /\ UNCHANGED <<reviews, receipt, claims, goal, command>>

\* An outcome about other evidence, or too weak for a publication, blocks.
Admitted(r, o, same) ==
    IF ~same \/ (receipt[r].publication /\ o.status = "verified"
                                        /\ o.assurance # "independent_kernel")
    THEN Blocked ELSE o

\* The verifier answers, raises (Blocked), or answers about other evidence.
Verify(k, o, same) ==
    /\ check[k].phase = "verifying"
    /\ Decide(k, Admitted(check[k].receipt, o, same))
    /\ UNCHANGED <<reviews, receipt, claims, goal, command>>

\* _accepted_evidence of a receipt, for independent-kernel assurance: what
\* verified_target_receipt searches for and every consumer checks again.
AcceptedEvidence(rec) ==
    /\ rec.status = "verified"
    /\ rec.assurance = "independent_kernel"
    /\ Approved
    /\ rec.review = Len(reviews)

AlwaysOpen(r) == TRUE                                               \* mutant
StillQueued(r) == receipt[r].status = "queued"

\* The commit transaction: the revision is compared again under the problem's
\* lock, and a receipt that another principal closed stays as it is.  A key
\* that was used before returns the recorded result.  A proof that counts as
\* accepted evidence accepts the society's goal (_commons_goal_accepted).
Commit(k) ==
    LET r == check[k].receipt
        key == <<ActorOf[k], r>>
        o == IF RevisionChanged(r) THEN Blocked ELSE check[k].outcome
        closed == [receipt[r] EXCEPT !.status = o.status, !.assurance = o.assurance]
    IN
    /\ check[k].phase = "decided"
    /\ IF key \notin command /\ StillQueued(r)
       THEN /\ receipt' = [receipt EXCEPT ![r] = closed]
            /\ claims' = [claims EXCEPT ![r] = IF o.status = "verified" THEN @ + 1 ELSE @]
            /\ goal' = (goal \/ AcceptedEvidence(closed))
       ELSE UNCHANGED <<receipt, claims, goal>>
    /\ command' = command \cup {key}
    /\ check' = [check EXCEPT ![k] = Idle]
    /\ UNCHANGED reviews

\* The process dies or its activity is abandoned.
Abandon(k) ==
    /\ check[k] # Idle
    /\ check' = [check EXCEPT ![k] = Idle]
    /\ UNCHANGED <<reviews, receipt, claims, goal, command>>
-----------------------------------------------------------------------------
AcceptanceNext ==
    \/ \E d \in Decision : ReviewProblem(d)
    \/ \E r \in Receipt, b \in BOOLEAN : VerifyCandidate(r, b)
    \/ \E k \in Checker :
        \/ \E r \in Receipt : BeginCheck(k, r)
        \/ ReadProblem(k)
        \/ \E o \in OutcomeRecord, b \in BOOLEAN : Verify(k, o, b)
        \/ Commit(k)
        \/ Abandon(k)

AcceptanceSpec == AcceptanceInit /\ [][AcceptanceNext]_acceptanceVars
-----------------------------------------------------------------------------
(* Properties. *)

\* A receipt becomes verified only while the review it was submitted under is
\* still the ruling one and approves the target, though the check read the
\* review long before: a review given during the check always wins.
VerifiesUnderReview ==
    \A r \in Receipt :
        receipt[r].status # "verified" /\ receipt'[r].status = "verified"
        => receipt'[r].review = Len(reviews) /\ Approved
VerifiedUnderReview == [][VerifiesUnderReview]_acceptanceVars

\* A verified receipt has exactly one claim and any other receipt none, however
\* many workers processed it.
OneClaimPerProof ==
    \A r \in Receipt : claims[r] = IF receipt[r].status = "verified" THEN 1 ELSE 0

\* A closed receipt is never opened, upgraded or downgraded by a late worker.
KeepsClosed ==
    \A r \in Receipt : receipt[r].status \in Closed => receipt'[r] = receipt[r]
ReceiptFinal == [][KeepsClosed]_acceptanceVars

\* A proof submitted for publication counts as verified only with independent
\* replay, and no receipt carries assurance without being verified.
PublicationAssured ==
    \A r \in Receipt :
        /\ receipt[r].status = "verified" <=> receipt[r].assurance # "none"
        /\ receipt[r].status = "verified" /\ receipt[r].publication
           => receipt[r].assurance = "independent_kernel"

\* The goal is accepted in the same transaction as the receipt that proves it:
\* never without one, and no independent proof leaves the goal open.
GoalMatchesProof ==
    goal <=> \E r \in Receipt : receipt[r].assurance = "independent_kernel"

\* Acceptance is sound: claims, assurance and the goal say exactly what the
\* receipts prove.
AcceptanceSound ==
    /\ AcceptanceTypeOK
    /\ OneClaimPerProof
    /\ PublicationAssured
    /\ GoalMatchesProof
=============================================================================
