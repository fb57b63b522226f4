------------------------------- MODULE MCWork -------------------------------
(***************************************************************************)
(* Small instances of where work runs and where proofs are checked, one    *)
(* next to the other: a behaviour is one of the part that `part' names, while   *)
(* the others stay in one of their initial states.                         *)
(***************************************************************************)
EXTENDS Workspaces, WorkspaceExport, E2BProvider, Workbench, Verifier, TLC

CONSTANTS
    b1, b2, b3,     \* Workbench
    k1, k2          \* Verifier

\* A workspace of one directory entry that is a directory or a file of two parts.
FileContents == {<<>>, <<"x", "y">>}

\* Only the third bench takes two containers.
BenchCapacity == b1 :> 1 @@ b2 :> 1 @@ b3 :> 2

\* A publication with all it needs, and requests that lack one thing or two.
Ask == [scientific |-> TRUE, digest |-> TRUE, reviewed |-> TRUE, holes |-> FALSE,
        matches |-> TRUE, publication |-> FALSE]
ProofRequests ==
    {[Ask EXCEPT !.publication = TRUE], [Ask EXCEPT !.reviewed = FALSE],
     [Ask EXCEPT !.matches = FALSE], [Ask EXCEPT !.scientific = FALSE, !.reviewed = FALSE]}

Symmetry == Permutations(Execution)

VARIABLE part

Parked(others) == UNCHANGED <<part, others>>

\* The initial states that the other parts are parked in.
EmptyWorkspace == files = [p \in {} |-> 0]
Plain(c) == checker[c].req.publication

WorkInit ==
    /\ part \in {"broker", "export", "provider", "bench", "verifier"}
    /\ WorkspacesInit /\ ExportInit /\ ProviderInit /\ BenchInit
    /\ VerifierInit
    /\ part # "export" => EmptyWorkspace
    /\ part # "verifier" => Plain(k1)
    /\ Plain(k2)    \* one of the two checks is always of a publication

WorkNext ==
    \/ /\ part = "broker" /\ WorkspacesNext
       /\ Parked(<<exportVars, providerVars, benchVars, verifierVars>>)
    \/ /\ part = "export" /\ ExportNext
       /\ Parked(<<workspaceVars, providerVars, benchVars, verifierVars>>)
    \/ /\ part = "provider" /\ ProviderNext
       /\ Parked(<<workspaceVars, exportVars, benchVars, verifierVars>>)
    \/ /\ part = "bench" /\ BenchNext
       /\ Parked(<<workspaceVars, exportVars, providerVars, verifierVars>>)
    \/ /\ part = "verifier" /\ VerifierNext
       /\ Parked(<<workspaceVars, exportVars, providerVars, benchVars>>)

workVars ==
    <<part, workspaceVars, exportVars, providerVars, benchVars, verifierVars>>

WorkSpec == WorkInit /\ [][WorkNext]_workVars
=============================================================================
