----------------------------- MODULE MCRunning ------------------------------
(***************************************************************************)
(* Small instances of a run under way, one next to the other: how it is    *)
(* prepared, the leases of its tasks, and what its records show.  A        *)
(* behaviour is one of the part that `part' names, while the others stay   *)
(* in one of their initial states.                                         *)
(***************************************************************************)
EXTENDS TaskLeases, Preparation, Records, TLC

CONSTANTS h     \* TaskLeases

\* Both processes present one holder name.
OneName == [p \in Proc |-> h]

Symmetry == Permutations(Task) \cup Permutations(Proc)

VARIABLE part

Parked(others) == UNCHANGED <<part, others>>

RunningInit ==
    /\ part \in {"leases", "prepare", "records"}
    /\ Init /\ PreparationInit /\ RecordsInit
    /\ part # "records" => sharing = "none"

RunningNext ==
    \/ part = "leases" /\ Next /\ Parked(<<prepareVars, recordVars>>)
    \/ part = "prepare" /\ PreparationNext /\ Parked(<<vars, recordVars>>)
    \/ part = "records" /\ RecordsNext /\ Parked(<<vars, prepareVars>>)

runningVars == <<part, vars, prepareVars, recordVars>>

RunningSpec == RunningInit /\ [][RunningNext]_runningVars
=============================================================================
