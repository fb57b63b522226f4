---------------------------- MODULE MCScheduling ----------------------------
(***************************************************************************)
(* Small instances of the task tree and of the command outbox, one next to *)
(* the other: a behaviour is one of the part that `part' names, while the  *)
(* other stays in its initial state.                                       *)
(***************************************************************************)
EXTENDS TaskLeases, Dispatch, TLC

CONSTANTS
    j1, j2, j3, p1, p2, h,  \* TaskLeases
    d1, d2                  \* Dispatch

\* Both processes present one holder name.
OneName == [p \in Proc |-> h]

\* The parts share no state, so their symmetries may be applied together.
Swap == p1 :> p2 @@ p2 :> p1 @@ d1 :> d2 @@ d2 :> d1
Symmetry == Permutations(Task) \cup {Swap}

VARIABLE part

Parked(others) == UNCHANGED <<part, others>>

SchedulingInit ==
    /\ part \in {"joins", "outbox"}
    /\ Init /\ DispatchInit

SchedulingNext ==
    \/ part = "joins" /\ Next /\ Parked(dispatchVars)
    \/ part = "outbox" /\ DispatchNext /\ Parked(vars)

schedulingVars == <<part, vars, dispatchVars>>

SchedulingSpec == SchedulingInit /\ [][SchedulingNext]_schedulingVars
=============================================================================
