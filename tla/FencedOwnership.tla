--------------------------- MODULE FencedOwnership ---------------------------
(***************************************************************************)
(* What the task and lease rows promise about every task, whatever         *)
(* commands implement it: authority over a task is granted in numbered     *)
(* epochs, one at a time, and an ended task is never granted again.        *)
(***************************************************************************)
EXTENDS Naturals

CONSTANT Item   \* the tasks

VARIABLES
    epoch,   \* how often authority was granted: the current fence
    live,    \* the current epoch still has authority
    closed   \* the task has ended

Init ==
    /\ epoch = [i \in Item |-> 0]
    /\ live = [i \in Item |-> FALSE]
    /\ closed = [i \in Item |-> FALSE]

\* A worker is granted the next epoch.
Grant(i) ==
    /\ ~closed[i] /\ ~live[i]
    /\ epoch'[i] = epoch[i] + 1 /\ live'[i] /\ ~closed'[i]

\* The holder's lease runs out, or it hands the task back.
Lapse(i) ==
    /\ live[i]
    /\ epoch'[i] = epoch[i] /\ ~live'[i] /\ closed'[i] = closed[i]

\* The task ends and takes any authority with it.
Close(i) ==
    /\ ~closed[i]
    /\ epoch'[i] = epoch[i] /\ ~live'[i] /\ closed'[i]

Keep(i) == epoch'[i] = epoch[i] /\ live'[i] = live[i] /\ closed'[i] = closed[i]

\* Time passes for all tasks at once, so one step may lapse several leases.
Next == \A i \in Item : Keep(i) \/ Grant(i) \/ Lapse(i) \/ Close(i)

Spec == Init /\ [][Next]_<<epoch, live, closed>>
=============================================================================
