---------------------------- MODULE MCTaskLeases ----------------------------
(* Small instances of TaskLeases for TLC. *)
EXTENDS TaskLeases, TLC

CONSTANTS t1, t2, t3, p1, p2, h

\* Both processes present one holder name.
OneName == [p \in Proc |-> h]

Sym == Permutations(Task) \cup Permutations(Proc)
=============================================================================
