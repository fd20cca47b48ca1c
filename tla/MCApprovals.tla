---------------------------- MODULE MCApprovals ----------------------------
(***************************************************************************)
(* Instances of Approvals for TLC: one task with one or two approvals,     *)
(* the second of which is attached to no task.                             *)
(***************************************************************************)
EXTENDS Approvals, TLC

CONSTANTS h1, h2, a1, a2

MCTasks    == {"t1"}
MCOne      == {a1}
MCTwo      == {a1, a2}
MCTaskOf   == [a \in Approvals |-> IF a = a1 THEN "t1" ELSE None]
MCPlanOf   == [a \in Approvals |-> a]
MCTwoThreads   == {h1, h2}
MCOneThread    == {h1}

Symmetry == Permutations(Threads)
=============================================================================
