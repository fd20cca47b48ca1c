---------------------------- MODULE MCLocalCheck ----------------------------
(***************************************************************************)
(* Instance of LocalCheck for TLC: one check job over two files.           *)
(***************************************************************************)
EXTENDS LocalCheck, TLC

CONSTANTS w1, w2

MCRequests == {"r1"}
MCTasks    == {"t1"}
MCTaskOf   == [r \in MCRequests |-> "t1"]
MCKindOf   == [r \in MCRequests |-> "python"]
MCWorkers  == {w1, w2}

\* A content that parses and one that does not.
MCContents == {"a", "broken"}
MCInvalid  == {"broken"}

WorkerSymmetry == Permutations(MCWorkers)
=============================================================================
