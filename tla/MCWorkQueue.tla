---------------------------- MODULE MCWorkQueue ----------------------------
(***************************************************************************)
(* Instances of WorkQueue for TLC.                                         *)
(***************************************************************************)
EXTENDS WorkQueue, TLC

CONSTANTS w1, w2

MCRequests   == {"check", "local", "paid"}
MCTwoModels  == {"local", "paid"}
MCTasks      == {"t1"}
MCTaskOf     == [r \in Requests |-> "t1"]
MCTwoWorkers == {w1, w2}
MCOneWorker  == {w1}

\* A three-step read-only check and two model jobs.
MCKindOf == [r \in Requests |-> CASE r = "check" -> "python"
                                  [] r = "local" -> "ollama"
                                  [] r = "paid"  -> "openai"]

\* The check runs alone, the model jobs beside each other; a third job is
\* refused by the limit of the queue in any case.
CheckOrModels == Rows = {"check"} \/ Rows \subseteq MCTwoModels

\* Worker processes are interchangeable.
WorkerSymmetry == Permutations(MCTwoWorkers)
=============================================================================
