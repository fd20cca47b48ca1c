---------------------------- MODULE MCModelWork ----------------------------
(***************************************************************************)
(* Instances of ModelWork for TLC.  Of the requests only the groups that a *)
(* constraint names are submitted together, so one run covers several      *)
(* small instances.                                                        *)
(***************************************************************************)
EXTENDS ModelWork, TLC

CONSTANTS w1, w2

MCWorkers == {w1, w2}
MCTasks   == {"t1"}

Submitted == {r \in Requests : jobs[r].status # "absent"}

\* One request, paid or local, that is retried; or paid requests that reserve
\* two and one, or two and two units.  The first pair exceeds the daily limit of
\* two but not the total of three; the second exceeds both.  The request that is
\* retried alone would fit both limits twice.
MCSingle   == {"small", "local"}
MCPaid     == {"paid", "small", "other"}
MCAll      == MCSingle \cup MCPaid
MCTaskOf   == [r \in Requests |-> "t1"]
MCKindOf   == [r \in Requests |-> IF r = "local" THEN "ollama" ELSE "openai"]
MCHold     == [r \in Requests |-> IF r = "small" THEN 1 ELSE 2]

\* The budgets depend neither on the order of claims nor on why a worker lost
\* its lease: chat, control, task changes and second attempts are left out here.
\* A refused answer is charged like a good one, and a call that failed leaves the
\* ledger as one whose worker died, so these outcomes are left out as well; and
\* every call costs something.
TwoRequests ==
    /\ Submitted \subseteq {"paid", "small"} \/ Submitted \subseteq {"paid", "other"}
    /\ \A r \in Requests : /\ jobs[r].rank = BackgroundRank
                           /\ jobs[r].status \notin {"paused", "cancelled"}
                           /\ jobs[r].attempts <= 1
                           /\ bill[r] >= calls[r]
    /\ \A t \in Tasks : eligible[t]
    /\ \A w \in Workers : ex[w].out \in {"none", "ok", "unparsed"}

OneRequest == Cardinality(Submitted) <= 1 /\ Submitted \subseteq MCSingle

OneOrTwoRequests == OneRequest \/ TwoRequests

WorkerSymmetry == Permutations(MCWorkers)
=============================================================================
