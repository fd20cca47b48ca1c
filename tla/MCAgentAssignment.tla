------------------------- MODULE MCAgentAssignment -------------------------
(***************************************************************************)
(* An instance of AgentAssignment for TLC: one proposal, of either kind,   *)
(* two requests of the dashboard and one worker loop.                      *)
(***************************************************************************)
EXTENDS AgentAssignment

MCProposals == {"p1"}
MCTasks     == {"t1"}
MCTaskOf    == [p \in MCProposals |-> "t1"]
MCThreads   == {"h1", "h2", "w1"}
MCLoops     == {"w1"}
=============================================================================
