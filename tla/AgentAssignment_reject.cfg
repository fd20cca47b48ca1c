SPECIFICATION Spec
CONSTANTS
  Proposals <- MCProposals
  Tasks <- MCTasks
  TaskOf <- MCTaskOf
  Threads <- MCThreads
  Loops <- MCLoops
  NoProposal = NoProposal
INVARIANTS RejectCreatesNoRun
