SPECIFICATION FairSpec
CONSTANTS
  Proposals <- MCProposals
  Tasks <- MCTasks
  TaskOf <- MCTaskOf
  Threads <- MCThreads
  Loops <- MCLoops
  NoProposal = NoProposal
INVARIANTS OneRunPerProposal AnswerIsReal
PROPERTIES JobNotRequeued EndedJobsReported
