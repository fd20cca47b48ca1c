SPECIFICATION Spec
CONSTANTS
  w1 = w1
  w2 = w2
  Requests <- MCRequests
  Tasks <- MCTasks
  Workers <- MCTwoWorkers
  TaskOf <- MCTaskOf
  LowRisk <- MCTasks
  KindOf <- MCKindOf
  MaxAttempts = 2
  LeaseTicks = 1
  LocalTicks = 2
  AgeTicks = 1
  QueueLimit = 2
  NoJob = NoJob
INVARIANTS QueueSound SingleOwner ClaimsBounded CheckpointsContiguous
PROPERTIES TerminalStable AgedNotOvertaken
CONSTRAINT CheckOrModels
SYMMETRY WorkerSymmetry
