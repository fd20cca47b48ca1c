SPECIFICATION FairSpec
CONSTANTS
  w1 = w1
  w2 = w2
  Requests <- MCTwoModels
  Tasks <- MCTasks
  Workers <- MCOneWorker
  TaskOf <- MCTaskOf
  LowRisk <- MCTasks
  KindOf <- MCKindOf
  MaxAttempts = 2
  LeaseTicks = 1
  LocalTicks = 2
  AgeTicks = 1
  QueueLimit = 2
  NoJob = NoJob
PROPERTIES JobsSettle
