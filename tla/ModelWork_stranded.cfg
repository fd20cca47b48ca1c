SPECIFICATION MSpec
CONSTANTS
  w1 = w1
  w2 = w2
  Requests <- MCPaid
  Tasks <- MCTasks
  Workers <- MCWorkers
  TaskOf <- MCTaskOf
  LowRisk <- MCTasks
  KindOf <- MCKindOf
  MaxAttempts = 1
  LeaseTicks = 1
  LocalTicks = 1
  AgeTicks = 1
  QueueLimit = 2
  NoJob = NoJob
  Hold <- MCHold
  TotalLimit = 5
  DailyLimit = 5
PROPERTIES UncertainBlocksCalls
CONSTRAINT TwoRequests
