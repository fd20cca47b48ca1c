SPECIFICATION MSpec
CONSTANTS
  w1 = w1
  w2 = w2
  Requests <- MCAll
  Tasks <- MCTasks
  Workers <- MCWorkers
  TaskOf <- MCTaskOf
  LowRisk <- MCTasks
  KindOf <- MCKindOf
  MaxAttempts = 2
  LeaseTicks = 1
  LocalTicks = 1
  AgeTicks = 1
  QueueLimit = 2
  NoJob = NoJob
  Hold <- MCHold
  TotalLimit = 3
  DailyLimit = 2
INVARIANTS PaidAtMostOnce LedgerCoversBill LedgerSound WithinBudgets
PROPERTIES PurchasesKept
CONSTRAINT OneOrTwoRequests
SYMMETRY WorkerSymmetry
