SPECIFICATION CSpec
CONSTANTS
  Requests <- MCRequests
  Tasks <- MCTasks
  w1 = w1
  w2 = w2
  Workers <- MCWorkers
  TaskOf <- MCTaskOf
  LowRisk <- MCTasks
  KindOf <- MCKindOf
  MaxAttempts = 2
  LeaseTicks = 1
  LocalTicks = 1
  AgeTicks = 1
  QueueLimit = 1
  NoJob = NoJob
  NFiles = 2
  Contents <- MCContents
  Invalid <- MCInvalid
PROPERTIES CheckSound
SYMMETRY WorkerSymmetry
