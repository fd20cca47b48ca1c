SPECIFICATION MCSpec
CONSTANTS
  h1 = h1
  h2 = h2
  a1 = a1
  a2 = a2
  Approvals <- MCTwo
  Tasks <- MCTasks
  TaskOf <- MCTaskOf
  PlanOf <- MCPlanOf
  Threads <- MCTwoThreads
  None = None
  MemItems = {"m1", "m2"}
  MemThreads = {"i", "j"}
  MemNone = "none"
  SrcIds = {"s1", "s2", "s3"}
  SrcRefs = {"r1", "r2"}
  SrcThreads = {"i"}
  SrcNone = "none"
INVARIANTS ConsumedOnce  SrcSafe
PROPERTIES MemSafe
SYMMETRY Symmetry
