SPECIFICATION Spec
CONSTANTS
  h1 = h1
  h2 = h2
  a1 = a1
  a2 = a2
  Approvals <- MCTwo
  Tasks <- MCTasks
  TaskOf <- MCTaskOf
  PlanOf <- MCPlanOf
  Threads <- MCOneThread
  None = None
INVARIANTS OneActionPerApproval
