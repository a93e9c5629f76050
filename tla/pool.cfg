SPECIFICATION FairSpec

CONSTANTS
  Objects = {o1, o2}
  Workers = {w1, w2}
  Clients = {c1}
  Owner = owner
  NoObject = NoObject
  Policies = {"wait_for_all_tasks", "wait_for_active_tasks", "immediately"}
  Sizes = {0, 1, 2}
  Thresholds = {0, 1}
  MaxTasks = 3
  MaxResizes = 2
  MaxClears = 1
  MaxDeaths = 1

CHECK_DEADLOCK FALSE
INVARIANTS TypeOK CountsMatch IdleMeansDone
PROPERTIES ActiveSpec TasksRun WaitReturns PoolShrinks
