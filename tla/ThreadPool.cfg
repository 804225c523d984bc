SPECIFICATION FairSpec
CONSTANTS
  k1 = k1
  k2 = k2
  k3 = k3
  Tasks <- MCTasks
  Threads <- MCThreads
  None = None
  Limit = 2
  MinIdle = 1
INVARIANTS SlotInOneHand CountsRight DataIsOwn
PROPERTIES RunsTasksOnce AcceptedEnds
CHECK_DEADLOCK FALSE
