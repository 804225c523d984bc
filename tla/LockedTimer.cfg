SPECIFICATION FairSpec
CONSTANTS
  e1 = e1
  u1 = u1
  u2 = u2
  Entries <- OneEntry
  Users <- TwoUsers
  SlotCount = 2
  MaxTime = 3
INVARIANTS InItsSlot OneOwner WalkIsSafe InTime
PROPERTIES TimesOutOnce MovingEnds
CHECK_DEADLOCK FALSE
