SPECIFICATION FairSpec
CONSTANTS
  s0 = s0
  s1 = s1
  s2 = s2
  Handles <- MCHandles
  Status <- MCStatus
  ZeroStatus = s0
  MaxCmd = 4
  MaxCb = 3
INVARIANTS InOnePlace
PROPERTIES AnswersInOrder OpenFirst NoStaleStatus StatusChanges Answered StatusShown
