SPECIFICATION FairSpec
CONSTANTS
  Capacity = 2
  MaxTracked = 1
  Payloads = {a, b}
  LastIndex = 5
  MaxRequests = 2
INVARIANTS NewestSurvives GapsAreJudgedRightly LatestTargetsApplied
PROPERTIES RebuildEnds
CHECK_DEADLOCK FALSE
