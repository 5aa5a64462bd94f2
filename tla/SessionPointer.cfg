SPECIFICATION FairSpec
CONSTANTS
  Session = {s1}
  Retention = 1
  Limit = 2
  MaxCrashes = 1
  MaxNow = 3
PROPERTIES BrokenPointersCleared
CHECK_DEADLOCK FALSE
