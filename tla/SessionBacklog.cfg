SPECIFICATION FairSpec
CONSTANTS
  Session = {s1, s2}
  Retention = 1
  Limit = 1
  MaxCrashes = 1
  MaxNow = 3
PROPERTIES ExpiredArePurged
CHECK_DEADLOCK FALSE
