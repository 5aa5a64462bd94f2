SPECIFICATION FairSpec
CONSTANTS
  Session = {s1, s2}
  Retention = 1
  Limit = 2
  MaxCrashes = 1
  MaxNow = 3
INVARIANTS TypeOK Playable CastsDiscarded
PROPERTIES ExpiredArePurged NoEarlyPurge
CHECK_DEADLOCK FALSE
