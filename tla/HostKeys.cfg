SPECIFICATION FairSpec
CONSTANTS
  Target = {t1}
  Key = {k1, k2}
  Handshake = {h1, h2, h3}
  NoKey = NoKey
  OverrideTTL = 1
  MaxApprovals = 2
  MaxDeletes = 1
  MaxNow = 2
INVARIANTS TypeOK OneTimeOverride OneKeyPerEpoch
PROPERTIES Answered PinnedUntilApproved
CHECK_DEADLOCK FALSE
