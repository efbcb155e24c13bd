\* Two forwards, deletions in any order, all failures.
SPECIFICATION FairSpec
CONSTANTS
  Forward = {1, 2}
  MaxAttempts = 2
  Faults = {"crash", "redis", "r2"}
CHECK_DEADLOCK FALSE
INVARIANT MediaStorageInv
PROPERTY ReclaimedUnlessForwarded
