CONSTANTS
  Call = {c1, c2}
  Last = 2
  Elapsed = {1}
  MaxAttempts = 2
  MaxProcess = 3
  MaxPos = 1
SPECIFICATION FairSpec
INVARIANTS OnePeer BaseMatchesStream
PROPERTIES SeekSettles
CHECK_DEADLOCK FALSE
