SPECIFICATION FairSpec
CONSTANTS
  Browser = {b1}
  Socket = {w1, w2}
  Cap = 2
  MaxDelta = 3
  MaxSeq = 2
  NULL = NULL
INVARIANTS TypeOK FeedInOrder FeedComplete ScreenReaches
PROPERTIES ScreenAdvances NobodyWaits
CHECK_DEADLOCK FALSE
