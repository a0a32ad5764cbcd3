SPECIFICATION FairSpec
CONSTANTS
  Browser = {b1}
  Admin = {a1, a2}
  BufferCap = 2
  MaxInput = 3
  MaxReq = 2
  MaxGen = 1
  NULL = NULL
INVARIANTS TypeOK OnlyApprovedRuns HeldIsPaused EpochKept InputInOrder
PROPERTIES PauseEnds
CHECK_DEADLOCK FALSE
