SPECIFICATION FairSpec
CONSTANTS
  Browser = {b1}
  Rest = {r1}
  RestOp = {o1}
  Sweeper = {s1}
  Cancellable = {}
  HubTask = {}
  Socket = {w1}
  LateHeartbeats = TRUE
  ModeAsked = {}
  MaxGen = 2
  NULL = NULL
PROPERTIES PausedWorkerResumed OnlyLateHeartbeatShares
