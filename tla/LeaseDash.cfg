SPECIFICATION Spec
CONSTANTS
  Browser = {b1, b2}
  Rest = {}
  RestOp = {}
  Sweeper = {s1}
  Cancellable = {s1}
  HubTask = {h1}
  Socket = {w1}
  LateHeartbeats = FALSE
  ModeAsked = {"open"}
  MaxGen = 2
  NULL = NULL
SYMMETRY Interchangeable
INVARIANTS TypeOK InputPinned NoResumeUnderLease
PROPERTY OnlyHolderEndsDash
