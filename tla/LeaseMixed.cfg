SPECIFICATION Spec
CONSTANTS
  Browser = {b1}
  Rest = {r1}
  RestOp = {o1}
  Sweeper = {s1}
  Cancellable = {}
  HubTask = {}
  Socket = {w1}
  LateHeartbeats = FALSE
  ModeAsked = {"open"}
  MaxGen = 3
  NULL = NULL
SYMMETRY Interchangeable
INVARIANTS ExclusiveOwnership ReservationExcludesDash
PROPERTY ImplementsExclusiveControl
