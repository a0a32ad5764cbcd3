SPECIFICATION Spec
CONSTANTS
  Browser = {}
  Rest = {r1, r2}
  RestOp = {o1}
  Sweeper = {s1}
  Cancellable = {}
  HubTask = {h1}
  Socket = {w1, w2}
  LateHeartbeats = FALSE
  ModeAsked = {"hijack", "open"}
  MaxGen = 2
  NULL = NULL
SYMMETRY Interchangeable
PROPERTIES FencePinsWorker OnlyHolderEndsRest
