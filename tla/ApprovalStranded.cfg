SPECIFICATION Spec
CONSTANTS
  Browser = {b1}
  Admin = {a1, a2}
  BufferCap = 1
  MaxInput = 3
  MaxReq = 2
  MaxGen = 1
  NULL = NULL
SYMMETRY Symmetry
INVARIANTS NothingStranded
CHECK_DEADLOCK FALSE
