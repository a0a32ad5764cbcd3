SPECIFICATION Spec
CONSTANTS
  Op = {o1, o2}
  Loop = {l1, l2}
  None = None
  MaxGen = 2
INVARIANTS NoForeignEntries
CHECK_DEADLOCK FALSE
