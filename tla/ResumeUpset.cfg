SPECIFICATION Spec
CONSTANTS
  Browser = {b1, b2}
  MaxMint = 2
  MaxUpsets = 3
  StoreMayFail = FALSE
  RoleOnlyOverOwner = FALSE
  NULL = NULL
SYMMETRY Interchangeable
INVARIANT LatchFollowsSocket
PROPERTY MarksEarned
CHECK_DEADLOCK FALSE
