SPECIFICATION Spec
CONSTANTS
  Browser = {b1, b2, b3}
  MaxMint = 1
  MaxUpsets = 1
  StoreMayFail = TRUE
  RoleOnlyOverOwner = TRUE
  NULL = NULL
SYMMETRY Interchangeable
INVARIANTS TypeOK AuthorityConserved MarkSeen OwnersEntitled
CHECK_DEADLOCK FALSE
