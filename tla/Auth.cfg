CONSTANTS
  Users = {u1, u2}
  AccessTtl = 2
  RefreshTtl = 3
  MaxTime = 5
  MaxTokens = 4
SPECIFICATION Spec
SYMMETRY IdSymmetry
CHECK_DEADLOCK FALSE
INVARIANTS
  AuthInvariant
  AuthorityIsRecent
