\* Two requests at a time, three in all, on the rows of the seed script.
SPECIFICATION Spec
CONSTANTS
  Clients = {c1, c2}
  MaxId = 2
  RoleNames = {n1, n2}
  MaxNames = 1
  Permissions = {p1}
  Keys = {k1, k2, k3}
  None = None
  MaxCalls = 3
SYMMETRY Symmetry
INVARIANTS KeysHaveUsers FreeIdsAreUnnamed
PROPERTIES GrantsAreAsked HeldRoleStays
CHECK_DEADLOCK FALSE
