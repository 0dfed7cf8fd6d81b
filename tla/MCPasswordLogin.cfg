\* Two attempts at a time, four in all; two failures lock.
SPECIFICATION Spec
CONSTANTS
  Clients = {c1, c2}
  MaxFailures = 2
  Window = 2
  Lock = 2
  Passwords = {p1, p2}
  None = None
  MaxClock = 4
  MaxAttempts = 4
  MaxChanges = 1
SYMMETRY Symmetry
INVARIANTS LockHolds LockIsDeserved SessionsHavePasswords
CHECK_DEADLOCK FALSE
