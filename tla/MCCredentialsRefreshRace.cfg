\* PostgresDB: statements of READ COMMITTED transactions interleave: two refreshes with one token.
SPECIFICATION Spec
CONSTANTS
  Clients = {c1, c2}
  Sessions = {s1}
  Tokens = {t1, t2, t3}
  Resets = {r1, r2}
  Passwords = {p1, p2}
  None = None
  Untouched = Untouched
  Operations = {"create", "refresh"}
  Serialized = FALSE
SYMMETRY Symmetry
PROPERTY RefreshTokenSpentOnce
CHECK_DEADLOCK FALSE
