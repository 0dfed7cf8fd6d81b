\* SQLiteDB: one transaction at a time.
SPECIFICATION Spec
CONSTANTS
  Clients = {c1, c2}
  Sessions = {s1, s2}
  Tokens = {t1, t2, t3}
  Resets = {r1, r2}
  Passwords = {p1, p2}
  None = None
  Untouched = Untouched
  Operations = {"create", "refresh", "revoke", "revokeAll", "set", "change", "createReset", "reset", "enable", "disable"}
  Serialized = TRUE
SYMMETRY Symmetry
INVARIANTS HandedTokensAreStored OneResetToken
PROPERTIES RefreshTokenSpentOnce ResetTokenSpentOnce PasswordChangeRevokes ImplementsService
CHECK_DEADLOCK FALSE
