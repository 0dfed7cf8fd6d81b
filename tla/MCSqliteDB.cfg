\* Three calls of any kinds, one of which may be made inside a callback.
SPECIFICATION FairSpec
CONSTANTS
  Calls = {c1, c2, c3}
  MaxStatements = 2
  Outsider = Outsider
INVARIANTS SettleInOrder NoLeakedTransaction
PROPERTIES ImplementsContract EveryCallSettles
CHECK_DEADLOCK FALSE
