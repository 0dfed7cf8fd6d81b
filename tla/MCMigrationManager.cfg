\* Every operation fits its lease: the lock serializes, across crashes.
SPECIFICATION Spec
CONSTANTS
  Managers = {m1, m2}
  NoOwner = NoOwner
  LeaseMs = 2
  MaxTime = 3
  NumMigrations = 3
  Migrations <- MCMigrations
  MaxGone = 1
  MaxFaults = 1
  WorkFitsLease = TRUE
SYMMETRY Symmetry
INVARIANTS LeaseExclusion OneWorker RecordedOnce OneTearPerFault BatchesInOrder
PROPERTY RollbackRemovesNewestBatch
CHECK_DEADLOCK FALSE
