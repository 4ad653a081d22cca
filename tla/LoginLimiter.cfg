CONSTANTS
  Attempts = {a1, a2, a3}
  MaxFailures = 3
  Window = 2
  Lockout = 3
  MaxTime = 12
SPECIFICATION Spec
SYMMETRY Symmetry
INVARIANTS
  TypeOK
  FailuresBounded
PROPERTIES
  LockoutJustified
CHECK_DEADLOCK FALSE
