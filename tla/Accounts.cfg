CONSTANTS
  Users = {u1, u2}
  Keys = {k1, k2, k3}
  Requests = {r1, r2}
  MaxChanges = 2
  NoUser = NoUser
SPECIFICATION Spec
SYMMETRY Symmetry
INVARIANTS
  TypeOK
  NoOrphans
  OwnerPresent
  RotationRevokes
PROPERTIES
  OwnerKept
CHECK_DEADLOCK FALSE
