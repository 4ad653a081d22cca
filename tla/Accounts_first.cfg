CONSTANTS
  Users = {u1, u2}
  Keys = {k1}
  Requests = {r1, r2}
  MaxChanges = 0
  NoUser = NoUser
SPECIFICATION Spec
SYMMETRY Symmetry
INVARIANT
  OneOwner
CHECK_DEADLOCK FALSE
