CONSTANTS
  Ids = {d1, d2}
  Names = {"scholar", "notes"}
  Bundled = {"scholar"}
  Slotted = {"scholar"}
  Users = {ann, bob}
  Admins = {ann}
  Requests = {r1, r2}
  None = None
SPECIFICATION FairSpec
INVARIANTS
  TypeOK
  FailedRegisterLeavesNoRow
  BootReconciles
  QuietServerHasItsRow
PROPERTIES
  NoResurrection
  RequestsEnd
