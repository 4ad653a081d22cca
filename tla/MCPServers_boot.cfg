CONSTANTS
  Ids = {d1, d2}
  Names = {"arxiv"}
  Bundled = {"arxiv"}
  Slotted = {}
  Users = {ann}
  Admins = {ann}
  Requests = {r1, r2}
  None = None
SPECIFICATION Spec
INVARIANTS
  SeedNeverBlocksBoot
SYMMETRY Symmetry
