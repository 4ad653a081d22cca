CONSTANTS
  Servers = {s1}
  Starts = {i1}
  Stops = {k1}
  Calls = {c1, c2}
  None = None
  Faults = {}
SPECIFICATION Spec
INVARIANTS
  NoCallerStranded
CHECK_DEADLOCK FALSE
