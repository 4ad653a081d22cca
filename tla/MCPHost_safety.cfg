CONSTANTS
  Servers = {s1, s2}
  Starts = {i1, i2, i3}
  Stops = {k1, k2}
  Calls = {c1}
  None = None
  Faults = {"close_raises", "session_dies"}
SPECIFICATION Spec
SYMMETRY Symmetry
INVARIANTS
  TypeOK
  NoOrphan
  FailedStartLeavesNothing
  StopReleasesTransport
PROPERTIES
  NoOverwrite
  ImplementsLifecycle
CHECK_DEADLOCK FALSE
