CONSTANTS
  Servers = {s1}
  Starts = {i1, i2}
  Stops = {k1}
  Calls = {c1, c2}
  None = None
  Faults = {"session_dies"}
SPECIFICATION FairSpec
INVARIANTS
  RequestInOnePlace
PROPERTIES
  StopTerminates
  StartTerminates
  ServedUnlessStopped
CHECK_DEADLOCK FALSE
