CONSTANTS
  Invocations = {i1}
  Puts = {p1}
  Deletes = {d1}
  Clears = {k1}
  Values = {v1, v2}
  FromEnv = v1
  Capabilities = {"code_exec"}
  Allowed = {"code_exec"}
  MaxSecond = 1
  None = None
SPECIFICATION Spec
CONSTRAINTS
  AtMostThreeStart
  OneValuePassed
INVARIANTS
  TypeOK
  RecordsAreScrubbed
  EndsOnRecord
  LeftContainersHaveACause
PROPERTIES
  RecordsKept
CHECK_DEADLOCK FALSE
