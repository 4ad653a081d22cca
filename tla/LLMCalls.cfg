CONSTANTS
  Callers = {a, b, c}
  EnvVars = {"OPENAI_API_KEY", "ANTHROPIC_API_KEY"}
  Cap = 1
  MaxCost = 2
  None = None
SPECIFICATION FairSpec
INVARIANTS
  TypeOK
  OverrunBounded
  OwnKeyInScope
  EnvRestored
PROPERTIES
  WaiterServed
CHECK_DEADLOCK FALSE
