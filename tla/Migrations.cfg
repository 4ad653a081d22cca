CONSTANTS
  Servers = {s1}
  Commands = {c1}
SPECIFICATION Spec
INVARIANTS
  TypeOK
  SchemaMatchesVersion
  UpOnCurrentSchema
  LoneBootsFinish
CHECK_DEADLOCK FALSE
