CONSTANTS
  None = None
  Calls = {c1, c2}
  c1 = c1
  c2 = c2
  URIs = {"s", "t", "m", "r", "p"}
  Docs = {"S", "T", "M", "R", "P"}
  At <- MCAt
  Served <- MCServed
  Dialect <- SharedDialect
  Embedded <- NoneEmbedded
  Refs <- SharedRefs
  Throwing = {}
  Rejected = {}
  Invalid = {}
  Unassemblable = {}
  Loadable = {"S", "T"}
  Fetchable = {}
  Local = {}
  ValidateSchemas = FALSE
SPECIFICATION Spec
INVARIANTS CycleIsReal
CHECK_DEADLOCK FALSE
