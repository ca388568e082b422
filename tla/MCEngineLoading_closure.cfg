CONSTANTS
  None = None
  Calls = {c1}
  c1 = c1
  URIs = {"t", "r", "p", "m", "v"}
  Docs = {"T", "R", "P", "M", "V"}
  At <- MCAt
  Served <- MCServed
  Dialect <- PartedDialect
  Embedded <- NoneEmbedded
  Refs <- PartedRefs
  Throwing = {}
  Rejected = {}
  Invalid = {}
  Unassemblable = {}
  Loadable = {"T"}
  Fetchable = {}
  Local = {}
  ValidateSchemas = TRUE
SPECIFICATION Spec
INVARIANTS ClosureBeforeChecks
CHECK_DEADLOCK FALSE
