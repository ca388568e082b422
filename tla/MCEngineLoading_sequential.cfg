CONSTANTS
  None = None
  Calls = {c1}
  c1 = c1
  URIs = {"s", "t", "r", "p", "m", "v", "a", "b", "x", "n", "k", "w", "y"}
  Docs = {"S", "T", "R", "P", "M", "V", "A", "B", "X", "K", "W", "Y"}
  At <- MCAt
  Served <- MCServed
  Dialect <- MixedDialect
  Embedded <- NoneEmbedded
  Refs <- MixedRefs
  Throwing = {"r", "m", "p"}
  Rejected = {}
  Invalid = {}
  Unassemblable = {}
  Loadable = {"S", "T", "X", "Y"}
  Fetchable = {"r", "m", "k"}
  Local = {}
  ValidateSchemas = TRUE
SPECIFICATION Spec
INVARIANTS CycleIsReal
PROPERTIES AskersFindClosure ResolvedMeansLoaded
CHECK_DEADLOCK FALSE
