CONSTANTS
  None = None
  Calls = {c1, c2}
  c1 = c1
  c2 = c2
  URIs = {"s", "t", "r", "p", "m", "v", "a", "b", "x", "n"}
  Docs = {"S", "T", "R", "P", "P2", "M", "V", "A", "B", "X"}
  At <- MCAt
  Served <- MCServed
  Dialect <- FaultyDialect
  Embedded <- FaultyEmbedded
  Refs <- FaultyRefs
  Throwing = {"m"}
  Rejected = {"A"}
  Invalid = {"P"}
  Unassemblable = {"V", "B"}
  Loadable = {"S", "T"}
  Fetchable = {"n"}
  Local = {"P2"}
  ValidateSchemas = TRUE
SPECIFICATION Spec
INVARIANTS TypeOK AssemblingIsOwned NoReferenceLost AssembledHasMetaschema
PROPERTIES CallsFinish
CHECK_DEADLOCK FALSE
