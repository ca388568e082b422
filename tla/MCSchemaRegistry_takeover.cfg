CONSTANTS
  None = None
  URIs = {"z", "h", "b"}
  Values = {"z", "z2", "plain", "holder1", "holder2", "twice", "anchors2", "based", "envelope", "nest", "wrap", "holder3"}
  Documents = {"z", "z2", "holder1", "holder2", "twice", "anchors2", "based", "envelope", "nest", "wrap", "holder3"}
  Dialects = {"new", "old"}
  Names = {"n"}
  Behaviors = {"props"}
  Pointers <- MCPointers
  Sub <- MCSub
  SchemaOf <- MCSchemaOf
  Reading <- MCReading
SPECIFICATION Spec
INVARIANTS TypeOK IndexesAgree ResourcesAreOwned EntriesAreCurrent CoverageExact FactsComplete RootsOwn AliasHidesOnlyItsOwn
PROPERTIES OneSchemaPerURI RemovalFollowsOwner
CHECK_DEADLOCK FALSE
