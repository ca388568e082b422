CONSTANTS
  Node <- MCNode
  Resource <- MCResource
  Matched <- MCMatched
  HostKeywords <- HostEntries
  NodeTable <- MCTableOf
  SchemaKind <- MCKind
  SchemaBase <- Base
  SchemaTable <- MCTableOf
  IsUnknown <- MCUnknown
  AllowsUnknownAt <- MCAllows
  KeywordReads <- MCReads
  KeywordSteps <- MCSteps
  KeywordTarget <- MCTarget
  KeywordOutcome <- MCOutcome
  Annotation <- Annotates
  Produced <- MCProduced
  Consumed <- MCConsumed
  Scripts <- MCScripts
  MaxDepth = 6
  StateIds = {s1, s2, s3}
  NoState = NoState
SPECIFICATION Spec
INVARIANTS TypeOK StatesAreApart StacksBalance AcceptanceIsClean CyclesAreCaught OutputsAgree CallsAgree
PROPERTIES CallsEnd
CHECK_DEADLOCK FALSE
