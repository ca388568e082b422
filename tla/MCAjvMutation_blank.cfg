CONSTANTS
  Node <- MCNode
  Resource <- MCResource
  Matched <- MCMatched
  HostKeywords <- NoKeywords
  NodeTable <- MCTableOf
  Schemas <- BlankSchemas
  Inputs <- MCInputs
  InputOf <- MCInputOf
  OptionsOffered <- BlankOptions
  Filed <- MCFiled
  LastSegment <- MCLastSegment
  Transformed <- MCTransformed
  NumberOf <- MCNumberOf
  MaxPasses = 20
SPECIFICATION Spec
INVARIANT ThrowsOnlyOnOscillation
CHECK_DEADLOCK FALSE
