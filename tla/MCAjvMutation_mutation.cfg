CONSTANTS
  Node <- MCNode
  Resource <- MCResource
  Matched <- MCMatched
  HostKeywords <- NoKeywords
  NodeTable <- MCTableOf
  Schemas <- MCSchemas
  Inputs <- MCInputs
  InputOf <- MCInputOf
  OptionsOffered <- MCOptions
  Filed <- MCFiled
  LastSegment <- MCLastSegment
  Transformed <- MCTransformed
  NumberOf <- MCNumberOf
  MaxPasses = 20
SPECIFICATION Spec
INVARIANTS Settled ThrowsOnlyOnOscillation
CHECK_DEADLOCK FALSE
