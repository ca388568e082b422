CONSTANTS
  Node <- MCNode
  Resource <- MCResource
  Matched <- MCMatched
  HostKeywords <- HostEntries
  NodeTable <- MCNodeTable
  IsCoverage <- MCIsCoverage
  InlineLimit = 32
  DepthLimits = {1, 2, 3, 30}
  Roots <- MCRoots
  Lists = {TRUE, FALSE}
  InstanceNames <- MCInstances
  InstanceOf <- MCInstanceOf
SPECIFICATION Spec
INVARIANTS TiersAgree CallsAreEmitted
PROPERTIES DecisionsHold CompileEnds
CHECK_DEADLOCK FALSE
