CONSTANTS
  Node <- MCNode
  Resource <- MCResource
  Matched <- MCMatched
  HostKeywords <- HostEntries
  NodeTable <- MCNodeTable
  IsCoverage <- MCIsCoverage
  InlineLimit = 32
  DepthLimits = {30}
  Roots <- NestedRoots
  Lists = {FALSE}
  InstanceNames <- MCInstances
  InstanceOf <- MCInstanceOf
SPECIFICATION Spec
INVARIANT CallsAreEmitted
CHECK_DEADLOCK FALSE
