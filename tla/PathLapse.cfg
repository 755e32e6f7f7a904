SPECIFICATION ChainSpec
CONSTANTS
  ValidTimeout = 1
  HandoffTimeout = 0
  EntryDwell = 0
  RequireLocalization = TRUE
  MaxPathLength = 2
  OdomTimeout = 1
  Holds = {TRUE, FALSE}
  MaxMaps = 2
  GateTimeout = 1
  GatePaths = {1, 2}
  FrenetTimeout = 1
  FrenetPaths = {1, 2}
  QueueDepth = 2
  MaxFaults = 1
  Builds = {TRUE, FALSE}
  ClcsBuilds = {TRUE}
INVARIANT FrenetSwitches
