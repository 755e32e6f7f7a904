\* A lap of mapping and more on a ring of five places, odometry that slips
\* twice, a landmark gone at its first miss, and one call of the operator.
CONSTANTS
  Places = 5
  OriginTravel = 1
  StartMap = 1
  MinTravel = 2
  LoopGap = 1
  DriftStale = 3
  PromoteHits = 1
  RepairHits = 2
  MissBudget = 1
  ReturnsToFreeze = 1
  MaxTravel = 6
  CallTravel = 1
  MaxSlip = 2
  MaxCalls = 1
  RateLimited = FALSE
SPECIFICATION SlamSpec
PROPERTIES HalfMapNeverFrozen DeferredLand 
CHECK_DEADLOCK FALSE
