\* Every node of NodeScenes: small parameters, each with its timeouts a tick or two apart.
CONSTANTS
  DetectorMaxNow = 3
  DetectorMaxEpoch = 1
  DetectorSettles = {0, 1}
  DetectorPeriod = 2
  DetectorThreshold = 1
  FusionCones = {"c1", "c2"}
  FusionMaxNow = 2
  FusionMaxAge = 1
  FusionMaxImageAge = 0
  FusionMaxGap = 0
  FusionPairBuffer = 2
  FusionMaxPairs = 2
  FusionSupport = 1
  BridgeMaxDt = 2
  BridgeWheelTimeout = 1
  BridgeRefixHoldoff = 2
  BridgeExitSpeed = 1
  BridgeMaxSpeed = 2
  BridgeSlack = 4
  WheelsMaxStamp = 4
  WheelsMaxDt = 2
  WheelsInsTimeout = 1
  WheelsMinMode = 3
  LiveMoves = {2}
  LiveMaxNow = 4
  LiveMaxEpoch = 2
  LiveMaxTroubles = 1
  LiveMaxGap = 2
  LiveDelay = 2
  LiveHorizon = 4
  LiveSlack = 1
  LiveRestart = 2
  LiveKeyframeDistance = 3
  LiveKeyframeMaxDt = 3
  LiveVisualInterval = 2
  LiveTolerance = 2
  LocalMaxNow = 3
  LocalMaxRun = 2
  LocalMaxStampGap = 1
  LocalMaxHistory = 2
  CycleInputs = {"odom"}
  CycleInputTimeout = 1
  CycleGateTimeout = 1
  CycleTrajTimeout = 1
  CycleStateTimeout = 1
  CycleLocTimeout = 1
  CycleDelay = 1
  CycleSettle = 2
  CycleTop = 4
  VehicleDelay = 2
  VehicleCmdTimeout = 3
  VehiclePublishEvery = 2
  InspectionDuration = 12
  InspectionStopLimit = 3
  InspectionBrakeHold = 5
  InspectionSpunUp = 2
INIT ScenesInit
NEXT ScenesNext
INVARIANTS FramesInPlace SensorsHonest LivePoseKept InputsPresent StopsHold LapsHold
CHECK_DEADLOCK FALSE
