\* Every subscription of the node, on the smallest inputs that count laps.
SPECIFICATION HistorySpec
CONSTANTS
  ValidTimeout = 0
  HandoffTimeout = 0
  EntryDwell = 0
  RequireLocalization = TRUE
  MaxPathLength = 5
  Track = 5
  ArmDistance = 1
  MaxStep = 2
  GateMoveReset = 1
  GateSampleGap = 0
  GateCooldown = 0
  WrapCooldown = 0
  FrenetTimeout = 0
  ClosureTolerance = 1
  MinPathLength = 4
  ZoneCap = 1
  ZoneDivisor = 5
  MaxLapPath = 5
  TargetLaps = 2
  InitialLaps = 0
  FinalLapStart = 1
  StopOnTargetLaps = FALSE
  FinishOnRest = FALSE
  RestDuration = 0
  StopZoneTimeout = 0
  PathEndThreshold = 2
  StopZoneMargin = 0
  Flags = {}
  Snapshots <- LoopOnly
  FrenetS = {0, 2, 3, 4}
  EgoCells = {0, 2, 4}
  EgoSpeeds = {"driving", "nan"}
  GateFits <- OneGate
  StopZoneS = {}
  MaxSnapshots = 1
  MaxLaps = 1
INVARIANT NothingBeforeDriving
PROPERTY CountStepsByOne
