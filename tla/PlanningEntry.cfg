\* GLOBAL entry and loss: heartbeats, snapshots and the handoff dwell.
SPECIFICATION HistorySpec
CONSTANTS
  ValidTimeout = 1
  HandoffTimeout = 1
  EntryDwell = 2
  RequireLocalization = TRUE
  MaxPathLength = 5
  Track = 5
  ArmDistance = 1
  MaxStep = 2
  GateMoveReset = 1
  GateSampleGap = 1
  GateCooldown = 1
  WrapCooldown = 0
  FrenetTimeout = 0
  ClosureTolerance = 1
  MinPathLength = 4
  ZoneCap = 1
  ZoneDivisor = 5
  MaxLapPath = 5
  TargetLaps = 2
  InitialLaps = 0
  FinalLapStart = 1
  StopOnTargetLaps = FALSE
  FinishOnRest = FALSE
  RestDuration = 1
  StopZoneTimeout = 0
  PathEndThreshold = 2
  StopZoneMargin = 0
  Flags = {TRUE, FALSE}
  Snapshots <- PathAndEmpty
  FrenetS = {0}
  EgoCells = {}
  EgoSpeeds = {}
  GateFits = {}
  StopZoneS = {}
  MaxSnapshots = 3
  MaxLaps = 1
INVARIANTS
  HistoryTypeOK
  ReadyOnNewSnapshot
PROPERTY EntryAfterDwell
