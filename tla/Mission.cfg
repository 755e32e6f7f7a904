\* Three laps: counted at the orange gate, without a gate, and with a stop zone published.
SPECIFICATION FairMission
CONSTANTS
  ValidTimeout = 1
  HandoffTimeout = 1
  EntryDwell = 2
  RequireLocalization = TRUE
  MaxPathLength = 8
  Track = 8
  ArmDistance = 2
  MaxStep = 2
  GateMoveReset = 1
  GateSampleGap = 2
  GateCooldown = 4
  WrapCooldown = 2
  FrenetTimeout = 2
  ClosureTolerance = 1
  MinPathLength = 4
  ZoneCap = 2
  ZoneDivisor = 5
  MaxLapPath = 8
  TargetLaps = 3
  InitialLaps = 0
  FinalLapStart = 2
  StopOnTargetLaps = FALSE
  FinishOnRest = FALSE
  RestDuration = 2
  StopZoneTimeout = 1
  PathEndThreshold = 2
  StopZoneMargin = 0
  Flags = {}
  Snapshots <- LoopPath
  FrenetS = {}
  EgoCells = {}
  EgoSpeeds = {}
  GateFits <- GateAtLine
  StopZoneS = {}
  MaxSnapshots = 1
  MaxLaps = 4
  StartCell = 6
  SeamCell = 0
  FreezeFrom = 9
  FreezeBy = 11
  Courses <- AllCourses
  Coast = 2
  StopWithin = 2
  StopLines <- LastTwoCells
  Lossy = {}
  TimerRacesSamples = FALSE
INVARIANTS
  CountNeverAhead
  
  NoExtraLap
  FinishedAtRest
PROPERTY MissionEnds
