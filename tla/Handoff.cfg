\* The MPC late; or the bridge's messages late too; or Pure Pursuit late.
SPECIFICATION FairChain
CONSTANTS
  StateTimeout = 1
  StopTimeout = 1
  LocalTimeout = 1
  LocalHold = 2
  TmpcTimeout = 1
  ValidTimeout = 1
  TmpcHold = 2
  ReadyDwell = 1
  MaxDisagreement = 1
  OutputTimeout = 1
  VehicleTimeout = 3
  PlanningStates <- States
  LocalCommands <- Straight
  TmpcCommands <- Straight
  Steers <- NoSteer
  LateSets <- EachSideLate
INVARIANTS LeaksAtMostOne VehicleNeverSilent
PROPERTIES NeverParked StopBeatsTmpc HealthyTmpcDrives
