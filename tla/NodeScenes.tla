----------------------------- MODULE NodeScenes -----------------------------
(* The nodes that are looked at each by itself, between the sensors and the actuators:
   a behaviour is one machine's, named by `machine`, whose variables are the first of
   v1 .. v20; the slots it leaves over stay empty.  The bounds that a node has as its
   parameters are constants here; those of a drive are given where it is instantiated. *)
EXTENDS Integers

CONSTANTS
  DetectorMaxNow, DetectorMaxEpoch, DetectorSettles, DetectorPeriod, DetectorThreshold,
  FusionCones, FusionMaxNow, FusionMaxAge, FusionMaxImageAge, FusionMaxGap,
  FusionPairBuffer, FusionMaxPairs, FusionSupport,
  BridgeMaxDt, BridgeWheelTimeout, BridgeRefixHoldoff, BridgeExitSpeed, BridgeMaxSpeed,
  BridgeSlack,
  WheelsMaxStamp, WheelsMaxDt, WheelsInsTimeout, WheelsMinMode,
  LiveMoves, LiveMaxNow, LiveMaxEpoch, LiveMaxTroubles, LiveMaxGap, LiveDelay,
  LiveHorizon, LiveSlack, LiveRestart, LiveKeyframeDistance, LiveKeyframeMaxDt,
  LiveVisualInterval, LiveTolerance,
  LocalMaxNow, LocalMaxRun, LocalMaxStampGap, LocalMaxHistory,
  CycleInputs, CycleInputTimeout, CycleGateTimeout, CycleTrajTimeout, CycleStateTimeout,
  CycleLocTimeout, CycleDelay, CycleSettle, CycleTop,
  VehicleDelay, VehicleCmdTimeout, VehiclePublishEvery,
  InspectionDuration, InspectionStopLimit, InspectionBrakeHold, InspectionSpunUp

VARIABLES machine, v1, v2, v3, v4, v5, v6, v7, v8, v9, v10, v11, v12, v13, v14,
                   v15, v16, v17, v18, v19, v20

sceneVars == <<machine, v1, v2, v3, v4, v5, v6, v7, v8, v9, v10, v11, v12, v13,
                        v14, v15, v16, v17, v18, v19, v20>>

After18 == <<v19, v20>>
After10 == <<v11, v12, v13, v14, v15, v16, v17, v18, After18>>
After9 == <<v10, After10>>
After8 == <<v9, After9>>
After7 == <<v8, After8>>
After6 == <<v7, After7>>
After5 == <<v6, After6>>

Empty18 == v19 = <<>> /\ v20 = <<>>
Empty10 == v11 = <<>> /\ v12 = <<>> /\ v13 = <<>> /\ v14 = <<>>
           /\ v15 = <<>> /\ v16 = <<>> /\ v17 = <<>> /\ v18 = <<>> /\ Empty18
Empty9 == v10 = <<>> /\ Empty10
Empty8 == v9 = <<>> /\ Empty9
Empty7 == v8 = <<>> /\ Empty8
Empty6 == v7 = <<>> /\ Empty7
Empty5 == v6 = <<>> /\ Empty6

\* yolov8_bbox_node: a camera, one worker and a clock that may roll back.
Detector == INSTANCE ConeDetector WITH
  clock <- v1, camera <- v2, yolo <- v3, worker <- v4, boxes <- v5,
  MaxNow <- DetectorMaxNow, MaxEpoch <- DetectorMaxEpoch, Settles <- DetectorSettles,
  Period <- DetectorPeriod, Threshold <- DetectorThreshold

\* perception_node: stereo pairs, boxes and clouds out of step.
Fusion == INSTANCE ConeFusion WITH
  now <- v1, stereo <- v2, bboxMsg <- v3, camera <- v4, cloud <- v5, cones <- v6,
  Cones <- FusionCones, MaxNow <- FusionMaxNow, MaxAge <- FusionMaxAge,
  MaxImageAge <- FusionMaxImageAge, MaxUncompensatedGap <- FusionMaxGap,
  PairBuffer <- FusionPairBuffer, MaxPairs <- FusionMaxPairs, Support <- FusionSupport

\* sbg_odometry_bridge: fixes that come and go, wheels that fall silent.
Bridge == INSTANCE SbgBridge WITH
  car <- v1, euler <- v2, wheels <- v3, node <- v4, state <- v5, anchor <- v6,
  fix <- v7, MaxDt <- BridgeMaxDt, WheelTimeout <- BridgeWheelTimeout,
  RefixHoldoff <- BridgeRefixHoldoff, ExitSpeed <- BridgeExitSpeed,
  MaxSpeed <- BridgeMaxSpeed, Slack <- BridgeSlack

\* wheel_odometry: stamps of two sources.
Wheels == INSTANCE WheelOdometry WITH
  now <- v1, mode <- v2, nav_mode <- v3, ins <- v4, odom <- v5, published <- v6,
  MaxStamp <- WheelsMaxStamp, MaxDt <- WheelsMaxDt, InsTimeout <- WheelsInsTimeout,
  MinMode <- WheelsMinMode

\* The SLAM's live pose: slips, rollbacks, resets, relocalisations, lost odometry.
Odometry == INSTANCE SlamOdometry WITH
  world <- v1, odom <- v2, frame <- v3, buffer <- v4, graph <- v5, callback <- v6,
  job <- v7, visual <- v8, out <- v9, Moves <- LiveMoves, MaxNow <- LiveMaxNow,
  MaxEpoch <- LiveMaxEpoch, MaxTroubles <- LiveMaxTroubles, MaxGap <- LiveMaxGap,
  Delay <- LiveDelay, Horizon <- LiveHorizon, Slack <- LiveSlack, Restart <- LiveRestart,
  KeyframeDistance <- LiveKeyframeDistance, KeyframeMaxDt <- LiveKeyframeMaxDt,
  VisualInterval <- LiveVisualInterval, Tolerance <- LiveTolerance

\* The inputs of the local planner, while SLAM restarts and messages are late.
Latches == INSTANCE LocalInputs WITH
  clock <- v1, slam <- v2, sent <- v3, planner <- v4, path <- v5, MaxNow <- LocalMaxNow,
  MaxRun <- LocalMaxRun, MaxStampGap <- LocalMaxStampGap, MaxHistory <- LocalMaxHistory

\* The solver's node, its bridge and the trajectory timer, every input late or silent.
Cycle == INSTANCE TmpcCycle WITH
  lossy <- v1, world <- v2, pub <- v3, bridge <- v4, flight <- v5, mpc <- v6,
  out <- v7, Inputs <- CycleInputs, InputTimeout <- CycleInputTimeout,
  GateTimeout <- CycleGateTimeout, TrajTimeout <- CycleTrajTimeout,
  StateTimeout <- CycleStateTimeout, LocTimeout <- CycleLocTimeout, Delay <- CycleDelay,
  Settle <- CycleSettle, Top <- CycleTop

\* The simulated vehicle: commands delayed by some updates.
Vehicle == INSTANCE VehicleSim WITH
  as_state <- v1, ami_state <- v2, mission_completed <- v3, in_transition <- v4,
  age <- v5, queue <- v6, input <- v7, idle <- v8, Delay <- VehicleDelay,
  CmdTimeout <- VehicleCmdTimeout, PublishEvery <- VehiclePublishEvery

\* inspection_mission: the brake test of a jacked-up car.
Inspection == INSTANCE InspectionMission WITH
  driving <- v1, start_time <- v2, brake_start <- v3, brake_stopped <- v4,
  finished <- v5, measured_speed <- v6, cmd <- v7, axle <- v8, silent <- v9,
  test <- v10, Duration <- InspectionDuration, StopLimit <- InspectionStopLimit,
  BrakeHold <- InspectionBrakeHold, SpunUp <- InspectionSpunUp

\* skidpad_director: two laps of each circle, poses lost and jittered.
Skidpad == INSTANCE SkidpadDirector WITH
  car <- v1, phase <- v2, cum_angle <- v3, prev_angle <- v4, persist <- v5,
  fed <- v6, quiet <- v7, turned <- v8, Steps <- 32, Laps <- 2, Lead <- 4,
  Margin <- 2, Zone <- 2, Exit <- 3, Gap <- 1, Jitter <- 1, Persist <- 2

\* The orange gate counts the laps of a car that drives and stands, its odometry lossy.
Gate == INSTANCE GateDrive WITH
  state <- v1, readiness <- v2, handoff <- v3, policy <- v4, gate <- v5, lap <- v6,
  driving <- v7, motion <- v8, frenet <- v9, zone <- v10, finished <- v11,
  out <- v12, cell <- v13, driven <- v14, crossings <- v15, moving <- v16,
  reported <- v17, steady <- v18, ValidTimeout <- 0, HandoffTimeout <- 0,
  EntryDwell <- 0, RequireLocalization <- TRUE, MaxPathLength <- 0, Track <- 8,
  ArmDistance <- 2, MaxStep <- 2, GateMoveReset <- 0, GateSampleGap <- 1,
  GateCooldown <- 2, WrapCooldown <- 0, FrenetTimeout <- 0, ClosureTolerance <- 1,
  MinPathLength <- 4, ZoneCap <- 1, ZoneDivisor <- 5, MaxLapPath <- 5,
  TargetLaps <- 3, InitialLaps <- 0, FinalLapStart <- 2, StopOnTargetLaps <- FALSE,
  FinishOnRest <- FALSE, RestDuration <- 0, StopZoneTimeout <- 0,
  PathEndThreshold <- 2, StopZoneMargin <- 0, Flags <- {}, Snapshots <- {},
  FrenetS <- {}, StopZoneS <- {}, MaxSnapshots <- 0, MaxLaps <- 3, StartCell <- 5,
  Drift <- 1, MaxDriven <- 21, EgoCells <- 0..7, EgoSpeeds <- {"rest", "driving"},
  GateFits <- {0, 1} \X {-1, 1}, SteadyFits <- {<<0, 1>>}

\* A mission of one lap, which the lap target itself stops.
OneLap == INSTANCE RaceMission WITH
  state <- v1, readiness <- v2, handoff <- v3, policy <- v4, gate <- v5, lap <- v6,
  driving <- v7, motion <- v8, frenet <- v9, zone <- v10, finished <- v11,
  out <- v12, cell <- v13, crossings <- v14, moving <- v15, coasted <- v16,
  slam <- v17, built <- v18, due <- v19, course <- v20, ValidTimeout <- 1,
  HandoffTimeout <- 1, EntryDwell <- 2, RequireLocalization <- TRUE,
  MaxPathLength <- 8, Track <- 8, ArmDistance <- 2, MaxStep <- 2, GateMoveReset <- 1,
  GateSampleGap <- 2, GateCooldown <- 4, WrapCooldown <- 2, FrenetTimeout <- 2,
  ClosureTolerance <- 1, MinPathLength <- 4, ZoneCap <- 2, ZoneDivisor <- 5,
  MaxLapPath <- 8, TargetLaps <- 1, InitialLaps <- 0, FinalLapStart <- 0,
  StopOnTargetLaps <- TRUE, FinishOnRest <- FALSE, RestDuration <- 2,
  StopZoneTimeout <- 0, PathEndThreshold <- 2, StopZoneMargin <- 0, Flags <- {},
  FrenetS <- {}, EgoCells <- {}, EgoSpeeds <- {}, StopZoneS <- {}, MaxSnapshots <- 1,
  MaxLaps <- 4, StartCell <- 6, SeamCell <- 0, FreezeFrom <- 9, FreezeBy <- 11,
  Coast <- 2, StopWithin <- 1, StopLines <- {}, Lossy <- {},
  TimerRacesSamples <- FALSE, Snapshots <- {[count |-> 3, len |-> 8, gap |-> 0]},
  GateFits <- {<<0, 1>>}, Courses <- {[gate |-> TRUE, zone |-> FALSE, pathBy |-> 13]}

-----------------------------------------------------------------------------
(* What the code's defaults have: a step of the odometry may miss no more than the
   speed changes over max_dt, or over what a fresh wheel speed is older by.       *)
BridgeAssumption ==
  /\ {BridgeMaxDt, BridgeWheelTimeout, BridgeRefixHoldoff, BridgeExitSpeed,
      BridgeMaxSpeed, BridgeSlack} \subseteq Nat
  /\ BridgeSlack >= BridgeMaxDt * BridgeMaxDt
  /\ BridgeWheelTimeout <= BridgeMaxDt
WheelsAssumption == {WheelsMaxStamp, WheelsMaxDt, WheelsInsTimeout, WheelsMinMode} \subseteq Nat
VehicleAssumption == VehicleDelay \in Nat \ {0} /\ VehicleCmdTimeout \in Nat \ {0}
(* An axle that spins has not come to rest by the next message of its speed.      *)
InspectionAssumption ==
  /\ {InspectionDuration, InspectionStopLimit, InspectionBrakeHold} \subseteq Nat
  /\ InspectionSpunUp \in Nat \ {0, 1}
FusionAssumption == {FusionMaxAge, FusionMaxGap} \subseteq Nat
LiveAssumption == {LiveVisualInterval, LiveRestart} \subseteq Nat

ASSUME BoundsFit ==
  /\ BridgeAssumption /\ WheelsAssumption /\ VehicleAssumption /\ InspectionAssumption
  /\ FusionAssumption /\ LiveAssumption /\ Cycle!CycleAssumption /\ Gate!GateDriveAssumption

-----------------------------------------------------------------------------
ScenesInit ==
  \/ machine = "detector" /\ Detector!DetectorInit /\ Empty5
  \/ machine = "fusion" /\ Fusion!FusionInit /\ Empty6
  \/ machine = "bridge" /\ Bridge!BridgeInit /\ Empty7
  \/ machine = "wheels" /\ Wheels!WheelInit /\ Empty6
  \/ machine = "odometry" /\ Odometry!OdometryInit /\ Empty9
  \/ machine = "inputs" /\ Latches!LocalInputsInit /\ Empty5
  \/ machine = "cycle" /\ Cycle!CycleInit /\ Empty7
  \/ machine = "vehicle" /\ Vehicle!VehicleInit /\ Empty8
  \/ machine = "inspection" /\ Inspection!InspectionInit /\ Empty10
  \/ machine = "skidpad" /\ Skidpad!SkidpadInit /\ Empty8
  \/ machine = "gate" /\ Gate!DriveInit /\ Empty18
  \/ machine = "onelap" /\ OneLap!MissionInit

ScenesNext ==
  \/ machine = "detector" /\ Detector!DetectorNext /\ UNCHANGED <<machine, After5>>
  \/ machine = "fusion" /\ Fusion!FusionNext /\ UNCHANGED <<machine, After6>>
  \/ machine = "bridge" /\ Bridge!BridgeNext /\ UNCHANGED <<machine, After7>>
  \/ machine = "wheels" /\ Wheels!WheelNext /\ UNCHANGED <<machine, After6>>
  \/ machine = "odometry" /\ Odometry!OdometryNext /\ UNCHANGED <<machine, After9>>
  \/ machine = "inputs" /\ Latches!LocalInputsNext /\ UNCHANGED <<machine, After5>>
  \/ machine = "cycle" /\ Cycle!CycleNext /\ UNCHANGED <<machine, After7>>
  \/ machine = "vehicle" /\ Vehicle!VehicleNext /\ UNCHANGED <<machine, After8>>
  \/ machine = "inspection" /\ Inspection!InspectionNext /\ UNCHANGED <<machine, After10>>
  \/ machine = "skidpad" /\ Skidpad!SkidpadNext /\ UNCHANGED <<machine, After8>>
  \/ machine = "gate" /\ Gate!DriveNext /\ UNCHANGED <<machine, v18, After18>>
  \/ machine = "onelap" /\ OneLap!MissionNext /\ UNCHANGED <<machine, v20>>

ScenesSpec == ScenesInit /\ [][ScenesNext]_sceneVars

-----------------------------------------------------------------------------
(* Boxes leave the detector in the order of their images and of one epoch only
   (yolov8_bbox_node.py:540-640), a frame's cones are placed where it was taken, and a
   relocalisation is true (graph_slam_node.cpp:868-957, 1515-1537, 2287-2345). *)
FramesInPlace ==
  /\ machine = "detector" => Detector!BoxesInOrder
  /\ machine = "odometry" => Odometry!PlacedWhereSeen /\ Odometry!LiveIsTrue

(* What the sensors' nodes send on is honest: every cone the LiDAR backs is in the fused
   output, and no cone twice (perception_node.py:1100-1230); a motion that the
   odometry has missed is owned up to by its covariance, an anchor is believed again
   once the fix is steady, and no time is integrated twice
   (sbg_odometry_bridge.py:400-640, wheel_odometry.py).                       *)
SensorsHonest ==
  /\ machine = "fusion" => Fusion!BackboneStands /\ Fusion!EachConeOnce
  /\ machine = "bridge" => Bridge!MissedMotionOwned /\ Bridge!AnchorReturns
  /\ machine = "wheels" => Wheels!TimeCountsOnce

(* The live pose never goes back behind a correction, and a clock that rolls back does
   not stop the map (graph_slam_node.cpp:581-618, 2437-2535).                 *)
LivePoseKept ==
  machine = "odometry" => Odometry!LiveNeverReverts /\ Odometry!MapShownAgain

(* What plans and drives stands on the present: the local path on the map the car is on,
   however late the map of an earlier run comes (ros_inputs.cpp:230-420), and the
   solver, once settled, on a pair or two that follow each other and on inputs that
   are all present (hyu_tmpc_node.cpp, hyu_tmpc_state_bridge_node.cpp).       *)
InputsPresent ==
  /\ machine = "inputs" => Latches!PlansOnPresentMap
  /\ machine = "cycle" => Cycle!DrivesOnPresent /\ Cycle!PairsFollow /\ Cycle!SettlesFirst

(* The vehicle stops being driven when its commands end (state_machine.cpp), and a
   brake test is passed by an axle that stopped (inspection_mission.py).      *)
StopsHold ==
  /\ machine = "vehicle" => Vehicle!StopsBeingDriven
  /\ machine = "inspection" => Inspection!VerdictTrue

(* The laps and circles that end a mission have been driven: by the orange gate
   (lap_tracking.cpp), by the lap target and by skidpad_director.py's circles. *)
LapsHold ==
  /\ machine = "gate" => Gate!LapsBackedByDriving /\ Gate!CrossingsCounted
  /\ machine = "onelap" => OneLap!StopsAtFinish /\ OneLap!NoExtraLap
  /\ machine = "skidpad" => Skidpad!LapsDriven
=============================================================================
