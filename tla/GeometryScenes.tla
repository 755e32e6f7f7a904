--------------------------- MODULE GeometryScenes ---------------------------
(* The algorithms on cones, maps and trajectories, each by itself and each at the bounds
   it is checked at: a behaviour is one machine's, named by `machine`, whose
   variables are the first of v1 .. v8; the slots it leaves over stay empty.  *)
EXTENDS Integers

VARIABLES machine, v1, v2, v3, v4, v5, v6, v7, v8

sceneVars == <<machine, v1, v2, v3, v4, v5, v6, v7, v8>>

After7 == <<v8>>
After6 == <<v7, After7>>
After5 == <<v6, After6>>
After4 == <<v5, After5>>
After3 == <<v4, After4>>

Empty7 == v8 = <<>>
Empty6 == v7 = <<>> /\ Empty7
Empty5 == v6 = <<>> /\ Empty6
Empty4 == v5 = <<>> /\ Empty5
Empty3 == v4 = <<>> /\ Empty4

\* The correlative match of the lap's seam, at a grid of ten steps to the coarse cell.
Seam == INSTANCE SeamMatch WITH
  car <- v1, est <- v2, map <- v3, frames <- v4, csm <- v5, frozen <- v6,
  Factor <- 10, Reach <- 12, Dilate <- 6, CoarseMin <- 350, FineMin <- 450,
  Notch <- 100, OrangeWeight <- 10, Gate <- {0, 8, 60, 68}, Blues <- {20},
  Yellows <- {90}, Late <- {1000, 1030, 1050}, Margin <- 100, Lap <- 4,
  ReturnTravel <- 3, StartArea <- 1, MinPoints <- 3, Span <- 1, Dedup <- 12,
  DedupOrange <- 5, LoopWindow <- 80, TrackWindow <- 40, MinOrangeSpan <- 30,
  OrangeResponse <- 800, LoopResponse <- 600, PeakMargin <- 100, Cooldown <- 1,
  Slips <- {0, 6}, Missed <- 2, MaxTravel <- 6

\* The front end of the SLAM: two cones or more, four frames, one wrong colour.
Association == INSTANCE ConeAssociation WITH
  scene <- v1, left <- v2, travelled <- v3, landmarks <- v4, tracks <- v5,
  last <- v6, streak <- v7, file <- v8, Gaps <- {10, 20}, RevisitGap <- 40,
  Stales <- {25, 100, 400}, Drifts <- {0, 5, 12, 18}, Twins <- {8, 20}, Noise <- 2,
  Levers <- {3}, SensorVar <- 7, Step <- 1, MaxFrames <- 4, MaxWrong <- 1,
  RevisitFrames <- 1, LostDrift <- 18, LostStale <- 25, MaxDistance <- 15,
  Gate <- 5991, Ratio <- 72, MaxInflation <- 400, PairSeparation <- 25,
  TrackGate <- 9210, TrackDistance <- 24, MinHits <- 3, MinVar <- 12, FarHits <- 6,
  FarVar <- 49, HoldRadius <- 20, HoldStale <- 5, DriftStale <- 60, KillMisses <- 2,
  KillTravel <- 25, LoopGap <- 20, RepairHits <- 5, Floor <- 1, TwinRadius <- 6

\* The straight of the acceleration run, from its start past its last cone.
Straight == INSTANCE StraightCorridor WITH
  car <- v1, map <- v2, latch <- v3, path <- v4, Corridor <- {0, 2, 4},
  BrakingZone <- {6}, Behind <- 2, Ahead <- 4, Cap <- 3, Horizon <- 5, Fallback <- 2,
  MinPath <- 2, MaxStart <- 1, Gap <- 2, MaxX <- 10

\* local_path_geometry: four or five cones anywhere on a small grid.
Traversal == INSTANCE LocalTraversal WITH
  cones <- v1, chain <- v2, twin <- v3, Grid <- (0 .. 2) \X (-2 .. 2),
  Counts <- {4, 5}, MaxGap <- 3, Spacing <- 1

\* The cone map of a small track, with a ghost or a stray cone.
Repair == INSTANCE ConeRepair WITH
  seen <- v1, blue <- v2, yellow <- v3, before <- v4, stage <- v5, reason <- v6,
  start <- v7, Spacing <- 40, Width <- 32, Side <- 4, MinWidth <- 16, MaxWidth <- 48,
  MaxGap <- 96, MinCones <- 3, Dup <- 4, Tolerance <- 16, Nominal <- 28,
  GhostX <- {24, 116, 440}, GhostY <- {0, 16, 32, 48}, GateX <- 100,
  StrayX <- {60, 100, 129}

\* The boundaries of a track with a hole and a ghost, in any order of the cones.
Build == INSTANCE CenterlineBuild WITH
  cones <- v1, points <- v2, tier <- v3, attempt <- v4, built <- v5, MaxGap <- 120,
  MinWidth <- 20, MaxWidth <- 60, CloseLoop <- 50, Sampling <- 30, OrderSeeds <- 4,
  BuildSeeds <- 2, Turns <- {0, 1}, Holes <- {0, 1, 2, 703}, Ghosts <- {0, 100, 160}

\* The two trajectories of a tick, anywhere on a track of two straights.
Pair == INSTANCE TmpcPair WITH
  cut <- v1, form <- v2, straight <- v3, unknown <- v4, car <- v5, built <- v6,
  Points <- 7, Foresight <- 3, MinHorizon <- 200, MaxHorizon <- 500, Behind <- 50,
  MinSpacing <- 1, Cap <- 750, Tube <- 60, Margin <- 100, MaxTube <- 100,
  Scale <- 950, Limit <- 1000, FinalSpeed <- 50, Drag <- 38, TopSpeed <- 850,
  AxLow <- 981, AxHigh <- 981, AyLow <- 1200, AyHigh <- 1200, Side <- 400,
  Straights <- {300, 700, 1200}, Corner <- 500, Kappa <- 200,
  Stations <- {0, 700, 2950, 3150}, Speeds <- {0, 800, 1150}

ASSUME BoundsFit == Pair!ConfigValid

-----------------------------------------------------------------------------
ScenesInit ==
  \/ machine = "seam" /\ Seam!SeamInit /\ Empty6
  \/ machine = "association" /\ Association!AssociationInit
  \/ machine = "corridor" /\ Straight!CorridorInit /\ Empty4
  \/ machine = "traversal" /\ Traversal!TraversalInit /\ Empty3
  \/ machine = "repair" /\ Repair!RepairInit /\ Empty7
  \/ machine = "build" /\ Build!BuildInit /\ Empty5
  \/ machine = "pair" /\ Pair!PairInit /\ Empty6

ScenesNext ==
  \/ machine = "seam" /\ Seam!SeamNext /\ UNCHANGED <<machine, After6>>
  \/ machine = "association" /\ Association!AssociationNext /\ UNCHANGED machine
  \/ machine = "corridor" /\ Straight!CorridorNext /\ UNCHANGED <<machine, After4>>
  \/ machine = "traversal" /\ Traversal!TraversalNext /\ UNCHANGED <<machine, After3>>
  \/ machine = "repair" /\ Repair!RepairNext /\ UNCHANGED <<machine, After7>>
  \/ machine = "build" /\ Build!BuildNext /\ UNCHANGED <<machine, After5>>
  \/ machine = "pair" /\ Pair!PairNext /\ UNCHANGED <<machine, After6>>

-----------------------------------------------------------------------------
(* The registration by the gate, when it is applied, is of this lap's seam, and the
   estimate is then right to within a coarse cell (graph_slam_node.cpp:1061-1180). *)
SeamIsTrue == [][machine = "seam" => Seam!SeamStep]_sceneVars

(* The cones of a frame are told apart, and none is mapped twice or left out, however
   the pose has drifted since the lap before (tentative_track_frontend.hpp:232-504,
   graph_slam_node.cpp:1565-1785, 1909-2136).                                 *)
ConesToldApart ==
  machine = "association" =>
    /\ Association!TwinServes /\ Association!OwnLandmark /\ Association!BothMapped
    /\ Association!MappedOnce /\ Association!OneConeEach /\ Association!BornOfMajority

(* The path of a straight does not shrink for one cycle and make the car brake
   (hyu_local_planner_node.cpp:154-191).                                      *)
NoBrakePulse == [][machine = "corridor" => Straight!NoBrakePulseStep]_sceneVars

(* The local path is the same for a track and its mirror image
   (local_path_geometry.cpp:150-330), and ends past the last cones of a straight
   (hyu_local_planner_node.cpp:140-300).  What is repaired of the cone map builds,
   starts at the gate whatever the colours, a ghost costs no cone but its neighbours,
   and the line built stays on the track (slam_centerline_builder.cpp).  A pair of
   trajectories stops within its own horizon, and is of the track it is for, seam or
   no seam (tmpc_trajectory_builder.cpp).                                     *)
PathsHold ==
  /\ machine = "corridor" => Straight!EndsPastCones
  /\ machine = "traversal" => Traversal!MirrorSymmetric
  /\ machine = "repair" =>
       /\ Repair!GuardNeverTrips /\ Repair!GateSpansTrack /\ Repair!ColourBlind
       /\ Repair!GhostCostsItself /\ Repair!StartsAtGate
  /\ machine = "build" => Build!LineInTrack /\ Build!WholeMapBuilds
  /\ machine = "pair" => Pair!SeamInvisible /\ Pair!TubeMeasured /\ Pair!PairStops
=============================================================================
