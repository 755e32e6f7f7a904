------------------------------ MODULE GateDrive ------------------------------
(***************************************************************************)
(* The orange gate counting laps of one car: the node's ego odometry and   *)
(* cone map callbacks, composed with a car that drives the ring forward,   *)
(* stands, and is reported by an odometry stream that loses samples and    *)
(* snaps while the car stands or is not armed yet.  SLAM refits the gate   *)
(* at any time: anywhere in GateFits, or steadily in one place.            *)
(***************************************************************************)
EXTENDS PlanningStateMachine

CONSTANTS
  StartCell,    \* where the car is armed
  Drift,        \* how far apart two fits of the gate may be, in cells
  SteadyFits,   \* the fits of a gate that stays where it is
  MaxDriven     \* bound on the cells driven

GateDriveAssumption ==
  /\ StartCell \in Cells /\ Drift \in Nat
  /\ SteadyFits \subseteq GateFits /\ MaxDriven \in Nat
  /\ \A f, g \in GateFits : RingDistance(f[1], g[1]) <= Drift

VARIABLES
  steady,     \* the gate stays where it is and no odometry sample is lost
  cell,       \* where the car is
  driven,     \* cells it has driven since it was armed
  crossings,  \* times it has crossed the line before cell 0, the node watching
  moving,     \* it moved in the last tick
  reported    \* its present position has been reported

carVars == <<cell, driven, crossings, moving, reported>>
driveVars == <<vars, carVars>>

DriveInit ==
  /\ Init
  /\ steady \in BOOLEAN
  /\ cell = StartCell /\ driven = 0 /\ crossings = 0
  /\ moving = FALSE /\ reported = FALSE

Arm == OnAsState /\ UNCHANGED carVars

ConeMap == /\ \E fit \in IF steady THEN SteadyFits ELSE GateFits : OnSlamConeMap(fit[1], fit[2])
           /\ UNCHANGED carVars

\* A car that drives is reported where it is.  The estimate of one that stands, or that
\* is not armed yet, may be anywhere; only before arming may it also seem to be fast.
Reportable(speed, p) ==
  \/ driving /\ moving /\ speed = "driving" /\ p = cell
  \/ driving /\ ~moving /\ speed \notin CountsLaps
  \/ ~driving

EgoOdom ==
  /\ ~reported
  /\ \E speed \in EgoSpeeds, p \in EgoCells :
       Reportable(speed, p) /\ OnEgoOdom(speed, p)
  /\ reported' = TRUE
  /\ UNCHANGED <<cell, driven, crossings, moving>>

Elapse ==
  /\ reported \/ ~steady \/ ~driving
  /\ Tick
  /\ reported' = FALSE

\* The car drives n cells in a tick.  One that pulls away is seen moving before it is
\* over the line: a line crept over below min_lap_count_speed_mps_ is not a crossing.
Drive(n) ==
  /\ driving /\ driven + n <= MaxDriven
  /\ moving \/ cell + n < Track
  /\ cell' = (cell + n) % Track
  /\ driven' = driven + n
  /\ crossings' = IF gate.hasPrev /\ cell + n >= Track THEN crossings + 1 ELSE crossings
  /\ moving' = TRUE
  /\ Elapse

Stand ==
  /\ moving' = FALSE
  /\ UNCHANGED <<cell, driven, crossings>>
  /\ Elapse

DriveNext ==
  \/ Arm
  \/ ConeMap
  \/ EgoOdom
  \/ \E n \in 1..MaxStep : Drive(n)
  \/ Stand

DriveSpec == DriveInit /\ [][DriveNext /\ UNCHANGED steady]_<<driveVars, steady>>

-----------------------------------------------------------------------------

\* No phantom lap: each lap the gate counted is backed by a lap's driving, up to the
\* gate's own drift, whatever the odometry reports of a standing or unarmed car and
\* wherever the gate is refitted (vehicle_driving_seen_, min_lap_count_speed_mps_ and the
\* arming, cooldown and plausible-step guards of OrangeGateLapTracker::observeEgo).
LapsBackedByDriving == gate.counted * Track <= driven + Drift

\* No lap is missed at a steady gate: once the node has seen where the car is, every
\* crossing of the gate after the first has been counted.
CrossingsCounted == steady /\ reported => gate.counted + 1 >= crossings

=============================================================================
