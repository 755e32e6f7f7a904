----------------------------- MODULE RaceMission -----------------------------
(***************************************************************************)
(* A whole mission: PlanningStateMachine fed by a car driving the ring,    *)
(* graph SLAM that freezes its map after the first return, and the planner *)
(* that then publishes the global path.  The node is the module it         *)
(* extends, callback for callback; what surrounds it is the environment,   *)
(* reduced to when each topic is published and what it carries.            *)
(*                                                                         *)
(* The start/finish line is the one between cells Track-1 and 0.  One tick *)
(* moves the car one cell (or lets it stand) and makes one message of each *)
(* periodic topic due; due messages are delivered in any order, and those  *)
(* of Lossy may be overtaken by the next tick and never arrive.            *)
(***************************************************************************)
EXTENDS PlanningStateMachine

CONSTANTS
  StartCell,         \* where the car is armed, behind the line
  SeamCell,          \* where the published path has s = 0
  FreezeFrom,        \* progress from which SLAM may register the return and freeze
  FreezeBy,          \* and the progress it has frozen by
  Courses,           \* missions driven: whether SLAM sees the gate, whether a stop zone is
                     \* published, and the progress by which the planner has a path
  Coast,             \* cells the car still rolls after a stop request
  StopWithin,        \* how far before the finish a stop may be decided, in cells
  StopLines,         \* <<start, end>> stop zones the marshal's node may publish
  Lossy,             \* topics a message of which may be lost
  TimerRacesSamples  \* the 50 ms timer may fire between two samples of one tick

Zones == {"zoneStart", "zoneEnd", "zoneValid"}
Periodic == {"ego", "frenet", "heartbeat", "handoff", "timer"} \cup Zones

ASSUME MissionAssumption ==
  /\ StartCell \in Cells /\ SeamCell \in Cells
  /\ FreezeFrom \in Nat /\ FreezeBy \in Nat
  /\ Courses \subseteq [gate : BOOLEAN, zone : BOOLEAN, pathBy : Nat]
  /\ Coast \in Nat /\ StopWithin \in Nat
  /\ StopLines \subseteq Nat \X Nat
  /\ Lossy \subseteq Periodic
  /\ TimerRacesSamples \in BOOLEAN

VARIABLES
  course,     \* the mission driven
  cell,       \* where the car is
  crossings,  \* times it has crossed the line forward
  moving,     \* it moved in the last tick
  coasted,    \* cells rolled since the stop request
  slam,       \* graph SLAM's mode, and "none" before its first status
  built,      \* the global path has been published
  due         \* periodic topics with a message under way

world == <<cell, crossings, moving, coasted, slam, built, due>>
missionVars == <<vars, world>>

MissionInit ==
  /\ Init
  /\ course \in Courses
  /\ cell = StartCell /\ crossings = 0 /\ moving = FALSE /\ coasted = 0
  /\ slam = "none" /\ built = FALSE /\ due = {}

\* Laps the car has completed: its first crossing is the start.
LapsDriven == IF crossings = 0 THEN 0 ELSE crossings - 1

\* Cells driven since the first crossing.
Progress == IF crossings = 0 THEN 0 ELSE LapsDriven * Track + cell

RaceLength == TargetLaps * Track

-----------------------------------------------------------------------------
(* The node's callbacks, with what the world has them receive.               *)

Arm == OnAsState /\ UNCHANGED world

SlamStarts ==
  /\ slam = "none"
  /\ slam' = "mapping"
  /\ OnGraphSlamStatus("mapping")
  /\ UNCHANGED <<cell, crossings, moving, coasted, built, due>>

ConeMap ==
  /\ course.gate /\ slam # "none"
  /\ \E fit \in GateFits : OnSlamConeMap(fit[1], fit[2])
  /\ UNCHANGED world

SlamFreezes ==
  /\ slam = "mapping" /\ Progress >= FreezeFrom
  /\ slam' = "localization"
  /\ OnGraphSlamStatus("localization")
  /\ UNCHANGED <<cell, crossings, moving, coasted, built, due>>

PathBuilt ==
  /\ slam = "localization" /\ ~built
  /\ built' = TRUE
  /\ \E m \in Snapshots : OnGlobalWaypoints(m)
  /\ UNCHANGED <<cell, crossings, moving, coasted, slam, due>>

Deliver(topic) ==
  /\ topic \in due
  /\ due' = due \ {topic}
  /\ UNCHANGED <<cell, crossings, moving, coasted, slam, built>>

EgoOdom == Deliver("ego") /\ OnEgoOdom(IF moving THEN "driving" ELSE "rest", cell)
FrenetOdom == Deliver("frenet") /\ built /\ OnFrenetOdom(Ahead(SeamCell, cell), TRUE)
Heartbeat == Deliver("heartbeat") /\ OnGlobalPathValid(built)
Handoff == Deliver("handoff") /\ OnGlobalHandoffReady(built)

ZoneStart == Deliver("zoneStart") /\ \E z \in StopLines : OnStopZoneSStart(z[1])
ZoneEnd == Deliver("zoneEnd") /\ \E z \in StopLines : OnStopZoneSEnd(z[2])
ZoneValid == Deliver("zoneValid") /\ OnStopZoneValid(TRUE)

Timer ==
  /\ Deliver("timer")
  /\ TimerRacesSamples \/ due' \subseteq Lossy
  /\ OnTimer

\* The car is under way once armed, rolls Coast cells after a stop request, then stands.
CanDrive == driving /\ gate.valid = course.gate /\ (~out.stop \/ coasted < Coast)

Publishing(topic) == (topic = "frenet" => built) /\ (topic \in Zones => course.zone)

Elapse ==
  /\ due \subseteq Lossy
  /\ Tick
  /\ due' = {topic \in Periodic : Publishing(topic)}
  /\ UNCHANGED <<slam, built>>

Drive ==
  /\ CanDrive /\ slam # "none"
  /\ LapsDriven <= TargetLaps
  /\ Progress < FreezeBy \/ slam = "localization"
  /\ Progress < course.pathBy \/ built
  /\ cell' = (cell + 1) % Track
  /\ crossings' = IF cell' = 0 THEN crossings + 1 ELSE crossings
  /\ coasted' = IF out.stop THEN coasted + 1 ELSE coasted
  /\ moving' = TRUE
  /\ Elapse

Stand ==
  /\ out.stop /\ ~CanDrive
  /\ moving' = FALSE
  /\ UNCHANGED <<cell, crossings, coasted>>
  /\ Elapse

MissionNext ==
  \/ Arm \/ SlamStarts \/ ConeMap \/ SlamFreezes \/ PathBuilt
  \/ EgoOdom \/ FrenetOdom \/ Heartbeat \/ Handoff \/ Timer
  \/ ZoneStart \/ ZoneEnd \/ ZoneValid
  \/ Drive \/ Stand

MissionSpec == MissionInit /\ [][MissionNext /\ UNCHANGED course]_<<missionVars, course>>

\* The executor keeps serving its queue, the publishers keep publishing, SLAM and the
\* planner finish their work and the car obeys: nothing here may stop for ever.
MissionFairness ==
  /\ WF_missionVars(Arm) /\ WF_missionVars(SlamStarts)
  /\ WF_missionVars(EgoOdom) /\ WF_missionVars(FrenetOdom) /\ WF_missionVars(Heartbeat)
  /\ WF_missionVars(Handoff) /\ WF_missionVars(Timer)
  /\ WF_missionVars(ZoneStart) /\ WF_missionVars(ZoneEnd) /\ WF_missionVars(ZoneValid)
  /\ WF_missionVars(Drive \/ Stand)
  /\ SF_missionVars(ConeMap) /\ SF_missionVars(SlamFreezes) /\ WF_missionVars(PathBuilt)

FairMission == MissionSpec /\ MissionFairness

-----------------------------------------------------------------------------

\* The published count never runs ahead of the laps the car has completed, whatever mix
\* of gate crossings, seam wraps and discovery lap it was computed from: 1, 2, 3 once
\* each, never a lap too many (authoritativeLapCount).
CountNeverAhead == lap.count <= LapsDriven

\* The mission is not cut short: when the node decides STOP the car is at the finish of
\* the target lap, no further from it than StopWithin (stopRequestReason).
StopsAtFinish == state = "STOP" => Progress + StopWithin >= RaceLength

\* Nor does it run a lap too many: the car is stopped before it can complete a lap
\* beyond the target (the gate on final_lap_start_count_, not on target_lap_count_).
NoExtraLap == Progress <= RaceLength + Coast + 1

\* Finished is reported only of a car that stands (updateMissionFinished).
FinishedAtRest == finished => ~moving

\* Every mission ends: the car drives its laps, stops and Finished is reported.
MissionEnds == <>finished

-----------------------------------------------------------------------------
(* Values a run gives the constants: the courses of a small track.          *)

LoopPath == {[count |-> 3, len |-> Track, gap |-> 0]}
GateAtLine == {<<0, 1>>}
Gate == [gate |-> TRUE, zone |-> FALSE, pathBy |-> 13]
AllCourses == {Gate, [Gate EXCEPT !.zone = TRUE], [Gate EXCEPT !.gate = FALSE, !.pathBy = 11]}
LastTwoCells == {<<Track - 2, Track - 1>>}

=============================================================================
