------------------------ MODULE PlanningStateMachine ------------------------
(***************************************************************************)
(* planning_hyu_state_machine_node: decides whether the car follows the    *)
(* local path, the global path, or stops, counts laps and reports the      *)
(* mission finished.  The node runs on a single-threaded executor, so each *)
(* subscription callback and the 50 ms timer callback is one action; Tick  *)
(* lets time pass.  Inputs arrive in any order from the sets below.        *)
(*                                                                         *)
(* The subscriptions that only feed the debug string (/perception/cones,   *)
(* /planning/local_path_valid) and the debug string itself are left out.   *)
(***************************************************************************)
EXTENDS GlobalPathReadiness, LapTracking

CONSTANTS
  TargetLaps,         \* target_lap_count
  InitialLaps,        \* initial_lap_count
  FinalLapStart,      \* final_lap_start_count, target_lap_count - 1 unless set
  StopOnTargetLaps,   \* stop_on_target_laps
  FinishOnRest,       \* finish_on_rest
  RestDuration,       \* finish_rest_duration_sec, in ticks
  StopZoneTimeout,    \* stop_zone_timeout_sec, in ticks
  PathEndThreshold,   \* final_path_end_threshold
  StopZoneMargin,     \* stop_zone_s_margin
  Flags,              \* values /planning/global_path_valid and _handoff_ready may carry
  Snapshots,          \* /planning/global_waypoints messages: [count, len, gap]
  FrenetS,            \* s values /planning/frenet_odom may carry
  EgoCells,           \* cells /localization/ego_odom may report
  EgoSpeeds,          \* and the speed classes
  GateFits,           \* <<cell, side>> gates the cone map may yield
  StopZoneS,          \* s values of /planning/stop_zone/s_start and s_end
  MaxSnapshots,       \* bound on waypoint_message_generation_
  MaxLaps             \* bound on each lap estimator

ASSUME PlanningAssumption ==
  /\ TargetLaps \in Nat /\ InitialLaps \in Nat /\ FinalLapStart \in Nat
  /\ StopOnTargetLaps \in BOOLEAN /\ FinishOnRest \in BOOLEAN
  /\ RestDuration \in Nat /\ StopZoneTimeout \in Nat
  /\ PathEndThreshold \in Nat /\ StopZoneMargin \in Nat
  /\ Flags \subseteq BOOLEAN
  /\ Snapshots \subseteq [count : Nat, len : 0..MaxPathLength, gap : Nat]
  /\ \A m \in Snapshots : m.len + m.gap <= MaxLapPath
  /\ MaxLapPath \in Nat /\ FrenetS \subseteq Nat /\ StopZoneS \subseteq Nat
  /\ EgoCells \subseteq Cells
  /\ GateFits \subseteq Cells \X {-1, 1}
  /\ MaxSnapshots \in Nat /\ MaxLaps \in Nat

\* Body speed against finish_rest_speed_mps (0.15), min_lap_count_speed_mps (0.3) and
\* the 0.5 m/s that proves the car has driven; "nan" is a non-finite twist.
Speeds == {"rest", "creep", "slow", "driving", "nan"}

ASSUME SpeedAssumption == EgoSpeeds \subseteq Speeds

AboveRest == {"creep", "slow", "driving"}
CountsLaps == {"slow", "driving"}

VARIABLES
  state,      \* state_
  readiness,  \* global_path_readiness_, without its handoff gate
  handoff,    \* its handoff gate
  policy,     \* lap_tracking_policy_
  gate,       \* gate_tracker_
  lap,        \* lap_count_, fallback_lap_count_, discovery_lap_seen_, ...
  driving,    \* vehicle_driving_seen_
  motion,     \* has_vehicle_moved_, has_last_motion_time_, last_motion_time_
  frenet,     \* current_s_, |current_d_| <= max_abs_d_for_global_, receive time
  zone,       \* stop_zone_* inputs
  finished,   \* mission_finished_
  out         \* what the last timer callback published

vars == <<state, readiness, handoff, policy, gate, lap, driving, motion, frenet, zone,
          finished, out>>

States == {"LOCAL", "GLOBAL", "STOP"}
PathSources == {"LOCAL", "GLOBAL_FULL", "GLOBAL_FINAL_STOP", "STOP"}

LapType == [count : Nat, fallback : Nat, discovery : BOOLEAN, atDiscovery : Nat]
MotionType == [moved : BOOLEAN, seen : BOOLEAN, restAge : 0..RestDuration]
FrenetType == [has : BOOLEAN, s : Nat, dOk : BOOLEAN, age : 0..(FrenetTimeout + 1)]
ZoneType ==
  [hasStart : BOOLEAN, hasEnd : BOOLEAN, hasValid : BOOLEAN, start : Nat, end : Nat,
   valid : BOOLEAN, startAge : 0..(StopZoneTimeout + 1), endAge : 0..(StopZoneTimeout + 1),
   validAge : 0..(StopZoneTimeout + 1)]
OutType ==
  [state : States, source : PathSources, laps : Nat, stop : BOOLEAN, completed : BOOLEAN]

TypeOK ==
  /\ state \in States
  /\ readiness \in ReadinessType
  /\ handoff \in HandoffType
  /\ policy \in PolicyType
  /\ gate \in GateType
  /\ lap \in LapType
  /\ driving \in BOOLEAN
  /\ motion \in MotionType
  /\ frenet \in FrenetType
  /\ zone \in ZoneType
  /\ finished \in BOOLEAN
  /\ out \in OutType

\* selectPathSource
PathSource(st, laps) ==
  CASE st = "STOP"  -> "STOP"
    [] st = "LOCAL" -> "LOCAL"
    [] OTHER        -> IF laps >= FinalLapStart THEN "GLOBAL_FINAL_STOP" ELSE "GLOBAL_FULL"

Published(st, laps, done) ==
  [state |-> st, source |-> PathSource(st, laps), laps |-> laps, stop |-> st = "STOP",
   completed |-> done]

Init ==
  /\ state = "LOCAL"
  /\ readiness = ReadinessInit
  /\ handoff = HandoffInit
  /\ policy = PolicyInit
  /\ gate = GateInit
  /\ lap = [count |-> InitialLaps, fallback |-> 0, discovery |-> FALSE, atDiscovery |-> 0]
  /\ driving = FALSE
  /\ motion = [moved |-> FALSE, seen |-> FALSE, restAge |-> 0]
  /\ frenet = [has |-> FALSE, s |-> 0, dOk |-> TRUE, age |-> FrenetTimeout + 1]
  /\ zone = [hasStart |-> FALSE, hasEnd |-> FALSE, hasValid |-> FALSE, start |-> 0,
             end |-> 0, valid |-> FALSE, startAge |-> StopZoneTimeout + 1,
             endAge |-> StopZoneTimeout + 1, validAge |-> StopZoneTimeout + 1]
  /\ finished = FALSE
  /\ out = Published("LOCAL", InitialLaps, FALSE)

-----------------------------------------------------------------------------
(* Subscription callbacks.                                                   *)

\* recomputeLapCount
Recomputed(l, g) ==
  [l EXCEPT !.count = AuthoritativeLapCount(l.count, InitialLaps, l.discovery, g.counted,
                                            l.atDiscovery, g.valid, l.fallback)]

OnAsState ==
  /\ ~driving
  /\ driving' = TRUE
  /\ UNCHANGED <<state, readiness, handoff, policy, gate, lap, motion, frenet, zone,
                 finished, out>>

\* The lap bookkeeping after a Frenet sample s.
LapAfterFrenetUncounted(s) ==
  IF driving /\ CountsWrap(policy, s) THEN [lap EXCEPT !.fallback = @ + 1] ELSE lap

LapAfterFrenet(s) ==
  IF driving /\ CountsWrap(policy, s)
  THEN Recomputed([lap EXCEPT !.fallback = @ + 1], gate)
  ELSE lap

OnFrenetOdom(s, dOk) ==
  /\ frenet' = [has |-> TRUE, s |-> s, dOk |-> dOk, age |-> 0]
  /\ policy' = IF driving THEN ObserveFrenetSample(policy, s) ELSE policy
  /\ lap' = LapAfterFrenet(s)
  /\ lap'.fallback <= MaxLaps
  /\ UNCHANGED <<state, readiness, handoff, gate, driving, motion, zone, finished, out>>

\* A cone map that yields a gate; one that yields none leaves the tracker as it is.
OnSlamConeMap(pos, side) ==
  /\ gate' = UpdateGate(gate, pos, side)
  /\ UNCHANGED <<state, readiness, handoff, policy, lap, driving, motion, frenet, zone,
                 finished, out>>

\* Before AS_DRIVING an ego sample is not looked at.
EveryEgoSample == TRUE
UsesEgoSample == driving

\* Rest tracking: the last motion is that of the last sample above the rest speed.
MotionAfterAnySample(speed) ==
  IF speed = "nan" THEN motion
  ELSE [moved |-> motion.moved \/ speed = "driving", seen |-> TRUE, restAge |-> 0]

MotionAfter(speed) ==
  IF speed = "nan" THEN motion
  ELSE [moved   |-> motion.moved \/ speed = "driving",
        seen    |-> TRUE,
        restAge |-> IF speed \in AboveRest \/ ~motion.seen THEN 0 ELSE motion.restAge]

OnEgoOdom(speed, p) ==
  /\ UsesEgoSample
  /\ motion' = MotionAfter(speed)
  /\ gate' = IF speed \in CountsLaps THEN ObserveEgo(gate, p) ELSE gate
  /\ lap' = IF speed \in CountsLaps /\ CountsCrossing(gate, p)
            THEN Recomputed(lap, gate')
            ELSE lap
  /\ gate'.counted <= MaxLaps
  /\ UNCHANGED <<state, readiness, handoff, policy, driving, frenet, zone, finished, out>>

OnGlobalWaypoints(m) ==
  /\ readiness.msgGen < MaxSnapshots
  /\ policy' = AcceptPath(policy, m)
  /\ readiness' = OnWaypoints(readiness, m.count, m.len)
  /\ UNCHANGED <<state, handoff, gate, lap, driving, motion, frenet, zone, finished, out>>

\* The lap bookkeeping after a status: the discovery lap is lap 1, and the gate counts
\* from here.
LapAfterStatusUndriven(status) ==
  IF CountsDiscovery(policy, status)
  THEN Recomputed([lap EXCEPT !.discovery = TRUE, !.atDiscovery = gate.counted], gate)
  ELSE lap

LapAfterStatusUnanchored(status) ==
  IF CountsDiscovery(policy, status) /\ driving
  THEN Recomputed([lap EXCEPT !.discovery = TRUE], gate)
  ELSE lap

LapAfterStatus(status) ==
  IF CountsDiscovery(policy, status) /\ driving
  THEN Recomputed([lap EXCEPT !.discovery = TRUE, !.atDiscovery = gate.counted], gate)
  ELSE lap

OnGraphSlamStatus(status) ==
  /\ policy' = ObserveGraphSlamStatus(policy, status)
  /\ lap' = LapAfterStatus(status)
  /\ readiness' = OnStatus(readiness, status)
  /\ UNCHANGED <<state, handoff, gate, driving, motion, frenet, zone, finished, out>>

OnGlobalPathValid(v) ==
  /\ readiness' = OnValidity(readiness, v)
  /\ UNCHANGED <<state, handoff, policy, gate, lap, driving, motion, frenet, zone,
                 finished, out>>

OnGlobalHandoffReady(v) ==
  /\ handoff' = ObserveHandoff(handoff, v)
  /\ UNCHANGED <<state, readiness, policy, gate, lap, driving, motion, frenet, zone,
                 finished, out>>

OnStopZoneSStart(s) ==
  /\ zone' = [zone EXCEPT !.start = s, !.startAge = 0, !.hasStart = TRUE]
  /\ UNCHANGED <<state, readiness, handoff, policy, gate, lap, driving, motion, frenet,
                 finished, out>>

OnStopZoneSEnd(s) ==
  /\ zone' = [zone EXCEPT !.end = s, !.endAge = 0, !.hasEnd = TRUE]
  /\ UNCHANGED <<state, readiness, handoff, policy, gate, lap, driving, motion, frenet,
                 finished, out>>

OnStopZoneValid(v) ==
  /\ zone' = [zone EXCEPT !.valid = v, !.validAge = 0, !.hasValid = TRUE]
  /\ UNCHANGED <<state, readiness, handoff, policy, gate, lap, driving, motion, frenet,
                 finished, out>>

-----------------------------------------------------------------------------
(* The timer callback: updateState, updateMissionFinished, publishOutputs.   *)

HasFreshFrenetOdom == frenet.has /\ frenet.age <= FrenetTimeout

HasFreshStopZone ==
  /\ zone.hasStart /\ zone.hasEnd /\ zone.hasValid
  /\ zone.startAge <= StopZoneTimeout
  /\ zone.endAge <= StopZoneTimeout
  /\ zone.validAge <= StopZoneTimeout

\* isSInStopZone: an end before its start is a zone that wraps past the seam.
InStopZone(r, s) ==
  LET start == zone.start - StopZoneMargin
      end   == zone.end + StopZoneMargin
  IN IF end >= start THEN start <= s /\ s <= end
     ELSE r.len > 0 /\ (s >= start \/ s <= end)

IsStoplineDetected(r) == HasFreshStopZone /\ zone.valid /\ InStopZone(r, frenet.s)

FinalPathEndReached(r) == frenet.has /\ Ready(r) /\ r.len - frenet.s < PathEndThreshold

StopRequestedOnAnyLap(r) ==
  HasFreshFrenetOdom /\ (FinalPathEndReached(r) \/ IsStoplineDetected(r))

StopRequestedAfterTarget(r) == lap.count >= TargetLaps /\ StopRequestedOnAnyLap(r)

\* stopRequestReason, for the two reasons that request a stop.
StopRequested(r) ==
  /\ HasFreshFrenetOdom
  /\ lap.count >= FinalLapStart
  /\ FinalPathEndReached(r) \/ IsStoplineDetected(r)

TargetLapsPassed == StopOnTargetLaps /\ driving /\ lap.count > TargetLaps
TargetLapsStarted == StopOnTargetLaps /\ driving /\ lap.count + 1 >= TargetLaps
TargetLapsReached == StopOnTargetLaps /\ driving /\ lap.count >= TargetLaps

\* globalEntryAllowed
EntryAllowed(r, h) ==
  Ready(r) /\ HasFreshFrenetOdom /\ frenet.dOk /\ HandoffDwellReady(h)

\* updateState with transitionForGlobalReadiness, after the refreshes.
NextState(r, h) ==
  CASE state = "STOP"                          -> "STOP"
    [] state # "STOP" /\ TargetLapsReached     -> "STOP"
    [] state = "GLOBAL" /\ ~TargetLapsReached  ->
         IF StopRequested(r) THEN "STOP" ELSE IF Ready(r) THEN "GLOBAL" ELSE "LOCAL"
    [] state = "LOCAL" /\ ~TargetLapsReached   ->
         IF EntryAllowed(r, h) THEN "GLOBAL" ELSE "LOCAL"

StoppedAfterRun(st) == driving /\ motion.moved /\ motion.seen /\ st = "STOP"

\* updateMissionFinished, in the state just decided.
RestedAfterRun(st) ==
  /\ driving /\ motion.moved /\ motion.seen
  /\ st = "STOP" \/ FinishOnRest
  /\ motion.restAge >= RestDuration

OnTimer ==
  /\ readiness' = RefreshValidity(readiness)
  /\ handoff' = RefreshHandoff(handoff)
  /\ policy' = RefreshSample(policy)
  /\ state' = NextState(readiness', handoff')
  /\ finished' = (finished \/ RestedAfterRun(state'))
  /\ out' = Published(state', lap.count, finished')
  /\ UNCHANGED <<gate, lap, driving, motion, frenet, zone>>

\* Every stored receive time grows one tick older.
Tick ==
  /\ readiness' = AgeReadiness(readiness)
  /\ handoff' = AgeHandoff(handoff)
  /\ policy' = AgePolicy(policy)
  /\ gate' = AgeGate(gate)
  /\ motion' = [motion EXCEPT !.restAge = Older(@, RestDuration)]
  /\ frenet' = [frenet EXCEPT !.age = Older(@, FrenetTimeout + 1)]
  /\ zone' = [zone EXCEPT !.startAge = Older(@, StopZoneTimeout + 1),
                          !.endAge = Older(@, StopZoneTimeout + 1),
                          !.validAge = Older(@, StopZoneTimeout + 1)]
  /\ UNCHANGED <<state, lap, driving, finished, out>>

\* The callbacks that carry no path snapshot and no heartbeat.
OtherCallbacks ==
  \/ OnAsState
  \/ \E s \in FrenetS, dOk \in BOOLEAN : OnFrenetOdom(s, dOk)
  \/ \E fit \in GateFits : OnSlamConeMap(fit[1], fit[2])
  \/ \E speed \in EgoSpeeds, p \in EgoCells : OnEgoOdom(speed, p)
  \/ \E status \in SlamStatus \ {"none"} : OnGraphSlamStatus(status)
  \/ \E s \in StopZoneS : OnStopZoneSStart(s) \/ OnStopZoneSEnd(s)
  \/ StopZoneS # {} /\ \E v \in BOOLEAN : OnStopZoneValid(v)
  \/ OnTimer

Next ==
  \/ \E m \in Snapshots : OnGlobalWaypoints(m)
  \/ \E v \in Flags : OnGlobalPathValid(v) \/ OnGlobalHandoffReady(v)
  \/ OtherCallbacks
  \/ Tick

Spec == Init /\ [][Next]_vars

=============================================================================
