---------------------------- MODULE MissionProofs ----------------------------
(***************************************************************************)
(* Proofs about a whole mission, for every track, number of laps, timeout  *)
(* and coast: the lap count never runs ahead of the laps driven, the car   *)
(* is not stopped before the finish, and is reported finished only at      *)
(* rest.                                                                   *)
(***************************************************************************)
EXTENDS RaceMission, PlanningProofs

MissionTypeOK ==
  /\ TypeOK
  /\ course \in Courses
  /\ cell \in Cells /\ crossings \in Nat /\ coasted \in Nat
  /\ moving \in BOOLEAN /\ built \in BOOLEAN /\ due \in SUBSET Periodic

\* The rest timer of a car under way is reset in every tick, and a car that stands after
\* it has driven has rolled out behind a stop request.
RestInv ==
  /\ out.stop => state = "STOP"
  /\ moving \/ motion.moved => driving /\ gate.valid = course.gate
  /\ moving /\ motion.moved => motion.restAge <= IF "ego" \in due THEN 1 ELSE 0
  /\ ~moving /\ motion.moved => out.stop /\ coasted >= Coast
  /\ finished => motion.moved /\ ~moving

\* Crossings that an estimator with this last sample has had the chance to count.
Seen(known, last) == crossings - (IF known /\ last > cell THEN 1 ELSE 0)

\* The gate's last sample is of this tick or the one before.
GateSampled ==
  gate.hasPrev => IF moving /\ "ego" \in due THEN cell = (gate.prev + 1) % Track
                                             ELSE cell = gate.prev

\* Neither estimator has counted more than it has seen: the gate all crossings but the
\* start, and since the discovery all but two; the seam, all since the path was built.
CountInv ==
  /\ lap.count <= LapsDriven
  /\ gate.hasPrev => gate.valid
  /\ gate.valid => gate.pos = 0
  /\ GateSampled
  /\ 0 <= Seen(gate.hasPrev, gate.prev)
  /\ IF gate.timer THEN gate.counted + 1 <= Seen(gate.hasPrev, gate.prev)
                   ELSE gate.counted = 0
  /\ IF lap.discovery THEN gate.counted + 2 <= lap.atDiscovery + Seen(gate.hasPrev, gate.prev)
                           /\ crossings >= 2
                      ELSE lap.atDiscovery = 0
  /\ IF slam = "localization" THEN lap.fallback + 2 <= Seen(policy.hasPrev, policy.prevS)
                              ELSE lap.fallback = 0 /\ ~policy.hasPrev /\ ~built

\* What the stop rule reads is of the lap and the place the car is at, or before.
StopInv ==
  /\ state = "STOP" => Progress + StopWithin >= RaceLength
  /\ frenet.has => built /\ ("frenet" \in due \/ frenet.s = cell)
  /\ readiness.has => readiness.len >= Track
  /\ zone.hasStart => \E z \in StopLines : zone.start = z[1]
  /\ zone.hasEnd => \E z \in StopLines : zone.end = z[2]

-----------------------------------------------------------------------------
(* Types.                                                                     *)

\* What the node does in each step of the mission.
LEMMA MissionCallback ==
  ASSUME MissionTypeOK, MissionNext
  PROVE  Callback
<1>1. Track \in Nat \ {0} /\ SeamCell \in Cells /\ StopLines \subseteq Nat \X Nat
  BY LapTrackingAssumption, MissionAssumption
<1>2. /\ \A fit \in GateFits : fit[1] \in Cells /\ fit[2] \in {-1, 1}
      /\ \A z \in StopLines : z[1] \in Nat /\ z[2] \in Nat
  BY <1>1, PlanningAssumption
<1>3. Ahead(SeamCell, cell) \in Nat
  BY <1>1 DEF Ahead, Cells, MissionTypeOK
<1>4. CASE Arm
  BY <1>4 DEF Arm, Callback
<1>5. CASE SlamStarts \/ SlamFreezes
  <2>1. OnGraphSlamStatus("mapping") \/ OnGraphSlamStatus("localization")
    BY <1>5 DEF SlamStarts, SlamFreezes
  <2>. QED BY <2>1 DEF Callback, SlamStatus
<1>6. CASE ConeMap
  BY <1>2, <1>6 DEF ConeMap, Callback
<1>7. CASE PathBuilt
  BY <1>7 DEF PathBuilt, Callback
<1>8. CASE EgoOdom
  BY <1>8 DEF EgoOdom, Callback, Speeds, MissionTypeOK
<1>9. CASE FrenetOdom
  BY <1>3, <1>9 DEF FrenetOdom, Callback
<1>10. CASE Heartbeat \/ Handoff
  BY <1>10 DEF Heartbeat, Handoff, Callback, MissionTypeOK
<1>11. CASE Timer
  BY <1>11 DEF Timer, Callback
<1>12. CASE ZoneStart \/ ZoneEnd \/ ZoneValid
  BY <1>2, <1>12 DEF ZoneStart, ZoneEnd, ZoneValid, Callback
<1>13. CASE Drive \/ Stand
  BY <1>13 DEF Drive, Stand, Elapse, Callback
<1>. QED
  BY <1>4, <1>5, <1>6, <1>7, <1>8, <1>9, <1>10, <1>11, <1>12, <1>13
     DEF MissionNext

\* The next cell of the ring.
LEMMA NextCell ==
  ASSUME NEW c \in Cells
  PROVE  /\ (c + 1) % Track = IF c + 1 = Track THEN 0 ELSE c + 1
         /\ (c + 1) % Track \in Cells
<1>1. Track \in Nat \ {0} /\ c \in Nat /\ c < Track
  BY LapTrackingAssumption DEF Cells
<1>2. CASE c + 1 = Track
  BY <1>1, <1>2 DEF Cells
<1>3. CASE c + 1 < Track
  BY <1>1, <1>3 DEF Cells
<1>. QED BY <1>1, <1>2, <1>3

\* The world moves only with the clock.
WorldKept == UNCHANGED <<cell, crossings, moving, coasted>> /\ due' \subseteq due

LEMMA MissionSteps ==
  ASSUME MissionNext
  PROVE  \/ Drive
         \/ Stand
         \/ WorldKept
  BY DEF MissionNext, Arm, SlamStarts, ConeMap, SlamFreezes, PathBuilt, EgoOdom, FrenetOdom,
         Heartbeat, Handoff, Timer, ZoneStart, ZoneEnd, ZoneValid, Deliver, world, WorldKept

LEMMA MissionType ==
  ASSUME MissionTypeOK, MissionNext, course' = course
  PROVE  MissionTypeOK'
<1>1. TypeOK'
  BY MissionCallback, CallbackType DEF MissionTypeOK
<1>2. built' \in BOOLEAN
  BY DEF MissionTypeOK, MissionNext, Arm, SlamStarts, ConeMap, SlamFreezes, PathBuilt,
         EgoOdom, FrenetOdom, Heartbeat, Handoff, Timer, ZoneStart, ZoneEnd, ZoneValid,
         Deliver, Drive, Stand, Elapse, world
<1>3. CASE Drive
  <2>1. cell' \in Cells
    BY <1>3, NextCell DEF Drive, MissionTypeOK
  <2>2. crossings' \in Nat /\ coasted' \in Nat /\ moving' \in BOOLEAN
    BY <1>3 DEF Drive, MissionTypeOK
  <2>3. due' \in SUBSET Periodic
    BY <1>3 DEF Drive, Elapse
  <2>. QED BY <1>1, <1>2, <2>1, <2>2, <2>3 DEF MissionTypeOK
<1>4. CASE Stand
  BY <1>1, <1>2, <1>4 DEF Stand, Elapse, MissionTypeOK
<1>5. CASE WorldKept
  BY <1>1, <1>2, <1>5 DEF WorldKept, MissionTypeOK
<1>. QED BY <1>3, <1>4, <1>5, MissionSteps

LEMMA MissionInitType == MissionInit => MissionTypeOK
<1>. SUFFICES ASSUME MissionInit PROVE MissionTypeOK
  OBVIOUS
<1>1. TypeOK
  BY InitType DEF MissionInit
<1>2. /\ course \in Courses /\ cell = StartCell /\ crossings = 0 /\ coasted = 0
      /\ moving = FALSE /\ built = FALSE /\ due = {} /\ StartCell \in Cells
  BY MissionAssumption DEF MissionInit
<1>. QED BY <1>1, <1>2 DEF MissionTypeOK

-----------------------------------------------------------------------------
(* Finished is of a car at rest.                                              *)

\* Odometry reaches the node in every tick, and rest takes longer than a sample takes to
\* arrive, counted from the timer's next tick when it may run before the sample.
RestSpansTick ==
  /\ "ego" \notin Lossy
  /\ RestDuration >= IF TimerRacesSamples THEN 2 ELSE 1

LEMMA RestStep ==
  ASSUME RestSpansTick, MissionTypeOK, RestInv, MissionNext, course' = course
  PROVE  RestInv'
<1>0. /\ RestDuration \in Nat /\ motion.restAge \in 0..RestDuration
      /\ motion \in MotionType /\ gate \in GateType /\ cell \in Cells
      /\ coasted \in Nat /\ Coast \in Nat /\ course.gate \in BOOLEAN
  BY PlanningAssumption, MissionAssumption DEF MissionTypeOK, TypeOK, MotionType
<1>1. CASE Drive
  <2>1. /\ driving /\ gate.valid = course.gate /\ ~(out.stop /\ coasted >= Coast)
        /\ driving' = driving /\ moving' /\ motion'.moved = motion.moved
        /\ out' = out /\ state' = state /\ finished' = finished
    BY <1>0, <1>1 DEF Drive, CanDrive, Elapse, Tick, MotionType
  <2>2. gate'.valid = gate.valid
    BY <1>0, <1>1 DEF Drive, Elapse, Tick, AgeGate, GateType
  <2>3. "ego" \notin due /\ "ego" \in due'
    BY <1>1 DEF Drive, Elapse, RestSpansTick, Publishing, Periodic, Zones
  <2>4. ~finished
    BY <2>1 DEF RestInv
  <2>5. motion.moved => motion'.restAge <= 1
    <3>1. motion.moved => motion.restAge = 0
      BY <1>0, <2>1, <2>3 DEF RestInv
    <3>2. motion'.restAge = Older(motion.restAge, RestDuration)
      BY <1>0, <1>1 DEF Drive, Elapse, Tick, MotionType
    <3>. QED BY <1>0, <3>1, <3>2 DEF Older
  <2>. QED BY <2>1, <2>2, <2>3, <2>4, <2>5 DEF RestInv
<1>2. CASE Stand
  <2>1. /\ out.stop /\ ~CanDrive /\ ~moving' /\ coasted' = coasted
        /\ driving' = driving /\ motion'.moved = motion.moved
        /\ out' = out /\ state' = state /\ finished' = finished
    BY <1>0, <1>2 DEF Stand, Elapse, Tick, MotionType
  <2>2. gate'.valid = gate.valid
    BY <1>0, <1>2 DEF Stand, Elapse, Tick, AgeGate, GateType
  <2>3. motion.moved => coasted >= Coast
    BY <1>0, <2>1 DEF RestInv, CanDrive
  <2>. QED BY <2>1, <2>2, <2>3 DEF RestInv
<1>3. CASE EgoOdom
  <2>1. /\ UNCHANGED <<state, driving, finished, out, moving, coasted>>
        /\ driving /\ due' = due \ {"ego"}
    BY <1>3 DEF EgoOdom, Deliver, OnEgoOdom, UsesEgoSample
  <2>2. gate'.valid = gate.valid
    BY <1>0, <1>3, ObserveEgoCounts DEF EgoOdom, OnEgoOdom
  <2>3. CASE moving
    <3>1. motion'.moved /\ motion'.restAge = 0
      BY <1>3, <2>3 DEF EgoOdom, OnEgoOdom, MotionAfter, AboveRest
    <3>. QED BY <2>1, <2>2, <2>3, <3>1 DEF RestInv
  <2>4. CASE ~moving
    <3>1. motion'.moved = motion.moved
      BY <1>0, <1>3, <2>4 DEF EgoOdom, OnEgoOdom, MotionAfter, MotionType
    <3>. QED BY <2>1, <2>2, <2>4, <3>1 DEF RestInv
  <2>. QED BY <2>3, <2>4
<1>4. CASE Timer
  <2>1. /\ UNCHANGED <<gate, driving, motion, moving, coasted>> /\ due' = due \ {"timer"}
        /\ out'.stop = (state' = "STOP") /\ (state = "STOP" => state' = "STOP")
        /\ finished' = (finished \/ RestedAfterRun(state'))
    BY <1>4 DEF Timer, Deliver, OnTimer, Published, NextState
  <2>2. TimerRacesSamples \/ "ego" \notin due
    BY <1>4 DEF Timer, Deliver, RestSpansTick
  <2>3. RestedAfterRun(state') => motion.moved /\ motion.restAge >= RestDuration
    BY DEF RestedAfterRun
  <2>4. RestedAfterRun(state') => ~moving
    BY <1>0, <2>2, <2>3 DEF RestInv, RestSpansTick
  <2>. QED BY <2>1, <2>3, <2>4 DEF RestInv
<1>5. CASE Arm
  BY <1>5 DEF Arm, OnAsState, world, RestInv
<1>6. CASE ConeMap
  <2>1. /\ course.gate /\ gate'.valid
        /\ UNCHANGED <<state, driving, motion, finished, out, moving, coasted, due>>
    BY <1>0, <1>6 DEF ConeMap, OnSlamConeMap, UpdateGate, GateType, world
  <2>. QED BY <1>0, <2>1 DEF RestInv
<1>7. ASSUME UNCHANGED <<state, gate, driving, motion, finished, out, moving, coasted>>,
             "ego" \in due' <=> "ego" \in due
      PROVE  RestInv'
  BY <1>7 DEF RestInv
<1>8. CASE SlamStarts \/ SlamFreezes \/ PathBuilt
  BY <1>7, <1>8 DEF SlamStarts, SlamFreezes, PathBuilt, OnGraphSlamStatus, OnGlobalWaypoints
<1>9. CASE FrenetOdom \/ Heartbeat \/ Handoff
  BY <1>7, <1>9 DEF FrenetOdom, Heartbeat, Handoff, Deliver, OnFrenetOdom, OnGlobalPathValid,
                    OnGlobalHandoffReady
<1>10. CASE ZoneStart \/ ZoneEnd \/ ZoneValid
  BY <1>7, <1>10 DEF ZoneStart, ZoneEnd, ZoneValid, Deliver, OnStopZoneSStart,
                     OnStopZoneSEnd, OnStopZoneValid
<1>. QED
  BY <1>1, <1>2, <1>3, <1>4, <1>5, <1>6, <1>8, <1>9, <1>10 DEF MissionNext

\* Finished is reported only of a car that stands, and it stands for good: the rest timer
\* is never taken for a rest when it only waits for a sample.
THEOREM FinishesAtRest ==
  ASSUME RestSpansTick
  PROVE  MissionSpec => []FinishedAtRest
<1>1. MissionInit => MissionTypeOK /\ RestInv
  <2>. SUFFICES ASSUME MissionInit PROVE RestInv
    BY MissionInitType
  <2>1. ~out.stop /\ ~moving /\ ~motion.moved /\ ~finished
    BY DEF MissionInit, Init, Published
  <2>. QED BY <2>1 DEF RestInv
<1>2. MissionTypeOK /\ RestInv /\ [MissionNext /\ UNCHANGED course]_<<missionVars, course>>
        => (MissionTypeOK /\ RestInv)'
  <2>1. MissionTypeOK /\ RestInv /\ UNCHANGED <<missionVars, course>>
          => (MissionTypeOK /\ RestInv)'
    BY DEF MissionTypeOK, TypeOK, RestInv, missionVars, vars, world
  <2>. QED BY <2>1, MissionType, RestStep
<1>3. RestInv => FinishedAtRest
  BY DEF RestInv, FinishedAtRest
<1>. QED BY <1>1, <1>2, <1>3, PTL DEF MissionSpec

-----------------------------------------------------------------------------
(* The lap count never runs ahead of the laps driven.                         *)

\* The gate and the seam of the path are at the start/finish line, and SLAM does not
\* take the car for back before it has driven past that line.
CountsAtLine ==
  /\ "ego" \notin Lossy
  /\ InitialLaps = 0 /\ SeamCell = 0 /\ GateFits \subseteq {0} \X {-1, 1}
  /\ FreezeFrom > Track

\* Cells ahead on the ring, from a cell or from the one past it.
LEMMA AheadIs ==
  ASSUME NEW a \in 0..Track, NEW b \in Cells
  PROVE  Ahead(a, b) = IF b >= a THEN b - a ELSE b - a + Track
<1>1. Track \in Nat \ {0} /\ a \in Nat /\ b \in Nat /\ b < Track /\ a <= Track
  BY LapTrackingAssumption DEF Cells
<1>2. CASE b >= a
  <2>1. (b - a + Track) % Track = b - a
    BY <1>1, <1>2
  <2>. QED BY <1>2, <2>1 DEF Ahead
<1>3. CASE b < a
  <2>1. (b - a + Track) % Track = b - a + Track
    BY <1>1, <1>3
  <2>. QED BY <1>1, <1>3, <2>1 DEF Ahead
<1>. QED BY <1>1, <1>2, <1>3

\* A move of at most one cell crosses the line only from the last cell to the first.
LEMMA CrossesBackToStart ==
  ASSUME NEW a \in Cells, NEW p \in Cells, p = a \/ p = (a + 1) % Track,
         RingDistance(a, p) <= MaxStep, Crossing(0, a, p) # 0
  PROVE  a > p
<1>1. /\ Track \in Nat \ {0} /\ MaxStep \in Nat /\ 2 * MaxStep < Track
      /\ a \in Nat /\ a < Track /\ p \in Nat /\ p < Track /\ 0 \in Cells
      /\ a + 1 \in 0..Track /\ p + 1 \in 0..Track /\ a \in 0..Track /\ p \in 0..Track
  BY LapTrackingAssumption DEF Cells
<1>2. /\ Ahead(a, p) = IF p >= a THEN p - a ELSE p - a + Track
      /\ Ahead(p, a) = IF a >= p THEN a - p ELSE a - p + Track
      /\ Ahead(a + 1, 0) = Track - (a + 1)
      /\ Ahead(p + 1, 0) = Track - (p + 1)
  BY <1>1, AheadIs
<1>3. p = a \/ p = a + 1 \/ (a + 1 = Track /\ p = 0)
  BY NextCell
<1>. QED BY <1>1, <1>2, <1>3 DEF Crossing, RingDistance

\* What a sample at the car's cell makes of the gate's tracker.
LEMMA GateSample ==
  ASSUME NEW g \in GateType, NEW p \in Cells, g.hasPrev => g.valid
  PROVE  LET n == ObserveEgo(g, p)
         IN /\ n.valid = g.valid /\ n.pos = g.pos
            /\ n.hasPrev = g.valid /\ (g.valid => n.prev = p)
            /\ n.timer \in BOOLEAN /\ (g.timer => n.timer)
            /\ n.timer /\ ~g.timer => g.hasPrev /\ RingDistance(g.prev, p) <= MaxStep
                                      /\ Crossing(g.pos, g.prev, p) # 0
            /\ CountsCrossing(g, p) => g.hasPrev /\ RingDistance(g.prev, p) <= MaxStep
                                       /\ Crossing(g.pos, g.prev, p) # 0
                                       /\ (g.counted # 0 \/ g.timer)
<1>. DEFINE a    == Approach(g, p)
            here == [a EXCEPT !.hasPrev = TRUE, !.prev = p, !.prevAge = 0]
            turn == [here EXCEPT !.dir = RunSign(g, Sign(g, p))]
            line == [turn EXCEPT !.timer = TRUE, !.hasCount = TRUE, !.countAge = 0,
                                 !.armed = FALSE]
            lapped == [line EXCEPT !.counted = @ + 1]
            n == ObserveEgo(g, p)
<1>1. /\ a.valid = g.valid /\ a.pos = g.pos /\ a.timer = g.timer
      /\ a.hasPrev = (g.hasPrev /\ RingDistance(g.prev, p) <= MaxStep)
      /\ DOMAIN a = DOMAIN g
  BY DEF Approach, GateType
<1>2. here.valid = g.valid /\ here.pos = g.pos /\ here.hasPrev = TRUE /\ here.prev = p
      /\ here.timer = g.timer /\ DOMAIN here = DOMAIN g
  BY <1>1 DEF GateType
<1>3. turn.valid = g.valid /\ turn.pos = g.pos /\ turn.hasPrev = TRUE /\ turn.prev = p
      /\ turn.timer = g.timer /\ DOMAIN turn = DOMAIN g
  BY <1>2 DEF GateType
<1>10. line.valid = g.valid /\ line.pos = g.pos /\ line.hasPrev = TRUE /\ line.prev = p
       /\ line.timer = TRUE /\ DOMAIN line = DOMAIN g
  BY <1>3 DEF GateType
<1>11. lapped.valid = g.valid /\ lapped.pos = g.pos /\ lapped.hasPrev = TRUE
       /\ lapped.prev = p /\ lapped.timer = TRUE
  BY <1>10 DEF GateType
<1>4. Comparable(a) => g.hasPrev /\ RingDistance(g.prev, p) <= MaxStep
  BY <1>1 DEF Comparable
<1>5. n = IF ~g.valid THEN g
          ELSE IF ~Comparable(a) \/ Crossing(g.pos, g.prev, p) = 0 THEN here
          ELSE IF StartsRun(g) THEN line
          ELSE IF CountsCrossing(g, p) THEN lapped
          ELSE turn
  BY DEF ObserveEgo
<1>6. CountsCrossing(g, p) => Comparable(a) /\ Crossing(g.pos, g.prev, p) # 0 /\ ~StartsRun(g)
  BY DEF CountsCrossing
<1>7. g.timer \in BOOLEAN /\ g.hasPrev \in BOOLEAN /\ g.valid \in BOOLEAN
  BY DEF GateType
<1>. HIDE DEF a, here, turn, line, lapped
<1>8. CASE ~g.valid
  BY <1>4, <1>5, <1>6, <1>7, <1>8 DEF StartsRun
<1>9. CASE g.valid
  <2>1. n \in {here, turn, line, lapped}
    BY <1>5, <1>9
  <2>2. n.valid = g.valid /\ n.pos = g.pos /\ n.hasPrev = TRUE /\ n.prev = p
    BY <1>2, <1>3, <1>10, <1>11, <2>1
  <2>3. n.timer \in BOOLEAN /\ (g.timer => n.timer)
    BY <1>2, <1>3, <1>10, <1>11, <1>7, <2>1
  <2>4. n.timer /\ ~g.timer => Comparable(a) /\ Crossing(g.pos, g.prev, p) # 0
    BY <1>2, <1>3, <1>10, <1>11, <1>5, <1>9
  <2>. QED BY <1>4, <1>6, <1>7, <1>9, <2>2, <2>3, <2>4 DEF StartsRun
<1>. QED BY <1>8, <1>9, <1>7

\* The count published from estimators that are within a bound is within it.
LEMMA RecomputedWithin ==
  ASSUME InitialLaps = 0, NEW l \in LapType, NEW g \in GateType, NEW bound \in Nat,
         l.count <= bound,
         l.discovery => /\ 1 + l.fallback <= bound
                        /\ 1 + g.counted <= bound + l.atDiscovery,
         ~l.discovery => l.fallback <= bound /\ g.counted <= bound + l.atDiscovery
  PROVE  LET n == Recomputed(l, g)
         IN /\ n.count <= bound
            /\ n.fallback = l.fallback /\ n.discovery = l.discovery
            /\ n.atDiscovery = l.atDiscovery
<1>1. /\ l.count \in Nat /\ l.fallback \in Nat /\ l.atDiscovery \in Nat /\ g.counted \in Nat
      /\ l.discovery \in BOOLEAN
  BY DEF LapType, GateType
<1>2. AuthoritativeLapCount(l.count, InitialLaps, l.discovery, g.counted, l.atDiscovery,
                            g.valid, l.fallback) <= bound
  BY <1>1 DEF AuthoritativeLapCount, Larger
<1>. QED BY <1>2 DEF Recomputed, LapType

\* Time only adds to what an estimator may have seen.
LEMMA SeenGrows ==
  ASSUME MissionTypeOK, Drive \/ Stand, NEW known \in BOOLEAN, NEW last \in Nat
  PROVE  /\ Seen(known, last) <= crossings' - (IF known /\ last > cell' THEN 1 ELSE 0)
         /\ LapsDriven' >= LapsDriven /\ crossings' >= crossings
         /\ crossings' \in Nat
<1>1. cell \in Nat /\ crossings \in Nat /\ Track \in Nat \ {0}
  BY LapTrackingAssumption DEF MissionTypeOK, Cells
<1>2. CASE Stand
  BY <1>1, <1>2 DEF Stand, Seen, LapsDriven
<1>3. CASE Drive
  <2>1. cell' = (cell + 1) % Track /\ crossings' = IF cell' = 0 THEN crossings + 1 ELSE crossings
    BY <1>3 DEF Drive
  <2>2. cell' = 0 \/ cell' = cell + 1
    BY <2>1, NextCell DEF MissionTypeOK
  <2>3. LapsDriven' >= LapsDriven
    BY <1>1, <2>1 DEF LapsDriven
  <2>4. CASE cell' = 0
    BY <1>1, <2>1, <2>3, <2>4 DEF Seen
  <2>5. CASE cell' = cell + 1
    BY <1>1, <2>1, <2>3, <2>5 DEF Seen
  <2>. QED BY <2>2, <2>4, <2>5
<1>. QED BY <1>2, <1>3

\* The count published from estimators within what they have seen is within the laps driven.
LEMMA CountWithin ==
  ASSUME InitialLaps = 0, MissionTypeOK, NEW l \in LapType, NEW g \in GateType,
         l.count <= LapsDriven,
         IF g.timer THEN g.counted + 1 <= crossings ELSE g.counted = 0,
         IF l.discovery THEN g.counted + 2 <= l.atDiscovery + crossings /\ crossings >= 2
                        ELSE l.atDiscovery = 0,
         l.fallback = 0 \/ l.fallback + 2 <= crossings
  PROVE  LET n == Recomputed(l, g)
         IN /\ n.count <= LapsDriven
            /\ n.fallback = l.fallback /\ n.discovery = l.discovery
            /\ n.atDiscovery = l.atDiscovery
<1>1. /\ crossings \in Nat /\ l.fallback \in Nat /\ l.atDiscovery \in Nat
      /\ g.counted \in Nat /\ l.discovery \in BOOLEAN /\ g.timer \in BOOLEAN
  BY DEF MissionTypeOK, LapType, GateType
<1>2. LapsDriven \in Nat /\ (crossings >= 1 => LapsDriven = crossings - 1)
  BY <1>1 DEF LapsDriven
<1>3. l.discovery => 1 + l.fallback <= LapsDriven /\ 1 + g.counted <= LapsDriven + l.atDiscovery
  BY <1>1, <1>2
<1>4. ~l.discovery => l.fallback <= LapsDriven /\ g.counted <= LapsDriven + l.atDiscovery
  BY <1>1, <1>2
<1>. QED BY <1>2, <1>3, <1>4, RecomputedWithin

\* A sample of the path's s, counted or not.
LEMMA FrenetSample ==
  ASSUME NEW p \in PolicyType, NEW s \in Nat
  PROVE  LET n == ObserveFrenetSample(p, s)
         IN /\ n.hasPrev => n.prevS = s
            /\ CountsWrap(p, s) => p.hasPrev /\ p.prevS > s
<1>. DEFINE kept == RefreshSample(p)
            here == [kept EXCEPT !.hasPrev = TRUE, !.prevS = s, !.prevAge = 0]
<1>1. DOMAIN kept = DOMAIN p
  BY DEF RefreshSample, DropSample, PolicyType
<1>2. here.prevS = s /\ DOMAIN here = DOMAIN p
  BY <1>1 DEF PolicyType
<1>3. DropSample(p).hasPrev = FALSE
  BY DEF DropSample, PolicyType
<1>4. p.prevS \in Nat
  BY LapTrackingAssumption DEF PolicyType
<1>5. CountsWrap(p, s) => p.hasPrev /\ p.prevS > s
  BY <1>4 DEF CountsWrap
<1>. HIDE DEF here
<1>. DEFINE down == [here EXCEPT !.armed = FALSE,
                                 !.hasCount = @ \/ CountsWrap(p, s),
                                 !.countAge = IF CountsWrap(p, s) THEN 0 ELSE @]
            up == [here EXCEPT !.armed = @ \/ (s > p.prevS /\ InMiddle(p, p.prevS)
                                                           /\ InMiddle(p, s))]
<1>6. down.prevS = s /\ up.prevS = s
  BY <1>2 DEF PolicyType
<1>7. ObserveFrenetSample(p, s) \in {DropSample(p), here, down, up}
  BY DEF ObserveFrenetSample, here
<1>. HIDE DEF down, up
<1>. QED BY <1>2, <1>3, <1>5, <1>6, <1>7

\* Nothing that an estimator counts or compares changes, but for a sample dropped.
LEMMA CountKept ==
  ASSUME MissionTypeOK, CountInv,
         UNCHANGED <<cell, crossings, moving, gate, lap, slam, built>>,
         "ego" \in due' <=> "ego" \in due,
         policy'.hasPrev => policy.hasPrev /\ policy'.prevS = policy.prevS,
         policy.hasPrev \in BOOLEAN, policy'.hasPrev \in BOOLEAN
  PROVE  CountInv'
<1>1. crossings \in Nat /\ lap.fallback \in Nat
  BY DEF MissionTypeOK, TypeOK, LapType
<1>2. Seen(policy.hasPrev, policy.prevS) <= Seen(policy.hasPrev, policy.prevS)'
  BY <1>1 DEF Seen
<1>3. Seen(policy.hasPrev, policy.prevS) \in Int /\ Seen(policy.hasPrev, policy.prevS)' \in Int
  BY <1>1 DEF Seen
<1>4. IF slam' = "localization" THEN (lap.fallback + 2 <= Seen(policy.hasPrev, policy.prevS))'
                                ELSE (lap.fallback = 0 /\ ~policy.hasPrev /\ ~built)'
  BY <1>1, <1>2, <1>3 DEF CountInv
<1>5. Seen(gate.hasPrev, gate.prev)' = Seen(gate.hasPrev, gate.prev) /\ LapsDriven' = LapsDriven
  BY DEF Seen, LapsDriven
<1>6. GateSampled' = GateSampled
  BY DEF GateSampled
<1>. QED BY <1>4, <1>5, <1>6 DEF CountInv

\* The car moves or stands: what the estimators have seen only grows.
LEMMA CountTick ==
  ASSUME CountsAtLine, MissionTypeOK, CountInv, Drive \/ Stand
  PROVE  CountInv'
<1>1. /\ gate \in GateType /\ policy \in PolicyType /\ lap \in LapType
      /\ crossings \in Nat /\ cell \in Cells
  BY DEF MissionTypeOK, TypeOK
<1>2. /\ gate.hasPrev \in BOOLEAN /\ gate.prev \in Cells /\ gate.prev \in Nat
      /\ gate.counted \in Nat
      /\ policy.hasPrev \in BOOLEAN /\ policy.prevS \in Nat
      /\ lap.fallback \in Nat /\ lap.atDiscovery \in Nat /\ lap.count \in Nat
  BY <1>1, LapTrackingAssumption DEF GateType, PolicyType, LapType, Cells
<1>3. /\ UNCHANGED <<lap, slam, built>>
      /\ gate'.hasPrev = gate.hasPrev /\ gate'.prev = gate.prev /\ gate'.valid = gate.valid
      /\ gate'.pos = gate.pos /\ gate'.timer = gate.timer /\ gate'.counted = gate.counted
      /\ policy'.hasPrev = policy.hasPrev /\ policy'.prevS = policy.prevS
  <2>1. gate' = AgeGate(gate) /\ policy' = AgePolicy(policy) /\ UNCHANGED <<lap, slam, built>>
    BY DEF Drive, Stand, Elapse, Tick
  <2>. QED BY <1>1, <2>1 DEF AgeGate, AgePolicy, GateType, PolicyType
<1>4. /\ Seen(gate.hasPrev, gate.prev) <= Seen(gate.hasPrev, gate.prev)'
      /\ Seen(policy.hasPrev, policy.prevS) <= Seen(policy.hasPrev, policy.prevS)'
      /\ LapsDriven' >= LapsDriven /\ crossings' >= crossings /\ crossings' \in Nat
  <2>1. /\ Seen(gate.hasPrev, gate.prev)
             <= crossings' - (IF gate.hasPrev /\ gate.prev > cell' THEN 1 ELSE 0)
        /\ Seen(policy.hasPrev, policy.prevS)
             <= crossings' - (IF policy.hasPrev /\ policy.prevS > cell' THEN 1 ELSE 0)
        /\ LapsDriven' >= LapsDriven /\ crossings' >= crossings /\ crossings' \in Nat
    BY <1>2, SeenGrows
  <2>. QED BY <1>3, <2>1 DEF Seen
<1>5. /\ Seen(gate.hasPrev, gate.prev) \in Int /\ Seen(gate.hasPrev, gate.prev)' \in Int
      /\ Seen(policy.hasPrev, policy.prevS) \in Int /\ Seen(policy.hasPrev, policy.prevS)' \in Int
      /\ LapsDriven \in Nat /\ LapsDriven' \in Nat
  <2>1. \A n \in Nat : (IF n = 0 THEN 0 ELSE n - 1) \in Nat
    OBVIOUS
  <2>2. LapsDriven \in Nat /\ LapsDriven' \in Nat
    BY <1>1, <1>4, <2>1 DEF LapsDriven
  <2>3. \A n \in Nat : \A known : n - (IF known THEN 1 ELSE 0) \in Int
    OBVIOUS
  <2>. QED BY <1>1, <1>4, <2>2, <2>3 DEF Seen
<1>6. gate.hasPrev => cell = gate.prev
  <2>1. "ego" \notin due
    BY DEF CountsAtLine, Drive, Stand, Elapse
  <2>. QED BY <2>1 DEF CountInv, GateSampled
<1>7. GateSampled'
  <2>1. CASE Drive
    <3>1. "ego" \in due' /\ moving' /\ cell' = (cell + 1) % Track
      BY <2>1 DEF Drive, Elapse, Publishing, Periodic, Zones
    <3>. QED BY <1>3, <1>6, <3>1 DEF GateSampled
  <2>2. CASE Stand
    <3>1. ~moving' /\ cell' = cell
      BY <2>2 DEF Stand
    <3>. QED BY <1>3, <1>6, <3>1 DEF GateSampled
  <2>. QED BY <2>1, <2>2
<1>8. lap'.count <= LapsDriven'
  BY <1>2, <1>3, <1>4, <1>5 DEF CountInv
<1>9. /\ (gate.hasPrev => gate.valid)' /\ (gate.valid => gate.pos = 0)'
      /\ 0 <= Seen(gate.hasPrev, gate.prev)'
  BY <1>3, <1>4, <1>5 DEF CountInv
<1>10. IF gate'.timer THEN gate'.counted + 1 <= Seen(gate.hasPrev, gate.prev)'
                      ELSE gate'.counted = 0
  BY <1>2, <1>3, <1>4, <1>5 DEF CountInv
<1>11. IF lap'.discovery THEN /\ gate'.counted + 2 <= lap'.atDiscovery + Seen(gate.hasPrev, gate.prev)'
                              /\ crossings' >= 2
                         ELSE lap'.atDiscovery = 0
  BY <1>1, <1>2, <1>3, <1>4, <1>5 DEF CountInv
<1>12. IF slam' = "localization" THEN lap'.fallback + 2 <= Seen(policy.hasPrev, policy.prevS)'
                                 ELSE lap'.fallback = 0 /\ ~policy'.hasPrev /\ ~built'
  BY <1>2, <1>3, <1>4, <1>5 DEF CountInv
<1>. QED BY <1>7, <1>8, <1>9, <1>10, <1>11, <1>12 DEF CountInv

\* An ego sample: the gate counts the crossing between the last sample and this one.
LEMMA CountEgo ==
  ASSUME CountsAtLine, MissionTypeOK, CountInv, EgoOdom, gate' \in GateType
  PROVE  CountInv'
<1>1. /\ gate \in GateType /\ policy \in PolicyType /\ lap \in LapType
      /\ crossings \in Nat /\ cell \in Cells /\ cell \in Nat
  BY DEF MissionTypeOK, TypeOK, Cells
<1>2. /\ gate.hasPrev \in BOOLEAN /\ gate.prev \in Cells /\ gate.prev \in Nat
      /\ gate.counted \in Nat /\ gate.timer \in BOOLEAN /\ gate.valid \in BOOLEAN
      /\ lap.fallback \in Nat /\ lap.atDiscovery \in Nat /\ lap.count \in Nat
      /\ lap.discovery \in BOOLEAN /\ policy.hasPrev \in BOOLEAN
  BY <1>1 DEF GateType, LapType, PolicyType, Cells
<1>3. /\ UNCHANGED <<cell, crossings, moving, policy, slam, built>>
      /\ due' = due \ {"ego"} /\ "ego" \in due
      /\ ~moving => gate' = gate /\ lap' = lap
      /\ moving => /\ gate' = ObserveEgo(gate, cell)
                   /\ lap' = IF CountsCrossing(gate, cell) THEN Recomputed(lap, gate') ELSE lap
  BY DEF EgoOdom, Deliver, OnEgoOdom, CountsLaps
<1>4. /\ Seen(policy.hasPrev, policy.prevS)' = Seen(policy.hasPrev, policy.prevS)
      /\ LapsDriven' = LapsDriven
  BY <1>3 DEF Seen, LapsDriven
<1>5. CASE ~moving
  <2>1. Seen(gate.hasPrev, gate.prev)' = Seen(gate.hasPrev, gate.prev)
    BY <1>3, <1>5 DEF Seen
  <2>2. GateSampled'
    BY <1>3, <1>5 DEF GateSampled, CountInv
  <2>. QED BY <1>3, <1>4, <1>5, <2>1, <2>2 DEF CountInv
<1>6. CASE moving
  <2>1. /\ gate'.valid = gate.valid /\ gate'.pos = gate.pos
        /\ gate'.hasPrev = gate.valid /\ (gate.valid => gate'.prev = cell)
        /\ gate'.timer \in BOOLEAN /\ (gate.timer => gate'.timer)
        /\ gate'.timer /\ ~gate.timer => gate.hasPrev /\ RingDistance(gate.prev, cell) <= MaxStep
                                         /\ Crossing(gate.pos, gate.prev, cell) # 0
        /\ CountsCrossing(gate, cell) => gate.hasPrev /\ RingDistance(gate.prev, cell) <= MaxStep
                                         /\ Crossing(gate.pos, gate.prev, cell) # 0
                                         /\ (gate.counted # 0 \/ gate.timer)
    <3>1. gate.hasPrev => gate.valid
      BY DEF CountInv
    <3>. QED BY <1>1, <1>3, <1>6, <3>1, GateSample
  <2>2. gate'.counted = IF CountsCrossing(gate, cell) THEN gate.counted + 1 ELSE gate.counted
    BY <1>1, <1>3, <1>6, ObserveEgoCounts
  <2>3. Seen(gate.hasPrev, gate.prev)' = crossings /\ GateSampled'
    <3>1. gate'.hasPrev => gate'.prev = cell
      BY <2>1
    <3>. QED BY <1>1, <1>3, <3>1 DEF Seen, GateSampled
  <2>4. /\ Seen(gate.hasPrev, gate.prev) <= crossings
        /\ Seen(gate.hasPrev, gate.prev) \in Int
        /\ gate.hasPrev /\ gate.prev > cell => Seen(gate.hasPrev, gate.prev) = crossings - 1
    BY <1>1, <1>2 DEF Seen
  <2>5. /\ gate.hasPrev => gate.valid /\ gate.pos = 0 /\ cell = (gate.prev + 1) % Track
        /\ 0 <= Seen(gate.hasPrev, gate.prev)
    BY <1>3, <1>6 DEF CountInv, GateSampled
  <2>6. CountsCrossing(gate, cell) \/ (gate'.timer /\ ~gate.timer)
          => Seen(gate.hasPrev, gate.prev) = crossings - 1
    BY <1>1, <1>2, <2>1, <2>4, <2>5, CrossesBackToStart
  <2>7. IF gate'.timer THEN gate'.counted + 1 <= crossings ELSE gate'.counted = 0
    BY <1>1, <1>2, <2>1, <2>2, <2>4, <2>5, <2>6 DEF CountInv
  <2>8. IF lap.discovery THEN gate'.counted + 2 <= lap.atDiscovery + crossings /\ crossings >= 2
                         ELSE lap.atDiscovery = 0
    BY <1>1, <1>2, <2>2, <2>4, <2>6 DEF CountInv
  <2>9. lap.fallback = 0 \/ lap.fallback + 2 <= crossings
    <3>1. Seen(policy.hasPrev, policy.prevS) \in Int /\ Seen(policy.hasPrev, policy.prevS) <= crossings
      BY <1>1 DEF Seen
    <3>. QED BY <1>1, <1>2, <3>1 DEF CountInv
  <2>10. /\ lap'.count <= LapsDriven /\ lap'.discovery = lap.discovery
         /\ lap'.atDiscovery = lap.atDiscovery /\ lap'.fallback = lap.fallback
    <3>1. lap.count <= LapsDriven /\ InitialLaps = 0
      BY DEF CountInv, CountsAtLine
    <3>2. /\ Recomputed(lap, gate').count <= LapsDriven
          /\ Recomputed(lap, gate').discovery = lap.discovery
          /\ Recomputed(lap, gate').atDiscovery = lap.atDiscovery
          /\ Recomputed(lap, gate').fallback = lap.fallback
      BY <1>1, <2>7, <2>8, <2>9, <3>1, CountWithin
    <3>. QED BY <1>3, <1>6, <3>1, <3>2
  <2>11. (gate'.hasPrev => gate'.valid) /\ (gate'.valid => gate'.pos = 0)
    BY <2>1 DEF CountInv
  <2>. QED BY <1>1, <1>3, <1>4, <2>3, <2>7, <2>8, <2>10, <2>11 DEF CountInv
<1>. QED BY <1>5, <1>6, <1>1 DEF MissionTypeOK

\* The freeze counts the discovery lap and anchors the gate's laps at what it has counted.
LEMMA CountFreeze ==
  ASSUME CountsAtLine, MissionTypeOK, CountInv, SlamFreezes
  PROVE  CountInv'
<1>1. /\ gate \in GateType /\ policy \in PolicyType /\ lap \in LapType
      /\ crossings \in Nat /\ cell \in Nat /\ cell < Track /\ Track \in Nat
  BY LapTrackingAssumption DEF MissionTypeOK, TypeOK, Cells
<1>2. /\ gate.hasPrev \in BOOLEAN /\ gate.prev \in Nat /\ gate.counted \in Nat
      /\ gate.timer \in BOOLEAN
      /\ lap.fallback \in Nat /\ lap.atDiscovery \in Nat /\ lap.count \in Nat
      /\ lap.discovery \in BOOLEAN /\ policy.hasPrev \in BOOLEAN
  BY <1>1 DEF GateType, LapType, PolicyType, Cells
<1>3. /\ UNCHANGED <<cell, crossings, moving, gate, built, due>>
      /\ slam = "mapping" /\ slam' = "localization" /\ Progress >= FreezeFrom
      /\ lap' = LapAfterStatus("localization")
      /\ policy' = ObserveGraphSlamStatus(policy, "localization")
  BY DEF SlamFreezes, OnGraphSlamStatus
<1>4. policy'.hasPrev = policy.hasPrev
  BY <1>1, <1>3 DEF ObserveGraphSlamStatus, PolicyType
<1>5. crossings >= 2 /\ (cell = 0 => crossings >= 3)
  <2>1. Progress > Track
    <3>1. FreezeFrom \in Nat /\ FreezeFrom > Track
      BY MissionAssumption DEF CountsAtLine
    <3>2. Progress \in Nat
      BY <1>1 DEF Progress, LapsDriven
    <3>. QED BY <1>1, <1>3, <3>1, <3>2
  <2>2. crossings # 0 /\ crossings # 1
    BY <1>1, <2>1 DEF Progress, LapsDriven
  <2>3. crossings = 2 => Progress = Track + cell
    BY <1>1 DEF Progress, LapsDriven
  <2>. QED BY <1>1, <2>1, <2>2, <2>3
<1>6. Seen(gate.hasPrev, gate.prev) >= 2
  <2>1. CASE gate.hasPrev /\ gate.prev > cell
    <3>1. cell # gate.prev => cell = (gate.prev + 1) % Track
      BY <2>1 DEF CountInv, GateSampled
    <3>2. gate.prev \in Cells
      BY <1>1 DEF GateType
    <3>3. cell = 0
      BY <1>1, <1>2, <2>1, <3>1, <3>2, NextCell
    <3>. QED BY <1>1, <1>5, <3>3 DEF Seen
  <2>2. CASE ~(gate.hasPrev /\ gate.prev > cell)
    BY <1>1, <1>5, <2>2 DEF Seen
  <2>. QED BY <2>1, <2>2
<1>7. lap.fallback = 0 /\ ~policy.hasPrev /\ ~built
  BY <1>3 DEF CountInv
<1>8. IF gate.timer THEN gate.counted + 1 <= crossings ELSE gate.counted = 0
  <2>1. Seen(gate.hasPrev, gate.prev) \in Int /\ Seen(gate.hasPrev, gate.prev) <= crossings
    BY <1>1 DEF Seen
  <2>. QED BY <1>1, <1>2, <2>1 DEF CountInv
<1>9. DEFINE l == [lap EXCEPT !.discovery = TRUE, !.atDiscovery = gate.counted]
<1>10. /\ l \in LapType /\ l.count = lap.count /\ l.fallback = 0
       /\ l.discovery = TRUE /\ l.atDiscovery = gate.counted
  BY <1>1, <1>2, <1>7 DEF LapType
<1>. HIDE DEF l
<1>11. /\ Recomputed(l, gate).count <= LapsDriven
       /\ Recomputed(l, gate).fallback = 0 /\ Recomputed(l, gate).discovery = TRUE
       /\ Recomputed(l, gate).atDiscovery = gate.counted
  <2>1. InitialLaps = 0 /\ lap.count <= LapsDriven
    BY DEF CountsAtLine, CountInv
  <2>2. gate.counted + 2 <= l.atDiscovery + crossings /\ crossings >= 2
    BY <1>1, <1>2, <1>5, <1>10
  <2>. QED BY <1>1, <1>8, <1>10, <2>1, <2>2, CountWithin
<1>12. lap' = lap \/ lap' = Recomputed(l, gate)
  BY <1>3 DEF LapAfterStatus, l
<1>13. /\ LapsDriven' = LapsDriven
       /\ Seen(gate.hasPrev, gate.prev)' = Seen(gate.hasPrev, gate.prev)
       /\ GateSampled' = GateSampled
  BY <1>3 DEF LapsDriven, Seen, GateSampled
<1>14. Seen(policy.hasPrev, policy.prevS)' = crossings
  BY <1>1, <1>3, <1>4, <1>7 DEF Seen
<1>15. lap'.fallback + 2 <= Seen(policy.hasPrev, policy.prevS)'
  BY <1>1, <1>5, <1>7, <1>11, <1>12, <1>14
<1>16. CASE lap' = lap
  BY <1>3, <1>13, <1>15, <1>16 DEF CountInv
<1>17. CASE lap' = Recomputed(l, gate)
  <2>1. lap'.discovery /\ lap'.atDiscovery = gate.counted /\ lap'.count <= LapsDriven
    BY <1>11, <1>17
  <2>2. Seen(gate.hasPrev, gate.prev) \in Int
    BY <1>1 DEF Seen
  <2>3. gate.counted + 2 <= lap'.atDiscovery + Seen(gate.hasPrev, gate.prev)
    BY <1>2, <1>6, <2>1, <2>2
  <2>. QED BY <1>3, <1>5, <1>13, <1>15, <2>1, <2>3 DEF CountInv
<1>. QED BY <1>12, <1>16, <1>17

\* A Frenet sample: the path's seam is the line, and a wrap is counted past it.
LEMMA CountFrenet ==
  ASSUME CountsAtLine, MissionTypeOK, CountInv, FrenetOdom
  PROVE  CountInv'
<1>1. /\ gate \in GateType /\ policy \in PolicyType /\ lap \in LapType
      /\ crossings \in Nat /\ cell \in Cells /\ cell \in Nat
  BY DEF MissionTypeOK, TypeOK, Cells
<1>2. /\ gate.counted \in Nat /\ gate.timer \in BOOLEAN
      /\ lap.fallback \in Nat /\ lap.atDiscovery \in Nat /\ lap.count \in Nat
      /\ lap.discovery \in BOOLEAN /\ policy.hasPrev \in BOOLEAN /\ policy.prevS \in Nat
  BY <1>1, LapTrackingAssumption DEF GateType, LapType, PolicyType
<1>3. Ahead(SeamCell, cell) = cell
  <2>1. SeamCell = 0 /\ 0 \in 0..Track
    BY LapTrackingAssumption DEF CountsAtLine
  <2>. QED BY <1>1, <2>1, AheadIs
<1>4. /\ UNCHANGED <<cell, crossings, moving, gate, slam, built>>
      /\ due' = due \ {"frenet"} /\ built
      /\ policy' = IF driving THEN ObserveFrenetSample(policy, cell) ELSE policy
      /\ lap' = LapAfterFrenet(cell)
  BY <1>3 DEF FrenetOdom, Deliver, OnFrenetOdom
<1>5. slam = "localization"
  BY <1>4 DEF CountInv
<1>6. /\ Seen(policy.hasPrev, policy.prevS) \in Int /\ Seen(policy.hasPrev, policy.prevS) <= crossings
      /\ Seen(gate.hasPrev, gate.prev) \in Int /\ Seen(gate.hasPrev, gate.prev) <= crossings
      /\ policy.hasPrev /\ policy.prevS > cell => Seen(policy.hasPrev, policy.prevS) = crossings - 1
  BY <1>1, <1>2 DEF Seen
<1>7. /\ LapsDriven' = LapsDriven
      /\ Seen(gate.hasPrev, gate.prev)' = Seen(gate.hasPrev, gate.prev)
      /\ GateSampled' = GateSampled
  BY <1>4 DEF LapsDriven, Seen, GateSampled
<1>8. CASE ~driving
  <2>1. lap' = lap /\ Seen(policy.hasPrev, policy.prevS)' = Seen(policy.hasPrev, policy.prevS)
    BY <1>4, <1>8 DEF LapAfterFrenet, Seen
  <2>. QED BY <1>4, <1>5, <1>7, <2>1 DEF CountInv
<1>9. CASE driving
  <2>1. Seen(policy.hasPrev, policy.prevS)' = crossings
    <3>1. policy'.hasPrev => policy'.prevS = cell
      BY <1>1, <1>4, <1>9, FrenetSample
    <3>. QED BY <1>1, <1>4, <3>1 DEF Seen
  <2>2. IF lap.discovery THEN gate.counted + 2 <= lap.atDiscovery + crossings /\ crossings >= 2
                         ELSE lap.atDiscovery = 0
    BY <1>1, <1>2, <1>6 DEF CountInv
  <2>3. IF gate.timer THEN gate.counted + 1 <= crossings ELSE gate.counted = 0
    BY <1>1, <1>2, <1>6 DEF CountInv
  <2>4. CASE ~CountsWrap(policy, cell)
    <3>1. lap' = lap
      BY <1>4, <2>4 DEF LapAfterFrenet
    <3>2. lap.fallback + 2 <= crossings
      BY <1>1, <1>2, <1>5, <1>6 DEF CountInv
    <3>. QED BY <1>4, <1>5, <1>7, <2>1, <3>1, <3>2 DEF CountInv
  <2>5. CASE CountsWrap(policy, cell)
    <3>1. lap.fallback + 2 <= crossings - 1
      <4>1. policy.hasPrev /\ policy.prevS > cell
        BY <1>1, <2>5, FrenetSample
      <4>. QED BY <1>5, <1>6, <4>1 DEF CountInv
    <3>2. DEFINE l == [lap EXCEPT !.fallback = @ + 1]
    <3>3. /\ l \in LapType /\ l.count = lap.count /\ l.fallback = lap.fallback + 1
          /\ l.discovery = lap.discovery /\ l.atDiscovery = lap.atDiscovery
      BY <1>1, <1>2 DEF LapType
    <3>4. lap' = Recomputed(l, gate)
      BY <1>4, <1>9, <2>5 DEF LapAfterFrenet
    <3>. HIDE DEF l
    <3>5. /\ lap'.count <= LapsDriven /\ lap'.fallback = lap.fallback + 1
          /\ lap'.discovery = lap.discovery /\ lap'.atDiscovery = lap.atDiscovery
      <4>1. InitialLaps = 0 /\ lap.count <= LapsDriven /\ l.fallback + 2 <= crossings
        BY <1>1, <1>2, <3>1, <3>3 DEF CountsAtLine, CountInv
      <4>. QED BY <1>1, <2>2, <2>3, <3>3, <3>4, <4>1, CountWithin
    <3>6. lap'.fallback + 2 <= crossings
      BY <1>1, <1>2, <3>1, <3>5
    <3>. QED BY <1>4, <1>5, <1>7, <2>1, <3>5, <3>6 DEF CountInv
  <2>. QED BY <2>4, <2>5
<1>. QED BY <1>8, <1>9, <1>1 DEF MissionTypeOK, TypeOK

LEMMA CountInvStep ==
  ASSUME CountsAtLine, MissionTypeOK, CountInv, MissionNext, course' = course
  PROVE  CountInv'
<1>1. /\ gate \in GateType /\ gate' \in GateType /\ policy \in PolicyType
      /\ policy.hasPrev \in BOOLEAN /\ policy'.hasPrev \in BOOLEAN
      /\ lap \in LapType
  BY MissionType DEF MissionTypeOK, TypeOK, PolicyType
<1>2. CASE Drive \/ Stand
  BY <1>2, CountTick
<1>3. CASE EgoOdom
  BY <1>1, <1>3, CountEgo
<1>4. CASE SlamFreezes
  BY <1>4, CountFreeze
<1>5. CASE FrenetOdom
  BY <1>5, CountFrenet
<1>6. CASE ConeMap
  <2>1. /\ gate'.valid = TRUE /\ gate'.pos = 0 /\ gate'.prev = gate.prev
        /\ gate'.timer = gate.timer /\ gate'.counted = gate.counted
        /\ gate'.hasPrev => gate.hasPrev
        /\ UNCHANGED <<cell, crossings, moving, due, policy, lap, slam, built>>
    <3>1. PICK fit \in GateFits : gate' = UpdateGate(gate, fit[1], fit[2])
      BY <1>6 DEF ConeMap, OnSlamConeMap
    <3>2. fit[1] = 0
      BY <3>1 DEF CountsAtLine
    <3>3. UNCHANGED <<cell, crossings, moving, due, policy, lap, slam, built>>
      BY <1>6 DEF ConeMap, OnSlamConeMap, world
    <3>. QED BY <1>1, <3>1, <3>2, <3>3 DEF UpdateGate, GateType
  <2>2. Seen(gate.hasPrev, gate.prev)' >= Seen(gate.hasPrev, gate.prev)
        /\ Seen(gate.hasPrev, gate.prev) \in Int /\ Seen(gate.hasPrev, gate.prev)' \in Int
    <3>1. crossings \in Nat
      BY DEF MissionTypeOK
    <3>. QED BY <2>1, <3>1 DEF Seen
  <2>3. /\ LapsDriven' = LapsDriven /\ (GateSampled => GateSampled')
        /\ Seen(policy.hasPrev, policy.prevS)' = Seen(policy.hasPrev, policy.prevS)
    BY <2>1 DEF LapsDriven, GateSampled, Seen
  <2>4. gate.counted \in Nat /\ lap.atDiscovery \in Nat
    BY <1>1 DEF GateType, LapType
  <2>5. /\ 0 <= Seen(gate.hasPrev, gate.prev)'
        /\ IF gate'.timer THEN gate'.counted + 1 <= Seen(gate.hasPrev, gate.prev)'
                          ELSE gate'.counted = 0
        /\ IF lap'.discovery
           THEN /\ gate'.counted + 2 <= lap'.atDiscovery + Seen(gate.hasPrev, gate.prev)'
                /\ crossings' >= 2
           ELSE lap'.atDiscovery = 0
    BY <2>1, <2>2, <2>4 DEF CountInv
  <2>. QED BY <2>1, <2>3, <2>5 DEF CountInv
<1>7. CASE SlamStarts
  <2>1. /\ UNCHANGED <<cell, crossings, moving, built, due, gate, lap>>
        /\ slam = "none" /\ slam' = "mapping" /\ policy'.hasPrev = policy.hasPrev
    <3>1. /\ UNCHANGED <<cell, crossings, moving, built, due, gate>>
          /\ slam = "none" /\ slam' = "mapping" /\ lap' = LapAfterStatus("mapping")
          /\ policy' = ObserveGraphSlamStatus(policy, "mapping")
      BY <1>7 DEF SlamStarts, OnGraphSlamStatus
    <3>2. lap' = lap
      BY <3>1 DEF LapAfterStatus, CountsDiscovery
    <3>. QED BY <1>1, <3>1, <3>2 DEF ObserveGraphSlamStatus, PolicyType
  <2>2. /\ LapsDriven' = LapsDriven /\ GateSampled' = GateSampled
        /\ Seen(gate.hasPrev, gate.prev)' = Seen(gate.hasPrev, gate.prev)
    BY <2>1 DEF LapsDriven, GateSampled, Seen
  <2>. QED BY <2>1, <2>2 DEF CountInv
<1>8. CASE PathBuilt
  <2>1. /\ UNCHANGED <<cell, crossings, moving, gate, lap, slam, due>>
        /\ slam = "localization" /\ ~policy'.hasPrev
    <3>1. /\ UNCHANGED <<cell, crossings, moving, gate, lap, slam, due>>
          /\ slam = "localization" /\ \E m \in Snapshots : policy' = AcceptPath(policy, m)
      BY <1>8 DEF PathBuilt, OnGlobalWaypoints
    <3>. QED BY <1>1, <3>1 DEF AcceptPath, DropSample, PolicyType
  <2>2. /\ LapsDriven' = LapsDriven /\ GateSampled' = GateSampled
        /\ Seen(gate.hasPrev, gate.prev)' = Seen(gate.hasPrev, gate.prev)
    BY <2>1 DEF LapsDriven, GateSampled, Seen
  <2>3. Seen(policy.hasPrev, policy.prevS)' >= Seen(policy.hasPrev, policy.prevS)
        /\ Seen(policy.hasPrev, policy.prevS) \in Int /\ Seen(policy.hasPrev, policy.prevS)' \in Int
    <3>1. crossings \in Nat
      BY DEF MissionTypeOK
    <3>. QED BY <2>1, <3>1 DEF Seen
  <2>4. lap.fallback \in Nat
    BY <1>1 DEF LapType
  <2>5. lap'.fallback + 2 <= Seen(policy.hasPrev, policy.prevS)'
    BY <2>1, <2>3, <2>4 DEF CountInv
  <2>. QED BY <2>1, <2>2, <2>5 DEF CountInv
<1>9. CASE Timer
  <2>1. /\ UNCHANGED <<cell, crossings, moving, gate, lap, slam, built>>
        /\ due' = due \ {"timer"} /\ policy' = RefreshSample(policy)
    BY <1>9 DEF Timer, Deliver, OnTimer
  <2>2. policy'.hasPrev => policy' = policy
    BY <1>1, <2>1 DEF RefreshSample, DropSample, PolicyType
  <2>. QED BY <1>1, <2>1, <2>2, CountKept
<1>10. CASE Arm \/ Heartbeat \/ Handoff \/ ZoneStart \/ ZoneEnd \/ ZoneValid
  <2>1. /\ UNCHANGED <<cell, crossings, moving, gate, lap, slam, built, policy>>
        /\ "ego" \in due' <=> "ego" \in due
    BY <1>10 DEF Arm, Heartbeat, Handoff, ZoneStart, ZoneEnd, ZoneValid, Deliver, world,
                 OnAsState, OnGlobalPathValid, OnGlobalHandoffReady, OnStopZoneSStart,
                 OnStopZoneSEnd, OnStopZoneValid
  <2>. QED BY <1>1, <2>1, CountKept
<1>. QED
  BY <1>2, <1>3, <1>4, <1>5, <1>6, <1>7, <1>8, <1>9, <1>10 DEF MissionNext

\* The count starts behind the car: nothing is counted before anything is seen.
LEMMA CountStart == CountsAtLine /\ MissionInit => CountInv
<1>. SUFFICES ASSUME CountsAtLine, MissionInit PROVE CountInv
  OBVIOUS
<1>1. /\ ~gate.hasPrev /\ ~gate.valid /\ ~gate.timer /\ gate.counted = 0
      /\ lap.count = 0 /\ ~lap.discovery /\ lap.atDiscovery = 0 /\ lap.fallback = 0
      /\ ~policy.hasPrev /\ crossings = 0 /\ slam = "none" /\ ~built
  BY DEF CountsAtLine, MissionInit, Init, GateInit, PolicyInit
<1>2. Seen(gate.hasPrev, gate.prev) = 0
  <2>1. (IF gate.hasPrev /\ gate.prev > cell THEN 1 ELSE 0) = 0
    BY <1>1
  <2>2. Seen(gate.hasPrev, gate.prev) = 0 - (IF gate.hasPrev /\ gate.prev > cell THEN 1 ELSE 0)
    BY <1>1 DEF Seen
  <2>3. \A n : n = 0 => 0 - n = 0
    OBVIOUS
  <2>. QED BY <2>1, <2>2, <2>3
<1>3. LapsDriven = 0 /\ GateSampled
  BY <1>1 DEF LapsDriven, GateSampled
<1>. QED BY <1>1, <1>2, <1>3 DEF CountInv

\* With the gate and the seam at the line, the count published is never ahead of the laps
\* driven, whichever of the estimators a message reaches first and whatever is lost but
\* odometry.
THEOREM CountsNeverAhead ==
  ASSUME CountsAtLine
  PROVE  MissionSpec => []CountNeverAhead
<1>1. MissionInit => MissionTypeOK /\ CountInv
  BY MissionInitType, CountStart
<1>2. MissionTypeOK /\ CountInv /\ [MissionNext /\ UNCHANGED course]_<<missionVars, course>>
        => (MissionTypeOK /\ CountInv)'
  <2>1. MissionTypeOK /\ CountInv /\ UNCHANGED <<missionVars, course>>
          => (MissionTypeOK /\ CountInv)'
    BY DEF MissionTypeOK, TypeOK, CountInv, Seen, LapsDriven, GateSampled, missionVars, vars,
           world
  <2>. QED BY <2>1, MissionType, CountInvStep
<1>3. CountInv => CountNeverAhead
  BY DEF CountInv, CountNeverAhead
<1>. QED BY <1>1, <1>2, <1>3, PTL DEF MissionSpec

-----------------------------------------------------------------------------
(* The car is not stopped before the finish.                                  *)

\* The last lap starts a lap before the finish at the earliest, and on it the end of the
\* path and the stop zone stop the car no further from the line than StopWithin; the timer
\* decides on the position of its own tick.
StopsOnLastLap ==
  /\ CountsAtLine
  /\ "frenet" \notin Lossy /\ ~TimerRacesSamples
  /\ TargetLaps <= FinalLapStart + 1
  /\ PathEndThreshold <= StopWithin + 1
  /\ \A m \in Snapshots : m.len >= Track
  /\ \A y, z \in StopLines : /\ Track + StopZoneMargin <= y[1] + StopWithin
                             /\ y[1] <= z[2] + 2 * StopZoneMargin

\* The car never loses ground.
LEMMA ProgressGrows ==
  ASSUME MissionTypeOK, MissionNext
  PROVE  Progress \in Nat /\ Progress' \in Nat /\ Progress' >= Progress
<1>1. /\ crossings \in Nat /\ cell \in Cells /\ cell \in Nat /\ cell < Track
      /\ Track \in Nat
  BY LapTrackingAssumption DEF MissionTypeOK, Cells
<1>2. \A a, b \in Nat : a * b \in Nat /\ (a + 1) * b = a * b + b
  BY SMT
<1>3. LapsDriven \in Nat /\ Progress \in Nat
  <2>1. LapsDriven \in Nat
    BY <1>1 DEF LapsDriven
  <2>2. LapsDriven * Track \in Nat
    BY <1>1, <1>2, <2>1
  <2>. QED BY <1>1, <2>1, <2>2 DEF Progress
<1>4. CASE UNCHANGED <<cell, crossings>>
  BY <1>3, <1>4 DEF Progress, LapsDriven
<1>5. CASE Drive
  <2>1. cell' = (cell + 1) % Track /\ crossings' = IF cell' = 0 THEN crossings + 1 ELSE crossings
    BY <1>5 DEF Drive
  <2>2. cell' = 0 \/ cell' = cell + 1
    BY <1>1, <2>1, NextCell
  <2>3. CASE cell' = cell + 1
    <3>1. cell' # 0 /\ crossings' = crossings
      BY <1>1, <2>1, <2>3
    <3>2. LapsDriven' = LapsDriven
      BY <3>1 DEF LapsDriven
    <3>3. CASE crossings = 0
      BY <3>1, <3>3 DEF Progress
    <3>4. CASE crossings # 0
      <4>1. Progress = LapsDriven * Track + cell /\ Progress' = LapsDriven * Track + (cell + 1)
        BY <2>3, <3>1, <3>2, <3>4 DEF Progress
      <4>2. LapsDriven * Track \in Nat
        BY <1>1, <1>2, <1>3
      <4>. QED BY <1>1, <4>1, <4>2
    <3>. QED BY <3>3, <3>4
  <2>4. CASE cell' = 0
    <3>1. crossings' = crossings + 1 /\ LapsDriven' = crossings
      BY <1>1, <2>1, <2>4 DEF LapsDriven
    <3>2. crossings * Track \in Nat
      BY <1>1, <1>2
    <3>3. Progress' = crossings * Track
      BY <1>1, <2>4, <3>1, <3>2 DEF Progress
    <3>4. CASE crossings = 0
      BY <1>3, <3>2, <3>3, <3>4 DEF Progress
    <3>5. CASE crossings # 0
      <4>1. LapsDriven + 1 = crossings /\ Progress = LapsDriven * Track + cell
        BY <1>1, <3>5 DEF Progress, LapsDriven
      <4>2. crossings * Track = LapsDriven * Track + Track /\ LapsDriven * Track \in Nat
        BY <1>1, <1>2, <1>3, <4>1
      <4>. QED BY <1>1, <3>2, <3>3, <4>1, <4>2
    <3>. QED BY <3>4, <3>5
  <2>. QED BY <1>3, <2>2, <2>3, <2>4
<1>6. Drive \/ UNCHANGED <<cell, crossings>>
  <2>1. Stand => UNCHANGED <<cell, crossings>>
    BY DEF Stand
  <2>2. WorldKept => UNCHANGED <<cell, crossings>>
    BY DEF WorldKept
  <2>. QED BY <2>1, <2>2, MissionSteps
<1>. QED BY <1>4, <1>5, <1>6

\* Laps driven are cells driven.
LEMMA LapsAreProgress ==
  ASSUME MissionTypeOK
  PROVE  /\ Progress \in Nat /\ RaceLength \in Nat
         /\ LapsDriven >= TargetLaps => Progress >= RaceLength
         /\ LapsDriven + 1 = TargetLaps /\ crossings # 0
              => Progress + (Track - cell) = RaceLength
<1>1. /\ crossings \in Nat /\ cell \in Nat /\ Track \in Nat /\ TargetLaps \in Nat
  BY LapTrackingAssumption, PlanningAssumption DEF MissionTypeOK, Cells
<1>2. \A a, b \in Nat : a * b \in Nat /\ (a + 1) * b = a * b + b
  BY SMT
<1>3. \A a, b, c \in Nat : a >= b => a * c >= b * c
  BY SMT
<1>4. LapsDriven \in Nat
  BY <1>1 DEF LapsDriven
<1>5. LapsDriven * Track \in Nat /\ RaceLength \in Nat
  BY <1>1, <1>2, <1>4 DEF RaceLength
<1>6. Progress \in Nat
  BY <1>1, <1>5 DEF Progress
<1>7. ASSUME LapsDriven >= TargetLaps PROVE Progress >= RaceLength
  <2>1. LapsDriven * Track >= RaceLength
    BY <1>1, <1>3, <1>4, <1>7 DEF RaceLength
  <2>2. CASE crossings # 0
    BY <1>1, <1>5, <2>1, <2>2 DEF Progress
  <2>3. CASE crossings = 0
    <3>1. LapsDriven = 0
      BY <2>3 DEF LapsDriven
    <3>2. 0 * Track = 0
      BY <1>1
    <3>. QED BY <1>5, <1>6, <2>1, <3>1, <3>2
  <2>. QED BY <2>2, <2>3
<1>8. ASSUME LapsDriven + 1 = TargetLaps, crossings # 0
      PROVE  Progress + (Track - cell) = RaceLength
  <2>1. RaceLength = LapsDriven * Track + Track
    BY <1>1, <1>2, <1>4, <1>8 DEF RaceLength
  <2>. QED BY <1>1, <1>5, <1>8, <2>1 DEF Progress
<1>. QED BY <1>5, <1>6, <1>7, <1>8

\* A stop requested on the last lap is requested near its end.
LEMMA RequestedNearEnd ==
  ASSUME StopsOnLastLap, MissionTypeOK, StopInv, frenet.s = cell,
         NEW r, r.has => r.len >= Track, r.len \in Nat,
         FinalPathEndReached(r) \/ IsStoplineDetected(r)
  PROVE  cell + StopWithin >= Track
<1>1. /\ cell \in Nat /\ Track \in Nat /\ StopWithin \in Nat /\ PathEndThreshold \in Nat
      /\ StopZoneMargin \in Nat
  BY LapTrackingAssumption, PlanningAssumption, MissionAssumption DEF MissionTypeOK, Cells
<1>2. CASE FinalPathEndReached(r)
  <2>1. r.len >= Track /\ r.len - cell < PathEndThreshold /\ PathEndThreshold <= StopWithin + 1
    BY <1>2 DEF FinalPathEndReached, Ready, StopsOnLastLap
  <2>. QED BY <1>1, <2>1
<1>3. CASE IsStoplineDetected(r)
  <2>1. zone.hasStart /\ zone.hasEnd /\ InStopZone(r, cell)
    BY <1>3 DEF IsStoplineDetected, HasFreshStopZone
  <2>2. PICK y \in StopLines : zone.start = y[1]
    BY <2>1 DEF StopInv
  <2>3. PICK z \in StopLines : zone.end = z[2]
    BY <2>1 DEF StopInv
  <2>4. /\ y[1] \in Nat /\ z[2] \in Nat
        /\ Track + StopZoneMargin <= y[1] + StopWithin
        /\ y[1] <= z[2] + 2 * StopZoneMargin
    <3>1. StopLines \subseteq Nat \X Nat
      BY MissionAssumption
    <3>. QED BY <2>2, <2>3, <3>1 DEF StopsOnLastLap
  <2>5. zone.end + StopZoneMargin >= zone.start - StopZoneMargin
    BY <1>1, <2>2, <2>3, <2>4
  <2>6. zone.start - StopZoneMargin <= cell
    BY <2>1, <2>5 DEF InStopZone
  <2>. QED BY <1>1, <2>2, <2>4, <2>6
<1>. QED BY <1>2, <1>3

\* The timer decides to stop at the finish only.
LEMMA StopDecision ==
  ASSUME StopsOnLastLap, MissionTypeOK, CountInv, StopInv, Timer, state # "STOP",
         state' = "STOP"
  PROVE  Progress + StopWithin >= RaceLength
<1>1. /\ readiness \in ReadinessType /\ lap \in LapType /\ state \in States
      /\ crossings \in Nat /\ cell \in Nat
      /\ Track \in Nat /\ StopWithin \in Nat
      /\ TargetLaps \in Nat /\ FinalLapStart \in Nat
  BY LapTrackingAssumption, PlanningAssumption, MissionAssumption
     DEF MissionTypeOK, TypeOK, Cells
<1>2. lap.count \in Nat /\ lap.count <= LapsDriven /\ LapsDriven \in Nat
  <2>1. LapsDriven \in Nat
    BY <1>1 DEF LapsDriven
  <2>. QED BY <1>1, <2>1 DEF LapType, CountInv
<1>. DEFINE r == readiness'
<1>3. r = RefreshValidity(readiness) /\ state' = NextState(r, handoff')
  BY DEF Timer, OnTimer
<1>4. r.len \in Nat /\ (r.has => r.len >= Track)
  <2>1. \/ r = readiness
        \/ r.has = FALSE /\ r.len = 0
    BY <1>1, <1>3 DEF RefreshValidity, Invalidate, ReadinessType
  <2>2. readiness.len \in Nat
    BY <1>1, ReadinessAssumption DEF ReadinessType
  <2>. QED BY <2>1, <2>2 DEF StopInv
<1>5. TargetLapsReached \/ (state = "GLOBAL" /\ StopRequested(r))
  BY <1>1, <1>3 DEF NextState, States
<1>. HIDE DEF r
<1>6. CASE TargetLapsReached
  <2>1. LapsDriven >= TargetLaps
    BY <1>1, <1>2, <1>6 DEF TargetLapsReached
  <2>. QED BY <1>1, <2>1, LapsAreProgress
<1>7. CASE StopRequested(r)
  <2>1. frenet.has /\ lap.count >= FinalLapStart
        /\ (FinalPathEndReached(r) \/ IsStoplineDetected(r))
    BY <1>7 DEF StopRequested, HasFreshFrenetOdom
  <2>2. "frenet" \notin due
    BY DEF Timer, Deliver, StopsOnLastLap
  <2>3. built /\ frenet.s = cell
    BY <2>1, <2>2 DEF StopInv
  <2>4. cell + StopWithin >= Track
    BY <1>4, <2>1, <2>3, RequestedNearEnd
  <2>5. crossings # 0
    <3>1. lap.fallback + 2 <= Seen(policy.hasPrev, policy.prevS) /\ lap.fallback \in Nat
      BY <1>1, <2>3 DEF CountInv, LapType
    <3>2. Seen(policy.hasPrev, policy.prevS) <= crossings /\ Seen(policy.hasPrev, policy.prevS) \in Int
      BY <1>1 DEF Seen
    <3>. QED BY <1>1, <3>1, <3>2
  <2>6. LapsDriven + 1 >= TargetLaps
    BY <1>1, <1>2, <2>1 DEF StopsOnLastLap
  <2>7. CASE LapsDriven >= TargetLaps
    BY <1>1, <2>7, LapsAreProgress
  <2>8. CASE LapsDriven + 1 = TargetLaps
    BY <1>1, <2>4, <2>5, <2>8, LapsAreProgress
  <2>. QED BY <1>1, <1>2, <2>6, <2>7, <2>8
<1>. QED BY <1>5, <1>6, <1>7

\* Nothing but a path snapshot gives the node a path, and then one of a lap at least.
LEMMA PathLongEnough ==
  ASSUME StopsOnLastLap, MissionTypeOK, MissionNext,
         readiness.has => readiness.len >= Track
  PROVE  readiness'.has => readiness'.len >= Track
<1>1. readiness \in ReadinessType /\ Track \in Nat
  BY LapTrackingAssumption DEF MissionTypeOK, TypeOK
<1>2. \A q \in ReadinessType :
        /\ Invalidate(q).has = FALSE
        /\ \A v \in BOOLEAN : Invalidate([q EXCEPT !.valid = v]).has = FALSE
        /\ RefreshValidity(q).has => RefreshValidity(q) = q
  <2>1. SUFFICES ASSUME NEW q \in ReadinessType
                 PROVE  /\ Invalidate(q).has = FALSE
                        /\ \A v \in BOOLEAN : Invalidate([q EXCEPT !.valid = v]).has = FALSE
                        /\ RefreshValidity(q).has => RefreshValidity(q) = q
    OBVIOUS
  <2>2. Invalidate(q).has = FALSE
    BY DEF Invalidate, ReadinessType
  <2>3. ASSUME NEW v \in BOOLEAN PROVE Invalidate([q EXCEPT !.valid = v]).has = FALSE
    <3>1. [q EXCEPT !.valid = v] \in ReadinessType
      BY <2>3 DEF ReadinessType
    <3>. QED BY <3>1 DEF Invalidate, ReadinessType
  <2>4. RefreshValidity(q).has => RefreshValidity(q) = q
    BY <2>3 DEF RefreshValidity
  <2>. QED BY <2>2, <2>3, <2>4
<1>3. CASE \/ Arm \/ ConeMap \/ EgoOdom \/ FrenetOdom \/ Handoff
           \/ ZoneStart \/ ZoneEnd \/ ZoneValid
  <2>1. readiness' = readiness
    BY <1>3 DEF Arm, ConeMap, EgoOdom, FrenetOdom, Handoff, ZoneStart, ZoneEnd, ZoneValid,
                OnAsState, OnSlamConeMap, OnEgoOdom, OnFrenetOdom, OnGlobalHandoffReady,
                OnStopZoneSStart, OnStopZoneSEnd, OnStopZoneValid
  <2>. QED BY <2>1
<1>4. CASE SlamStarts \/ SlamFreezes
  <2>1. \E st \in SlamStatus : readiness' = OnStatus(readiness, st)
    BY <1>4 DEF SlamStarts, SlamFreezes, OnGraphSlamStatus, SlamStatus
  <2>2. readiness'.has = readiness.has /\ readiness'.len = readiness.len
    BY <1>1, <2>1 DEF OnStatus, ReadinessType
  <2>. QED BY <2>2
<1>5. CASE PathBuilt
  <2>1. PICK m \in Snapshots : readiness' = OnWaypoints(readiness, m.count, m.len)
    BY <1>5 DEF PathBuilt, OnGlobalWaypoints
  <2>2. m.len >= Track
    BY <2>1 DEF StopsOnLastLap
  <2>. DEFINE n == [readiness EXCEPT !.msgGen = @ + 1]
              w == [n EXCEPT !.has = TRUE, !.accGen = n.msgGen, !.len = m.len]
  <2>3. n \in ReadinessType /\ n.has = readiness.has /\ n.len = readiness.len
    BY <1>1 DEF ReadinessType
  <2>4. w.len = m.len
    BY <2>3 DEF ReadinessType
  <2>5. readiness' = n \/ readiness' = w
    BY <2>1 DEF OnWaypoints
  <2>. HIDE DEF n, w
  <2>. QED BY <2>2, <2>3, <2>4, <2>5
<1>6. CASE Heartbeat
  <2>. DEFINE kept == RefreshValidity(readiness)
              n == [kept EXCEPT !.hasValid = TRUE, !.valid = built, !.validAge = 0]
  <2>1. readiness' = n \/ readiness' = Invalidate(n)
    BY <1>6 DEF Heartbeat, OnGlobalPathValid, OnValidity
  <2>2. kept \in ReadinessType
    BY <1>1, ReadinessOps
  <2>3. n \in ReadinessType /\ n.has = kept.has /\ n.len = kept.len
    <3>1. built \in BOOLEAN /\ 0 \in 0..(ValidTimeout + 1)
      BY ReadinessAssumption DEF MissionTypeOK
    <3>. QED BY <2>2, <3>1 DEF ReadinessType
  <2>4. kept.has => kept = readiness
    BY <1>1, <1>2
  <2>. HIDE DEF kept, n
  <2>5. Invalidate(n).has = FALSE
    BY <1>2, <2>3
  <2>. QED BY <2>1, <2>3, <2>4, <2>5
<1>7. CASE Timer
  <2>1. readiness' = RefreshValidity(readiness)
    BY <1>7 DEF Timer, OnTimer
  <2>. QED BY <1>1, <1>2, <2>1
<1>8. CASE Drive \/ Stand
  <2>1. readiness' = AgeReadiness(readiness)
    BY <1>8 DEF Drive, Stand, Elapse, Tick
  <2>2. readiness'.has = readiness.has /\ readiness'.len = readiness.len
    BY <1>1, <2>1 DEF AgeReadiness, ReadinessType
  <2>. QED BY <2>2
<1>. QED BY <1>3, <1>4, <1>5, <1>6, <1>7, <1>8 DEF MissionNext

\* The zone the node holds is made of bounds the marshal's node may publish.
LEMMA ZoneAsPublished ==
  ASSUME MissionTypeOK, MissionNext,
         zone.hasStart => \E z \in StopLines : zone.start = z[1],
         zone.hasEnd => \E z \in StopLines : zone.end = z[2]
  PROVE  /\ zone'.hasStart => \E z \in StopLines : zone'.start = z[1]
         /\ zone'.hasEnd => \E z \in StopLines : zone'.end = z[2]
<1>1. zone \in ZoneType
  BY DEF MissionTypeOK, TypeOK
<1>2. CASE ZoneStart
  <2>1. PICK z \in StopLines :
          zone' = [zone EXCEPT !.start = z[1], !.startAge = 0, !.hasStart = TRUE]
    BY <1>2 DEF ZoneStart, OnStopZoneSStart
  <2>2. zone'.start = z[1] /\ zone'.hasEnd = zone.hasEnd /\ zone'.end = zone.end
    BY <1>1, <2>1 DEF ZoneType
  <2>. QED BY <2>1, <2>2
<1>3. CASE ZoneEnd
  <2>1. PICK z \in StopLines :
          zone' = [zone EXCEPT !.end = z[2], !.endAge = 0, !.hasEnd = TRUE]
    BY <1>3 DEF ZoneEnd, OnStopZoneSEnd
  <2>2. zone'.end = z[2] /\ zone'.hasStart = zone.hasStart /\ zone'.start = zone.start
    BY <1>1, <2>1 DEF ZoneType
  <2>. QED BY <2>1, <2>2
<1>4. ASSUME zone'.hasStart = zone.hasStart, zone'.start = zone.start,
             zone'.hasEnd = zone.hasEnd, zone'.end = zone.end
      PROVE  /\ zone'.hasStart => \E z \in StopLines : zone'.start = z[1]
             /\ zone'.hasEnd => \E z \in StopLines : zone'.end = z[2]
  BY <1>4
<1>5. CASE ZoneValid
  <2>1. zone' = [zone EXCEPT !.valid = TRUE, !.validAge = 0, !.hasValid = TRUE]
    BY <1>5 DEF ZoneValid, OnStopZoneValid
  <2>2. /\ zone'.hasStart = zone.hasStart /\ zone'.start = zone.start
        /\ zone'.hasEnd = zone.hasEnd /\ zone'.end = zone.end
    BY <1>1, <2>1 DEF ZoneType
  <2>. QED BY <1>4, <2>2
<1>6. CASE Drive \/ Stand
  <2>1. zone' = [zone EXCEPT !.startAge = Older(@, StopZoneTimeout + 1),
                             !.endAge = Older(@, StopZoneTimeout + 1),
                             !.validAge = Older(@, StopZoneTimeout + 1)]
    BY <1>6 DEF Drive, Stand, Elapse, Tick
  <2>2. /\ zone'.hasStart = zone.hasStart /\ zone'.start = zone.start
        /\ zone'.hasEnd = zone.hasEnd /\ zone'.end = zone.end
    BY <1>1, <2>1 DEF ZoneType
  <2>. QED BY <1>4, <2>2
<1>7. CASE \/ Arm \/ SlamStarts \/ ConeMap \/ SlamFreezes \/ PathBuilt \/ EgoOdom
           \/ FrenetOdom \/ Heartbeat \/ Handoff \/ Timer
  <2>1. zone' = zone
    BY <1>7 DEF Arm, SlamStarts, ConeMap, SlamFreezes, PathBuilt, EgoOdom, FrenetOdom,
                Heartbeat, Handoff, Timer, OnAsState, OnGraphSlamStatus, OnSlamConeMap,
                OnGlobalWaypoints, OnEgoOdom, OnFrenetOdom, OnGlobalPathValid,
                OnGlobalHandoffReady, OnTimer
  <2>. QED BY <1>4, <2>1
<1>. QED BY <1>2, <1>3, <1>5, <1>6, <1>7 DEF MissionNext

\* The position the node holds is the car's until the next one is under way.
LEMMA PositionOfTick ==
  ASSUME StopsOnLastLap, MissionTypeOK, MissionNext,
         frenet.has => built /\ ("frenet" \in due \/ frenet.s = cell)
  PROVE  frenet'.has => built' /\ ("frenet" \in due' \/ frenet'.s = cell')
<1>1. frenet \in FrenetType /\ cell \in Cells /\ built \in BOOLEAN
  BY DEF MissionTypeOK, TypeOK
<1>2. CASE Drive \/ Stand
  <2>1. /\ frenet' = [frenet EXCEPT !.age = Older(@, FrenetTimeout + 1)]
        /\ due' = {topic \in Periodic : Publishing(topic)} /\ built' = built
    BY <1>2 DEF Drive, Stand, Elapse, Tick
  <2>2. frenet'.has = frenet.has
    BY <1>1, <2>1 DEF FrenetType
  <2>3. built => "frenet" \in due'
    BY <2>1 DEF Publishing, Periodic, Zones
  <2>. QED BY <2>1, <2>2, <2>3
<1>3. CASE FrenetOdom
  <2>1. Ahead(SeamCell, cell) = cell
    <3>1. SeamCell = 0 /\ 0 \in 0..Track /\ cell \in Nat
      BY <1>1, LapTrackingAssumption DEF StopsOnLastLap, CountsAtLine, Cells
    <3>. QED BY <1>1, <3>1, AheadIs
  <2>2. frenet'.s = cell /\ cell' = cell /\ built /\ built' = built
    BY <1>3, <2>1 DEF FrenetOdom, Deliver, OnFrenetOdom
  <2>. QED BY <2>2
<1>4. CASE Arm \/ SlamStarts \/ ConeMap \/ SlamFreezes
  BY <1>4 DEF Arm, SlamStarts, ConeMap, SlamFreezes, OnAsState, OnGraphSlamStatus,
              OnSlamConeMap, world
<1>5. CASE PathBuilt
  BY <1>5 DEF PathBuilt, OnGlobalWaypoints
<1>6. CASE EgoOdom \/ Heartbeat \/ Handoff \/ Timer
  BY <1>6 DEF EgoOdom, Heartbeat, Handoff, Timer, Deliver, OnEgoOdom, OnGlobalPathValid,
              OnGlobalHandoffReady, OnTimer
<1>7. CASE ZoneStart \/ ZoneEnd \/ ZoneValid
  BY <1>7 DEF ZoneStart, ZoneEnd, ZoneValid, Deliver, OnStopZoneSStart, OnStopZoneSEnd,
              OnStopZoneValid
<1>. QED BY <1>2, <1>3, <1>4, <1>5, <1>6, <1>7 DEF MissionNext

LEMMA StopInvStep ==
  ASSUME StopsOnLastLap, MissionTypeOK, CountInv, StopInv, MissionNext
  PROVE  StopInv'
<1>1. state' = "STOP" => Progress' + StopWithin >= RaceLength
  <2>1. Timer \/ state' = state
    BY DEF MissionNext, Arm, SlamStarts, ConeMap, SlamFreezes, PathBuilt, EgoOdom, FrenetOdom,
           Heartbeat, Handoff, ZoneStart, ZoneEnd, ZoneValid, Drive, Stand, Elapse, Tick,
           OnAsState, OnGraphSlamStatus, OnSlamConeMap, OnGlobalWaypoints, OnEgoOdom,
           OnFrenetOdom, OnGlobalPathValid, OnGlobalHandoffReady, OnStopZoneSStart,
           OnStopZoneSEnd, OnStopZoneValid
  <2>2. state' = "STOP" => Progress + StopWithin >= RaceLength
    BY <2>1, StopDecision DEF StopInv
  <2>3. StopWithin \in Nat /\ RaceLength \in Nat
    BY MissionAssumption, LapsAreProgress
  <2>. QED BY <2>2, <2>3, ProgressGrows
<1>2. frenet'.has => built' /\ ("frenet" \in due' \/ frenet'.s = cell')
  BY PositionOfTick DEF StopInv
<1>3. readiness'.has => readiness'.len >= Track
  BY PathLongEnough DEF StopInv
<1>4. /\ zone'.hasStart => \E z \in StopLines : zone'.start = z[1]
      /\ zone'.hasEnd => \E z \in StopLines : zone'.end = z[2]
  BY ZoneAsPublished DEF StopInv
<1>5. RaceLength' = RaceLength
  BY DEF RaceLength
<1>. QED BY <1>1, <1>2, <1>3, <1>4, <1>5 DEF StopInv

\* The mission is not cut short: whatever requests the stop, the car is then on its last
\* lap and near the finish, or past it.
THEOREM StopsAtTheFinish ==
  ASSUME StopsOnLastLap
  PROVE  MissionSpec => []StopsAtFinish
<1>1. CountsAtLine
  BY DEF StopsOnLastLap
<1>2. MissionInit => MissionTypeOK /\ CountInv /\ StopInv
  <2>1. MissionInit => StopInv
    BY DEF MissionInit, Init, ReadinessInit, StopInv
  <2>. QED BY <1>1, <2>1, MissionInitType, CountStart
<1>3. MissionTypeOK /\ CountInv /\ StopInv
        /\ [MissionNext /\ UNCHANGED course]_<<missionVars, course>>
        => (MissionTypeOK /\ CountInv /\ StopInv)'
  <2>1. MissionTypeOK /\ CountInv /\ UNCHANGED <<missionVars, course>>
          => (MissionTypeOK /\ CountInv)'
    BY DEF MissionTypeOK, TypeOK, CountInv, Seen, LapsDriven, GateSampled, missionVars, vars,
           world
  <2>2. StopInv /\ UNCHANGED <<missionVars, course>> => StopInv'
    BY DEF StopInv, Progress, LapsDriven, RaceLength, missionVars, vars, world
  <2>. QED BY <1>1, <2>1, <2>2, MissionType, CountInvStep, StopInvStep
<1>4. StopInv => StopsAtFinish
  BY DEF StopInv, StopsAtFinish
<1>. QED BY <1>2, <1>3, <1>4, PTL DEF MissionSpec

=============================================================================
