---------------------------- MODULE LapTracking ----------------------------
(***************************************************************************)
(* The lap estimators of the planning state machine: LapTrackingPolicy     *)
(* (Frenet seam wraps and the discovery lap), OrangeGateLapTracker (the    *)
(* start/finish gate) and authoritativeLapCount, as operators on their     *)
(* field values.                                                           *)
(*                                                                         *)
(* Geometry is reduced to what the estimators compare.  The ego pose and   *)
(* the gate live on a ring of Track cells: the gate at cell g is the line  *)
(* between cells g-1 and g, and a segment prev -> p crosses it when the    *)
(* short arc between the two cells does.  Coordinates are finite numbers.   *)
(* Lap times, which only telemetry reads, are left out.                    *)
(***************************************************************************)
EXTENDS Ages

CONSTANTS
  Track,            \* cells of the ring the ego drives on
  ArmDistance,      \* lap_gate_arm_distance_m, in cells
  MaxStep,          \* kMaxPlausibleStepM, in cells
  GateMoveReset,    \* kGateMoveResetM, in cells
  GateSampleGap,    \* the 2 s between ego samples, in ticks
  GateCooldown,     \* lap_gate_cooldown_sec, in ticks
  WrapCooldown,     \* the 2 s between seam wraps, in ticks
  FrenetTimeout,    \* frenet_odom_timeout_sec, in ticks
  ClosureTolerance, \* lap_path_closure_tolerance_m
  MinPathLength,    \* the 20 m a lap path must have
  ZoneCap,          \* the 5 m cap of the seam zone
  ZoneDivisor,      \* the seam zone is 1/ZoneDivisor of the path (0.1 of it)
  MaxLapPath        \* bound on a path's normalised length

ASSUME LapTrackingAssumption ==
  /\ Track \in Nat \ {0}
  /\ ArmDistance \in Nat /\ MaxStep \in Nat /\ GateMoveReset \in Nat
  /\ 2 * MaxStep < Track
  /\ GateSampleGap \in Nat /\ GateCooldown \in Nat /\ WrapCooldown \in Nat
  /\ FrenetTimeout \in Nat
  /\ ClosureTolerance \in Nat /\ MinPathLength \in Nat \ {0}
  /\ ZoneCap \in Nat /\ ZoneDivisor \in Nat \ {0}
  /\ MaxLapPath \in Nat

Cells == 0..(Track - 1)

-----------------------------------------------------------------------------
(* LapTrackingPolicy.                                                        *)

PolicyType ==
  [prevStatus : {"none", "mapping", "mapping_converged", "localization"},
   discovery : BOOLEAN, pathValid : BOOLEAN, len : 0..MaxLapPath, armed : BOOLEAN,
   hasPrev : BOOLEAN, prevS : 0..MaxLapPath, prevAge : 0..(FrenetTimeout + 1),
   hasCount : BOOLEAN, countAge : 0..WrapCooldown]

PolicyInit ==
  [prevStatus |-> "none", discovery |-> FALSE, pathValid |-> FALSE, len |-> 0,
   armed |-> FALSE, hasPrev |-> FALSE, prevS |-> 0, prevAge |-> FrenetTimeout + 1,
   hasCount |-> FALSE, countAge |-> WrapCooldown]

AgePolicy(p) == [p EXCEPT !.prevAge = Older(@, FrenetTimeout + 1),
                          !.countAge = Older(@, WrapCooldown)]

\* The freeze that ends mapping, once.
CountsDiscovery(p, status) ==
  /\ ~p.discovery
  /\ p.prevStatus \in {"mapping", "mapping_converged"}
  /\ status = "localization"

ObserveGraphSlamStatus(p, status) ==
  [p EXCEPT !.prevStatus = status, !.discovery = @ \/ CountsDiscovery(p, status)]

\* disarm() and has_previous_sample_ = false, the two always together.
DropSample(p) == [p EXCEPT !.armed = FALSE, !.hasPrev = FALSE]

\* A snapshot m has a waypoint count, the s of its last waypoint and the gap between
\* its ends; a gap of 0 stands for a closing duplicate.
AcceptsPath(m) ==
  /\ m.count >= 3
  /\ m.gap <= ClosureTolerance
  /\ m.len + m.gap >= MinPathLength

AcceptPath(p, m) ==
  IF AcceptsPath(m)
  THEN [DropSample(p) EXCEPT !.pathValid = TRUE, !.len = m.len + m.gap]
  ELSE [DropSample(p) EXCEPT !.pathValid = FALSE, !.len = 0]

RefreshSample(p) == IF p.hasPrev /\ p.prevAge > FrenetTimeout THEN DropSample(p) ELSE p

Zone(len) == IF len \div ZoneDivisor < ZoneCap THEN len \div ZoneDivisor ELSE ZoneCap

InMiddle(p, s) == s > Zone(p.len) /\ s < p.len - Zone(p.len)

UsableSample(p, s) == p.pathValid /\ s \in 0..p.len

Wraps(p, s) == p.prevS >= p.len - Zone(p.len) /\ s <= Zone(p.len)

\* A usable sample s closes a lap: an armed seam wrap, the cooldown elapsed.
CountsWrap(p, s) ==
  /\ UsableSample(p, s)
  /\ p.hasPrev /\ p.prevAge <= FrenetTimeout
  /\ s < p.prevS /\ Wraps(p, s) /\ p.armed
  /\ p.hasCount => p.countAge >= WrapCooldown

ObserveFrenetSample(p, s) ==
  LET kept == RefreshSample(p)
      here == [kept EXCEPT !.hasPrev = TRUE, !.prevS = s, !.prevAge = 0]
  IN IF ~UsableSample(p, s) THEN DropSample(p)
     ELSE IF ~kept.hasPrev THEN here
     ELSE IF s < p.prevS
          THEN [here EXCEPT !.armed = FALSE,
                            !.hasCount = @ \/ CountsWrap(p, s),
                            !.countAge = IF CountsWrap(p, s) THEN 0 ELSE @]
     ELSE [here EXCEPT !.armed = @ \/ (s > p.prevS /\ InMiddle(p, p.prevS) /\ InMiddle(p, s))]

-----------------------------------------------------------------------------
(* OrangeGateLapTracker.                                                     *)

GateType ==
  [valid : BOOLEAN, pos : Cells, side : {-1, 1}, hasPrev : BOOLEAN, prev : Cells,
   prevAge : 0..(GateSampleGap + 1), armed : BOOLEAN, dir : {-1, 0, 1}, counted : Nat,
   timer : BOOLEAN, hasCount : BOOLEAN, countAge : 0..GateCooldown]

GateInit ==
  [valid |-> FALSE, pos |-> 0, side |-> 1, hasPrev |-> FALSE, prev |-> 0,
   prevAge |-> GateSampleGap + 1, armed |-> FALSE, dir |-> 0, counted |-> 0,
   timer |-> FALSE, hasCount |-> FALSE, countAge |-> GateCooldown]

AgeGate(g) == [g EXCEPT !.prevAge = Older(@, GateSampleGap + 1),
                        !.countAge = Older(@, GateCooldown)]

\* Cells from a forward to b, and the distance between them either way.
Ahead(a, b) == (b - a + Track) % Track
RingDistance(a, b) == IF Ahead(a, b) <= Ahead(b, a) THEN Ahead(a, b) ELSE Ahead(b, a)

UpdateGateAnew(g, pos, side) ==
  [g EXCEPT !.valid = TRUE, !.pos = pos, !.side = side, !.hasPrev = FALSE, !.armed = FALSE]

\* updateGate, when the orange clusters yield a gate at cell pos.  `side` says which
\* side's cluster came first and became endpoint A, so which way the normal points.
\* A map that yields no gate changes nothing.
UpdateGate(g, pos, side) ==
  LET moved == g.valid /\ RingDistance(g.pos, pos) > GateMoveReset
  IN [g EXCEPT !.valid = TRUE, !.pos = pos, !.side = side,
               !.hasPrev = @ /\ ~moved, !.armed = @ /\ ~moved]

\* +1, -1 or 0: does the ego motion a -> b cross the line, and which way?
Crossing(line, a, b) ==
  IF Ahead(a, b) <= MaxStep
  THEN IF Ahead(a + 1, line) < Ahead(a, b) THEN 1 ELSE 0
  ELSE IF Ahead(b + 1, line) < Ahead(b, a) THEN -1 ELSE 0

\* The tracker as a sample at p finds it: armed out past the arm radius, the previous
\* sample dropped when no car could have driven from it.
Approach(g, p) ==
  [g EXCEPT !.armed = @ \/ RingDistance(p, g.pos) > ArmDistance,
            !.hasPrev = @ /\ RingDistance(g.prev, p) <= MaxStep]

Comparable(g) == g.hasPrev /\ g.prevAge <= GateSampleGap

\* A crossing's sign against the gate normal, and the run's: that of the first one.
Sign(g, p) == g.side * Crossing(g.pos, g.prev, p)
RunSign(g, sign) == IF g.dir = 0 THEN sign ELSE g.dir

StartsRun(g) == g.counted = 0 /\ ~g.timer

\* A sample at p completes a lap.
CountsCrossing(g, p) ==
  LET a == Approach(g, p) IN
  /\ g.valid
  /\ Comparable(a)
  /\ Crossing(g.pos, g.prev, p) # 0
  /\ ~StartsRun(g)
  /\ a.armed
  /\ RunSign(g, Sign(g, p)) = Sign(g, p)
  /\ g.hasCount => g.countAge >= GateCooldown

ObserveEgo(g, p) ==
  LET a    == Approach(g, p)
      here == [a EXCEPT !.hasPrev = TRUE, !.prev = p, !.prevAge = 0]
      turn == [here EXCEPT !.dir = RunSign(g, Sign(g, p))]
      line == [turn EXCEPT !.timer = TRUE, !.hasCount = TRUE, !.countAge = 0,
                           !.armed = FALSE]
  IN IF ~g.valid THEN g
     ELSE IF ~Comparable(a) \/ Crossing(g.pos, g.prev, p) = 0 THEN here
     ELSE IF StartsRun(g) THEN line
     ELSE IF CountsCrossing(g, p) THEN [line EXCEPT !.counted = @ + 1]
     ELSE turn

-----------------------------------------------------------------------------
(* authoritativeLapCount.                                                    *)

Larger(a, b) == IF a >= b THEN a ELSE b

AuthoritativeLapCount(prev, initial, discovery, gateLaps, atDiscovery, gateValid, fallback) ==
  LET base       == IF discovery THEN 1 ELSE 0
      gateRacing == Larger(0, gateLaps - atDiscovery)
      racing     == IF gateValid THEN gateRacing ELSE Larger(gateRacing, fallback)
  IN Larger(prev, Larger(initial, base + racing))

=============================================================================
