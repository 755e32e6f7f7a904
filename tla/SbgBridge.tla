----------------------------- MODULE SbgBridge -----------------------------
(* sbg_odometry_bridge.py: the INS solution split into a relative odometry that
   must never jump nor claim to know a motion it has missed, and an absolute
   anchor that must not be believed while a fix is still pulling in.  The car
   moves along a line; lengths are in half steps, so that the trapezoid rule is
   exact.  Stamps are kept as ages, saturating one past what reads them.      *)
EXTENDS Integers

CONSTANTS MaxDt,            \* max_dt, in ticks
          WheelTimeout,     \* wheel_speed_timeout
          RefixHoldoff,     \* gnss_refix_holdoff_sec
          ExitSpeed,        \* the car may creep at up to this and be held still
          MaxSpeed,         \* bound of the car's speed
          Slack             \* what an honest edge may be off by

VARIABLES car,      \* its speed, and since the last CarState the way and any fault
          euler,    \* age of the latest heading; an invalid one is as good as stale
          wheels,   \* the latest wheel speeds: [age, v]
          node,     \* the bridge
          state,    \* the CarState of this tick, if any: hidden is the motion
                    \* since the one before that it leaves out
          anchor,   \* the sigma of the anchor of this tick, if any
          fix       \* how the fixes came: [acc, steady]
bridgeVars == <<car, euler, wheels, node, state, anchor, fix>>

Never == -1
Least(a, b) == IF a < b THEN a ELSE b
Abs(n) == IF n < 0 THEN -n ELSE n
Older(age, cap) == IF age = Never THEN Never ELSE Least(age + 1, cap + 1)
Fresh(age, timeout) == age \in 0 .. timeout
RunCap == 2 * MaxSpeed * MaxDt + Slack + 1

(* _can_dead_reckon: wheel speeds and a valid heading, and the heading holds.  *)
CanDeadReckon(mode) ==
  /\ mode >= 2
  /\ Fresh(euler, WheelTimeout) /\ Fresh(wheels.age, WheelTimeout)

(* _update_stationary: the wheels say so, with hysteresis.                     *)
Stationary ==
  /\ Fresh(wheels.age, WheelTimeout)
  /\ IF node.stationary THEN wheels.v <= ExitSpeed ELSE wheels.v = 0

(* The startup gate and the late georeference.                                *)
Absolute(msg) == msg.mode >= 4
Starts(msg) == node.started \/ Absolute(msg) \/ CanDeadReckon(msg.mode)
Started(msg) ==
  IF node.started THEN [node EXCEPT !.georeferenced = @ \/ Absolute(msg)]
  ELSE [node EXCEPT !.started = TRUE, !.georeferenced = Absolute(msg), !.last = 0]

(* The source of this step's motion, in the order of the code.                *)
Source(msg, dt) ==
  CASE Stationary -> "zupt"
    [] ~Stationary /\ msg.velocity /\ dt \in 1 .. MaxDt -> "velocity"
    [] /\ ~Stationary /\ ~(msg.velocity /\ dt \in 1 .. MaxDt)
       /\ CanDeadReckon(msg.mode) /\ dt \in 1 .. MaxDt -> "wheels"
    [] OTHER -> "held"
Step(n, source, dt) ==
  CASE source = "velocity" -> ((IF n.speed = Never THEN car.v ELSE n.speed) + car.v) * dt
    [] source = "wheels"   -> 2 * wheels.v * dt
    [] OTHER               -> 0

(* A bug of this shape: a pose that was held goes out with its tier's sigma.   *)
SigmaOfTier(source, mode) == IF mode >= 4 THEN "tight" ELSE "wide"
Sigma(source, mode) ==
  IF source = "held" THEN "huge"
  ELSE IF mode >= 4 /\ source # "wheels" THEN "tight" ELSE "wide"

(* A bug of this shape: the tier is read off the sigma that is held.           *)
TierPublished(n, acc) == IF n.hold > 0 THEN 0 ELSE acc
(* _correction_tier, on the accuracy as it was reported.                       *)
Tier(n, acc) == acc

(* The refix holdoff: a better tier than before, or an anchor after none,
   starts it; the first anchor ever does not.                                 *)
Unanchored == -1
Improved(n, tier) == IF n.tier # Unanchored THEN tier > n.tier ELSE n.ever
Held(n, acc) ==
  [n EXCEPT !.tier = Tier(n, acc), !.ever = TRUE,
            !.hold = IF Improved(n, Tier(n, acc)) THEN RefixHoldoff ELSE @]
Anchored(n, msg) ==
  IF n.georeferenced /\ Absolute(msg) THEN Held(n, msg.acc)
                                      ELSE [n EXCEPT !.tier = Unanchored]
(* _publish_gnss_odom, and its silence before there is a datum.               *)
AnchorSigma(n, msg) ==
  CASE ~Absolute(msg) -> "huge"
    [] Absolute(msg) /\ n.hold > 0 -> "held"
    [] OTHER -> IF msg.acc = 2 THEN "tight" ELSE "wide"

(* What the fixes were, whatever the bridge made of them.                      *)
FixSeen(msg, georeferenced) ==
  LET acc == IF georeferenced /\ Absolute(msg) THEN msg.acc ELSE Unanchored
  IN [acc |-> acc, steady |-> IF acc = fix.acc THEN fix.steady ELSE 0]

(* on_nav.  A message is dropped before the first heading and when its stamp is
   not later than the last that was published.                                *)
OnNavWaiting(msg) ==
  /\ ~Starts(msg)
  /\ fix' = FixSeen(msg, FALSE)
  /\ UNCHANGED <<car, node, state, anchor>>
Fault(msg) == msg.mode < 3 /\ ~CanDeadReckon(msg.mode)
OnNavFault(msg) ==
  /\ Starts(msg) /\ Fault(msg)
  /\ node' = [Started(msg) EXCEPT !.last = 0, !.speed = Never]
  /\ car' = [car EXCEPT !.fault = TRUE]
  /\ fix' = FixSeen(msg, node'.georeferenced)
  /\ UNCHANGED <<state, anchor>>
OnNavPublished(msg) ==
  LET n == Started(msg)
      source == Source(msg, n.last)
      next == Anchored([n EXCEPT !.last = 0, !.published = TRUE,
                                 !.stationary = Stationary,
                                 !.speed = IF source = "velocity" THEN car.v ELSE Never], msg)
  IN /\ Starts(msg) /\ ~Fault(msg)
     /\ node' = next
     /\ car' = [car EXCEPT !.run = 0, !.fault = FALSE]
     /\ state' = {[sigma  |-> Sigma(source, msg.mode), source |-> source,
                   hidden |-> node.started /\ Abs(Step(n, source, n.last) - car.run) > Slack,
                   resumes |-> car.fault]}
     /\ anchor' = IF n.georeferenced THEN {AnchorSigma(next, msg)} ELSE {}
     /\ fix' = FixSeen(msg, n.georeferenced)

(* The flags the EKF ties to its mode; a valid velocity may drop out.          *)
Solutions ==
  {msg \in [mode : 1 .. 4, velocity : BOOLEAN, acc : {0, 2}] :
     (msg.velocity => msg.mode >= 3) /\ (msg.mode < 4 => msg.acc = 0)}
OnNav ==
  \E msg \in Solutions :
    /\ euler # Never /\ ~node.published
    /\ OnNavWaiting(msg) \/ OnNavFault(msg) \/ OnNavPublished(msg)
    /\ UNCHANGED <<euler, wheels>>

OnEuler ==
  /\ euler # 0
  /\ \E valid \in BOOLEAN : euler' = IF valid THEN 0 ELSE WheelTimeout + 1
  /\ UNCHANGED <<car, wheels, node, state, anchor, fix>>
OnWheelSpeeds ==
  /\ wheels.age # 0
  /\ wheels' = [age |-> 0, v |-> car.v]
  /\ UNCHANGED <<car, euler, node, state, anchor, fix>>

Tick ==
  /\ \E v \in 0 .. MaxSpeed :
       /\ Abs(v - car.v) <= 1
       /\ car' = [car EXCEPT !.v = v,
                    !.run = IF node.started THEN Least(RunCap, @ + car.v + v) ELSE 0]
  /\ euler' = Older(euler, WheelTimeout)
  /\ wheels' = [age |-> Older(wheels.age, WheelTimeout),
                v |-> IF Fresh(wheels.age, WheelTimeout - 1) THEN wheels.v ELSE 0]
  /\ node' = [node EXCEPT !.last = Older(@, MaxDt), !.published = FALSE,
                          !.hold = IF @ > 0 THEN @ - 1 ELSE 0]
  /\ fix' = [fix EXCEPT !.steady = Older(@, RefixHoldoff)]
  /\ state' = {} /\ anchor' = {}

BridgeInit ==
  /\ car \in [v : 0 .. MaxSpeed, run : {0}, fault : {FALSE}]
  /\ euler = Never
  /\ wheels = [age |-> Never, v |-> 0]
  /\ node = [started |-> FALSE, georeferenced |-> FALSE, last |-> Never,
             published |-> FALSE, stationary |-> FALSE, speed |-> Never,
             tier |-> Unanchored, ever |-> FALSE, hold |-> 0]
  /\ state = {} /\ anchor = {}
  /\ fix = [acc |-> Unanchored, steady |-> 0]
BridgeNext == Tick \/ OnEuler \/ OnWheelSpeeds \/ OnNav
BridgeSpec == BridgeInit /\ [][BridgeNext]_bridgeVars

(* A motion the odometry has not integrated never goes out as one that it knows:
   the pose whose step misses more than the slack is published with a sigma that
   no edge trusts.  Two exceptions: a car that creeps below the exit speed after
   a stop is held still, and a fault keeps the clock running, so the first pose
   after it claims its tier.  on_nav, sbg_odometry_bridge.py:549-601.         *)
MissedMotionOwned ==
  \A pose \in state : pose.hidden => \/ pose.sigma = "huge"
                                     \/ pose.source = "zupt"
                                     \/ pose.resumes

(* The anchor comes back: after fixes of one steady tier for the holdoff, it is
   published at that tier, and an expired holdoff does not start another.
   on_nav, sbg_odometry_bridge.py:640-676.                                    *)
AnchorReturns ==
  fix.acc = 2 /\ fix.steady > RefixHoldoff => anchor \subseteq {"tight"}

(* Why the first: the way since the last CarState differs from what any source would
   integrate by the square of the ticks at most, as the speed changes by one a tick; a
   wheel speed of b ticks ago may be off by more than the ticks since the CarState.  *)
Square(n) == n * n
WheelsMiss(a, b) == IF b <= a THEN Square(b) + Square(a - b) ELSE Square(b) - Square(b - a)
Counted(a) ==
  /\ car.run <= 2 * MaxSpeed * a
  /\ Abs(car.run - 2 * car.v * a) <= Square(a)
  /\ node.speed # Never => /\ Abs(car.v - node.speed) <= a
                           /\ Abs(car.run - 2 * node.speed * a) <= Square(a)
  /\ Fresh(wheels.age, WheelTimeout) =>
       Abs(car.run - 2 * wheels.v * a) <= WheelsMiss(a, wheels.age)
MotionInv ==
  /\ car \in [v : 0 .. MaxSpeed, run : Nat, fault : BOOLEAN]
  /\ wheels \in [age : Int, v : Nat] /\ wheels.age >= Never
  /\ Fresh(wheels.age, WheelTimeout) => Abs(car.v - wheels.v) <= wheels.age
  /\ node \in [started : BOOLEAN, georeferenced : BOOLEAN, last : Int, published : BOOLEAN,
               stationary : BOOLEAN, speed : Int, tier : Int, ever : BOOLEAN, hold : Nat]
  /\ node.speed >= Never /\ node.last >= Never /\ node.last <= MaxDt + 1
  /\ IF node.started THEN node.last >= 0 ELSE car.run = 0 /\ ~car.fault
  /\ node.started /\ ~car.fault /\ node.last <= MaxDt => Counted(node.last)
(* Why the second: the tier the bridge remembers is the fix's, and what is left of a
   holdoff and what the fix has been steady for fit into one.                 *)
AnchorInv ==
  /\ fix \in [acc : Int, steady : Nat] /\ node.hold <= RefixHoldoff
  /\ fix.acc # Unanchored => node.tier = fix.acc
  /\ fix.acc = 2 => node.hold = 0 \/ node.hold + fix.steady <= RefixHoldoff
BridgeInv == MotionInv /\ AnchorInv /\ MissedMotionOwned /\ AnchorReturns
=============================================================================
