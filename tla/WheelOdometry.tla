--------------------------- MODULE WheelOdometry ---------------------------
(* wheel_odometry.py: travel and heading integrated from the wheel speeds, with
   the INS yaw rate and a slip correction while the INS vouches for them.  The
   sensor topics are best effort: a message may be lost, late or doubled, and
   two publishers may interleave their stamps.  The car drives at unit speed, so
   travel is counted in ticks.                                                *)
EXTENDS Integers

CONSTANTS MaxStamp,        \* bound of the run, in ticks
          MaxDt,           \* max_dt
          InsTimeout,      \* ins_timeout
          MinMode          \* min_rot_accel_solution_mode

VARIABLES now, mode,       \* the clock and the EKF's mode
          nav_mode,        \* the last mode reported, or Never
          ins,             \* the last rot_accel: its stamp, and the filter's
          odom,            \* [last, first, travel, filtered, began]
          published        \* the last CarState: [yaw, slip, accel]
wheelVars == <<now, mode, nav_mode, ins, odom, published>>

Never == -1
Newer(a, b) == IF a > b THEN a ELSE b
Distance(a, b) == IF a > b THEN a - b ELSE b - a

Known == nav_mode # Never
(* _ins_ok: fresh, and not free inertial so far as is known.                  *)
InsOk(t) ==
  /\ ins.stamp # Never /\ Distance(t, ins.stamp) <= InsTimeout
  /\ Known => nav_mode >= MinMode
(* yaw_rate: the INS, else the split of the rear encoders.                    *)
YawSource(t) == IF InsOk(t) THEN "ins" ELSE "encoders"

OnEkfNav ==
  /\ nav_mode' = mode
  /\ UNCHANGED <<now, mode, ins, odom, published>>

(* on_rot_accel: the raw sample is replaced by whatever arrives; the low-pass
   only advances, by the time since its newest sample.                        *)
OnRotAccel ==
  \E t \in 0 .. now :
    /\ ins' = [stamp |-> t, filter |-> Newer(ins.filter, t)]
    /\ odom' = [odom EXCEPT !.filtered = IF ins.filter # Never /\ t > ins.filter
                                         THEN @ + t - ins.filter ELSE @,
                            !.began = IF @ = Never THEN t ELSE @]
    /\ UNCHANGED <<now, mode, nav_mode, published>>

(* A bug of this shape: the stamp is committed before it is validated.         *)
CommittedFirst(last, t) == t
(* The stamp that the next step is measured from.                             *)
Committed(last, t) == Newer(last, t)
Integrates(dt) == dt \in 1 .. MaxDt

(* on_wheel_speeds: the first sample and a gap only move the clock; a stamp that
   is not newer leaves everything as it was.                                  *)
OnWheelSpeeds ==
  \E t \in 0 .. now :
    LET dt == t - odom.last
        started == odom.last # Never
    IN /\ odom' = [odom EXCEPT !.last = Committed(@, t),
                               !.first = IF started THEN @ ELSE t,
                               !.travel = IF started /\ Integrates(dt) THEN @ + dt ELSE @]
       /\ published' = IF started /\ Integrates(dt)
                       THEN [yaw |-> YawSource(t), slip |-> InsOk(t), accel |-> InsOk(t)]
                       ELSE published
       /\ UNCHANGED <<now, mode, nav_mode, ins>>

Drive ==
  /\ now < MaxStamp
  /\ now' = now + 1
  /\ mode' \in {MinMode - 1, MinMode}
  /\ UNCHANGED <<nav_mode, ins, odom, published>>

WheelInit ==
  /\ now = 0 /\ mode = MinMode - 1 /\ nav_mode = Never
  /\ ins = [stamp |-> Never, filter |-> Never]
  /\ odom = [last |-> Never, first |-> Never, travel |-> 0, filtered |-> 0, began |-> Never]
  /\ published = [yaw |-> "encoders", slip |-> FALSE, accel |-> FALSE]
WheelNext == OnEkfNav \/ OnRotAccel \/ OnWheelSpeeds \/ Drive
WheelSpec == WheelInit /\ [][WheelNext]_wheelVars

(* No span of time is integrated twice, by the pose or by the slip filter,
   whatever the order of the stamps: "rewinding it on a rejected out-of-order
   sample makes the NEXT sample integrate an inflated dt".
   wheel_odometry.py:347-362 and 277-286.                                     *)
TimeCountsOnce ==
  /\ odom.travel <= odom.last - odom.first
  /\ odom.filtered <= ins.filter - odom.began

(* Why: what is integrated has been spanned by the stamps seen, and nothing is before
   the first of them.                                                         *)
Spanned(first, last, total) ==
  \/ first = Never /\ last = Never /\ total = 0
  \/ first \in Nat /\ last \in Nat /\ total <= last - first
WheelInv ==
  /\ now \in Nat
  /\ ins \in [stamp : Int, filter : Int]
  /\ odom \in [last : Int, first : Int, travel : Int, filtered : Int, began : Int]
  /\ Spanned(odom.first, odom.last, odom.travel)
  /\ Spanned(odom.began, ins.filter, odom.filtered)
=============================================================================
