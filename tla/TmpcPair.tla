------------------------------ MODULE TmpcPair ------------------------------
(* tmpc_trajectory_builder.cpp and makePathSnapshot of path_snapshot.cpp: from the
   waypoints of a closed loop, a pair of trajectories for the MPC, one to race and
   one to stop.  The track is a rectangle of eight waypoints that the message may
   start at any of; lengths are in centimetres, speeds in cm/s, accelerations in
   cm/s2, headings in degrees, curvatures and shares in thousandths.  A quotient is
   rounded down and a root up; NaN and the counters are left out.              *)
EXTENDS Integers, Sequences, SequencesExt, TLC

CONSTANTS Points,                     \* kTrajectoryPointCount
          Foresight, MinHorizon, MaxHorizon, Behind,   \* Foresight in tenths of a second
          MinSpacing, Cap,            \* performance_speed_cap_mps; 0 disables it
          Tube, Margin, MaxTube,      \* tube_l_m = tube_r_m, tube_margin_m, tube_max_m
          Scale, Limit, FinalSpeed,   \* of the emergency; Limit is of the utilization
          Drag,                       \* the drag factor, in millionths per cm
          TopSpeed, AxLow, AxHigh, AyLow, AyHigh,      \* the two rows of the GGV table
          Side, Straights, Corner, Kappa,   \* the track: spacing, speeds, curvature
          Stations, Speeds            \* where the car is and how fast it goes

(* TmpcTrajectoryBuilder::valid and validateGgvColumns: what a build is given. *)
ConfigValid ==
  /\ Points \in Nat \ {0, 1} /\ MinHorizon > 0 /\ MinHorizon <= MaxHorizon
  /\ Scale \in 1 .. Limit /\ FinalSpeed \in 0 .. 50 /\ Limit <= 1025
  /\ TopSpeed > 0 /\ AxLow > 0 /\ AxHigh > 0 /\ AyLow > 0 /\ AyHigh > 0

VARIABLES cut, form,   \* the waypoint the message starts at; "open" or "closed"
          straight,    \* the speed the raceline allows on the straights
          unknown,     \* the waypoints whose left boundary no cone gave
          car, built   \* [s, speed] and what build returned, or <<>>
pairVars == <<cut, form, straight, unknown, car, built>>

Abs(n) == IF n < 0 THEN -n ELSE n
Least(a, b) == IF a <= b THEN a ELSE b
Most(a, b) == IF a >= b THEN a ELSE b
Clamp(n, low, high) == Most(low, Least(n, high))
RECURSIVE Newton(_, _)
Newton(n, r) == LET t == (r + n \div r) \div 2 IN IF t >= r THEN r ELSE Newton(n, t)
RootDown(n) == IF n = 0 THEN 0 ELSE Newton(n, n)
Root(n) == LET r == RootDown(n) IN IF r * r = n THEN r ELSE r + 1
Hypot(p, q) == Root((p.x - q.x) * (p.x - q.x) + (p.y - q.y) * (p.y - q.y))
(* normalizeAngle: into (-180, 180]. *)
Normal(a) == LET m == a % 360 IN IF m > 180 THEN m - 360 ELSE m

(* The rectangle: three sides of length along, one across. *)
Count == 8
Lap == Count * Side
Waypoint(i, fast, lost) ==
  LET corner == i \in {1, 4, 5, 8}
  IN [x |-> Side * (IF i <= 4 THEN i - 1 ELSE 8 - i), y |-> IF i <= 4 THEN 0 ELSE Side,
      psi |-> <<-45, 0, 0, 45, 135, 180, 180, -135>>[i],
      kappa |-> IF corner THEN Kappa ELSE 0, v |-> IF corner THEN Corner ELSE fast,
      left |-> IF i \in lost THEN 0 ELSE 220, right |-> 180]
(* The message: from waypoint c on; a closed one repeats its first waypoint. *)
Message(c, f, fast, lost) ==
  [k \in 1 .. Count + (IF f = "closed" THEN 1 ELSE 0) |->
     Waypoint(((c + k - 2) % Count) + 1, fast, lost) @@ [s |-> (k - 1) * Side]]

(* A bug of this shape: an open loop's length ends at its last waypoint. *)
LengthToLast(msg, duplicate, gap) == Last(msg).s
(* track_length: the closing gap belongs to the loop, once. *)
Length(msg, duplicate, gap) == IF duplicate THEN Last(msg).s ELSE Last(msg).s + gap
(* makePathSnapshot, for closed_loop. *)
Snapshot(msg) ==
  LET gap == Hypot(Last(msg), Head(msg))
      duplicate == gap = 0
  IN [points |-> IF duplicate THEN Front(msg) ELSE msg, length |-> Length(msg, duplicate, gap)]
SnapshotSound(path) ==
  LET ps == path.points
  IN /\ Len(ps) >= 2 /\ path.length > 0 /\ Hypot(Head(ps), Last(ps)) > 0
     /\ \A i \in DOMAIN ps : ps[i].s \in 0 .. path.length - 1 /\ (i > 1 => ps[i].s > ps[i - 1].s)

Lerp(a, b, share, span) == a + ((b - a) * share) \div span
(* A bug of this shape: a distance nobody measured is taken for a wall at zero. *)
LerpRoomThroughZero(a, b, share, span) == Lerp(a, b, share, span)
(* lerp_distance: known only between two known ends. *)
LerpRoom(a, b, share, span) == IF a > 0 /\ b > 0 THEN Lerp(a, b, share, span) ELSE 0
Blended(p, q, share, span, at) ==
  [x |-> Lerp(p.x, q.x, share, span), y |-> Lerp(p.y, q.y, share, span), glob |-> at,
   psi |-> Normal(p.psi + Lerp(0, Normal(q.psi - p.psi), share, span) - 90),
   kappa |-> Lerp(p.kappa, q.kappa, share, span), v |-> Lerp(p.v, q.v, share, span),
   left |-> LerpRoom(p.left, q.left, share, span),
   right |-> LerpRoom(p.right, q.right, share, span)]
(* Between the points p and q; a query before the first point is a lap on. *)
Between(path, p, q, at) ==
  LET span == (IF q.s <= p.s THEN q.s + path.length ELSE q.s) - p.s
      query == IF at < Head(path.points).s THEN at + path.length ELSE at
  IN Blended(p, q, Clamp(query - p.s, 0, span), span, at)
(* interpolatePeriodic, with wrapTrackS; the heading convention is ROS's. *)
Interpolated(path, query) ==
  LET ps == path.points
      wrapped == query % path.length
      before == Len(SelectSeq(ps, LAMBDA p : p.s <= wrapped))
  IN IF before \in {0, Len(ps)} THEN Between(path, Last(ps), Head(ps), wrapped)
     ELSE Between(path, ps[before], ps[before + 1], wrapped)

(* GgvTable::limitsAt: clamped to the ends of the table, linear between. *)
Limits(v) ==
  LET at == Least(v, TopSpeed)
  IN [ax |-> AxLow + ((AxHigh - AxLow) * at) \div TopSpeed,
      ay |-> AyLow + ((AyHigh - AyLow) * at) \div TopSpeed]
DragAt(v) == (v * v * Drag) \div 1000000
(* The share of the tyre's lateral limit that speed v uses on curvature kappa. *)
Lateral(v, kappa) == (1000 * ((((v * v) \div 100) * Abs(kappa)) \div 1000)) \div Limits(v).ay
(* tubeFromBoundaryDistance *)
TubeFrom(room) == IF room = 0 THEN Tube ELSE Clamp(room - Margin, Tube, Most(Tube, MaxTube))

(* recalculateAcceleration and fillLimits: the last segment's acceleration repeats. *)
Accelerated(ps) ==
  [i \in DOMAIN ps |->
     LET k == Least(i, Len(ps) - 1)
     IN [ax |-> (ps[k + 1].v * ps[k + 1].v - ps[k].v * ps[k].v)
                  \div (2 * (ps[k + 1].s - ps[k].s))] @@ ps[i]]

RECURSIVE Along(_)
(* s_loc: the chords added up. *)
Along(ps) ==
  IF Len(ps) = 1 THEN <<0>>
  ELSE LET before == Along(Front(ps))
       IN Append(before, Last(before) + Hypot(ps[Len(ps) - 1], ps[Len(ps)]))
Raced(p, s) ==
  [s |-> s, x |-> p.x, y |-> p.y, psi |-> p.psi, kappa |-> p.kappa, glob |-> p.glob,
   v |-> IF Cap > 0 THEN Least(p.v, Cap) ELSE p.v,
   left |-> TubeFrom(p.left), right |-> TubeFrom(p.right)]
Placed(raw, s) ==
  IF \E i \in 1 .. Points - 1 : s[i + 1] - s[i] <= MinSpacing THEN <<>>
  ELSE Accelerated([i \in 1 .. Points |-> Raced(raw[i], s[i])])
(* buildPerformance: <<>> if it failed. *)
Performance(path, at, horizon) ==
  LET span == Behind + horizon
      raw == [i \in 1 .. Points |->
                Interpolated(path, at - Behind + ((i - 1) * span) \div (Points - 1))]
  IN IF span >= path.length THEN <<>> ELSE Placed(raw, Along(raw))

(* A bug of this shape: the corner's share of the tyre is that of the racing speed. *)
BudgetAtRacingSpeed(v, p) == Scale - Lateral(p.v, p.kappa)
(* remaining_utilization: what the corner leaves for braking at the speed v. *)
Budget(v, p) == Scale - Lateral(v, p.kappa)
RECURSIVE Slowed(_, _)
(* The braking pass of buildEmergency: the speeds, ending in -1 without a budget. *)
Slowed(ps, v) ==
  IF Len(ps) = 1 THEN <<v>>
  ELSE LET p == Head(ps)
           decel == (Budget(v, p) * Limits(v).ax) \div 1000 + DragAt(v)
           squared == v * v - 2 * decel * (ps[2].s - p.s)
       IN IF Budget(v, p) <= 0 THEN <<v, -1>>
          ELSE <<v>> \o Slowed(Tail(ps), IF v <= FinalSpeed THEN v
                                          ELSE Most(FinalSpeed, Root(Most(0, squared))))
WithSpeeds(ps, v) ==
  IF Last(v) = -1 THEN <<>> ELSE Accelerated([i \in DOMAIN ps |-> [ps[i] EXCEPT !.v = v[i]]])
Emergency(ps, speed) == WithSpeeds(ps, Slowed(ps, Most(speed, Head(ps).v)))

(* validateTrajectory: the grip at every point, and the stop of an emergency. *)
Utilization(p) == (1000 * Abs(DragAt(p.v) + p.ax)) \div Limits(p.v).ax + Lateral(p.v, p.kappa)
Valid(ps) ==
  \A i \in DOMAIN ps : ps[i].v >= 0 /\ Utilization(ps[i]) <= Limit /\ (i > 1 => ps[i].s > ps[i - 1].s)
Stops(ps) ==
  /\ Last(ps).v <= FinalSpeed
  /\ \A i \in 1 .. Len(ps) - 1 : ps[i + 1].v <= ps[i].v

Fault(race, stop) ==
  IF race = <<>> THEN "geometry"
  ELSE IF ~Valid(race) THEN "race"
  ELSE IF stop = <<>> THEN "corner"
  ELSE IF Last(stop).v > FinalSpeed THEN "runs_on"
  ELSE IF ~(Valid(stop) /\ Stops(stop)) THEN "stop" ELSE ""
Answer(reason, horizon, race, stop) ==
  IF reason = "" THEN [reason |-> "", horizon |-> horizon, race |-> race, stop |-> stop]
  ELSE [reason |-> reason, horizon |-> horizon, race |-> <<>>, stop |-> <<>>]
Judged(race, stop, horizon) == Answer(Fault(race, stop), horizon, race, stop)
WithStop(race, speed, horizon) == Judged(race, Emergency(race, speed), horizon)
(* attempt *)
Attempt(path, at, speed, horizon) == WithStop(Performance(path, at, horizon), speed, horizon)
(* A bug of this shape: only the trajectory that failed is built again. *)
RetriedStopOnly(path, at, speed, first) ==
  LET again == Attempt(path, at, speed, MaxHorizon)
  IN [again EXCEPT !.race = IF @ = <<>> THEN @ ELSE Performance(path, at, first.horizon)]
(* The pair is built again on the longest horizon. *)
Retried(path, at, speed, first) == Attempt(path, at, speed, MaxHorizon)
Settled(path, at, speed, first) ==
  IF first.reason = "runs_on" /\ first.horizon < MaxHorizon
  THEN Retried(path, at, speed, first) ELSE first
(* TmpcTrajectoryBuilder::build *)
Build(path, at, speed) ==
  LET reference == Most(speed, Interpolated(path, at).v)
      horizon == Clamp((Foresight * reference) \div 10, MinHorizon, MaxHorizon)
  IN IF ~SnapshotSound(path) THEN Answer("path", 0, <<>>, <<>>)
     ELSE Settled(path, at, speed, Attempt(path, at, speed, horizon))

PairInit ==
  /\ cut \in 1 .. Count /\ form \in {"open", "closed"} /\ straight \in Straights
  /\ unknown \in {{}} \cup {{i} : i \in {1, 3, 8}}
  /\ car = <<>> /\ built = <<>>
(* One build, with the car at a station counted from waypoint 1. *)
PairNext ==
  /\ built = <<>>
  /\ \E s \in Stations, speed \in Speeds :
       /\ car' = [s |-> s, speed |-> speed]
       /\ built' = Build(Snapshot(Message(cut, form, straight, unknown)),
                         (s - (cut - 1) * Side) % Lap, speed)
  /\ UNCHANGED <<cut, form, straight, unknown>>

Published == built # <<>> /\ built.reason = ""
-----------------------------------------------------------------------------
(* The pair does not depend on which waypoint the message starts at, nor on whether
   it repeats it: away from the numbering of s, what build publishes, or why it
   publishes nothing, is what it says of the loop that starts at waypoint 1
   (interpolatePeriodic's seam and the two lengths of makePathSnapshot). *)
Unnumbered(ps) == [i \in DOMAIN ps |-> [ps[i] EXCEPT !.glob = 0]]
SeamInvisible ==
  built # <<>> =>
    LET first == Build(Snapshot(Message(1, "open", straight, unknown)), car.s, car.speed)
    IN /\ built.reason = first.reason /\ built.horizon = first.horizon
       /\ Unnumbered(built.race) = Unnumbered(first.race)
       /\ Unnumbered(built.stop) = Unnumbered(first.stop)

(* A tube wider than the fallback is room that was measured on both sides of the
   sample, less the margin: nothing is granted from a boundary no cone gave
   (lerp_distance, tubeFromBoundaryDistance). *)
TubeMeasured ==
  Published => \A i \in DOMAIN built.race :
    LET p == built.race[i]
        here == (((cut - 1) * Side + p.glob) % Lap) \div Side
        ends == {here + 1} \cup (IF ((cut - 1) * Side + p.glob) % Side = 0 THEN {}
                                 ELSE {((here + 1) % Count) + 1})
    IN p.left > Tube => /\ ends \cap unknown = {}
                        /\ \A k \in ends : p.left <= Waypoint(k, straight, unknown).left - Margin

(* The stop a pair carries starts from at least the speed the car has, along the
   very points of the race it belongs to, and slows down to the final speed; and the
   braking pass never lays out a stop that the check of the grip then refuses
   (buildEmergency against validateTrajectory, attempt and its retry).  The GGV
   table is flat, as shipped: see the README for one that rises with speed. *)
PairStops ==
  /\ built # <<>> => built.reason \notin {"stop", "path"}
  /\ Published =>
       /\ [i \in DOMAIN built.race |-> <<built.race[i].x, built.race[i].y, built.race[i].s>>]
            = [i \in DOMAIN built.stop |-> <<built.stop[i].x, built.stop[i].y, built.stop[i].s>>]
       /\ Head(built.stop).v >= car.speed /\ Stops(built.stop)
=============================================================================
