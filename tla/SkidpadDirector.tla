--------------------------- MODULE SkidpadDirector ---------------------------
(* skidpad_director.py: the phases of the skidpad, earned by the angle that the
   ego pose has turned about the active circle, and the corridor of cones each
   phase feeds to the local planner.  A circle has Steps positions, the junction
   being the first; the car follows the phase it passes the junction in.  The
   car moves up to Gap positions from one pose that arrives to the next, and each
   pose is off by up to Jitter.                                               *)
EXTENDS Integers

CONSTANTS Steps,      \* positions of a circle
          Laps,       \* right_laps and left_laps
          Lead,       \* switch_lead_m, in positions before the junction
          Margin,     \* lap_margin_rad, in positions
          Zone,       \* junction_zone_x_m and _y_m, in positions
          Exit,       \* exit_stop_forward_m, in positions
          Gap, Jitter,
          Persist     \* circle_persist_frames

VARIABLES car,       \* [on, at]: the lane or circle, and the way along it
          phase, cum_angle, prev_angle,
          persist,   \* frames since a cone of the corridor was last seen, or Gone
          fed,       \* what the last cone map fed
          quiet,     \* positions since the last pose
          turned     \* the way on the circle that the last phase was left at
skidpadVars == <<car, phase, cum_angle, prev_angle, persist, fed, quiet, turned>>

None == -1000
Gone == -1
Abs(n) == IF n < 0 THEN -n ELSE n
(* The shortest way between two angles. *)
Wrapped(delta) == ((delta + Steps \div 2) % Steps) - Steps \div 2
InJunctionZone(at) == Abs(Wrapped(at)) <= Zone
Target == Laps * Steps - Margin

(* A bug of this shape: the turned angle survives the change of phase.         *)
SetPhaseOnly(p) ==
  /\ phase' = p /\ turned' = car.at
  /\ prev_angle' = None /\ persist' = Gone
  /\ UNCHANGED cum_angle
(* set_phase: the angle and the corridor start afresh.                         *)
SetPhase(p) ==
  /\ phase' = p /\ turned' = car.at
  /\ cum_angle' = 0 /\ prev_angle' = None /\ persist' = Gone
Stays == UNCHANGED <<phase, cum_angle, prev_angle, persist, turned>>

(* accumulate_angle, then the switch: turned far enough, and at the junction.  *)
Turned(at) ==
  IF prev_angle = None THEN cum_angle ELSE cum_angle + Wrapped(at - prev_angle)
Circle(at) ==
  IF Abs(Turned(at)) >= Target /\ InJunctionZone(at)
  THEN SetPhase(IF phase = "RIGHT" THEN "LEFT" ELSE "EXIT")
  ELSE /\ cum_angle' = Turned(at) /\ prev_angle' = at % Steps
       /\ UNCHANGED <<phase, persist, turned>>
OnOdom ==
  \E off \in -Jitter .. Jitter :
    LET at == car.at + off
    IN /\ CASE phase = "ENTRY" -> IF at > -Lead THEN SetPhase("RIGHT") ELSE Stays
            [] phase \in {"RIGHT", "LEFT"} -> Circle(at)
            [] phase = "EXIT" -> IF at > Exit THEN SetPhase("STOP") ELSE Stays
            [] OTHER -> Stays
       /\ quiet' = 0
       /\ UNCHANGED <<car, fed>>

(* on_cone_map: the corridor of the phase; a ring cone that drops out of the map
   goes on being fed for a while.                                             *)
Merged(seen) ==
  IF seen THEN 1 ELSE IF persist = Gone \/ persist >= Persist THEN Gone ELSE persist + 1
OnConeMap ==
  \E seen \in BOOLEAN :
    /\ IF phase \in {"RIGHT", "LEFT"}
       THEN /\ persist' = Merged(seen)
            /\ fed' = IF Merged(seen) = Gone THEN "nothing" ELSE phase
       ELSE /\ fed' = IF phase = "STOP" THEN "nothing" ELSE "lane"
            /\ UNCHANGED persist
    /\ UNCHANGED <<car, phase, cum_angle, prev_angle, quiet, turned>>

(* The car: on the entry lane, round the circle it is on, and over to the circle
   or the lane of the phase in the zone of the junction.                      *)
Crosses == car.on # "lane" /\ InJunctionZone(car.at) /\ phase # car.on
Onto(p) == IF p \in {"RIGHT", "LEFT"} THEN p ELSE "lane"
Drive ==
  /\ quiet < Gap /\ car.at <= Exit + (Laps + 1) * Steps
  /\ quiet' = quiet + 1
  /\ car' = CASE car.on = "lane" /\ car.at = 0 /\ phase = "RIGHT" -> [on |-> "RIGHT", at |-> 1]
              [] Crosses -> [on |-> Onto(phase), at |-> Wrapped(car.at) + 1]
              [] OTHER -> [car EXCEPT !.at = @ + 1]
  /\ UNCHANGED <<phase, cum_angle, prev_angle, persist, fed, turned>>

SkidpadInit ==
  /\ car = [on |-> "lane", at |-> -Lead - 2]
  /\ phase = "ENTRY" /\ cum_angle = 0 /\ prev_angle = None
  /\ persist = Gone /\ fed = "nothing" /\ quiet = 0 /\ turned = 0
SkidpadNext == OnOdom \/ OnConeMap \/ Drive
SkidpadSpec == SkidpadInit /\ [][SkidpadNext]_skidpadVars

(* Each circle is driven the laps it asks for, neither one less nor one more,
   though poses are lost and inexact: a phase on a circle is left within the zone
   of the junction that ends its last lap, and the car never sets out on another
   lap.  on_odom, skidpad_director.py:171-202.                                *)
LapsDriven ==
  /\ phase = "LEFT" /\ car.on = "RIGHT" => Abs(turned - Laps * Steps) <= Zone + Jitter
  /\ phase = "EXIT" /\ car.on = "LEFT" => Abs(turned - Laps * Steps) <= Zone + Jitter
  /\ car.on = phase => car.at <= Laps * Steps + Zone + Jitter
=============================================================================
