-------------------------- MODULE InspectionMission --------------------------
(* inspection_mission.py: the inspection profile on quick jacks, with the brake
   test an official may ask for while it runs.  Times are ages in ticks of the
   command timer; a message of the speed comes between two turns of the axle. *)
EXTENDS Integers

CONSTANTS Duration,   \* duration_sec
          StopLimit,  \* brake_stop_limit_sec
          BrakeHold,  \* brake_hold_sec
          SpunUp      \* the speed that is spinning (0.2 m/s); 0 is at rest

VARIABLES driving,          \* AS_DRIVING, as the vehicle reports it
          start_time, brake_start,     \* ages, or Unset
          brake_stopped, finished, measured_speed,
          cmd,              \* the command in force
          axle, silent,     \* its speed; turns it made since its last message
          test              \* of the brake test: [verdict, spun, braked, asked]
inspectionVars == <<driving, start_time, brake_start, brake_stopped, finished,
                    measured_speed, cmd, axle, silent, test>>

Unset == -1
Least(a, b) == IF a < b THEN a ELSE b
Elapsed(age, cap) == IF age = Unset THEN Unset ELSE Least(age + 1, cap)

OnCan ==
  /\ start_time = Unset /\ driving
  /\ start_time' = 0
  /\ UNCHANGED <<driving, brake_start, brake_stopped, finished, measured_speed,
                 cmd, axle, silent, test>>

OnSpeed ==
  LET stops == brake_start # Unset /\ ~brake_stopped /\ axle = 0
  IN /\ measured_speed' = axle /\ silent' = 0
     /\ brake_stopped' = (brake_stopped \/ stops)
     /\ test' = IF stops THEN [test EXCEPT !.verdict =
                                 IF brake_start <= StopLimit THEN "PASS" ELSE "FAIL"]
                         ELSE test
     /\ UNCHANGED <<driving, start_time, brake_start, finished, cmd, axle>>

(* A bug of this shape: an axle that has not spun up is tested.                *)
TestableRunning == start_time # Unset /\ ~finished
(* _on_brake_test: the profile runs and the axle spins.                       *)
Testable == start_time # Unset /\ ~finished /\ measured_speed >= SpunUp
OnBrakeTest ==
  /\ Testable
  /\ brake_start' = 0 /\ brake_stopped' = FALSE
  /\ test' = [verdict |-> "none", braked |-> 0, asked |-> brake_start # Unset,
              spun |-> IF brake_start = Unset THEN axle > 0 ELSE test.spun]
  /\ UNCHANGED <<driving, start_time, finished, measured_speed, cmd, axle, silent>>

(* _tick: the end of the profile, then the brake test, then the profile.       *)
Braking == brake_start # Unset /\ brake_start < BrakeHold
Resumed ==
  /\ brake_start' = Unset
  /\ test' = IF brake_start # Unset /\ ~brake_stopped
             THEN [test EXCEPT !.verdict = "FAIL"] ELSE test
Command ==
  IF finished \/ start_time = Unset THEN
    /\ cmd' = "zeros" /\ UNCHANGED <<brake_start, finished, test>>
  ELSE IF start_time >= Duration THEN
    /\ finished' = TRUE /\ UNCHANGED <<cmd, brake_start, test>>
  ELSE IF Braking THEN
    /\ cmd' = "brake" /\ UNCHANGED <<brake_start, finished, test>>
  ELSE
    /\ cmd' = "profile" /\ Resumed /\ UNCHANGED finished
Tick ==
  /\ Command
  /\ UNCHANGED <<driving, start_time, brake_stopped, measured_speed, axle, silent>>

(* The axle follows the command, and the clock moves with the timer.           *)
Turns ==
  CASE cmd = "brake"   -> IF axle > 0 THEN {axle - 1, axle} ELSE {0}
    [] cmd = "profile" -> {axle, Least(axle + 1, SpunUp)}
    [] OTHER           -> {axle, IF axle > 0 THEN axle - 1 ELSE 0}
Time ==
  /\ silent < 1
  /\ silent' = silent + 1
  /\ axle' \in Turns
  /\ driving' \in {driving, TRUE}
  /\ start_time' = Elapsed(start_time, Duration)
  /\ brake_start' = Elapsed(brake_start, BrakeHold)
  /\ test' = IF axle = 0 \/ test.verdict # "none" THEN test
             ELSE [test EXCEPT !.braked = Least(@ + 1, BrakeHold)]
  /\ UNCHANGED <<brake_stopped, finished, measured_speed, cmd>>

InspectionInit ==
  /\ driving = FALSE /\ start_time = Unset /\ brake_start = Unset
  /\ brake_stopped = FALSE /\ finished = FALSE /\ measured_speed = Unset
  /\ cmd = "zeros" /\ axle = 0 /\ silent = 0
  /\ test = [verdict |-> "none", spun |-> FALSE, braked |-> 0, asked |-> FALSE]
InspectionNext == OnCan \/ OnSpeed \/ OnBrakeTest \/ Tick \/ Time
InspectionSpec == InspectionInit /\ [][InspectionNext]_inspectionVars

(* A verdict is about the axle, not about its messages: a PASS says that an axle
   that was turning came to rest within the limit of the command, and a profile
   that resumes has had its verdict.  A test asked for again while one runs is
   measured from the second request.  inspection_mission.py:100-165.          *)
VerdictTrue ==
  /\ test.verdict = "PASS" => test.asked \/ (test.spun /\ test.braked <= StopLimit)
  /\ brake_start = Unset /\ test.spun => test.verdict # "none"

(* Why: the speed last heard of is at most one turn off, so an axle that is tested
   spins; the axle has not turned for longer than the test has run; a test that the
   axle has stopped in has its verdict.                                       *)
InspectionInv ==
  /\ axle \in 0 .. SpunUp /\ silent \in 0 .. 1 /\ measured_speed \in Int
  /\ measured_speed # Unset => /\ axle - measured_speed <= silent
                               /\ measured_speed - axle <= silent
  /\ brake_start \in (0 .. BrakeHold) \cup {Unset} /\ start_time \in Int
  /\ test \in [verdict : {"none", "PASS", "FAIL"}, spun : BOOLEAN, braked : Nat,
               asked : BOOLEAN]
  /\ brake_start # Unset =>
       /\ test.verdict = "none" => test.braked <= brake_start
       /\ test.asked \/ test.spun
       /\ brake_stopped <=> test.verdict # "none"
  /\ VerdictTrue
=============================================================================
