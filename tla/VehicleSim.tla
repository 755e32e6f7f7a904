----------------------------- MODULE VehicleSim -----------------------------
(* The simulated vehicle (gazebo_race_car_model): the autonomous-system state
   machine, and the plugin that delays, overrides and applies the commands.  One
   tick is an update of the plugin; the commanders send at most one command in
   an update.  Stamps are ages, saturating; the reset of the world's clock is left
   out (it leaves every stamp ahead of the clock).                            *)
EXTENDS Integers, Sequences

CONSTANTS Delay,         \* controlDelay, in updates
          CmdTimeout,    \* the second after which a silent commander is dropped
          PublishEvery   \* updates in a publication

VARIABLES as_state, ami_state, mission_completed, in_transition,
          age,       \* updates since the last publication and the last command
          queue,     \* _command_Q, with the ages of _cmd_time_Q
          input,     \* [des, act]: the acceleration asked for and applied
          idle       \* updates since a command that might drive, or the first
                     \* after a silence
vehicleVars == <<as_state, ami_state, mission_completed, in_transition, age,
                 queue, input, idle>>

Least(a, b) == IF a < b THEN a ELSE b
Window == CmdTimeout + Delay

(* canDrive *)
CanDrive == as_state = "DRIVING" \/ ami_state = "MANUAL"

SetMission ==
  /\ ami_state = "NOT_SELECTED"
  /\ ami_state' \in {"AUTOCROSS", "MANUAL", "NOT_SELECTED"}
  /\ UNCHANGED <<as_state, mission_completed, in_transition, age, queue, input, idle>>
ResetState ==
  /\ as_state' = "OFF" /\ ami_state' = "NOT_SELECTED"
  /\ mission_completed' = FALSE /\ in_transition' = FALSE
  /\ UNCHANGED <<age, queue, input, idle>>
RequestEBS ==
  /\ ami_state \notin {"MANUAL", "NOT_SELECTED"} /\ as_state # "EMERGENCY_BRAKE"
  /\ as_state' = "EMERGENCY_BRAKE"
  /\ mission_completed' = FALSE /\ in_transition' = FALSE
  /\ UNCHANGED <<ami_state, age, queue, input, idle>>
CompletedCallback ==
  /\ ami_state # "MANUAL"
  /\ mission_completed' = ~mission_completed
  /\ UNCHANGED <<as_state, ami_state, in_transition, age, queue, input, idle>>

(* A bug of this shape: a command the state machine refuses is dropped, and the
   one before it stays in force.                                              *)
QueuedIfAllowed(cmd) ==
  IF CanDrive THEN Append(queue, [acc |-> cmd, age |-> 0]) ELSE queue
(* What onCmd puts on the queue: a refused command becomes a full brake.       *)
Queued(cmd) ==
  Append(queue, [acc |-> IF CanDrive THEN cmd ELSE "brake", age |-> 0])
OnCmd ==
  \E cmd \in {"drive", "brake"} :
    /\ \A i \in DOMAIN queue : queue[i].age > 0
    /\ queue' = Queued(cmd)
    /\ age' = [age EXCEPT !.cmd = 0]
    /\ idle' = IF CanDrive \/ age.cmd = CmdTimeout THEN 0 ELSE idle
    /\ UNCHANGED <<as_state, ami_state, mission_completed, in_transition, input>>

(* StateMachine::updateState, run only with a publication.                     *)
Transition ==
  CASE as_state = "OFF" -> as_state' = IF ami_state \in {"NOT_SELECTED", "MANUAL"}
                                       THEN "OFF" ELSE "READY"
    [] as_state = "READY" -> as_state' = IF in_transition THEN "DRIVING" ELSE "READY"
    [] as_state = "DRIVING" -> as_state' = IF mission_completed THEN "FINISHED" ELSE "DRIVING"
    [] OTHER -> UNCHANGED as_state
SpinOnce ==
  /\ Transition
  /\ in_transition' = IF as_state = "READY" THEN ~in_transition ELSE in_transition

(* updateState of the plugin: at most one command is taken up, a silent commander
   lets the car slow down, and the car moves before anything is published.    *)
Older == [i \in DOMAIN queue |-> [queue[i] EXCEPT !.age = Least(@ + 1, Delay)]]
Due == queue # <<>> /\ Head(Older).age >= Delay
Applied(des) == IF age.cmd + 1 < CmdTimeout THEN des ELSE "slow"
Publishes == age.published + 1 >= PublishEvery
Update ==
  LET des == IF Due THEN Head(queue).acc ELSE input.des
  IN /\ queue' = IF Due THEN Tail(Older) ELSE Older
     /\ input' = [des |-> des, act |-> Applied(des)]
     /\ IF Publishes THEN SpinOnce ELSE UNCHANGED <<as_state, in_transition>>
     /\ age' = [published |-> IF Publishes THEN 0 ELSE age.published + 1,
                cmd |-> Least(age.cmd + 1, CmdTimeout)]
     /\ idle' = Least(idle + 1, Window + 1)
     /\ UNCHANGED <<ami_state, mission_completed>>

VehicleInit ==
  /\ as_state = "OFF" /\ ami_state = "NOT_SELECTED"
  /\ mission_completed = FALSE /\ in_transition = FALSE
  /\ age = [published |-> 0, cmd |-> CmdTimeout] /\ queue = <<>>
  /\ input = [des |-> "slow", act |-> "slow"]
  /\ idle = 0
VehicleNext ==
  \/ SetMission \/ ResetState \/ RequestEBS \/ CompletedCallback
  \/ OnCmd \/ Update
VehicleSpec == VehicleInit /\ [][VehicleNext]_vehicleVars

(* A car that may not drive is not driven for long, whoever goes on commanding
   it and whatever was on its way: after the command timeout and the control
   delay the input applied is a brake or a slowing down.  The override, the order
   of the queue, the delay and the timeout are all needed for it.  A commander
   that resumes after a silence revives the old input for the control delay.
   onCmd and updateState, gazebo_ros_race_car_model.cpp:1080-1156.            *)
StopsBeingDriven == idle > Window => input.act # "drive"

(* Why: a command that drives was allowed when it came, so the car has been idle for no
   longer than it has been on its way; the commands behind it follow within the
   timeout, or the silence has ended it.                                      *)
QueueInv ==
  /\ queue \in Seq([acc : {"drive", "brake"}, age : 0 .. Delay - 1])
  /\ \A i, j \in 1 .. Len(queue) : i < j => queue[i].age > queue[j].age
  /\ queue # <<>> /\ age.cmd < CmdTimeout => age.cmd = queue[Len(queue)].age
DrivenInv ==
  /\ \A i \in 1 .. Len(queue) : queue[i].acc = "drive" => idle <= queue[i].age
  /\ \A i \in 1 .. Len(queue) - 1 : \/ idle <= queue[i + 1].age
                                    \/ queue[i].age - queue[i + 1].age < CmdTimeout
  /\ input.des = "drive" =>
       IF queue # <<>> THEN idle <= CmdTimeout + Head(queue).age
       ELSE age.cmd < CmdTimeout => idle <= age.cmd
VehicleInv ==
  /\ age \in [published : Int, cmd : 0 .. CmdTimeout] /\ idle \in Nat
  /\ DOMAIN input = {"des", "act"}
  /\ QueueInv /\ DrivenInv /\ StopsBeingDriven
=============================================================================
