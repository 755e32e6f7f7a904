---------------------------- MODULE PurePursuit -----------------------------
(***************************************************************************)
(* hyu_pure_pursuit_node: the inputs it keeps, the hold that bridges a     *)
(* flickering validity, and what a command is: the fail-safe brake with    *)
(* the wheels straight, the planned stop that brakes on the path, or a     *)
(* drive along it.                                                         *)
(***************************************************************************)
EXTENDS Ages

CONSTANTS
  InputTimeout,   \* input_timeout_sec, in ticks
  ValidityHold    \* validity_hold_sec_, in ticks

ASSUME PursuitAssumption == InputTimeout \in Nat /\ ValidityHold \in Nat

Commands == {"brake", "stop", "drive"}

\* path and lastPath: input_.path and last_valid_path_ are not empty; trueAge is the age
\* of last_validity_true_time_, past the hold before the first true.
PursuitType ==
  [path : BOOLEAN, pathAge : 0..(InputTimeout + 1), lastPath : BOOLEAN,
   raw : BOOLEAN, validAge : 0..(InputTimeout + 1), trueAge : 0..(ValidityHold + 1),
   stop : BOOLEAN, stopAge : 0..(InputTimeout + 1), odomAge : 0..(InputTimeout + 1)]

PursuitInit ==
  [path |-> FALSE, pathAge |-> InputTimeout + 1, lastPath |-> FALSE,
   raw |-> FALSE, validAge |-> InputTimeout + 1, trueAge |-> ValidityHold + 1,
   stop |-> FALSE, stopAge |-> InputTimeout + 1, odomAge |-> InputTimeout + 1]

AgePursuit(p) ==
  [p EXCEPT !.pathAge = Older(@, InputTimeout + 1), !.validAge = Older(@, InputTimeout + 1),
            !.trueAge = Older(@, ValidityHold + 1), !.stopAge = Older(@, InputTimeout + 1),
            !.odomAge = Older(@, InputTimeout + 1)]

OnPursuitPath(p) == [p EXCEPT !.path = TRUE, !.pathAge = 0]

\* A bug of this shape: every heartbeat renews the hold.
OnPursuitValidityRenewing(p, v) ==
  [p EXCEPT !.raw = v, !.validAge = 0, !.trueAge = IF v \/ @ <= ValidityHold THEN 0 ELSE @]

OnPursuitValidity(p, v) ==
  [p EXCEPT !.raw = v, !.validAge = 0, !.trueAge = IF v THEN 0 ELSE @]

OnPursuitStop(p, v) == [p EXCEPT !.stop = v, !.stopAge = 0]

OnPursuitOdom(p) == [p EXCEPT !.odomAge = 0]

\* selected_path_valid as the controller sees it.
HeldValid(p) == p.raw \/ p.trueAge <= ValidityHold

\* A bug of this shape: an invalid cycle has no path to hold.
RestoresNothing(p) == FALSE

\* last_valid_path_ stands in for the path of an invalid cycle.
Restores(p) == ~(p.raw /\ p.path) /\ HeldValid(p) /\ p.lastPath

\* computeControl drives or stops on the path only when every input is there and fresh.
InputsSafe(p, q) ==
  /\ HeldValid(p) /\ q.path
  /\ Restores(p) \/ p.pathAge <= InputTimeout
  /\ p.validAge <= InputTimeout /\ p.stopAge <= InputTimeout /\ p.odomAge <= InputTimeout

\* A bug of this shape: a stop waits until the hold is over.
CommandHeldStop(p, q, aims) ==
  IF ~InputsSafe(p, q) \/ ~aims THEN "brake"
  ELSE IF p.stop /\ ~Restores(p) THEN "stop" ELSE "drive"

\* `aims`: there is a target ahead and the steering table has an answer.
Command(p, q, aims) ==
  IF ~InputsSafe(p, q) \/ ~aims THEN "brake" ELSE IF p.stop THEN "stop" ELSE "drive"

\* The timer: the node after it, and its command.
PursuitTimer(p, aims) ==
  LET q == [p EXCEPT !.lastPath = @ \/ (p.raw /\ p.path),
                     !.path = @ \/ Restores(p)]
  IN [pursuit |-> q, command |-> Command(p, q, aims)]

=============================================================================
