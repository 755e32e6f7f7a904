----------------------------- MODULE DriveChain -----------------------------
(***************************************************************************)
(* From the path source the planner asks for to the command of Pure        *)
(* Pursuit: the local planner's output, the path selector and the          *)
(* controller, each on its own timer.  In a tick every input arrives once, *)
(* in one order, and the two timers fire at any moment between them; a     *)
(* message or a timer tick that is lost is a fault, and MaxFaults bounds   *)
(* the faults.                                                             *)
(***************************************************************************)
EXTENDS PathSelector, PurePursuit

CONSTANTS
  MaxInputAge, \* max_input_age_sec of the local planner, in ticks
  MaxFaults,   \* bound on the messages and timer ticks that are lost
  Lossy,       \* the inputs and timers that may be lost
  Moves,       \* distances the car covers between two heartbeats of the selector
  LocalArcs    \* what may be left of the local path when it is frozen

ASSUME DriveAssumption ==
  /\ MaxInputAge \in Nat /\ MaxFaults \in Nat
  /\ Moves \subseteq Nat /\ LocalArcs \subseteq 0..MaxArc

(* LocalPlannerOutput: the validity hyu_local_planner vouches for its last   *)
(* path with, apart from how it builds paths.                                *)

\* age is the age of last_valid_receive_time_, and `ever` whether there was one.
LocalOutputType == [valid : BOOLEAN, ever : BOOLEAN, age : 0..(MaxInputAge + 1)]

LocalOutputInit == [valid |-> FALSE, ever |-> FALSE, age |-> MaxInputAge + 1]

AgeLocalOutput(o) == [o EXCEPT !.age = Older(@, MaxInputAge + 1)]

PublishPath(o) == [valid |-> TRUE, ever |-> TRUE, age |-> 0]

\* A failed build of live cones keeps the last path until it is stale.
RetainUntilStale(o) == [o EXCEPT !.valid = @ /\ o.ever]

InvalidateImmediately(o) == [o EXCEPT !.valid = FALSE]

\* The heartbeat publishes `valid` as it is after this.
LocalHeartbeat(o) == [o EXCEPT !.valid = @ /\ o.age <= MaxInputAge]

-----------------------------------------------------------------------------

VARIABLES
  plan,      \* the path source of the planning state machine
  local,     \* the local planner's output
  selector,  \* hyu_path_selector_node
  sent,      \* the kind of path the selector last published, "none" if none
  pursuit,   \* hyu_pure_pursuit_node
  command,   \* its last command
  due,       \* what this tick still has to do
  faults,    \* messages and timer ticks lost
  hist       \* history, for the properties

driveVars == <<plan, local, selector, sent, pursuit, command, due, faults, hist>>

\* In the order they arrive in.
InputOrder == <<"stop", "odom", "source", "global", "build", "beat">>
Inputs == {InputOrder[i] : i \in DOMAIN InputOrder}
SelectorOnly == {"source", "global", "build", "beat"}
Outputs == {"path", "valid"}
Timers == {"select", "control"}

BuildOutcomes == {"path", "retain", "invalid"}

\* Saturation of the gap, past every bound a property compares it with; `stopped`
\* saturates at MaxFaults + 2 for the same reason.
MaxGap == ValidityHold + MaxFaults + 2

\* gap: ticks since the selector published a path and true; stopped: ticks since STOP;
\* joined: a global path was published since the last LOCAL request the selector heard.
HistoryType == [gap : 0..MaxGap, stopped : 0..(MaxFaults + 2), joined : BOOLEAN]

DriveTypeOK ==
  /\ plan \in Requests
  /\ local \in LocalOutputType
  /\ selector \in SelectorType
  /\ sent \in PathKinds \cup {"none"}
  /\ pursuit \in PursuitType
  /\ command \in Commands
  /\ due \subseteq Inputs \cup Outputs \cup Timers
  /\ faults \in 0..MaxFaults
  /\ hist \in HistoryType

DriveInit ==
  /\ plan = "LOCAL"
  /\ local = LocalOutputInit
  /\ selector = SelectorInit
  /\ sent = "none"
  /\ pursuit = PursuitInit
  /\ command = "brake"
  /\ due = Inputs \cup Outputs \cup Timers
  /\ faults = 0
  /\ hist = [gap |-> MaxGap, stopped |-> 0, joined |-> FALSE]

Do(d) == d \in due /\ due' = due \ {d}

\* What only the selector hears commutes with what only the controller hears, so the
\* two are interleaved in one way: the selector's messages are served before the next of
\* its inputs, and the controller's timer waits while those arrive.
Arrive(d) ==
  /\ Do(d)
  /\ d \in SelectorOnly /\ "select" \notin due => due \cap Outputs = {}
  /\ \A i, j \in DOMAIN InputOrder :
       InputOrder[j] = d /\ i < j => InputOrder[i] \notin due

-----------------------------------------------------------------------------
(* The inputs: the planner's source and stop request, the local planner, the *)
(* global path and its heartbeat, odometry.                                  *)

PathSource ==
  /\ Arrive("source")
  /\ selector' = OnPathSource(selector, plan)
  /\ hist' = [hist EXCEPT !.joined = @ /\ plan # "LOCAL"]
  /\ UNCHANGED <<plan, local, sent, pursuit, command, faults>>

StopRequest ==
  /\ Arrive("stop")
  /\ pursuit' = OnPursuitStop(pursuit, plan = "STOP")
  /\ UNCHANGED <<plan, local, selector, sent, command, faults, hist>>

LocalBuild(outcome) ==
  /\ Arrive("build")
  /\ local' = CASE outcome = "path"    -> PublishPath(local)
                [] outcome = "retain"  -> RetainUntilStale(local)
                [] outcome = "invalid" -> InvalidateImmediately(local)
  /\ selector' = IF outcome = "path" THEN OnCandidatePath(selector, "local") ELSE selector
  /\ UNCHANGED <<plan, sent, pursuit, command, faults, hist>>

LocalBeat ==
  /\ Arrive("beat")
  /\ local' = LocalHeartbeat(local)
  /\ selector' = OnCandidateValidity(selector, "local", local'.valid)
  /\ UNCHANGED <<plan, sent, pursuit, command, faults, hist>>

\* wpnt_publisher: the window of the global path, and its validity.
GlobalWindow(valid) ==
  /\ Arrive("global")
  /\ selector' = OnCandidateValidity(
                   IF valid THEN OnCandidatePath(selector, "global") ELSE selector,
                   "global", valid)
  /\ UNCHANGED <<plan, local, sent, pursuit, command, faults, hist>>

Odometry ==
  /\ Arrive("odom")
  /\ selector' = OnSelectorOdom(selector)
  /\ pursuit' = OnPursuitOdom(pursuit)
  /\ UNCHANGED <<plan, local, sent, command, faults, hist>>

-----------------------------------------------------------------------------

\* The global window is longer than the blend.
Select(localArc, moved) ==
  /\ Do("select")
  /\ LET b == SelectorHeartbeat(selector, Candidates, localArc, MaxArc, moved) IN
       /\ selector' = b.selector
       /\ sent' = b.kind
       /\ hist' = [hist EXCEPT
                     !.gap = IF b.kind # "none" THEN 0 ELSE @,
                     !.joined = @ \/ b.kind \in {"blend", "global"}]
  /\ UNCHANGED <<plan, local, pursuit, command, faults>>

\* The selector's messages of this tick, once its heartbeat has run.
SelectedPath ==
  /\ "select" \notin due /\ Do("path")
  /\ pursuit' = IF sent # "none" THEN OnPursuitPath(pursuit) ELSE pursuit
  /\ UNCHANGED <<plan, local, selector, sent, command, faults, hist>>

SelectedValid ==
  /\ "select" \notin due /\ Do("valid")
  /\ pursuit' = OnPursuitValidity(pursuit, sent # "none")
  /\ UNCHANGED <<plan, local, selector, sent, command, faults, hist>>

Control ==
  /\ Do("control")
  /\ due \cap SelectorOnly \in {{}, SelectorOnly}
  /\ LET t == PursuitTimer(pursuit, TRUE) IN
       pursuit' = t.pursuit /\ command' = t.command
  /\ UNCHANGED <<plan, local, selector, sent, faults, hist>>

-----------------------------------------------------------------------------

\* The sources the planning state machine publishes one after the other.
NextPlans ==
  CASE plan = "LOCAL"             -> {"LOCAL", "GLOBAL_FULL", "GLOBAL_FINAL_STOP"}
    [] plan = "GLOBAL_FULL"       -> {"GLOBAL_FULL", "LOCAL", "GLOBAL_FINAL_STOP"}
    [] plan = "GLOBAL_FINAL_STOP" -> {"GLOBAL_FINAL_STOP", "LOCAL", "STOP"}
    [] plan = "STOP"              -> {"STOP"}

Elapse ==
  /\ due = {}
  /\ plan' \in NextPlans
  /\ local' = AgeLocalOutput(local)
  /\ selector' = AgeSelector(selector)
  /\ pursuit' = AgePursuit(pursuit)
  /\ due' = Inputs \cup Outputs \cup Timers
  /\ hist' = [hist EXCEPT !.gap = Older(@, MaxGap),
                          !.stopped = IF plan = "STOP" THEN Older(@, MaxFaults + 2) ELSE 0]
  /\ UNCHANGED <<sent, command, faults>>

\* With a heartbeat of the selector go the messages it would have sent.
Lose(d) ==
  /\ d \in due
  /\ due' = due \ (IF d = "select" THEN {d} \cup Outputs ELSE {d})
  /\ faults < MaxFaults /\ faults' = faults + 1
  /\ UNCHANGED <<plan, local, selector, sent, pursuit, command, hist>>

Serve ==
  \/ PathSource \/ StopRequest \/ LocalBeat \/ Odometry
  \/ \E outcome \in BuildOutcomes : LocalBuild(outcome)
  \/ \E valid \in BOOLEAN : GlobalWindow(valid)
  \/ \E localArc \in LocalArcs, moved \in Moves : Select(localArc, moved)
  \/ SelectedPath \/ SelectedValid \/ Control

DriveNext == Serve \/ Elapse \/ \E d \in Lossy : Lose(d)

DriveSpec == DriveInit /\ [][DriveNext]_driveVars

FairDrive == DriveSpec /\ WF_driveVars(Serve) /\ WF_driveVars(Elapse)

-----------------------------------------------------------------------------

\* The first global path after a local one is reached through a blend, on every entry and
\* not only on the first: the selector forgets an entry when it hears LOCAL
\* (hyu_path_selector_node.cpp:125-127, 241-282).  A blend that was interrupted is the
\* exception: it resumes, from the local path frozen before, and may be over at once.
EntryBlended ==
  sent = "local" /\ sent' = "global" =>
    \A localArc \in LocalArcs, moved \in Moves :
      Select(localArc, moved) /\ localArc > 1 => hist.joined \/ selector.blend.active

\* While the frozen path covers it, a blend puts the car nowhere but where the one
\* published before already had it.
BlendContinues ==
  sent = "blend" /\ sent' = "blend" /\ selector.blend.arc >= BlendLength =>
    \A localArc \in LocalArcs, moved \in Moves :
      Select(localArc, moved) =>
        Transition(selector'.blend, MaxArc)[1] = Transition(selector.blend, MaxArc)[1 + moved]

\* No heartbeat of the selector makes the reference step, neither into a blend nor
\* along one.
BlendsEntry == [][EntryBlended /\ BlendContinues]_driveVars

\* The car moves along a path only for the hold after the selector last vouched for one,
\* however often the hold is renewed by heartbeats that say no.
VouchedRecently == command # "brake" => hist.gap <= ValidityHold + MaxFaults + 1

\* A stop the planner requested is never driven through: neither the hold nor a path that
\* is still valid keeps the throttle open.
StopObeyed == hist.stopped > 1 + MaxFaults => command # "drive"

\* Once the controller has seen one valid path at its timer, the cycles without one brake
\* the car only when they last for longer than the hold.
RidesFlicker ==
  [][command = "drive" /\ command' = "brake" /\ faults = 0
       /\ pursuit.lastPath /\ ~pursuit.raw /\ sent = "none" => hist.gap > ValidityHold]_driveVars

\* While the local planner builds its paths the car drives for good, whatever becomes of the
\* global path and the blends into it.
DrivesOn ==
  <>[](plan \in {"LOCAL", "GLOBAL_FULL"} /\ ("build" \notin due => local.ever /\ local.age = 0))
    => <>[](command = "drive")

=============================================================================
