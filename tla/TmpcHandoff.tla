---------------------------- MODULE TmpcHandoff ----------------------------
(***************************************************************************)
(* The command chain: CmdSelector fed by the planner, Pure Pursuit and the *)
(* TMPC output bridge.  One tick makes one message of each periodic topic  *)
(* due; due messages are delivered in any order, and those of late may be  *)
(* overtaken by the next tick.  The bridge sends a command and then a      *)
(* validity flag, on two topics.                                           *)
(***************************************************************************)
EXTENDS CmdSelector

CONSTANTS
  OutputTimeout,  \* the bridge's output_timeout_sec, in ticks
  VehicleTimeout, \* the vehicle brakes by itself after this silence, in ticks
  Steers,         \* steering the MPC may ask for; Pure Pursuit steers 0
  LateSets        \* sets of topics a message of which may come too late

TmpcSide == {"mpc", "bridge", "tmpcCmd", "tmpcValid"}
Topics == TmpcSide \cup {"state", "stop", "pp", "timer"}

ASSUME HandoffAssumption ==
  /\ OutputTimeout \in Nat /\ VehicleTimeout \in Nat
  /\ Steers \subseteq Int /\ LateSets \subseteq SUBSET Topics
  /\ {"LOCAL", "GLOBAL", "STOP"} \subseteq PlanningStates

VARIABLES
  late,      \* the topics a message of which may come too late
  bridge,    \* latest_input_ of the bridge: received yet, usable, its age
  st,        \* the planner's state
  built,     \* what the bridge's last timer built was valid
  heard,     \* the TMPC command the selector holds was built valid
  leaked,    \* invalid TMPC commands forwarded since the last valid one, up to LeakCap
  silence,   \* ticks since the last message on /vehicle/cmd
  due        \* topics with a message under way

chain == <<bridge, st, built, heard, leaked, silence, due>>
chainVars == <<vars, chain>>

ChainInit ==
  /\ Init
  /\ late \in LateSets
  /\ bridge = [has |-> FALSE, good |-> FALSE, age |-> OutputTimeout + 1]
  /\ st = "LOCAL" /\ built = FALSE /\ heard = FALSE
  /\ leaked = 0 /\ silence = 0 /\ due = {}

Deliver(topic) == topic \in due /\ due' = due \ {topic}

\* A usable output is an OK status with a finite steering within the reject factor.
OnMpcOutput(good) ==
  /\ Deliver("mpc")
  /\ bridge' = [has |-> TRUE, good |-> good, age |-> 0]
  /\ UNCHANGED <<vars, st, built, heard, leaked, silence>>

\* BuildCommand returns a valid command.
BuildsValid == bridge.has /\ bridge.age <= OutputTimeout /\ bridge.good

\* The bridge's timer: a command, then whether it is valid.
BridgeTimer ==
  /\ "bridge" \in due
  /\ built' = BuildsValid
  /\ due' = (due \ {"bridge"}) \cup {"tmpcCmd", "tmpcValid"}
  /\ UNCHANGED <<vars, bridge, st, heard, leaked, silence>>

\* A command that could not be built is a brake with the wheels straight.
BuiltCommands ==
  [finite : {TRUE}, steer : IF built THEN Steers ELSE {0}]

Forwarded(source) == out'.source = source /\ out'.beat # out.beat

LeakCap == 2

\* What the vehicle sees of an evaluation.
Observe ==
  /\ silence' = IF out'.source = "BRAKE" \/ out'.beat # out.beat THEN 0 ELSE silence
  /\ leaked' = IF Forwarded("TMPC") /\ ~heard' THEN Older(leaked, LeakCap)
               ELSE IF out'.source = "TMPC" /\ ~Forwarded("TMPC") THEN leaked ELSE 0

TmpcCommand ==
  /\ Deliver("tmpcCmd")
  /\ heard' = built
  /\ \E c \in BuiltCommands : OnTmpcCommand(c)
  /\ Observe
  /\ UNCHANGED <<bridge, st, built>>

TmpcValid ==
  /\ Deliver("tmpcValid")
  /\ OnTmpcValid(built)
  /\ UNCHANGED <<bridge, st, built, heard, leaked, silence>>

PpCommand ==
  /\ Deliver("pp")
  /\ OnLocalCommand([finite |-> TRUE, steer |-> 0])
  /\ UNCHANGED <<bridge, st, built, heard>>
  /\ Observe

SelectorTimer ==
  /\ Deliver("timer")
  /\ OnTimer
  /\ UNCHANGED <<bridge, st, built, heard>>
  /\ Observe

PlanningState ==
  /\ Deliver("state")
  /\ OnPlanningState(st)
  /\ UNCHANGED <<bridge, st, built, heard, leaked, silence>>

StopRequest ==
  /\ Deliver("stop")
  /\ OnStopRequest(st = "STOP")
  /\ UNCHANGED <<bridge, st, built, heard, leaked, silence>>

\* The planner stops for good; until then it may go either way.
PlannerNext(s) == IF s = "STOP" THEN {"STOP"} ELSE {"LOCAL", "GLOBAL", "STOP"}

Elapse ==
  /\ due \subseteq late
  /\ Tick
  /\ st' \in PlannerNext(st)
  /\ bridge' = [bridge EXCEPT !.age = Older(@, OutputTimeout + 1)]
  /\ silence' = Older(silence, VehicleTimeout + 1)
  /\ due' = Topics \ {"tmpcCmd", "tmpcValid"}
  /\ UNCHANGED <<built, heard, leaked>>

ChainNext ==
  \/ \E good \in BOOLEAN : OnMpcOutput(good)
  \/ BridgeTimer \/ TmpcCommand \/ TmpcValid
  \/ PpCommand \/ PlanningState \/ StopRequest \/ SelectorTimer
  \/ Elapse

ChainSpec == ChainInit /\ [][ChainNext /\ UNCHANGED late]_<<chainVars, late>>

\* Every node keeps publishing and the executor keeps serving its queue; what is late
\* may be late for ever.
ChainFairness ==
  /\ WF_chainVars(BridgeTimer) /\ WF_chainVars(TmpcCommand) /\ WF_chainVars(TmpcValid)
  /\ WF_chainVars(PpCommand) /\ WF_chainVars(PlanningState) /\ WF_chainVars(StopRequest)
  /\ WF_chainVars(SelectorTimer) /\ WF_chainVars(Elapse)

FairChain == ChainSpec /\ ChainFairness

-----------------------------------------------------------------------------

\* A car whose planner and Pure Pursuit are alive is never braked by the selector once it
\* drives, whatever the TMPC chain does (the fallback of SelectorPolicy::update).
NeverParked ==
  [][late \subseteq TmpcSide /\ status \notin BrakeStatus => status' \notin BrakeStatus]_chainVars

\* Once either of the planner's two topics has announced the stop, no further TMPC
\* command reaches the vehicle.
StopBeatsTmpc ==
  [][st = "STOP" /\ ~({"state", "stop"} \subseteq due) => ~Forwarded("TMPC")]_chainVars

\* A TMPC fault puts at most one command that the bridge itself called invalid on
\* /vehicle/cmd before it is noticed (the valid payload, even during the hold).
LeaksAtMostOne == late \subseteq {"mpc"} => leaked <= 1

\* The vehicle is never left without a message for longer than the longest timeout or hold,
\* whichever source falls silent: it is replaced, and the brake is repeated.
VehicleNeverSilent == silence <= Longest(LocalCap, TmpcCap)

\* After a fault TMPC comes back: a chain that stays healthy in GLOBAL drives in the end.
HealthyTmpcDrives ==
  late \subseteq {"mpc"} =>
    (<>[](st = "GLOBAL" /\ BuildsValid /\ tmpc.cmd.steer = 0) => <>[](out.source = "TMPC"))

-----------------------------------------------------------------------------
(* Values a run gives the constants.                                        *)

States == {"LOCAL", "GLOBAL", "STOP"}
Straight == {[finite |-> TRUE, steer |-> 0]}
NoSteer == {0}
EachSideLate == {{"mpc"}, {"tmpcCmd", "tmpcValid"}, {"pp"}}

=============================================================================
