----------------------------- MODULE TmpcCycle ------------------------------
(***************************************************************************)
(* The three nodes between the planner and the output of the MPC:          *)
(* wpnt_publisher's trajectory timer, hyu_tmpc_state_bridge, and hyu_tmpc, *)
(* which solves on whatever pair and state it received last.  Each node    *)
(* judges its inputs by when it received them.  The two trajectories of a  *)
(* pair travel on two topics.  What build computes is TmpcPair's subject;  *)
(* whether it succeeds, the quality of the path match and a diverged       *)
(* solution are choices here.  A tick of the clock waits for the           *)
(* trajectories in flight, and each timer runs any number of times in it.  *)
(***************************************************************************)
EXTENDS Ages, Sequences

CONSTANTS
  Inputs,        \* of onTmpcTimer besides the source: Frenet and ego odometry, lap count
  InputTimeout,  \* tmpc_input_timeout_sec
  GateTimeout,   \* global_path_valid_timeout_sec
  TrajTimeout,   \* performance_ and emergency_trajectory_timeout_sec
  StateTimeout,  \* state_timeout_sec
  LocTimeout,    \* the three input timeouts of the state bridge
  Delay,         \* how old an odometry sample can be when it arrives
  Settle,        \* kPostResetSettleCycles
  Top            \* the largest trajectory counter before it wraps to 1

CycleAssumption ==
  /\ {InputTimeout, GateTimeout, TrajTimeout, StateTimeout, LocTimeout, Delay} \subseteq Nat
  /\ Settle \in Nat /\ Top \in Nat \ {0, 1}

VARIABLES
  lossy,   \* the chain that may fall silent: "pair" (the planner's) or "pose" (the car's)
  world,   \* ticks since the source was GLOBAL, and since the path was valid
  pub,     \* wpnt_publisher: the ages of its inputs, the gate, the counter
  bridge,  \* the state bridge: its inputs, and the filter of the acceleration
  flight,  \* the trajectories sent and not yet received, per topic
  mpc,     \* hyu_tmpc: what it holds, the settle window
  out      \* the command it published in the last step: a set of at most one
cycleVars == <<lossy, world, pub, bridge, flight, mpc, out>>

WorldMost == InputTimeout + GateTimeout + TrajTimeout + 1
MadeMost == Delay + LocTimeout + StateTimeout + 1

CycleInit ==
  /\ lossy \in {"pair", "pose"}
  /\ world = [global |-> WorldMost, valid |-> WorldMost]
  /\ pub = [global |-> FALSE, source |-> InputTimeout + 1,
            ages |-> [i \in Inputs |-> InputTimeout + 1],
            ok |-> FALSE, beat |-> GateTimeout + 1, path |-> FALSE, count |-> 0]
  /\ bridge = [loc |-> LocTimeout + 1, made |-> MadeMost, new |-> FALSE, rest |-> LocTimeout + 1,
               init |-> FALSE, last |-> MadeMost, span |-> 0]
  /\ flight = [race |-> <<>>, stop |-> <<>>]
  /\ mpc = [state |-> StateTimeout + 1, made |-> MadeMost, span |-> 0,
            race |-> 0, raceAge |-> TrajTimeout + 1, stop |-> 0, stopAge |-> TrajTimeout + 1,
            settle |-> 0, steps |-> Settle]
  /\ out = {}

-----------------------------------------------------------------------------
(* wpnt_publisher *)

\* The state machine's source as it reaches the publisher: onPathSource.
HearSource(global) ==
  /\ pub' = [pub EXCEPT !.global = global, !.source = 0]
  /\ world' = [world EXCEPT !.global = IF global THEN 0 ELSE @]
  /\ UNCHANGED <<bridge, flight, mpc>>

\* onOdom, onEgoOdom, onLapCount: one of the other inputs.
HearInput(i) ==
  /\ pub' = [pub EXCEPT !.ages[i] = 0]
  /\ UNCHANGED <<world, bridge, flight, mpc>>

GateFresh == pub.ok /\ pub.beat <= GateTimeout

\* A heartbeat of the planner: a false one drops the path, and so does a true one that
\* comes after the gate has lapsed.
HearBeat(ok) ==
  /\ pub' = [pub EXCEPT !.ok = ok, !.beat = 0, !.path = @ /\ ok /\ GateFresh]
  /\ world' = [world EXCEPT !.valid = IF ok THEN 0 ELSE @]
  /\ UNCHANGED <<bridge, flight, mpc>>

\* A new path, taken while the gate is open.
HearPath ==
  /\ GateFresh /\ pub' = [pub EXCEPT !.path = TRUE]
  /\ UNCHANGED <<world, bridge, flight, mpc>>

\* A bug of this shape: the source is read, however long ago it came.
FitWithOldSource ==
  GateFresh /\ pub.path /\ pub.global /\ \A i \in Inputs : pub.ages[i] <= InputTimeout

\* The early returns of onTmpcTimer, with inputFresh.
Fit ==
  /\ GateFresh /\ pub.path
  /\ pub.global /\ pub.source <= InputTimeout
  /\ \A i \in Inputs : pub.ages[i] <= InputTimeout

NextCount(n) == IF n = Top THEN 1 ELSE n + 1

\* A bug of this shape: a rejected build uses up its number.
CountedEveryBuild(built) == NextCount(pub.count)

\* trajectory_counter_ moves when the pair is published.
Counted(built) == IF built THEN NextCount(pub.count) ELSE pub.count

\* onTmpcTimer: both trajectories, the race first; readForOdom drops a lapsed path.
TrajectoryTimer(built) ==
  /\ IF Fit
     THEN /\ pub' = [pub EXCEPT !.count = Counted(built)]
          /\ flight' = IF built THEN [race |-> Append(flight.race, NextCount(pub.count)),
                                      stop |-> Append(flight.stop, NextCount(pub.count))]
                       ELSE flight
     ELSE /\ pub' = [pub EXCEPT !.path = @ /\ GateFresh] /\ UNCHANGED flight
  /\ UNCHANGED <<world, bridge, mpc>>

-----------------------------------------------------------------------------
(* hyu_tmpc_state_bridge *)

\* LocalizationCallback, with a sample made `old` ticks ago.
HearLocalization(old) ==
  /\ old <= bridge.made
  /\ bridge' = [bridge EXCEPT !.loc = 0, !.made = old, !.new = TRUE]
  /\ UNCHANGED <<world, pub, flight, mpc>>

\* CarStateCallback and WheelSpeedsCallback, together.
HearRest ==
  /\ bridge' = [bridge EXCEPT !.rest = 0]
  /\ UNCHANGED <<world, pub, flight, mpc>>

\* A bug of this shape: only the order of the two samples is checked.
JoinsAnyGap(dt) == dt > 0

\* The difference quotient is taken over this much time, or not at all.
Joins(dt) == dt > 0 /\ dt <= LocTimeout

\* UpdateAxVel: a sample is used once; span is the time the slope was taken over.
Filtered(b) ==
  IF ~b.new THEN b
  ELSE [b EXCEPT !.new = FALSE, !.init = TRUE, !.last = b.made,
                 !.span = IF b.init /\ Joins(b.last - b.made) THEN b.last - b.made ELSE 0]

\* A bug of this shape: the odometry is fresh if anything is.
BridgeFreshIfAny == bridge.loc <= LocTimeout \/ bridge.rest <= LocTimeout

\* All three inputs must be fresh.
BridgeFresh == bridge.loc <= LocTimeout /\ bridge.rest <= LocTimeout

\* PublishVehicleState, and hyu_tmpc's CallbackVehicleState, which stamps the receipt;
\* sound: the inputs are finite and the attitude is a rotation.
BridgeTimer(sound) ==
  /\ IF BridgeFresh /\ sound
     THEN /\ bridge' = Filtered(bridge)
          /\ mpc' = [mpc EXCEPT !.state = 0, !.made = bridge.made, !.span = bridge'.span]
     ELSE /\ bridge' = [bridge EXCEPT !.init = FALSE, !.span = 0] /\ UNCHANGED mpc
  /\ UNCHANGED <<world, pub, flight>>

-----------------------------------------------------------------------------
(* hyu_tmpc *)

\* CallbackPerformanceTrajectory and CallbackEmergencyTrajectory.
HearRace ==
  /\ flight.race # <<>>
  /\ mpc' = [mpc EXCEPT !.race = Head(flight.race), !.raceAge = 0]
  /\ flight' = [flight EXCEPT !.race = Tail(@)]
  /\ UNCHANGED <<world, pub, bridge>>
HearStop ==
  /\ flight.stop # <<>>
  /\ mpc' = [mpc EXCEPT !.stop = Head(flight.stop), !.stopAge = 0]
  /\ flight' = [flight EXCEPT !.stop = Tail(@)]
  /\ UNCHANGED <<world, pub, bridge>>

\* A bug of this shape: a window that is already running is not renewed.
SettleFromFirst == IF mpc.settle > 0 THEN mpc.settle - 1 ELSE Settle

\* Every diverged solution starts the window again.
SettleAgain == Settle

\* Run, publish_on_timeout being off: steps are the solver's since its last reset.
Run(matched, diverged) ==
  IF mpc.state > StateTimeout \/ mpc.raceAge > TrajTimeout \/ mpc.stopAge > TrajTimeout
  THEN UNCHANGED mpc /\ out' = {}
  ELSE IF diverged
  THEN mpc' = [mpc EXCEPT !.settle = SettleAgain, !.steps = 0] /\ out' = {}
  ELSE /\ mpc' = [mpc EXCEPT !.settle = IF @ > 0 THEN @ - 1 ELSE 0, !.steps = Older(@, Settle)]
       /\ out' = IF mpc.settle = 0 /\ matched
                 THEN {[race |-> mpc.race, stop |-> mpc.stop, steps |-> mpc.steps,
                        made |-> mpc.made, span |-> mpc.span,
                        global |-> world.global, valid |-> world.valid]}
                 ELSE {}
SolverTimer(matched, diverged) == Run(matched, diverged) /\ UNCHANGED <<world, pub, bridge, flight>>

-----------------------------------------------------------------------------
\* A tick.  The chain that is not lossy is heard from in every one, once it was heard.
Tick ==
  /\ flight = [race |-> <<>>, stop |-> <<>>]
  /\ IF lossy = "pair"
     THEN /\ world' = [global |-> Older(world.global, WorldMost), valid |-> Older(world.valid, WorldMost)]
          /\ pub' = [pub EXCEPT !.source = Older(@, InputTimeout + 1), !.beat = Older(@, GateTimeout + 1),
                                !.ages = [i \in Inputs |-> Older(@[i], InputTimeout + 1)]]
          /\ mpc' = [mpc EXCEPT !.raceAge = Older(@, TrajTimeout + 1), !.stopAge = Older(@, TrajTimeout + 1)]
          /\ UNCHANGED bridge
     ELSE /\ bridge' = [bridge EXCEPT !.loc = Older(@, LocTimeout + 1), !.made = Older(@, MadeMost),
                                      !.rest = Older(@, LocTimeout + 1), !.last = Older(@, MadeMost)]
          /\ mpc' = [mpc EXCEPT !.state = Older(@, StateTimeout + 1), !.made = Older(@, MadeMost)]
          /\ UNCHANGED <<world, pub>>
  /\ UNCHANGED flight

\* At most one pair is in flight.
Handles ==
  \/ \E global \in BOOLEAN : HearSource(global)
  \/ \E i \in Inputs : HearInput(i)
  \/ \E ok \in BOOLEAN : HearBeat(ok)
  \/ HearPath
  \/ flight.race = <<>> /\ flight.stop = <<>> /\ \E built \in BOOLEAN : TrajectoryTimer(built)
  \/ \E old \in 0..Delay : HearLocalization(old)
  \/ HearRest \/ HearRace \/ HearStop \/ Tick
  \/ \E sound \in BOOLEAN : BridgeTimer(sound)
CycleNext ==
  /\ \/ Handles /\ out' = {}
     \/ \E matched, diverged \in BOOLEAN : SolverTimer(matched, diverged)
  /\ UNCHANGED lossy

-----------------------------------------------------------------------------
\* Through three nodes that each stamp what they receive, a command of the MPC still
\* stands on the present: the source was GLOBAL and the path valid no longer ago than
\* the publisher and the solver together allow, the car's pose is no older than the
\* bridge and the solver allow, and the acceleration was never measured across a gap
\* (wpnt_publisher_node.cpp:388-491, PublishVehicleState, Run).
DrivesOnPresent ==
  \A c \in out :
    /\ c.global <= InputTimeout + TrajTimeout
    /\ c.valid <= GateTimeout + TrajTimeout
    /\ c.made <= Delay + LocTimeout + StateTimeout
    /\ c.span <= LocTimeout

\* The race and the stop a command was solved on are of one pair or of two that
\* follow each other, across the wrap of the counter: the two topics are read one
\* after the other, and a rejected build leaves no hole (trajectory_counter_).
PairsFollow == \A c \in out : c.race = c.stop \/ c.race = NextCount(c.stop) \/ c.stop = NextCount(c.race)

\* A solver reinitialised after a diverged solution has made the whole settle window
\* of further steps before anything it computes is published, however often it
\* diverges meanwhile (hyu_tmpc_node.cpp:380-410).
SettlesFirst == \A c \in out : c.steps = Settle

-----------------------------------------------------------------------------
\* Why these hold.  The two topics: what is in flight is the newest pair, and the solver
\* holds it or the one before it.
PairInv ==
  /\ mpc.race \in 0 .. Top /\ mpc.stop \in 0 .. Top
  /\ flight \in [race : {<<>>, <<pub.count>>}, stop : {<<>>, <<pub.count>>}]
  /\ IF flight.race = <<>> THEN mpc.race = pub.count ELSE NextCount(mpc.race) = pub.count
  /\ IF flight.stop = <<>> THEN mpc.stop = pub.count ELSE NextCount(mpc.stop) = pub.count
  /\ flight.race # <<>> /\ flight.stop # <<>> => mpc.race = mpc.stop

\* The ages: as far as a node can tell its input to be fresh, the world was as the input
\* says no longer ago than every stamp on the way allows, and a race in flight is of now.
PresentInv ==
  /\ world \in [global : Nat, valid : Nat]
  /\ pub.global /\ pub.source <= InputTimeout => world.global <= pub.source
  /\ pub.ok /\ pub.beat <= GateTimeout => world.valid <= pub.beat
  /\ flight.race # <<>> => world.global <= InputTimeout /\ world.valid <= GateTimeout
  /\ mpc.raceAge <= TrajTimeout =>
       world.global <= InputTimeout + mpc.raceAge /\ world.valid <= GateTimeout + mpc.raceAge
PoseInv ==
  /\ bridge.loc <= LocTimeout => bridge.made <= Delay + bridge.loc
  /\ mpc.state <= StateTimeout => mpc.made <= Delay + LocTimeout + mpc.state
  /\ bridge.span <= LocTimeout /\ mpc.span <= LocTimeout

\* The window: what is left of it, and the steps made in it, are the whole of it.
SettleInv == mpc.settle \in 0 .. Settle /\ mpc.steps = Settle - mpc.settle

CycleTypes ==
  /\ pub \in [global : BOOLEAN, source : Nat, ages : [Inputs -> Nat], ok : BOOLEAN,
              beat : Nat, path : BOOLEAN, count : 0 .. Top]
  /\ bridge \in [loc : Nat, made : Nat, new : BOOLEAN, rest : Nat, init : BOOLEAN,
                 last : Nat, span : Int]
  /\ mpc \in [state : Nat, made : Nat, span : Int, race : Int, raceAge : Nat, stop : Int,
              stopAge : Nat, settle : Int, steps : Int]

CycleInv ==
  /\ CycleTypes /\ PairInv /\ PresentInv /\ PoseInv /\ SettleInv
  /\ DrivesOnPresent /\ PairsFollow /\ SettlesFirst
=============================================================================
