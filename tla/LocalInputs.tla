---------------------------- MODULE LocalInputs -----------------------------
(* The inputs of the local planner in SLAM mode (ros_inputs.cpp and
   hyu_local_planner_node.cpp): the latched cone map, the status of SLAM, the
   odometry that drives every planning step, the live cones that extend the
   map, and the straight line latched for an acceleration run.  SLAM is
   reduced to what it publishes; every run of it has a map frame of its own.  *)
EXTENDS Integers, Sequences, FiniteSets, FiniteSetsExt

CONSTANTS MaxNow,       \* last tick
          MaxRun,       \* number of times SLAM is restarted
          MaxStampGap,  \* 250 ms: odometry this near a live frame anchors it
          MaxHistory    \* 64: odometry samples kept to anchor live frames

VARIABLES clock,    \* [now, odomDue]: every tick's odometry is delivered in it
          slam,     \* [run, status, since]: the tick its run was asked for
          sent,     \* undelivered messages, at most the newest of each topic
          planner,  \* the node
          path      \* what the last planning step made, or nothing
localVars == <<clock, slam, sent, planner, path>>

NoFloor == -1

LocalInputsInit ==
  /\ clock = [now |-> 1, odomDue |-> FALSE]
  /\ slam = [run |-> 0, status |-> "mapping", since |-> 0]
  /\ sent = [map |-> {}, status |-> {}]
  /\ planner \in {[map |-> {}, status |-> "", floor |-> NoFloor, odom |-> 1,
                   history |-> {1}, live |-> {}, latch |-> {}, known |-> 0,
                   straight |-> b] : b \in BOOLEAN}
  /\ path = {}

(* ---- SLAM: the cones of a map are a tick older than the odometry. ------- *)
PublishMap ==
  /\ slam.status # "localization"
  /\ sent' = [sent EXCEPT !.map = {[run |-> slam.run, stamp |-> clock.now - 1]}]
  /\ UNCHANGED <<clock, slam, planner, path>>

Announce(run, status) ==
  /\ slam' = [run |-> run, status |-> status,
              since |-> IF run = slam.run THEN slam.since ELSE clock.now]
  /\ sent' = [sent EXCEPT !.status = {[run |-> run, status |-> status]}]
  /\ UNCHANGED <<clock, planner, path>>

(* A run converges after maps of its own, which have displaced any earlier one
   that was still on its way: the topic keeps its last message.               *)
Converges ==
  /\ slam.status = "mapping"
  /\ \A map \in sent.map : map.run = slam.run
  /\ Announce(slam.run, "mapping_converged")
Freezes == slam.status = "mapping_converged" /\ Announce(slam.run, "localization")

(* A run is asked for by hand: not twice in the time between two odometries.  *)
MayRestart == slam.run < MaxRun /\ slam.since < clock.now
StartMapping == MayRestart /\ Announce(slam.run + 1, "mapping")

LoadMap ==
  /\ MayRestart
  /\ slam' = [run |-> slam.run + 1, status |-> "localization", since |-> clock.now]
  /\ sent' = [map |-> {[run |-> slam.run + 1, stamp |-> clock.now]},
              status |-> {[run |-> slam.run + 1, status |-> "localization"]}]
  /\ UNCHANGED <<clock, planner, path>>

(* ---- The planner. ------------------------------------------------------- *)

(* receiveSlamMap: a map that is no newer than the last restart of mapping
   belongs to the run before it.                                              *)
ReceiveSlamMap ==
  \E map \in sent.map :
    /\ sent' = [sent EXCEPT !.map = {}]
    /\ planner' = IF map.stamp <= planner.floor THEN planner
                  ELSE [planner EXCEPT !.map = {map}]
    /\ UNCHANGED <<clock, slam, path>>

EnteringMapping(status) ==
  status = "mapping" /\ planner.status \notin {"", "mapping"}

(* A bug of this shape: the latched map is dropped, and nothing keeps a map
   that is still on its way from taking its place.                            *)
ReceiveSlamStatusUnfenced ==
  \E msg \in sent.status :
    /\ sent' = [sent EXCEPT !.status = {}]
    /\ planner' = IF EnteringMapping(msg.status)
         THEN [planner EXCEPT !.map = {}, !.status = msg.status, !.known = msg.run]
         ELSE [planner EXCEPT !.status = msg.status]
    /\ path' = IF EnteringMapping(msg.status) THEN {} ELSE path
    /\ UNCHANGED <<clock, slam>>

(* receiveSlamStatus: when mapping restarts the map is dropped, the path is
   invalidated, and maps up to the newest odometry are refused until SLAM
   localises.  known is history: the run this was.                            *)
ReceiveSlamStatus ==
  \E msg \in sent.status :
    /\ sent' = [sent EXCEPT !.status = {}]
    /\ planner' =
         CASE EnteringMapping(msg.status) ->
                [planner EXCEPT !.map = {}, !.floor = planner.odom,
                                !.status = msg.status, !.known = msg.run]
           [] msg.status = "localization" ->
                [planner EXCEPT !.floor = NoFloor, !.status = msg.status]
           [] OTHER -> [planner EXCEPT !.status = msg.status]
    /\ path' = IF EnteringMapping(msg.status) THEN {} ELSE path
    /\ UNCHANGED <<clock, slam>>

ReceiveSlamLiveCones ==
  /\ planner' = [planner EXCEPT !.live = {clock.now - 1}]
  /\ planner' # planner
  /\ UNCHANGED <<clock, slam, sent, path>>

(* The pose that live cones were seen from: the nearest odometry, if it is near
   enough to be no guess.                                                     *)
Apart(a, b) == IF a < b THEN b - a ELSE a - b
Nearest(history, stamp) ==
  CHOOSE h \in history : \A k \in history : Apart(h, stamp) <= Apart(k, stamp)
Anchor(history, live) ==
  {Nearest(history, l) : l \in {s \in live :
     \E h \in history : Apart(h, s) <= MaxStampGap}}

Recent(history) == IF Cardinality(history) > MaxHistory
                   THEN history \ {Min(history)} ELSE history

(* applyStraightLatch: a fitted line replaces the latch; when no line can be
   fitted the latched one is held as long as it can be driven, and otherwise
   the generic result stands.  fit, generic and holds are the builder's verdict
   on the cones of the moment.                                                *)
Planned(map, anchor, fit, generic, holds) ==
  CASE planner.straight /\ fit -> {[run |-> map.run, held |-> FALSE, anchor |-> anchor]}
    [] planner.straight /\ ~fit /\ planner.latch # {} /\ holds ->
         {[run |-> r, held |-> TRUE, anchor |-> {}] : r \in planner.latch}
    [] OTHER -> IF generic
                THEN {[run |-> map.run, held |-> FALSE, anchor |-> anchor]} ELSE {}
Latched(map, fit) == IF planner.straight /\ fit THEN {map.run} ELSE planner.latch

(* processSlamOdom, processSlamMap: every odometry sample plans on the latched
   map, and without one there is no path.                                     *)
ProcessSlamOdom ==
  /\ clock.odomDue
  /\ clock' = [clock EXCEPT !.odomDue = FALSE]
  /\ LET history == Recent(planner.history \cup {clock.now})
         odom == [planner EXCEPT !.odom = clock.now, !.history = history]
     IN IF planner.map = {} THEN planner' = odom /\ path' = {}
        ELSE \E map \in planner.map, fit, generic, holds \in BOOLEAN :
               /\ planner' = [odom EXCEPT !.latch = Latched(map, fit)]
               /\ path' = Planned(map, Anchor(history, planner.live), fit, generic, holds)
  /\ UNCHANGED <<slam, sent>>

Tick ==
  /\ clock.now < MaxNow /\ ~clock.odomDue
  /\ clock' = [now |-> clock.now + 1, odomDue |-> TRUE]
  /\ UNCHANGED <<slam, sent, planner, path>>

LocalInputsNext ==
  \/ PublishMap \/ Converges \/ Freezes \/ StartMapping \/ LoadMap
  \/ ReceiveSlamMap \/ ReceiveSlamStatus \/ ReceiveSlamLiveCones
  \/ ProcessSlamOdom \/ Tick

(* Once the planner knows that SLAM has begun another mapping run, it plans on
   no map of an earlier one, however late that map comes: its cones are in a
   frame that no longer exists.  (A line held for an acceleration run outlives
   the restart, and is not meant here.)                                       *)
PlansOnPresentMap == \A p \in path : ~p.held => p.run >= planner.known

(* Why: the planner has every map of an earlier run behind its floor, and the floor is
   given up only for a run that has converged, when no map of an earlier run is left on
   its way.  The status on its way is SLAM's own.                             *)
FencedInv ==
  /\ \A map \in planner.map : map.run >= planner.known
  /\ \A map \in sent.map : map.run < planner.known => map.stamp <= planner.floor
  /\ slam.status # "mapping" => \A map \in sent.map : map.run = slam.run
  /\ \A map \in sent.map : map.run < slam.run => map.stamp < slam.since
  /\ \A map \in sent.map : map.stamp < clock.now \/ map.stamp <= slam.since
  /\ \A msg \in sent.status : msg.run = slam.run /\ msg.status = slam.status

Maps == [run : Nat, stamp : Int]
Statuses == {"mapping", "mapping_converged", "localization"}
LocalTypes ==
  /\ clock \in [now : Nat, odomDue : BOOLEAN]
  /\ slam \in [run : Nat, status : Statuses, since : Nat] /\ slam.since <= clock.now
  /\ sent \in [map : SUBSET Maps, status : SUBSET [run : Nat, status : Statuses]]
  /\ DOMAIN planner = {"map", "status", "floor", "odom", "history", "live", "latch",
                       "known", "straight"}
  /\ planner.map \subseteq Maps /\ planner.floor \in Int
  /\ planner.known \in Nat /\ planner.known <= slam.run
  /\ planner.odom \in Nat /\ planner.odom >= clock.now - 1
  /\ ~clock.odomDue => planner.odom = clock.now

LocalInv == LocalTypes /\ FencedInv /\ PlansOnPresentMap
=============================================================================
