-------------------------- MODULE GlobalPathChain --------------------------
(***************************************************************************)
(* The global path from the planner to the three nodes that keep a copy of *)
(* it: the planning state machine, the waypoint publisher and the Frenet   *)
(* conversion.  The path and the heartbeat that vouches for it are two     *)
(* topics: a path waits as the latest one published, heartbeats queue, and *)
(* a node may serve either first.  One tick is a heartbeat period; what a  *)
(* tick leaves undone (a planner that stalls, a node that is slow, lost    *)
(* odometry) is a fault, and MaxFaults bounds them.                        *)
(***************************************************************************)
EXTENDS GlobalPathReadiness, GlobalPlanner, FrenetPath, Sequences

CONSTANTS
  QueueDepth,    \* KeepLast of /planning/global_path_valid, scaled down
  MaxFaults,     \* bound on the ticks that leave something undone
  Builds,        \* whether planner_node can build a path from the map
  ClcsBuilds     \* whether frenet_odom_node can build its converter

ASSUME PathChainAssumption ==
  /\ QueueDepth \in Nat \ {0} /\ MaxFaults \in Nat
  /\ Builds \subseteq BOOLEAN /\ ClcsBuilds \subseteq BOOLEAN
  /\ MaxPathLength = MaxMaps /\ GatePaths = 1..MaxMaps /\ FrenetPaths = 1..MaxMaps

Consumers == {"readiness", "gate", "frenet"}

VARIABLES
  planner,    \* planner_node
  readiness,  \* the state machine's global_path_readiness_; its len is the path
  gate,       \* wpnt_publisher's validity_gate_
  frenet,     \* frenet_odom_node's path and validity
  path,       \* path[c]: the path on its way to c, or 0
  beats,      \* beats[c]: the heartbeats on their way to c
  due,        \* what this tick still has to do
  faults,     \* ticks that left something undone
  late        \* since the last path was published a tick left something undone, or an
              \* older heartbeat was still on its way then

nodes == <<planner, readiness, gate, frenet>>
pathVars == <<nodes, path, beats, due, faults, late>>

\* A consumer's timer is due when it has a lapse to notice; at any other time it changes
\* nothing.
Duties ==
  {"heartbeat", "ego"}
    \cup {d \in {"stateTimer", "gateTimer", "frenetTimer"} :
            CASE d = "stateTimer"  -> RefreshValidity(readiness) # readiness
              [] d = "gateTimer"   -> AfterRead(gate) # gate
              [] d = "frenetTimer" -> FrenetInvalidateIfStale(frenet) # frenet}

ChainInit ==
  /\ planner \in PlannerInit /\ readiness = ReadinessInit
  /\ gate = GateInit /\ frenet = FrenetInit
  /\ path = [c \in Consumers |-> 0]
  /\ beats = [c \in Consumers |-> <<>>]
  /\ due = {} /\ faults = 0 /\ late = FALSE

-----------------------------------------------------------------------------
(* planner_node and its inputs.                                              *)

ConeMap ==
  /\ planner.cones < MaxMaps
  /\ planner' = OnConeMap(planner, TRUE)
  /\ UNCHANGED <<readiness, gate, frenet, path, beats, due, faults, late>>

\* SLAM localises on the map it froze; the state machine reads the same status.
Localize ==
  /\ planner.status # "localization"
  /\ planner' = OnPlannerStatus(planner, "localization")
  /\ readiness' = OnStatus(readiness, "localization")
  /\ UNCHANGED <<gate, frenet, path, beats, due, faults, late>>

EgoOdom ==
  /\ "ego" \in due /\ due' = due \ {"ego"}
  /\ planner' = OnPlannerOdom(planner)
  /\ UNCHANGED <<readiness, gate, frenet, path, beats, faults, late>>

\* KeepLast: the oldest of a full queue is dropped.
Enqueue(q, v) == IF Len(q) < QueueDepth THEN Append(q, v) ELSE Append(Tail(q), v)

PlannerHeartbeat(builds) ==
  /\ "heartbeat" \in due /\ due' = due \ {"heartbeat"}
  /\ LET b == Heartbeat(planner, builds) IN
       /\ planner' = b.planner
       /\ path' = IF b.path = 0 THEN path ELSE [c \in Consumers |-> b.path]
       /\ beats' = [c \in Consumers |-> Enqueue(beats[c], b.valid)]
       /\ late' = IF b.path = 0 THEN late ELSE \E c \in Consumers : beats[c] # <<>>
  /\ UNCHANGED <<readiness, gate, frenet, faults>>

-----------------------------------------------------------------------------
(* The consumers.                                                            *)

TakePath(c) ==
  /\ path[c] # 0
  /\ path' = [path EXCEPT ![c] = 0]
  /\ UNCHANGED <<planner, beats, due, faults, late>>

TakeBeat(c) ==
  /\ beats[c] # <<>>
  /\ beats' = [beats EXCEPT ![c] = Tail(@)]
  /\ UNCHANGED <<planner, path, due, faults, late>>

StatePath ==
  /\ TakePath("readiness")
  /\ readiness' = OnWaypoints(readiness, 1, path["readiness"])
  /\ UNCHANGED <<gate, frenet>>

StateValidity ==
  /\ TakeBeat("readiness")
  /\ readiness' = OnValidity(readiness, Head(beats["readiness"]))
  /\ UNCHANGED <<gate, frenet>>

GatePath ==
  /\ TakePath("gate")
  /\ gate' = OnSnapshot(gate, path["gate"])
  /\ UNCHANGED <<readiness, frenet>>

GateValidity ==
  /\ TakeBeat("gate")
  /\ gate' = OnGateValidity(gate, Head(beats["gate"]))
  /\ UNCHANGED <<readiness, frenet>>

FrenetWaypoints ==
  /\ TakePath("frenet")
  /\ \E builds \in ClcsBuilds :
       frenet' = OnFrenetWaypoints(frenet, path["frenet"], builds)
  /\ UNCHANGED <<readiness, gate>>

FrenetValidity ==
  /\ TakeBeat("frenet")
  /\ frenet' = OnFrenetValidity(frenet, Head(beats["frenet"]))
  /\ UNCHANGED <<readiness, gate>>

\* The state machine's 50 ms timer, as far as it touches the readiness.
StateTimer ==
  /\ "stateTimer" \in due /\ due' = due \ {"stateTimer"}
  /\ readiness' = RefreshValidity(readiness)
  /\ UNCHANGED <<planner, gate, frenet, path, beats, faults, late>>

\* onOdom and onTmpcTimer read the gate; the watchdog only expires it.
GateTimer ==
  /\ "gateTimer" \in due /\ due' = due \ {"gateTimer"}
  /\ gate' \in {AfterRead(gate), InvalidateIfStale(gate)}
  /\ UNCHANGED <<planner, readiness, frenet, path, beats, faults, late>>

\* validityWatchdogCallback; odomCallback expires the path the same way.
FrenetTimer ==
  /\ "frenetTimer" \in due /\ due' = due \ {"frenetTimer"}
  /\ frenet' = FrenetInvalidateIfStale(frenet)
  /\ UNCHANGED <<planner, readiness, gate, path, beats, faults, late>>

-----------------------------------------------------------------------------

AllDone ==
  due = {} /\ \A c \in Consumers : path[c] = 0 /\ beats[c] = <<>>

\* A tick may find work undone, at the price of a fault.
Elapse ==
  /\ AllDone \/ faults < MaxFaults
  /\ faults' = IF AllDone THEN faults ELSE faults + 1
  /\ planner' = AgePlanner(planner)
  /\ readiness' = AgeReadiness(readiness)
  /\ gate' = AgeGate(gate)
  /\ frenet' = AgeFrenet(frenet)
  /\ due' = Duties'
  /\ late' = (late \/ ~AllDone)
  /\ UNCHANGED <<path, beats>>

Consume ==
  \/ StatePath \/ StateValidity \/ StateTimer
  \/ GatePath \/ GateValidity \/ GateTimer
  \/ FrenetWaypoints \/ FrenetValidity \/ FrenetTimer

ChainNext ==
  \/ ConeMap \/ Localize \/ EgoOdom
  \/ \E builds \in Builds : PlannerHeartbeat(builds)
  \/ Consume
  \/ Elapse

ChainSpec == ChainInit /\ [][ChainNext]_pathVars

\* SLAM localises and delivers its maps, which can be built sometimes; every node keeps
\* spinning.
ChainFairness ==
  /\ WF_pathVars(ConeMap) /\ WF_pathVars(Localize)
  /\ WF_pathVars(EgoOdom) /\ SF_pathVars(PlannerHeartbeat(TRUE))
  /\ WF_pathVars(Consume) /\ WF_pathVars(Elapse)

FairChain == ChainSpec /\ ChainFairness

-----------------------------------------------------------------------------
(* What a node would use of the path now.                                    *)

Usable == [c \in Consumers |->
  CASE c = "readiness" -> IF Ready(readiness) THEN readiness.len ELSE 0
    [] c = "gate"      -> ReadForOdom(gate)
    [] c = "frenet"    -> FrenetReference(frenet)]

\* No node works on an older path than another for longer than the newer one is on its
\* way: the arc length of one path is never combined for good with the points of another
\* (onOdom of wpnt_publisher cuts its window with an s frenet_odom_node measured).  Only
\* a path CLCS could not build leaves frenet_odom_node behind.
NoStalePath ==
  \A c \in Consumers :
    Usable[c] # 0 /\ path[c] = 0 /\ (c = "frenet" => ~frenet.failed)
      => Usable[c] = planner.published

\* A path published after any lapse of the heartbeat is used by the waypoint publisher
\* as soon as both messages are in, whichever came first: the gate keeps it pending.
Settled == AllDone /\ ~late /\ planner.valid

GateSwitches == Settled => Usable["gate"] = planner.published

\* The same of the Frenet conversion.
FrenetSwitches == Settled => Usable["frenet"] = planner.published

\* Each node keeps the episode protocol, whatever it reads when.
GateEpisode ==
  INSTANCE PathEpisode WITH Paths <- 1..MaxMaps,
    held <- IF Lapsed(gate) THEN 0 ELSE IF gate.path # 0 THEN gate.path
            ELSE IF Activatable(gate) THEN gate.pending ELSE 0,
    live <- ValidityFresh(gate)

FrenetEpisode ==
  INSTANCE PathEpisode WITH Paths <- 1..MaxMaps,
    held <- IF ~FrenetLapsed(frenet) /\ frenet.accepted THEN frenet.converter ELSE 0,
    live <- frenet.valid /\ frenet.age <= FrenetTimeout

StateEpisode ==
  INSTANCE PathEpisode WITH Paths <- 1..MaxMaps,
    held <- IF readiness.has /\ readiness.accGen > readiness.invGen
               /\ ~(readiness.hasValid /\ readiness.valid /\ readiness.validAge > ValidTimeout)
            THEN readiness.len ELSE 0,
    live <- HasFreshValidity(readiness)

ConsumersKeepEpisodes ==
  GateEpisode!EpisodeSpec /\ FrenetEpisode!EpisodeSpec /\ StateEpisode!EpisodeSpec

\* Without faults the latest path reaches every node for good, in whatever order the two
\* topics are served at start-up.
PathReachesAll ==
  [](faults = 0) =>
    <>[](AllDone => \A c \in Consumers :
                      Usable[c] = MaxMaps \/ (c = "frenet" /\ frenet.failed))

=============================================================================
