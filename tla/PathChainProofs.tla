--------------------------- MODULE PathChainProofs ---------------------------
(***************************************************************************)
(* Proofs about the global path on its way to its consumers, for every     *)
(* timeout, queue depth and number of maps and faults: no consumer works   *)
(* on an older path than the others, the waypoint publisher switches to a  *)
(* path however its two messages are ordered, and each consumer keeps the  *)
(* episode protocol of PathEpisode.                                        *)
(***************************************************************************)
EXTENDS GlobalPathChain, TLAPS

ChainTypeOK ==
  /\ planner \in PlannerType /\ readiness \in ReadinessType
  /\ gate \in GateType /\ frenet \in FrenetType
  /\ path \in [Consumers -> 0..MaxMaps]
  /\ beats \in [Consumers -> Seq(BOOLEAN)]
  /\ faults \in Nat /\ late \in BOOLEAN

\* What a consumer holds is the path last published, unless that one still waits for it;
\* CLCS leaves frenet_odom_node with an older one only when it fails.
HoldsLatest ==
  /\ \A c \in Consumers : path[c] # 0 => path[c] = planner.published
  /\ path["readiness"] = 0 /\ readiness.has => readiness.len = planner.published
  /\ path["gate"] = 0 => {gate.path, gate.pending} \subseteq {0, planner.published}
  /\ frenet.converter = frenet.raw
  /\ path["frenet"] = 0 /\ ~frenet.failed => frenet.converter \in {0, planner.published}

\* The books of a consumer: the gate holds one path, live or pending, and a snapshot the
\* state machine accepts is newer than the last invalidation.
BooksInv ==
  /\ gate.path = 0 \/ gate.pending = 0
  /\ readiness.invGen <= readiness.msgGen

\* A gate that uses the path P, or will with the next true heartbeat.
GateReady(g, P) ==
  \/ ValidityFresh(g) /\ g.path = P
  \/ Activatable(g) /\ ~Lapsed(g)

\* While nothing is late, one heartbeat at most is on its way to the gate.  Until the
\* gate has both the path and the heartbeat it is either fresh or holds the path pending;
\* after that it stays fresh until the next heartbeat is served.
SwitchInv ==
  /\ planner.valid => planner.published # 0
  /\ ~late /\ planner.valid =>
       /\ beats["gate"] \in {<<>>, <<TRUE>>}
       /\ "heartbeat" \in due => path["gate"] = 0 /\ beats["gate"] = <<>>
       /\ beats["gate"] = <<>> =>
            ValidityFresh(gate) /\ ("heartbeat" \in due \/ gate.age = 0)
       /\ path["gate"] = 0 => GateReady(gate, planner.published)

-----------------------------------------------------------------------------
(* The operators of the nodes.                                               *)

\* An age that grows stays within its cap, and once past a timeout it stays past it.
LEMMA OlderBounds ==
  ASSUME NEW cap \in Nat, NEW age \in 0..cap
  PROVE  /\ Older(age, cap) \in 0..cap
         /\ Older(age, cap) >= age
         /\ age = 0 /\ cap > 0 => Older(age, cap) = 1
  BY DEF Older

\* The gate's operators keep its types, and never hold a path and a pending one.
LEMMA GateOps ==
  ASSUME NEW g \in GateType
  PROVE  /\ AgeGate(g) \in GateType
         /\ GateInvalidate(g) \in GateType
         /\ InvalidateIfStale(g) \in GateType
         /\ ActivatePending(g) \in GateType
         /\ AfterRead(g) \in GateType
         /\ \A p \in GatePaths : OnSnapshot(g, p) \in GateType
         /\ \A v \in BOOLEAN : OnGateValidity(g, v) \in GateType
<1>0. GateTimeout + 1 \in Nat /\ 0 \in 0..(GateTimeout + 1)
  BY GateAssumption
<1>1. AgeGate(g) \in GateType
  <2>1. g.age \in 0..(GateTimeout + 1)
    BY DEF GateType
  <2>2. Older(g.age, GateTimeout + 1) \in 0..(GateTimeout + 1)
    BY <1>0, <2>1, OlderBounds
  <2>. QED BY <2>2 DEF AgeGate, GateType
<1>2. ASSUME NEW h \in GateType PROVE GateInvalidate(h) \in GateType
  <2>1. [h EXCEPT !.valid = FALSE] \in GateType
    BY DEF GateType
  <2>2. h.gen + 1 \in Nat
    BY DEF GateType
  <2>3. [h EXCEPT !.path = 0, !.pending = 0, !.valid = FALSE, !.hasInvalidation = TRUE,
                  !.gen = h.gen + 1, !.pendingGen = 0] \in GateType
    BY <2>2 DEF GateType
  <2>. QED BY <2>1, <2>3 DEF GateInvalidate
<1>3. \A h \in GateType : InvalidateIfStale(h) \in GateType
  BY <1>2 DEF InvalidateIfStale
<1>4. \A h \in GateType : ActivatePending(h) \in GateType
  BY DEF ActivatePending, GateType
<1>5. AfterRead(g) \in GateType
  BY <1>3, <1>4 DEF AfterRead
<1>6. ASSUME NEW p \in GatePaths PROVE OnSnapshot(g, p) \in GateType
  <2>1. InvalidateIfStale(g) \in GateType
    BY <1>3
  <2>2. \A h \in GateType :
          /\ [h EXCEPT !.path = p, !.pending = 0, !.pendingGen = 0] \in GateType
          /\ [h EXCEPT !.pending = p, !.pendingGen = h.gen, !.path = 0] \in GateType
    BY DEF GateType
  <2>. QED BY <2>1, <2>2 DEF OnSnapshot
<1>7. ASSUME NEW v \in BOOLEAN PROVE OnGateValidity(g, v) \in GateType
  <2>1. \A h \in GateType :
          /\ [h EXCEPT !.has = TRUE, !.valid = TRUE, !.age = 0] \in GateType
          /\ [h EXCEPT !.has = TRUE, !.age = 0] \in GateType
    BY <1>0 DEF GateType
  <2>. QED BY <1>2, <1>3, <1>4, <2>1 DEF OnGateValidity
<1>. QED BY <1>1, <1>2, <1>3, <1>4, <1>5, <1>6, <1>7

\* The same of frenet_odom_node, whose converter is always the one of its raw waypoints.
LEMMA FrenetOps ==
  ASSUME NEW f \in FrenetType
  PROVE  /\ AgeFrenet(f) \in FrenetType
         /\ FrenetInvalidateIfStale(f) \in FrenetType
         /\ \A v \in BOOLEAN : OnFrenetValidity(f, v) \in FrenetType
         /\ \A p \in FrenetPaths, builds \in BOOLEAN :
               OnFrenetWaypoints(f, p, builds) \in FrenetType
<1>0. FrenetTimeout + 1 \in Nat /\ 0 \in 0..(FrenetTimeout + 1)
  BY FrenetAssumption
<1>1. AgeFrenet(f) \in FrenetType
  <2>1. f.age \in 0..(FrenetTimeout + 1)
    BY DEF FrenetType
  <2>2. Older(f.age, FrenetTimeout + 1) \in 0..(FrenetTimeout + 1)
    BY <1>0, <2>1, OlderBounds
  <2>. QED BY <2>2 DEF AgeFrenet, FrenetType
<1>2. \A h \in FrenetType : FrenetInvalidate(h) \in FrenetType
  BY DEF FrenetInvalidate, FrenetType
<1>3. FrenetInvalidateIfStale(f) \in FrenetType
  BY <1>2 DEF FrenetInvalidateIfStale
<1>4. ASSUME NEW v \in BOOLEAN PROVE OnFrenetValidity(f, v) \in FrenetType
  <2>1. \A h \in FrenetType : [h EXCEPT !.valid = TRUE, !.age = 0] \in FrenetType
    BY <1>0 DEF FrenetType
  <2>. QED BY <1>2, <1>3, <2>1 DEF OnFrenetValidity
<1>5. ASSUME NEW p \in FrenetPaths, NEW builds \in BOOLEAN
      PROVE  OnFrenetWaypoints(f, p, builds) \in FrenetType
  BY DEF OnFrenetWaypoints, FrenetType
<1>. QED BY <1>1, <1>3, <1>4, <1>5

\* And of the state machine's books.
LEMMA ReadinessOps ==
  ASSUME NEW r \in ReadinessType
  PROVE  /\ AgeReadiness(r) \in ReadinessType
         /\ RefreshValidity(r) \in ReadinessType
         /\ OnStatus(r, "localization") \in ReadinessType
         /\ \A v \in BOOLEAN : OnValidity(r, v) \in ReadinessType
         /\ \A p \in 0..MaxPathLength : OnWaypoints(r, 1, p) \in ReadinessType
<1>0. ValidTimeout + 1 \in Nat /\ 0 \in 0..(ValidTimeout + 1) /\ 0 \in 0..MaxPathLength
  BY ReadinessAssumption
<1>1. AgeReadiness(r) \in ReadinessType
  <2>1. r.validAge \in 0..(ValidTimeout + 1)
    BY DEF ReadinessType
  <2>2. Older(r.validAge, ValidTimeout + 1) \in 0..(ValidTimeout + 1)
    BY <1>0, <2>1, OlderBounds
  <2>. QED BY <2>2 DEF AgeReadiness, ReadinessType
<1>2. \A h \in ReadinessType : Invalidate(h) \in ReadinessType
  BY <1>0 DEF Invalidate, ReadinessType
<1>3. RefreshValidity(r) \in ReadinessType
  <2>1. [r EXCEPT !.valid = FALSE] \in ReadinessType
    BY DEF ReadinessType
  <2>. QED BY <1>2, <2>1 DEF RefreshValidity
<1>4. ASSUME NEW v \in BOOLEAN PROVE OnValidity(r, v) \in ReadinessType
  <2>1. \A h \in ReadinessType :
          [h EXCEPT !.hasValid = TRUE, !.valid = v, !.validAge = 0] \in ReadinessType
    BY <1>0 DEF ReadinessType
  <2>. QED BY <1>2, <1>3, <2>1 DEF OnValidity
<1>5. ASSUME NEW p \in 0..MaxPathLength PROVE OnWaypoints(r, 1, p) \in ReadinessType
  <2>1. r.msgGen + 1 \in Nat
    BY DEF ReadinessType
  <2>2. [r EXCEPT !.msgGen = r.msgGen + 1] \in ReadinessType
    BY <2>1 DEF ReadinessType
  <2>3. \A h \in ReadinessType :
          [h EXCEPT !.has = TRUE, !.accGen = h.msgGen, !.len = p] \in ReadinessType
    BY DEF ReadinessType
  <2>. QED BY <2>2, <2>3 DEF OnWaypoints
<1>6. OnStatus(r, "localization") \in ReadinessType
  BY DEF OnStatus, ReadinessType, SlamStatus
<1>. QED BY <1>1, <1>3, <1>4, <1>5, <1>6

\* The queue of heartbeats keeps its type; one into an empty queue is all there is.
LEMMA EnqueueOps ==
  ASSUME NEW q \in Seq(BOOLEAN), NEW v \in BOOLEAN
  PROVE  /\ Enqueue(q, v) \in Seq(BOOLEAN)
         /\ q = <<>> => Enqueue(q, v) = <<v>>
<1>1. QueueDepth \in Nat \ {0}
  BY PathChainAssumption
<1>2. Len(q) < QueueDepth => Enqueue(q, v) = Append(q, v) /\ Append(q, v) \in Seq(BOOLEAN)
  BY DEF Enqueue
<1>3. ASSUME ~(Len(q) < QueueDepth) PROVE Enqueue(q, v) \in Seq(BOOLEAN) /\ q # <<>>
  <2>1. q # <<>>
    BY <1>1, <1>3
  <2>2. Tail(q) \in Seq(BOOLEAN)
    BY <2>1
  <2>. QED BY <1>3, <2>1, <2>2 DEF Enqueue
<1>4. q = <<>> => Append(q, v) = <<v>>
  OBVIOUS
<1>. QED BY <1>2, <1>3, <1>4

\* A heartbeat publishes the path of a new map, or none and keeps the one published; what
\* it says is what the planner then holds, and only a new path makes an invalid one valid.
LEMMA HeartbeatOps ==
  ASSUME NEW p \in PlannerType, NEW builds \in BOOLEAN
  PROVE  /\ Heartbeat(p, builds).planner \in PlannerType
         /\ Heartbeat(p, builds).path \in 0..MaxMaps
         /\ Heartbeat(p, builds).valid = Heartbeat(p, builds).planner.valid
         /\ Heartbeat(p, builds).path = 0 =>
              /\ Heartbeat(p, builds).planner.published = p.published
              /\ Heartbeat(p, builds).planner.valid => p.valid
         /\ Heartbeat(p, builds).path # 0 =>
              Heartbeat(p, builds).planner.published = Heartbeat(p, builds).path
<1>0. /\ p.hold \in BOOLEAN /\ p.valid \in BOOLEAN /\ p.cones \in 0..MaxMaps
      /\ p.published \in 0..MaxMaps
  BY PlannerAssumption DEF PlannerType
<1>. DEFINE H == Heartbeat(p, builds)
<1>1. ASSUME H = Refused(p)
      PROVE  /\ H.planner \in PlannerType /\ H.path = 0 /\ H.valid = H.planner.valid
             /\ H.planner.published = p.published /\ (H.planner.valid => p.valid)
  <2>. DEFINE can == CanHoldLastValidPath(p)
  <2>1. can \in BOOLEAN /\ (can => p.valid)
    BY <1>0 DEF CanHoldLastValidPath
  <2>2. /\ [p EXCEPT !.valid = can] \in PlannerType
        /\ [p EXCEPT !.valid = can].published = p.published
        /\ [p EXCEPT !.valid = can].valid = can
    BY <2>1 DEF PlannerType
  <2>3. H.planner = [p EXCEPT !.valid = can] /\ H.path = 0 /\ H.valid = can
    BY <1>1 DEF Refused
  <2>. HIDE DEF can, H
  <2>. QED BY <2>1, <2>2, <2>3
<1>2. ASSUME InputsAllowPlanning(p) /\ UpToDate(p)
      PROVE  /\ H.planner \in PlannerType /\ H.path = 0 /\ H.valid = H.planner.valid
             /\ H.planner.published = p.published /\ (H.planner.valid => p.valid)
  <2>1. H = [planner |-> p, path |-> 0, valid |-> TRUE] /\ p.valid
    BY <1>2 DEF Heartbeat, UpToDate
  <2>2. H.planner = p /\ H.path = 0 /\ H.valid = TRUE
    BY <2>1
  <2>. HIDE DEF H
  <2>3. H.valid = H.planner.valid
    <3>1. p.valid = TRUE
      BY <1>0, <2>1
    <3>. QED BY <2>2, <3>1
  <2>. QED BY <2>1, <2>2, <2>3
<1>3. \/ H = Refused(p)
      \/ InputsAllowPlanning(p) /\ UpToDate(p)
      \/ InputsAllowPlanning(p) /\ ~UpToDate(p) /\ builds
  BY DEF Heartbeat
<1>4. ASSUME InputsAllowPlanning(p) /\ ~UpToDate(p) /\ builds
      PROVE  /\ H.planner \in PlannerType /\ H.path \in 0..MaxMaps /\ H.path # 0
             /\ H.valid = H.planner.valid /\ H.planner.published = H.path
  <2>1. /\ H.planner = [p EXCEPT !.valid = TRUE, !.published = p.cones]
        /\ H.path = p.cones /\ H.valid = TRUE
    BY <1>4 DEF Heartbeat
  <2>2. p.cones # 0
    BY <1>0, <1>4 DEF InputsAllowPlanning
  <2>. HIDE DEF H
  <2>3. /\ [p EXCEPT !.valid = TRUE, !.published = p.cones] \in PlannerType
        /\ [p EXCEPT !.valid = TRUE, !.published = p.cones].valid = TRUE
        /\ [p EXCEPT !.valid = TRUE, !.published = p.cones].published = p.cones
    BY <1>0 DEF PlannerType
  <2>. QED BY <1>0, <2>1, <2>2, <2>3
<1>5. 0 \in 0..MaxMaps
  BY PlannerAssumption
<1>. HIDE DEF H
<1>6. /\ H.planner \in PlannerType /\ H.path \in 0..MaxMaps /\ H.valid = H.planner.valid
      /\ H.path = 0 => H.planner.published = p.published /\ (H.planner.valid => p.valid)
      /\ H.path # 0 => H.planner.published = H.path
  BY <1>1, <1>2, <1>3, <1>4, <1>5
<1>. QED BY <1>6 DEF H

-----------------------------------------------------------------------------
(* Types.                                                                    *)

\* The paths of the planner's maps are those the gate and the conversion may be sent.
LEMMA PathSets ==
  /\ MaxMaps \in Nat /\ MaxPathLength = MaxMaps
  /\ \A p \in 0..MaxMaps : p # 0 => p \in GatePaths /\ p \in FrenetPaths /\ p \in 1..MaxMaps
  BY PathChainAssumption, PlannerAssumption

\* Taking a message leaves the rest of its channel as it was.
LEMMA Takes ==
  ASSUME ChainTypeOK, NEW c \in Consumers
  PROVE  /\ TakePath(c) =>
              /\ path' \in [Consumers -> 0..MaxMaps] /\ path'[c] = 0
              /\ \A d \in Consumers : d # c => path'[d] = path[d]
              /\ path[c] \in 1..MaxMaps
         /\ TakeBeat(c) =>
              /\ beats' \in [Consumers -> Seq(BOOLEAN)] /\ beats'[c] = Tail(beats[c])
              /\ \A d \in Consumers : d # c => beats'[d] = beats[d]
              /\ Head(beats[c]) \in BOOLEAN
<1>1. ASSUME TakePath(c)
      PROVE  /\ path' \in [Consumers -> 0..MaxMaps] /\ path'[c] = 0
             /\ \A d \in Consumers : d # c => path'[d] = path[d]
             /\ path[c] \in 1..MaxMaps
  BY <1>1, PathSets DEF TakePath, ChainTypeOK
<1>2. ASSUME TakeBeat(c)
      PROVE  /\ beats' \in [Consumers -> Seq(BOOLEAN)] /\ beats'[c] = Tail(beats[c])
             /\ \A d \in Consumers : d # c => beats'[d] = beats[d]
             /\ Head(beats[c]) \in BOOLEAN
  <2>1. beats[c] \in Seq(BOOLEAN) /\ beats[c] # <<>>
    BY <1>2 DEF TakeBeat, ChainTypeOK
  <2>2. \A q \in Seq(BOOLEAN) : q # <<>> => Tail(q) \in Seq(BOOLEAN) /\ Head(q) \in BOOLEAN
    OBVIOUS
  <2>3. beats' = [beats EXCEPT ![c] = Tail(beats[c])]
    BY <1>2 DEF TakeBeat
  <2>. QED BY <2>1, <2>2, <2>3 DEF ChainTypeOK
<1>. QED BY <1>1, <1>2

LEMMA InitTyped == ChainInit => ChainTypeOK
<1>. SUFFICES ASSUME ChainInit PROVE ChainTypeOK
  OBVIOUS
<1>1. planner \in PlannerType
  <2>1. planner \in PlannerInit /\ 0 \in 0..MaxMaps /\ OdomTimeout + 1 \in 0..(OdomTimeout + 1)
    BY PlannerAssumption DEF ChainInit
  <2>. QED BY <2>1 DEF PlannerInit, PlannerType
<1>2. readiness \in ReadinessType
  BY ReadinessAssumption DEF ChainInit, ReadinessInit, ReadinessType, SlamStatus
<1>3. gate \in GateType /\ frenet \in FrenetType
  BY GateAssumption, FrenetAssumption
  DEF ChainInit, GateInit, GateType, FrenetInit, FrenetType
<1>4. path \in [Consumers -> 0..MaxMaps] /\ beats \in [Consumers -> Seq(BOOLEAN)]
  BY PathSets DEF ChainInit
<1>. QED BY <1>1, <1>2, <1>3, <1>4 DEF ChainTypeOK, ChainInit

LEMMA TypeStep ==
  ASSUME ChainTypeOK, [ChainNext]_pathVars
  PROVE  ChainTypeOK'
<1>0. {"readiness", "gate", "frenet"} = Consumers
  BY DEF Consumers
<1>1. CASE ConeMap
  <2>1. planner' \in PlannerType
    <3>1. planner' = [planner EXCEPT !.cones = planner.cones + 1] /\ planner.cones < MaxMaps
      BY <1>1 DEF ConeMap, OnConeMap
    <3>2. planner \in PlannerType /\ planner.cones \in 0..MaxMaps /\ MaxMaps \in Nat
      BY PlannerAssumption DEF PlannerType, ChainTypeOK
    <3>3. planner.cones + 1 \in 0..MaxMaps
      BY <3>1, <3>2
    <3>. QED BY <3>1, <3>2, <3>3 DEF PlannerType
  <2>. QED BY <1>1, <2>1 DEF ConeMap, ChainTypeOK
<1>2. CASE Localize
  <2>1. planner' \in PlannerType
    <3>1. planner' = [planner EXCEPT !.status = "localization"] /\ planner \in PlannerType
      BY <1>2 DEF Localize, OnPlannerStatus, ChainTypeOK
    <3>. QED BY <3>1 DEF PlannerType
  <2>. QED BY <1>2, <2>1, ReadinessOps DEF Localize, ChainTypeOK
<1>3. CASE EgoOdom
  <2>1. planner' \in PlannerType
    <3>1. planner' = [planner EXCEPT !.odomAge = 0] /\ planner \in PlannerType
      BY <1>3 DEF EgoOdom, OnPlannerOdom, ChainTypeOK
    <3>2. 0 \in 0..(OdomTimeout + 1)
      BY PlannerAssumption
    <3>. QED BY <3>1, <3>2 DEF PlannerType
  <2>. QED BY <1>3, <2>1 DEF EgoOdom, ChainTypeOK
<1>4. ASSUME NEW builds \in Builds, PlannerHeartbeat(builds) PROVE ChainTypeOK'
  <2>. DEFINE b == Heartbeat(planner, builds)
  <2>0. builds \in BOOLEAN
    BY PathChainAssumption
  <2>1. b.planner \in PlannerType /\ b.path \in 0..MaxMaps /\ b.valid \in BOOLEAN
    <3>1. b.planner \in PlannerType /\ b.path \in 0..MaxMaps /\ b.valid = b.planner.valid
      BY <2>0, HeartbeatOps DEF ChainTypeOK
    <3>. QED BY <3>1 DEF PlannerType
  <2>2. /\ planner' = b.planner
        /\ path' = IF b.path = 0 THEN path ELSE [c \in Consumers |-> b.path]
        /\ beats' = [c \in Consumers |-> Enqueue(beats[c], b.valid)]
        /\ late' = IF b.path = 0 THEN late ELSE \E c \in Consumers : beats[c] # <<>>
        /\ UNCHANGED <<readiness, gate, frenet, faults>>
    BY <1>4 DEF PlannerHeartbeat
  <2>. HIDE DEF b
  <2>3. path' \in [Consumers -> 0..MaxMaps] /\ late' \in BOOLEAN
    BY <2>1, <2>2 DEF ChainTypeOK
  <2>4. beats' \in [Consumers -> Seq(BOOLEAN)]
    BY <2>1, <2>2, EnqueueOps DEF ChainTypeOK
  <2>. QED BY <2>1, <2>2, <2>3, <2>4 DEF ChainTypeOK
<1>5. CASE StatePath
  BY <1>0, <1>5, Takes, PathSets, ReadinessOps DEF StatePath, TakePath, ChainTypeOK
<1>6. CASE StateValidity
  BY <1>0, <1>6, Takes, ReadinessOps DEF StateValidity, TakeBeat, ChainTypeOK
<1>7. CASE StateTimer
  BY <1>7, ReadinessOps DEF StateTimer, ChainTypeOK
<1>8. CASE GatePath
  BY <1>0, <1>8, Takes, PathSets, GateOps DEF GatePath, TakePath, ChainTypeOK
<1>9. CASE GateValidity
  BY <1>0, <1>9, Takes, GateOps DEF GateValidity, TakeBeat, ChainTypeOK
<1>10. CASE GateTimer
  BY <1>10, GateOps DEF GateTimer, ChainTypeOK
<1>11. CASE FrenetWaypoints
  <2>1. PICK builds \in ClcsBuilds : frenet' = OnFrenetWaypoints(frenet, path["frenet"], builds)
    BY <1>11 DEF FrenetWaypoints
  <2>2. builds \in BOOLEAN
    BY PathChainAssumption
  <2>. QED BY <1>0, <1>11, <2>1, <2>2, Takes, PathSets, FrenetOps
       DEF FrenetWaypoints, TakePath, ChainTypeOK
<1>12. CASE FrenetValidity
  BY <1>0, <1>12, Takes, FrenetOps DEF FrenetValidity, TakeBeat, ChainTypeOK
<1>13. CASE FrenetTimer
  BY <1>13, FrenetOps DEF FrenetTimer, ChainTypeOK
<1>14. CASE Elapse
  <2>1. AgePlanner(planner) \in PlannerType
    <3>1. planner.odomAge \in 0..(OdomTimeout + 1) /\ OdomTimeout + 1 \in Nat
      BY PlannerAssumption DEF PlannerType, ChainTypeOK
    <3>2. Older(planner.odomAge, OdomTimeout + 1) \in 0..(OdomTimeout + 1)
      BY <3>1, OlderBounds
    <3>. QED BY <3>2 DEF AgePlanner, PlannerType, ChainTypeOK
  <2>2. faults' \in Nat /\ late' \in BOOLEAN
    BY <1>14 DEF Elapse, ChainTypeOK
  <2>. QED BY <1>14, <2>1, <2>2, GateOps, FrenetOps, ReadinessOps DEF Elapse, ChainTypeOK
<1>15. CASE UNCHANGED pathVars
  BY <1>15 DEF pathVars, nodes, ChainTypeOK
<1>. QED BY <1>1, <1>2, <1>3, <1>4, <1>5, <1>6, <1>7, <1>8, <1>9, <1>10, <1>11, <1>12,
            <1>13, <1>14, <1>15 DEF ChainNext, Consume

-----------------------------------------------------------------------------
(* The consumers' books.                                                     *)

\* A gate that holds no path but P, and not both live and pending.
HoldsAtMost(g, P) ==
  /\ g.path \in {0, P} /\ g.pending \in {0, P}
  /\ g.path = 0 \/ g.pending = 0

\* Nothing but a snapshot gives the gate a path it did not hold, and a snapshot leaves it
\* no other; it never holds a path and a pending one.
LEMMA GateHolds ==
  ASSUME NEW g \in GateType, NEW P, g.path \in {0, P}, g.pending \in {0, P},
         g.path = 0 \/ g.pending = 0
  PROVE  /\ HoldsAtMost(AgeGate(g), P) /\ HoldsAtMost(InvalidateIfStale(g), P)
         /\ HoldsAtMost(AfterRead(g), P)
         /\ \A v \in BOOLEAN : HoldsAtMost(OnGateValidity(g, v), P)
<1>0. HoldsAtMost(g, P) /\ 0 \in 0..(GateTimeout + 1)
  BY GateAssumption DEF HoldsAtMost
<1>1. HoldsAtMost(AgeGate(g), P)
  BY <1>0 DEF AgeGate, GateType, HoldsAtMost
<1>2. ASSUME NEW h \in GateType, HoldsAtMost(h, P) PROVE HoldsAtMost(GateInvalidate(h), P)
  BY <1>2 DEF GateInvalidate, GateType, HoldsAtMost
<1>3. ASSUME NEW h \in GateType, HoldsAtMost(h, P) PROVE HoldsAtMost(InvalidateIfStale(h), P)
  BY <1>2, <1>3 DEF InvalidateIfStale
<1>4. ASSUME NEW h \in GateType, HoldsAtMost(h, P) PROVE HoldsAtMost(ActivatePending(h), P)
  BY <1>4 DEF ActivatePending, GateType, HoldsAtMost
<1>5. HoldsAtMost(InvalidateIfStale(g), P) /\ InvalidateIfStale(g) \in GateType
  BY <1>0, <1>3, GateOps
<1>6. HoldsAtMost(AfterRead(g), P)
  BY <1>4, <1>5 DEF AfterRead
<1>7. HoldsAtMost(OnGateValidity(g, TRUE), P)
  <2>1. ASSUME NEW h \in GateType, HoldsAtMost(h, P)
        PROVE  /\ [h EXCEPT !.has = TRUE, !.valid = TRUE, !.age = 0] \in GateType
               /\ HoldsAtMost([h EXCEPT !.has = TRUE, !.valid = TRUE, !.age = 0], P)
    <3>1. [h EXCEPT !.has = TRUE, !.valid = TRUE, !.age = 0] \in GateType
      BY <1>0 DEF GateType
    <3>. QED BY <2>1, <3>1 DEF GateType, HoldsAtMost
  <2>. QED BY <1>4, <1>5, <2>1 DEF OnGateValidity
<1>8. HoldsAtMost(OnGateValidity(g, FALSE), P)
  <2>1. [g EXCEPT !.has = TRUE, !.age = 0] \in GateType
    BY <1>0 DEF GateType
  <2>2. HoldsAtMost([g EXCEPT !.has = TRUE, !.age = 0], P)
    BY <1>0 DEF GateType, HoldsAtMost
  <2>. QED BY <1>2, <2>1, <2>2 DEF OnGateValidity
<1>9. \A v \in BOOLEAN : v = TRUE \/ v = FALSE
  OBVIOUS
<1>. QED BY <1>1, <1>5, <1>6, <1>7, <1>8, <1>9

\* A gate that never held both goes on so.
LEMMA GateHoldsOne ==
  ASSUME NEW g \in GateType, g.path = 0 \/ g.pending = 0
  PROVE  LET one(h) == h.path = 0 \/ h.pending = 0 IN
         /\ one(AgeGate(g)) /\ one(InvalidateIfStale(g)) /\ one(AfterRead(g))
         /\ \A v \in BOOLEAN : one(OnGateValidity(g, v))
<1>1. CASE g.path = 0
  <2>1. g.path \in {0, g.pending} /\ g.pending \in {0, g.pending}
    BY <1>1
  <2>. QED BY <1>1, <2>1, GateHolds DEF HoldsAtMost
<1>2. CASE g.pending = 0
  <2>1. g.path \in {0, g.path} /\ g.pending \in {0, g.path}
    BY <1>2
  <2>. QED BY <1>2, <2>1, GateHolds DEF HoldsAtMost
<1>. QED BY <1>1, <1>2

LEMMA GateSnapshot ==
  ASSUME NEW g \in GateType, NEW p \in GatePaths
  PROVE  /\ ValidityFresh(g) => OnSnapshot(g, p).path = p /\ OnSnapshot(g, p).pending = 0
         /\ ~ValidityFresh(g) => /\ OnSnapshot(g, p).path = 0 /\ OnSnapshot(g, p).pending = p
                                 /\ Activatable(OnSnapshot(g, p)) /\ ~Lapsed(OnSnapshot(g, p))
         /\ ValidityFresh(OnSnapshot(g, p)) = ValidityFresh(g)
         /\ OnSnapshot(g, p).age = g.age
<1>. DEFINE n == InvalidateIfStale(g)
<1>0. n \in GateType /\ g.has \in BOOLEAN /\ g.valid \in BOOLEAN /\ p # 0
  BY GateOps, GateAssumption DEF GateType
<1>1. CASE ValidityFresh(g)
  <2>1. n = g
    BY <1>1 DEF InvalidateIfStale, Lapsed
  <2>2. OnSnapshot(g, p) = [g EXCEPT !.path = p, !.pending = 0, !.pendingGen = 0]
    BY <1>1, <2>1 DEF OnSnapshot
  <2>. QED BY <1>0, <1>1, <2>2 DEF ValidityFresh, GateType
<1>2. CASE ~ValidityFresh(g)
  <2>1. n.age = g.age /\ ~(n.has /\ n.valid)
    BY <1>0, <1>2 DEF InvalidateIfStale, Lapsed, GateInvalidate, ValidityFresh, GateType
  <2>2. ~ValidityFresh(n)
    BY <2>1 DEF ValidityFresh
  <2>. HIDE DEF n
  <2>3. OnSnapshot(g, p) = [n EXCEPT !.pending = p, !.pendingGen = n.gen, !.path = 0]
    BY <2>2 DEF OnSnapshot, n
  <2>4. /\ OnSnapshot(g, p).path = 0 /\ OnSnapshot(g, p).pending = p
        /\ OnSnapshot(g, p).pendingGen = n.gen /\ OnSnapshot(g, p).gen = n.gen
        /\ OnSnapshot(g, p).age = g.age
        /\ OnSnapshot(g, p).has = n.has /\ OnSnapshot(g, p).valid = n.valid
    BY <1>0, <2>1, <2>3 DEF GateType
  <2>. QED BY <1>0, <1>2, <2>1, <2>4 DEF ValidityFresh, Activatable, Lapsed
<1>. QED BY <1>1, <1>2

\* The converter is the one of the raw waypoints; only waypoints change it, and only their
\* build sets or clears `failed`.
LEMMA FrenetHolds ==
  ASSUME NEW f \in FrenetType, f.converter = f.raw
  PROVE  /\ \A h \in {AgeFrenet(f), FrenetInvalidateIfStale(f), OnFrenetValidity(f, TRUE),
                       OnFrenetValidity(f, FALSE)} :
               h.converter = h.raw /\ h.converter \in {0, f.converter} /\ h.failed = f.failed
         /\ \A p \in FrenetPaths, builds \in BOOLEAN :
               /\ OnFrenetWaypoints(f, p, builds).converter = OnFrenetWaypoints(f, p, builds).raw
               /\ ~OnFrenetWaypoints(f, p, builds).failed =>
                    OnFrenetWaypoints(f, p, builds).converter = p
<1>1. AgeFrenet(f).converter = f.converter /\ AgeFrenet(f).raw = f.raw
        /\ AgeFrenet(f).failed = f.failed
  BY DEF AgeFrenet, FrenetType
<1>2. /\ FrenetInvalidate(f).converter = 0 /\ FrenetInvalidate(f).raw = 0
      /\ FrenetInvalidate(f).failed = f.failed
  BY DEF FrenetInvalidate, FrenetType
<1>3. OnFrenetValidity(f, FALSE) = FrenetInvalidate(f)
  BY DEF OnFrenetValidity
<1>4. FrenetInvalidateIfStale(f) \in {f, FrenetInvalidate(f)}
  BY DEF FrenetInvalidateIfStale
<1>5. /\ OnFrenetValidity(f, TRUE).converter = FrenetInvalidateIfStale(f).converter
      /\ OnFrenetValidity(f, TRUE).raw = FrenetInvalidateIfStale(f).raw
      /\ OnFrenetValidity(f, TRUE).failed = FrenetInvalidateIfStale(f).failed
  <2>1. FrenetInvalidateIfStale(f) \in FrenetType
    BY FrenetOps
  <2>2. OnFrenetValidity(f, TRUE) = [FrenetInvalidateIfStale(f) EXCEPT !.valid = TRUE, !.age = 0]
    BY DEF OnFrenetValidity
  <2>. QED BY <2>1, <2>2 DEF FrenetType
<1>6. ASSUME NEW p \in FrenetPaths, NEW builds \in BOOLEAN
      PROVE  /\ OnFrenetWaypoints(f, p, builds).converter = OnFrenetWaypoints(f, p, builds).raw
             /\ ~OnFrenetWaypoints(f, p, builds).failed =>
                  OnFrenetWaypoints(f, p, builds).converter = p
  BY DEF OnFrenetWaypoints, FrenetType
<1>. QED BY <1>1, <1>2, <1>3, <1>4, <1>5, <1>6

\* Only a snapshot gives the state machine a path, and an invalidation is numbered with
\* the last snapshot received.
LEMMA ReadinessHolds ==
  ASSUME NEW r \in ReadinessType, r.invGen <= r.msgGen
  PROVE  /\ \A h \in {AgeReadiness(r), RefreshValidity(r), OnStatus(r, "localization"),
                       OnValidity(r, TRUE), OnValidity(r, FALSE)} :
               (h.has => r.has /\ h.len = r.len) /\ h.invGen <= h.msgGen
         /\ \A p : /\ OnWaypoints(r, 1, p).len = p
                    /\ OnWaypoints(r, 1, p).invGen <= OnWaypoints(r, 1, p).msgGen
<1>0. r.invGen \in Nat /\ r.msgGen \in Nat
  BY DEF ReadinessType
<1>1. /\ AgeReadiness(r).has = r.has /\ AgeReadiness(r).len = r.len
      /\ AgeReadiness(r).invGen = r.invGen /\ AgeReadiness(r).msgGen = r.msgGen
  BY DEF AgeReadiness, ReadinessType
<1>2. /\ OnStatus(r, "localization").has = r.has /\ OnStatus(r, "localization").len = r.len
      /\ OnStatus(r, "localization").invGen = r.invGen
      /\ OnStatus(r, "localization").msgGen = r.msgGen
  BY DEF OnStatus, ReadinessType
<1>3. \A h \in ReadinessType : Invalidate(h).has = FALSE /\ Invalidate(h).invGen = Invalidate(h).msgGen
  BY DEF Invalidate, ReadinessType
<1>4. [r EXCEPT !.valid = FALSE] \in ReadinessType /\ RefreshValidity(r) \in ReadinessType
  BY ReadinessOps DEF ReadinessType
<1>5. /\ RefreshValidity(r).has => r.has /\ RefreshValidity(r).len = r.len
      /\ RefreshValidity(r).invGen <= RefreshValidity(r).msgGen
  <2>1. \A h \in ReadinessType : Invalidate(h).msgGen \in Nat
    BY DEF Invalidate, ReadinessType
  <2>. QED BY <1>0, <1>3, <1>4, <2>1 DEF RefreshValidity
<1>6. ASSUME NEW v \in BOOLEAN
      PROVE  /\ OnValidity(r, v).has => r.has /\ OnValidity(r, v).len = r.len
             /\ OnValidity(r, v).invGen <= OnValidity(r, v).msgGen
  <2>. DEFINE n == [RefreshValidity(r) EXCEPT !.hasValid = TRUE, !.valid = v, !.validAge = 0]
  <2>0. 0 \in 0..(ValidTimeout + 1)
    BY ReadinessAssumption
  <2>1. /\ n \in ReadinessType /\ n.has = RefreshValidity(r).has
        /\ n.len = RefreshValidity(r).len /\ n.invGen = RefreshValidity(r).invGen
        /\ n.msgGen = RefreshValidity(r).msgGen
    <3>1. ASSUME NEW h \in ReadinessType
          PROVE  [h EXCEPT !.hasValid = TRUE, !.valid = v, !.validAge = 0] \in ReadinessType
      BY <2>0 DEF ReadinessType
    <3>2. ASSUME NEW h \in ReadinessType
          PROVE  LET k == [h EXCEPT !.hasValid = TRUE, !.valid = v, !.validAge = 0] IN
                 k.has = h.has /\ k.len = h.len /\ k.invGen = h.invGen /\ k.msgGen = h.msgGen
      BY DEF ReadinessType
    <3>. QED BY <1>4, <3>1, <3>2
  <2>2. OnValidity(r, v) = IF v THEN n ELSE Invalidate(n)
    BY DEF OnValidity
  <2>3. Invalidate(n).has = FALSE /\ Invalidate(n).invGen <= Invalidate(n).msgGen
    <3>1. \A h \in ReadinessType : Invalidate(h).msgGen = h.msgGen /\ h.msgGen \in Nat
      BY DEF Invalidate, ReadinessType
    <3>. HIDE DEF n
    <3>2. Invalidate(n).invGen = Invalidate(n).msgGen /\ Invalidate(n).msgGen \in Nat
      BY <1>3, <2>1, <3>1
    <3>. QED BY <1>3, <2>1, <3>2
  <2>. HIDE DEF n
  <2>. QED BY <1>5, <2>1, <2>2, <2>3
<1>7. ASSUME NEW p
      PROVE  /\ OnWaypoints(r, 1, p).len = p
             /\ OnWaypoints(r, 1, p).invGen <= OnWaypoints(r, 1, p).msgGen
  BY <1>0 DEF OnWaypoints, ReadinessType
<1>. QED BY <1>0, <1>1, <1>2, <1>5, <1>6, <1>7

\* The planner's own steps before a heartbeat publish nothing.
LEMMA PlannerQuiet ==
  ASSUME NEW p \in PlannerType
  PROVE  /\ OnConeMap(p, TRUE).published = p.published /\ OnConeMap(p, TRUE).valid = p.valid
         /\ OnPlannerOdom(p).published = p.published /\ OnPlannerOdom(p).valid = p.valid
         /\ AgePlanner(p).published = p.published /\ AgePlanner(p).valid = p.valid
         /\ \A s : OnPlannerStatus(p, s).published = p.published
                   /\ OnPlannerStatus(p, s).valid = p.valid
  BY DEF OnConeMap, OnPlannerOdom, AgePlanner, OnPlannerStatus, PlannerType

LEMMA LatestStep ==
  ASSUME ChainTypeOK, HoldsLatest, BooksInv, [ChainNext]_pathVars
  PROVE  HoldsLatest' /\ BooksInv'
<1>0. /\ {"readiness", "gate", "frenet"} = Consumers
      /\ planner \in PlannerType /\ readiness \in ReadinessType
      /\ gate \in GateType /\ frenet \in FrenetType
  BY DEF Consumers, ChainTypeOK
<1>1. CASE ConeMap
  BY <1>0, <1>1, PlannerQuiet DEF ConeMap, HoldsLatest, BooksInv
<1>2. CASE Localize
  <2>1. /\ planner'.published = planner.published
        /\ readiness'.has => readiness.has /\ readiness'.len = readiness.len
        /\ readiness'.invGen <= readiness'.msgGen
        /\ UNCHANGED <<gate, frenet, path>>
    BY <1>0, <1>2, PlannerQuiet, ReadinessHolds DEF Localize, BooksInv
  <2>. QED BY <2>1 DEF HoldsLatest, BooksInv
<1>3. CASE EgoOdom
  BY <1>0, <1>3, PlannerQuiet DEF EgoOdom, HoldsLatest, BooksInv
<1>4. ASSUME NEW builds \in Builds, PlannerHeartbeat(builds) PROVE HoldsLatest' /\ BooksInv'
  <2>. DEFINE b == Heartbeat(planner, builds)
  <2>1. /\ b.path = 0 => b.planner.published = planner.published
        /\ b.path # 0 => b.planner.published = b.path
    BY <1>0, HeartbeatOps, PathChainAssumption
  <2>2. /\ planner' = b.planner
        /\ path' = IF b.path = 0 THEN path ELSE [c \in Consumers |-> b.path]
        /\ UNCHANGED <<readiness, gate, frenet>>
    BY <1>4 DEF PlannerHeartbeat
  <2>. HIDE DEF b
  <2>3. CASE b.path = 0
    BY <2>1, <2>2, <2>3 DEF HoldsLatest, BooksInv
  <2>4. CASE b.path # 0
    BY <1>0, <2>1, <2>2, <2>4 DEF HoldsLatest, BooksInv
  <2>. QED BY <2>3, <2>4
<1>5. CASE StatePath
  <2>1. /\ readiness' = OnWaypoints(readiness, 1, path["readiness"])
        /\ path["readiness"] # 0 /\ path'["readiness"] = 0
        /\ \A d \in Consumers : d # "readiness" => path'[d] = path[d]
        /\ UNCHANGED <<planner, gate, frenet>>
    BY <1>0, <1>5, Takes DEF StatePath, TakePath
  <2>2. readiness'.len = path["readiness"] /\ readiness'.invGen <= readiness'.msgGen
    BY <1>0, <2>1, ReadinessHolds DEF BooksInv
  <2>. QED BY <1>0, <2>1, <2>2 DEF HoldsLatest, BooksInv
<1>6. CASE StateValidity
  <2>1. /\ readiness' = OnValidity(readiness, Head(beats["readiness"]))
        /\ Head(beats["readiness"]) \in BOOLEAN
        /\ UNCHANGED <<planner, path, gate, frenet>>
    BY <1>0, <1>6, Takes DEF StateValidity, TakeBeat
  <2>2. /\ readiness'.has => readiness.has /\ readiness'.len = readiness.len
        /\ readiness'.invGen <= readiness'.msgGen
    BY <1>0, <2>1, ReadinessHolds DEF BooksInv
  <2>. QED BY <2>1, <2>2 DEF HoldsLatest, BooksInv
<1>7. CASE StateTimer
  <2>1. /\ readiness'.has => readiness.has /\ readiness'.len = readiness.len
        /\ readiness'.invGen <= readiness'.msgGen
        /\ UNCHANGED <<planner, path, gate, frenet>>
    BY <1>0, <1>7, ReadinessHolds DEF StateTimer, BooksInv
  <2>. QED BY <2>1 DEF HoldsLatest, BooksInv
<1>8. CASE GatePath
  <2>1. /\ gate' = OnSnapshot(gate, path["gate"])
        /\ path["gate"] \in GatePaths /\ path'["gate"] = 0
        /\ \A d \in Consumers : d # "gate" => path'[d] = path[d]
        /\ UNCHANGED <<planner, readiness, frenet>>
    <3>1. TakePath("gate") /\ "gate" \in Consumers
      BY <1>0, <1>8 DEF GatePath
    <3>2. /\ path'["gate"] = 0 /\ path["gate"] \in 1..MaxMaps
          /\ \A d \in Consumers : d # "gate" => path'[d] = path[d]
      BY <3>1, Takes
    <3>3. path["gate"] \in GatePaths
      BY <3>2, PathChainAssumption
    <3>. QED BY <1>8, <3>1, <3>2, <3>3 DEF GatePath, TakePath
  <2>2. {gate'.path, gate'.pending} = {0, path["gate"]} /\ (gate'.path = 0 \/ gate'.pending = 0)
    BY <1>0, <2>1, GateSnapshot
  <2>. QED BY <1>0, <1>8, <2>1, <2>2 DEF GatePath, TakePath, HoldsLatest, BooksInv
<1>9. CASE GateValidity
  <2>1. /\ gate' = OnGateValidity(gate, Head(beats["gate"]))
        /\ Head(beats["gate"]) \in BOOLEAN
        /\ UNCHANGED <<planner, path, readiness, frenet>>
    BY <1>0, <1>9, Takes DEF GateValidity, TakeBeat
  <2>2. gate'.path = 0 \/ gate'.pending = 0
    BY <1>0, <2>1, GateHoldsOne DEF BooksInv
  <2>3. ASSUME path["gate"] = 0 PROVE {gate'.path, gate'.pending} \subseteq {0, planner.published}
    BY <1>0, <2>1, <2>3, GateHolds DEF HoldsAtMost, HoldsLatest, BooksInv
  <2>. QED BY <2>1, <2>2, <2>3 DEF HoldsLatest, BooksInv
<1>10. CASE GateTimer
  <2>1. /\ gate' \in {AfterRead(gate), InvalidateIfStale(gate)}
        /\ UNCHANGED <<planner, path, readiness, frenet>>
    BY <1>10 DEF GateTimer
  <2>2. gate'.path = 0 \/ gate'.pending = 0
    BY <1>0, <2>1, GateHoldsOne DEF BooksInv
  <2>3. ASSUME path["gate"] = 0 PROVE {gate'.path, gate'.pending} \subseteq {0, planner.published}
    BY <1>0, <2>1, <2>3, GateHolds DEF HoldsAtMost, HoldsLatest, BooksInv
  <2>. QED BY <2>1, <2>2, <2>3 DEF HoldsLatest, BooksInv
<1>11. CASE FrenetWaypoints
  <2>1. PICK builds \in ClcsBuilds : frenet' = OnFrenetWaypoints(frenet, path["frenet"], builds)
    BY <1>11 DEF FrenetWaypoints
  <2>2. /\ path["frenet"] \in FrenetPaths /\ path'["frenet"] = 0
        /\ \A d \in Consumers : d # "frenet" => path'[d] = path[d]
        /\ UNCHANGED <<planner, readiness, gate>>
    <3>1. TakePath("frenet") /\ "frenet" \in Consumers
      BY <1>0, <1>11 DEF FrenetWaypoints
    <3>2. /\ path'["frenet"] = 0 /\ path["frenet"] \in 1..MaxMaps
          /\ \A d \in Consumers : d # "frenet" => path'[d] = path[d]
      BY <3>1, Takes
    <3>3. path["frenet"] \in FrenetPaths
      BY <3>2, PathChainAssumption
    <3>. QED BY <1>11, <3>1, <3>2, <3>3 DEF FrenetWaypoints, TakePath
  <2>3. /\ frenet'.converter = frenet'.raw
        /\ ~frenet'.failed => frenet'.converter = path["frenet"]
    BY <1>0, <2>1, <2>2, FrenetHolds, PathChainAssumption DEF HoldsLatest
  <2>. QED BY <1>0, <1>11, <2>2, <2>3 DEF FrenetWaypoints, TakePath, HoldsLatest, BooksInv
<1>12. CASE FrenetValidity
  <2>1. /\ frenet' = OnFrenetValidity(frenet, Head(beats["frenet"]))
        /\ Head(beats["frenet"]) \in BOOLEAN
        /\ UNCHANGED <<planner, path, readiness, gate>>
    BY <1>0, <1>12, Takes DEF FrenetValidity, TakeBeat
  <2>2. /\ frenet'.converter = frenet'.raw /\ frenet'.converter \in {0, frenet.converter}
        /\ frenet'.failed = frenet.failed
    BY <1>0, <2>1, FrenetHolds DEF HoldsLatest
  <2>. QED BY <2>1, <2>2 DEF HoldsLatest, BooksInv
<1>13. CASE FrenetTimer
  <2>1. /\ frenet' = FrenetInvalidateIfStale(frenet)
        /\ UNCHANGED <<planner, path, readiness, gate>>
    BY <1>13 DEF FrenetTimer
  <2>2. /\ frenet'.converter = frenet'.raw /\ frenet'.converter \in {0, frenet.converter}
        /\ frenet'.failed = frenet.failed
    BY <1>0, <2>1, FrenetHolds DEF HoldsLatest
  <2>. QED BY <2>1, <2>2 DEF HoldsLatest, BooksInv
<1>14. CASE Elapse
  <2>1. /\ planner' = AgePlanner(planner) /\ readiness' = AgeReadiness(readiness)
        /\ gate' = AgeGate(gate) /\ frenet' = AgeFrenet(frenet) /\ UNCHANGED path
    BY <1>14 DEF Elapse
  <2>2. /\ planner'.published = planner.published
        /\ readiness'.has => readiness.has /\ readiness'.len = readiness.len
        /\ readiness'.invGen <= readiness'.msgGen
    BY <1>0, <2>1, PlannerQuiet, ReadinessHolds DEF BooksInv
  <2>3. /\ frenet'.converter = frenet'.raw /\ frenet'.converter \in {0, frenet.converter}
        /\ frenet'.failed = frenet.failed
    BY <1>0, <2>1, FrenetHolds DEF HoldsLatest
  <2>4. gate'.path = 0 \/ gate'.pending = 0
    BY <1>0, <2>1, GateHoldsOne DEF BooksInv
  <2>5. ASSUME path["gate"] = 0 PROVE {gate'.path, gate'.pending} \subseteq {0, planner.published}
    BY <1>0, <2>1, <2>5, GateHolds DEF HoldsAtMost, HoldsLatest, BooksInv
  <2>. QED BY <2>1, <2>2, <2>3, <2>4, <2>5 DEF HoldsLatest, BooksInv
<1>15. CASE UNCHANGED pathVars
  BY <1>15 DEF pathVars, nodes, HoldsLatest, BooksInv
<1>. QED BY <1>1, <1>2, <1>3, <1>4, <1>5, <1>6, <1>7, <1>8, <1>9, <1>10, <1>11, <1>12,
            <1>13, <1>14, <1>15 DEF ChainNext, Consume

-----------------------------------------------------------------------------
(* No node works on an older path than another.                              *)

LEMMA InitLatest == ChainInit => HoldsLatest /\ BooksInv
  BY DEF ChainInit, HoldsLatest, BooksInv, Consumers, PlannerInit, ReadinessInit, GateInit, FrenetInit

\* What a node uses is what its books hold.
LEMMA LatestIsUsed == ChainTypeOK /\ HoldsLatest /\ BooksInv => NoStalePath
<1>. SUFFICES ASSUME ChainTypeOK, HoldsLatest, BooksInv, NEW c \in Consumers,
                     Usable[c] # 0, path[c] = 0, c = "frenet" => ~frenet.failed
              PROVE  Usable[c] = planner.published
  BY DEF NoStalePath
<1>1. CASE c = "readiness"
  <2>1. Usable[c] = IF Ready(readiness) THEN readiness.len ELSE 0
    BY <1>1 DEF Usable, Consumers
  <2>. QED BY <1>1, <2>1 DEF Ready, HoldsLatest
<1>2. CASE c = "gate"
  <2>1. Usable[c] = ReadForOdom(gate)
    BY <1>2 DEF Usable, Consumers
  <2>2. AfterRead(gate).path \in {0, planner.published}
    <3>1. /\ gate \in GateType /\ (gate.path = 0 \/ gate.pending = 0)
          /\ gate.path \in {0, planner.published} /\ gate.pending \in {0, planner.published}
      BY <1>2 DEF HoldsLatest, BooksInv, ChainTypeOK
    <3>. QED BY <3>1, GateHolds DEF HoldsAtMost
  <2>. QED BY <2>1, <2>2 DEF ReadForOdom
<1>3. CASE c = "frenet"
  <2>1. Usable[c] = FrenetReference(frenet)
    BY <1>3 DEF Usable, Consumers
  <2>. QED BY <1>3, <2>1 DEF FrenetReference, HoldsLatest
<1>. QED BY <1>1, <1>2, <1>3 DEF Consumers

\* The types of the chain's state: its nodes' records, the channels and the books kept
\* over them.
THEOREM ChainTypeCorrect == ChainSpec => []ChainTypeOK
<1>1. ChainInit => ChainTypeOK
  BY InitTyped
<1>2. ChainTypeOK /\ [ChainNext]_pathVars => ChainTypeOK'
  BY TypeStep
<1>. QED BY <1>1, <1>2, PTL DEF ChainSpec

LEMMA LatestInvariant == ChainSpec => [](ChainTypeOK /\ HoldsLatest /\ BooksInv)
<1>1. ChainInit => HoldsLatest /\ BooksInv
  BY InitLatest
<1>2. ChainTypeOK /\ (HoldsLatest /\ BooksInv) /\ [ChainNext]_pathVars => (HoldsLatest /\ BooksInv)'
  BY LatestStep
<1>. QED BY <1>1, <1>2, ChainTypeCorrect, PTL DEF ChainSpec

\* NoStalePath for every timeout, every queue depth and any number of maps and faults: the
\* planning state machine, the waypoint publisher and the Frenet conversion (unless CLCS
\* could not build the newer path) work on the path last published, or none, as soon as
\* it is no longer on its way to them.
THEOREM NoPathStale == ChainSpec => []NoStalePath
<1>. QED BY LatestInvariant, LatestIsUsed, PTL

-----------------------------------------------------------------------------
(* The waypoint publisher switches to a path whichever message comes first.  *)

\* A heartbeat in time keeps a fresh gate fresh, and so do the reads in between.
LEMMA GateFresh ==
  ASSUME NEW g \in GateType
  PROVE  /\ ValidityFresh(OnGateValidity(g, TRUE)) /\ OnGateValidity(g, TRUE).age = 0
         /\ ValidityFresh(g) => /\ InvalidateIfStale(g) = g
                                /\ ValidityFresh(AfterRead(g)) /\ AfterRead(g).age = g.age
<1>1. \A h \in GateType : LET k == ActivatePending(h) IN
        k.has = h.has /\ k.valid = h.valid /\ k.age = h.age
  BY DEF ActivatePending, GateType
<1>2. ValidityFresh(OnGateValidity(g, TRUE)) /\ OnGateValidity(g, TRUE).age = 0
  <2>0. 0 \in 0..(GateTimeout + 1) /\ 0 <= GateTimeout
    BY GateAssumption
  <2>1. ASSUME NEW h \in GateType
        PROVE  LET k == [h EXCEPT !.has = TRUE, !.valid = TRUE, !.age = 0] IN
               k \in GateType /\ k.has = TRUE /\ k.valid = TRUE /\ k.age = 0
    BY <2>0 DEF GateType
  <2>2. InvalidateIfStale(g) \in GateType
    BY GateOps
  <2>3. OnGateValidity(g, TRUE) =
          ActivatePending([InvalidateIfStale(g) EXCEPT !.has = TRUE, !.valid = TRUE, !.age = 0])
    BY DEF OnGateValidity
  <2>. QED BY <1>1, <2>0, <2>1, <2>2, <2>3 DEF ValidityFresh
<1>3. ASSUME ValidityFresh(g)
      PROVE  /\ InvalidateIfStale(g) = g
             /\ ValidityFresh(AfterRead(g)) /\ AfterRead(g).age = g.age
  <2>1. InvalidateIfStale(g) = g
    BY <1>3 DEF InvalidateIfStale, Lapsed
  <2>2. AfterRead(g) = ActivatePending(g)
    BY <1>3, <2>1 DEF AfterRead
  <2>. QED BY <1>1, <1>3, <2>1, <2>2 DEF ValidityFresh
<1>. QED BY <1>2, <1>3

\* A gate that is ready stays so until the heartbeat, which lets it use the path.
LEMMA GateStaysReady ==
  ASSUME NEW g \in GateType, NEW P, P # 0, HoldsAtMost(g, P), GateReady(g, P)
  PROVE  /\ OnGateValidity(g, TRUE).path = P
         /\ GateReady(InvalidateIfStale(g), P) /\ GateReady(AfterRead(g), P)
         /\ ValidityFresh(g) => AfterRead(g).path = P
<1>1. InvalidateIfStale(g) = g
  BY DEF InvalidateIfStale, GateReady, Lapsed
<1>2. \/ g.path = P /\ g.pending = 0
      \/ Activatable(g) /\ g.pending = P
  BY DEF GateReady, HoldsAtMost, Activatable
<1>3. ASSUME NEW h \in GateType, h.path = g.path, h.pending = g.pending,
             h.pendingGen = g.pendingGen, h.gen = g.gen
      PROVE  ActivatePending(h).path = P
  BY <1>2, <1>3 DEF ActivatePending, Activatable, GateType
<1>4. OnGateValidity(g, TRUE).path = P
  <2>0. 0 \in 0..(GateTimeout + 1)
    BY GateAssumption
  <2>1. LET k == [g EXCEPT !.has = TRUE, !.valid = TRUE, !.age = 0] IN
        /\ k \in GateType /\ k.path = g.path /\ k.pending = g.pending
        /\ k.pendingGen = g.pendingGen /\ k.gen = g.gen
    BY <2>0 DEF GateType
  <2>2. OnGateValidity(g, TRUE) =
          ActivatePending([g EXCEPT !.has = TRUE, !.valid = TRUE, !.age = 0])
    BY <1>1 DEF OnGateValidity
  <2>. QED BY <1>3, <2>1, <2>2
<1>5. ValidityFresh(g) => AfterRead(g).path = P
  BY <1>1, <1>3 DEF AfterRead
<1>6. GateReady(AfterRead(g), P)
  <2>1. CASE ValidityFresh(g)
    BY <1>5, <2>1, GateFresh DEF GateReady
  <2>2. CASE ~ValidityFresh(g)
    BY <1>1, <2>2 DEF AfterRead
  <2>. QED BY <2>1, <2>2
<1>. QED BY <1>1, <1>4, <1>5, <1>6

\* A step that does not touch the gate, its two messages or the planner's verdict.
GateSideKept ==
  /\ planner'.valid = planner.valid /\ planner'.published = planner.published
  /\ UNCHANGED <<gate, late>>
  /\ path'["gate"] = path["gate"] /\ beats'["gate"] = beats["gate"]
  /\ "heartbeat" \in due' <=> "heartbeat" \in due

\* SwitchInv after a step.
LEMMA SwitchNext ==
  ASSUME planner'.valid => planner'.published # 0,
         ~late' /\ planner'.valid =>
           /\ beats'["gate"] \in {<<>>, <<TRUE>>}
           /\ "heartbeat" \in due' => path'["gate"] = 0 /\ beats'["gate"] = <<>>
           /\ beats'["gate"] = <<>> =>
                ValidityFresh(gate') /\ ("heartbeat" \in due' \/ gate'.age = 0)
           /\ path'["gate"] = 0 => GateReady(gate', planner'.published)
  PROVE  SwitchInv'
  BY Zenon DEF SwitchInv, GateReady, ValidityFresh, Activatable, Lapsed

LEMMA SwitchKept == SwitchInv /\ GateSideKept => SwitchInv'
<1>. SUFFICES ASSUME SwitchInv, GateSideKept PROVE SwitchInv'
  OBVIOUS
<1>1. /\ planner'.valid = planner.valid /\ planner'.published = planner.published
      /\ gate' = gate /\ late' = late
      /\ path'["gate"] = path["gate"] /\ beats'["gate"] = beats["gate"]
      /\ "heartbeat" \in due' <=> "heartbeat" \in due
  BY DEF GateSideKept
<1>2. ValidityFresh(gate') <=> ValidityFresh(gate)
  BY <1>1
<1>3. GateReady(gate', planner'.published) <=> GateReady(gate, planner.published)
  BY <1>1
<1>4. /\ planner.valid => planner.published # 0
      /\ ~late /\ planner.valid =>
           /\ beats["gate"] \in {<<>>, <<TRUE>>}
           /\ "heartbeat" \in due => path["gate"] = 0 /\ beats["gate"] = <<>>
           /\ beats["gate"] = <<>> =>
                ValidityFresh(gate) /\ ("heartbeat" \in due \/ gate.age = 0)
           /\ path["gate"] = 0 => GateReady(gate, planner.published)
  BY Zenon DEF SwitchInv
<1>5. /\ planner'.valid => planner'.published # 0
      /\ ~late' /\ planner'.valid =>
           /\ beats'["gate"] \in {<<>>, <<TRUE>>}
           /\ "heartbeat" \in due' => path'["gate"] = 0 /\ beats'["gate"] = <<>>
           /\ beats'["gate"] = <<>> =>
                ValidityFresh(gate') /\ ("heartbeat" \in due' \/ gate'.age = 0)
           /\ path'["gate"] = 0 => GateReady(gate', planner'.published)
  BY <1>1, <1>2, <1>3, <1>4
<1>. QED BY Zenon, <1>5, SwitchNext

\* The heartbeat that vouches for the path is on its way.
LEMMA SwitchSent ==
  ASSUME planner'.valid => planner'.published # 0,
         "heartbeat" \notin due',
         ~late' /\ planner'.valid =>
           /\ beats'["gate"] = <<TRUE>>
           /\ path'["gate"] = 0 => GateReady(gate', planner'.published)
  PROVE  SwitchInv'
<1>1. <<TRUE>> # <<>>
  OBVIOUS
<1>. QED BY Zenon, <1>1, SwitchNext

LEMMA OthersKeepGateSide ==
  ASSUME ChainTypeOK,
         \/ ConeMap \/ Localize \/ EgoOdom
         \/ StatePath \/ StateValidity \/ StateTimer
         \/ FrenetWaypoints \/ FrenetValidity \/ FrenetTimer
         \/ UNCHANGED pathVars
  PROVE  GateSideKept
<1>0. planner \in PlannerType /\ {"readiness", "gate", "frenet"} = Consumers
  BY DEF ChainTypeOK, Consumers
<1>1. CASE ConeMap
  BY <1>0, <1>1, PlannerQuiet DEF ConeMap, GateSideKept
<1>2. CASE Localize
  BY <1>0, <1>2, PlannerQuiet DEF Localize, GateSideKept
<1>3. CASE EgoOdom
  BY <1>0, <1>3, PlannerQuiet DEF EgoOdom, GateSideKept
<1>4. CASE StatePath
  BY <1>0, <1>4 DEF StatePath, TakePath, ChainTypeOK, GateSideKept
<1>5. CASE StateValidity
  BY <1>0, <1>5 DEF StateValidity, TakeBeat, ChainTypeOK, GateSideKept
<1>6. CASE StateTimer
  BY <1>6 DEF StateTimer, GateSideKept
<1>7. CASE FrenetWaypoints
  BY <1>0, <1>7 DEF FrenetWaypoints, TakePath, ChainTypeOK, GateSideKept
<1>8. CASE FrenetValidity
  BY <1>0, <1>8 DEF FrenetValidity, TakeBeat, ChainTypeOK, GateSideKept
<1>9. CASE FrenetTimer
  BY <1>9 DEF FrenetTimer, GateSideKept
<1>10. CASE UNCHANGED pathVars
  BY <1>10 DEF pathVars, nodes, GateSideKept
<1>. QED BY <1>1, <1>2, <1>3, <1>4, <1>5, <1>6, <1>7, <1>8, <1>9, <1>10

LEMMA SwitchStep ==
  ASSUME GateTimeout # 0,
         ChainTypeOK, HoldsLatest, BooksInv, SwitchInv, [ChainNext]_pathVars
  PROVE  SwitchInv'
<1>0. /\ planner \in PlannerType /\ gate \in GateType /\ "gate" \in Consumers
      /\ GateTimeout \in Nat
  BY GateAssumption DEF ChainTypeOK, Consumers
<1>1. ASSUME path["gate"] = 0 PROVE HoldsAtMost(gate, planner.published)
  BY <1>1 DEF HoldsAtMost, HoldsLatest, BooksInv
<1>2. ASSUME NEW builds \in Builds, PlannerHeartbeat(builds) PROVE SwitchInv'
  <2>. DEFINE b == Heartbeat(planner, builds)
  <2>1. /\ b.valid = b.planner.valid /\ b.path \in 0..MaxMaps
        /\ b.path = 0 => /\ b.planner.published = planner.published
                         /\ b.planner.valid => planner.valid
        /\ b.path # 0 => b.planner.published = b.path
        /\ b.planner \in PlannerType
    BY <1>0, HeartbeatOps, PathChainAssumption
  <2>2. /\ planner' = b.planner /\ gate' = gate /\ "heartbeat" \in due
        /\ due' = due \ {"heartbeat"}
        /\ path' = IF b.path = 0 THEN path ELSE [c \in Consumers |-> b.path]
        /\ beats' = [c \in Consumers |-> Enqueue(beats[c], b.valid)]
        /\ late' = IF b.path = 0 THEN late ELSE \E c \in Consumers : beats[c] # <<>>
    BY <1>2 DEF PlannerHeartbeat
  <2>. HIDE DEF b
  <2>3. planner'.valid => planner'.published # 0
    BY <2>1, <2>2 DEF SwitchInv
  <2>4. ASSUME beats["gate"] = <<>>, b.valid = TRUE PROVE beats'["gate"] = <<TRUE>>
    <3>1. Enqueue(<<>>, TRUE) = <<TRUE>>
      BY PathChainAssumption DEF Enqueue
    <3>. QED BY <1>0, <2>2, <2>4, <3>1
  <2>5. b.valid \in BOOLEAN
    BY <2>1 DEF PlannerType
  <2>6. CASE b.path = 0
    <3>. SUFFICES ASSUME ~late', planner'.valid
                  PROVE  /\ beats'["gate"] = <<TRUE>>
                         /\ path'["gate"] = 0 => GateReady(gate', planner'.published)
      BY Zenon, <2>2, <2>3, SwitchSent
    <3>1. ~late /\ planner.valid /\ b.valid = TRUE
      BY <2>1, <2>2, <2>5, <2>6
    <3>. QED BY <2>1, <2>2, <2>4, <2>6, <3>1 DEF SwitchInv
  <2>7. CASE b.path # 0
    <3>. SUFFICES ASSUME ~late', planner'.valid
                  PROVE  beats'["gate"] = <<TRUE>> /\ path'["gate"] # 0
      BY Zenon, <2>2, <2>3, SwitchSent
    <3>1. beats["gate"] = <<>> /\ b.valid = TRUE
      BY <1>0, <2>1, <2>2, <2>5, <2>7
    <3>. QED BY <1>0, <2>2, <2>4, <2>7, <3>1
  <2>. QED BY <2>6, <2>7
<1>3. CASE GatePath
  <2>1. /\ gate' = OnSnapshot(gate, path["gate"]) /\ path["gate"] # 0
        /\ UNCHANGED <<planner, beats, due, late>>
    BY <1>3 DEF GatePath, TakePath
  <2>2. path["gate"] \in GatePaths /\ path["gate"] = planner.published
    BY <1>0, <2>1, PathSets DEF ChainTypeOK, HoldsLatest
  <2>3. /\ ValidityFresh(gate') = ValidityFresh(gate) /\ gate'.age = gate.age
        /\ GateReady(gate', planner.published)
    BY <1>0, <2>1, <2>2, GateSnapshot DEF GateReady
  <2>. QED BY <2>1, <2>2, <2>3 DEF SwitchInv
<1>4. CASE GateValidity
  <2>1. /\ gate' = OnGateValidity(gate, Head(beats["gate"])) /\ beats["gate"] # <<>>
        /\ beats'["gate"] = Tail(beats["gate"])
        /\ UNCHANGED <<planner, path, due, late>>
    BY <1>0, <1>4 DEF GateValidity, TakeBeat, ChainTypeOK
  <2>2. planner.valid => planner.published # 0
    BY DEF SwitchInv
  <2>3. ASSUME ~late, planner.valid
        PROVE  /\ beats'["gate"] = <<>> /\ gate' = OnGateValidity(gate, TRUE)
               /\ "heartbeat" \notin due /\ (path["gate"] = 0 => GateReady(gate, planner.published))
    <3>1. beats["gate"] = <<TRUE>>
      BY <2>1, <2>3 DEF SwitchInv
    <3>2. \A x : Head(<<x>>) = x /\ Tail(<<x>>) = <<>>
      OBVIOUS
    <3>3. gate' = OnGateValidity(gate, TRUE) /\ beats'["gate"] = <<>>
      BY Zenon, <2>1, <3>1, <3>2
    <3>. QED BY <2>1, <2>3, <3>1, <3>3 DEF SwitchInv
  <2>4. ASSUME ~late, planner.valid, path["gate"] = 0 PROVE GateReady(gate', planner.published)
    <3>1. HoldsAtMost(gate, planner.published) /\ GateReady(gate, planner.published)
      BY <1>1, <2>3, <2>4
    <3>2. gate \in GateType /\ planner.published # 0 /\ gate' = OnGateValidity(gate, TRUE)
      BY <1>0, <2>2, <2>3, <2>4
    <3>3. OnGateValidity(gate, TRUE).path = planner.published
      BY <3>1, <3>2, GateStaysReady
    <3>4. ValidityFresh(OnGateValidity(gate, TRUE))
      BY <3>2, GateFresh
    <3>. QED BY <3>2, <3>3, <3>4 DEF GateReady
  <2>5. ASSUME ~late, planner.valid PROVE ValidityFresh(gate') /\ gate'.age = 0
    BY <1>0, <2>3, <2>5, GateFresh
  <2>. QED BY <2>1, <2>2, <2>3, <2>4, <2>5, SwitchNext
<1>5. CASE GateTimer
  <2>1. /\ gate' \in {AfterRead(gate), InvalidateIfStale(gate)}
        /\ due' = due \ {"gateTimer"} /\ UNCHANGED <<planner, path, beats, late>>
    BY <1>5 DEF GateTimer
  <2>2. planner.valid => planner.published # 0
    BY DEF SwitchInv
  <2>3. ASSUME ~late, planner.valid, path["gate"] = 0 PROVE GateReady(gate', planner.published)
    <3>1. HoldsAtMost(gate, planner.published) /\ GateReady(gate, planner.published)
      BY <1>1, <2>3 DEF SwitchInv
    <3>. QED BY <1>0, <2>1, <2>2, <2>3, <3>1, GateStaysReady
  <2>4. ValidityFresh(gate) => ValidityFresh(gate') /\ gate'.age = gate.age
    BY <1>0, <2>1, GateFresh
  <2>5. "heartbeat" \in due' <=> "heartbeat" \in due
    BY <2>1
  <2>. QED BY <2>1, <2>2, <2>3, <2>4, <2>5 DEF SwitchInv
<1>6. CASE Elapse
  <2>1. /\ planner' = AgePlanner(planner) /\ gate' = AgeGate(gate)
        /\ late' = (late \/ ~AllDone) /\ due' = Duties' /\ UNCHANGED <<path, beats>>
    BY <1>6 DEF Elapse
  <2>2. "heartbeat" \in due'
    BY <2>1 DEF Duties
  <2>3. planner'.published = planner.published /\ planner'.valid = planner.valid
    BY <1>0, <2>1, PlannerQuiet
  <2>4. ASSUME ~late', planner.valid
        PROVE  /\ beats["gate"] = <<>> /\ path["gate"] = 0
               /\ ValidityFresh(gate')
               /\ GateReady(gate', planner.published)
    <3>1. ~late /\ due = {} /\ path["gate"] = 0 /\ beats["gate"] = <<>>
      BY <1>0, <2>1, <2>4 DEF AllDone
    <3>2. ValidityFresh(gate) /\ gate.age = 0 /\ GateReady(gate, planner.published)
      BY <2>4, <3>1 DEF SwitchInv
    <3>3. gate.age = 0 /\ GateTimeout + 1 \in Nat /\ GateTimeout >= 1
      BY <1>0, <3>2 DEF GateType
    <3>4. gate'.age = 1
      <4>1. Older(gate.age, GateTimeout + 1) = 1
        BY <1>0, <3>3 DEF Older
      <4>. QED BY <1>0, <2>1, <4>1 DEF AgeGate, GateType
    <3>5. /\ gate'.has = gate.has /\ gate'.valid = gate.valid /\ gate'.path = gate.path
          /\ gate'.pending = gate.pending /\ gate'.pendingGen = gate.pendingGen
          /\ gate'.gen = gate.gen
      BY <1>0, <2>1 DEF AgeGate, GateType
    <3>6. ValidityFresh(gate')
      BY <3>2, <3>3, <3>4, <3>5 DEF ValidityFresh
    <3>7. GateReady(gate', planner.published)
      BY <3>2, <3>5, <3>6 DEF GateReady, Activatable, Lapsed
    <3>. QED BY <3>1, <3>6, <3>7
  <2>. QED BY <2>1, <2>2, <2>3, <2>4 DEF SwitchInv
<1>7. CASE \/ ConeMap \/ Localize \/ EgoOdom
          \/ StatePath \/ StateValidity \/ StateTimer
          \/ FrenetWaypoints \/ FrenetValidity \/ FrenetTimer
          \/ UNCHANGED pathVars
  BY <1>7, OthersKeepGateSide, SwitchKept
<1>. QED BY <1>2, <1>3, <1>4, <1>5, <1>6, <1>7 DEF ChainNext, Consume

\* A settled gate that is ready returns the path.
LEMMA SwitchIsUsed == ChainTypeOK /\ HoldsLatest /\ BooksInv /\ SwitchInv => GateSwitches
<1>. SUFFICES ASSUME ChainTypeOK, HoldsLatest, BooksInv, SwitchInv, Settled
              PROVE  Usable["gate"] = planner.published
  BY DEF GateSwitches
<1>1. /\ gate \in GateType /\ planner.published # 0
      /\ path["gate"] = 0 /\ beats["gate"] = <<>> /\ ~late /\ planner.valid
  BY DEF Settled, AllDone, ChainTypeOK, SwitchInv, Consumers
<1>2. /\ HoldsAtMost(gate, planner.published) /\ GateReady(gate, planner.published)
      /\ ValidityFresh(gate)
  BY <1>1 DEF SwitchInv, HoldsAtMost, HoldsLatest, BooksInv
<1>3. AfterRead(gate).path = planner.published /\ ValidityFresh(AfterRead(gate))
  BY <1>1, <1>2, GateStaysReady, GateFresh
<1>4. Usable["gate"] = ReadForOdom(gate)
  BY DEF Usable, Consumers
<1>. QED BY <1>3, <1>4 DEF ReadForOdom

\* GateSwitches for every number of maps and faults, every queue depth and every timeout
\* of at least a heartbeat period (hyu_global_planner.yaml gives it five: a timeout below
\* the period lapses between two heartbeats): the waypoint publisher uses a path
\* published after any lapse as soon as the path and its heartbeat are in, whichever came
\* first and whatever the timers did in between.
THEOREM GateAlwaysSwitches ==
  ASSUME GateTimeout # 0
  PROVE  ChainSpec => []GateSwitches
<1>. DEFINE IInv == ChainTypeOK /\ HoldsLatest /\ BooksInv /\ SwitchInv
<1>1. ChainInit => SwitchInv
  BY DEF ChainInit, PlannerInit, SwitchInv
<1>2. ChainTypeOK /\ HoldsLatest /\ BooksInv /\ SwitchInv /\ [ChainNext]_pathVars => SwitchInv'
  BY SwitchStep
<1>. QED BY <1>1, <1>2, LatestInvariant, SwitchIsUsed, PTL DEF ChainSpec

-----------------------------------------------------------------------------
(* The consumers keep the episode protocol.                                  *)

\* One step of PathEpisode, or none.
EpisodeStep(held, live, held2, live2) ==
  \/ held2 \in 1..MaxMaps /\ (live2 => live)
  \/ held2 \in {held, 0} /\ live2
  \/ held2 = 0 /\ ~live2
  \/ held2 = held /\ (live2 <=> live)

\* What the three refinement mappings read of a consumer's books.
GateHeld(g) ==
  IF Lapsed(g) THEN 0 ELSE IF g.path # 0 THEN g.path
  ELSE IF Activatable(g) THEN g.pending ELSE 0

FrenetHeld(f) == IF ~FrenetLapsed(f) /\ f.accepted THEN f.converter ELSE 0

FrenetLive(f) == f.valid /\ f.age <= FrenetTimeout

StateLapsed(r) == r.hasValid /\ r.valid /\ r.validAge > ValidTimeout

StateHeld(r) == IF r.has /\ r.accGen > r.invGen /\ ~StateLapsed(r) THEN r.len ELSE 0

GateStep(g, h) == EpisodeStep(GateHeld(g), ValidityFresh(g), GateHeld(h), ValidityFresh(h))

FrenetStep(f, h) == EpisodeStep(FrenetHeld(f), FrenetLive(f), FrenetHeld(h), FrenetLive(h))

StateStep(r, h) ==
  EpisodeStep(StateHeld(r), HasFreshValidity(r), StateHeld(h), HasFreshValidity(h))

\* A step of the books is a step of the protocol.
LEMMA EpisodeSteps ==
  ASSUME ChainTypeOK, ChainTypeOK'
  PROVE  /\ GateStep(gate, gate') => [GateEpisode!EpisodeNext]_(GateEpisode!episodeVars)
         /\ FrenetStep(frenet, frenet') => [FrenetEpisode!EpisodeNext]_(FrenetEpisode!episodeVars)
         /\ StateStep(readiness, readiness') => [StateEpisode!EpisodeNext]_(StateEpisode!episodeVars)
<1>0. \A live, live2 \in BOOLEAN :
        /\ (live2 => live) => live2 \in {live, FALSE}
        /\ live2 => live2 = TRUE
        /\ ~live2 => live2 = FALSE
        /\ (live2 <=> live) => live2 = live
  OBVIOUS
<1>1. GateStep(gate, gate') => [GateEpisode!EpisodeNext]_(GateEpisode!episodeVars)
  <2>1. ValidityFresh(gate) \in BOOLEAN /\ ValidityFresh(gate') \in BOOLEAN
    BY DEF ValidityFresh, ChainTypeOK, GateType
  <2>. QED BY <1>0, <2>1
       DEF GateStep, EpisodeStep, GateHeld, GateEpisode!EpisodeNext, GateEpisode!Receive,
           GateEpisode!Beat, GateEpisode!End, GateEpisode!episodeVars
<1>2. FrenetStep(frenet, frenet') => [FrenetEpisode!EpisodeNext]_(FrenetEpisode!episodeVars)
  <2>1. FrenetLive(frenet) \in BOOLEAN /\ FrenetLive(frenet') \in BOOLEAN
    BY DEF FrenetLive, ChainTypeOK, FrenetType
  <2>. QED BY <1>0, <2>1
       DEF FrenetStep, EpisodeStep, FrenetHeld, FrenetLive, FrenetEpisode!EpisodeNext,
           FrenetEpisode!Receive, FrenetEpisode!Beat, FrenetEpisode!End,
           FrenetEpisode!episodeVars
<1>3. StateStep(readiness, readiness') => [StateEpisode!EpisodeNext]_(StateEpisode!episodeVars)
  <2>1. HasFreshValidity(readiness) \in BOOLEAN /\ HasFreshValidity(readiness') \in BOOLEAN
    BY DEF HasFreshValidity, ChainTypeOK, ReadinessType
  <2>. QED BY <1>0, <2>1
       DEF StateStep, EpisodeStep, StateHeld, StateLapsed, StateEpisode!EpisodeNext,
           StateEpisode!Receive, StateEpisode!Beat, StateEpisode!End, StateEpisode!episodeVars
<1>. QED BY <1>1, <1>2, <1>3

\* Standing still is no step.
LEMMA NoStep == /\ \A g : GateStep(g, g)
                /\ \A f : FrenetStep(f, f)
                /\ \A r : StateStep(r, r)
  BY DEF GateStep, FrenetStep, StateStep, EpisodeStep

\* The gate: a snapshot is received, a heartbeat beats or ends, and time or a read may end
\* an episode that lapsed.
LEMMA GateSteps ==
  ASSUME NEW g \in GateType, g.path = 0 \/ g.pending = 0
  PROVE  /\ \A p \in GatePaths : GateStep(g, OnSnapshot(g, p))
         /\ \A v \in BOOLEAN : GateStep(g, OnGateValidity(g, v))
         /\ GateStep(g, AgeGate(g)) /\ GateStep(g, InvalidateIfStale(g))
         /\ GateStep(g, AfterRead(g))
<1>0. /\ g.has \in BOOLEAN /\ g.valid \in BOOLEAN /\ g.age \in Nat
      /\ GateTimeout \in Nat /\ 0 \in 0..(GateTimeout + 1)
      /\ \A p \in GatePaths : p \in 1..MaxMaps
  BY GateAssumption, PathChainAssumption DEF GateType
\* An invalidation ends the episode.
<1>1. ASSUME NEW h \in GateType
      PROVE  GateHeld(GateInvalidate(h)) = 0 /\ ~ValidityFresh(GateInvalidate(h))
  BY DEF GateInvalidate, GateHeld, Activatable, ValidityFresh, Lapsed, GateType
\* The pending path counts as held already.
<1>2. ASSUME NEW h \in GateType, h.path = 0 \/ h.pending = 0
      PROVE  /\ GateHeld(ActivatePending(h)) = GateHeld(h)
             /\ ValidityFresh(ActivatePending(h)) <=> ValidityFresh(h)
  BY <1>2 DEF ActivatePending, GateHeld, Activatable, ValidityFresh, Lapsed, GateType
<1>3. CASE Lapsed(g)
  <2>1. /\ GateHeld(g) = 0 /\ ~ValidityFresh(g)
        /\ InvalidateIfStale(g) = GateInvalidate(g) /\ GateInvalidate(g) \in GateType
    BY <1>3, GateOps DEF GateHeld, Lapsed, InvalidateIfStale
  <2>2. GateHeld(InvalidateIfStale(g)) = 0 /\ ~ValidityFresh(InvalidateIfStale(g))
    BY <1>1, <2>1
  <2>3. AfterRead(g) = InvalidateIfStale(g)
    BY <2>2 DEF AfterRead
  <2>4. GateHeld(AgeGate(g)) = 0 /\ ~ValidityFresh(AgeGate(g))
    <3>1. Older(g.age, GateTimeout + 1) >= g.age /\ Older(g.age, GateTimeout + 1) \in Nat
      BY <1>0, OlderBounds DEF GateType
    <3>2. /\ AgeGate(g).age = Older(g.age, GateTimeout + 1)
          /\ AgeGate(g).has = g.has /\ AgeGate(g).valid = g.valid
      BY DEF AgeGate, GateType
    <3>3. g.has /\ g.valid /\ g.age > GateTimeout
      BY <1>0, <1>3 DEF Lapsed, ValidityFresh
    <3>4. ~(AgeGate(g).age <= GateTimeout)
      BY <1>0, <3>1, <3>2, <3>3
    <3>. QED BY <3>2, <3>3, <3>4 DEF GateHeld, Lapsed, ValidityFresh
  <2>5. ASSUME NEW p \in GatePaths PROVE GateStep(g, OnSnapshot(g, p))
    <3>1. /\ ~ValidityFresh(OnSnapshot(g, p)) /\ OnSnapshot(g, p).path = 0
          /\ OnSnapshot(g, p).pending = p /\ Activatable(OnSnapshot(g, p))
          /\ ~Lapsed(OnSnapshot(g, p))
      BY <2>1, GateSnapshot
    <3>2. GateHeld(OnSnapshot(g, p)) \in 1..MaxMaps
      BY <1>0, <3>1 DEF GateHeld
    <3>. QED BY <3>1, <3>2 DEF GateStep, EpisodeStep
  <2>6. GateHeld(OnGateValidity(g, TRUE)) = 0
    <3>1. GateInvalidate(g).path = 0 /\ GateInvalidate(g).pending = 0
      BY DEF GateInvalidate, GateType
    <3>2. LET k == [GateInvalidate(g) EXCEPT !.has = TRUE, !.valid = TRUE, !.age = 0] IN
          k \in GateType /\ k.path = 0 /\ k.pending = 0
      <4>1. \A h \in GateType : [h EXCEPT !.has = TRUE, !.valid = TRUE, !.age = 0] \in GateType
        BY <1>0 DEF GateType
      <4>. QED BY <2>1, <3>1, <4>1 DEF GateType
    <3>3. OnGateValidity(g, TRUE) =
            ActivatePending([GateInvalidate(g) EXCEPT !.has = TRUE, !.valid = TRUE, !.age = 0])
      BY <2>1 DEF OnGateValidity
    <3>4. \A k \in GateType : k.path = 0 /\ k.pending = 0 => GateHeld(k) = 0
      BY DEF GateHeld, Activatable
    <3>. QED BY <1>2, <3>2, <3>3, <3>4
  <2>7. GateHeld(OnGateValidity(g, FALSE)) = 0 /\ ~ValidityFresh(OnGateValidity(g, FALSE))
    <3>1. [g EXCEPT !.has = TRUE, !.age = 0] \in GateType
      BY <1>0 DEF GateType
    <3>. QED BY <1>1, <3>1 DEF OnGateValidity
  <2>. QED BY <2>2, <2>3, <2>4, <2>5, <2>6, <2>7, GateFresh DEF GateStep, EpisodeStep
<1>4. CASE ~Lapsed(g)
  <2>1. InvalidateIfStale(g) = g
    BY <1>4 DEF InvalidateIfStale
  <2>2. /\ GateHeld(AfterRead(g)) = GateHeld(g)
        /\ ValidityFresh(AfterRead(g)) <=> ValidityFresh(g)
    BY <1>2, <2>1 DEF AfterRead
  <2>3. \/ GateHeld(AgeGate(g)) = 0 /\ ~ValidityFresh(AgeGate(g))
        \/ GateHeld(AgeGate(g)) = GateHeld(g) /\ (ValidityFresh(AgeGate(g)) <=> ValidityFresh(g))
    BY <1>4 DEF AgeGate, GateHeld, Activatable, Lapsed, ValidityFresh, GateType
  <2>4. ASSUME NEW p \in GatePaths PROVE GateStep(g, OnSnapshot(g, p))
    <3>1. /\ ValidityFresh(OnSnapshot(g, p)) = ValidityFresh(g)
          /\ GateHeld(OnSnapshot(g, p)) = p
      BY <1>0, GateSnapshot DEF GateHeld, Lapsed
    <3>. QED BY <1>0, <3>1 DEF GateStep, EpisodeStep
  <2>5. GateHeld(OnGateValidity(g, TRUE)) = GateHeld(g)
    <3>1. LET k == [g EXCEPT !.has = TRUE, !.valid = TRUE, !.age = 0] IN
          /\ k \in GateType /\ k.path = g.path /\ k.pending = g.pending
          /\ GateHeld(k) = GateHeld(g)
      <4>1. [g EXCEPT !.has = TRUE, !.valid = TRUE, !.age = 0] \in GateType
        BY <1>0 DEF GateType
      <4>2. LET k == [g EXCEPT !.has = TRUE, !.valid = TRUE, !.age = 0] IN
            /\ k.path = g.path /\ k.pending = g.pending /\ k.age = 0
            /\ k.pendingGen = g.pendingGen /\ k.gen = g.gen /\ k.has = TRUE /\ k.valid = TRUE
        BY DEF GateType
      <4>3. ~Lapsed([g EXCEPT !.has = TRUE, !.valid = TRUE, !.age = 0])
        BY <1>0, <4>2 DEF Lapsed, ValidityFresh
      <4>. QED BY <1>4, <4>1, <4>2, <4>3 DEF GateHeld, Activatable
    <3>2. OnGateValidity(g, TRUE) =
            ActivatePending([g EXCEPT !.has = TRUE, !.valid = TRUE, !.age = 0])
      BY <2>1 DEF OnGateValidity
    <3>. QED BY <1>2, <3>1, <3>2
  <2>6. GateHeld(OnGateValidity(g, FALSE)) = 0 /\ ~ValidityFresh(OnGateValidity(g, FALSE))
    <3>1. [g EXCEPT !.has = TRUE, !.age = 0] \in GateType
      BY <1>0 DEF GateType
    <3>. QED BY <1>1, <3>1 DEF OnGateValidity
  <2>. QED BY <2>1, <2>2, <2>3, <2>4, <2>5, <2>6, GateFresh DEF GateStep, EpisodeStep
<1>. QED BY <1>3, <1>4

\* The Frenet conversion: it notices a lapse only with a heartbeat or its timer.
LEMMA FrenetSteps ==
  ASSUME NEW f \in FrenetType
  PROVE  /\ \A p \in FrenetPaths, builds \in BOOLEAN : FrenetStep(f, OnFrenetWaypoints(f, p, builds))
         /\ \A v \in BOOLEAN : FrenetStep(f, OnFrenetValidity(f, v))
         /\ FrenetStep(f, AgeFrenet(f)) /\ FrenetStep(f, FrenetInvalidateIfStale(f))
<1>0. /\ f.valid \in BOOLEAN /\ f.age \in Nat /\ FrenetTimeout \in Nat
      /\ 0 \in 0..(FrenetTimeout + 1)
      /\ \A p \in FrenetPaths : p \in 1..MaxMaps
  BY FrenetAssumption, PathChainAssumption DEF FrenetType
<1>1. FrenetHeld(FrenetInvalidate(f)) = 0 /\ ~FrenetLive(FrenetInvalidate(f))
  BY DEF FrenetInvalidate, FrenetHeld, FrenetLive, FrenetType
<1>2. FrenetStep(f, FrenetInvalidateIfStale(f))
  BY <1>1, NoStep DEF FrenetInvalidateIfStale, FrenetStep, EpisodeStep
<1>3. FrenetStep(f, AgeFrenet(f))
  <2>1. /\ Older(f.age, FrenetTimeout + 1) >= f.age /\ Older(f.age, FrenetTimeout + 1) \in Nat
    BY <1>0, OlderBounds DEF FrenetType
  <2>2. /\ AgeFrenet(f).age = Older(f.age, FrenetTimeout + 1)
        /\ AgeFrenet(f).valid = f.valid /\ AgeFrenet(f).accepted = f.accepted
        /\ AgeFrenet(f).converter = f.converter
    BY DEF AgeFrenet, FrenetType
  <2>3. \/ FrenetHeld(AgeFrenet(f)) = 0 /\ ~FrenetLive(AgeFrenet(f))
        \/ /\ FrenetHeld(AgeFrenet(f)) = FrenetHeld(f)
           /\ FrenetLive(AgeFrenet(f)) <=> FrenetLive(f)
    BY <1>0, <2>1, <2>2 DEF FrenetHeld, FrenetLive, FrenetLapsed
  <2>. QED BY <2>3 DEF FrenetStep, EpisodeStep
<1>4. ASSUME NEW p \in FrenetPaths, NEW builds \in BOOLEAN
      PROVE  FrenetStep(f, OnFrenetWaypoints(f, p, builds))
  <2>1. CASE p = f.raw
    BY <2>1, NoStep DEF OnFrenetWaypoints
  <2>2. CASE p # f.raw /\ ~builds
    <3>1. OnFrenetWaypoints(f, p, builds) = [f EXCEPT !.failed = TRUE]
      BY <2>2 DEF OnFrenetWaypoints
    <3>2. /\ FrenetHeld(OnFrenetWaypoints(f, p, builds)) = FrenetHeld(f)
          /\ FrenetLive(OnFrenetWaypoints(f, p, builds)) <=> FrenetLive(f)
      BY <3>1 DEF FrenetHeld, FrenetLapsed, FrenetLive, FrenetType
    <3>. QED BY <3>2 DEF FrenetStep, EpisodeStep
  <2>3. CASE p # f.raw /\ builds
    <3>1. OnFrenetWaypoints(f, p, builds) =
            [f EXCEPT !.converter = p, !.raw = p, !.accepted = TRUE, !.failed = FALSE]
      BY <2>3 DEF OnFrenetWaypoints
    <3>2. /\ FrenetHeld(OnFrenetWaypoints(f, p, builds)) = IF FrenetLapsed(f) THEN 0 ELSE p
          /\ FrenetLive(OnFrenetWaypoints(f, p, builds)) <=> FrenetLive(f)
      BY <3>1 DEF FrenetHeld, FrenetLapsed, FrenetLive, FrenetType
    <3>. QED BY <1>0, <3>2 DEF FrenetStep, EpisodeStep, FrenetLapsed, FrenetLive
  <2>. QED BY <2>1, <2>2, <2>3
<1>5. FrenetStep(f, OnFrenetValidity(f, FALSE))
  BY <1>1 DEF OnFrenetValidity, FrenetStep, EpisodeStep
<1>6. FrenetStep(f, OnFrenetValidity(f, TRUE))
  <2>. DEFINE n == FrenetInvalidateIfStale(f)
  <2>1. /\ n \in FrenetType
        /\ OnFrenetValidity(f, TRUE) = [n EXCEPT !.valid = TRUE, !.age = 0]
    BY FrenetOps DEF OnFrenetValidity
  <2>2. n.accepted => ~FrenetLapsed(f) /\ f.accepted /\ n.converter = f.converter
    BY DEF FrenetInvalidateIfStale, FrenetInvalidate, FrenetType
  <2>3. ~FrenetLapsed(f) => n = f
    BY DEF FrenetInvalidateIfStale
  <2>. HIDE DEF n
  <2>4. FrenetLive(OnFrenetValidity(f, TRUE)) /\ ~FrenetLapsed(OnFrenetValidity(f, TRUE))
    <3>1. OnFrenetValidity(f, TRUE).valid = TRUE /\ OnFrenetValidity(f, TRUE).age = 0
      BY <2>1 DEF FrenetType
    <3>2. \A h : h.valid = TRUE /\ h.age = 0 => FrenetLive(h) /\ ~FrenetLapsed(h)
      BY <1>0 DEF FrenetLive, FrenetLapsed
    <3>. QED BY <3>1, <3>2
  <2>5. FrenetHeld(OnFrenetValidity(f, TRUE)) = IF n.accepted THEN n.converter ELSE 0
    BY <2>1, <2>4 DEF FrenetHeld, FrenetType
  <2>6. FrenetHeld(OnFrenetValidity(f, TRUE)) \in {FrenetHeld(f), 0}
    BY <2>2, <2>5 DEF FrenetHeld
  <2>. QED BY <2>4, <2>6 DEF FrenetStep, EpisodeStep
<1>. QED BY <1>2, <1>3, <1>4, <1>5, <1>6

\* The state machine: a snapshot in a lapsed episode is held only after the lapse is
\* noticed, which drops it.
LEMMA StateSteps ==
  ASSUME NEW r \in ReadinessType, r.invGen <= r.msgGen
  PROVE  /\ \A p \in 1..MaxMaps : StateStep(r, OnWaypoints(r, 1, p))
         /\ \A v \in BOOLEAN : StateStep(r, OnValidity(r, v))
         /\ StateStep(r, AgeReadiness(r)) /\ StateStep(r, RefreshValidity(r))
         /\ StateStep(r, OnStatus(r, "localization"))
<1>0. /\ r.hasValid \in BOOLEAN /\ r.valid \in BOOLEAN /\ r.validAge \in Nat
      /\ r.msgGen \in Nat /\ r.invGen \in Nat /\ r.accGen \in Nat
      /\ ValidTimeout \in Nat /\ 0 \in 0..(ValidTimeout + 1)
  BY ReadinessAssumption DEF ReadinessType
<1>1. ASSUME NEW h \in ReadinessType, ~h.valid
      PROVE  StateHeld(Invalidate(h)) = 0 /\ ~HasFreshValidity(Invalidate(h))
  BY <1>1 DEF Invalidate, StateHeld, HasFreshValidity, ReadinessType
<1>2. /\ StateLapsed(r) => /\ ~RefreshValidity(r).has
                           /\ StateHeld(RefreshValidity(r)) = 0
                           /\ ~HasFreshValidity(RefreshValidity(r))
      /\ ~StateLapsed(r) => RefreshValidity(r) = r
  <2>1. [r EXCEPT !.valid = FALSE] \in ReadinessType /\ ~[r EXCEPT !.valid = FALSE].valid
    BY DEF ReadinessType
  <2>2. \A h \in ReadinessType : ~Invalidate(h).has
    BY DEF Invalidate, ReadinessType
  <2>. QED BY <1>1, <2>1, <2>2 DEF RefreshValidity, StateLapsed
<1>3. StateStep(r, RefreshValidity(r))
  BY <1>2, NoStep DEF StateStep, EpisodeStep
<1>4. StateStep(r, OnStatus(r, "localization"))
  BY DEF OnStatus, StateStep, EpisodeStep, StateHeld, StateLapsed, HasFreshValidity, ReadinessType
<1>5. StateStep(r, AgeReadiness(r))
  <2>1. /\ Older(r.validAge, ValidTimeout + 1) >= r.validAge
        /\ Older(r.validAge, ValidTimeout + 1) \in Nat
    BY <1>0, OlderBounds DEF ReadinessType
  <2>2. /\ AgeReadiness(r).validAge = Older(r.validAge, ValidTimeout + 1)
        /\ AgeReadiness(r).has = r.has /\ AgeReadiness(r).len = r.len
        /\ AgeReadiness(r).accGen = r.accGen /\ AgeReadiness(r).invGen = r.invGen
        /\ AgeReadiness(r).hasValid = r.hasValid /\ AgeReadiness(r).valid = r.valid
    BY DEF AgeReadiness, ReadinessType
  <2>3. \/ StateHeld(AgeReadiness(r)) = 0 /\ ~HasFreshValidity(AgeReadiness(r))
        \/ /\ StateHeld(AgeReadiness(r)) = StateHeld(r)
           /\ HasFreshValidity(AgeReadiness(r)) <=> HasFreshValidity(r)
    BY <1>0, <2>1, <2>2 DEF StateHeld, StateLapsed, HasFreshValidity
  <2>. QED BY <2>3 DEF StateStep, EpisodeStep
<1>6. ASSUME NEW p \in 1..MaxMaps PROVE StateStep(r, OnWaypoints(r, 1, p))
  <2>. DEFINE w == OnWaypoints(r, 1, p)
  <2>1. /\ w.has = TRUE /\ w.accGen = r.msgGen + 1 /\ w.len = p /\ w.invGen = r.invGen
        /\ w.hasValid = r.hasValid /\ w.valid = r.valid /\ w.validAge = r.validAge
    BY DEF OnWaypoints, ReadinessType
  <2>. HIDE DEF w
  <2>2. StateHeld(w) = (IF StateLapsed(r) THEN 0 ELSE p) /\ (HasFreshValidity(w) <=> HasFreshValidity(r))
    BY <1>0, <2>1 DEF StateHeld, StateLapsed, HasFreshValidity
  <2>3. StateLapsed(r) => StateHeld(r) = 0
    BY DEF StateHeld
  <2>. QED BY <2>2, <2>3 DEF StateStep, EpisodeStep, w
<1>7. ASSUME NEW v \in BOOLEAN PROVE StateStep(r, OnValidity(r, v))
  <2>. DEFINE n == [RefreshValidity(r) EXCEPT !.hasValid = TRUE, !.valid = v, !.validAge = 0]
  <2>1. /\ n \in ReadinessType /\ n.hasValid = TRUE /\ n.valid = v /\ n.validAge = 0
        /\ n.has = RefreshValidity(r).has /\ n.len = RefreshValidity(r).len
        /\ n.accGen = RefreshValidity(r).accGen /\ n.invGen = RefreshValidity(r).invGen
    <3>1. RefreshValidity(r) \in ReadinessType
      BY ReadinessOps
    <3>2. \A h \in ReadinessType :
            [h EXCEPT !.hasValid = TRUE, !.valid = v, !.validAge = 0] \in ReadinessType
      BY <1>0 DEF ReadinessType
    <3>. QED BY <3>1, <3>2 DEF ReadinessType
  <2>2. OnValidity(r, v) = IF v THEN n ELSE Invalidate(n)
    BY DEF OnValidity
  <2>. HIDE DEF n
  <2>3. CASE v = TRUE
    <3>1. HasFreshValidity(n) /\ ~StateLapsed(n)
      BY <1>0, <2>1, <2>3 DEF HasFreshValidity, StateLapsed
    <3>2. StateHeld(n) \in {StateHeld(r), 0}
      BY <1>2, <2>1, <3>1 DEF StateHeld
    <3>. QED BY <2>2, <2>3, <3>1, <3>2 DEF StateStep, EpisodeStep
  <2>4. CASE v = FALSE
    BY <1>1, <2>1, <2>2, <2>4 DEF StateStep, EpisodeStep
  <2>. QED BY <2>3, <2>4
<1>. QED BY <1>3, <1>4, <1>5, <1>6, <1>7

\* Every step of the chain is a step of each consumer's protocol, or none.
LEMMA ChainSteps ==
  ASSUME ChainTypeOK, BooksInv, [ChainNext]_pathVars
  PROVE  GateStep(gate, gate') /\ FrenetStep(frenet, frenet') /\ StateStep(readiness, readiness')
<1>0. /\ {"readiness", "gate", "frenet"} = Consumers
      /\ readiness \in ReadinessType /\ gate \in GateType /\ frenet \in FrenetType
      /\ gate.path = 0 \/ gate.pending = 0
      /\ readiness.invGen <= readiness.msgGen
  BY DEF Consumers, ChainTypeOK, BooksInv
<1>1. CASE ConeMap \/ EgoOdom \/ UNCHANGED pathVars
  BY <1>1, NoStep DEF ConeMap, EgoOdom, pathVars, nodes
<1>2. CASE Localize
  BY <1>0, <1>2, NoStep, StateSteps DEF Localize
<1>3. ASSUME NEW builds \in Builds, PlannerHeartbeat(builds)
      PROVE  UNCHANGED <<readiness, gate, frenet>>
  BY <1>3 DEF PlannerHeartbeat
<1>4. CASE StatePath
  BY <1>0, <1>4, NoStep, StateSteps, Takes DEF StatePath
<1>5. CASE StateValidity
  BY <1>0, <1>5, NoStep, StateSteps, Takes DEF StateValidity
<1>6. CASE StateTimer
  BY <1>0, <1>6, NoStep, StateSteps DEF StateTimer
<1>7. CASE GatePath
  BY <1>0, <1>7, NoStep, GateSteps, Takes, PathSets DEF GatePath
<1>8. CASE GateValidity
  BY <1>0, <1>8, NoStep, GateSteps, Takes DEF GateValidity
<1>9. CASE GateTimer
  BY <1>0, <1>9, NoStep, GateSteps DEF GateTimer
<1>10. CASE FrenetWaypoints
  <2>1. PICK builds \in ClcsBuilds : frenet' = OnFrenetWaypoints(frenet, path["frenet"], builds)
    BY <1>10 DEF FrenetWaypoints
  <2>2. builds \in BOOLEAN
    BY PathChainAssumption
  <2>3. path["frenet"] \in FrenetPaths
    <3>1. TakePath("frenet")
      BY <1>10 DEF FrenetWaypoints
    <3>. QED BY <1>0, <3>1, Takes, PathChainAssumption
  <2>. QED BY <1>0, <1>10, <2>1, <2>2, <2>3, NoStep, FrenetSteps DEF FrenetWaypoints
<1>11. CASE FrenetValidity
  BY <1>0, <1>11, NoStep, FrenetSteps, Takes DEF FrenetValidity
<1>12. CASE FrenetTimer
  BY <1>0, <1>12, NoStep, FrenetSteps DEF FrenetTimer
<1>13. CASE Elapse
  BY <1>0, <1>13, GateSteps, FrenetSteps, StateSteps DEF Elapse
<1>. QED BY <1>1, <1>2, <1>3, <1>4, <1>5, <1>6, <1>7, <1>8, <1>9, <1>10, <1>11, <1>12, <1>13,
            NoStep DEF ChainNext, Consume

\* ConsumersKeepEpisodes for every timeout, queue depth and number of maps and faults:
\* the gate, the Frenet conversion and the state machine's readiness each implement
\* PathEpisode, so after a false or lapsed heartbeat none of them uses a path it had
\* before, however the two topics and the three timers interleave.
THEOREM ConsumersImplementEpisodes == ChainSpec => ConsumersKeepEpisodes
<1>1. ChainInit => GateEpisode!EpisodeInit /\ FrenetEpisode!EpisodeInit /\ StateEpisode!EpisodeInit
  BY DEF ChainInit, GateInit, FrenetInit, ReadinessInit, GateEpisode!EpisodeInit,
         FrenetEpisode!EpisodeInit, StateEpisode!EpisodeInit, Lapsed, Activatable,
         ValidityFresh, FrenetLapsed, HasFreshValidity
<1>2. ChainTypeOK /\ ChainTypeOK' /\ BooksInv /\ [ChainNext]_pathVars =>
        /\ [GateEpisode!EpisodeNext]_(GateEpisode!episodeVars)
        /\ [FrenetEpisode!EpisodeNext]_(FrenetEpisode!episodeVars)
        /\ [StateEpisode!EpisodeNext]_(StateEpisode!episodeVars)
  BY ChainSteps, EpisodeSteps
<1>. QED BY <1>1, <1>2, LatestInvariant, PTL
     DEF ChainSpec, ConsumersKeepEpisodes, GateEpisode!EpisodeSpec,
         FrenetEpisode!EpisodeSpec, StateEpisode!EpisodeSpec

=============================================================================
