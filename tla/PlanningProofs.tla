--------------------------- MODULE PlanningProofs ---------------------------
(***************************************************************************)
(* Proofs about the planning state machine, for every value of the         *)
(* constants: its types, the safety of GLOBAL entry and the lap count.     *)
(***************************************************************************)
EXTENDS PlanningHistory, TLAPS

-----------------------------------------------------------------------------
(* Ages.                                                                     *)

\* An age grows within its cap, and the older of two ages stays the older.
LEMMA OlderBounds ==
  ASSUME NEW cap \in Nat, NEW age \in 0..cap
  PROVE  /\ Older(age, cap) \in 0..cap
         /\ Older(age, cap) >= age
         /\ \A b \in 0..cap : age <= b => Older(age, cap) <= Older(b, cap)
  BY DEF Older

-----------------------------------------------------------------------------
(* The operators on one component's record keep its type.                    *)

\* The readiness operators stay in their type.
LEMMA ReadinessOps ==
  ASSUME NEW r \in ReadinessType
  PROVE  /\ AgeReadiness(r) \in ReadinessType
         /\ Invalidate(r) \in ReadinessType
         /\ RefreshValidity(r) \in ReadinessType
         /\ \A v \in BOOLEAN : OnValidity(r, v) \in ReadinessType
         /\ \A st \in SlamStatus : OnStatus(r, st) \in ReadinessType
         /\ \A count \in Nat, len \in 0..MaxPathLength :
              OnWaypoints(r, count, len) \in ReadinessType
<1>0. 0 \in 0..MaxPathLength /\ 0 \in 0..(ValidTimeout + 1) /\ ValidTimeout + 1 \in Nat
  BY ReadinessAssumption
<1>1. AgeReadiness(r) \in ReadinessType
  <2>1. Older(r.validAge, ValidTimeout + 1) \in 0..(ValidTimeout + 1)
    BY <1>0, OlderBounds DEF ReadinessType
  <2>. QED BY <2>1 DEF ReadinessType, AgeReadiness
<1>2. \A q \in ReadinessType : Invalidate(q) \in ReadinessType
  BY <1>0 DEF ReadinessType, Invalidate
<1>3. RefreshValidity(r) \in ReadinessType
  <2>1. [r EXCEPT !.valid = FALSE] \in ReadinessType
    BY DEF ReadinessType
  <2>. QED BY <1>2, <2>1 DEF RefreshValidity
<1>4. ASSUME NEW v \in BOOLEAN PROVE OnValidity(r, v) \in ReadinessType
  <2>1. [RefreshValidity(r) EXCEPT !.hasValid = TRUE, !.valid = v, !.validAge = 0]
          \in ReadinessType
    BY <1>0, <1>3 DEF ReadinessType
  <2>. QED BY <1>2, <2>1 DEF OnValidity
<1>5. \A st \in SlamStatus : OnStatus(r, st) \in ReadinessType
  BY DEF OnStatus, ReadinessType
<1>6. ASSUME NEW count \in Nat, NEW len \in 0..MaxPathLength
      PROVE  OnWaypoints(r, count, len) \in ReadinessType
  <2>1. [r EXCEPT !.msgGen = @ + 1] \in ReadinessType
    BY DEF ReadinessType
  <2>2. \A q \in ReadinessType :
          [q EXCEPT !.has = TRUE, !.accGen = q.msgGen, !.len = len] \in ReadinessType
    BY DEF ReadinessType
  <2>. QED BY <2>1, <2>2 DEF OnWaypoints
<1>. QED BY <1>1, <1>2, <1>3, <1>4, <1>5, <1>6

\* So do those of the handoff gate.
LEMMA HandoffOps ==
  ASSUME NEW h \in HandoffType
  PROVE  /\ AgeHandoff(h) \in HandoffType
         /\ RefreshHandoff(h) \in HandoffType
         /\ \A v \in BOOLEAN : ObserveHandoff(h, v) \in HandoffType
<1>0. 0 \in 0..EntryDwell /\ 0 \in 0..(HandoffTimeout + 1)
      /\ HandoffTimeout + 1 \in Nat /\ EntryDwell \in Nat
  BY ReadinessAssumption
<1>1. AgeHandoff(h) \in HandoffType
  <2>1. /\ Older(h.age, HandoffTimeout + 1) \in 0..(HandoffTimeout + 1)
        /\ Older(h.dwellAge, EntryDwell) \in 0..EntryDwell
    BY <1>0, OlderBounds DEF HandoffType
  <2>. QED BY <2>1 DEF HandoffType, AgeHandoff
<1>2. RefreshHandoff(h) \in HandoffType
  BY DEF HandoffType, RefreshHandoff
<1>3. ASSUME NEW v \in BOOLEAN PROVE ObserveHandoff(h, v) \in HandoffType
  <2>1. [h EXCEPT !.hasValue = TRUE, !.value = v, !.age = 0] \in HandoffType
    BY <1>0 DEF HandoffType
  <2>2. \A q \in HandoffType :
          /\ [q EXCEPT !.dwelling = FALSE] \in HandoffType
          /\ [q EXCEPT !.dwelling = TRUE, !.dwellAge = 0] \in HandoffType
    BY <1>0 DEF HandoffType
  <2>. QED BY <2>1, <2>2 DEF ObserveHandoff
<1>. QED BY <1>1, <1>2, <1>3

\* And those of the seam-wrap estimator.
LEMMA PolicyOps ==
  ASSUME NEW p \in PolicyType
  PROVE  /\ AgePolicy(p) \in PolicyType
         /\ RefreshSample(p) \in PolicyType
         /\ \A st \in SlamStatus : ObserveGraphSlamStatus(p, st) \in PolicyType
         /\ \A m \in Snapshots : AcceptPath(p, m) \in PolicyType
         /\ \A s \in Nat : ObserveFrenetSample(p, s) \in PolicyType
<1>0. /\ 0 \in 0..MaxLapPath /\ 0 \in 0..WrapCooldown /\ WrapCooldown \in Nat
      /\ 0 \in 0..(FrenetTimeout + 1) /\ FrenetTimeout + 1 \in Nat
  BY LapTrackingAssumption
<1>a. DropSample(p) \in PolicyType
  BY DEF PolicyType, DropSample
<1>1. AgePolicy(p) \in PolicyType
  <2>1. /\ Older(p.prevAge, FrenetTimeout + 1) \in 0..(FrenetTimeout + 1)
        /\ Older(p.countAge, WrapCooldown) \in 0..WrapCooldown
    BY <1>0, OlderBounds DEF PolicyType
  <2>. QED BY <2>1 DEF PolicyType, AgePolicy
<1>2. RefreshSample(p) \in PolicyType
  BY <1>a DEF RefreshSample
<1>3. ASSUME NEW st \in SlamStatus PROVE ObserveGraphSlamStatus(p, st) \in PolicyType
  <2>1. (p.discovery \/ CountsDiscovery(p, st)) \in BOOLEAN
    OBVIOUS
  <2>. QED BY <2>1 DEF PolicyType, ObserveGraphSlamStatus, SlamStatus
<1>4. ASSUME NEW m \in Snapshots PROVE AcceptPath(p, m) \in PolicyType
  <2>1. m.len + m.gap \in 0..MaxLapPath
    BY PlanningAssumption, ReadinessAssumption
  <2>2. \A l \in 0..MaxLapPath, b \in BOOLEAN :
          [DropSample(p) EXCEPT !.pathValid = b, !.len = l] \in PolicyType
    BY <1>a DEF PolicyType
  <2>. QED BY <1>0, <2>1, <2>2 DEF AcceptPath
<1>5. ASSUME NEW s \in Nat PROVE ObserveFrenetSample(p, s) \in PolicyType
  <2>. DEFINE here == [RefreshSample(p) EXCEPT !.hasPrev = TRUE, !.prevS = s, !.prevAge = 0]
  <2>1. ASSUME UsableSample(p, s) PROVE here \in PolicyType
    <3>1. s \in 0..MaxLapPath
      BY <2>1, LapTrackingAssumption DEF UsableSample, PolicyType
    <3>. QED BY <1>0, <1>2, <3>1 DEF PolicyType
  <2>2. \A a, b \in BOOLEAN, c \in 0..WrapCooldown : here \in PolicyType =>
          [here EXCEPT !.armed = a, !.hasCount = b, !.countAge = c] \in PolicyType
    BY DEF PolicyType
  <2>3. \A a \in BOOLEAN : here \in PolicyType => [here EXCEPT !.armed = a] \in PolicyType
    BY DEF PolicyType
  <2>4. CountsWrap(p, s) \in BOOLEAN
    BY DEF CountsWrap
  <2>. HIDE DEF here
  <2>5. here \in PolicyType => here.countAge \in 0..WrapCooldown
    BY DEF PolicyType
  <2>. QED
    BY <1>0, <1>a, <2>1, <2>2, <2>3, <2>4, <2>5 DEF ObserveFrenetSample, here
<1>. QED BY <1>1, <1>2, <1>3, <1>4, <1>5

\* And those of the gate tracker.
LEMMA GateOps ==
  ASSUME NEW g \in GateType
  PROVE  /\ AgeGate(g) \in GateType
         /\ \A pos \in Cells, side \in {-1, 1} : UpdateGate(g, pos, side) \in GateType
         /\ \A p \in Cells : ObserveEgo(g, p) \in GateType
<1>0. /\ GateSampleGap + 1 \in Nat /\ 0 \in 0..(GateSampleGap + 1)
      /\ GateCooldown \in Nat /\ 0 \in 0..GateCooldown
  BY LapTrackingAssumption
<1>1. AgeGate(g) \in GateType
  <2>1. /\ Older(g.prevAge, GateSampleGap + 1) \in 0..(GateSampleGap + 1)
        /\ Older(g.countAge, GateCooldown) \in 0..GateCooldown
    BY <1>0, OlderBounds DEF GateType
  <2>. QED BY <2>1 DEF GateType, AgeGate
<1>2. ASSUME NEW pos \in Cells, NEW side \in {-1, 1}
      PROVE  UpdateGate(g, pos, side) \in GateType
  <2>1. \A a, b \in BOOLEAN :
          [g EXCEPT !.valid = TRUE, !.pos = pos, !.side = side, !.hasPrev = a, !.armed = b]
            \in GateType
    BY DEF GateType
  <2>2. g.hasPrev \in BOOLEAN /\ g.armed \in BOOLEAN
    BY DEF GateType
  <2>. QED BY <2>1, <2>2 DEF UpdateGate
<1>3. ASSUME NEW p \in Cells PROVE ObserveEgo(g, p) \in GateType
  <2>. DEFINE a == Approach(g, p)
              here == [a EXCEPT !.hasPrev = TRUE, !.prev = p, !.prevAge = 0]
              turn == [here EXCEPT !.dir = RunSign(g, Sign(g, p))]
              line == [turn EXCEPT !.timer = TRUE, !.hasCount = TRUE, !.countAge = 0,
                                   !.armed = FALSE]
  <2>1. a \in GateType
    <3>1. \A b, c \in BOOLEAN : [g EXCEPT !.armed = b, !.hasPrev = c] \in GateType
      BY DEF GateType
    <3>2. g.hasPrev \in BOOLEAN /\ g.armed \in BOOLEAN
      BY DEF GateType
    <3>. QED BY <3>1, <3>2 DEF Approach
  <2>2. here \in GateType
    BY <1>0, <2>1 DEF GateType
  <2>3. RunSign(g, Sign(g, p)) \in {-1, 0, 1}
    <3>1. Crossing(g.pos, g.prev, p) \in {-1, 0, 1}
      BY DEF Crossing
    <3>2. Sign(g, p) \in {-1, 0, 1}
      <4>1. g.side \in {-1, 1}
        BY DEF GateType
      <4>2. CASE g.side = 1
        BY <3>1, <4>2 DEF Sign
      <4>3. CASE g.side = -1
        BY <3>1, <4>3 DEF Sign
      <4>. QED BY <4>1, <4>2, <4>3
    <3>. QED BY <3>2 DEF RunSign, GateType
  <2>4. turn \in GateType
    BY <2>2, <2>3 DEF GateType
  <2>5. line \in GateType
    BY <1>0, <2>4 DEF GateType
  <2>. HIDE DEF a, here, turn, line
  <2>6. [line EXCEPT !.counted = @ + 1] \in GateType
    BY <2>5 DEF GateType
  <2>7. ObserveEgo(g, p) \in {g, here, line, [line EXCEPT !.counted = @ + 1], turn}
    BY DEF ObserveEgo, a, here, turn, line
  <2>. QED BY <2>2, <2>4, <2>5, <2>6, <2>7
<1>. QED BY <1>1, <1>2, <1>3

-----------------------------------------------------------------------------
(* Types.                                                                    *)

\* The count published is a natural number whatever the estimators say.
LEMMA RecomputedType ==
  ASSUME NEW l \in LapType, NEW g \in GateType
  PROVE  Recomputed(l, g) \in LapType
<1>1. \A a, b \in Int : Larger(a, b) \in Int /\ Larger(a, b) >= a
  BY DEF Larger
<1>2. AuthoritativeLapCount(l.count, InitialLaps, l.discovery, g.counted, l.atDiscovery,
                            g.valid, l.fallback) \in Nat
  BY <1>1, PlanningAssumption DEF AuthoritativeLapCount, LapType, GateType, Larger
<1>. QED
  BY <1>2 DEF Recomputed, LapType

\* Every field of the published record is of its type.
LEMMA PublishedType ==
  ASSUME NEW st \in States, NEW laps \in Nat, NEW done \in BOOLEAN
  PROVE  Published(st, laps, done) \in OutType
<1>1. PathSource(st, laps) \in PathSources
  BY DEF PathSource, PathSources, States
<1>. QED BY <1>1 DEF Published, OutType

\* updateState decides one of the three states.
LEMMA NextStateType ==
  ASSUME NEW r, NEW h, state \in States
  PROVE  NextState(r, h) \in States
  BY DEF NextState, States, TargetLapsReached

\* The initial state is well typed.
LEMMA InitType == Init => TypeOK
<1>. SUFFICES ASSUME Init PROVE TypeOK
  OBVIOUS
<1>1. readiness \in ReadinessType
  BY ReadinessAssumption DEF Init, ReadinessInit, ReadinessType, SlamStatus
<1>2. handoff \in HandoffType
  BY ReadinessAssumption DEF Init, HandoffInit, HandoffType
<1>3. policy \in PolicyType
  BY LapTrackingAssumption, PlanningAssumption DEF Init, PolicyInit, PolicyType
<1>4. gate \in GateType
  BY LapTrackingAssumption DEF Init, GateInit, GateType, Cells
<1>5. lap \in LapType /\ motion \in MotionType
  BY PlanningAssumption DEF Init, LapType, MotionType
<1>6. frenet \in FrenetType
  BY LapTrackingAssumption DEF Init, FrenetType
<1>7. zone \in ZoneType
  BY PlanningAssumption DEF Init, ZoneType
<1>8. state \in States /\ finished \in BOOLEAN /\ driving \in BOOLEAN
  BY DEF Init, States
<1>9. out \in OutType
  BY PublishedType, PlanningAssumption DEF Init, States
<1>. QED BY <1>1, <1>2, <1>3, <1>4, <1>5, <1>6, <1>7, <1>8, <1>9 DEF TypeOK

\* The node's callbacks, on any input of the right type.
Callback ==
  \/ OnAsState
  \/ \E s \in Nat, dOk \in BOOLEAN : OnFrenetOdom(s, dOk)
  \/ \E pos \in Cells, side \in {-1, 1} : OnSlamConeMap(pos, side)
  \/ \E speed \in Speeds, p \in Cells : OnEgoOdom(speed, p)
  \/ \E m \in Snapshots : OnGlobalWaypoints(m)
  \/ \E st \in SlamStatus : OnGraphSlamStatus(st)
  \/ \E v \in BOOLEAN : OnGlobalPathValid(v) \/ OnGlobalHandoffReady(v) \/ OnStopZoneValid(v)
  \/ \E s \in Nat : OnStopZoneSStart(s) \/ OnStopZoneSEnd(s)
  \/ OnTimer
  \/ Tick

\* A callback keeps every variable in its type.
LEMMA CallbackType == TypeOK /\ Callback => TypeOK'
<1>. SUFFICES ASSUME TypeOK, Callback PROVE TypeOK'
  OBVIOUS
<1>. USE DEF TypeOK
<1>1. CASE OnAsState
  BY <1>1 DEF OnAsState
<1>2. ASSUME NEW s \in Nat, NEW dOk \in BOOLEAN, OnFrenetOdom(s, dOk) PROVE TypeOK'
  <2>1. 0 \in 0..(FrenetTimeout + 1)
    BY LapTrackingAssumption
  <2>2. frenet' \in FrenetType
    BY <1>2, <2>1 DEF OnFrenetOdom, FrenetType
  <2>3. policy' \in PolicyType
    BY <1>2, <2>1, PolicyOps DEF OnFrenetOdom
  <2>4. [lap EXCEPT !.fallback = @ + 1] \in LapType
    BY DEF LapType
  <2>5. lap' \in LapType
    BY <1>2, <2>4, RecomputedType DEF OnFrenetOdom, LapAfterFrenet
  <2>. QED BY <1>2, <2>2, <2>3, <2>5 DEF OnFrenetOdom
<1>3. ASSUME NEW pos \in Cells, NEW side \in {-1, 1}, OnSlamConeMap(pos, side) PROVE TypeOK'
  BY <1>3, GateOps DEF OnSlamConeMap
<1>4. ASSUME NEW speed \in Speeds, NEW p \in Cells, OnEgoOdom(speed, p) PROVE TypeOK'
  <2>2. motion' \in MotionType
    <3>1. 0 \in 0..RestDuration
      BY PlanningAssumption
    <3>2. motion.restAge \in 0..RestDuration /\ motion.moved \in BOOLEAN
      BY DEF MotionType
    <3>3. \A a \in BOOLEAN, c \in 0..RestDuration :
            [moved |-> a, seen |-> TRUE, restAge |-> c] \in MotionType
      BY DEF MotionType
    <3>4. MotionAfter(speed) \in MotionType
      BY <3>1, <3>2, <3>3 DEF MotionAfter
    <3>. QED BY <1>4, <3>4 DEF OnEgoOdom
  <2>3. gate' \in GateType
    BY <1>4, GateOps DEF OnEgoOdom
  <2>4. lap' \in LapType
    BY <1>4, <2>3, RecomputedType DEF OnEgoOdom
  <2>. QED BY <1>4, <2>2, <2>3, <2>4 DEF OnEgoOdom
<1>5. ASSUME NEW m \in Snapshots, OnGlobalWaypoints(m) PROVE TypeOK'
  <2>1. m.count \in Nat /\ m.len \in 0..MaxPathLength
    BY PlanningAssumption
  <2>. QED BY <1>5, <2>1, PolicyOps, ReadinessOps DEF OnGlobalWaypoints
<1>6. ASSUME NEW st \in SlamStatus, OnGraphSlamStatus(st) PROVE TypeOK'
  <2>1. [lap EXCEPT !.discovery = TRUE, !.atDiscovery = gate.counted] \in LapType
    BY DEF LapType, GateType
  <2>2. lap' \in LapType
    BY <1>6, <2>1, RecomputedType DEF OnGraphSlamStatus, LapAfterStatus
  <2>. QED BY <1>6, <2>2, PolicyOps, ReadinessOps DEF OnGraphSlamStatus
<1>7. ASSUME NEW v \in BOOLEAN, OnGlobalPathValid(v) PROVE TypeOK'
  BY <1>7, ReadinessOps DEF OnGlobalPathValid
<1>8. ASSUME NEW v \in BOOLEAN, OnGlobalHandoffReady(v) PROVE TypeOK'
  BY <1>8, HandoffOps DEF OnGlobalHandoffReady
<1>9. ASSUME NEW s \in Nat, OnStopZoneSStart(s) \/ OnStopZoneSEnd(s) PROVE TypeOK'
  <2>1. 0 \in 0..(StopZoneTimeout + 1)
    BY PlanningAssumption
  <2>2. zone' \in ZoneType
    BY <1>9, <2>1 DEF OnStopZoneSStart, OnStopZoneSEnd, ZoneType
  <2>. QED BY <1>9, <2>2 DEF OnStopZoneSStart, OnStopZoneSEnd
<1>10. ASSUME NEW v \in BOOLEAN, OnStopZoneValid(v) PROVE TypeOK'
  <2>1. 0 \in 0..(StopZoneTimeout + 1)
    BY PlanningAssumption
  <2>2. zone' \in ZoneType
    BY <1>10, <2>1 DEF OnStopZoneValid, ZoneType
  <2>. QED BY <1>10, <2>2 DEF OnStopZoneValid
<1>11. CASE OnTimer
  <2>1. readiness' \in ReadinessType /\ handoff' \in HandoffType /\ policy' \in PolicyType
    BY <1>11, ReadinessOps, HandoffOps, PolicyOps DEF OnTimer
  <2>2. state' \in States
    BY <1>11, NextStateType DEF OnTimer
  <2>3. finished' \in BOOLEAN
    BY <1>11 DEF OnTimer, RestedAfterRun
  <2>4. lap.count \in Nat
    BY DEF LapType
  <2>5. out' \in OutType
    BY <1>11, <2>2, <2>3, <2>4, PublishedType DEF OnTimer
  <2>. QED BY <1>11, <2>1, <2>2, <2>3, <2>5 DEF OnTimer
<1>12. CASE Tick
  <2>1. /\ readiness' \in ReadinessType /\ handoff' \in HandoffType
        /\ policy' \in PolicyType /\ gate' \in GateType
    BY <1>12, ReadinessOps, HandoffOps, PolicyOps, GateOps DEF Tick
  <2>2. motion' \in MotionType
    <3>1. Older(motion.restAge, RestDuration) \in 0..RestDuration
      BY OlderBounds, PlanningAssumption DEF MotionType
    <3>. QED BY <1>12, <3>1 DEF Tick, MotionType
  <2>3. frenet' \in FrenetType
    <3>1. FrenetTimeout + 1 \in Nat
      BY LapTrackingAssumption
    <3>2. Older(frenet.age, FrenetTimeout + 1) \in 0..(FrenetTimeout + 1)
      BY <3>1, OlderBounds DEF FrenetType
    <3>. QED BY <1>12, <3>2 DEF Tick, FrenetType
  <2>4. zone' \in ZoneType
    <3>1. StopZoneTimeout + 1 \in Nat
      BY PlanningAssumption
    <3>2. /\ Older(zone.startAge, StopZoneTimeout + 1) \in 0..(StopZoneTimeout + 1)
          /\ Older(zone.endAge, StopZoneTimeout + 1) \in 0..(StopZoneTimeout + 1)
          /\ Older(zone.validAge, StopZoneTimeout + 1) \in 0..(StopZoneTimeout + 1)
      BY <3>1, OlderBounds DEF ZoneType
    <3>. QED BY <1>12, <3>2 DEF Tick, ZoneType
  <2>. QED BY <1>12, <2>1, <2>2, <2>3, <2>4 DEF Tick
<1>. QED
  BY <1>1, <1>2, <1>3, <1>4, <1>5, <1>6, <1>7, <1>8, <1>9, <1>10, <1>11, <1>12
     DEF Callback

\* The node's own steps are such callbacks.
LEMMA NextIsCallback == Next => Callback
<1>1. /\ FrenetS \subseteq Nat /\ StopZoneS \subseteq Nat /\ Flags \subseteq BOOLEAN
      /\ EgoSpeeds \subseteq Speeds /\ EgoCells \subseteq Cells
      /\ \A fit \in GateFits : fit[1] \in Cells /\ fit[2] \in {-1, 1}
  BY PlanningAssumption, SpeedAssumption
<1>. QED BY <1>1 DEF Next, OtherCallbacks, Callback

LEMMA NextType == TypeOK /\ Next => TypeOK'
  BY CallbackType, NextIsCallback

\* Without the history: every reachable state of the node is well typed.
THEOREM TypeCorrect == Spec => []TypeOK
<1>1. TypeOK /\ UNCHANGED vars => TypeOK'
  BY DEF TypeOK, vars
<1>. QED BY InitType, NextType, <1>1, PTL DEF Spec

-----------------------------------------------------------------------------
(* GLOBAL entry.                                                             *)

\* What the node does not know yet: its last heartbeat is a true one grown too old.
Lapsed(r) == r.hasValid /\ r.valid /\ r.validAge > ValidTimeout

\* The inductive invariant behind ReadyOnNewSnapshot and EntryAfterDwell.  A held
\* heartbeat is one the node holds fresh; a path the node holds is on a new snapshot
\* unless a lapse is still to be noticed; and the gate's dwell never runs ahead of the
\* flag's own history.
HeartbeatKnown == heartbeatHeld => HasFreshValidity(readiness)
PathOnNewSnapshot == readiness.has /\ ~Lapsed(readiness) => snapshotSinceLoss
DwellBacked ==
  handoff.value => handoff.dwelling /\ handoffHeld >= handoff.dwellAge

EntryInv == HistoryTypeOK /\ HeartbeatKnown /\ PathOnNewSnapshot /\ DwellBacked

\* The history starts in its invariant.
LEMMA EntryInvInit == HistoryInit => EntryInv
<1>. SUFFICES ASSUME HistoryInit PROVE EntryInv
  OBVIOUS
<1>1. HistoryTypeOK
  <2>1. -1 \in -1..EntryDwell
    BY ReadinessAssumption
  <2>. QED BY <2>1, InitType DEF HistoryInit, HistoryTypeOK
<1>2. ~readiness.has /\ ~handoff.value /\ ~heartbeatHeld
  BY DEF HistoryInit, Init, ReadinessInit, HandoffInit
<1>. QED BY <1>1, <1>2 DEF EntryInv, HeartbeatKnown, PathOnNewSnapshot, DwellBacked

\* The history variables hide no step of the node.
LEMMA HistoryNextIsNext == HistoryNext => Next
  BY DEF HistoryNext, Next

\* The history variables stay in their types.
LEMMA HistoryType == HistoryTypeOK /\ HistoryNext => HistoryTypeOK'
<1>. SUFFICES ASSUME HistoryTypeOK, HistoryNext PROVE HistoryTypeOK'
  OBVIOUS
<1>1. TypeOK'
  BY HistoryNextIsNext, NextType DEF HistoryTypeOK
<1>2. EntryDwell \in Nat /\ Flags \subseteq BOOLEAN
  BY ReadinessAssumption, PlanningAssumption
<1>3. snapshotSinceLoss' \in BOOLEAN /\ heartbeatHeld' \in BOOLEAN
  BY <1>2 DEF HistoryNext, HistoryTypeOK, historyVars, HeartbeatLost
<1>4. handoffHeld' \in -1..EntryDwell
  <2>1. handoffHeld >= 0 => Older(handoffHeld, EntryDwell) \in -1..EntryDwell
    BY <1>2 DEF HistoryTypeOK, Older
  <2>2. \A v \in BOOLEAN : HandoffRun(v) \in -1..EntryDwell
    BY <1>2 DEF HandoffRun, HistoryTypeOK
  <2>. QED BY <1>2, <2>1, <2>2 DEF HistoryNext, HistoryTypeOK, historyVars
<1>. QED BY <1>1, <1>3, <1>4 DEF HistoryTypeOK

\* A step that leaves the readiness and the history alone, or only settles a lapse.
LEMMA SettledReadiness ==
  ASSUME EntryInv, UNCHANGED <<snapshotSinceLoss, heartbeatHeld>>,
         \/ readiness' = readiness
         \/ readiness' = RefreshValidity(readiness)
         \/ \E st \in SlamStatus : readiness' = OnStatus(readiness, st)
  PROVE  HeartbeatKnown' /\ PathOnNewSnapshot'
<1>. USE DEF EntryInv, HistoryTypeOK, TypeOK
<1>1. CASE readiness' = readiness
  BY <1>1 DEF HeartbeatKnown, PathOnNewSnapshot, HasFreshValidity, Lapsed
<1>2. CASE readiness' = RefreshValidity(readiness)
  <2>1. CASE Lapsed(readiness)
    <3>1. ~readiness'.has
      BY <1>2, <2>1 DEF RefreshValidity, Lapsed, Invalidate, ReadinessType
    <3>2. ~heartbeatHeld
      BY <2>1, ReadinessAssumption
         DEF HeartbeatKnown, HasFreshValidity, Lapsed, ReadinessType
    <3>. QED BY <3>1, <3>2 DEF HeartbeatKnown, PathOnNewSnapshot
  <2>2. CASE ~Lapsed(readiness)
    BY <1>2, <2>2 DEF RefreshValidity, Lapsed, HeartbeatKnown, PathOnNewSnapshot,
                      HasFreshValidity
  <2>. QED BY <2>1, <2>2
<1>3. CASE \E st \in SlamStatus : readiness' = OnStatus(readiness, st)
  BY <1>3 DEF OnStatus, HeartbeatKnown, PathOnNewSnapshot, HasFreshValidity, Lapsed,
              ReadinessType
<1>. QED BY <1>1, <1>2, <1>3

\* A step that leaves the handoff gate and its history alone, or only drops a stale flag.
LEMMA SettledHandoff ==
  ASSUME EntryInv, UNCHANGED handoffHeld,
         handoff' = handoff \/ handoff' = RefreshHandoff(handoff)
  PROVE  DwellBacked'
  BY DEF EntryInv, HistoryTypeOK, TypeOK, DwellBacked, RefreshHandoff, HandoffType

\* The invariant is inductive.
LEMMA EntryInvStep == EntryInv /\ [HistoryNext]_allVars => EntryInv'
<1>. SUFFICES ASSUME EntryInv, [HistoryNext]_allVars PROVE EntryInv'
  OBVIOUS
<1>. USE DEF EntryInv
<1>a. HistoryTypeOK'
  <2>1. CASE HistoryNext
    BY <2>1, HistoryType
  <2>2. CASE UNCHANGED allVars
    BY <2>2 DEF allVars, vars, historyVars, HistoryTypeOK, TypeOK
  <2>. QED BY <2>1, <2>2
<1>b. readiness \in ReadinessType /\ handoff \in HandoffType
  BY DEF HistoryTypeOK, TypeOK
<1>c. ValidTimeout \in Nat /\ HandoffTimeout \in Nat /\ EntryDwell \in Nat
  BY ReadinessAssumption
<1>1. ASSUME NEW m \in Snapshots, OnGlobalWaypoints(m),
             snapshotSinceLoss' = (snapshotSinceLoss \/ m.count > 0),
             UNCHANGED <<heartbeatHeld, handoffHeld>>
      PROVE  EntryInv'
  <2>1. HasFreshValidity(readiness') = HasFreshValidity(readiness)
        /\ Lapsed(readiness') = Lapsed(readiness)
    BY <1>1, <1>b DEF OnGlobalWaypoints, OnWaypoints, HasFreshValidity, Lapsed,
                      ReadinessType
  <2>2. m.count = 0 => readiness'.has = readiness.has
    BY <1>1, <1>b DEF OnGlobalWaypoints, OnWaypoints, ReadinessType
  <2>3. m.count # 0 => snapshotSinceLoss'
    <3>1. m.count \in Nat
      BY PlanningAssumption
    <3>2. m.count # 0 => m.count > 0
      BY <3>1
    <3>. QED BY Zenon, <1>1, <3>2
  <2>4. DwellBacked'
    BY <1>1 DEF OnGlobalWaypoints, DwellBacked
  <2>. QED
    BY <1>1, <1>a, <2>1, <2>2, <2>3, <2>4 DEF HeartbeatKnown, PathOnNewSnapshot
<1>2. ASSUME NEW v \in BOOLEAN, OnGlobalPathValid(v),
             snapshotSinceLoss' = (snapshotSinceLoss /\ v),
             heartbeatHeld' = v, UNCHANGED handoffHeld
      PROVE  EntryInv'
  <2>1. HeartbeatKnown'
    <3>1. RefreshValidity(readiness) \in ReadinessType
      BY <1>b, ReadinessOps
    <3>2. v => readiness'.hasValid /\ readiness'.valid /\ readiness'.validAge = 0
      BY <1>2, <3>1 DEF OnGlobalPathValid, OnValidity, ReadinessType
    <3>. QED BY <1>2, <1>c, <3>2 DEF HeartbeatKnown, HasFreshValidity
  <2>2. PathOnNewSnapshot'
    <3>1. CASE ~v
      BY <1>2, <3>1, <1>b, ReadinessOps
         DEF OnGlobalPathValid, OnValidity, Invalidate, PathOnNewSnapshot, ReadinessType
    <3>2. CASE v /\ Lapsed(readiness)
      BY <1>2, <3>2, <1>b
         DEF OnGlobalPathValid, OnValidity, RefreshValidity, Invalidate, Lapsed,
             PathOnNewSnapshot, ReadinessType
    <3>3. CASE v /\ ~Lapsed(readiness)
      BY <1>2, <3>3, <1>b
         DEF OnGlobalPathValid, OnValidity, RefreshValidity, Lapsed, PathOnNewSnapshot,
             ReadinessType
    <3>. QED BY <3>1, <3>2, <3>3
  <2>3. DwellBacked'
    BY <1>2 DEF OnGlobalPathValid, DwellBacked
  <2>. QED BY <1>a, <2>1, <2>2, <2>3
<1>3. ASSUME NEW v \in BOOLEAN, OnGlobalHandoffReady(v), handoffHeld' = HandoffRun(v),
             UNCHANGED <<snapshotSinceLoss, heartbeatHeld>>
      PROVE  EntryInv'
  <2>1. HeartbeatKnown' /\ PathOnNewSnapshot'
    BY <1>3, SettledReadiness DEF OnGlobalHandoffReady
  <2>2. DwellBacked'
    <3>1. handoff.value => handoffHeld >= 0
      BY <1>b, <1>c DEF DwellBacked, HandoffType, HistoryTypeOK
    <3>. QED
      BY <1>3, <1>b, <1>c, <3>1
         DEF OnGlobalHandoffReady, ObserveHandoff, HandoffRun, DwellBacked, HandoffType,
             HistoryTypeOK
  <2>. QED BY <1>a, <2>1, <2>2
<1>4. CASE OtherCallbacks /\ UNCHANGED historyVars
  <2>1. \/ readiness' = readiness
        \/ readiness' = RefreshValidity(readiness)
        \/ \E st \in SlamStatus : readiness' = OnStatus(readiness, st)
    BY <1>4 DEF OtherCallbacks, OnAsState, OnFrenetOdom, OnSlamConeMap, OnEgoOdom,
                OnGraphSlamStatus, OnStopZoneSStart, OnStopZoneSEnd, OnStopZoneValid,
                OnTimer
  <2>2. handoff' = handoff \/ handoff' = RefreshHandoff(handoff)
    BY <1>4 DEF OtherCallbacks, OnAsState, OnFrenetOdom, OnSlamConeMap, OnEgoOdom,
                OnGraphSlamStatus, OnStopZoneSStart, OnStopZoneSEnd, OnStopZoneValid,
                OnTimer
  <2>. QED
    BY <1>4, <1>a, <2>1, <2>2, SettledReadiness, SettledHandoff DEF historyVars
<1>5. ASSUME Tick, snapshotSinceLoss' = (snapshotSinceLoss /\ ~HeartbeatLost),
             heartbeatHeld' = (heartbeatHeld /\ ~HeartbeatLost),
             handoffHeld' = IF handoffHeld < 0 THEN -1 ELSE Older(handoffHeld, EntryDwell)
      PROVE  EntryInv'
  <2>1. /\ readiness' = [readiness EXCEPT !.validAge = readiness'.validAge]
        /\ readiness'.validAge >= readiness.validAge
        /\ readiness'.validAge \in Nat
    BY <1>5, <1>b, <1>c, OlderBounds DEF Tick, AgeReadiness, ReadinessType
  <2>2. HeartbeatKnown'
    <3>1. heartbeatHeld' => heartbeatHeld /\ ~(readiness'.validAge > ValidTimeout)
      BY <1>5 DEF HeartbeatLost
    <3>2. readiness'.hasValid = readiness.hasValid /\ readiness'.valid = readiness.valid
      BY <2>1, <1>b DEF ReadinessType
    <3>. QED BY <2>1, <1>c, <3>1, <3>2 DEF HeartbeatKnown, HasFreshValidity
  <2>3. PathOnNewSnapshot'
    BY <1>5, <2>1, <1>b, <1>c DEF HeartbeatKnown, PathOnNewSnapshot, HasFreshValidity,
                                  Lapsed, HeartbeatLost, ReadinessType
  <2>4. DwellBacked'
    <3>1. handoffHeld \in -1..EntryDwell /\ handoff.dwellAge \in 0..EntryDwell
      BY <1>b DEF HistoryTypeOK, HandoffType
    <3>2. handoff'.dwellAge = Older(handoff.dwellAge, EntryDwell)
          /\ handoff'.value = handoff.value /\ handoff'.dwelling = handoff.dwelling
      BY <1>5, <1>b DEF Tick, AgeHandoff, HandoffType
    <3>. QED BY <1>5, <1>c, <3>1, <3>2 DEF DwellBacked, Older
  <2>. QED BY <1>a, <2>2, <2>3, <2>4
<1>6. CASE UNCHANGED allVars
  BY <1>6, <1>a DEF allVars, vars, historyVars, HeartbeatKnown, PathOnNewSnapshot,
                    DwellBacked, HasFreshValidity, Lapsed
<1>. QED
  BY <1>1, <1>2, <1>3, <1>4, <1>5, <1>6, PlanningAssumption DEF HistoryNext

\* Every reachable state of the node and its history is well typed.
THEOREM HistoryTypeCorrect == HistorySpec => []HistoryTypeOK
<1>1. EntryInv => HistoryTypeOK
  BY DEF EntryInv
<1>. QED BY <1>1, EntryInvInit, EntryInvStep, PTL DEF HistorySpec

\* A global path is ready only on a snapshot newer than the last loss of validity.
THEOREM ReadyOnlyOnNewSnapshot == HistorySpec => []ReadyOnNewSnapshot
<1>1. EntryInv => ReadyOnNewSnapshot
  <2>1. EntryInv /\ Ready(readiness) => ~Lapsed(readiness)
    BY ReadinessAssumption
       DEF EntryInv, HistoryTypeOK, TypeOK, Ready, HasFreshValidity, Lapsed, ReadinessType
  <2>. QED BY <2>1 DEF EntryInv, PathOnNewSnapshot, ReadyOnNewSnapshot, Ready
<1>. QED BY <1>1, EntryInvInit, EntryInvStep, PTL DEF HistorySpec

\* GLOBAL is entered only when the handoff flag has been held true for the whole dwell.
THEOREM EntryOnlyAfterDwell == HistorySpec => EntryAfterDwell
<1>1. EntryInv /\ [HistoryNext]_allVars
        => [state = "LOCAL" /\ state' = "GLOBAL" => handoffHeld >= EntryDwell]_allVars
  <2>. SUFFICES ASSUME EntryInv, HistoryNext, state = "LOCAL", state' = "GLOBAL"
                PROVE  handoffHeld >= EntryDwell
    OBVIOUS
  <2>1. OnTimer
    BY DEF HistoryNext, OtherCallbacks, OnAsState, OnFrenetOdom, OnSlamConeMap, OnEgoOdom,
           OnGlobalWaypoints, OnGraphSlamStatus, OnGlobalPathValid, OnGlobalHandoffReady,
           OnStopZoneSStart, OnStopZoneSEnd, OnStopZoneValid, Tick
  <2>2. HandoffDwellReady(RefreshHandoff(handoff))
    BY <2>1 DEF OnTimer, NextState, EntryAllowed, TargetLapsReached
  <2>3. handoff.value /\ handoff.dwellAge >= EntryDwell
    BY <2>2, ReadinessAssumption
       DEF HandoffDwellReady, RefreshHandoff, EntryInv, HistoryTypeOK, TypeOK, HandoffType
  <2>. QED
    BY <2>3, ReadinessAssumption
       DEF EntryInv, DwellBacked, HistoryTypeOK, TypeOK, HandoffType
<1>. QED BY <1>1, EntryInvInit, EntryInvStep, PTL DEF HistorySpec, EntryAfterDwell

-----------------------------------------------------------------------------
(* Lap counting.                                                             *)

\* Before AS_DRIVING nothing is counted and nothing is stopped, by any estimator.
THEOREM NothingCountedBeforeDriving == HistorySpec => []NothingBeforeDriving
<1>1. HistoryInit => NothingBeforeDriving
  BY DEF HistoryInit, Init, NothingBeforeDriving
<1>2. NothingBeforeDriving /\ HistoryTypeOK /\ [HistoryNext]_allVars
        => NothingBeforeDriving'
  <2>. SUFFICES ASSUME NothingBeforeDriving, state \in States, [HistoryNext]_allVars,
                       ~driving'
                PROVE  NothingBeforeDriving'
    BY DEF NothingBeforeDriving, HistoryTypeOK, TypeOK
  <2>1. ASSUME Next PROVE ~driving /\ lap'.count = lap.count
    <3>1. CASE OnAsState
      BY <3>1 DEF OnAsState
    <3>2. ASSUME NEW s \in FrenetS, NEW dOk \in BOOLEAN, OnFrenetOdom(s, dOk)
          PROVE  ~driving /\ lap'.count = lap.count
      BY <3>2 DEF OnFrenetOdom, LapAfterFrenet
    <3>3. ASSUME NEW speed \in EgoSpeeds, NEW p \in EgoCells, OnEgoOdom(speed, p)
          PROVE  FALSE
      BY <3>3 DEF OnEgoOdom, UsesEgoSample
    <3>4. ASSUME NEW status \in SlamStatus, OnGraphSlamStatus(status)
          PROVE  ~driving /\ lap'.count = lap.count
      BY <3>4 DEF OnGraphSlamStatus, LapAfterStatus
    <3>5. CASE UNCHANGED <<lap, driving>>
      BY <3>5
    <3>6. OtherCallbacks => \/ OnAsState \/ UNCHANGED <<lap, driving>>
                            \/ \E s \in FrenetS, dOk \in BOOLEAN : OnFrenetOdom(s, dOk)
                            \/ \E speed \in EgoSpeeds, p \in EgoCells : OnEgoOdom(speed, p)
                            \/ \E status \in SlamStatus : OnGraphSlamStatus(status)
      BY DEF OtherCallbacks, OnSlamConeMap, OnStopZoneSStart, OnStopZoneSEnd,
             OnStopZoneValid, OnTimer
    <3>7. Next => OtherCallbacks \/ UNCHANGED <<lap, driving>>
      BY DEF Next, OnGlobalWaypoints, OnGlobalPathValid, OnGlobalHandoffReady, Tick
    <3>. QED BY <2>1, <3>1, <3>2, <3>3, <3>4, <3>5, <3>6, <3>7
  <2>2. ASSUME Next, ~OnTimer PROVE state' = state /\ finished' = finished
    BY <2>2
       DEF Next, OtherCallbacks, OnAsState, OnFrenetOdom, OnSlamConeMap, OnEgoOdom,
           OnGlobalWaypoints, OnGraphSlamStatus, OnGlobalPathValid, OnGlobalHandoffReady,
           OnStopZoneSStart, OnStopZoneSEnd, OnStopZoneValid, Tick
  <2>3. ASSUME OnTimer, ~driving
        PROVE  /\ ~finished => ~finished'
               /\ state' = "STOP" => state = "STOP" \/ lap.count >= FinalLapStart
    <3>1. ~RestedAfterRun(state')
      BY <2>3 DEF RestedAfterRun
    <3>2. finished' = (finished \/ RestedAfterRun(state'))
      BY <2>3 DEF OnTimer
    <3>3. ~finished => ~finished'
      BY <3>1, <3>2, Zenon
    <3>4. state' = NextState(readiness', handoff')
      BY <2>3 DEF OnTimer
    <3>5. ~TargetLapsReached
      BY <2>3 DEF TargetLapsReached
    <3>6. ASSUME NextState(readiness', handoff') = "STOP", state # "STOP"
          PROVE  StopRequested(readiness')
      BY <3>5, <3>6 DEF NextState, States
    <3>. QED BY <3>3, <3>4, <3>6 DEF StopRequested
  <2>4. CASE UNCHANGED allVars
    BY <2>4 DEF allVars, vars, NothingBeforeDriving
  <2>. QED
    BY <2>1, <2>2, <2>3, <2>4, HistoryNextIsNext DEF NothingBeforeDriving
<1>. QED BY <1>1, <1>2, HistoryTypeCorrect, PTL DEF HistorySpec


\* Lap 1 is the discovery lap once it has been counted.
Base(l) == IF l.discovery THEN 1 ELSE 0

\* What ties the three estimators to the published count: it has kept up with the gate
\* and, while there is no gate, with the seam wraps.
CountBacked ==
  /\ HistoryTypeOK
  /\ lap.count >= InitialLaps
  /\ lap.count + lap.atDiscovery >= Base(lap) + gate.counted
  /\ ~gate.valid => gate.counted = 0 /\ lap.count >= Base(lap) + lap.fallback

\* One ego sample adds at most the crossing it completes to the gate's laps.
LEMMA ObserveEgoCounts ==
  ASSUME NEW g \in GateType, NEW p \in Cells
  PROVE  /\ ObserveEgo(g, p).valid = g.valid
         /\ CountsCrossing(g, p) => g.valid /\ ObserveEgo(g, p).counted = g.counted + 1
         /\ ~CountsCrossing(g, p) => ObserveEgo(g, p).counted = g.counted
<1>. DEFINE a    == Approach(g, p)
            here == [a EXCEPT !.hasPrev = TRUE, !.prev = p, !.prevAge = 0]
            turn == [here EXCEPT !.dir = RunSign(g, Sign(g, p))]
            line == [turn EXCEPT !.timer = TRUE, !.hasCount = TRUE, !.countAge = 0,
                                 !.armed = FALSE]
            lapped == [line EXCEPT !.counted = @ + 1]
<1>1. a.counted = g.counted /\ a.valid = g.valid
  BY DEF Approach, GateType
<1>2. /\ here.counted = g.counted /\ here.valid = g.valid
      /\ turn.counted = g.counted /\ turn.valid = g.valid
      /\ line.counted = g.counted /\ line.valid = g.valid
  BY <1>1 DEF Approach, GateType
<1>3. lapped.counted = g.counted + 1 /\ lapped.valid = g.valid
  BY <1>2 DEF Approach, GateType
<1>4. ObserveEgo(g, p) = IF ~g.valid THEN g
                         ELSE IF ~Comparable(a) \/ Crossing(g.pos, g.prev, p) = 0 THEN here
                         ELSE IF StartsRun(g) THEN line
                         ELSE IF CountsCrossing(g, p) THEN lapped
                         ELSE turn
  BY DEF ObserveEgo
<1>5. CountsCrossing(g, p) => /\ g.valid /\ Comparable(a) /\ ~StartsRun(g)
                              /\ Crossing(g.pos, g.prev, p) # 0
  BY DEF CountsCrossing
<1>. HIDE DEF a, here, turn, line, lapped
<1>. QED BY <1>2, <1>3, <1>4, <1>5

\* A recount against laps counted the published count has nearly kept up with moves it
\* by one at most, and leaves it backed.
LEMMA RecomputedSteps ==
  ASSUME NEW l \in LapType, NEW g \in GateType,
         l.count >= InitialLaps,
         l.count + l.atDiscovery + 1 >= Base(l) + g.counted,
         ~g.valid => g.counted = 0 /\ l.count + 1 >= Base(l) + l.fallback
  PROVE  LET n == Recomputed(l, g)
         IN /\ n.count <= l.count + 1
            /\ n.count >= InitialLaps
            /\ n.count + n.atDiscovery >= Base(n) + g.counted
            /\ ~g.valid => n.count >= Base(n) + n.fallback
<1>. DEFINE n == Recomputed(l, g)
<1>1. /\ n.fallback = l.fallback /\ n.discovery = l.discovery
      /\ n.atDiscovery = l.atDiscovery
      /\ n.count = AuthoritativeLapCount(l.count, InitialLaps, l.discovery, g.counted,
                                         l.atDiscovery, g.valid, l.fallback)
  BY DEF Recomputed, LapType
<1>2. /\ l.count \in Nat /\ l.fallback \in Nat /\ l.atDiscovery \in Nat
      /\ g.counted \in Nat /\ InitialLaps \in Nat
  BY PlanningAssumption DEF LapType, GateType
<1>3. Base(l) \in {0, 1} /\ Base(n) = Base(l)
  BY <1>1 DEF Base
<1>4. n.count = Larger(l.count, Larger(InitialLaps, Base(l) +
                  IF g.valid THEN Larger(0, g.counted - l.atDiscovery)
                  ELSE Larger(Larger(0, g.counted - l.atDiscovery), l.fallback)))
  BY <1>1 DEF AuthoritativeLapCount, Base
<1>. HIDE DEF n
<1>5. /\ n.count <= l.count + 1 /\ n.count >= InitialLaps
      /\ n.count + l.atDiscovery >= Base(l) + g.counted
      /\ ~g.valid => n.count >= Base(l) + l.fallback
  BY <1>2, <1>3, <1>4 DEF Larger
<1>. QED BY <1>1, <1>3, <1>5 DEF n


\* No callback moves the count by more than one, and each leaves it backed.
LEMMA CountStep ==
  ASSUME CountBacked, HistoryNext
  PROVE  CountBacked' /\ lap'.count <= lap.count + 1
<1>. DEFINE Kept == /\ lap'.count >= InitialLaps
                    /\ lap'.count + lap'.atDiscovery >= Base(lap') + gate'.counted
                    /\ ~gate'.valid => gate'.counted = 0 /\ lap'.count >= Base(lap') + lap'.fallback
                    /\ lap'.count <= lap.count + 1
<1>1. HistoryTypeOK'
  BY HistoryType DEF CountBacked
<1>2. /\ lap \in LapType /\ gate \in GateType /\ gate' \in GateType
      /\ lap.count \in Nat /\ lap.fallback \in Nat /\ lap.atDiscovery \in Nat
      /\ gate.counted \in Nat /\ InitialLaps \in Nat
      /\ gate.valid \in BOOLEAN /\ gate'.valid \in BOOLEAN
  BY <1>1, PlanningAssumption DEF CountBacked, HistoryTypeOK, TypeOK, LapType, GateType
<1>3. Base(lap) \in {0, 1}
  BY DEF Base
<1>4. ASSUME lap' = lap, gate'.valid = gate.valid, gate'.counted = gate.counted
      PROVE  Kept
  BY <1>2, <1>3, <1>4 DEF CountBacked, Base
<1>5. ASSUME NEW s \in FrenetS, NEW dOk \in BOOLEAN, OnFrenetOdom(s, dOk) PROVE Kept
  <2>. DEFINE l == [lap EXCEPT !.fallback = @ + 1]
  <2>1. gate' = gate /\ (lap' = lap \/ lap' = Recomputed(l, gate))
    BY <1>5 DEF OnFrenetOdom, LapAfterFrenet
  <2>2. CASE lap' = lap
    BY <1>4, <2>1, <2>2 DEF Base
  <2>3. CASE lap' = Recomputed(l, gate)
    <3>1. /\ l \in LapType /\ l.count = lap.count /\ l.atDiscovery = lap.atDiscovery
          /\ l.fallback = lap.fallback + 1 /\ Base(l) = Base(lap)
      BY <1>2 DEF LapType, Base
    <3>. HIDE DEF l
    <3>. QED
      BY <1>2, <1>3, <2>1, <2>3, <3>1, RecomputedSteps DEF CountBacked
  <2>. QED BY <2>1, <2>2, <2>3
<1>6. ASSUME NEW fit \in GateFits, OnSlamConeMap(fit[1], fit[2]) PROVE Kept
  <2>1. lap' = lap /\ gate'.valid /\ gate'.counted = gate.counted
    BY <1>2, <1>6 DEF OnSlamConeMap, UpdateGate, GateType
  <2>. QED BY <1>2, <1>3, <2>1 DEF CountBacked
<1>7. ASSUME NEW speed \in EgoSpeeds, NEW p \in EgoCells, OnEgoOdom(speed, p) PROVE Kept
  <2>1. p \in Cells
    BY PlanningAssumption
  <2>2. CASE speed \in CountsLaps /\ CountsCrossing(gate, p)
    <3>1. /\ gate'.valid /\ gate'.counted = gate.counted + 1
          /\ lap' = Recomputed(lap, gate')
      BY <1>2, <1>7, <2>1, <2>2, ObserveEgoCounts DEF OnEgoOdom
    <3>2. /\ lap.count >= InitialLaps
          /\ lap.count + lap.atDiscovery + 1 >= Base(lap) + gate'.counted
      BY <1>2, <1>3, <3>1 DEF CountBacked
    <3>. QED
      BY <1>2, <3>1, <3>2, RecomputedSteps
  <2>3. CASE ~(speed \in CountsLaps /\ CountsCrossing(gate, p))
    <3>1. gate'.valid = gate.valid /\ gate'.counted = gate.counted /\ lap' = lap
      BY <1>2, <1>7, <2>1, <2>3, ObserveEgoCounts DEF OnEgoOdom
    <3>. QED BY <3>1, <1>4
  <2>. QED BY <2>2, <2>3
<1>8. ASSUME NEW status \in SlamStatus, OnGraphSlamStatus(status) PROVE Kept
  <2>. DEFINE l == [lap EXCEPT !.discovery = TRUE, !.atDiscovery = gate.counted]
  <2>1. gate' = gate /\ (lap' = lap \/ lap' = Recomputed(l, gate))
    BY <1>8 DEF OnGraphSlamStatus, LapAfterStatus
  <2>2. CASE lap' = lap
    BY <1>4, <2>1, <2>2 DEF Base
  <2>3. CASE lap' = Recomputed(l, gate)
    <3>1. /\ l \in LapType /\ l.count = lap.count /\ l.atDiscovery = gate.counted
          /\ l.fallback = lap.fallback /\ Base(l) = 1
      BY <1>2 DEF LapType, Base
    <3>. HIDE DEF l
    <3>2. /\ l.count >= InitialLaps
          /\ l.count + l.atDiscovery + 1 >= Base(l) + gate.counted
          /\ ~gate.valid => gate.counted = 0 /\ l.count + 1 >= Base(l) + l.fallback
      BY <1>2, <1>3, <3>1 DEF CountBacked
    <3>3. /\ lap'.count <= l.count + 1 /\ lap'.count >= InitialLaps
          /\ lap'.count + lap'.atDiscovery >= Base(lap') + gate.counted
          /\ ~gate.valid => lap'.count >= Base(lap') + lap'.fallback
      BY <1>2, <2>3, <3>1, <3>2, RecomputedSteps
    <3>. QED BY <2>1, <3>1, <3>2, <3>3
  <2>. QED BY <2>1, <2>2, <2>3
<1>9. ASSUME Tick PROVE Kept
  BY <1>2, <1>4, <1>9 DEF Tick, AgeGate, GateType
<1>10. OtherCallbacks =>
         \/ UNCHANGED <<lap, gate>>
         \/ \E s \in FrenetS, dOk \in BOOLEAN : OnFrenetOdom(s, dOk)
         \/ \E fit \in GateFits : OnSlamConeMap(fit[1], fit[2])
         \/ \E speed \in EgoSpeeds, p \in EgoCells : OnEgoOdom(speed, p)
         \/ \E status \in SlamStatus : OnGraphSlamStatus(status)
  BY DEF OtherCallbacks, OnAsState, OnStopZoneSStart, OnStopZoneSEnd, OnStopZoneValid,
         OnTimer
<1>11. Next => OtherCallbacks \/ Tick \/ UNCHANGED <<lap, gate>>
  BY DEF Next, OnGlobalWaypoints, OnGlobalPathValid, OnGlobalHandoffReady
<1>12. Kept
  BY <1>4, <1>5, <1>6, <1>7, <1>8, <1>9, <1>10, <1>11, HistoryNextIsNext
<1>. QED BY <1>1, <1>12 DEF CountBacked

\* The published count never moves by more than one lap at a time.
THEOREM CountMovesByOne == HistorySpec => CountStepsByOne
<1>1. HistoryInit => CountBacked
  <2>. SUFFICES ASSUME HistoryInit PROVE CountBacked
    OBVIOUS
  <2>1. HistoryTypeOK
    BY EntryInvInit DEF EntryInv
  <2>. QED
    BY <2>1, PlanningAssumption DEF HistoryInit, Init, GateInit, CountBacked, Base
<1>2. CountBacked /\ UNCHANGED allVars => CountBacked' /\ lap'.count = lap.count
  BY DEF CountBacked, HistoryTypeOK, TypeOK, Base, allVars, vars, historyVars
<1>3. CountBacked /\ [HistoryNext]_allVars => CountBacked'
  BY <1>2, CountStep
<1>4. CountBacked /\ [HistoryNext]_allVars => [lap'.count <= lap.count + 1]_allVars
  BY CountStep
<1>. QED BY <1>1, <1>3, <1>4, PTL DEF HistorySpec, CountStepsByOne

=============================================================================
