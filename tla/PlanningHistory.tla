--------------------------- MODULE PlanningHistory ---------------------------
(***************************************************************************)
(* PlanningStateMachine with three history variables and the properties that *)
(* need them.  The history is computed from the messages and the clock     *)
(* alone, never from the node's own bookkeeping of losses and dwells.      *)
(***************************************************************************)
EXTENDS PlanningStateMachine

VARIABLES
  snapshotSinceLoss,  \* a non-empty global path came after the last loss of validity
  heartbeatHeld,      \* the last validity heartbeat was true and is not yet too old
  handoffHeld         \* ticks /planning/global_handoff_ready has been held true, or -1

historyVars == <<snapshotSinceLoss, heartbeatHeld, handoffHeld>>
allVars == <<vars, historyVars>>

HistoryInit ==
  Init /\ snapshotSinceLoss = FALSE /\ heartbeatHeld = FALSE /\ handoffHeld = -1

\* A held true heartbeat that grows older than its timeout is a loss, noticed or not.
HeartbeatLost == heartbeatHeld /\ readiness'.validAge > ValidTimeout

\* A handoff message continues the run when it is true and in time.
HandoffRun(v) ==
  CASE ~v                                                 -> -1
    [] v /\ handoffHeld >= 0 /\ handoff.age <= HandoffTimeout -> handoffHeld
    [] OTHER                                              -> 0

HistoryNext ==
  \/ \E m \in Snapshots :
       /\ OnGlobalWaypoints(m)
       /\ snapshotSinceLoss' = (snapshotSinceLoss \/ m.count > 0)
       /\ UNCHANGED <<heartbeatHeld, handoffHeld>>
  \/ \E v \in Flags :
       /\ OnGlobalPathValid(v)
       /\ snapshotSinceLoss' = (snapshotSinceLoss /\ v)
       /\ heartbeatHeld' = v
       /\ UNCHANGED handoffHeld
  \/ \E v \in Flags :
       /\ OnGlobalHandoffReady(v)
       /\ handoffHeld' = HandoffRun(v)
       /\ UNCHANGED <<snapshotSinceLoss, heartbeatHeld>>
  \/ OtherCallbacks /\ UNCHANGED historyVars
  \/ /\ Tick
     /\ snapshotSinceLoss' = (snapshotSinceLoss /\ ~HeartbeatLost)
     /\ heartbeatHeld' = (heartbeatHeld /\ ~HeartbeatLost)
     /\ handoffHeld' = IF handoffHeld < 0 THEN -1 ELSE Older(handoffHeld, EntryDwell)

HistorySpec == HistoryInit /\ [][HistoryNext]_allVars

HistoryTypeOK ==
  /\ TypeOK
  /\ snapshotSinceLoss \in BOOLEAN
  /\ heartbeatHeld \in BOOLEAN
  /\ handoffHeld \in -1..EntryDwell

-----------------------------------------------------------------------------

\* A path is only ready on a snapshot that came after the last loss of validity: a
\* false heartbeat, or a gap longer than the timeout even when the node first looks
\* after the stream has resumed (refreshValidity at the head of onValidity).
ReadyOnNewSnapshot == Ready(readiness) => snapshotSinceLoss

\* GLOBAL is entered only after the selector's handoff flag has been held true, with no
\* false and no gap longer than its timeout, for the whole dwell (ContinuousHandoffGate).
EntryAfterDwell ==
  [][state = "LOCAL" /\ state' = "GLOBAL" => handoffHeld >= EntryDwell]_allVars

\* The published count never skips a lap: neither the discovery lap, nor a gate that
\* becomes known late, nor a switch of estimator moves it by more than one
\* (authoritativeLapCount and the anchoring in onGraphSlamStatus).
CountStepsByOne == [][lap'.count <= lap.count + 1]_allVars

\* No lap is counted before the vehicle has been AS_DRIVING, by the gate, by the Frenet
\* wrap or by the discovery lap, so no mission ends on the start grid.
NothingBeforeDriving ==
  ~driving => lap.count = InitialLaps /\ ~finished /\ (state = "STOP" => InitialLaps >= FinalLapStart)

-----------------------------------------------------------------------------
(* Values a run gives the constants: a closed path, and an empty snapshot.   *)

ClosedPath == [count |-> 3, len |-> 5, gap |-> 0]
EmptyPath == [count |-> 0, len |-> 0, gap |-> 0]
PathAndEmpty == {EmptyPath, ClosedPath}
LoopOnly == {ClosedPath}
OneGate == {<<0, 1>>}

=============================================================================
