---------------------------- MODULE CmdSelector ----------------------------
(***************************************************************************)
(* hyu_cmd_selector: the only writer of /vehicle/cmd.  SelectorPolicy      *)
(* chooses between Pure Pursuit (PP), the tube MPC (TMPC) and a brake of   *)
(* its own; the node re-evaluates it on every candidate command and on its *)
(* 100 Hz timer and relays the chosen source.  A single-threaded executor  *)
(* runs the callbacks, so each is one action; Tick lets time pass.         *)
(*                                                                         *)
(* The sequence numbers of a source are kept as `new`, whether its receive *)
(* counter differs from the one last forwarded: the code compares nothing  *)
(* else.  Receive times are ages, now_sec is finite, /control/selector's   *)
(* log lines are left out.                                                 *)
(***************************************************************************)
EXTENDS Ages

CONSTANTS
  StateTimeout,     \* state_timeout_sec, in ticks
  StopTimeout,      \* stop_timeout_sec
  LocalTimeout,     \* local_command_timeout_sec
  LocalHold,        \* local_forward_hold_sec
  TmpcTimeout,      \* tmpc_command_timeout_sec
  ValidTimeout,     \* tmpc_valid_timeout_sec
  TmpcHold,         \* tmpc_forward_hold_sec
  ReadyDwell,       \* tmpc_ready_dwell_sec
  MaxDisagreement,  \* max_steering_disagreement_rad
  PlanningStates,   \* what /planning/state may carry
  LocalCommands,    \* commands Pure Pursuit may send: [finite, steer]
  TmpcCommands      \* and TMPC

Command == [finite : BOOLEAN, steer : Int]

ASSUME SelectorAssumption ==
  /\ StateTimeout \in Nat /\ StopTimeout \in Nat
  /\ LocalTimeout \in Nat /\ LocalHold \in Nat
  /\ TmpcTimeout \in Nat /\ ValidTimeout \in Nat
  /\ TmpcHold \in Nat /\ ReadyDwell \in Nat /\ MaxDisagreement \in Nat
  /\ PlanningStates \subseteq STRING \ {"none"}
  /\ LocalCommands \subseteq Command /\ TmpcCommands \subseteq Command

Longest(a, b) == IF a >= b THEN a ELSE b
LocalCap == Longest(LocalTimeout, LocalHold) + 1
TmpcCap == Longest(TmpcTimeout, TmpcHold) + 1
ValidCap == Longest(ValidTimeout, TmpcHold) + 1

VARIABLES
  planning,  \* planning_state_ and its age; "none" before the first message
  stop,      \* stop_requested_ and its age
  pp,        \* local_command_: received yet, its value and age, not forwarded yet
  tmpc,      \* tmpc_command_
  valid,     \* tmpc_valid_
  policy,    \* policy_
  status,    \* the status last published
  out        \* last_published_source_; beat alternates with each forwarded command

vars == <<planning, stop, pp, tmpc, valid, policy, status, out>>

PolicyType == [active : BOOLEAN, fault : BOOLEAN, tracking : BOOLEAN, readyAge : 0..ReadyDwell]

PpStatus == {"LOCAL_PP", "STOP_PP", "GLOBAL_WAITING_TMPC", "GLOBAL_PP_FALLBACK"}
BrakeStatus == {"INPUT_BRAKE", "STOP_BRAKE", "FAULT_BRAKE"}
Statuses == PpStatus \cup BrakeStatus \cup {"GLOBAL_TMPC"}

TypeOK ==
  /\ planning \in [value : PlanningStates \cup {"none"}, age : 0..(StateTimeout + 1)]
  /\ stop \in [has : BOOLEAN, value : BOOLEAN, age : 0..(StopTimeout + 1)]
  /\ pp \in [has : BOOLEAN, cmd : Command, age : 0..LocalCap, new : BOOLEAN]
  /\ tmpc \in [has : BOOLEAN, cmd : Command, age : 0..TmpcCap, new : BOOLEAN]
  /\ valid \in [has : BOOLEAN, value : BOOLEAN, age : 0..ValidCap]
  /\ policy \in PolicyType
  /\ status \in Statuses
  /\ out \in [source : {"none", "PP", "TMPC", "BRAKE"}, beat : {0, 1}]

PolicyInit == [active |-> FALSE, fault |-> FALSE, tracking |-> FALSE, readyAge |-> 0]
Zeroed == [finite |-> TRUE, steer |-> 0]

Init ==
  /\ planning = [value |-> "none", age |-> StateTimeout + 1]
  /\ stop = [has |-> FALSE, value |-> FALSE, age |-> StopTimeout + 1]
  /\ pp = [has |-> FALSE, cmd |-> Zeroed, age |-> LocalCap, new |-> FALSE]
  /\ tmpc = [has |-> FALSE, cmd |-> Zeroed, age |-> TmpcCap, new |-> FALSE]
  /\ valid = [has |-> FALSE, value |-> FALSE, age |-> ValidCap]
  /\ policy = PolicyInit
  /\ status = "INPUT_BRAKE"
  /\ out = [source |-> "none", beat |-> 0]

-----------------------------------------------------------------------------
(* SelectorPolicy, over the commands p of Pure Pursuit and t of TMPC.        *)

StateFresh == planning.value # "none" /\ planning.age <= StateTimeout
StopFresh == stop.has /\ stop.age <= StopTimeout

SafetyInputsFresh == StateFresh /\ StopFresh
StopRequestedByBoth == stop.value /\ planning.value = "STOP"
StopRequested == stop.value \/ planning.value = "STOP"

LocalWithinAnyAge(p, timeout) == p.has /\ p.cmd.finite
LocalWithin(p, timeout) == p.has /\ p.cmd.finite /\ p.age <= timeout

TmpcWithin(t, cmdTimeout, validTimeout) ==
  /\ valid.has /\ valid.value /\ valid.age <= validTimeout
  /\ t.has /\ t.cmd.finite /\ t.age <= cmdTimeout

TmpcReady(t) == TmpcWithin(t, TmpcTimeout, ValidTimeout)

FreshnessBlipAnyPayload(t) ==
  /\ TmpcHold > 0 /\ valid.has /\ valid.age <= TmpcHold
  /\ t.has /\ t.cmd.finite /\ t.age <= TmpcHold

\* A silence of TMPC after a valid heartbeat, while it drives: it is ridden out.
FreshnessBlip(t) == TmpcHold > 0 /\ TmpcWithin(t, TmpcHold, TmpcHold)

\* The steering-disagreement gate; it needs a fresh Pure Pursuit command to compare with.
Disagrees(p, t) ==
  /\ MaxDisagreement > 0
  /\ LocalWithin(p, LocalTimeout)
  /\ t.has /\ t.cmd.finite
  /\ ~(t.cmd.steer - p.cmd.steer \in -MaxDisagreement..MaxDisagreement)

SuspendedTracking(c) == [c EXCEPT !.active = FALSE]
Suspended(c) == [c EXCEPT !.active = FALSE, !.tracking = FALSE, !.readyAge = 0]

DweltByCount(c) ==
  [c EXCEPT !.tracking = TRUE, !.readyAge = @ + 1, !.active = c.readyAge >= ReadyDwell]

DweltUnlessFault(c) ==
  [c EXCEPT !.tracking = TRUE,
            !.readyAge = IF c.tracking THEN @ ELSE 0,
            !.active = ~c.fault /\ c.tracking /\ c.readyAge >= ReadyDwell]

\* An evaluation that finds TMPC ready starts the dwell or completes it.
Dwelt(c) ==
  [c EXCEPT !.tracking = TRUE,
            !.readyAge = IF c.tracking THEN @ ELSE 0,
            !.active = IF c.tracking THEN c.readyAge >= ReadyDwell ELSE ReadyDwell = 0]

\* update, its effect on the policy: a fresh LOCAL begins a new episode; a lost safety
\* input or a stop suspends TMPC; in GLOBAL it is kept, dropped as a fault, or earned.
NextPolicy(p, t) ==
  CASE StateFresh /\ planning.value = "LOCAL" -> PolicyInit
    [] ~SafetyInputsFresh /\ ~(StateFresh /\ planning.value = "LOCAL") -> Suspended(policy)
    [] SafetyInputsFresh /\ planning.value # "LOCAL" ->
         IF StopRequested THEN Suspended(policy)
         ELSE IF planning.value # "GLOBAL" THEN policy
         ELSE IF policy.active
              THEN IF TmpcReady(t) \/ FreshnessBlip(t) THEN policy
                   ELSE [Suspended(policy) EXCEPT !.fault = TRUE]
         ELSE IF TmpcReady(t) /\ ~Disagrees(p, t) THEN Dwelt(policy)
         ELSE Suspended(policy)

GlobalStatusParking(c, localOk) ==
  IF c.active THEN "GLOBAL_TMPC"
  ELSE IF c.fault THEN "FAULT_BRAKE"
  ELSE IF localOk THEN "GLOBAL_WAITING_TMPC" ELSE "INPUT_BRAKE"

\* In GLOBAL: TMPC if it is active, else Pure Pursuit, and the brake without either.
GlobalStatus(c, localOk) ==
  CASE c.active -> "GLOBAL_TMPC"
    [] ~c.active /\ localOk -> IF c.fault THEN "GLOBAL_PP_FALLBACK" ELSE "GLOBAL_WAITING_TMPC"
    [] ~c.active /\ ~localOk -> IF c.fault THEN "FAULT_BRAKE" ELSE "INPUT_BRAKE"

\* update, the status it returns with the policy left as c.
StatusOf(c, p) ==
  LET localOk == LocalWithin(p, LocalTimeout) IN
  IF ~SafetyInputsFresh THEN "INPUT_BRAKE"
  ELSE IF StopRequested THEN IF localOk THEN "STOP_PP" ELSE "STOP_BRAKE"
  ELSE CASE planning.value = "LOCAL" -> IF LocalWithin(p, LocalHold) THEN "LOCAL_PP" ELSE "INPUT_BRAKE"
         [] planning.value = "GLOBAL" -> GlobalStatus(c, localOk)
         [] OTHER -> "INPUT_BRAKE"

SourceOf(st) ==
  CASE st \in PpStatus    -> "PP"
    [] st = "GLOBAL_TMPC" -> "TMPC"
    [] st \in BrakeStatus -> "BRAKE"

-----------------------------------------------------------------------------
(* The node.                                                                 *)

ForwardsUnswitched(source, candidate, s) == s = source /\ candidate.new

\* The candidate of `source` is forwarded when s is selected: once per message, and
\* once more when the source is switched to.
Forwards(source, candidate, s) == s = source /\ (out.source # source \/ candidate.new)

\* EvaluateAndPublish, with the candidate commands p and t.
EvaluateAndPublish(p, t) ==
  LET s      == SourceOf(status')
      sendPp == Forwards("PP", p, s)
      sendT  == Forwards("TMPC", t, s)
  IN /\ policy' = NextPolicy(p, t)
     /\ status' = StatusOf(policy', p)
     /\ pp' = [p EXCEPT !.new = @ /\ ~sendPp]
     /\ tmpc' = [t EXCEPT !.new = @ /\ ~sendT]
     /\ out' = IF sendPp \/ sendT THEN [source |-> s, beat |-> 1 - out.beat]
               ELSE IF s = "BRAKE" THEN [out EXCEPT !.source = s] ELSE out

Received(c) == [has |-> TRUE, cmd |-> c, age |-> 0, new |-> TRUE]

OnPlanningState(v) ==
  /\ planning' = [value |-> v, age |-> 0]
  /\ UNCHANGED <<stop, pp, tmpc, valid, policy, status, out>>

OnStopRequest(v) ==
  /\ stop' = [has |-> TRUE, value |-> v, age |-> 0]
  /\ UNCHANGED <<planning, pp, tmpc, valid, policy, status, out>>

OnTmpcValid(v) ==
  /\ valid' = [has |-> TRUE, value |-> v, age |-> 0]
  /\ UNCHANGED <<planning, stop, pp, tmpc, policy, status, out>>

OnLocalCommand(c) ==
  /\ EvaluateAndPublish(Received(c), tmpc)
  /\ UNCHANGED <<planning, stop, valid>>

OnTmpcCommand(c) ==
  /\ EvaluateAndPublish(pp, Received(c))
  /\ UNCHANGED <<planning, stop, valid>>

OnTimer ==
  /\ EvaluateAndPublish(pp, tmpc)
  /\ UNCHANGED <<planning, stop, valid>>

Tick ==
  /\ planning' = [planning EXCEPT !.age = Older(@, StateTimeout + 1)]
  /\ stop' = [stop EXCEPT !.age = Older(@, StopTimeout + 1)]
  /\ pp' = [pp EXCEPT !.age = Older(@, LocalCap)]
  /\ tmpc' = [tmpc EXCEPT !.age = Older(@, TmpcCap)]
  /\ valid' = [valid EXCEPT !.age = Older(@, ValidCap)]
  /\ policy' = [policy EXCEPT !.readyAge = IF policy.tracking THEN Older(@, ReadyDwell) ELSE @]
  /\ UNCHANGED <<status, out>>

Evaluation ==
  \/ \E c \in LocalCommands : OnLocalCommand(c)
  \/ \E c \in TmpcCommands : OnTmpcCommand(c)
  \/ OnTimer

Next ==
  \/ \E v \in PlanningStates : OnPlanningState(v)
  \/ \E v \in BOOLEAN : OnStopRequest(v) \/ OnTmpcValid(v)
  \/ Evaluation
  \/ Tick

Spec == Init /\ [][Next]_vars

-----------------------------------------------------------------------------

\* The selector implements the relay it promises: message for message while a source
\* stays selected, once more on a switch, nothing repeated by the timer (the publish
\* discipline of EvaluateAndPublish).
Relay == INSTANCE CmdRelay WITH
  Sources <- {"PP", "TMPC"},
  selected <- out.source,
  waiting <- [s \in {"PP", "TMPC"} |-> IF s = "PP" THEN pp.new ELSE tmpc.new],
  beat <- out.beat

RelaysCommands == Relay!RelaySpec

=============================================================================
