------------------------- MODULE CmdSelectorProofs -------------------------
(***************************************************************************)
(* Proofs about the command selector, for every value of the constants:    *)
(* its types, that TMPC earns every takeover, and that the node implements *)
(* the relay CmdRelay promises the vehicle.                                *)
(***************************************************************************)
EXTENDS CmdSelectorHistory, TLAPS

LocalCandidate == [has : BOOLEAN, cmd : Command, age : 0..LocalCap, new : BOOLEAN]
TmpcCandidate == [has : BOOLEAN, cmd : Command, age : 0..TmpcCap, new : BOOLEAN]
OutType == [source : {"none", "PP", "TMPC", "BRAKE"}, beat : {0, 1}]

-----------------------------------------------------------------------------
(* Ages and caps.                                                            *)

\* An age grows within its cap, and the older of two ages stays the older.
LEMMA OlderBounds ==
  ASSUME NEW cap \in Nat, NEW age \in 0..cap
  PROVE  /\ Older(age, cap) \in 0..cap
         /\ Older(age, cap) >= age
         /\ \A b \in 0..cap : age <= b => Older(age, cap) <= Older(b, cap)
  BY DEF Older

\* Every cap is a natural number, so that a new message is within it.
LEMMA Caps ==
  /\ LocalCap \in Nat /\ TmpcCap \in Nat /\ ValidCap \in Nat
  /\ StateTimeout + 1 \in Nat /\ StopTimeout + 1 \in Nat /\ ReadyDwell \in Nat
  /\ 0 \in 0..LocalCap /\ 0 \in 0..TmpcCap /\ 0 \in 0..ValidCap
  /\ 0 \in 0..(StateTimeout + 1) /\ 0 \in 0..(StopTimeout + 1) /\ 0 \in 0..ReadyDwell
  BY SelectorAssumption DEF LocalCap, TmpcCap, ValidCap, Longest

\* A message just received is a candidate.
LEMMA ReceivedTypes ==
  /\ \A c \in LocalCommands : Received(c) \in LocalCandidate
  /\ \A c \in TmpcCommands : Received(c) \in TmpcCandidate
  BY Caps, SelectorAssumption DEF Received, LocalCandidate, TmpcCandidate

-----------------------------------------------------------------------------
(* The operators of the policy.                                              *)

\* Dropping TMPC and dwelling keep the policy's type; only a complete dwell activates.
LEMMA PolicyOps ==
  ASSUME NEW c \in PolicyType
  PROVE  /\ PolicyInit \in PolicyType
         /\ Suspended(c) \in PolicyType
         /\ [Suspended(c) EXCEPT !.fault = TRUE] \in PolicyType
         /\ Dwelt(c) \in PolicyType
<1>0. 0 \in 0..ReadyDwell
  BY Caps
<1>1. PolicyInit \in PolicyType
  BY <1>0 DEF PolicyInit, PolicyType
<1>2. Suspended(c) \in PolicyType /\ [Suspended(c) EXCEPT !.fault = TRUE] \in PolicyType
  BY <1>0 DEF Suspended, PolicyType
<1>3. Dwelt(c) \in PolicyType
  <2>1. \A a \in BOOLEAN, r \in 0..ReadyDwell :
          [c EXCEPT !.tracking = TRUE, !.readyAge = r, !.active = a] \in PolicyType
    BY DEF PolicyType
  <2>2. /\ (IF c.tracking THEN c.readyAge ELSE 0) \in 0..ReadyDwell
        /\ (IF c.tracking THEN c.readyAge >= ReadyDwell ELSE ReadyDwell = 0) \in BOOLEAN
    <3>1. c.readyAge \in 0..ReadyDwell
      BY DEF PolicyType
    <3>2. CASE c.tracking
      BY <3>1, <3>2
    <3>3. CASE ~c.tracking
      BY <1>0, <3>3
    <3>. QED BY <3>2, <3>3
  <2>. QED BY <2>1, <2>2 DEF Dwelt
<1>. QED BY <1>1, <1>2, <1>3

\* The policy after an evaluation is the one before, a fresh one, or the outcome of
\* dropping TMPC or of the dwell.
LEMMA NextPolicyCases ==
  ASSUME NEW p, NEW t
  PROVE  \/ NextPolicy(p, t) \in {PolicyInit, Suspended(policy), policy}
         \/ NextPolicy(p, t) = [Suspended(policy) EXCEPT !.fault = TRUE]
         \/ NextPolicy(p, t) = Dwelt(policy)
<1>1. CASE StateFresh /\ planning.value = "LOCAL"
  BY <1>1 DEF NextPolicy, SafetyInputsFresh
<1>2. CASE ~SafetyInputsFresh /\ ~(StateFresh /\ planning.value = "LOCAL")
  BY <1>2 DEF NextPolicy, SafetyInputsFresh
<1>3. CASE SafetyInputsFresh /\ planning.value # "LOCAL"
  BY <1>3 DEF NextPolicy, SafetyInputsFresh
<1>. QED BY <1>1, <1>2, <1>3 DEF SafetyInputsFresh

\* Every status names a source, and every evaluation has a status.
LEMMA StatusOps ==
  /\ \A c, p : StatusOf(c, p) \in Statuses
  /\ \A s \in Statuses : SourceOf(s) \in {"PP", "TMPC", "BRAKE"}
<1>1. \A c, ok : GlobalStatus(c, ok) \in Statuses
  <2>. TAKE c, ok
  <2>1. CASE c.active
    BY <2>1 DEF GlobalStatus, Statuses
  <2>2. CASE ~c.active /\ ok
    BY <2>2 DEF GlobalStatus, Statuses, PpStatus
  <2>3. CASE ~c.active /\ ~ok
    BY <2>3 DEF GlobalStatus, Statuses, BrakeStatus
  <2>. QED BY <2>1, <2>2, <2>3
<1>2. \A c, p : StatusOf(c, p) \in Statuses
  BY <1>1 DEF StatusOf, Statuses, PpStatus, BrakeStatus
<1>3. \A s \in Statuses : SourceOf(s) \in {"PP", "TMPC", "BRAKE"}
  BY DEF SourceOf, Statuses, PpStatus, BrakeStatus
<1>. QED BY <1>2, <1>3

\* An evaluation of typed candidates leaves a typed state.
LEMMA EvaluationTyped ==
  ASSUME TypeOK, NEW p \in LocalCandidate, NEW t \in TmpcCandidate,
         EvaluateAndPublish(p, t)
  PROVE  /\ pp' \in LocalCandidate /\ tmpc' \in TmpcCandidate
         /\ policy' \in PolicyType /\ status' \in Statuses /\ out' \in OutType
<1>. DEFINE s == SourceOf(status')
            sendPp == Forwards("PP", p, s)
            sendT == Forwards("TMPC", t, s)
<1>1. policy' \in PolicyType
  <2>1. policy' = NextPolicy(p, t) /\ policy \in PolicyType
    BY DEF EvaluateAndPublish, TypeOK
  <2>. QED BY <2>1, NextPolicyCases, PolicyOps
<1>2. status' \in Statuses /\ s \in {"PP", "TMPC", "BRAKE"}
  BY StatusOps DEF EvaluateAndPublish
<1>3. /\ pp' = [p EXCEPT !.new = @ /\ ~sendPp]
      /\ tmpc' = [t EXCEPT !.new = @ /\ ~sendT]
      /\ out' = IF sendPp \/ sendT THEN [source |-> s, beat |-> 1 - out.beat]
                ELSE IF s = "BRAKE" THEN [out EXCEPT !.source = s] ELSE out
  BY DEF EvaluateAndPublish
<1>. HIDE DEF s, sendPp, sendT
<1>4. pp' \in LocalCandidate
  BY <1>3 DEF LocalCandidate
<1>5. tmpc' \in TmpcCandidate
  BY <1>3 DEF TmpcCandidate
<1>6. out' \in OutType
  <2>1. out \in OutType
    BY DEF TypeOK, OutType
  <2>. QED BY <1>2, <1>3, <2>1 DEF OutType
<1>. QED BY <1>1, <1>2, <1>4, <1>5, <1>6

-----------------------------------------------------------------------------
(* The types of every reachable state.                                       *)

\* Time keeps every stored age within its cap.
LEMMA TickTyped ==
  ASSUME TypeOK, Tick
  PROVE  TypeOK'
<1>1. planning' \in [value : PlanningStates \cup {"none"}, age : 0..(StateTimeout + 1)]
  <2>1. Older(planning.age, StateTimeout + 1) \in 0..(StateTimeout + 1)
    BY Caps, OlderBounds DEF TypeOK
  <2>. QED BY <2>1 DEF TypeOK, Tick
<1>2. stop' \in [has : BOOLEAN, value : BOOLEAN, age : 0..(StopTimeout + 1)]
  <2>1. Older(stop.age, StopTimeout + 1) \in 0..(StopTimeout + 1)
    BY Caps, OlderBounds DEF TypeOK
  <2>. QED BY <2>1 DEF TypeOK, Tick
<1>3. pp' \in [has : BOOLEAN, cmd : Command, age : 0..LocalCap, new : BOOLEAN]
  <2>1. Older(pp.age, LocalCap) \in 0..LocalCap
    BY Caps, OlderBounds DEF TypeOK
  <2>. QED BY <2>1 DEF TypeOK, Tick
<1>4. tmpc' \in [has : BOOLEAN, cmd : Command, age : 0..TmpcCap, new : BOOLEAN]
  <2>1. Older(tmpc.age, TmpcCap) \in 0..TmpcCap
    BY Caps, OlderBounds DEF TypeOK
  <2>. QED BY <2>1 DEF TypeOK, Tick
<1>5. valid' \in [has : BOOLEAN, value : BOOLEAN, age : 0..ValidCap]
  <2>1. Older(valid.age, ValidCap) \in 0..ValidCap
    BY Caps, OlderBounds DEF TypeOK
  <2>. QED BY <2>1 DEF TypeOK, Tick
<1>6. policy' \in PolicyType
  <2>1. Older(policy.readyAge, ReadyDwell) \in 0..ReadyDwell
    BY Caps, OlderBounds DEF TypeOK, PolicyType
  <2>. QED BY <2>1 DEF TypeOK, Tick, PolicyType
<1>7. status' = status /\ out' = out
  BY DEF Tick
<1>. QED BY <1>1, <1>2, <1>3, <1>4, <1>5, <1>6, <1>7 DEF TypeOK

\* An evaluation that leaves the other inputs alone keeps the types.
LEMMA EvaluationKeepsTypes ==
  ASSUME TypeOK, NEW p \in LocalCandidate, NEW t \in TmpcCandidate,
         EvaluateAndPublish(p, t), UNCHANGED <<planning, stop, valid>>
  PROVE  TypeOK'
<1>1. /\ pp' \in LocalCandidate /\ tmpc' \in TmpcCandidate
      /\ policy' \in PolicyType /\ status' \in Statuses /\ out' \in OutType
  BY EvaluationTyped
<1>. QED BY <1>1 DEF TypeOK, LocalCandidate, TmpcCandidate, OutType

\* The selector's inputs change nothing but themselves.
Input ==
  \/ \E v \in PlanningStates : OnPlanningState(v)
  \/ \E v \in BOOLEAN : OnStopRequest(v) \/ OnTmpcValid(v)

LEMMA InputTyped ==
  ASSUME TypeOK, Input
  PROVE  TypeOK' /\ UNCHANGED <<pp, tmpc, policy, status, out>>
<1>1. CASE \E v \in PlanningStates : OnPlanningState(v)
  BY <1>1, Caps DEF OnPlanningState, TypeOK
<1>2. CASE \E v \in BOOLEAN : OnStopRequest(v)
  BY <1>2, Caps DEF OnStopRequest, TypeOK
<1>3. CASE \E v \in BOOLEAN : OnTmpcValid(v)
  BY <1>3, Caps DEF OnTmpcValid, TypeOK
<1>. QED BY <1>1, <1>2, <1>3 DEF Input

\* The candidates of every evaluation are typed.
LEMMA HeldTyped ==
  ASSUME TypeOK
  PROVE  pp \in LocalCandidate /\ tmpc \in TmpcCandidate
  BY DEF TypeOK, LocalCandidate, TmpcCandidate

\* The five kinds of step: an input, an evaluation of typed candidates with or without a
\* new command, and time.
LEMMA Steps ==
  ASSUME TypeOK, Next
  PROVE  \/ Input
         \/ \E c \in LocalCommands : OnLocalCommand(c)
         \/ \E c \in TmpcCommands : OnTmpcCommand(c)
         \/ OnTimer
         \/ Tick
  BY DEF Next, Evaluation, Input

\* Every step keeps the types.
LEMMA NextTyped ==
  ASSUME TypeOK, [Next]_vars
  PROVE  TypeOK'
<1>1. CASE Input
  BY <1>1, InputTyped
<1>2. ASSUME NEW c \in LocalCommands, OnLocalCommand(c) PROVE TypeOK'
  <2>1. Received(c) \in LocalCandidate /\ tmpc \in TmpcCandidate
    BY ReceivedTypes, HeldTyped
  <2>. QED BY <1>2, <2>1, EvaluationKeepsTypes DEF OnLocalCommand
<1>3. ASSUME NEW c \in TmpcCommands, OnTmpcCommand(c) PROVE TypeOK'
  <2>1. pp \in LocalCandidate /\ Received(c) \in TmpcCandidate
    BY ReceivedTypes, HeldTyped
  <2>. QED BY <1>3, <2>1, EvaluationKeepsTypes DEF OnTmpcCommand
<1>4. CASE OnTimer
  BY <1>4, HeldTyped, EvaluationKeepsTypes DEF OnTimer
<1>5. CASE Tick
  BY <1>5, TickTyped
<1>6. CASE UNCHANGED vars
  BY <1>6 DEF TypeOK, vars
<1>. QED BY <1>1, <1>2, <1>3, <1>4, <1>5, <1>6, Steps

\* The first state is typed.
LEMMA InitTyped ==
  ASSUME Init
  PROVE  TypeOK
<1>1. PolicyInit \in PolicyType
  BY Caps DEF PolicyInit, PolicyType
<1>2. /\ StateTimeout + 1 \in 0..(StateTimeout + 1) /\ StopTimeout + 1 \in 0..(StopTimeout + 1)
      /\ LocalCap \in 0..LocalCap /\ TmpcCap \in 0..TmpcCap /\ ValidCap \in 0..ValidCap
  BY Caps
<1>3. Zeroed \in Command
  BY DEF Zeroed, Command
<1>. QED BY <1>1, <1>2, <1>3 DEF Init, TypeOK, Statuses, BrakeStatus

-----------------------------------------------------------------------------
(* A takeover is earned.                                                     *)

\* A dwell in progress is backed by evaluations that all found TMPC fit: the policy's
\* own measure never exceeds the one computed from the inputs.
DwellBacked == policy.tracking /\ ~policy.active => policy.readyAge <= earned

EarnedInv == HistoryTypeOK /\ DwellBacked

\* An evaluation that finds TMPC unfit ends the dwell and does not hand it the car.
LEMMA UnfitEnds ==
  ASSUME TypeOK, NEW p, NEW t, ~FitToTakeOver(p, t), policy' = NextPolicy(p, t)
  PROVE  \/ policy.active /\ policy' = policy
         \/ ~policy'.active /\ ~policy'.tracking
<1>0. policy \in PolicyType /\ planning.value \in PlanningStates \cup {"none"}
  BY DEF TypeOK
<1>1. ~PolicyInit.active /\ ~PolicyInit.tracking
  BY DEF PolicyInit
<1>2. LET d == Suspended(policy) IN
        /\ ~d.active /\ ~d.tracking
        /\ ~[d EXCEPT !.fault = TRUE].active /\ ~[d EXCEPT !.fault = TRUE].tracking
  BY <1>0 DEF PolicyType, Suspended
<1>3. CASE StateFresh /\ planning.value = "LOCAL"
  BY <1>1, <1>3 DEF NextPolicy, SafetyInputsFresh
<1>4. CASE ~SafetyInputsFresh /\ ~(StateFresh /\ planning.value = "LOCAL")
  BY <1>2, <1>4 DEF NextPolicy, SafetyInputsFresh
<1>5. CASE SafetyInputsFresh /\ planning.value # "LOCAL"
  <2>1. StopRequested \/ planning.value = "GLOBAL"
    BY <1>0, <1>5, PlanningStatesAssumption DEF SafetyInputsFresh, StateFresh, StopRequested
  <2>2. NextPolicy(p, t) =
          IF StopRequested THEN Suspended(policy)
          ELSE IF planning.value # "GLOBAL" THEN policy
          ELSE IF policy.active
               THEN IF TmpcReady(t) \/ FreshnessBlip(t) THEN policy
                    ELSE [Suspended(policy) EXCEPT !.fault = TRUE]
          ELSE IF TmpcReady(t) /\ ~Disagrees(p, t) THEN Dwelt(policy)
          ELSE Suspended(policy)
    BY <1>5 DEF NextPolicy, SafetyInputsFresh
  <2>. QED BY <1>2, <1>5, <2>1, <2>2 DEF FitToTakeOver
<1>. QED BY <1>3, <1>4, <1>5 DEF SafetyInputsFresh

\* One that finds it fit keeps it driving, or starts, continues or completes the dwell.
LEMMA FitDwells ==
  ASSUME NEW p, NEW t, FitToTakeOver(p, t), policy' = NextPolicy(p, t)
  PROVE  policy' = IF policy.active THEN policy ELSE Dwelt(policy)
<1>1. SafetyInputsFresh /\ planning.value = "GLOBAL" /\ ~StopRequested
      /\ TmpcReady(t) /\ ~Disagrees(p, t)
  BY DEF FitToTakeOver
<1>. QED BY <1>1 DEF NextPolicy, SafetyInputsFresh

\* Every evaluation keeps the dwell backed, and hands TMPC the car only after a whole one.
LEMMA EvaluationEarns ==
  ASSUME EarnedInv, TypeOK', NEW p, NEW t, EvaluateAndPublish(p, t), Earns(p, t)
  PROVE  /\ earned' \in -1..ReadyDwell /\ DwellBacked'
         /\ ~policy.active /\ policy'.active => earned' >= ReadyDwell
<1>0. /\ policy' = NextPolicy(p, t) /\ policy \in PolicyType
      /\ earned \in -1..ReadyDwell /\ ReadyDwell \in Nat /\ TypeOK
  BY Caps DEF EvaluateAndPublish, EarnedInv, HistoryTypeOK, TypeOK
<1>1. CASE ~FitToTakeOver(p, t)
  <2>1. earned' = -1
    BY <1>1 DEF Earns
  <2>2. \/ policy.active /\ policy' = policy
        \/ ~policy'.active /\ ~policy'.tracking
    BY <1>0, <1>1, UnfitEnds
  <2>. QED BY <1>0, <2>1, <2>2 DEF DwellBacked
<1>2. CASE FitToTakeOver(p, t)
  <2>1. earned' = IF earned < 0 THEN 0 ELSE earned
    BY <1>2 DEF Earns
  <2>2. earned' \in -1..ReadyDwell /\ earned' >= earned /\ earned' >= 0
    BY <1>0, <2>1
  <2>3. CASE policy.active
    <3>1. policy' = policy
      BY <1>0, <1>2, <2>3, FitDwells
    <3>. QED BY <2>2, <2>3, <3>1 DEF DwellBacked
  <2>4. CASE ~policy.active
    <3>1. policy' = Dwelt(policy)
      BY <1>0, <1>2, <2>4, FitDwells
    <3>2. CASE policy.tracking
      <4>1. policy.readyAge <= earned /\ policy.readyAge \in 0..ReadyDwell
        BY <1>0, <2>4, <3>2 DEF EarnedInv, DwellBacked, PolicyType
      <4>2. /\ policy'.readyAge = policy.readyAge
            /\ policy'.active = (policy.readyAge >= ReadyDwell)
        BY <1>0, <3>1, <3>2 DEF Dwelt, PolicyType
      <4>3. policy'.active => policy.readyAge >= ReadyDwell
        BY <4>2
      <4>4. policy'.readyAge <= earned' /\ (policy'.active => earned' >= ReadyDwell)
        BY <1>0, <2>2, <4>1, <4>2, <4>3
      <4>. QED BY <2>2, <4>4 DEF DwellBacked
    <3>3. CASE ~policy.tracking
      <4>1. policy'.readyAge = 0 /\ policy'.active = (ReadyDwell = 0)
        BY <1>0, <3>1, <3>3 DEF Dwelt, PolicyType
      <4>2. policy'.active => ReadyDwell = 0
        BY <4>1
      <4>3. policy'.readyAge <= earned' /\ (policy'.active => earned' >= ReadyDwell)
        BY <1>0, <2>2, <4>1, <4>2
      <4>. QED BY <2>2, <4>3 DEF DwellBacked
    <3>. QED BY <3>2, <3>3
  <2>. QED BY <2>3, <2>4
<1>. QED BY <1>1, <1>2

\* Time ages the dwell and its measure alike.
LEMMA TickEarns ==
  ASSUME EarnedInv, Tick,
         earned' = IF earned < 0 THEN -1 ELSE Older(earned, ReadyDwell)
  PROVE  earned' \in -1..ReadyDwell /\ DwellBacked' /\ policy'.active = policy.active
<1>0. /\ policy \in PolicyType /\ earned \in -1..ReadyDwell /\ ReadyDwell \in Nat
      /\ policy.readyAge \in 0..ReadyDwell
  BY Caps DEF EarnedInv, HistoryTypeOK, TypeOK, PolicyType
<1>1. /\ policy'.active = policy.active /\ policy'.tracking = policy.tracking
      /\ policy.tracking => policy'.readyAge = Older(policy.readyAge, ReadyDwell)
  BY <1>0 DEF Tick, PolicyType
<1>2. earned' \in -1..ReadyDwell
  BY <1>0, OlderBounds
<1>3. ASSUME policy.tracking, ~policy.active PROVE policy'.readyAge <= earned'
  <2>1. policy.readyAge <= earned /\ earned \in 0..ReadyDwell
    BY <1>0, <1>3 DEF EarnedInv, DwellBacked
  <2>2. Older(policy.readyAge, ReadyDwell) <= Older(earned, ReadyDwell)
    BY <1>0, <2>1, OlderBounds
  <2>. QED BY <1>1, <1>3, <2>1, <2>2
<1>. QED BY <1>1, <1>2, <1>3 DEF DwellBacked

\* Every step keeps the invariant and earns what it hands over.
LEMMA StepEarns ==
  ASSUME EarnedInv, [HistoryNext]_historyVars
  PROVE  /\ EarnedInv'
         /\ ~policy.active /\ policy'.active => earned' >= ReadyDwell
<1>0. TypeOK /\ earned \in -1..ReadyDwell /\ DwellBacked
  BY DEF EarnedInv, HistoryTypeOK
<1>1. TypeOK'
  <2>1. [Next]_vars
    BY DEF HistoryNext, historyVars, vars, Next, Evaluation
  <2>. QED BY <1>0, <2>1, NextTyped
<1>. DEFINE Earned == /\ earned' \in -1..ReadyDwell /\ DwellBacked'
                      /\ ~policy.active /\ policy'.active => earned' >= ReadyDwell
<1>2. ASSUME Input, UNCHANGED earned PROVE Earned
  BY <1>0, <1>2, InputTyped DEF DwellBacked
<1>3. ASSUME NEW c \in LocalCommands, OnLocalCommand(c), Earns(Received(c), tmpc) PROVE Earned
  BY <1>1, <1>3, EvaluationEarns DEF OnLocalCommand
<1>4. ASSUME NEW c \in TmpcCommands, OnTmpcCommand(c), Earns(pp, Received(c)) PROVE Earned
  BY <1>1, <1>4, EvaluationEarns DEF OnTmpcCommand
<1>5. ASSUME OnTimer, Earns(pp, tmpc) PROVE Earned
  BY <1>1, <1>5, EvaluationEarns DEF OnTimer
<1>6. ASSUME Tick, earned' = IF earned < 0 THEN -1 ELSE Older(earned, ReadyDwell) PROVE Earned
  BY <1>6, TickEarns
<1>7. ASSUME UNCHANGED historyVars PROVE Earned
  BY <1>0, <1>7 DEF DwellBacked, historyVars, vars
<1>8. Earned
  BY <1>2, <1>3, <1>4, <1>5, <1>6, <1>7 DEF HistoryNext, Input
<1>. QED BY <1>1, <1>8 DEF EarnedInv, HistoryTypeOK

\* At first nothing is earned and no dwell is in progress.
LEMMA InitEarns ==
  ASSUME HistoryInit
  PROVE  EarnedInv
<1>1. TypeOK /\ earned \in -1..ReadyDwell /\ ~policy.tracking
  BY InitTyped, Caps DEF HistoryInit, Init, PolicyInit
<1>. QED BY <1>1 DEF EarnedInv, HistoryTypeOK, DwellBacked

\* The selector and its history stay well typed, for every timeout, hold, dwell and set
\* of commands.
THEOREM HistoryTypeCorrect == HistorySpec => []HistoryTypeOK
<1>1. HistoryInit => EarnedInv
  BY InitEarns
<1>2. EarnedInv /\ [HistoryNext]_historyVars => EarnedInv'
  BY StepEarns
<1>3. EarnedInv => HistoryTypeOK
  BY DEF EarnedInv
<1>. QED BY <1>1, <1>2, <1>3, PTL DEF HistorySpec

\* TMPC takes /vehicle/cmd over only at the end of a dwell throughout which every
\* evaluation found it ready, wanted and in agreement with Pure Pursuit.
THEOREM EveryTakeoverEarned == HistorySpec => TakeoverEarned
<1>1. HistoryInit => EarnedInv
  BY InitEarns
<1>2. EarnedInv /\ [HistoryNext]_historyVars => EarnedInv'
  BY StepEarns
<1>3. EarnedInv /\ [HistoryNext]_historyVars
        => [~policy.active /\ policy'.active => earned' >= ReadyDwell]_historyVars
  BY StepEarns
<1>. QED BY <1>1, <1>2, <1>3, PTL DEF HistorySpec, TakeoverEarned

-----------------------------------------------------------------------------
(* The node implements the relay.                                            *)

\* What is waiting when an evaluation starts from the candidates p and t.
WaitingOf(p, t) == [s \in {"PP", "TMPC"} |-> IF s = "PP" THEN p.new ELSE t.new]

\* An evaluation is one step of the relay from what waits then.
LEMMA EvaluationRelays ==
  ASSUME TypeOK, TypeOK', NEW p \in LocalCandidate, NEW t \in TmpcCandidate,
         EvaluateAndPublish(p, t)
  PROVE  Relay!Relay(WaitingOf(p, t))
<1>. DEFINE s == SourceOf(status')
            sendPp == Forwards("PP", p, s)
            sendT == Forwards("TMPC", t, s)
<1>0. /\ s \in {"PP", "TMPC", "BRAKE"}
      /\ p.new \in BOOLEAN /\ t.new \in BOOLEAN
      /\ out.beat \in {0, 1} /\ out \in OutType
  BY StatusOps DEF EvaluateAndPublish, LocalCandidate, TmpcCandidate, TypeOK, OutType
<1>1. /\ pp' = [p EXCEPT !.new = @ /\ ~sendPp]
      /\ tmpc' = [t EXCEPT !.new = @ /\ ~sendT]
      /\ out' = IF sendPp \/ sendT THEN [source |-> s, beat |-> 1 - out.beat]
                ELSE IF s = "BRAKE" THEN [out EXCEPT !.source = s] ELSE out
  BY DEF EvaluateAndPublish
<1>2. /\ sendPp <=> s = "PP" /\ (out.source # "PP" \/ p.new)
      /\ sendT <=> s = "TMPC" /\ (out.source # "TMPC" \/ t.new)
  BY DEF Forwards
<1>. HIDE DEF s, sendPp, sendT
<1>3. /\ pp'.new = (p.new /\ ~sendPp) /\ tmpc'.new = (t.new /\ ~sendT)
  BY <1>1 DEF LocalCandidate, TmpcCandidate
<1>4. CASE s = "BRAKE"
  <2>1. ~sendPp /\ ~sendT
    BY <1>2, <1>4
  <2>2. out'.source = "BRAKE" /\ out'.beat = out.beat
    BY <1>0, <1>1, <1>4, <2>1 DEF OutType
  <2>3. pp'.new = p.new /\ tmpc'.new = t.new
    BY <1>0, <1>3, <2>1
  <2>4. WaitingOf(pp, tmpc)' = WaitingOf(p, t)
    BY <2>3 DEF WaitingOf
  <2>. QED BY <2>2, <2>4 DEF Relay!Relay, Relay!Brake, WaitingOf
<1>5. CASE s = "PP"
  <2>1. ~sendT /\ (sendPp <=> out.source # "PP" \/ p.new)
    BY <1>2, <1>5
  <2>2. out'.source = "PP"
    BY <1>0, <1>1, <1>5, <2>1 DEF OutType
  <2>3. out'.beat = IF "PP" # out.source \/ p.new THEN 1 - out.beat ELSE out.beat
    BY <1>0, <1>1, <1>5, <2>1 DEF OutType
  <2>4. pp'.new = FALSE /\ tmpc'.new = t.new
    BY <1>0, <1>3, <2>1
  <2>5. WaitingOf(pp, tmpc)' = [WaitingOf(p, t) EXCEPT !["PP"] = FALSE]
    BY <2>4 DEF WaitingOf
  <2>6. WaitingOf(p, t)["PP"] = p.new
    BY DEF WaitingOf
  <2>7. Relay!Select(WaitingOf(p, t), "PP")
    BY <2>2, <2>3, <2>5, <2>6 DEF Relay!Select, WaitingOf
  <2>. QED BY <2>7 DEF Relay!Relay
<1>6. CASE s = "TMPC"
  <2>1. ~sendPp /\ (sendT <=> out.source # "TMPC" \/ t.new)
    BY <1>2, <1>6
  <2>2. out'.source = "TMPC"
    BY <1>0, <1>1, <1>6, <2>1 DEF OutType
  <2>3. out'.beat = IF "TMPC" # out.source \/ t.new THEN 1 - out.beat ELSE out.beat
    BY <1>0, <1>1, <1>6, <2>1 DEF OutType
  <2>4. tmpc'.new = FALSE /\ pp'.new = p.new
    BY <1>0, <1>3, <2>1
  <2>5. WaitingOf(pp, tmpc)' = [WaitingOf(p, t) EXCEPT !["TMPC"] = FALSE]
    BY <2>4 DEF WaitingOf
  <2>6. WaitingOf(p, t)["TMPC"] = t.new
    BY DEF WaitingOf
  <2>7. Relay!Select(WaitingOf(p, t), "TMPC")
    BY <2>2, <2>3, <2>5, <2>6 DEF Relay!Select, WaitingOf
  <2>. QED BY <2>7 DEF Relay!Relay
<1>. QED BY <1>0, <1>4, <1>5, <1>6

\* Every step of the selector is a step of the relay, or changes none of its variables.
LEMMA StepRelays ==
  ASSUME TypeOK, [Next]_vars
  PROVE  [Relay!RelayNext]_(Relay!relayVars)
<1>0. TypeOK'
  BY NextTyped
<1>1. WaitingOf(pp, tmpc) = [s \in {"PP", "TMPC"} |-> IF s = "PP" THEN pp.new ELSE tmpc.new]
  BY DEF WaitingOf
<1>2. ASSUME Input PROVE UNCHANGED Relay!relayVars
  BY <1>2, InputTyped DEF Relay!relayVars
<1>3. ASSUME NEW c \in LocalCommands, OnLocalCommand(c) PROVE Relay!RelayNext
  <2>1. Relay!Relay(WaitingOf(Received(c), tmpc))
    BY <1>0, <1>3, ReceivedTypes, HeldTyped, EvaluationRelays
    DEF OnLocalCommand, Relay!Relay, Relay!Select, Relay!Brake
  <2>2. WaitingOf(Received(c), tmpc) = [WaitingOf(pp, tmpc) EXCEPT !["PP"] = TRUE]
    BY DEF WaitingOf, Received
  <2>3. Relay!Arrive("PP")
    BY <1>1, <2>1, <2>2 DEF Relay!Arrive, Relay!Relay, Relay!Select, Relay!Brake
  <2>. QED BY <2>3
    DEF Relay!RelayNext, Relay!Arrive, Relay!Relay, Relay!Select, Relay!Brake
<1>4. ASSUME NEW c \in TmpcCommands, OnTmpcCommand(c) PROVE Relay!RelayNext
  <2>1. Relay!Relay(WaitingOf(pp, Received(c)))
    BY <1>0, <1>4, ReceivedTypes, HeldTyped, EvaluationRelays
    DEF OnTmpcCommand, Relay!Relay, Relay!Select, Relay!Brake
  <2>2. WaitingOf(pp, Received(c)) = [WaitingOf(pp, tmpc) EXCEPT !["TMPC"] = TRUE]
    BY DEF WaitingOf, Received
  <2>3. Relay!Arrive("TMPC")
    BY <1>1, <2>1, <2>2 DEF Relay!Arrive, Relay!Relay, Relay!Select, Relay!Brake
  <2>. QED BY <2>3
    DEF Relay!RelayNext, Relay!Arrive, Relay!Relay, Relay!Select, Relay!Brake
<1>5. ASSUME OnTimer PROVE Relay!RelayNext
  <2>1. Relay!Relay(WaitingOf(pp, tmpc))
    BY <1>0, <1>5, HeldTyped, EvaluationRelays
    DEF OnTimer, Relay!Relay, Relay!Select, Relay!Brake
  <2>. QED BY <1>1, <2>1 DEF Relay!RelayNext, Relay!Relay, Relay!Select, Relay!Brake
<1>6. ASSUME Tick PROVE UNCHANGED Relay!relayVars
  <2>1. pp'.new = pp.new /\ tmpc'.new = tmpc.new /\ out' = out
    BY <1>6 DEF Tick, TypeOK
  <2>. QED BY <2>1 DEF Relay!relayVars
<1>7. ASSUME UNCHANGED vars PROVE UNCHANGED Relay!relayVars
  BY <1>7 DEF vars, Relay!relayVars
<1>. QED BY <1>2, <1>3, <1>4, <1>5, <1>6, <1>7, Steps

\* hyu_cmd_selector implements CmdRelay: it forwards each message of the selected source
\* once and as it arrives, the latest one again on a switch, and its timer repeats nothing.
THEOREM ImplementsRelay == Spec => RelaysCommands
<1>1. Init => TypeOK
  BY InitTyped
<1>2. TypeOK /\ [Next]_vars => TypeOK'
  BY NextTyped
<1>3. Init => Relay!RelayInit
  BY DEF Init, Relay!RelayInit
<1>4. TypeOK /\ [Next]_vars => [Relay!RelayNext]_(Relay!relayVars)
  BY StepRelays
<1>. QED BY <1>1, <1>2, <1>3, <1>4, PTL DEF Spec, RelaysCommands, Relay!RelaySpec

=============================================================================
