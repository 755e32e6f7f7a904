------------------------- MODULE TmpcHandoffProofs -------------------------
(***************************************************************************)
(* Proofs about the command chain of TmpcHandoff, for every timeout, hold  *)
(* and dwell and every choice of what comes late: a stop beats TMPC, one   *)
(* refused command leaks at most, the vehicle is never left in silence,    *)
(* and a TMPC fault does not park the car.                                 *)
(***************************************************************************)
EXTENDS TmpcHandoff, CmdSelectorProofs

ChainTypeOK ==
  /\ TypeOK
  /\ late \in LateSets
  /\ bridge \in [has : BOOLEAN, good : BOOLEAN, age : 0..(OutputTimeout + 1)]
  /\ st \in {"LOCAL", "GLOBAL", "STOP"}
  /\ built \in BOOLEAN /\ heard \in BOOLEAN
  /\ leaked \in 0..LeakCap /\ silence \in 0..(VehicleTimeout + 1)
  /\ due \in SUBSET Topics

\* A stop the planner has announced on a topic is what the selector holds of that topic.
StopInv ==
  /\ st = "STOP" /\ "state" \notin due => planning.value = "STOP"
  /\ st = "STOP" /\ "stop" \notin due => stop.value

\* While only the MPC is late the selector holds one whole pair of the bridge, or the
\* command of one and the flag of the next one or of the one before.
PairInv ==
  /\ "bridge" \in due => "tmpcCmd" \notin due /\ "tmpcValid" \notin due
  /\ "tmpcValid" \notin due => valid.value = built
  /\ "tmpcCmd" \notin due => heard = built
  /\ "tmpcCmd" \in due /\ "tmpcValid" \in due => heard = valid.value

\* A command the bridge refused that went out is the one held, and it went out once.
LeakedInv == leaked >= 1 => leaked = 1 /\ ~heard /\ ~tmpc.new /\ out.source = "TMPC"

LeakInv == late \subseteq {"mpc"} => PairInv /\ LeakedInv

\* The silence is covered by the age of the command that was last forwarded; once the
\* timer has run that age is within the source's timeout, and a brake is fresh.
SilenceInv ==
  /\ out.source = "PP" => /\ ~pp.new /\ silence <= pp.age
                          /\ "timer" \notin due => pp.age < LocalCap
  /\ out.source = "TMPC" => /\ ~tmpc.new /\ silence <= tmpc.age
                            /\ "timer" \notin due => tmpc.age < TmpcCap
  /\ out.source \in {"none", "BRAKE"} => /\ silence <= 1
                                         /\ "timer" \notin due => silence = 0

\* While only TMPC's side is late no input of the selector is ever two ticks old.
InputsFresh ==
  /\ planning.value # "none" => planning.age <= IF "state" \in due THEN 1 ELSE 0
  /\ stop.has => stop.age <= IF "stop" \in due THEN 1 ELSE 0
  /\ pp.has => pp.cmd.finite /\ pp.age <= IF "pp" \in due THEN 1 ELSE 0

\* TMPC cannot have dwelt before Pure Pursuit is heard, which is within the first period.
Unheard ==
  /\ ~policy.active /\ policy.readyAge = 0
  /\ "pp" \in due \/ (due = {} /\ ~policy.tracking)

\* A car that drives has heard all three.
FreshInv ==
  late \subseteq TmpcSide =>
    /\ InputsFresh
    /\ ~pp.has => Unheard
    /\ status \notin BrakeStatus => planning.value # "none" /\ stop.has /\ pp.has

-----------------------------------------------------------------------------
(* The steps of the chain: an evaluation, an input of the selector or the     *)
(* bridge, or time.                                                           *)

\* Where the candidates of an evaluation come from.
FromTmpc(p, t) ==
  /\ "tmpcCmd" \in due /\ due' = due \ {"tmpcCmd"} /\ heard' = built
  /\ p = pp /\ t.new /\ t.age = 0

FromPp(p, t) ==
  /\ "pp" \in due /\ due' = due \ {"pp"} /\ heard' = heard
  /\ p.new /\ p.has /\ p.cmd.finite /\ p.age = 0 /\ t = tmpc

FromTimer(p, t) ==
  /\ "timer" \in due /\ due' = due \ {"timer"} /\ heard' = heard
  /\ p = pp /\ t = tmpc

Evaluated(p, t) ==
  /\ EvaluateAndPublish(p, t) /\ Observe
  /\ FromTmpc(p, t) \/ FromPp(p, t) \/ FromTimer(p, t)
  /\ UNCHANGED <<planning, stop, valid, bridge, st, built>>

Evaluates == TmpcCommand \/ PpCommand \/ SelectorTimer

\* An input, which changes nothing the selector decides on by itself.
Hears ==
  \/ \E good \in BOOLEAN : OnMpcOutput(good)
  \/ BridgeTimer \/ TmpcValid \/ PlanningState \/ StopRequest

\* The three callbacks that evaluate do so with typed candidates.
LEMMA Evaluations ==
  ASSUME ChainTypeOK, Evaluates
  PROVE  \E p \in LocalCandidate, t \in TmpcCandidate : Evaluated(p, t)
<1>0. TypeOK /\ pp \in LocalCandidate /\ tmpc \in TmpcCandidate
  BY HeldTyped DEF ChainTypeOK
<1>1. CASE TmpcCommand
  <2>1. PICK c \in BuiltCommands : OnTmpcCommand(c)
    BY <1>1 DEF TmpcCommand
  <2>2. c \in Command
    <3>1. (IF built THEN Steers ELSE {0}) \subseteq Int
      BY HandoffAssumption
    <3>2. c \in [finite : {TRUE}, steer : IF built THEN Steers ELSE {0}]
      BY DEF BuiltCommands
    <3>. QED BY <3>1, <3>2 DEF Command
  <2>3. Received(c) \in TmpcCandidate /\ Received(c).new /\ Received(c).age = 0
    BY <2>2, Caps DEF Received, TmpcCandidate
  <2>4. Evaluated(pp, Received(c))
    BY <1>1, <2>1, <2>3 DEF TmpcCommand, OnTmpcCommand, Evaluated, FromTmpc, Deliver
  <2>. QED BY <1>0, <2>3, <2>4
<1>2. CASE PpCommand
  <2>. DEFINE c == [finite |-> TRUE, steer |-> 0]
  <2>1. OnLocalCommand(c) /\ Deliver("pp") /\ Observe
        /\ UNCHANGED <<bridge, st, built, heard>>
    BY <1>2 DEF PpCommand
  <2>2. c \in Command /\ c.finite
    BY DEF Command
  <2>. HIDE DEF c
  <2>3. /\ Received(c) \in LocalCandidate /\ Received(c).new /\ Received(c).has
        /\ Received(c).cmd.finite /\ Received(c).age = 0
    BY <2>2, Caps DEF Received, LocalCandidate
  <2>4. Evaluated(Received(c), tmpc)
    BY <2>1, <2>3 DEF OnLocalCommand, Evaluated, FromPp, Deliver
  <2>. QED BY <1>0, <2>3, <2>4
<1>3. CASE SelectorTimer
  <2>1. Evaluated(pp, tmpc)
    BY <1>3 DEF SelectorTimer, OnTimer, Evaluated, FromTimer, Deliver
  <2>. QED BY <1>0, <2>1
<1>. QED BY <1>1, <1>2, <1>3 DEF Evaluates

\* Every step is of one of the three kinds.
LEMMA ChainSteps ==
  ASSUME ChainTypeOK, [ChainNext /\ UNCHANGED late]_<<chainVars, late>>
  PROVE  \/ (\E p \in LocalCandidate, t \in TmpcCandidate : Evaluated(p, t))
            /\ late' = late
         \/ Hears /\ late' = late
         \/ Elapse /\ late' = late
         \/ UNCHANGED <<chainVars, late>>
<1>1. Evaluates => \E p \in LocalCandidate, t \in TmpcCandidate : Evaluated(p, t)
  BY Evaluations
<1>2. (ChainNext /\ UNCHANGED late) \/ UNCHANGED <<chainVars, late>>
  OBVIOUS
<1>3. ChainNext => Evaluates \/ Hears \/ Elapse
  BY DEF ChainNext, Evaluates, Hears
<1>. QED BY <1>1, <1>2, <1>3

\* An input leaves what the selector decided and what the vehicle saw alone.
LEMMA HearsNothingElse ==
  ASSUME Hears
  PROVE  /\ UNCHANGED <<pp, tmpc, policy, status, out, st, heard, leaked, silence>>
         /\ "timer" \in due' <=> "timer" \in due
         /\ "pp" \in due' <=> "pp" \in due
         /\ due # {}
  BY DEF Hears, OnMpcOutput, BridgeTimer, TmpcValid, PlanningState, StopRequest, Deliver,
         OnTmpcValid, OnPlanningState, OnStopRequest, vars

-----------------------------------------------------------------------------
(* Types.                                                                     *)

LEMMA ChainCaps ==
  /\ OutputTimeout + 1 \in Nat /\ VehicleTimeout + 1 \in Nat /\ LeakCap \in Nat
  /\ LocalTimeout < LocalCap /\ LocalHold < LocalCap /\ LocalCap >= 1
  /\ TmpcTimeout < TmpcCap /\ TmpcHold < TmpcCap /\ TmpcCap >= 1
  BY SelectorAssumption, HandoffAssumption DEF LocalCap, TmpcCap, Longest, LeakCap

\* What the vehicle sees of an evaluation stays within its bounds.
LEMMA ObserveTyped ==
  ASSUME leaked \in 0..LeakCap, silence \in 0..(VehicleTimeout + 1), Observe
  PROVE  leaked' \in 0..LeakCap /\ silence' \in 0..(VehicleTimeout + 1)
<1>1. Older(leaked, LeakCap) \in 0..LeakCap /\ 0 \in 0..LeakCap
  BY ChainCaps, OlderBounds
<1>2. 0 \in 0..(VehicleTimeout + 1)
  BY ChainCaps
<1>. QED BY <1>1, <1>2 DEF Observe

LEMMA ChainInitTyped ==
  ASSUME ChainInit
  PROVE  ChainTypeOK
<1>1. TypeOK
  BY InitTyped DEF ChainInit
<1>2. OutputTimeout + 1 \in 0..(OutputTimeout + 1) /\ 0 \in 0..LeakCap
      /\ 0 \in 0..(VehicleTimeout + 1)
  BY ChainCaps
<1>. QED BY <1>1, <1>2 DEF ChainInit, ChainTypeOK

\* An input keeps the types.
LEMMA HearsTyped ==
  ASSUME ChainTypeOK, Hears
  PROVE  TypeOK' /\ bridge' \in [has : BOOLEAN, good : BOOLEAN, age : 0..(OutputTimeout + 1)]
         /\ built' \in BOOLEAN /\ due' \in SUBSET Topics
<1>0. /\ TypeOK /\ st \in PlanningStates /\ due \in SUBSET Topics
      /\ 0 \in 0..(OutputTimeout + 1)
      /\ built \in BOOLEAN
      /\ bridge \in [has : BOOLEAN, good : BOOLEAN, age : 0..(OutputTimeout + 1)]
  BY HandoffAssumption, ChainCaps DEF ChainTypeOK
<1>1. ASSUME NEW good \in BOOLEAN, OnMpcOutput(good)
      PROVE  UNCHANGED <<vars, built>> /\ due' = due \ {"mpc"}
             /\ bridge' = [has |-> TRUE, good |-> good, age |-> 0]
  BY <1>1 DEF OnMpcOutput, Deliver
<1>2. CASE \E good \in BOOLEAN : OnMpcOutput(good)
  <2>1. PICK good \in BOOLEAN : OnMpcOutput(good)
    BY <1>2
  <2>2. /\ UNCHANGED <<vars, built>> /\ due' = due \ {"mpc"}
        /\ bridge' = [has |-> TRUE, good |-> good, age |-> 0]
    BY <1>1, <2>1
  <2>3. TypeOK'
    BY <1>0, <2>2 DEF TypeOK, vars
  <2>. QED BY <1>0, <2>2, <2>3
<1>3. CASE BridgeTimer
  <2>1. BuildsValid \in BOOLEAN
    BY <1>0 DEF BuildsValid
  <2>2. TypeOK'
    BY <1>0, <1>3 DEF BridgeTimer, TypeOK, vars
  <2>. QED BY <1>0, <1>3, <2>1, <2>2 DEF BridgeTimer, Topics, TmpcSide
<1>4. CASE TmpcValid
  <2>1. Input
    BY <1>0, <1>4 DEF TmpcValid, Input
  <2>. QED BY <1>0, <1>4, <2>1, InputTyped DEF TmpcValid, Deliver
<1>5. CASE PlanningState
  <2>1. Input
    BY <1>0, <1>5 DEF PlanningState, Input
  <2>. QED BY <1>0, <1>5, <2>1, InputTyped DEF PlanningState, Deliver
<1>6. CASE StopRequest
  <2>1. Input
    BY <1>6 DEF StopRequest, Input
  <2>. QED BY <1>0, <1>6, <2>1, InputTyped DEF StopRequest, Deliver
<1>. QED BY <1>2, <1>3, <1>4, <1>5, <1>6 DEF Hears

\* Every step keeps the types.
LEMMA ChainTyped ==
  ASSUME ChainTypeOK, [ChainNext /\ UNCHANGED late]_<<chainVars, late>>
  PROVE  ChainTypeOK'
<1>0. /\ TypeOK /\ late \in LateSets /\ due \in SUBSET Topics
      /\ bridge \in [has : BOOLEAN, good : BOOLEAN, age : 0..(OutputTimeout + 1)]
      /\ st \in {"LOCAL", "GLOBAL", "STOP"} /\ built \in BOOLEAN /\ heard \in BOOLEAN
      /\ leaked \in 0..LeakCap /\ silence \in 0..(VehicleTimeout + 1)
  BY DEF ChainTypeOK
<1>1. ASSUME NEW p \in LocalCandidate, NEW t \in TmpcCandidate, Evaluated(p, t), late' = late
      PROVE  ChainTypeOK'
  <2>1. TypeOK'
    BY <1>0, <1>1, EvaluationKeepsTypes DEF Evaluated
  <2>2. leaked' \in 0..LeakCap /\ silence' \in 0..(VehicleTimeout + 1)
    BY <1>0, <1>1, ObserveTyped DEF Evaluated
  <2>3. due' \in SUBSET Topics /\ heard' \in BOOLEAN
    BY <1>0, <1>1 DEF Evaluated, FromTmpc, FromPp, FromTimer
  <2>. QED BY <1>0, <1>1, <2>1, <2>2, <2>3 DEF Evaluated, ChainTypeOK
<1>2. CASE Hears /\ late' = late
  BY <1>0, <1>2, HearsTyped, HearsNothingElse DEF ChainTypeOK
<1>3. CASE Elapse /\ late' = late
  <2>1. TypeOK'
    BY <1>0, <1>3, TickTyped DEF Elapse
  <2>2. /\ Older(bridge.age, OutputTimeout + 1) \in 0..(OutputTimeout + 1)
        /\ Older(silence, VehicleTimeout + 1) \in 0..(VehicleTimeout + 1)
    BY <1>0, ChainCaps, OlderBounds
  <2>3. st' \in {"LOCAL", "GLOBAL", "STOP"}
    BY <1>3 DEF Elapse, PlannerNext
  <2>4. bridge' \in [has : BOOLEAN, good : BOOLEAN, age : 0..(OutputTimeout + 1)]
    BY <1>0, <1>3, <2>2 DEF Elapse
  <2>. QED BY <1>0, <1>3, <2>1, <2>2, <2>3, <2>4 DEF Elapse, ChainTypeOK
<1>4. CASE UNCHANGED <<chainVars, late>>
  BY <1>0, <1>4 DEF ChainTypeOK, TypeOK, chainVars, chain, vars
<1>. QED BY <1>1, <1>2, <1>3, <1>4, ChainSteps

-----------------------------------------------------------------------------
(* What an evaluation publishes.                                              *)

\* The source selected last is that of the status; its candidate is sent when it is new
\* or the source has just been switched to, and is new no more.
LEMMA EvaluationSends ==
  ASSUME TypeOK, NEW p \in LocalCandidate, NEW t \in TmpcCandidate, EvaluateAndPublish(p, t)
  PROVE  /\ out'.source = SourceOf(status') /\ out'.source \in {"PP", "TMPC", "BRAKE"}
         /\ pp'.has = p.has /\ pp'.cmd = p.cmd /\ pp'.age = p.age
         /\ tmpc'.age = t.age
         /\ out'.source = "PP" =>
              ~pp'.new /\ (out'.beat # out.beat <=> out.source # "PP" \/ p.new)
         /\ out'.source = "TMPC" =>
              ~tmpc'.new /\ (out'.beat # out.beat <=> out.source # "TMPC" \/ t.new)
<1>. DEFINE s == SourceOf(status')
            sendPp == Forwards("PP", p, s)
            sendT == Forwards("TMPC", t, s)
<1>0. /\ s \in {"PP", "TMPC", "BRAKE"}
      /\ p.new \in BOOLEAN /\ t.new \in BOOLEAN
      /\ out.beat \in {0, 1} /\ out \in OutType
  BY StatusOps DEF EvaluateAndPublish, LocalCandidate, TmpcCandidate, TypeOK, OutType
<1>1. /\ pp' = [p EXCEPT !.new = @ /\ ~sendPp]
      /\ tmpc' = [t EXCEPT !.new = @ /\ ~sendT]
      /\ out' = IF sendPp \/ sendT THEN [source |-> s, beat |-> 1 - out.beat]
                ELSE IF s = "BRAKE" THEN [out EXCEPT !.source = s] ELSE out
  BY DEF EvaluateAndPublish
<1>2. /\ sendPp <=> s = "PP" /\ (out.source # "PP" \/ p.new)
      /\ sendT <=> s = "TMPC" /\ (out.source # "TMPC" \/ t.new)
  BY DEF Forwards
<1>. HIDE DEF s, sendPp, sendT
<1>3. /\ pp'.has = p.has /\ pp'.cmd = p.cmd /\ pp'.age = p.age
      /\ tmpc'.age = t.age
      /\ pp'.new = (p.new /\ ~sendPp) /\ tmpc'.new = (t.new /\ ~sendT)
  BY <1>1 DEF LocalCandidate, TmpcCandidate
<1>4. 1 - out.beat # out.beat
  BY <1>0
<1>5. CASE s = "BRAKE"
  <2>1. out'.source = "BRAKE"
    BY <1>0, <1>1, <1>2, <1>5 DEF OutType
  <2>. QED BY <1>3, <1>5, <2>1 DEF s
<1>6. CASE s = "PP"
  <2>1. ~sendT /\ (sendPp <=> out.source # "PP" \/ p.new)
    BY <1>2, <1>6
  <2>2. /\ out'.source = "PP"
        /\ out'.beat # out.beat <=> sendPp
    BY <1>0, <1>1, <1>4, <1>6, <2>1 DEF OutType
  <2>3. ~pp'.new
    BY <1>3, <2>1
  <2>. QED BY <1>3, <1>6, <2>1, <2>2, <2>3 DEF s
<1>7. CASE s = "TMPC"
  <2>1. ~sendPp /\ (sendT <=> out.source # "TMPC" \/ t.new)
    BY <1>2, <1>7
  <2>2. /\ out'.source = "TMPC"
        /\ out'.beat # out.beat <=> sendT
    BY <1>0, <1>1, <1>4, <1>7, <2>1 DEF OutType
  <2>3. ~tmpc'.new
    BY <1>3, <2>1
  <2>. QED BY <1>3, <1>7, <2>1, <2>2, <2>3 DEF s
<1>. QED BY <1>0, <1>5, <1>6, <1>7

\* TMPC is selected only without a stop, and Pure Pursuit only with a command within its
\* timeout or hold.
LEMMA StatusSource ==
  ASSUME NEW c, NEW p
  PROVE  /\ SourceOf(StatusOf(c, p)) = "TMPC" =>
              /\ SafetyInputsFresh /\ ~StopRequested /\ planning.value = "GLOBAL"
              /\ c.active
         /\ SourceOf(StatusOf(c, p)) = "PP" =>
              LocalWithin(p, LocalTimeout) \/ LocalWithin(p, LocalHold)
<1>1. /\ \A v \in PpStatus : SourceOf(v) = "PP"
      /\ \A v \in BrakeStatus : SourceOf(v) = "BRAKE"
      /\ SourceOf("GLOBAL_TMPC") = "TMPC"
  BY DEF SourceOf, PpStatus, BrakeStatus
<1>. DEFINE ok == LocalWithin(p, LocalTimeout)
<1>2. /\ c.active => GlobalStatus(c, ok) = "GLOBAL_TMPC"
      /\ ~c.active /\ ok => GlobalStatus(c, ok) \in PpStatus
      /\ ~c.active /\ ~ok => GlobalStatus(c, ok) \in BrakeStatus
  BY DEF GlobalStatus, PpStatus, BrakeStatus
<1>3. CASE ~SafetyInputsFresh
  <2>1. StatusOf(c, p) \in BrakeStatus
    BY <1>3 DEF StatusOf, BrakeStatus
  <2>. QED BY <1>1, <2>1
<1>4. CASE SafetyInputsFresh /\ StopRequested
  <2>1. StatusOf(c, p) \in IF ok THEN PpStatus ELSE BrakeStatus
    BY <1>4 DEF StatusOf, PpStatus, BrakeStatus
  <2>. QED BY <1>1, <2>1
<1>5. CASE SafetyInputsFresh /\ ~StopRequested /\ planning.value = "LOCAL"
  <2>1. StatusOf(c, p) \in IF LocalWithin(p, LocalHold) THEN PpStatus ELSE BrakeStatus
    BY <1>5 DEF StatusOf, PpStatus, BrakeStatus
  <2>. QED BY <1>1, <2>1
<1>6. CASE SafetyInputsFresh /\ ~StopRequested /\ planning.value = "GLOBAL"
  <2>1. StatusOf(c, p) = GlobalStatus(c, ok)
    BY <1>6 DEF StatusOf
  <2>. HIDE DEF ok
  <2>2. CASE c.active
    BY <1>1, <1>2, <1>6, <2>1, <2>2
  <2>3. CASE ~c.active /\ ok
    BY <1>1, <1>2, <2>1, <2>3 DEF ok
  <2>4. CASE ~c.active /\ ~ok
    BY <1>1, <1>2, <2>1, <2>4
  <2>. QED BY <2>2, <2>3, <2>4
<1>7. CASE SafetyInputsFresh /\ ~StopRequested /\ planning.value \notin {"LOCAL", "GLOBAL"}
  <2>1. StatusOf(c, p) \in BrakeStatus
    BY <1>7 DEF StatusOf, BrakeStatus
  <2>. QED BY <1>1, <2>1
<1>. QED BY <1>3, <1>4, <1>5, <1>6, <1>7

-----------------------------------------------------------------------------
(* A stop beats TMPC.                                                         *)

\* Every step keeps what an announced stop means, and no evaluation forwards TMPC then.
LEMMA StopStep ==
  ASSUME ChainTypeOK, StopInv, [ChainNext /\ UNCHANGED late]_<<chainVars, late>>
  PROVE  /\ StopInv'
         /\ st = "STOP" /\ ~({"state", "stop"} \subseteq due) => ~Forwarded("TMPC")
<1>0. TypeOK
  BY DEF ChainTypeOK
<1>. DEFINE Beaten == st = "STOP" /\ ~({"state", "stop"} \subseteq due) => ~Forwarded("TMPC")
<1>1. ASSUME NEW p \in LocalCandidate, NEW t \in TmpcCandidate, Evaluated(p, t)
      PROVE  StopInv' /\ Beaten
  <2>1. /\ UNCHANGED <<planning, stop, st>>
        /\ "state" \in due' <=> "state" \in due
        /\ "stop" \in due' <=> "stop" \in due
    BY <1>1 DEF Evaluated, FromTmpc, FromPp, FromTimer
  <2>2. StopInv'
    BY <2>1 DEF StopInv
  <2>3. ASSUME st = "STOP", ~({"state", "stop"} \subseteq due) PROVE ~Forwarded("TMPC")
    <3>1. StopRequested
      BY <2>3 DEF StopInv, StopRequested
    <3>2. out'.source = SourceOf(StatusOf(policy', p))
      BY <1>0, <1>1, EvaluationSends DEF Evaluated, EvaluateAndPublish
    <3>. QED BY <3>1, <3>2, StatusSource DEF Forwarded
  <2>. QED BY <2>2, <2>3
<1>2. CASE Hears
  <2>1. ASSUME PlanningState PROVE StopInv'
    BY <2>1 DEF StopInv, PlanningState, Deliver, OnPlanningState
  <2>2. ASSUME StopRequest PROVE StopInv'
    <3>1. /\ st' = st /\ planning' = planning
          /\ "state" \in due' <=> "state" \in due
          /\ st = "STOP" => stop'.value
      BY <2>2 DEF StopRequest, Deliver, OnStopRequest
    <3>. QED BY <3>1 DEF StopInv
  <2>3. ASSUME (\E good \in BOOLEAN : OnMpcOutput(good)) \/ BridgeTimer \/ TmpcValid
        PROVE  StopInv'
    BY <2>3 DEF StopInv, OnMpcOutput, BridgeTimer, TmpcValid, Deliver, OnTmpcValid, vars
  <2>4. StopInv'
    BY <1>2, <2>1, <2>2, <2>3 DEF Hears
  <2>. QED BY <1>2, <2>4, HearsNothingElse DEF Forwarded
<1>3. CASE Elapse
  <2>1. {"state", "stop"} \subseteq due'
    BY <1>3 DEF Elapse, Topics, TmpcSide
  <2>. QED BY <1>3, <2>1 DEF Elapse, Tick, StopInv, Forwarded
<1>4. CASE UNCHANGED <<chainVars, late>>
  BY <1>4 DEF StopInv, Forwarded, chainVars, chain, vars
<1>. QED BY <1>1, <1>2, <1>3, <1>4, ChainSteps

\* Once the planner has announced a stop on either topic and it was delivered, no further
\* TMPC command reaches the vehicle, whatever else is late.
THEOREM StopAlwaysBeatsTmpc == ChainSpec => StopBeatsTmpc
<1>1. ChainInit => ChainTypeOK /\ StopInv
  BY ChainInitTyped DEF ChainInit, StopInv
<1>2. ChainTypeOK /\ StopInv /\ [ChainNext /\ UNCHANGED late]_<<chainVars, late>>
        => /\ ChainTypeOK' /\ StopInv'
           /\ [st = "STOP" /\ ~({"state", "stop"} \subseteq due) => ~Forwarded("TMPC")]_chainVars
  BY ChainTyped, StopStep
<1>. QED BY <1>1, <1>2, PTL DEF ChainSpec, StopBeatsTmpc

-----------------------------------------------------------------------------
(* One refused command at most.                                               *)

\* TMPC drives only on a command and a flag within their timeouts or the hold, and on a
\* flag that says valid.
LEMMA DrivesOnValid ==
  ASSUME TypeOK, NEW p \in LocalCandidate, NEW t \in TmpcCandidate,
         EvaluateAndPublish(p, t), out'.source = "TMPC"
  PROVE  /\ valid.value = TRUE
         /\ t.age <= TmpcTimeout \/ t.age <= TmpcHold
<1>0. policy \in PolicyType
  BY DEF TypeOK
<1>1. policy' = NextPolicy(p, t) /\ SourceOf(StatusOf(policy', p)) = "TMPC"
  BY EvaluationSends DEF EvaluateAndPublish
<1>2. /\ SafetyInputsFresh /\ ~StopRequested /\ planning.value = "GLOBAL"
      /\ policy'.active
  BY <1>1, StatusSource
<1>3. /\ ~Suspended(policy).active
      /\ ~[Suspended(policy) EXCEPT !.fault = TRUE].active
  BY <1>0 DEF Suspended, PolicyType
<1>4. policy' = IF policy.active
                THEN IF TmpcReady(t) \/ FreshnessBlip(t) THEN policy
                     ELSE [Suspended(policy) EXCEPT !.fault = TRUE]
                ELSE IF TmpcReady(t) /\ ~Disagrees(p, t) THEN Dwelt(policy)
                ELSE Suspended(policy)
  BY <1>1, <1>2 DEF NextPolicy
<1>5. TmpcReady(t) \/ FreshnessBlip(t)
  BY <1>2, <1>3, <1>4
<1>. QED BY <1>5 DEF TmpcReady, FreshnessBlip, TmpcWithin, TypeOK

\* An evaluation keeps the pair and does not send a refused command twice.
LEMMA LeakEvaluation ==
  ASSUME ChainTypeOK, PairInv, LeakedInv,
         NEW p \in LocalCandidate, NEW t \in TmpcCandidate, Evaluated(p, t)
  PROVE  PairInv' /\ LeakedInv'
<1>0. /\ TypeOK /\ leaked \in 0..LeakCap /\ heard \in BOOLEAN /\ built \in BOOLEAN
      /\ EvaluateAndPublish(p, t) /\ valid' = valid /\ built' = built
  BY DEF ChainTypeOK, Evaluated
<1>1. FromTmpc(p, t) \/ FromPp(p, t) \/ FromTimer(p, t)
  BY DEF Evaluated
<1>2. PairInv'
  BY <1>0, <1>1 DEF PairInv, FromTmpc, FromPp, FromTimer
<1>3. /\ out'.source = "TMPC" => /\ ~tmpc'.new /\ valid.value = TRUE
                                 /\ out'.beat # out.beat <=> out.source # "TMPC" \/ t.new
  BY <1>0, EvaluationSends, DrivesOnValid
<1>4. leaked' = IF Forwarded("TMPC") /\ ~heard' THEN Older(leaked, LeakCap)
                ELSE IF out'.source = "TMPC" /\ ~Forwarded("TMPC") THEN leaked ELSE 0
  BY DEF Evaluated, Observe
<1>5. CASE Forwarded("TMPC") /\ ~heard'
  <2>1. out'.source = "TMPC" /\ (out.source # "TMPC" \/ t.new)
    BY <1>3, <1>5 DEF Forwarded
  <2>2. ASSUME leaked >= 1 PROVE FALSE
    <3>1. ~heard /\ ~tmpc.new /\ out.source = "TMPC"
      BY <2>2 DEF LeakedInv
    <3>2. FromTmpc(p, t)
      BY <1>1, <2>1, <3>1 DEF FromPp, FromTimer
    <3>3. ~built /\ "tmpcCmd" \in due
      BY <1>5, <3>2 DEF FromTmpc
    <3>. QED BY <1>3, <2>1, <3>1, <3>3 DEF PairInv
  <2>3. leaked = 0
    BY <1>0, <2>2, ChainCaps
  <2>4. leaked' = 1
    BY <1>4, <1>5, <2>3 DEF Older, LeakCap
  <2>. QED BY <1>2, <1>3, <1>5, <2>1, <2>4 DEF LeakedInv
<1>6. CASE out'.source = "TMPC" /\ ~Forwarded("TMPC")
  <2>1. leaked' = leaked
    BY <1>4, <1>6
  <2>2. ~t.new
    BY <1>3, <1>6 DEF Forwarded
  <2>3. heard' = heard
    BY <1>1, <2>2 DEF FromTmpc, FromPp, FromTimer
  <2>. QED BY <1>2, <1>3, <1>6, <2>1, <2>3 DEF LeakedInv
<1>7. CASE /\ ~(Forwarded("TMPC") /\ ~heard')
           /\ ~(out'.source = "TMPC" /\ ~Forwarded("TMPC"))
  <2>1. leaked' = 0
    BY <1>4, <1>7
  <2>. QED BY <1>2, <2>1 DEF LeakedInv
<1>. QED BY <1>5, <1>6, <1>7

\* Every step keeps the invariant.
LEMMA LeakStep ==
  ASSUME ChainTypeOK, LeakInv, [ChainNext /\ UNCHANGED late]_<<chainVars, late>>
  PROVE  LeakInv'
<1>. SUFFICES ASSUME late \subseteq {"mpc"} PROVE PairInv' /\ LeakedInv'
  <2>1. late' = late
    OBVIOUS
  <2>. QED BY <2>1 DEF LeakInv
<1>0. PairInv /\ LeakedInv /\ TypeOK
  BY DEF LeakInv, ChainTypeOK
<1>1. ASSUME NEW p \in LocalCandidate, NEW t \in TmpcCandidate, Evaluated(p, t)
      PROVE  PairInv' /\ LeakedInv'
  BY <1>0, <1>1, LeakEvaluation
<1>2. CASE Hears
  <2>1. LeakedInv'
    BY <1>0, <1>2, HearsNothingElse DEF LeakedInv
  <2>2. ASSUME BridgeTimer PROVE PairInv'
    BY <1>0, <2>2 DEF BridgeTimer, PairInv, vars
  <2>3. ASSUME TmpcValid PROVE PairInv'
    <3>1. /\ built' = built /\ heard' = heard /\ due' = due \ {"tmpcValid"}
          /\ valid'.value = built /\ "tmpcValid" \in due
      BY <2>3 DEF TmpcValid, Deliver, OnTmpcValid
    <3>. QED BY <1>0, <3>1 DEF PairInv
  <2>4. ASSUME (\E good \in BOOLEAN : OnMpcOutput(good)) \/ PlanningState \/ StopRequest
        PROVE  PairInv'
    <3>1. /\ built' = built /\ heard' = heard /\ valid' = valid
          /\ \/ due' = due \ {"mpc"} \/ due' = due \ {"state"} \/ due' = due \ {"stop"}
      BY <2>4 DEF OnMpcOutput, PlanningState, StopRequest, Deliver, OnPlanningState,
                  OnStopRequest, vars
    <3>. QED BY <1>0, <3>1 DEF PairInv
  <2>. QED BY <1>2, <2>1, <2>2, <2>3, <2>4 DEF Hears
<1>3. CASE Elapse
  <2>1. /\ "tmpcCmd" \notin due /\ "tmpcValid" \notin due
        /\ "tmpcCmd" \notin due' /\ "tmpcValid" \notin due'
        /\ UNCHANGED <<built, heard, leaked, out>>
    BY <1>3 DEF Elapse, Tick
  <2>2. valid'.value = valid.value /\ tmpc'.new = tmpc.new
    BY <1>0, <1>3 DEF Elapse, Tick, TypeOK
  <2>. QED BY <1>0, <2>1, <2>2 DEF PairInv, LeakedInv
<1>4. CASE UNCHANGED <<chainVars, late>>
  BY <1>0, <1>4 DEF PairInv, LeakedInv, chainVars, chain, vars
<1>. QED BY <1>1, <1>2, <1>3, <1>4, ChainSteps

\* A fault of the MPC puts at most one command the bridge refused on /vehicle/cmd before
\* the flag that follows it is seen, whatever the timeouts and the hold.
THEOREM LeaksOneCommand == ChainSpec => []LeaksAtMostOne
<1>1. ASSUME ChainInit PROVE ChainTypeOK /\ LeakInv
  <2>1. due = {} /\ built = FALSE /\ heard = FALSE /\ leaked = 0
    BY <1>1 DEF ChainInit
  <2>2. valid.value = FALSE
    BY <1>1 DEF ChainInit, Init
  <2>3. PairInv
    BY <2>1, <2>2 DEF PairInv
  <2>. QED BY <1>1, <2>1, <2>3, ChainInitTyped DEF LeakInv, LeakedInv
<1>2. ChainTypeOK /\ LeakInv /\ [ChainNext /\ UNCHANGED late]_<<chainVars, late>>
        => ChainTypeOK' /\ LeakInv'
  BY ChainTyped, LeakStep
<1>3. ChainTypeOK /\ LeakInv => LeaksAtMostOne
  BY ChainCaps DEF ChainTypeOK, LeakInv, LeakedInv, LeaksAtMostOne
<1>. QED BY <1>1, <1>2, <1>3, PTL DEF ChainSpec

-----------------------------------------------------------------------------
(* The vehicle is never left in silence.                                      *)

\* An evaluation that sends nothing leaves what was sent last young enough, and the
\* timer's evaluation leaves it within its timeout.
LEMMA SilenceEvaluation ==
  ASSUME ChainTypeOK, SilenceInv,
         NEW p \in LocalCandidate, NEW t \in TmpcCandidate, Evaluated(p, t)
  PROVE  SilenceInv'
<1>0. /\ TypeOK /\ EvaluateAndPublish(p, t)
      /\ silence \in Nat
      /\ p.age \in 0..LocalCap /\ t.age \in 0..TmpcCap
  BY ChainCaps DEF ChainTypeOK, Evaluated, LocalCandidate, TmpcCandidate
<1>1. /\ p.new \/ p = pp
      /\ t.new \/ t = tmpc
  BY DEF Evaluated, FromTmpc, FromPp, FromTimer
<1>2. silence' = IF out'.source = "BRAKE" \/ out'.beat # out.beat THEN 0 ELSE silence
  BY DEF Evaluated, Observe
<1>3. /\ out'.source = SourceOf(StatusOf(policy', p))
      /\ pp'.age = p.age /\ tmpc'.age = t.age
      /\ out'.source \in {"PP", "TMPC", "BRAKE"}
  BY <1>0, EvaluationSends DEF EvaluateAndPublish
<1>4. CASE out'.source = "PP"
  <2>1. ~pp'.new /\ (out'.beat # out.beat <=> out.source # "PP" \/ p.new)
    BY <1>0, <1>4, EvaluationSends
  <2>2. p.age <= LocalTimeout \/ p.age <= LocalHold
    BY <1>3, <1>4, StatusSource DEF LocalWithin
  <2>3. pp'.age < LocalCap
    BY <1>0, <1>3, <2>2, ChainCaps, Caps, SelectorAssumption
  <2>4. silence' <= pp'.age
    <3>1. CASE out'.beat # out.beat
      BY <1>0, <1>2, <1>3, <3>1
    <3>2. CASE out'.beat = out.beat
      <4>1. out.source = "PP" /\ p = pp
        BY <1>1, <2>1, <3>2
      <4>. QED BY <1>2, <1>3, <1>4, <3>2, <4>1 DEF SilenceInv
    <3>. QED BY <3>1, <3>2
  <2>. QED BY <1>4, <2>1, <2>3, <2>4 DEF SilenceInv
<1>5. CASE out'.source = "TMPC"
  <2>1. ~tmpc'.new /\ (out'.beat # out.beat <=> out.source # "TMPC" \/ t.new)
    BY <1>0, <1>5, EvaluationSends
  <2>2. t.age <= TmpcTimeout \/ t.age <= TmpcHold
    BY <1>0, <1>5, DrivesOnValid
  <2>3. tmpc'.age < TmpcCap
    BY <1>0, <1>3, <2>2, ChainCaps, Caps, SelectorAssumption
  <2>4. silence' <= tmpc'.age
    <3>1. CASE out'.beat # out.beat
      BY <1>0, <1>2, <1>3, <3>1
    <3>2. CASE out'.beat = out.beat
      <4>1. out.source = "TMPC" /\ t = tmpc
        BY <1>1, <2>1, <3>2
      <4>. QED BY <1>2, <1>3, <1>5, <3>2, <4>1 DEF SilenceInv
    <3>. QED BY <3>1, <3>2
  <2>. QED BY <1>5, <2>1, <2>3, <2>4 DEF SilenceInv
<1>6. CASE out'.source = "BRAKE"
  <2>1. silence' = 0
    BY <1>2, <1>6
  <2>. QED BY <1>6, <2>1 DEF SilenceInv
<1>. QED BY <1>3, <1>4, <1>5, <1>6

\* Time lets the silence grow no faster than the age of what was sent last.
LEMMA SilenceTick ==
  ASSUME ChainTypeOK, SilenceInv, Elapse, "timer" \notin late
  PROVE  SilenceInv'
<1>0. /\ TypeOK /\ silence \in 0..(VehicleTimeout + 1) /\ VehicleTimeout + 1 \in Nat
      /\ pp.age \in 0..LocalCap /\ tmpc.age \in 0..TmpcCap
      /\ LocalCap \in Nat /\ TmpcCap \in Nat
  BY ChainCaps, Caps DEF ChainTypeOK, TypeOK
<1>1. "timer" \notin due /\ "timer" \in due'
  BY DEF Elapse, Topics, TmpcSide
<1>2. /\ out' = out
      /\ pp'.new = pp.new /\ pp'.age = Older(pp.age, LocalCap)
      /\ tmpc'.new = tmpc.new /\ tmpc'.age = Older(tmpc.age, TmpcCap)
      /\ silence' = Older(silence, VehicleTimeout + 1)
  BY <1>0 DEF Elapse, Tick, TypeOK
<1>3. silence' <= silence + 1
  BY <1>0, <1>2 DEF Older
<1>4. /\ pp.age < LocalCap => pp'.age = pp.age + 1
      /\ tmpc.age < TmpcCap => tmpc'.age = tmpc.age + 1
  BY <1>2 DEF Older
<1>5. silence' \in Int
  BY <1>0, <1>2 DEF Older
<1>6. CASE out.source = "PP"
  BY <1>0, <1>1, <1>2, <1>3, <1>4, <1>5, <1>6 DEF SilenceInv
<1>7. CASE out.source = "TMPC"
  BY <1>0, <1>1, <1>2, <1>3, <1>4, <1>5, <1>7 DEF SilenceInv
<1>8. CASE out.source \in {"none", "BRAKE"}
  BY <1>0, <1>1, <1>2, <1>3, <1>5, <1>8 DEF SilenceInv
<1>. QED BY <1>0, <1>6, <1>7, <1>8 DEF TypeOK

\* The selector's timer runs in every period: it shares the executor with nothing that
\* blocks it.
TimerPunctual == \A L \in LateSets : "timer" \notin L

\* Every step keeps the invariant.
LEMMA SilenceStep ==
  ASSUME TimerPunctual, ChainTypeOK, SilenceInv,
         [ChainNext /\ UNCHANGED late]_<<chainVars, late>>
  PROVE  SilenceInv'
<1>1. ASSUME NEW p \in LocalCandidate, NEW t \in TmpcCandidate, Evaluated(p, t)
      PROVE  SilenceInv'
  BY <1>1, SilenceEvaluation
<1>2. CASE Hears
  BY <1>2, HearsNothingElse DEF SilenceInv
<1>3. CASE Elapse
  BY <1>3, SilenceTick DEF TimerPunctual, ChainTypeOK
<1>4. CASE UNCHANGED <<chainVars, late>>
  BY <1>4 DEF SilenceInv, chainVars, chain, vars
<1>. QED BY <1>1, <1>2, <1>3, <1>4, ChainSteps

\* While its timer runs the selector leaves the vehicle without a message for no longer
\* than the longest timeout or hold, whichever source falls silent and when.
THEOREM NeverSilent ==
  ASSUME TimerPunctual
  PROVE  ChainSpec => []VehicleNeverSilent
<1>1. ASSUME ChainInit PROVE ChainTypeOK /\ SilenceInv
  <2>1. out.source = "none" /\ silence = 0
    BY <1>1 DEF ChainInit, Init
  <2>. QED BY <1>1, <2>1, ChainInitTyped DEF SilenceInv
<1>2. ChainTypeOK /\ SilenceInv /\ [ChainNext /\ UNCHANGED late]_<<chainVars, late>>
        => ChainTypeOK' /\ SilenceInv'
  BY ChainTyped, SilenceStep
<1>3. ASSUME ChainTypeOK, SilenceInv PROVE VehicleNeverSilent
  <2>1. /\ silence \in 0..(VehicleTimeout + 1)
        /\ pp.age \in 0..LocalCap /\ tmpc.age \in 0..TmpcCap
        /\ LocalCap \in Nat /\ TmpcCap \in Nat /\ LocalCap >= 1
        /\ out.source \in {"none", "PP", "TMPC", "BRAKE"}
    BY <1>3, ChainCaps, Caps DEF ChainTypeOK, TypeOK
  <2>2. silence <= LocalCap \/ silence <= TmpcCap
    BY <1>3, <2>1 DEF SilenceInv
  <2>. QED BY <2>1, <2>2 DEF VehicleNeverSilent, Longest
<1>. QED BY <1>1, <1>2, <1>3, PTL DEF ChainSpec

-----------------------------------------------------------------------------
(* A TMPC fault does not park the car.                                        *)

\* Every timeout the fallback needs, and the dwell, is at least a period of the messages
\* it waits for.
TimeoutsSpanPeriod ==
  /\ StateTimeout >= 1 /\ StopTimeout >= 1 /\ LocalTimeout >= 1 /\ LocalHold >= 1
  /\ ReadyDwell >= 1

\* With fresh planner inputs and a Pure Pursuit command the selector always has a source.
LEMMA AlwaysASource ==
  ASSUME TypeOK, SafetyInputsFresh, NEW c, NEW p,
         LocalWithin(p, LocalTimeout), LocalWithin(p, LocalHold)
  PROVE  StatusOf(c, p) \notin BrakeStatus
<1>1. planning.value \in {"LOCAL", "GLOBAL", "STOP"}
  BY PlanningStatesAssumption DEF TypeOK, SafetyInputsFresh, StateFresh
<1>2. GlobalStatus(c, TRUE) \notin BrakeStatus
  BY DEF GlobalStatus, BrakeStatus
<1>3. LocalWithin(p, LocalTimeout) = TRUE
  BY DEF LocalWithin
<1>4. CASE StopRequested
  BY <1>4 DEF StatusOf, BrakeStatus
<1>5. CASE ~StopRequested /\ planning.value = "LOCAL"
  BY <1>5 DEF StatusOf, BrakeStatus
<1>6. CASE ~StopRequested /\ planning.value = "GLOBAL"
  <2>1. StatusOf(c, p) = GlobalStatus(c, LocalWithin(p, LocalTimeout))
    BY <1>6 DEF StatusOf
  <2>. QED BY <1>2, <1>3, <2>1
<1>. QED BY <1>1, <1>4, <1>5, <1>6 DEF StopRequested

\* Before Pure Pursuit is heard an evaluation does not complete a dwell.
LEMMA NoDwellUnheard ==
  ASSUME TypeOK, ReadyDwell >= 1, NEW p, NEW t,
         ~policy.active, policy.readyAge = 0, policy' = NextPolicy(p, t)
  PROVE  ~policy'.active /\ policy'.readyAge = 0
<1>0. policy \in PolicyType /\ ReadyDwell \in Nat
  BY Caps DEF TypeOK
<1>1. ~PolicyInit.active /\ PolicyInit.readyAge = 0
  BY DEF PolicyInit
<1>2. LET d == Suspended(policy) IN
        /\ ~d.active /\ d.readyAge = 0
        /\ ~[d EXCEPT !.fault = TRUE].active /\ [d EXCEPT !.fault = TRUE].readyAge = 0
  BY <1>0 DEF PolicyType, Suspended
<1>3. ~Dwelt(policy).active /\ Dwelt(policy).readyAge = 0
  <2>1. /\ Dwelt(policy).active = (IF policy.tracking THEN policy.readyAge >= ReadyDwell
                                   ELSE ReadyDwell = 0)
        /\ Dwelt(policy).readyAge = IF policy.tracking THEN policy.readyAge ELSE 0
    BY <1>0 DEF Dwelt, PolicyType
  <2>2. ~(0 >= ReadyDwell) /\ ~(ReadyDwell = 0)
    BY <1>0
  <2>. QED BY <2>1, <2>2
<1>. QED BY <1>1, <1>2, <1>3, NextPolicyCases

\* The command an evaluation uses is as fresh as the one it leaves.
LEMMA FreshEvaluation ==
  ASSUME TimeoutsSpanPeriod, ChainTypeOK, late \subseteq TmpcSide, FreshInv,
         NEW p \in LocalCandidate, NEW t \in TmpcCandidate, Evaluated(p, t), late' = late
  PROVE  /\ FreshInv'
         /\ status \notin BrakeStatus => status' \notin BrakeStatus
<1>0. /\ TypeOK /\ EvaluateAndPublish(p, t) /\ InputsFresh
      /\ planning' = planning /\ stop' = stop
      /\ FromTmpc(p, t) \/ FromPp(p, t) \/ FromTimer(p, t)
  BY DEF ChainTypeOK, Evaluated, FreshInv
<1>1. /\ "state" \in due' <=> "state" \in due
      /\ "stop" \in due' <=> "stop" \in due
      /\ due # {}
  BY <1>0 DEF FromTmpc, FromPp, FromTimer
<1>2. pp'.has = p.has /\ pp'.cmd = p.cmd /\ pp'.age = p.age
  BY <1>0, EvaluationSends
<1>3. /\ p.has => p.cmd.finite /\ p.age <= IF "pp" \in due' THEN 1 ELSE 0
      /\ ~p.has => p = pp /\ ("pp" \in due' <=> "pp" \in due)
  BY <1>0 DEF FromTmpc, FromPp, FromTimer, InputsFresh
<1>4. InputsFresh'
  BY <1>0, <1>1, <1>2, <1>3 DEF InputsFresh
<1>5. ASSUME ~pp'.has PROVE Unheard'
  <2>1. ~pp.has /\ ("pp" \in due' <=> "pp" \in due)
    BY <1>2, <1>3, <1>5
  <2>2. ~policy.active /\ policy.readyAge = 0 /\ "pp" \in due
    BY <1>1, <2>1 DEF FreshInv, Unheard
  <2>3. policy' = NextPolicy(p, t)
    BY <1>0 DEF EvaluateAndPublish
  <2>4. ~policy'.active /\ policy'.readyAge = 0
    BY <1>0, <2>2, <2>3, NoDwellUnheard DEF TimeoutsSpanPeriod
  <2>. QED BY <2>1, <2>2, <2>4 DEF Unheard
<1>6. status' = StatusOf(policy', p)
  BY <1>0 DEF EvaluateAndPublish
<1>7. ASSUME status' \notin BrakeStatus PROVE planning.value # "none" /\ stop.has /\ pp'.has
  <2>1. SourceOf(status') \in {"PP", "TMPC"}
    BY <1>6, <1>7, StatusOps DEF SourceOf, Statuses
  <2>2. SafetyInputsFresh
    BY <1>6, <1>7 DEF StatusOf, BrakeStatus
  <2>3. p.has \/ policy'.active
    BY <1>6, <2>1, StatusSource DEF LocalWithin
  <2>4. pp'.has
    BY <1>2, <1>5, <2>3 DEF Unheard
  <2>. QED BY <2>2, <2>4 DEF SafetyInputsFresh, StateFresh, StopFresh
<1>8. FreshInv'
  BY <1>0, <1>4, <1>5, <1>7 DEF FreshInv
<1>9. ASSUME status \notin BrakeStatus PROVE status' \notin BrakeStatus
  <2>1. planning.value # "none" /\ stop.has /\ pp.has
    BY <1>9 DEF FreshInv
  <2>2. p.has /\ p.cmd.finite /\ p.age <= 1 /\ p.age \in Nat
    BY <1>3, <2>1, Caps DEF LocalCandidate
  <2>3. planning.age <= 1 /\ stop.age <= 1 /\ planning.age \in Nat /\ stop.age \in Nat
    BY <1>0, <2>1, Caps DEF InputsFresh, TypeOK
  <2>4. SafetyInputsFresh
    BY <2>1, <2>3, SelectorAssumption
    DEF SafetyInputsFresh, StateFresh, StopFresh, TimeoutsSpanPeriod
  <2>5. LocalWithin(p, LocalTimeout) /\ LocalWithin(p, LocalHold)
    BY <2>2, SelectorAssumption DEF LocalWithin, TimeoutsSpanPeriod
  <2>. QED BY <1>0, <1>6, <2>4, <2>5, AlwaysASource
<1>. QED BY <1>8, <1>9

\* An input that is delivered is fresh, one that is not is no older than before.
LEMMA FreshHears ==
  ASSUME ChainTypeOK, late \subseteq TmpcSide, FreshInv, Hears, late' = late
  PROVE  FreshInv'
<1>0. /\ InputsFresh /\ pp' = pp /\ policy' = policy /\ status' = status
      /\ "pp" \in due' <=> "pp" \in due
      /\ due # {}
  BY HearsNothingElse DEF FreshInv
<1>1. CASE PlanningState
  <2>1. /\ planning' = [value |-> st, age |-> 0] /\ stop' = stop
        /\ "stop" \in due' <=> "stop" \in due
        /\ st # "none"
    BY <1>1 DEF PlanningState, Deliver, OnPlanningState, ChainTypeOK
  <2>2. planning'.value = st /\ planning'.age = 0
    BY <2>1
  <2>. QED BY <1>0, <2>1, <2>2 DEF FreshInv, InputsFresh, Unheard
<1>2. CASE StopRequest
  <2>1. /\ planning' = planning /\ stop'.has /\ stop'.age = 0
        /\ "state" \in due' <=> "state" \in due
    BY <1>2 DEF StopRequest, Deliver, OnStopRequest
  <2>. QED BY <1>0, <2>1 DEF FreshInv, InputsFresh, Unheard
<1>3. CASE (\E good \in BOOLEAN : OnMpcOutput(good)) \/ BridgeTimer \/ TmpcValid
  <2>1. /\ planning' = planning /\ stop' = stop
        /\ "state" \in due' <=> "state" \in due
        /\ "stop" \in due' <=> "stop" \in due
    BY <1>3 DEF OnMpcOutput, BridgeTimer, TmpcValid, Deliver, OnTmpcValid, vars
  <2>. QED BY <1>0, <2>1 DEF FreshInv, InputsFresh, Unheard
<1>. QED BY <1>1, <1>2, <1>3 DEF Hears

\* A period later everything heard is one tick old and on its way again.
LEMMA FreshTick ==
  ASSUME ChainTypeOK, late \subseteq TmpcSide, FreshInv, Elapse, late' = late
  PROVE  FreshInv'
<1>0. /\ {"state", "stop", "pp"} \cap due = {} /\ {"state", "stop", "pp"} \subseteq due'
      /\ TypeOK /\ InputsFresh
  BY DEF Elapse, Topics, TmpcSide, ChainTypeOK, FreshInv
<1>1. /\ planning'.value = planning.value /\ planning'.age = Older(planning.age, StateTimeout + 1)
      /\ stop'.has = stop.has /\ stop'.age = Older(stop.age, StopTimeout + 1)
      /\ pp'.has = pp.has /\ pp'.cmd = pp.cmd /\ pp'.age = Older(pp.age, LocalCap)
      /\ status' = status /\ policy'.active = policy.active
      /\ ~policy.tracking => policy'.readyAge = policy.readyAge
  BY <1>0 DEF Elapse, Tick, TypeOK, PolicyType
<1>2. /\ planning.age \in Nat /\ stop.age \in Nat /\ pp.age \in Nat
      /\ StateTimeout + 1 >= 1 /\ StopTimeout + 1 >= 1 /\ LocalCap >= 1
      /\ StateTimeout + 1 \in Nat /\ StopTimeout + 1 \in Nat /\ LocalCap \in Nat
  BY <1>0, Caps, ChainCaps, SelectorAssumption DEF TypeOK
<1>3. \A cap \in Nat : cap >= 1 => Older(0, cap) = 1
  BY DEF Older
<1>4. InputsFresh'
  <2>1. planning.value # "none" => planning.age = 0
    BY <1>0, <1>2 DEF InputsFresh
  <2>2. stop.has => stop.age = 0
    BY <1>0, <1>2 DEF InputsFresh
  <2>3. pp.has => pp.age = 0 /\ pp.cmd.finite
    BY <1>0, <1>2 DEF InputsFresh
  <2>. QED BY <1>0, <1>1, <1>2, <1>3, <2>1, <2>2, <2>3 DEF InputsFresh
<1>5. ~pp.has => Unheard'
  BY <1>0, <1>1 DEF FreshInv, Unheard
<1>. QED BY <1>1, <1>4, <1>5 DEF FreshInv

\* Every step keeps the invariant, and no step brakes a car that drives.
LEMMA FreshStep ==
  ASSUME TimeoutsSpanPeriod, ChainTypeOK, FreshInv,
         [ChainNext /\ UNCHANGED late]_<<chainVars, late>>
  PROVE  /\ FreshInv'
         /\ late \subseteq TmpcSide /\ status \notin BrakeStatus => status' \notin BrakeStatus
<1>0. late' = late
  OBVIOUS
<1>. SUFFICES ASSUME late \subseteq TmpcSide
              PROVE  FreshInv' /\ (status \notin BrakeStatus => status' \notin BrakeStatus)
  BY <1>0 DEF FreshInv
<1>1. ASSUME NEW p \in LocalCandidate, NEW t \in TmpcCandidate, Evaluated(p, t)
      PROVE  FreshInv' /\ (status \notin BrakeStatus => status' \notin BrakeStatus)
  BY <1>0, <1>1, FreshEvaluation
<1>2. CASE Hears
  BY <1>0, <1>2, FreshHears, HearsNothingElse
<1>3. CASE Elapse
  BY <1>0, <1>3, FreshTick DEF Elapse, Tick
<1>4. CASE UNCHANGED <<chainVars, late>>
  BY <1>4 DEF FreshInv, InputsFresh, Unheard, chainVars, chain, vars
<1>. QED BY <1>1, <1>2, <1>3, <1>4, ChainSteps

\* A car that drives, whose planner, Pure Pursuit and selector keep their periods, is
\* never braked by the selector: TMPC may be late, silent, invalid or in disagreement.
THEOREM FaultsNeverPark ==
  ASSUME TimeoutsSpanPeriod
  PROVE  ChainSpec => NeverParked
<1>1. ASSUME ChainInit PROVE ChainTypeOK /\ FreshInv
  <2>1. /\ planning.value = "none" /\ ~stop.has /\ ~pp.has /\ status = "INPUT_BRAKE"
        /\ ~policy.active /\ policy.readyAge = 0 /\ ~policy.tracking /\ due = {}
    BY <1>1 DEF ChainInit, Init, PolicyInit
  <2>. QED BY <1>1, <2>1, ChainInitTyped DEF FreshInv, InputsFresh, Unheard, BrakeStatus
<1>2. ChainTypeOK /\ FreshInv /\ [ChainNext /\ UNCHANGED late]_<<chainVars, late>>
        => /\ ChainTypeOK' /\ FreshInv'
           /\ [late \subseteq TmpcSide /\ status \notin BrakeStatus
                 => status' \notin BrakeStatus]_chainVars
  BY ChainTyped, FreshStep
<1>. QED BY <1>1, <1>2, PTL DEF ChainSpec, NeverParked

=============================================================================
