---------------------------- MODULE DriveProofs ----------------------------
(***************************************************************************)
(* Proofs about the drive chain, for every timeout, hold, number of faults *)
(* and choice of what may be lost: its types, that the car moves only on a *)
(* path that was vouched for, that a stop is obeyed, that the hold rides a *)
(* flicker out, and that every entry into the global path is blended.      *)
(***************************************************************************)
EXTENDS DriveChain, SequenceTheorems, TLAPS

\* The age of a command or an input is within a tick per fault, and one more until this
\* tick's message is served.
Pending(d) == IF d \in due THEN 1 ELSE 0

\* The controller's measure of the last true heartbeat is never younger than the
\* selector's; a heartbeat that still counts as true was followed by losses only.
VouchInv ==
  /\ pursuit.trueAge <= ValidityHold => hist.gap <= pursuit.trueAge
  /\ pursuit.raw => hist.gap <= faults + Pending("valid")
  /\ "valid" \in due /\ "select" \notin due /\ sent # "none" => hist.gap = 0
  /\ command # "brake" => hist.gap <= ValidityHold + faults + Pending("control")

\* A stop that the controller has not heard was lost in each tick since, and so was its
\* timer in each tick since it has and still drives.
StopInv ==
  /\ plan # "STOP" => hist.stopped = 0
  /\ plan = "STOP" /\ ~pursuit.stop => hist.stopped + 1 <= faults + Pending("stop")
  /\ plan = "STOP" /\ command = "drive" => hist.stopped <= faults + Pending("control")

\* Without a loss each input of a car that drives is of this tick or the one before, and
\* the controller's measure of the last true heartbeat is the selector's.
Punctual(age, d) == age <= Pending(d) \/ (age = InputTimeout + 1 /\ command # "drive")

FlickerInv ==
  faults = 0 =>
    /\ Punctual(pursuit.validAge, "valid")
    /\ Punctual(pursuit.stopAge, "stop")
    /\ Punctual(pursuit.odomAge, "odom")
    /\ "select" \in due => "valid" \in due
    /\ pursuit.trueAge <= hist.gap \/ ("valid" \in due /\ "select" \notin due /\ sent # "none")

\* The entry is used up only with a global path of its own; a local path that was just
\* published was trimmed no longer ago than the heartbeats lost since; a blend that was
\* just published is still the selector's.
EntryInv ==
  /\ selector.consumed => hist.joined
  /\ sent = "local" => selector.localAge <= faults + Pending("select")
  /\ sent = "blend" => /\ selector.blend.active /\ selector.blend.placed
                       /\ Window(selector.blend, MaxArc) >= 2

-----------------------------------------------------------------------------
(* The operators on one node's record keep its type.                          *)

\* An age grows by a tick within its cap.
LEMMA OlderBounds ==
  ASSUME NEW cap \in Nat, NEW age \in 0..cap
  PROVE  /\ Older(age, cap) \in 0..cap
         /\ Older(age, cap) >= age /\ Older(age, cap) <= age + 1
         /\ age < cap => Older(age, cap) = age + 1
  BY DEF Older

LEMMA DriveCaps ==
  /\ InputTimeout \in Nat /\ InputTimeout + 1 \in Nat
  /\ ValidityHold \in Nat /\ ValidityHold + 1 \in Nat
  /\ CandidateTimeout \in Nat /\ CandidateTimeout + 1 \in Nat /\ 2 * CandidateTimeout + 1 \in Nat
  /\ SourceTimeout + 1 \in Nat /\ MaxInputAge \in Nat /\ MaxInputAge + 1 \in Nat
  /\ BlendLength \in Nat \ {0} /\ MaxArc \in Nat
  /\ MaxFaults \in Nat /\ MaxFaults + 2 \in Nat /\ MaxGap \in Nat
  /\ LocalArcs \subseteq 0..MaxArc /\ Moves \subseteq Nat
  BY PursuitAssumption, SelectorAssumption, DriveAssumption DEF MaxGap

\* The controller's operators stay in its type.
LEMMA PursuitOps ==
  ASSUME NEW p \in PursuitType
  PROVE  /\ AgePursuit(p) \in PursuitType
         /\ OnPursuitPath(p) \in PursuitType
         /\ OnPursuitOdom(p) \in PursuitType
         /\ \A v \in BOOLEAN : OnPursuitValidity(p, v) \in PursuitType
         /\ \A v \in BOOLEAN : OnPursuitStop(p, v) \in PursuitType
         /\ PursuitTimer(p, TRUE).pursuit \in PursuitType
         /\ PursuitTimer(p, TRUE).command \in Commands
<1>0. 0 \in 0..(InputTimeout + 1) /\ 0 \in 0..(ValidityHold + 1)
  BY DriveCaps
<1>1. AgePursuit(p) \in PursuitType
  <2>1. /\ Older(p.pathAge, InputTimeout + 1) \in 0..(InputTimeout + 1)
        /\ Older(p.validAge, InputTimeout + 1) \in 0..(InputTimeout + 1)
        /\ Older(p.trueAge, ValidityHold + 1) \in 0..(ValidityHold + 1)
        /\ Older(p.stopAge, InputTimeout + 1) \in 0..(InputTimeout + 1)
        /\ Older(p.odomAge, InputTimeout + 1) \in 0..(InputTimeout + 1)
    BY DriveCaps, OlderBounds DEF PursuitType
  <2>. QED BY <2>1 DEF PursuitType, AgePursuit
<1>2. OnPursuitPath(p) \in PursuitType /\ OnPursuitOdom(p) \in PursuitType
  BY <1>0 DEF PursuitType, OnPursuitPath, OnPursuitOdom
<1>3. ASSUME NEW v \in BOOLEAN
      PROVE  OnPursuitValidity(p, v) \in PursuitType /\ OnPursuitStop(p, v) \in PursuitType
  <2>1. (IF v THEN 0 ELSE p.trueAge) \in 0..(ValidityHold + 1)
    BY <1>0 DEF PursuitType
  <2>. QED BY <1>0, <2>1 DEF PursuitType, OnPursuitValidity, OnPursuitStop
<1>4. PursuitTimer(p, TRUE).pursuit \in PursuitType
  <2>1. \A a, b \in BOOLEAN : [p EXCEPT !.lastPath = a, !.path = b] \in PursuitType
    BY DEF PursuitType
  <2>2. (p.lastPath \/ (p.raw /\ p.path)) \in BOOLEAN /\ (p.path \/ Restores(p)) \in BOOLEAN
    OBVIOUS
  <2>. QED BY <2>1, <2>2 DEF PursuitTimer
<1>5. PursuitTimer(p, TRUE).command \in Commands
  BY DEF PursuitTimer, Command, Commands
<1>. QED BY <1>1, <1>2, <1>3, <1>4, <1>5

\* So do those of the local planner's output.
LEMMA LocalOps ==
  ASSUME NEW o \in LocalOutputType
  PROVE  /\ AgeLocalOutput(o) \in LocalOutputType
         /\ PublishPath(o) \in LocalOutputType
         /\ RetainUntilStale(o) \in LocalOutputType
         /\ InvalidateImmediately(o) \in LocalOutputType
         /\ LocalHeartbeat(o) \in LocalOutputType
<1>1. Older(o.age, MaxInputAge + 1) \in 0..(MaxInputAge + 1) /\ 0 \in 0..(MaxInputAge + 1)
  BY DriveCaps, OlderBounds DEF LocalOutputType
<1>2. \A b \in BOOLEAN : [o EXCEPT !.valid = b] \in LocalOutputType
  BY DEF LocalOutputType
<1>3. (o.valid /\ o.ever) \in BOOLEAN /\ (o.valid /\ o.age <= MaxInputAge) \in BOOLEAN
  OBVIOUS
<1>4. AgeLocalOutput(o) \in LocalOutputType /\ PublishPath(o) \in LocalOutputType
  BY <1>1 DEF LocalOutputType, AgeLocalOutput, PublishPath
<1>. QED BY <1>2, <1>3, <1>4 DEF RetainUntilStale, InvalidateImmediately, LocalHeartbeat

\* And what the path selector hears and how it ages.
LEMMA SelectorOps ==
  ASSUME NEW s \in SelectorType
  PROVE  /\ AgeSelector(s) \in SelectorType
         /\ \A source \in Requests : OnPathSource(s, source) \in SelectorType
         /\ \A c \in Candidates : OnCandidatePath(s, c) \in SelectorType
         /\ \A c \in Candidates, v \in BOOLEAN : OnCandidateValidity(s, c, v) \in SelectorType
         /\ OnSelectorOdom(s) \in SelectorType
<1>0. 0 \in 0..(CandidateTimeout + 1) /\ 0 \in 0..(SourceTimeout + 1)
  BY DriveCaps
<1>1. AgeSelector(s) \in SelectorType
  <2>1. ASSUME NEW c \in CandidateType PROVE AgeCandidate(c) \in CandidateType
    <3>1. /\ Older(c.age, CandidateTimeout + 1) \in 0..(CandidateTimeout + 1)
          /\ Older(c.validAge, CandidateTimeout + 1) \in 0..(CandidateTimeout + 1)
      BY DriveCaps, OlderBounds DEF CandidateType
    <3>. QED BY <3>1 DEF CandidateType, AgeCandidate
  <2>2. [c \in Candidates |-> AgeCandidate(s.candidate[c])] \in [Candidates -> CandidateType]
    BY <2>1 DEF SelectorType
  <2>3. /\ Older(s.sourceAge, SourceTimeout + 1) \in 0..(SourceTimeout + 1)
        /\ Older(s.odomAge, CandidateTimeout + 1) \in 0..(CandidateTimeout + 1)
        /\ Older(s.localAge, 2 * CandidateTimeout + 1) \in 0..(2 * CandidateTimeout + 1)
    BY DriveCaps, OlderBounds DEF SelectorType
  <2>. QED BY <2>2, <2>3 DEF SelectorType, AgeSelector
<1>2. ASSUME NEW source \in Requests PROVE OnPathSource(s, source) \in SelectorType
  <2>1. \A b \in BOOLEAN :
          [s EXCEPT !.source = source, !.sourceAge = 0, !.consumed = b] \in SelectorType
    BY <1>0 DEF SelectorType
  <2>2. (s.consumed /\ source # "LOCAL") \in BOOLEAN
    OBVIOUS
  <2>. QED BY <2>1, <2>2 DEF OnPathSource
<1>3. \A f \in [Candidates -> CandidateType] : [s EXCEPT !.candidate = f] \in SelectorType
  BY DEF SelectorType
<1>4. ASSUME NEW c \in Candidates PROVE OnCandidatePath(s, c) \in SelectorType
  <2>1. [s.candidate[c] EXCEPT !.age = 0] \in CandidateType
    BY <1>0 DEF SelectorType, CandidateType
  <2>2. [s.candidate EXCEPT ![c] = [s.candidate[c] EXCEPT !.age = 0]]
          \in [Candidates -> CandidateType]
    BY <2>1 DEF SelectorType
  <2>. QED BY <1>3, <2>2 DEF OnCandidatePath
<1>5. ASSUME NEW c \in Candidates, NEW v \in BOOLEAN
      PROVE  OnCandidateValidity(s, c, v) \in SelectorType
  <2>1. [s.candidate[c] EXCEPT !.valid = v, !.validAge = 0] \in CandidateType
    BY <1>0 DEF SelectorType, CandidateType
  <2>2. [s.candidate EXCEPT ![c] = [s.candidate[c] EXCEPT !.valid = v, !.validAge = 0]]
          \in [Candidates -> CandidateType]
    BY <2>1 DEF SelectorType
  <2>3. OnCandidateValidity(s, c, v)
          = [s EXCEPT !.candidate =
               [s.candidate EXCEPT ![c] = [s.candidate[c] EXCEPT !.valid = v, !.validAge = 0]]]
    BY DEF OnCandidateValidity, SelectorType, CandidateType
  <2>. QED BY <1>3, <2>2, <2>3
<1>6. OnSelectorOdom(s) \in SelectorType
  BY <1>0 DEF SelectorType, OnSelectorOdom
<1>. QED BY <1>1, <1>2, <1>4, <1>5, <1>6

\* The source decided on is one that is ready.
LEMMA DecideOps ==
  ASSUME NEW s \in SelectorType, NEW ready \in SUBSET Candidates
  PROVE  /\ Decide(s, ready) \in {"none", "local", "global"}
         /\ Decide(s, ready) # "none" => Decide(s, ready) \in ready
         /\ Decide(s, ready) = "global" => s.source # "LOCAL"
<1>1. CASE s.sourceAge > SourceTimeout
  BY <1>1 DEF Decide
<1>2. CASE s.sourceAge <= SourceTimeout
  BY <1>2 DEF Decide
<1>. QED BY <1>1, <1>2, DriveCaps, SelectorAssumption DEF SelectorType

\* A heartbeat of the selector keeps its type and publishes one of its kinds of path.
LEMMA HeartbeatOps ==
  ASSUME NEW s \in SelectorType, NEW arc \in 0..MaxArc, NEW moved \in Nat,
         NEW b, b = SelectorHeartbeat(s, Candidates, arc, MaxArc, moved)
  PROVE  /\ b.selector \in SelectorType
         /\ b.kind \in PathKinds \cup {"none"}
         /\ b.kind = "local" => b.selector.localAge = 0
         /\ b.kind \in {"none", "local"} => b.selector.consumed = s.consumed
<1>. DEFINE ready    == ReadyCandidates(s) \cap Candidates
            choice   == Decide(s, ready)
            localAge == IF "local" \in ready THEN 0 ELSE s.localAge
            before   == IF s.source = "LOCAL" THEN NoBlend ELSE s.blend
            during   == BlendMoved(BlendStarted(s, before, localAge, arc), moved)
            blended  == choice = "global" /\ during.active /\ Transition(during, MaxArc) # <<>>
<1>1. b = [selector |->
             [s EXCEPT !.localAge = localAge,
                       !.consumed = @ \/ choice = "global",
                       !.blend = IF choice # "global" THEN before
                                 ELSE IF blended THEN during ELSE NoBlend],
           kind |-> IF blended THEN "blend" ELSE choice,
           handoff |-> "global" \in ready]
  BY DEF SelectorHeartbeat
<1>2. /\ choice \in {"none", "local", "global"}
      /\ choice = "local" => localAge = 0
  BY DecideOps
<1>3. localAge \in 0..(2 * CandidateTimeout + 1)
  BY DriveCaps DEF SelectorType
<1>4. NoBlend \in BlendType
  BY DriveCaps DEF NoBlend, BlendType
<1>5. before \in BlendType
  BY <1>4 DEF SelectorType
<1>6. BlendStarted(s, before, localAge, arc) \in BlendType
  <2>1. [NoBlend EXCEPT !.active = TRUE, !.arc = arc] \in BlendType
    BY <1>4 DEF BlendType
  <2>. HIDE DEF before, localAge
  <2>. QED BY <1>5, <2>1 DEF BlendStarted
<1>7. ASSUME NEW q \in BlendType PROVE BlendMoved(q, moved) \in BlendType
  <2>. DEFINE there == q.travelled + (IF q.placed THEN moved ELSE 0)
  <2>1. (IF there < BlendLength THEN there ELSE BlendLength) \in 0..BlendLength
    BY DriveCaps DEF BlendType
  <2>2. \A n \in 0..BlendLength : [q EXCEPT !.placed = TRUE, !.travelled = n] \in BlendType
    BY DEF BlendType
  <2>. QED BY <2>1, <2>2 DEF BlendMoved
<1>8. during \in BlendType
  BY <1>6, <1>7
<1>. HIDE DEF ready, choice, localAge, before, during, blended
<1>9. (s.consumed \/ choice = "global") \in BOOLEAN
  OBVIOUS
<1>10. (IF choice # "global" THEN before ELSE IF blended THEN during ELSE NoBlend) \in BlendType
  BY <1>4, <1>5, <1>8
<1>11. /\ b.selector \in SelectorType
       /\ b.selector.localAge = localAge
       /\ b.selector.consumed = (s.consumed \/ choice = "global")
  <2>. DEFINE c == s.consumed \/ choice = "global"
              q == IF choice # "global" THEN before ELSE IF blended THEN during ELSE NoBlend
  <2>1. b.selector = [s EXCEPT !.localAge = localAge, !.consumed = c, !.blend = q]
    BY <1>1
  <2>2. c \in BOOLEAN /\ q \in BlendType
    BY <1>9, <1>10
  <2>. HIDE DEF c, q
  <2>3. /\ [s EXCEPT !.localAge = localAge, !.consumed = c, !.blend = q] \in SelectorType
        /\ [s EXCEPT !.localAge = localAge, !.consumed = c, !.blend = q].localAge = localAge
        /\ [s EXCEPT !.localAge = localAge, !.consumed = c, !.blend = q].consumed = c
    BY <1>3, <2>2 DEF SelectorType
  <2>. QED BY <2>1, <2>3 DEF c
<1>12. b.kind = IF blended THEN "blend" ELSE choice
  BY <1>1
<1>13. blended => choice = "global"
  BY DEF blended
<1>14. s.consumed \in BOOLEAN
  BY DEF SelectorType
<1>. QED BY <1>2, <1>11, <1>12, <1>13, <1>14 DEF PathKinds

-----------------------------------------------------------------------------
(* The types of every reachable state.                                        *)

\* What the selector hears leaves everything behind it alone.
SelectorHears ==
  \/ PathSource \/ LocalBeat
  \/ \E outcome \in BuildOutcomes : LocalBuild(outcome)
  \/ \E valid \in BOOLEAN : GlobalWindow(valid)

LEMMA DriveSteps ==
  ASSUME [DriveNext]_driveVars
  PROVE  \/ SelectorHears
         \/ StopRequest
         \/ Odometry
         \/ \E arc \in LocalArcs, moved \in Moves : Select(arc, moved)
         \/ SelectedPath
         \/ SelectedValid
         \/ Control
         \/ Elapse
         \/ \E d \in Lossy : Lose(d)
         \/ UNCHANGED driveVars
  BY DEF DriveNext, Serve, SelectorHears

LEMMA SelectorHearsTyped ==
  ASSUME DriveTypeOK, SelectorHears
  PROVE  /\ UNCHANGED <<plan, sent, pursuit, command, faults>>
         /\ local' \in LocalOutputType /\ selector' \in SelectorType
         /\ hist' \in HistoryType
         /\ hist'.gap = hist.gap /\ hist'.stopped = hist.stopped
         /\ selector'.localAge = selector.localAge /\ selector'.blend = selector.blend
         /\ (selector.consumed => hist.joined) => (selector'.consumed => hist'.joined)
         /\ \E d \in SelectorOnly : d \in due /\ due' = due \ {d}
<1>0. /\ local \in LocalOutputType /\ selector \in SelectorType /\ hist \in HistoryType
      /\ plan \in Requests
  BY DEF DriveTypeOK
<1>1. CASE PathSource
  <2>1. /\ UNCHANGED <<plan, local, sent, pursuit, command, faults>>
        /\ selector' = OnPathSource(selector, plan)
        /\ hist' = [hist EXCEPT !.joined = @ /\ plan # "LOCAL"]
        /\ "source" \in due /\ due' = due \ {"source"}
    BY <1>1 DEF PathSource, Arrive, Do
  <2>2. selector' \in SelectorType
    BY <1>0, <2>1, SelectorOps
  <2>3. /\ selector'.localAge = selector.localAge /\ selector'.blend = selector.blend
        /\ selector'.consumed = (selector.consumed /\ plan # "LOCAL")
    BY <1>0, <2>1 DEF OnPathSource, SelectorType
  <2>4. /\ hist'.gap = hist.gap /\ hist'.stopped = hist.stopped
        /\ hist'.joined = (hist.joined /\ plan # "LOCAL")
    BY <1>0, <2>1 DEF HistoryType
  <2>5. hist' \in HistoryType
    <3>1. \A b \in BOOLEAN : [hist EXCEPT !.joined = b] \in HistoryType
      BY <1>0 DEF HistoryType
    <3>2. (hist.joined /\ plan # "LOCAL") \in BOOLEAN
      OBVIOUS
    <3>. QED BY <2>1, <3>1, <3>2
  <2>. QED BY <1>0, <2>1, <2>2, <2>3, <2>4, <2>5 DEF SelectorOnly
<1>2. CASE LocalBeat
  <2>1. /\ UNCHANGED <<plan, sent, pursuit, command, faults, hist>>
        /\ local' = LocalHeartbeat(local)
        /\ selector' = OnCandidateValidity(selector, "local", local'.valid)
        /\ "beat" \in due /\ due' = due \ {"beat"}
    BY <1>2 DEF LocalBeat, Arrive, Do
  <2>2. local' \in LocalOutputType /\ local'.valid \in BOOLEAN
    BY <1>0, <2>1, LocalOps DEF LocalOutputType
  <2>3. selector' \in SelectorType
    BY <1>0, <2>1, <2>2, SelectorOps DEF Candidates
  <2>4. /\ selector'.localAge = selector.localAge /\ selector'.consumed = selector.consumed
        /\ selector'.blend = selector.blend
    BY <1>0, <2>1 DEF OnCandidateValidity, SelectorType
  <2>. QED BY <1>0, <2>1, <2>2, <2>3, <2>4 DEF SelectorOnly
<1>3. ASSUME NEW outcome \in BuildOutcomes, LocalBuild(outcome)
      PROVE  /\ UNCHANGED <<plan, sent, pursuit, command, faults, hist>>
             /\ local' \in LocalOutputType /\ selector' \in SelectorType
             /\ selector'.localAge = selector.localAge /\ selector'.blend = selector.blend
             /\ selector'.consumed = selector.consumed
             /\ "build" \in due /\ due' = due \ {"build"}
  <2>1. /\ UNCHANGED <<plan, sent, pursuit, command, faults, hist>>
        /\ local' = CASE outcome = "path"    -> PublishPath(local)
                      [] outcome = "retain"  -> RetainUntilStale(local)
                      [] outcome = "invalid" -> InvalidateImmediately(local)
        /\ selector' = IF outcome = "path" THEN OnCandidatePath(selector, "local") ELSE selector
        /\ "build" \in due /\ due' = due \ {"build"}
    BY <1>3 DEF LocalBuild, Arrive, Do
  <2>2. local' \in LocalOutputType
    <3>1. CASE outcome = "path"
      BY <1>0, <2>1, <3>1, LocalOps
    <3>2. CASE outcome = "retain"
      BY <1>0, <2>1, <3>2, LocalOps
    <3>3. CASE outcome = "invalid"
      BY <1>0, <2>1, <3>3, LocalOps
    <3>. QED BY <3>1, <3>2, <3>3 DEF BuildOutcomes
  <2>3. OnCandidatePath(selector, "local") \in SelectorType
    BY <1>0, SelectorOps DEF Candidates
  <2>4. /\ OnCandidatePath(selector, "local").localAge = selector.localAge
        /\ OnCandidatePath(selector, "local").consumed = selector.consumed
        /\ OnCandidatePath(selector, "local").blend = selector.blend
    BY <1>0 DEF OnCandidatePath, SelectorType
  <2>. QED BY <1>0, <2>1, <2>2, <2>3, <2>4
<1>4. ASSUME NEW v \in BOOLEAN, GlobalWindow(v)
      PROVE  /\ UNCHANGED <<plan, local, sent, pursuit, command, faults, hist>>
             /\ selector' \in SelectorType
             /\ selector'.localAge = selector.localAge /\ selector'.blend = selector.blend
             /\ selector'.consumed = selector.consumed
             /\ "global" \in due /\ due' = due \ {"global"}
  <2>. DEFINE s == IF v THEN OnCandidatePath(selector, "global") ELSE selector
  <2>1. /\ UNCHANGED <<plan, local, sent, pursuit, command, faults, hist>>
        /\ selector' = OnCandidateValidity(s, "global", v)
        /\ "global" \in due /\ due' = due \ {"global"}
    BY <1>4 DEF GlobalWindow, Arrive, Do
  <2>2. s \in SelectorType
    BY <1>0, SelectorOps DEF Candidates
  <2>3. /\ s.localAge = selector.localAge /\ s.consumed = selector.consumed
        /\ s.blend = selector.blend
    BY <1>0 DEF OnCandidatePath, SelectorType
  <2>. HIDE DEF s
  <2>4. OnCandidateValidity(s, "global", v) \in SelectorType
    BY <2>2, SelectorOps DEF Candidates
  <2>5. /\ OnCandidateValidity(s, "global", v).localAge = s.localAge
        /\ OnCandidateValidity(s, "global", v).consumed = s.consumed
        /\ OnCandidateValidity(s, "global", v).blend = s.blend
    BY <2>2 DEF OnCandidateValidity, SelectorType
  <2>. QED BY <2>1, <2>3, <2>4, <2>5
<1>. QED BY <1>0, <1>1, <1>2, <1>3, <1>4 DEF SelectorHears, SelectorOnly

\* Every step keeps the types.
LEMMA DriveTyped ==
  ASSUME DriveTypeOK, [DriveNext]_driveVars
  PROVE  DriveTypeOK'
<1>0. /\ plan \in Requests /\ local \in LocalOutputType /\ selector \in SelectorType
      /\ sent \in PathKinds \cup {"none"} /\ pursuit \in PursuitType /\ command \in Commands
      /\ due \subseteq Inputs \cup Outputs \cup Timers
      /\ faults \in 0..MaxFaults /\ hist \in HistoryType
  BY DEF DriveTypeOK
<1>1. CASE SelectorHears
  BY <1>0, <1>1, SelectorHearsTyped DEF DriveTypeOK
<1>2. CASE StopRequest
  <2>1. /\ UNCHANGED <<plan, local, selector, sent, command, faults, hist>>
        /\ pursuit' = OnPursuitStop(pursuit, plan = "STOP") /\ due' \subseteq due
    BY <1>2 DEF StopRequest, Arrive, Do
  <2>2. (plan = "STOP") \in BOOLEAN
    OBVIOUS
  <2>. QED BY <1>0, <2>1, <2>2, PursuitOps DEF DriveTypeOK
<1>3. CASE Odometry
  <2>1. /\ UNCHANGED <<plan, local, sent, command, faults, hist>>
        /\ selector' = OnSelectorOdom(selector) /\ pursuit' = OnPursuitOdom(pursuit)
        /\ due' \subseteq due
    BY <1>3 DEF Odometry, Arrive, Do
  <2>. QED BY <1>0, <2>1, PursuitOps, SelectorOps DEF DriveTypeOK
<1>4. ASSUME NEW arc \in LocalArcs, NEW moved \in Moves, Select(arc, moved)
      PROVE  DriveTypeOK'
  <2>. DEFINE b == SelectorHeartbeat(selector, Candidates, arc, MaxArc, moved)
  <2>1. /\ selector' = b.selector /\ sent' = b.kind
        /\ hist' = [hist EXCEPT !.gap = IF b.kind # "none" THEN 0 ELSE @,
                                !.joined = @ \/ b.kind \in {"blend", "global"}]
        /\ UNCHANGED <<plan, local, pursuit, command, faults>> /\ due' \subseteq due
    BY <1>4 DEF Select, Do
  <2>2. b.selector \in SelectorType /\ b.kind \in PathKinds \cup {"none"}
    BY <1>0, DriveCaps, HeartbeatOps
  <2>. HIDE DEF b
  <2>3. hist' \in HistoryType
    <3>1. \A n \in 0..MaxGap, j \in BOOLEAN :
            [hist EXCEPT !.gap = n, !.joined = j] \in HistoryType
      BY <1>0 DEF HistoryType
    <3>2. /\ (IF b.kind # "none" THEN 0 ELSE hist.gap) \in 0..MaxGap
          /\ (hist.joined \/ b.kind \in {"blend", "global"}) \in BOOLEAN
      BY <1>0, DriveCaps DEF HistoryType
    <3>. QED BY <2>1, <3>1, <3>2
  <2>. QED BY <1>0, <2>1, <2>2, <2>3 DEF DriveTypeOK
<1>5. CASE SelectedPath
  <2>1. /\ UNCHANGED <<plan, local, selector, sent, command, faults, hist>> /\ due' \subseteq due
        /\ pursuit' = IF sent # "none" THEN OnPursuitPath(pursuit) ELSE pursuit
    BY <1>5 DEF SelectedPath, Do
  <2>. QED BY <1>0, <2>1, PursuitOps DEF DriveTypeOK
<1>6. CASE SelectedValid
  <2>1. /\ UNCHANGED <<plan, local, selector, sent, command, faults, hist>> /\ due' \subseteq due
        /\ pursuit' = OnPursuitValidity(pursuit, sent # "none")
    BY <1>6 DEF SelectedValid, Do
  <2>2. (sent # "none") \in BOOLEAN
    OBVIOUS
  <2>. QED BY <1>0, <2>1, <2>2, PursuitOps DEF DriveTypeOK
<1>7. CASE Control
  <2>1. /\ UNCHANGED <<plan, local, selector, sent, faults, hist>> /\ due' \subseteq due
        /\ pursuit' = PursuitTimer(pursuit, TRUE).pursuit
        /\ command' = PursuitTimer(pursuit, TRUE).command
    BY <1>7 DEF Control, Do
  <2>. QED BY <1>0, <2>1, PursuitOps DEF DriveTypeOK
<1>8. CASE Elapse
  <2>1. /\ UNCHANGED <<sent, command, faults>> /\ due' = Inputs \cup Outputs \cup Timers
        /\ plan' \in NextPlans
        /\ local' = AgeLocalOutput(local) /\ selector' = AgeSelector(selector)
        /\ pursuit' = AgePursuit(pursuit)
        /\ hist' = [hist EXCEPT !.gap = Older(@, MaxGap),
                                !.stopped = IF plan = "STOP" THEN Older(@, MaxFaults + 2) ELSE 0]
    BY <1>8 DEF Elapse
  <2>2. plan' \in Requests
    BY <1>0, <2>1 DEF NextPlans, Requests
  <2>3. hist' \in HistoryType
    <3>1. \A n \in 0..MaxGap, m \in 0..(MaxFaults + 2) :
            [hist EXCEPT !.gap = n, !.stopped = m] \in HistoryType
      BY <1>0 DEF HistoryType
    <3>2. /\ Older(hist.gap, MaxGap) \in 0..MaxGap
          /\ Older(hist.stopped, MaxFaults + 2) \in 0..(MaxFaults + 2)
          /\ 0 \in 0..(MaxFaults + 2)
      BY <1>0, DriveCaps, OlderBounds DEF HistoryType
    <3>. QED BY <2>1, <3>1, <3>2
  <2>. QED BY <1>0, <2>1, <2>2, <2>3, PursuitOps, LocalOps, SelectorOps DEF DriveTypeOK
<1>9. ASSUME NEW d \in Lossy, Lose(d) PROVE DriveTypeOK'
  <2>1. faults' \in 0..MaxFaults
    BY <1>0, <1>9, DriveCaps DEF Lose
  <2>. QED BY <1>0, <1>9, <2>1 DEF Lose, DriveTypeOK
<1>10. CASE UNCHANGED driveVars
  BY <1>0, <1>10 DEF driveVars, DriveTypeOK
<1>. QED BY <1>1, <1>2, <1>3, <1>4, <1>5, <1>6, <1>7, <1>8, <1>9, <1>10, DriveSteps

LEMMA DriveInitTyped ==
  ASSUME DriveInit
  PROVE  DriveTypeOK
<1>1. LocalOutputInit \in LocalOutputType
  BY DriveCaps DEF LocalOutputInit, LocalOutputType
<1>2. SelectorInit \in SelectorType
  <2>1. [c \in Candidates |->
          [age |-> CandidateTimeout + 1, valid |-> FALSE, validAge |-> CandidateTimeout + 1]]
          \in [Candidates -> CandidateType]
    BY DriveCaps DEF CandidateType
  <2>2. NoBlend \in BlendType
    BY DriveCaps DEF NoBlend, BlendType
  <2>3. /\ SourceTimeout + 1 \in 0..(SourceTimeout + 1)
        /\ CandidateTimeout + 1 \in 0..(CandidateTimeout + 1)
        /\ 2 * CandidateTimeout + 1 \in 0..(2 * CandidateTimeout + 1)
    BY DriveCaps
  <2>. QED BY <2>1, <2>2, <2>3 DEF SelectorInit, SelectorType
<1>3. PursuitInit \in PursuitType
  BY DriveCaps DEF PursuitInit, PursuitType
<1>4. [gap |-> MaxGap, stopped |-> 0, joined |-> FALSE] \in HistoryType
  BY DriveCaps DEF HistoryType
<1>. QED BY <1>1, <1>2, <1>3, <1>4, DriveCaps DEF DriveInit, DriveTypeOK, Requests, Commands

\* The path selector, the controller and their history stay well typed, for every timeout,
\* blend length, number of faults and what may be lost.
THEOREM DriveTypeCorrect == DriveSpec => []DriveTypeOK
<1>1. DriveInit => DriveTypeOK
  BY DriveInitTyped
<1>2. DriveTypeOK /\ [DriveNext]_driveVars => DriveTypeOK'
  BY DriveTyped
<1>. QED BY <1>1, <1>2, PTL DEF DriveSpec

-----------------------------------------------------------------------------
(* What each step does to the controller and to the history.                  *)

\* The controller's other inputs leave the hold alone.
LEMMA PursuitFields ==
  ASSUME NEW p \in PursuitType
  PROVE  /\ OnPursuitPath(p).raw = p.raw /\ OnPursuitPath(p).trueAge = p.trueAge
         /\ OnPursuitPath(p).stop = p.stop /\ OnPursuitPath(p).validAge = p.validAge
         /\ OnPursuitPath(p).stopAge = p.stopAge /\ OnPursuitPath(p).odomAge = p.odomAge
         /\ OnPursuitOdom(p).raw = p.raw /\ OnPursuitOdom(p).trueAge = p.trueAge
         /\ OnPursuitOdom(p).stop = p.stop /\ OnPursuitOdom(p).validAge = p.validAge
         /\ OnPursuitOdom(p).stopAge = p.stopAge /\ OnPursuitOdom(p).odomAge = 0
         /\ \A v \in BOOLEAN :
              /\ OnPursuitStop(p, v).raw = p.raw /\ OnPursuitStop(p, v).trueAge = p.trueAge
              /\ OnPursuitStop(p, v).stop = v /\ OnPursuitStop(p, v).validAge = p.validAge
              /\ OnPursuitStop(p, v).stopAge = 0 /\ OnPursuitStop(p, v).odomAge = p.odomAge
         /\ \A v \in BOOLEAN :
              /\ OnPursuitValidity(p, v).raw = v
              /\ OnPursuitValidity(p, v).trueAge = (IF v THEN 0 ELSE p.trueAge)
              /\ OnPursuitValidity(p, v).stop = p.stop /\ OnPursuitValidity(p, v).validAge = 0
              /\ OnPursuitValidity(p, v).stopAge = p.stopAge
              /\ OnPursuitValidity(p, v).odomAge = p.odomAge
  BY DEF PursuitType, OnPursuitPath, OnPursuitOdom, OnPursuitStop, OnPursuitValidity

\* Nor does its timer, which commands a movement only on inputs that are all safe.
LEMMA TimerFields ==
  ASSUME NEW p \in PursuitType, NEW t, t = PursuitTimer(p, TRUE)
  PROVE  /\ t.pursuit.raw = p.raw /\ t.pursuit.trueAge = p.trueAge
         /\ t.pursuit.stop = p.stop /\ t.pursuit.validAge = p.validAge
         /\ t.pursuit.stopAge = p.stopAge /\ t.pursuit.odomAge = p.odomAge
         /\ t.command # "brake" => /\ p.raw \/ p.trueAge <= ValidityHold
                                   /\ p.validAge <= InputTimeout /\ p.stopAge <= InputTimeout
                                   /\ p.odomAge <= InputTimeout
         /\ t.command = "drive" => ~p.stop
         /\ (/\ ~p.raw /\ p.lastPath /\ p.trueAge <= ValidityHold
             /\ p.validAge <= InputTimeout /\ p.stopAge <= InputTimeout
             /\ p.odomAge <= InputTimeout) => t.command # "brake"
<1>. DEFINE q == [p EXCEPT !.lastPath = @ \/ (p.raw /\ p.path), !.path = @ \/ Restores(p)]
<1>1. t.pursuit = q /\ t.command = Command(p, q, TRUE)
  BY DEF PursuitTimer
<1>2. /\ q.raw = p.raw /\ q.trueAge = p.trueAge /\ q.stop = p.stop
      /\ q.validAge = p.validAge /\ q.stopAge = p.stopAge /\ q.odomAge = p.odomAge
      /\ q.path = (p.path \/ Restores(p))
  BY DEF PursuitType
<1>. HIDE DEF q
<1>3. InputsSafe(p, q) => /\ p.raw \/ p.trueAge <= ValidityHold
                          /\ p.validAge <= InputTimeout /\ p.stopAge <= InputTimeout
                          /\ p.odomAge <= InputTimeout
  BY DEF InputsSafe, HeldValid
<1>4. (/\ ~p.raw /\ p.lastPath /\ p.trueAge <= ValidityHold
       /\ p.validAge <= InputTimeout /\ p.stopAge <= InputTimeout
       /\ p.odomAge <= InputTimeout) => InputsSafe(p, q)
  BY <1>2 DEF InputsSafe, HeldValid, Restores
<1>5. /\ ~InputsSafe(p, q) => t.command = "brake"
      /\ InputsSafe(p, q) => t.command = IF p.stop THEN "stop" ELSE "drive"
  BY <1>1 DEF Command
<1>. QED BY <1>1, <1>2, <1>3, <1>4, <1>5

\* A tick ages both, and makes every message due.
LEMMA ElapseFields ==
  ASSUME DriveTypeOK, Elapse
  PROVE  /\ UNCHANGED <<sent, command, faults>>
         /\ due = {} /\ due' = Inputs \cup Outputs \cup Timers
         /\ pursuit'.raw = pursuit.raw /\ pursuit'.stop = pursuit.stop
         /\ pursuit'.trueAge = Older(pursuit.trueAge, ValidityHold + 1)
         /\ pursuit'.validAge = Older(pursuit.validAge, InputTimeout + 1)
         /\ pursuit'.stopAge = Older(pursuit.stopAge, InputTimeout + 1)
         /\ pursuit'.odomAge = Older(pursuit.odomAge, InputTimeout + 1)
         /\ hist'.gap = Older(hist.gap, MaxGap) /\ hist'.joined = hist.joined
         /\ hist'.stopped = IF plan = "STOP" THEN Older(hist.stopped, MaxFaults + 2) ELSE 0
         /\ selector'.localAge = Older(selector.localAge, 2 * CandidateTimeout + 1)
         /\ selector'.consumed = selector.consumed /\ selector'.blend = selector.blend
         /\ plan = "STOP" => plan' = "STOP"
<1>0. pursuit \in PursuitType /\ hist \in HistoryType /\ selector \in SelectorType
  BY DEF DriveTypeOK
<1>1. /\ pursuit' = AgePursuit(pursuit) /\ selector' = AgeSelector(selector)
      /\ hist' = [hist EXCEPT !.gap = Older(@, MaxGap),
                              !.stopped = IF plan = "STOP" THEN Older(@, MaxFaults + 2) ELSE 0]
      /\ UNCHANGED <<sent, command, faults>>
      /\ due = {} /\ due' = Inputs \cup Outputs \cup Timers
      /\ plan = "STOP" => plan' = "STOP"
  BY DEF Elapse, NextPlans
<1>2. /\ pursuit'.raw = pursuit.raw /\ pursuit'.stop = pursuit.stop
      /\ pursuit'.trueAge = Older(pursuit.trueAge, ValidityHold + 1)
      /\ pursuit'.validAge = Older(pursuit.validAge, InputTimeout + 1)
      /\ pursuit'.stopAge = Older(pursuit.stopAge, InputTimeout + 1)
      /\ pursuit'.odomAge = Older(pursuit.odomAge, InputTimeout + 1)
  BY <1>0, <1>1 DEF AgePursuit, PursuitType
<1>3. /\ selector'.localAge = Older(selector.localAge, 2 * CandidateTimeout + 1)
      /\ selector'.consumed = selector.consumed /\ selector'.blend = selector.blend
  BY <1>0, <1>1 DEF AgeSelector, SelectorType
<1>4. /\ hist'.gap = Older(hist.gap, MaxGap) /\ hist'.joined = hist.joined
      /\ hist'.stopped = IF plan = "STOP" THEN Older(hist.stopped, MaxFaults + 2) ELSE 0
  BY <1>0, <1>1 DEF HistoryType
<1>. QED BY <1>1, <1>2, <1>3, <1>4

\* A heartbeat of the selector changes what was published and its gap.
LEMMA SelectFields ==
  ASSUME DriveTypeOK, NEW arc \in LocalArcs, NEW moved \in Moves, Select(arc, moved),
         NEW b, b = SelectorHeartbeat(selector, Candidates, arc, MaxArc, moved)
  PROVE  /\ UNCHANGED <<plan, pursuit, command, faults>>
         /\ "select" \in due /\ due' = due \ {"select"}
         /\ selector' = b.selector /\ sent' = b.kind
         /\ hist'.gap = IF sent' # "none" THEN 0 ELSE hist.gap
         /\ hist'.stopped = hist.stopped
         /\ hist'.joined = (hist.joined \/ sent' \in {"blend", "global"})
<1>0. hist \in HistoryType
  BY DEF DriveTypeOK
<1>1. /\ selector' = b.selector /\ sent' = b.kind
      /\ hist' = [hist EXCEPT !.gap = IF b.kind # "none" THEN 0 ELSE @,
                              !.joined = @ \/ b.kind \in {"blend", "global"}]
      /\ UNCHANGED <<plan, local, pursuit, command, faults>>
      /\ "select" \in due /\ due' = due \ {"select"}
  BY DEF Select, Do
<1>2. /\ hist'.gap = IF b.kind # "none" THEN 0 ELSE hist.gap
      /\ hist'.stopped = hist.stopped
      /\ hist'.joined = (hist.joined \/ b.kind \in {"blend", "global"})
  BY <1>0, <1>1 DEF HistoryType
<1>. QED BY <1>1, <1>2

-----------------------------------------------------------------------------
(* The car moves only on a path that was vouched for.                         *)

\* The hold is at least the period of the selector's heartbeat.
HoldSpansPeriod == ValidityHold >= 1

LEMMA VouchStep ==
  ASSUME HoldSpansPeriod, DriveTypeOK, VouchInv, [DriveNext]_driveVars
  PROVE  VouchInv'
<1>0. /\ pursuit \in PursuitType /\ pursuit.raw \in BOOLEAN
      /\ pursuit.trueAge \in 0..(ValidityHold + 1)
      /\ hist.gap \in 0..MaxGap /\ faults \in 0..MaxFaults /\ MaxFaults \in Nat
      /\ ValidityHold \in Nat /\ MaxGap \in Nat
  BY DriveCaps DEF DriveTypeOK, PursuitType, HistoryType
<1>1. CASE SelectorHears
  <2>1. /\ UNCHANGED <<sent, pursuit, command, faults>> /\ hist'.gap = hist.gap
        /\ "valid" \in due' <=> "valid" \in due
        /\ "select" \in due' <=> "select" \in due
        /\ "control" \in due' <=> "control" \in due
    BY <1>1, SelectorHearsTyped DEF SelectorOnly
  <2>. QED BY <2>1 DEF VouchInv, Pending
<1>2. CASE StopRequest \/ Odometry \/ SelectedPath
  <2>1. /\ pursuit'.raw = pursuit.raw /\ pursuit'.trueAge = pursuit.trueAge
        /\ UNCHANGED <<sent, command, faults, hist>>
        /\ "valid" \in due' <=> "valid" \in due
        /\ "select" \in due' <=> "select" \in due
        /\ "control" \in due' <=> "control" \in due
    <3>1. CASE StopRequest
      BY <1>0, <3>1, PursuitFields DEF StopRequest, Arrive, Do
    <3>2. CASE Odometry
      BY <1>0, <3>2, PursuitFields DEF Odometry, Arrive, Do
    <3>3. CASE SelectedPath
      BY <1>0, <3>3, PursuitFields DEF SelectedPath, Do
    <3>. QED BY <1>2, <3>1, <3>2, <3>3
  <2>. QED BY <2>1 DEF VouchInv, Pending
<1>3. ASSUME NEW arc \in LocalArcs, NEW moved \in Moves, Select(arc, moved) PROVE VouchInv'
  <2>1. /\ UNCHANGED <<pursuit, command, faults>> /\ due' = due \ {"select"}
        /\ hist'.gap = IF sent' # "none" THEN 0 ELSE hist.gap
    BY <1>3, SelectFields
  <2>2. /\ hist'.gap <= hist.gap /\ hist'.gap \in Nat
        /\ sent' # "none" => hist'.gap = 0
    BY <1>0, <2>1
  <2>. QED BY <1>0, <2>1, <2>2 DEF VouchInv, Pending
<1>4. CASE SelectedValid
  <2>. DEFINE v == sent # "none"
  <2>1. /\ pursuit' = OnPursuitValidity(pursuit, v) /\ v \in BOOLEAN
        /\ UNCHANGED <<sent, command, faults, hist>>
        /\ "valid" \in due /\ "select" \notin due /\ due' = due \ {"valid"}
    BY <1>4 DEF SelectedValid, Do
  <2>2. v => hist.gap = 0
    BY <2>1 DEF VouchInv
  <2>. HIDE DEF v
  <2>3. pursuit'.raw = v /\ pursuit'.trueAge = IF v THEN 0 ELSE pursuit.trueAge
    BY <1>0, <2>1, PursuitFields
  <2>. QED BY <1>0, <2>1, <2>2, <2>3 DEF VouchInv, Pending
<1>5. CASE Control
  <2>1. /\ pursuit'.raw = pursuit.raw /\ pursuit'.trueAge = pursuit.trueAge
        /\ command' # "brake" => pursuit.raw \/ pursuit.trueAge <= ValidityHold
        /\ UNCHANGED <<sent, faults, hist>> /\ due' = due \ {"control"}
    BY <1>0, <1>5, TimerFields DEF Control, Do
  <2>2. ASSUME command' # "brake" PROVE hist.gap <= ValidityHold + faults
    BY <1>0, <2>1, <2>2 DEF VouchInv, Pending, HoldSpansPeriod
  <2>. QED BY <1>0, <2>1, <2>2 DEF VouchInv, Pending
<1>6. CASE Elapse
  <2>1. /\ UNCHANGED <<sent, command, faults>> /\ due = {}
        /\ {"valid", "select", "control"} \subseteq due'
        /\ pursuit'.raw = pursuit.raw
        /\ pursuit'.trueAge = Older(pursuit.trueAge, ValidityHold + 1)
        /\ hist'.gap = Older(hist.gap, MaxGap)
    BY <1>6, ElapseFields DEF Outputs, Timers
  <2>2. /\ hist'.gap <= hist.gap + 1 /\ hist'.gap \in Nat
        /\ pursuit'.trueAge \in Nat
        /\ pursuit'.trueAge <= ValidityHold => pursuit'.trueAge = pursuit.trueAge + 1
    BY <1>0, <2>1 DEF Older
  <2>. QED BY <1>0, <2>1, <2>2 DEF VouchInv, Pending
<1>7. ASSUME NEW d \in Lossy, Lose(d) PROVE VouchInv'
  <2>1. /\ UNCHANGED <<sent, pursuit, command, hist>> /\ faults' = faults + 1
        /\ due' \subseteq due
        /\ "valid" \in due' /\ "select" \notin due' => "select" \notin due
    BY <1>7 DEF Lose, Outputs
  <2>. QED BY <1>0, <2>1 DEF VouchInv, Pending
<1>8. CASE UNCHANGED driveVars
  BY <1>8 DEF driveVars, VouchInv, Pending
<1>. QED BY <1>1, <1>2, <1>3, <1>4, <1>5, <1>6, <1>7, <1>8, DriveSteps

LEMMA VouchInit ==
  ASSUME DriveInit
  PROVE  VouchInv
  BY DriveCaps DEF DriveInit, PursuitInit, VouchInv, Outputs, Inputs, InputOrder, Timers

\* The car moves along a path only for the hold after the selector last vouched for one,
\* and a tick for each message or timer that was lost, for every hold of a period or more.
THEOREM MovesOnlyVouched ==
  ASSUME HoldSpansPeriod
  PROVE  DriveSpec => []VouchedRecently
<1>1. DriveInit => DriveTypeOK /\ VouchInv
  BY DriveInitTyped, VouchInit
<1>2. DriveTypeOK /\ VouchInv /\ [DriveNext]_driveVars => DriveTypeOK' /\ VouchInv'
  BY DriveTyped, VouchStep
<1>3. DriveTypeOK /\ VouchInv => VouchedRecently
  BY DriveCaps DEF DriveTypeOK, HistoryType, VouchInv, VouchedRecently, Pending
<1>. QED BY <1>1, <1>2, <1>3, PTL DEF DriveSpec

-----------------------------------------------------------------------------
(* A stop the planner requested is never driven through.                      *)

LEMMA StopStep ==
  ASSUME DriveTypeOK, StopInv, [DriveNext]_driveVars
  PROVE  StopInv'
<1>0. /\ pursuit \in PursuitType /\ hist.stopped \in Nat /\ faults \in Nat
      /\ plan \in Requests /\ MaxFaults \in Nat
  BY DriveCaps DEF DriveTypeOK, HistoryType
<1>1. CASE SelectorHears
  <2>1. /\ UNCHANGED <<plan, pursuit, command, faults>> /\ hist'.stopped = hist.stopped
        /\ "stop" \in due' <=> "stop" \in due
        /\ "control" \in due' <=> "control" \in due
    BY <1>1, SelectorHearsTyped DEF SelectorOnly
  <2>. QED BY <2>1 DEF StopInv, Pending
<1>2. CASE StopRequest
  <2>1. /\ UNCHANGED <<plan, command, faults, hist>> /\ due' = due \ {"stop"}
        /\ pursuit' = OnPursuitStop(pursuit, plan = "STOP") /\ (plan = "STOP") \in BOOLEAN
    BY <1>2 DEF StopRequest, Arrive, Do
  <2>2. pursuit'.stop = (plan = "STOP")
    BY <1>0, <2>1, PursuitFields
  <2>. QED BY <2>1, <2>2 DEF StopInv, Pending
<1>3. CASE Odometry \/ SelectedPath \/ SelectedValid
  <2>1. /\ pursuit'.stop = pursuit.stop
        /\ UNCHANGED <<plan, command, faults, hist>>
        /\ "stop" \in due' <=> "stop" \in due
        /\ "control" \in due' <=> "control" \in due
    <3>1. CASE Odometry
      BY <1>0, <3>1, PursuitFields DEF Odometry, Arrive, Do
    <3>2. CASE SelectedPath
      BY <1>0, <3>2, PursuitFields DEF SelectedPath, Do
    <3>3. CASE SelectedValid
      <4>1. /\ pursuit' = OnPursuitValidity(pursuit, sent # "none")
            /\ (sent # "none") \in BOOLEAN
        BY <3>3 DEF SelectedValid
      <4>2. pursuit'.stop = pursuit.stop
        BY <1>0, <4>1, PursuitFields
      <4>. QED BY <3>3, <4>2 DEF SelectedValid, Do
    <3>. QED BY <1>3, <3>1, <3>2, <3>3
  <2>. QED BY <2>1 DEF StopInv, Pending
<1>4. ASSUME NEW arc \in LocalArcs, NEW moved \in Moves, Select(arc, moved) PROVE StopInv'
  <2>1. /\ UNCHANGED <<plan, pursuit, command, faults>> /\ due' = due \ {"select"}
        /\ hist'.stopped = hist.stopped
    BY <1>4, SelectFields
  <2>. QED BY <2>1 DEF StopInv, Pending
<1>5. CASE Control
  <2>1. /\ pursuit'.stop = pursuit.stop
        /\ command' = "drive" => ~pursuit.stop
        /\ UNCHANGED <<plan, faults, hist>> /\ due' = due \ {"control"}
    BY <1>0, <1>5, TimerFields DEF Control, Do
  <2>2. ASSUME plan = "STOP", command' = "drive" PROVE hist.stopped <= faults
    BY <1>0, <2>1, <2>2 DEF StopInv, Pending
  <2>. QED BY <1>0, <2>1, <2>2 DEF StopInv, Pending
<1>6. CASE Elapse
  <2>1. /\ UNCHANGED <<command, faults>> /\ due = {}
        /\ {"stop", "control"} \subseteq due'
        /\ pursuit'.stop = pursuit.stop
        /\ hist'.stopped = IF plan = "STOP" THEN Older(hist.stopped, MaxFaults + 2) ELSE 0
        /\ plan = "STOP" => plan' = "STOP"
    BY <1>6, ElapseFields DEF Inputs, InputOrder, Timers
  <2>2. CASE plan = "STOP"
    <3>1. hist'.stopped <= hist.stopped + 1 /\ hist'.stopped \in Nat
      BY <1>0, <2>1, <2>2 DEF Older
    <3>. QED BY <1>0, <2>1, <2>2, <3>1 DEF StopInv, Pending
  <2>3. CASE plan # "STOP"
    BY <1>0, <2>1, <2>3 DEF StopInv, Pending
  <2>. QED BY <2>2, <2>3
<1>7. ASSUME NEW d \in Lossy, Lose(d) PROVE StopInv'
  <2>1. /\ UNCHANGED <<plan, pursuit, command, hist>> /\ faults' = faults + 1
        /\ due' \subseteq due
    BY <1>7 DEF Lose
  <2>. QED BY <1>0, <2>1 DEF StopInv, Pending
<1>8. CASE UNCHANGED driveVars
  BY <1>8 DEF driveVars, StopInv, Pending
<1>. QED BY <1>1, <1>2, <1>3, <1>4, <1>5, <1>6, <1>7, <1>8, DriveSteps

\* A stop is obeyed within a tick, and one more for each message or timer that was lost,
\* whatever the hold and the timeouts are.
THEOREM StopIsObeyed == DriveSpec => []StopObeyed
<1>1. DriveInit => DriveTypeOK /\ StopInv
  <2>. SUFFICES ASSUME DriveInit PROVE DriveTypeOK /\ StopInv
    OBVIOUS
  <2>1. plan = "LOCAL" /\ hist.stopped = 0
    BY DEF DriveInit
  <2>. QED BY <2>1, DriveInitTyped DEF StopInv
<1>2. DriveTypeOK /\ StopInv /\ [DriveNext]_driveVars => DriveTypeOK' /\ StopInv'
  BY DriveTyped, StopStep
<1>3. DriveTypeOK /\ StopInv => StopObeyed
  BY DriveCaps DEF DriveTypeOK, HistoryType, StopInv, StopObeyed, Pending
<1>. QED BY <1>1, <1>2, <1>3, PTL DEF DriveSpec

-----------------------------------------------------------------------------
(* The hold rides a flicker out.                                              *)

\* An input that arrives once a tick is not stale before the next one.
TimeoutSpansPeriod == InputTimeout >= 1

LEMMA FlickerStep ==
  ASSUME DriveTypeOK, FlickerInv, [DriveNext]_driveVars
  PROVE  FlickerInv'
<1>. SUFFICES ASSUME faults' = 0
              PROVE  /\ Punctual(pursuit.validAge, "valid")'
                     /\ Punctual(pursuit.stopAge, "stop")'
                     /\ Punctual(pursuit.odomAge, "odom")'
                     /\ "select" \in due' => "valid" \in due'
                     /\ \/ pursuit'.trueAge <= hist'.gap
                        \/ "valid" \in due' /\ "select" \notin due' /\ sent' # "none"
  BY DEF FlickerInv
<1>0. /\ pursuit \in PursuitType
      /\ pursuit.validAge \in 0..(InputTimeout + 1) /\ pursuit.stopAge \in 0..(InputTimeout + 1)
      /\ pursuit.odomAge \in 0..(InputTimeout + 1) /\ pursuit.trueAge \in 0..(ValidityHold + 1)
      /\ hist.gap \in 0..MaxGap /\ faults \in 0..MaxFaults /\ MaxFaults \in Nat
      /\ InputTimeout \in Nat /\ ValidityHold \in Nat /\ MaxGap \in Nat
  BY DriveCaps DEF DriveTypeOK, PursuitType, HistoryType
<1>1. CASE SelectorHears
  <2>1. /\ UNCHANGED <<sent, pursuit, command, faults>> /\ hist'.gap = hist.gap
        /\ \A d \in {"stop", "odom", "valid", "select"} : d \in due' <=> d \in due
    BY <1>1, SelectorHearsTyped DEF SelectorOnly
  <2>. QED BY <2>1 DEF FlickerInv, Punctual, Pending
<1>2. CASE StopRequest
  <2>1. /\ UNCHANGED <<sent, command, faults, hist>> /\ due' = due \ {"stop"}
        /\ pursuit' = OnPursuitStop(pursuit, plan = "STOP") /\ (plan = "STOP") \in BOOLEAN
    BY <1>2 DEF StopRequest, Arrive, Do
  <2>2. /\ pursuit'.stopAge = 0 /\ pursuit'.validAge = pursuit.validAge
        /\ pursuit'.odomAge = pursuit.odomAge /\ pursuit'.trueAge = pursuit.trueAge
    BY <1>0, <2>1, PursuitFields
  <2>. QED BY <2>1, <2>2 DEF FlickerInv, Punctual, Pending
<1>3. CASE Odometry
  <2>1. /\ UNCHANGED <<sent, command, faults, hist>> /\ due' = due \ {"odom"}
        /\ pursuit' = OnPursuitOdom(pursuit)
    BY <1>3 DEF Odometry, Arrive, Do
  <2>2. /\ pursuit'.odomAge = 0 /\ pursuit'.validAge = pursuit.validAge
        /\ pursuit'.stopAge = pursuit.stopAge /\ pursuit'.trueAge = pursuit.trueAge
    BY <1>0, <2>1, PursuitFields
  <2>. QED BY <2>1, <2>2 DEF FlickerInv, Punctual, Pending
<1>4. ASSUME NEW arc \in LocalArcs, NEW moved \in Moves, Select(arc, moved)
      PROVE  FlickerInv'
  <2>1. /\ UNCHANGED <<pursuit, command, faults>> /\ "select" \in due
        /\ due' = due \ {"select"}
        /\ hist'.gap = IF sent' # "none" THEN 0 ELSE hist.gap
    BY <1>4, SelectFields
  <2>. QED BY <1>0, <2>1 DEF FlickerInv, Punctual, Pending
<1>5. CASE SelectedPath
  <2>1. /\ UNCHANGED <<sent, command, faults, hist>> /\ due' = due \ {"path"}
        /\ pursuit' = IF sent # "none" THEN OnPursuitPath(pursuit) ELSE pursuit
    BY <1>5 DEF SelectedPath, Do
  <2>2. /\ pursuit'.odomAge = pursuit.odomAge /\ pursuit'.validAge = pursuit.validAge
        /\ pursuit'.stopAge = pursuit.stopAge /\ pursuit'.trueAge = pursuit.trueAge
    BY <1>0, <2>1, PursuitFields
  <2>. QED BY <2>1, <2>2 DEF FlickerInv, Punctual, Pending
<1>6. CASE SelectedValid
  <2>. DEFINE v == sent # "none"
  <2>1. /\ pursuit' = OnPursuitValidity(pursuit, v) /\ v \in BOOLEAN
        /\ UNCHANGED <<sent, command, faults, hist>>
        /\ "valid" \in due /\ "select" \notin due /\ due' = due \ {"valid"}
    BY <1>6 DEF SelectedValid, Do
  <2>2. ~v => pursuit.trueAge <= hist.gap
    BY <2>1 DEF FlickerInv
  <2>. HIDE DEF v
  <2>3. /\ pursuit'.trueAge = (IF v THEN 0 ELSE pursuit.trueAge) /\ pursuit'.validAge = 0
        /\ pursuit'.stopAge = pursuit.stopAge /\ pursuit'.odomAge = pursuit.odomAge
    BY <1>0, <2>1, PursuitFields
  <2>4. pursuit'.trueAge <= hist'.gap
    BY <1>0, <2>1, <2>2, <2>3
  <2>. QED BY <2>1, <2>3, <2>4 DEF FlickerInv, Punctual, Pending
<1>7. CASE Control
  <2>1. /\ pursuit'.trueAge = pursuit.trueAge /\ pursuit'.validAge = pursuit.validAge
        /\ pursuit'.stopAge = pursuit.stopAge /\ pursuit'.odomAge = pursuit.odomAge
        /\ command' # "brake" => /\ pursuit.validAge <= InputTimeout
                                 /\ pursuit.stopAge <= InputTimeout
                                 /\ pursuit.odomAge <= InputTimeout
        /\ UNCHANGED <<sent, faults, hist>> /\ due' = due \ {"control"}
    BY <1>0, <1>7, TimerFields DEF Control, Do
  <2>2. \A age \in 0..(InputTimeout + 1) :
          age = InputTimeout + 1 /\ command' = "drive" => ~(age <= InputTimeout)
    BY <1>0
  <2>. QED BY <1>0, <2>1, <2>2 DEF FlickerInv, Punctual, Pending
<1>8. CASE Elapse
  <2>1. /\ UNCHANGED <<sent, command, faults>> /\ due = {}
        /\ {"valid", "stop", "odom"} \subseteq due'
        /\ pursuit'.trueAge = Older(pursuit.trueAge, ValidityHold + 1)
        /\ pursuit'.validAge = Older(pursuit.validAge, InputTimeout + 1)
        /\ pursuit'.stopAge = Older(pursuit.stopAge, InputTimeout + 1)
        /\ pursuit'.odomAge = Older(pursuit.odomAge, InputTimeout + 1)
        /\ hist'.gap = Older(hist.gap, MaxGap)
    BY <1>8, ElapseFields DEF Inputs, InputOrder, Outputs, Timers
  <2>2. \A age \in 0..(InputTimeout + 1), d \in {"valid", "stop", "odom"} :
          Punctual(age, d) =>
            \/ Older(age, InputTimeout + 1) <= 1
            \/ Older(age, InputTimeout + 1) = InputTimeout + 1 /\ command # "drive"
    BY <1>0, <2>1 DEF Punctual, Pending, Older
  <2>3. pursuit'.trueAge <= hist'.gap
    <3>1. pursuit.trueAge <= hist.gap
      BY <2>1 DEF FlickerInv
    <3>. QED BY <1>0, <2>1, <3>1 DEF Older, MaxGap
  <2>. QED BY <1>0, <2>1, <2>2, <2>3 DEF FlickerInv, Punctual, Pending
<1>9. ASSUME NEW d \in Lossy, Lose(d) PROVE FALSE
  BY <1>0, <1>9 DEF Lose
<1>10. CASE UNCHANGED driveVars
  BY <1>10 DEF driveVars, FlickerInv, Punctual, Pending
<1>. QED BY <1>1, <1>2, <1>3, <1>4, <1>5, <1>6, <1>7, <1>8, <1>9, <1>10, DriveSteps DEF FlickerInv

LEMMA FlickerInit ==
  ASSUME DriveInit
  PROVE  FlickerInv
<1>1. /\ pursuit.validAge = InputTimeout + 1 /\ pursuit.stopAge = InputTimeout + 1
      /\ pursuit.odomAge = InputTimeout + 1 /\ pursuit.trueAge = ValidityHold + 1
      /\ command # "drive" /\ hist.gap = MaxGap /\ "valid" \in due
  BY DEF DriveInit, PursuitInit, Outputs
<1>2. ValidityHold + 1 <= MaxGap
  BY DriveCaps DEF MaxGap
<1>. QED BY <1>1, <1>2 DEF FlickerInv, Punctual

\* Without a loss, a car that drives on a path that was valid once is braked in an invalid
\* cycle only when the selector has not vouched for a path for longer than the hold; the
\* other inputs are never what brakes it.
THEOREM HoldRidesFlicker ==
  ASSUME TimeoutSpansPeriod
  PROVE  DriveSpec => RidesFlicker
<1>. DEFINE Rides == command = "drive" /\ command' = "brake" /\ faults = 0
                       /\ pursuit.lastPath /\ ~pursuit.raw /\ sent = "none" => hist.gap > ValidityHold
<1>1. DriveInit => DriveTypeOK /\ FlickerInv
  BY DriveInitTyped, FlickerInit
<1>2. DriveTypeOK /\ FlickerInv /\ [DriveNext]_driveVars => DriveTypeOK' /\ FlickerInv'
  BY DriveTyped, FlickerStep
<1>3. DriveTypeOK /\ FlickerInv /\ [DriveNext]_driveVars => [Rides]_driveVars
  <2>. SUFFICES ASSUME DriveTypeOK, FlickerInv, [DriveNext]_driveVars,
                       command = "drive", command' = "brake", faults = 0,
                       pursuit.lastPath, ~pursuit.raw, sent = "none", ~(hist.gap > ValidityHold)
                PROVE  FALSE
    OBVIOUS
  <2>0. /\ pursuit \in PursuitType
        /\ pursuit.validAge \in 0..(InputTimeout + 1) /\ pursuit.stopAge \in 0..(InputTimeout + 1)
        /\ pursuit.odomAge \in 0..(InputTimeout + 1) /\ pursuit.trueAge \in 0..(ValidityHold + 1)
        /\ hist.gap \in 0..MaxGap /\ InputTimeout \in Nat /\ ValidityHold \in Nat /\ MaxGap \in Nat
    BY DriveCaps DEF DriveTypeOK, PursuitType, HistoryType
  <2>1. Control
    <3>1. SelectorHears => UNCHANGED command
      BY SelectorHearsTyped
    <3>2. ~UNCHANGED command
      OBVIOUS
    <3>. QED BY <3>1, <3>2, DriveSteps
            DEF StopRequest, Odometry, Select, SelectedPath, SelectedValid, Elapse, Lose, driveVars
  <2>2. command' = PursuitTimer(pursuit, TRUE).command
    BY <2>1 DEF Control
  <2>3. /\ pursuit.validAge <= 1 /\ pursuit.stopAge <= 1 /\ pursuit.odomAge <= 1
        /\ pursuit.trueAge <= hist.gap
    BY <2>0 DEF FlickerInv, Punctual, Pending
  <2>4. /\ pursuit.validAge <= InputTimeout /\ pursuit.stopAge <= InputTimeout
        /\ pursuit.odomAge <= InputTimeout /\ pursuit.trueAge <= ValidityHold
    BY <2>0, <2>3 DEF TimeoutSpansPeriod
  <2>. QED BY <2>0, <2>2, <2>4, TimerFields
<1>. QED BY <1>1, <1>2, <1>3, PTL DEF DriveSpec, RidesFlicker

-----------------------------------------------------------------------------
(* Every entry into the global path is blended.                               *)

\* What a heartbeat makes of the blend: it publishes one that is under way and has two
\* waypoints ahead, and one that was under way is moved on by as far as the car has come.
LEMMA HeartbeatBlend ==
  ASSUME NEW s \in SelectorType, NEW arc \in 0..MaxArc, NEW moved \in Nat,
         NEW b, b = SelectorHeartbeat(s, Candidates, arc, MaxArc, moved), b.kind = "blend"
  PROVE  /\ b.selector.blend.active /\ b.selector.blend.placed
         /\ Window(b.selector.blend, MaxArc) >= 2
         /\ s.blend.active /\ s.blend.placed =>
              /\ b.selector.blend.arc = s.blend.arc
              /\ b.selector.blend.travelled = s.blend.travelled + moved
<1>. DEFINE ready    == ReadyCandidates(s) \cap Candidates
            choice   == Decide(s, ready)
            localAge == IF "local" \in ready THEN 0 ELSE s.localAge
            before   == IF s.source = "LOCAL" THEN NoBlend ELSE s.blend
            started  == BlendStarted(s, before, localAge, arc)
            during   == BlendMoved(started, moved)
            blended  == choice = "global" /\ during.active /\ Transition(during, MaxArc) # <<>>
<1>1. b.kind = IF blended THEN "blend" ELSE choice
  BY DEF SelectorHeartbeat
<1>2. choice \in {"none", "local", "global"} /\ (choice = "global" => s.source # "LOCAL")
  BY DecideOps
<1>3. blended
  BY <1>1, <1>2
<1>4. b.selector.blend = during
  <2>1. b.selector = [s EXCEPT !.localAge = localAge,
                               !.consumed = @ \/ choice = "global",
                               !.blend = IF choice # "global" THEN before
                                         ELSE IF blended THEN during ELSE NoBlend]
    BY DEF SelectorHeartbeat
  <2>2. choice = "global"
    BY <1>3
  <2>. HIDE DEF choice, localAge, before, during, blended
  <2>. QED BY <1>3, <2>1, <2>2 DEF SelectorType
<1>5. before = s.blend /\ before \in BlendType
  BY <1>2, <1>3 DEF SelectorType
<1>6. started \in BlendType /\ (before.active => started = before)
  <2>1. NoBlend \in BlendType
    BY DriveCaps DEF NoBlend, BlendType
  <2>2. [NoBlend EXCEPT !.active = TRUE, !.arc = arc] \in BlendType
    BY <2>1 DEF BlendType
  <2>. HIDE DEF before, localAge
  <2>. QED BY <1>5, <2>2 DEF BlendStarted
<1>. HIDE DEF started, before, localAge
<1>7. started.active
  <2>1. during.active
    BY <1>3
  <2>2. ~started.active => during = started
    BY DEF BlendMoved
  <2>. QED BY <2>1, <2>2
<1>. DEFINE there == started.travelled + (IF started.placed THEN moved ELSE 0)
            n     == IF there < BlendLength THEN there ELSE BlendLength
<1>8. during = [started EXCEPT !.placed = TRUE, !.travelled = n]
  BY <1>7 DEF BlendMoved
<1>9. n \in 0..BlendLength /\ there \in Nat
  BY <1>6, DriveCaps DEF BlendType
<1>10. /\ during.placed /\ during.active /\ during.travelled = n /\ during.arc = started.arc
       /\ during.arc \in 0..MaxArc
  <2>. HIDE DEF n, during
  <2>. QED BY <1>6, <1>7, <1>8 DEF BlendType
<1>11. Window(during, MaxArc) >= 2 /\ n <= BlendLength - 2
  <2>1. ~(Window(during, MaxArc) < 2)
    BY <1>3 DEF Transition
  <2>. HIDE DEF during, n
  <2>. QED BY <1>9, <1>10, <2>1, DriveCaps DEF Window, Trimmed
<1>12. n = there
  BY <1>9, <1>11, DriveCaps
<1>. HIDE DEF during, n
<1>13. s.blend.active /\ s.blend.placed => started = s.blend /\ there = s.blend.travelled + moved
  BY <1>5, <1>6
<1>. QED BY <1>4, <1>10, <1>11, <1>12, <1>13

LEMMA EntryStep ==
  ASSUME DriveTypeOK, EntryInv, [DriveNext]_driveVars
  PROVE  EntryInv'
<1>0. /\ selector \in SelectorType /\ selector.localAge \in 0..(2 * CandidateTimeout + 1)
      /\ hist \in HistoryType /\ faults \in Nat /\ MaxFaults \in Nat /\ CandidateTimeout \in Nat
  BY DriveCaps DEF DriveTypeOK, SelectorType
<1>1. CASE SelectorHears
  <2>1. /\ UNCHANGED <<sent, faults>>
        /\ selector'.localAge = selector.localAge /\ selector'.blend = selector.blend
        /\ (selector.consumed => hist.joined) => (selector'.consumed => hist'.joined)
        /\ "select" \in due' <=> "select" \in due
    BY <1>1, SelectorHearsTyped DEF SelectorOnly
  <2>. QED BY <2>1 DEF EntryInv, Pending
<1>2. CASE Odometry
  <2>1. /\ UNCHANGED <<sent, faults, hist>> /\ due' = due \ {"odom"}
        /\ selector' = OnSelectorOdom(selector)
    BY <1>2 DEF Odometry, Arrive, Do
  <2>2. /\ selector'.localAge = selector.localAge /\ selector'.consumed = selector.consumed
        /\ selector'.blend = selector.blend
    BY <1>0, <2>1 DEF OnSelectorOdom, SelectorType
  <2>. QED BY <2>1, <2>2 DEF EntryInv, Pending
<1>3. CASE StopRequest \/ SelectedPath \/ SelectedValid \/ Control
  <2>1. /\ UNCHANGED <<selector, sent, faults, hist>>
        /\ "select" \in due' <=> "select" \in due
    BY <1>3 DEF StopRequest, SelectedPath, SelectedValid, Control, Arrive, Do
  <2>. QED BY <2>1 DEF EntryInv, Pending
<1>4. ASSUME NEW arc \in LocalArcs, NEW moved \in Moves, Select(arc, moved) PROVE EntryInv'
  <2>. DEFINE b == SelectorHeartbeat(selector, Candidates, arc, MaxArc, moved)
  <2>0. arc \in 0..MaxArc /\ moved \in Nat
    BY DriveCaps
  <2>1. /\ b.kind \in PathKinds \cup {"none"}
        /\ b.kind = "local" => b.selector.localAge = 0
        /\ b.kind \in {"none", "local"} => b.selector.consumed = selector.consumed
    BY <1>0, <2>0, HeartbeatOps
  <2>2. b.kind = "blend" => /\ b.selector.blend.active /\ b.selector.blend.placed
                            /\ Window(b.selector.blend, MaxArc) >= 2
    BY <1>0, <2>0, HeartbeatBlend
  <2>3. /\ UNCHANGED faults /\ selector' = b.selector /\ sent' = b.kind
        /\ hist'.joined = (hist.joined \/ sent' \in {"blend", "global"})
    BY <1>4, SelectFields
  <2>. HIDE DEF b
  <2>4. sent' = "local" => selector'.localAge <= faults' + Pending("select")'
    BY <1>0, <2>1, <2>3 DEF Pending
  <2>5. selector'.consumed => hist'.joined
    <3>1. CASE b.kind \in {"none", "local"}
      BY <2>1, <2>3, <3>1 DEF EntryInv
    <3>2. CASE b.kind \notin {"none", "local"}
      <4>1. b.kind \in {"blend", "global"}
        BY <2>1, <3>2 DEF PathKinds
      <4>. QED BY <2>3, <4>1
    <3>. QED BY <3>1, <3>2
  <2>6. sent' = "blend" => (/\ selector.blend.active /\ selector.blend.placed
                            /\ Window(selector.blend, MaxArc) >= 2)'
    BY <2>2, <2>3 DEF Window, Trimmed
  <2>. QED BY <2>4, <2>5, <2>6 DEF EntryInv
<1>5. CASE Elapse
  <2>1. /\ UNCHANGED <<sent, faults>> /\ due = {} /\ "select" \in due'
        /\ selector'.localAge = Older(selector.localAge, 2 * CandidateTimeout + 1)
        /\ selector'.consumed = selector.consumed /\ hist'.joined = hist.joined
        /\ selector'.blend = selector.blend
    BY <1>5, ElapseFields DEF Timers
  <2>2. selector'.localAge <= selector.localAge + 1 /\ selector'.localAge \in Nat
    BY <1>0, <2>1 DEF Older
  <2>3. Window(selector.blend, MaxArc)' = Window(selector.blend, MaxArc)
    BY <2>1 DEF Window, Trimmed
  <2>. QED BY <1>0, <2>1, <2>2, <2>3 DEF EntryInv, Pending
<1>6. ASSUME NEW d \in Lossy, Lose(d) PROVE EntryInv'
  <2>1. UNCHANGED <<selector, sent, hist>> /\ faults' = faults + 1 /\ due' \subseteq due
    BY <1>6 DEF Lose
  <2>2. Window(selector.blend, MaxArc)' = Window(selector.blend, MaxArc)
    BY <2>1 DEF Window, Trimmed
  <2>. QED BY <1>0, <2>1, <2>2 DEF EntryInv, Pending
<1>7. CASE UNCHANGED driveVars
  BY <1>7 DEF driveVars, EntryInv, Pending, Window, Trimmed
<1>. QED BY <1>1, <1>2, <1>3, <1>4, <1>5, <1>6, <1>7, DriveSteps

\* A heartbeat that selects the global path for an entry of its own, from a local path
\* that is young enough and reaches two waypoints ahead, publishes a blend.
LEMMA EntryHeartbeat ==
  ASSUME NEW s \in SelectorType, NEW arc \in 0..MaxArc, NEW moved \in Nat,
         NEW b, b = SelectorHeartbeat(s, Candidates, arc, MaxArc, moved),
         BlendLength >= 2, arc > 1, ~s.consumed, ~s.blend.active,
         s.localAge <= 2 * CandidateTimeout
  PROVE  b.kind # "global"
<1>. DEFINE ready    == ReadyCandidates(s) \cap Candidates
            choice   == Decide(s, ready)
            localAge == IF "local" \in ready THEN 0 ELSE s.localAge
            before   == IF s.source = "LOCAL" THEN NoBlend ELSE s.blend
            during   == BlendMoved(BlendStarted(s, before, localAge, arc), moved)
            blended  == choice = "global" /\ during.active /\ Transition(during, MaxArc) # <<>>
<1>1. b.kind = IF blended THEN "blend" ELSE choice
  BY DEF SelectorHeartbeat
<1>. SUFFICES ASSUME choice = "global" PROVE blended
  BY <1>1
<1>2. BlendStarted(s, before, localAge, arc) = [NoBlend EXCEPT !.active = TRUE, !.arc = arc]
  <2>1. ~before.active
    BY DEF NoBlend
  <2>2. localAge <= 2 * CandidateTimeout
    BY DriveCaps DEF SelectorType
  <2>. HIDE DEF before, localAge
  <2>. QED BY <2>1, <2>2 DEF BlendStarted
<1>3. during.active /\ during.travelled = 0 /\ during.arc = arc
  <2>. DEFINE q == [NoBlend EXCEPT !.active = TRUE, !.arc = arc]
  <2>1. NoBlend \in BlendType /\ NoBlend.travelled = 0 /\ NoBlend.placed = FALSE
    BY DriveCaps DEF NoBlend, BlendType
  <2>2. /\ q \in BlendType /\ q.active /\ q.arc = arc
        /\ q.travelled = NoBlend.travelled /\ q.placed = NoBlend.placed
    BY <2>1 DEF BlendType
  <2>3. during = BlendMoved(q, moved)
    BY <1>2
  <2>. HIDE DEF q, during
  <2>4. BlendMoved(q, moved) = [q EXCEPT !.placed = TRUE, !.travelled = 0]
    <3>1. q.travelled + (IF q.placed THEN moved ELSE 0) = 0
      BY <2>1, <2>2
    <3>2. (IF 0 < BlendLength THEN 0 ELSE BlendLength) = 0
      BY DriveCaps
    <3>. QED BY <2>2, <3>1, <3>2, Zenon DEF BlendMoved
  <2>5. /\ [q EXCEPT !.placed = TRUE, !.travelled = 0].active = q.active
        /\ [q EXCEPT !.placed = TRUE, !.travelled = 0].travelled = 0
        /\ [q EXCEPT !.placed = TRUE, !.travelled = 0].arc = q.arc
    BY <2>2 DEF BlendType
  <2>. QED BY <2>2, <2>3, <2>4, <2>5
<1>. HIDE DEF during
<1>4. Window(during, MaxArc) \in Nat /\ Window(during, MaxArc) >= 2
  BY <1>3, DriveCaps DEF Window, Trimmed
<1>5. Transition(during, MaxArc) # <<>>
  <2>. DEFINE n == Window(during, MaxArc)
              share(i) == Smoothstep(Ramp(during, n, i - 1))
  <2>1. Transition(during, MaxArc) = Append([i \in 1..n |-> share(i)], 1000)
    BY <1>4 DEF Transition
  <2>2. n \in Nat
    BY <1>4
  <2>. HIDE DEF n, share
  <2>3. [i \in 1..n |-> share(i)] \in Seq({share(i) : i \in 1..n} \cup {1000})
    BY <2>2
  <2>. DEFINE S    == {share(i) : i \in 1..n} \cup {1000}
              ramp == [i \in 1..n |-> share(i)]
  <2>4. ramp \in Seq(S) /\ 1000 \in S
    BY <2>3
  <2>. HIDE DEF S, ramp
  <2>5. Append(ramp, 1000) # <<>>
    BY <2>4, AppendProperties
  <2>. QED BY <2>1, <2>5 DEF ramp
<1>. QED BY <1>3, <1>5

\* Cancelling a common factor of a rounded quotient.
LEMMA DivUnique ==
  ASSUME NEW a \in Nat, NEW b \in Nat \ {0}, NEW q \in Nat, NEW r \in Nat,
         a = q * b + r, r < b
  PROVE  a \div b = q
<1>1. a \div b \in Nat /\ (a \div b) * b <= a /\ a < (a \div b) * b + b
  OBVIOUS
<1>2. ASSUME a \div b < q PROVE FALSE
  <2>1. (a \div b) + 1 <= q
    BY <1>1, <1>2
  <2>2. ((a \div b) + 1) * b <= q * b
    BY <1>1, <2>1
  <2>. QED BY <1>1, <2>2
<1>3. ASSUME q < a \div b PROVE FALSE
  <2>1. (q + 1) * b <= (a \div b) * b
    BY <1>1, <1>3
  <2>. QED BY <1>1, <2>1
<1>. QED BY <1>1, <1>2, <1>3

LEMMA DivCancels ==
  ASSUME NEW x \in Nat, NEW y \in Nat \ {0}, NEW k \in Nat \ {0}
  PROVE  (k * x) \div (k * y) = x \div y
<1>. DEFINE q == x \div y
            r == x % y
<1>1. q \in Nat /\ r \in Nat /\ x = q * y + r /\ r < y
  OBVIOUS
<1>. HIDE DEF q, r
<1>2. k * x = q * (k * y) + k * r
  BY <1>1
<1>3. k * r < k * y /\ k * r \in Nat /\ k * y \in Nat \ {0} /\ k * x \in Nat
  BY <1>1
<1>4. (k * x) \div (k * y) = q
  BY <1>1, <1>2, <1>3, DivUnique
<1>. QED BY <1>4 DEF q

\* While the frozen path covers the blend, its share at a place depends on nothing but
\* how far that place is from where the blend began.
LEMMA ShareAt ==
  ASSUME NEW q \in BlendType, q.arc >= BlendLength, Window(q, MaxArc) >= 2,
         NEW ahead \in Nat, ahead < Window(q, MaxArc)
  PROVE  Transition(q, MaxArc)[1 + ahead]
           = Smoothstep((1000 * (q.travelled + ahead)) \div BlendLength)
<1>. DEFINE n == BlendLength - q.travelled
            t == q.travelled
            share(i) == Smoothstep(Ramp(q, n, i - 1))
            ramp == [i \in 1..n |-> share(i)]
            S == {share(i) : i \in 1..n} \cup {1000}
<1>1. /\ t \in 0..BlendLength /\ BlendLength \in Nat \ {0} /\ MaxArc \in Nat
      /\ q.arc \in 0..MaxArc
  BY DriveCaps DEF BlendType
<1>2. Window(q, MaxArc) = n /\ n \in Nat /\ n >= 2
  BY <1>1 DEF Window, Trimmed
<1>3. Ramp(q, n, ahead) = (1000 * (t + ahead)) \div BlendLength
  <2>1. /\ 1000 * (t * n + (BlendLength - t) * ahead) = n * (1000 * (t + ahead))
        /\ BlendLength * n = n * BlendLength
    BY <1>1, <1>2
  <2>. DEFINE x == 1000 * (t + ahead)
  <2>2. x \in Nat /\ n \in Nat \ {0}
    BY <1>1, <1>2
  <2>3. (n * x) \div (n * BlendLength) = x \div BlendLength
    <3>. HIDE DEF x, n
    <3>. QED BY <1>1, <2>2, DivCancels
  <2>. QED BY <2>1, <2>3 DEF Ramp
<1>4. Transition(q, MaxArc) = Append(ramp, 1000)
  BY <1>2 DEF Transition
<1>5. share(1 + ahead) = Smoothstep((1000 * (t + ahead)) \div BlendLength)
  <2>1. (1 + ahead) - 1 = ahead
    OBVIOUS
  <2>. QED BY <1>3, <2>1
<1>6. n \in Nat /\ 1 + ahead \in 1..n
  BY <1>2
<1>. HIDE DEF n, share
<1>7. ramp \in Seq(S) /\ 1000 \in S /\ Len(ramp) = n
  BY <1>6
<1>8. ramp[1 + ahead] = share(1 + ahead)
  BY <1>6
<1>. HIDE DEF ramp, S
<1>9. Append(ramp, 1000)[1 + ahead] = ramp[1 + ahead]
  BY <1>6, <1>7, AppendProperties
<1>10. Transition(q, MaxArc)[1 + ahead] = share(1 + ahead)
  BY <1>4, <1>8, <1>9
<1>. QED BY <1>5, <1>10

\* The blend spans two waypoints, and a local path that was sent is young enough to be
\* blended from although heartbeats were lost since.
BlendsSpanFaults == BlendLength >= 2 /\ MaxFaults + 1 <= 2 * CandidateTimeout

\* No heartbeat makes the reference step: the first global path after a local one is
\* reached through a blend on every entry, unless an interrupted blend is resumed, and
\* along the blend the car finds itself where the blend published before had it.
THEOREM EveryEntryBlended ==
  ASSUME BlendsSpanFaults
  PROVE  DriveSpec => BlendsEntry
<1>1. DriveInit => DriveTypeOK /\ EntryInv
  <2>. SUFFICES ASSUME DriveInit PROVE DriveTypeOK /\ EntryInv
    OBVIOUS
  <2>1. sent = "none" /\ ~selector.consumed
    BY DEF DriveInit, SelectorInit
  <2>. QED BY <2>1, DriveInitTyped DEF EntryInv
<1>2. DriveTypeOK /\ EntryInv /\ [DriveNext]_driveVars => DriveTypeOK' /\ EntryInv'
  BY DriveTyped, EntryStep
<1>3. ASSUME DriveTypeOK, EntryInv, DriveTypeOK', EntryInv'
      PROVE  EntryBlended /\ BlendContinues
  <2>1. /\ selector \in SelectorType /\ selector.localAge \in 0..(2 * CandidateTimeout + 1)
        /\ selector.blend \in BlendType /\ selector'.blend \in BlendType
        /\ faults \in 0..MaxFaults /\ MaxFaults \in Nat /\ CandidateTimeout \in Nat
        /\ BlendLength \in Nat
    BY <1>3, DriveCaps DEF DriveTypeOK, SelectorType
  <2>2. ASSUME sent = "local", sent' = "global",
               NEW arc \in LocalArcs, NEW moved \in Moves, Select(arc, moved), arc > 1,
               ~hist.joined, ~selector.blend.active
        PROVE  FALSE
    <3>. DEFINE b == SelectorHeartbeat(selector, Candidates, arc, MaxArc, moved)
    <3>1. arc \in 0..MaxArc /\ moved \in Nat
      BY DriveCaps
    <3>2. ~selector.consumed /\ selector.localAge <= 2 * CandidateTimeout
      BY <1>3, <2>1, <2>2 DEF EntryInv, Pending, BlendsSpanFaults
    <3>3. b.kind # "global"
      BY <2>1, <2>2, <3>1, <3>2, EntryHeartbeat DEF BlendsSpanFaults
    <3>4. sent' = b.kind
      BY <1>3, <2>2, SelectFields
    <3>. QED BY <2>2, <3>3, <3>4
  <2>3. ASSUME sent = "blend", sent' = "blend", selector.blend.arc >= BlendLength,
               NEW arc \in LocalArcs, NEW moved \in Moves, Select(arc, moved)
        PROVE  Transition(selector'.blend, MaxArc)[1]
                 = Transition(selector.blend, MaxArc)[1 + moved]
    <3>. DEFINE b == SelectorHeartbeat(selector, Candidates, arc, MaxArc, moved)
                p == selector.blend
                q == selector'.blend
    <3>1. arc \in 0..MaxArc /\ moved \in Nat
      BY DriveCaps
    <3>2. selector' = b.selector /\ b.kind = "blend"
      BY <1>3, <2>3, SelectFields
    <3>3. p.active /\ p.placed /\ Window(p, MaxArc) >= 2 /\ Window(q, MaxArc) >= 2
      <4>1. EntryInv' => (sent' = "blend" => Window(selector'.blend, MaxArc) >= 2)
        BY DEF EntryInv, Window, Trimmed
      <4>. QED BY <1>3, <2>3, <4>1 DEF EntryInv
    <3>4. q.arc = p.arc /\ q.travelled = p.travelled + moved
      BY <2>1, <3>1, <3>2, <3>3, HeartbeatBlend
    <3>5. /\ p.travelled \in 0..BlendLength /\ q.travelled \in 0..BlendLength
          /\ p.arc \in 0..MaxArc /\ MaxArc \in Nat /\ p.arc >= BlendLength
          /\ p \in BlendType /\ q \in BlendType
      BY <2>1, <2>3, DriveCaps DEF BlendType
    <3>. HIDE DEF b, p, q
    <3>6. moved < Window(p, MaxArc) /\ 0 < Window(q, MaxArc)
      BY <2>1, <3>1, <3>3, <3>4, <3>5 DEF Window, Trimmed
    <3>7. Transition(p, MaxArc)[1 + moved]
            = Smoothstep((1000 * (p.travelled + moved)) \div BlendLength)
      BY <3>1, <3>3, <3>5, <3>6, ShareAt
    <3>8. Transition(q, MaxArc)[1 + 0] = Smoothstep((1000 * (q.travelled + 0)) \div BlendLength)
      BY <3>3, <3>4, <3>5, <3>6, ShareAt
    <3>9. 1 + 0 = 1 /\ q.travelled + 0 = p.travelled + moved
      BY <3>4, <3>5
    <3>. QED BY <3>7, <3>8, <3>9 DEF p, q
  <2>. QED BY <2>2, <2>3 DEF EntryBlended, BlendContinues
<1>4. DriveTypeOK /\ EntryInv /\ DriveTypeOK' /\ EntryInv'
        => [EntryBlended /\ BlendContinues]_driveVars
  BY <1>3
<1>. QED BY <1>1, <1>2, <1>4, PTL DEF DriveSpec, BlendsEntry

=============================================================================
