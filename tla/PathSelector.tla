---------------------------- MODULE PathSelector ----------------------------
(***************************************************************************)
(* hyu_path_selector_node: the local or the global path, or a blend of     *)
(* both, as operators on a record of its fields.  A candidate path is the  *)
(* age of its stamp, which is never younger than its reception and is held *)
(* to the same timeout.                                                    *)
(***************************************************************************)
EXTENDS Ages, Sequences

CONSTANTS
  SourceTimeout,      \* path_source_timeout_sec, in ticks
  CandidateTimeout,   \* timeout_sec of the continuity thresholds, in ticks
  BlendLength,        \* transition_blend_length_m, in units of waypoint_spacing_m
  MaxArc              \* bound on the arc length of a path, in the same units

ASSUME SelectorAssumption ==
  SourceTimeout \in Nat /\ CandidateTimeout \in Nat /\ BlendLength \in Nat \ {0}
  /\ MaxArc \in Nat

Candidates == {"local", "global"}
PathKinds == {"local", "blend", "global"}
Requests == {"LOCAL", "GLOBAL_FULL", "GLOBAL_FINAL_STOP", "STOP"}

CandidateType ==
  [age : 0..(CandidateTimeout + 1), valid : BOOLEAN, validAge : 0..(CandidateTimeout + 1)]

\* arc: what the frozen local path still had ahead of the car when it was frozen.
BlendType ==
  [active : BOOLEAN, travelled : 0..BlendLength, placed : BOOLEAN, arc : 0..MaxArc]

SelectorType ==
  [source : Requests \cup {"none"}, sourceAge : 0..(SourceTimeout + 1),
   candidate : [Candidates -> CandidateType], odomAge : 0..(CandidateTimeout + 1),
   consumed : BOOLEAN, localAge : 0..(2 * CandidateTimeout + 1), blend : BlendType]

NoBlend == [active |-> FALSE, travelled |-> 0, placed |-> FALSE, arc |-> 0]

\* localAge is the age of last_local_trimmed_, consumed is global_entry_handoff_consumed.
SelectorInit ==
  [source |-> "none", sourceAge |-> SourceTimeout + 1,
   candidate |-> [c \in Candidates |->
     [age |-> CandidateTimeout + 1, valid |-> FALSE, validAge |-> CandidateTimeout + 1]],
   odomAge |-> CandidateTimeout + 1, consumed |-> FALSE,
   localAge |-> 2 * CandidateTimeout + 1, blend |-> NoBlend]

AgeCandidate(c) ==
  [c EXCEPT !.age = Older(@, CandidateTimeout + 1), !.validAge = Older(@, CandidateTimeout + 1)]

AgeSelector(s) ==
  [s EXCEPT !.sourceAge = Older(@, SourceTimeout + 1),
            !.candidate = [c \in Candidates |-> AgeCandidate(@[c])],
            !.odomAge = Older(@, CandidateTimeout + 1),
            !.localAge = Older(@, 2 * CandidateTimeout + 1)]

\* A bug of this shape: the handoff of a GLOBAL entry is used up for good.
OnPathSourceOnce(s, source) == [s EXCEPT !.source = source, !.sourceAge = 0]

\* A LOCAL request makes the next global entry a new one.
OnPathSource(s, source) ==
  [s EXCEPT !.source = source, !.sourceAge = 0, !.consumed = @ /\ source # "LOCAL"]

OnCandidatePath(s, c) == [s EXCEPT !.candidate[c].age = 0]

OnCandidateValidity(s, c, v) ==
  [s EXCEPT !.candidate[c].valid = v, !.candidate[c].validAge = 0]

OnSelectorOdom(s) == [s EXCEPT !.odomAge = 0]

Fresh(age) == age <= CandidateTimeout

\* The candidates with a fresh, valid path at a fresh pose.
ReadyCandidates(s) ==
  {c \in Candidates :
     /\ s.candidate[c].valid /\ Fresh(s.candidate[c].validAge)
     /\ Fresh(s.candidate[c].age) /\ Fresh(s.odomAge)}

\* A bug of this shape: no local path while the global one is away.
DecideStrict(s, ready) ==
  CASE s.sourceAge > SourceTimeout -> "none"
    [] s.sourceAge <= SourceTimeout /\ s.source = "LOCAL" ->
         IF "local" \in ready THEN "local" ELSE "none"
    [] s.sourceAge <= SourceTimeout /\ s.source \in {"GLOBAL_FULL", "GLOBAL_FINAL_STOP"} ->
         IF "global" \in ready THEN "global" ELSE "none"
    [] OTHER -> "none"

\* A ready global candidate is ready for the handoff, so the branches that wait for the
\* handoff are never taken.
Decide(s, ready) ==
  CASE s.sourceAge > SourceTimeout -> "none"
    [] s.sourceAge <= SourceTimeout /\ s.source = "LOCAL" ->
         IF "local" \in ready THEN "local" ELSE "none"
    [] s.sourceAge <= SourceTimeout /\ s.source = "GLOBAL_FULL" ->
         IF "global" \in ready THEN "global" ELSE IF "local" \in ready THEN "local" ELSE "none"
    [] s.sourceAge <= SourceTimeout /\ s.source = "GLOBAL_FINAL_STOP" ->
         IF "global" \in ready THEN "global" ELSE "none"
    [] OTHER -> "none"

\* The blend while the global path is selected: frozen on the first tick of an entry
\* from a local path that is at most twice the timeout old.
BlendStarted(s, blend, localAge, arc) ==
  IF ~s.consumed /\ ~blend.active /\ localAge <= 2 * CandidateTimeout
  THEN [NoBlend EXCEPT !.active = TRUE, !.arc = arc] ELSE blend

\* Progress is the distance between the poses of two heartbeats that selected it.
BlendMoved(blend, moved) ==
  IF ~blend.active THEN blend
  ELSE LET there == blend.travelled + (IF blend.placed THEN moved ELSE 0)
       IN [blend EXCEPT !.placed = TRUE,
                        !.travelled = IF there < BlendLength THEN there ELSE BlendLength]

\* What is left of a path ahead of the car: it is cut off at the nearest point.
Trimmed(arc, travelled) == IF travelled < arc THEN arc - travelled ELSE 0

\* The blend window: what is left of the blend, of the frozen local path and of the
\* global path, whichever is least.
Window(blend, globalArc) ==
  LET localArc  == Trimmed(blend.arc, blend.travelled)
      remaining == BlendLength - blend.travelled
      least(a, b) == IF a < b THEN a ELSE b
  IN least(remaining, least(localArc, globalArc))

\* smoothstep, in thousandths.
Smoothstep(u) == (u * u * (3000 - 2 * u)) \div 1000000

\* A bug of this shape: every heartbeat starts the ramp anew.
RampAfresh(blend, window, ahead) == (1000 * ahead) \div window

\* How far the blend has come at a place ahead of the car, in thousandths: from where the
\* car is now to 1 at the end of the window, however short that is.
Ramp(blend, window, ahead) ==
  (1000 * (blend.travelled * window + (BlendLength - blend.travelled) * ahead))
    \div (BlendLength * window)

\* buildTransitionPath: the share of the global path in each waypoint ahead of the car,
\* up to the seam at the end of the window; behind it comes the global path.  No path
\* (<<>>) when fewer than two waypoints are in the window.
Transition(blend, globalArc) ==
  LET window == Window(blend, globalArc)
  IN IF window < 2 THEN <<>>
     ELSE Append([i \in 1..window |-> Smoothstep(Ramp(blend, window, i - 1))], 1000)

\* One heartbeat: the selector after it, the kind of path it publishes ("none": it says
\* that none is valid) and handoff_ready.  `trims` are the candidates with something left
\* ahead of the car, localArc and globalArc what is left of the last local path and of the
\* global one.
SelectorHeartbeat(s, trims, localArc, globalArc, moved) ==
  LET ready    == ReadyCandidates(s) \cap trims
      choice   == Decide(s, ready)
      localAge == IF "local" \in ready THEN 0 ELSE s.localAge
      before   == IF s.source = "LOCAL" THEN NoBlend ELSE s.blend
      during   == BlendMoved(BlendStarted(s, before, localAge, localArc), moved)
      blended  == choice = "global" /\ during.active /\ Transition(during, globalArc) # <<>>
  IN [selector |->
        [s EXCEPT !.localAge = localAge,
                  !.consumed = @ \/ choice = "global",
                  !.blend = IF choice # "global" THEN before
                            ELSE IF blended THEN during ELSE NoBlend],
      kind |-> IF blended THEN "blend" ELSE choice,
      handoff |-> "global" \in ready]

=============================================================================
