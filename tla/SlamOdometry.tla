---------------------------- MODULE SlamOdometry ----------------------------
(* graph_slam_node.cpp between the odometry and the map: the state callback has
   a callback group of its own and never waits for the graph, so it publishes the
   live pose from the graph when it can lock it and from a snapshot of the last
   keyframe when the cones, the optimizer's timer or a relocalisation hold it.
   A cone frame is placed by the odometry of the time it was taken.
   The car moves along a line.  Its place is where it is on the map; raw is what
   the odometry says, which drifts away from it.  A correction of the graph is
   named by its number (epoch) and by the drift it had measured.              *)
EXTENDS Integers, Sequences, SequencesExt

CONSTANTS Moves,            \* what the car may move in a tick
          MaxNow, MaxEpoch, MaxTroubles,    \* bounds of a behaviour
          MaxGap,           \* ticks between two odometry messages
          Delay,            \* ticks a cone frame is under way
          Horizon,          \* of raw_odom_buffer_
          Slack,            \* the half second a frame may be off the buffer
          Restart,          \* the stamp of the first message after a rollback
          KeyframeDistance, KeyframeMaxDt,
          VisualInterval,   \* visual_publish_min_interval
          Tolerance         \* of a place interpolated between two messages

VARIABLES world,      \* [now, place, raw, run]: a run ends when the clock goes back;
                      \* troubles bounds the slips of the odometry, the
                      \* rollbacks, the resets and the clicks
          odom,       \* the CarState to be handled, if any
          frame,      \* the cone frame under way, if any
          buffer,     \* raw_odom_buffer_
          graph,      \* the last keyframe, its snapshot, the submap's reference and
                      \* the last correction that was meant to be seen (applied)
          callback,   \* the state callback between its try_lock and its snapshot
          job,        \* what holds graph_mutex_: the step it is at, and its frame
          visual,     \* the last map published: by which stamp, and in which run
          out         \* what this step published or placed, if anything
odometryVars == <<world, odom, frame, buffer, graph, callback, job, visual, out>>

Nothing == [live |-> {}, placed |-> {}]
Free == [step |-> "free", frame |-> {}]
Abs(n) == IF n < 0 THEN -n ELSE n
Drift(w) == w.place - w.raw
Unknown == -1            \* the drift of a correction that measured none

(* addInitialPose .. addKeyframe: the last pose of the graph; the snapshot of it
   that updateKeyframeSnapshot takes under a mutex of its own.                *)
CommittedToGraph(g, keyframe) == [g EXCEPT !.keyframe = {keyframe}]
Committed(g, keyframe) == [CommittedToGraph(g, keyframe) EXCEPT !.snapshot = {keyframe}]
Applied(g, epoch) == [g EXCEPT !.applied = epoch]
Corrected(g, epoch, drift) ==
  LET k == CHOOSE k \in g.keyframe : TRUE
  IN [k EXCEPT !.est = k.raw + drift, !.drift = drift, !.epoch = epoch]
Carried(k, raw) == k.est + (raw - k.raw)         \* estimateFromRawOdometry

ShouldCreateKeyframe(k, m) ==
  \/ Abs(m.raw - k.raw) >= KeyframeDistance
  \/ m.stamp - k.stamp >= KeyframeMaxDt

-----------------------------------------------------------------------------
(* A bug of this shape: the samples of before a clock rollback stay.          *)
RecordedForGood(b, m) ==
  SelectSeq(Append(b, [stamp |-> m.stamp, raw |-> m.raw]),
            LAMBDA s : s.stamp >= m.stamp - Horizon)
(* recordRawOdometry and latestRawOdom.                                       *)
Recorded(b, m) ==
  LET kept == IF b # <<>> /\ m.stamp < Last(b).stamp THEN <<>> ELSE b
  IN SelectSeq(Append(kept, [stamp |-> m.stamp, raw |-> m.raw]),
               LAMBDA s : s.stamp >= m.stamp - Horizon)
LatestRawOdom(b) == IF b = <<>> THEN 0 ELSE Last(b).raw

(* The stamp is in the buffer's span, or within the slack of it.              *)
InSpan(b, stamp) ==
  b # <<>> /\ stamp \in (Head(b).stamp - Slack) .. (Last(b).stamp + Slack)

(* A bug of this shape: the frame is placed where the car is by now.          *)
RawOdomNow(b, stamp, fallback) == IF b = <<>> THEN fallback ELSE Last(b).raw
(* rawOdomAt: clamped to the buffer's ends, interpolated inside it.           *)
RawOdomAt(b, stamp, fallback) ==
  IF b = <<>> THEN fallback
  ELSE IF stamp <= Head(b).stamp THEN Head(b).raw
  ELSE IF stamp >= Last(b).stamp THEN Last(b).raw
  ELSE LET upper == CHOOSE i \in 2 .. Len(b) :
                      b[i].stamp >= stamp /\ \A j \in 1 .. i - 1 : b[j].stamp < stamp
           lo == b[upper - 1]   hi == b[upper]
       IN lo.raw + ((stamp - lo.stamp) * (hi.raw - lo.raw)) \div (hi.stamp - lo.stamp)

-----------------------------------------------------------------------------
(* A bug of this shape: a clock that goes back stops the pictures.            *)
ShouldPublishVisualsLater(v, stamp) == v.last = -1 \/ stamp - v.last >= VisualInterval
(* shouldPublishVisuals.                                                      *)
ShouldPublishVisuals(v, stamp) ==
  v.last = -1 \/ stamp < v.last \/ stamp - v.last >= VisualInterval
(* publishGraphVisuals: map, path and markers, by the stamp given.            *)
Shown(v, stamp, run) ==
  IF ShouldPublishVisuals(v, stamp) THEN [last |-> stamp, run |-> run] ELSE v

(* publishLiveEstimate: the pose, and the transform that gives it from the raw
   odometry.  floor is the correction applied when the callback began.          *)
Live(k, est, place, floor) ==
  [Nothing EXCEPT !.live = {[est |-> est, place |-> place, epoch |-> k.epoch,
                             drift |-> k.drift, floor |-> floor]}]
EpochOf(keyframes) == IF keyframes = {} THEN 0 ELSE (CHOOSE k \in keyframes : TRUE).epoch
Newest(g) == EpochOf(g.keyframe)

(* stateCallback with the graph locked.                                       *)
FromGraph(m) ==
  \/ /\ graph.keyframe = {}
     /\ LET first == [raw |-> m.raw, est |-> m.raw, stamp |-> m.stamp, run |-> m.run,
                      epoch |-> 0, drift |-> 0]
        IN /\ graph' = Applied(Committed(graph, first), 0)
           /\ visual' = Shown(visual, m.stamp, m.run)
           /\ out' = Live(first, first.est, m.place, graph.applied)
  \/ \E k \in graph.keyframe :
       /\ ~ShouldCreateKeyframe(k, m)
       /\ out' = Live(k, Carried(k, m.raw), m.place, graph.applied)
       /\ UNCHANGED <<graph, visual>>
  \/ \E k \in graph.keyframe :
       LET next == [k EXCEPT !.raw = m.raw, !.est = Carried(k, m.raw),
                             !.stamp = m.stamp, !.run = m.run]
       IN /\ ShouldCreateKeyframe(k, m)
          /\ graph' = Applied(Committed(graph, next), next.epoch)
          /\ visual' = Shown(visual, m.stamp, m.run)
          /\ out' = Live(next, next.est, m.place, graph.applied)

StateCallback ==
  \E m \in odom :
    /\ callback = {}
    /\ odom' = {}
    /\ buffer' = Recorded(buffer, m)
    /\ \/ job = Free /\ FromGraph(m) /\ UNCHANGED callback
       \/ /\ job # Free
          /\ callback' = {[m |-> m, floor |-> graph.applied]}
          /\ out' = Nothing
          /\ UNCHANGED <<graph, visual>>
    /\ UNCHANGED <<world, frame, job>>

(* publishLiveEstimateFromSnapshot, after a try_lock that failed.             *)
FromSnapshot ==
  \E c \in callback :
    /\ callback' = {}
    /\ out' = IF graph.snapshot = {} THEN Nothing
              ELSE LET k == CHOOSE k \in graph.snapshot : TRUE
                   IN Live(k, Carried(k, c.m.raw), c.m.place, c.floor)
    /\ UNCHANGED <<world, odom, frame, buffer, graph, job, visual>>

-----------------------------------------------------------------------------
(* conesCallback takes the graph and, in addConeObservations, reads the buffer
   twice: for its span and for the place.                                     *)
TakeFrame ==
  \E f \in frame :
    /\ job = Free
    /\ frame' = {}
    /\ job' = IF graph.keyframe = {} THEN job ELSE [step |-> "span", frame |-> {f}]
    /\ out' = Nothing
    /\ UNCHANGED <<world, odom, buffer, graph, callback, visual>>
CheckSpan ==
  /\ job.step = "span"
  /\ job' = IF \E f \in job.frame : InSpan(buffer, f.stamp)
            THEN [job EXCEPT !.step = "place"] ELSE Free
  /\ out' = Nothing
  /\ UNCHANGED <<world, odom, frame, buffer, graph, callback, visual>>
PlaceFrame ==
  \E f \in job.frame, k \in graph.keyframe :
    LET at == RawOdomAt(buffer, f.stamp, k.raw)
        drift == IF f.run = world.run THEN f.drift ELSE Unknown
    IN /\ job.step = "place"
       /\ job' = [job EXCEPT !.step = "register"]
       /\ graph' = [graph EXCEPT !.reference = {[raw |-> at, place |-> f.place, drift |-> drift]}]
       /\ out' = [Nothing EXCEPT !.placed = {[raw |-> at, taken |-> f]}]
       /\ UNCHANGED <<world, odom, frame, buffer, callback, visual>>

(* The frame, or the timer, may move the graph by the drift it measures:
   maybeCsmRegister without a word to the snapshot, maybeOptimize with one.   *)
Register ==
  \E r \in graph.reference, k \in graph.keyframe :
    /\ job.step = "register"
    /\ job' = [job EXCEPT !.step = "optimize"]
    /\ \/ UNCHANGED graph
       \/ /\ k.epoch < MaxEpoch /\ r.drift \notin {k.drift, Unknown}
          /\ graph' = CommittedToGraph(graph, Corrected(graph, k.epoch + 1, r.drift))
    /\ out' = Nothing
    /\ UNCHANGED <<world, odom, frame, buffer, callback, visual>>
TimerBegins ==
  /\ job = Free /\ graph.keyframe # {} /\ graph.reference # {}
  /\ job' = [step |-> "optimize", frame |-> {}]
  /\ out' = Nothing
  /\ UNCHANGED <<world, odom, frame, buffer, graph, callback, visual>>
(* A bug of this shape: the snapshot keeps the pose of before the solver ran. *)
OptimizedOutOfSight(g, epoch, drift) == CommittedToGraph(g, Corrected(g, epoch, drift))
Optimized(g, epoch, drift) == Committed(g, Corrected(g, epoch, drift))
Optimize ==
  \E k \in graph.keyframe, r \in graph.reference :
    /\ job.step = "optimize"
    /\ job' = Free
    /\ \/ /\ k.epoch < MaxEpoch /\ r.drift # Unknown
          /\ graph' = Applied(Optimized(graph, k.epoch + 1, r.drift), k.epoch + 1)
          /\ visual' = Shown(visual, k.stamp, k.run)
       \/ UNCHANGED <<graph, visual>>
    /\ out' = Nothing
    /\ UNCHANGED <<world, odom, frame, buffer, callback>>

(* A bug of this shape: the points of the submap are taken for present ones.  *)
RawReferenceOfNow(fromSubmap) == LatestRawOdom(buffer)
(* scanMatchNear: the pose that matches the points is the car's at their frame. *)
Matched(r) == r.place
(* relocalizeTo: the odometry that goes with that pose.                       *)
RawReference(fromSubmap) ==
  IF fromSubmap THEN (CHOOSE r \in graph.reference : TRUE).raw ELSE LatestRawOdom(buffer)
InitialPoseBegins ==
  /\ job = Free /\ world.troubles < MaxTroubles
  /\ job' = [step |-> "relocalize", frame |-> {}]
  /\ world' = [world EXCEPT !.troubles = @ + 1]
  /\ out' = Nothing
  /\ UNCHANGED <<odom, frame, buffer, graph, callback, visual>>
(* The pose published with it is that of the points' frame, stamped now.      *)
RelocalizeAt ==
  \E fromSubmap \in {b \in BOOLEAN : b => graph.reference # {}} :
    LET r == CHOOSE r \in graph.reference : TRUE
        anchor == [raw |-> RawReference(fromSubmap), stamp |-> world.now, run |-> world.run,
                   est |-> IF graph.reference # {} THEN Matched(r) ELSE world.place,
                   epoch |-> Newest(graph) + 1,
                   drift |-> IF fromSubmap THEN r.drift ELSE Unknown]
    IN /\ job.step = "relocalize" /\ Newest(graph) < MaxEpoch
       /\ job' = Free
       /\ graph' = Applied(Committed(graph, anchor), anchor.epoch)
       /\ visual' = Shown(visual, world.now, world.run)
       /\ out' = Live(anchor, anchor.est, anchor.est, graph.applied)
       /\ UNCHANGED <<world, odom, frame, buffer, callback>>

(* resetGraph.                                                                *)
Fresh == [keyframe |-> {}, snapshot |-> {}, reference |-> {}, applied |-> 0]
HandleReset ==
  /\ job = Free /\ graph.keyframe # {} /\ world.troubles < MaxTroubles
  /\ graph' = Fresh /\ buffer' = <<>> /\ visual' = [visual EXCEPT !.last = -1]
  /\ callback' = {[c EXCEPT !.floor = 0] : c \in callback}
  /\ world' = [world EXCEPT !.troubles = @ + 1]
  /\ out' = Nothing
  /\ UNCHANGED <<odom, frame, job>>

-----------------------------------------------------------------------------
(* The car drives on; the odometry may lose a message or slip; a frame is taken. *)
CarState(w) == [stamp |-> w.now, raw |-> w.raw, place |-> w.place, run |-> w.run]
Sight(w) == [stamp |-> w.now, raw |-> w.raw, place |-> w.place, run |-> w.run,
             drift |-> Drift(w)]
Tick ==
  \E move \in Moves, slip, lost \in 0 .. 1 :
    LET w == [world EXCEPT !.now = @ + 1, !.place = @ + move, !.raw = @ + move - slip,
                           !.troubles = @ + slip]
    IN /\ odom = {} /\ callback = {}
       /\ world.now < MaxNow /\ slip <= move /\ w.troubles <= MaxTroubles
       /\ lost = 1 => buffer # <<>> /\ w.now - Last(buffer).stamp < MaxGap
       /\ \A f \in frame : f.run = world.run => world.now - f.stamp < Delay
       /\ world' = w
       /\ odom' = IF lost = 1 THEN {} ELSE {CarState(w)}
       /\ frame' \in {frame} \cup (IF frame = {} THEN {{Sight(w)}} ELSE {})
       /\ out' = Nothing
       /\ UNCHANGED <<buffer, graph, callback, job, visual>>
(* The simulator starts again: its clock and its car go back to the start.    *)
ClockRollsBack ==
  /\ odom = {} /\ callback = {} /\ world.now > Restart /\ world.troubles < MaxTroubles
  /\ world' = [now |-> Restart, place |-> 0, raw |-> 0, run |-> world.run + 1,
              troubles |-> world.troubles + 1]
  /\ odom' = {CarState(world')}
  /\ out' = Nothing
  /\ UNCHANGED <<frame, buffer, graph, callback, job, visual>>

OdometryInit ==
  /\ world = [now |-> 0, place |-> 0, raw |-> 0, run |-> 0, troubles |-> 0]
  /\ odom = {CarState(world)} /\ frame = {} /\ buffer = <<>>
  /\ graph = Fresh /\ callback = {} /\ job = Free
  /\ visual = [last |-> -1, run |-> 0] /\ out = Nothing
OdometryNext ==
  \/ StateCallback \/ FromSnapshot
  \/ TakeFrame \/ CheckSpan \/ PlaceFrame \/ Register \/ TimerBegins \/ Optimize
  \/ InitialPoseBegins \/ RelocalizeAt \/ HandleReset
  \/ Tick \/ ClockRollsBack

-----------------------------------------------------------------------------
(* A correction that an optimisation or a relocalisation has applied is never
   taken back from the live pose: every pose published by a callback that began
   after it carries it, whoever held the graph meanwhile (graph_slam_node.cpp:
   599-604, 2417-2453).  A submap match alone is not yet such a correction.   *)
LiveNeverReverts == \A live \in out.live : live.epoch >= live.floor

(* The cones of a frame are placed where the car was when it took them, not where
   it is when they arrive, and never by the odometry of before a clock rollback
   (1518-1537, 2287-2345).                                                    *)
PlacedWhereSeen ==
  \A p \in out.placed : p.taken.run = world.run => Abs(p.raw - p.taken.raw) <= Tolerance

(* While the odometry has not slipped since the graph was corrected, the live pose
   is the car's place: after a relocalisation by the submap too, whose points are
   of an earlier frame (868-885, 973-982).                                    *)
LiveIsTrue ==
  \A live \in out.live : live.drift = Drift(world) => Abs(live.est - live.place) <= Tolerance

(* A clock that goes back does not stop the map: a keyframe of after it goes unshown
   only within the interval of the last map, never until the clock has caught up
   with the stamps of before (2501-2535).                                     *)
MapShownAgain ==
  \A k \in graph.keyframe :
    k.run = world.run /\ visual.run # world.run =>
      k.stamp - visual.last \in 0 .. VisualInterval - 1

(* Why the first: the last keyframe and its snapshot carry the correction applied last,
   and a callback that waits began no later.  Why the last: a keyframe of this run was
   shown when it was made, or soon after the last map.                        *)
KeyframeTypes(keyframes) ==
  /\ \A j, k \in keyframes : j = k
  /\ \A k \in keyframes :
       /\ DOMAIN k = {"raw", "est", "stamp", "run", "epoch", "drift"}
       /\ k.stamp \in Int /\ k.run \in Int /\ k.epoch \in Nat
LiveInv ==
  /\ DOMAIN graph = {"keyframe", "snapshot", "reference", "applied"}
  /\ KeyframeTypes(graph.keyframe) /\ KeyframeTypes(graph.snapshot)
  /\ graph.applied \in Nat /\ (graph.keyframe = {} => graph.applied = 0)
  /\ \A k \in graph.keyframe \cup graph.snapshot : graph.applied <= k.epoch
  /\ \A c \in callback :
       DOMAIN c = {"m", "floor"} /\ c.floor \in Nat /\ c.floor <= graph.applied
  /\ DOMAIN world = {"now", "place", "raw", "run", "troubles"}
  /\ world.now \in Int /\ world.run \in Int
  /\ visual \in [last : Int, run : Int]
  /\ \A m \in odom : m.stamp \in Int /\ m.run \in Int /\ m.run <= world.run
  /\ \A k \in graph.keyframe : k.run <= world.run
  /\ LiveNeverReverts /\ MapShownAgain
=============================================================================
