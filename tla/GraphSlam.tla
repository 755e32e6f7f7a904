----------------------------- MODULE GraphSlam -----------------------------
(***************************************************************************)
(* The graph SLAM node (src/localization/src/graph_slam_node.cpp): it maps *)
(* cones along the first lap, closes the seam at the orange gate, freezes  *)
(* the map when the car is back at its origin, and localizes against the   *)
(* frozen map from then on.                                                *)
(*                                                                         *)
(* The track is a ring of Places with one cone at each; the cone at 0 is   *)
(* the orange gate.  A metric position is abstracted to an offset from the *)
(* true one: 0 is accurate, 1 is beyond the association radius of a fresh  *)
(* landmark but inside that of a lap-old one, 2 is beyond both and inside  *)
(* the window of the seam search.  One unit of travel is one place, and a  *)
(* keyframe is made at each.                                               *)
(***************************************************************************)
EXTENDS Integers, FiniteSets

CONSTANTS
  Places,        \* places on the ring; a lap is that many keyframes
  OriginTravel,  \* lap_origin_capture_distance
  StartMap,      \* the start-area map: founded within this much of the origin
  MinTravel,     \* lap_return_min_travel_m
  LoopGap,       \* loop_gap_distance
  DriftStale,    \* track_promote_hold_drift_stale
  PromoteHits,   \* track_promote_min_hits
  RepairHits,    \* loc_map_repair_min_hits, and track_promote_far_min_hits
  MissBudget,    \* landmark_delete_misses, loc_map_repair_delete_misses
  ReturnsToFreeze, \* lap_returns_to_freeze
  MaxTravel,     \* bound: places driven before the operator's first call
  CallTravel,    \* bound: places driven after a call
  MaxSlip,       \* bound: slips of the odometry
  MaxCalls,      \* bound: service calls and pose estimates of the operator
  RateLimited    \* whether optimize_min_interval can hold back a solve

ASSUME SlamAssumption ==
  /\ {Places, OriginTravel, StartMap, MinTravel, LoopGap, DriftStale} \subseteq Nat \ {0}
  /\ {PromoteHits, RepairHits, MissBudget, ReturnsToFreeze} \subseteq Nat \ {0}
  /\ {MaxTravel, CallTravel, MaxSlip, MaxCalls} \subseteq Nat
  /\ RateLimited \in BOOLEAN

VARIABLES
  car,    \* [at: true place, slips, calls: bounds spent, seen: places driven]
  slam    \* the node's state under graph_mutex_

vars == <<car, slam>>

Gate == 0
Ring == 0 .. Places - 1
Offsets == 0 .. 2
None == -1

Landmark == [cone : Ring, off : Offsets, first : 0 .. MaxTravel,
             last : 0 .. MaxTravel, misses : 0 .. MissBudget]
Track == [cone : Ring, off : Offsets, hits : 1 .. RepairHits, near : BOOLEAN]
Promotion == [cone : Ring, off : Offsets, hits : 1 .. RepairHits]

\* Members of the class that resetGraph leaves alone.
Kept == {"loc", "returns", "window"}

Fresh(s) ==
  [loc |-> s.loc, returns |-> s.returns, window |-> s.window,
   posed |-> FALSE, drift |-> 0, travelled |-> 0,
   landmarks |-> {}, tracks |-> {}, deferred |-> {},
   origin |-> None, originAt |-> 0,
   loops |-> 0, seam |-> None, settled |-> FALSE,
   due |-> FALSE, edged |-> FALSE, csmAt |-> None,
   ready |-> FALSE, converged |-> FALSE]

SlamInit ==
  /\ car = [at |-> 0, slips |-> 0, calls |-> 0, seen |-> {}]
  /\ slam = Fresh([loc |-> FALSE, returns |-> 0, window |-> FALSE])

-----------------------------------------------------------------------------
(* Promotion of tentative tracks into the map                               *)

Unseen(s, l) == IF s.travelled > l.last THEN s.travelled - l.last ELSE 0

\* Twin suppression, and the position re-derived from the keyframes: it is
\* the corrected one once the optimizer has dragged them.
Rederived(s, p) == IF s.settled THEN [p EXCEPT !.off = s.seam] ELSE p

AddLandmarks(s, ps) ==
  [s EXCEPT !.landmarks = @ \cup
     {[cone |-> p.cone, off |-> p.off, first |-> s.travelled,
       last |-> s.travelled, misses |-> 0] : p \in ps}]

Twin(s, p) == \E l \in s.landmarks : l.cone = p.cone /\ l.off = p.off

Registered(s, p) == IF Twin(s, p) THEN s ELSE AddLandmarks(s, {p})

\* At most one promotion is parked per cone and offset, so the order of the
\* flush does not matter.
Flushed(s) ==
  LET landed == {Rederived(s, p) : p \in s.deferred}
  IN [AddLandmarks(s, {p \in landed : ~Twin(s, p)}) EXCEPT !.deferred = {}]

\* The seam is armed and not applied.
SeamPending(s) ==
  /\ ~s.loc
  /\ s.origin # None
  /\ s.loops = 0
  /\ s.travelled - s.originAt >= MinTravel

\* Within the seam search's window of a start-area landmark: the same cone or
\* the one before it.
NearStartMap(s, p) ==
  \E l \in s.landmarks : /\ l.cone \in {p.cone, (p.cone + 1) % Places}
                         /\ l.first <= s.originAt + StartMap

\* A bug of this shape: a promotion beside the start-area map is registered
\* at the drifted pose although the seam is not closed yet.
PromotedAtOnce(s, p) ==
  IF s.loc /\ p.hits < RepairHits THEN s ELSE Registered(s, p)

Promoted(s, p) ==
  IF s.loc /\ p.hits < RepairHits
  THEN s
  ELSE IF SeamPending(s) /\ NearStartMap(s, p)
       THEN [s EXCEPT !.deferred = @ \cup {p}]
       ELSE Registered(s, p)

-----------------------------------------------------------------------------
(* The end of the mapping lap                                               *)

\* A bug of this shape: the freeze forgets the parked promotions.
LocalizationUnflushed(s) ==
  [s EXCEPT !.tracks = {}, !.loc = TRUE, !.deferred = {},
            !.landmarks = {[l EXCEPT !.misses = 0] : l \in @}]

EnterLocalizationMode(s) ==
  LET f == Flushed(s)
  IN [f EXCEPT !.tracks = {}, !.loc = TRUE,
               !.landmarks = {[l EXCEPT !.misses = 0] : l \in @}]

\* A bug of this shape: coming back to the origin is taken for a closed lap.
MaybeFinishByGeometry(s, back) ==
  IF s.origin = None \/ s.landmarks = {} \/ s.travelled - s.originAt < MinTravel
  THEN s
  ELSE IF ~back THEN [s EXCEPT !.window = FALSE]
  ELSE EnterLocalizationMode([s EXCEPT !.window = TRUE])

MaybeFinishMappingLap(s, back) ==
  IF s.origin = None \/ s.landmarks = {} \/ s.travelled - s.originAt < MinTravel
  THEN s
  ELSE IF ~back THEN [s EXCEPT !.window = FALSE]
  ELSE IF s.loops = 0 THEN s
  ELSE LET n == IF s.window \/ s.returns = ReturnsToFreeze
                THEN s.returns ELSE s.returns + 1
           r == [s EXCEPT !.window = TRUE, !.returns = n]
       IN IF n < ReturnsToFreeze THEN r ELSE EnterLocalizationMode(r)

-----------------------------------------------------------------------------
(* Motion                                                                   *)

AddInitialPose ==
  /\ ~slam.posed
  /\ slam' = [slam EXCEPT !.posed = TRUE, !.travelled = 0, !.origin = None,
                          !.drift = 0]
  /\ car' = [car EXCEPT !.seen = {car.at}]

\* Odometry may slip between two places: while mapping only past the
\* start-area map, over which it is accurate, and until the seam is closed.
Slips ==
  IF /\ car.slips < MaxSlip /\ slam.drift < 2
     /\ \/ slam.loc
        \/ /\ slam.loops = 0 /\ slam.origin # None
           /\ slam.travelled - slam.originAt >= StartMap
  THEN 0 .. 2 - slam.drift ELSE {0}

\* The estimate is within the radius and yaw of the origin: at the origin's
\* place when the drift is smaller than the radius, and anywhere else only
\* because a drifted estimate happens to wander through it.
Returns(s, at) ==
  IF at = s.origin /\ s.drift < 2 THEN {TRUE}
  ELSE IF s.drift > 0 THEN BOOLEAN ELSE {FALSE}

\* A keyframe on distance (step = 1), or on yaw or time at the same place; the
\* latter only once a frame came in since the last one (a bound).
AddKeyframe(step, slip) ==
  /\ slam.posed
  /\ step = 1 \/ slam.edged
  /\ slam.travelled + step <= (IF car.calls = 0 THEN MaxTravel ELSE CallTravel)
  /\ LET at == (car.at + step) % Places
         moved == [slam EXCEPT !.travelled = @ + step, !.drift = @ + slip,
                               !.due = TRUE, !.edged = FALSE]
         known == IF ~slam.loc /\ slam.origin = None /\ moved.travelled >= OriginTravel
                  THEN [moved EXCEPT !.origin = at, !.originAt = moved.travelled]
                  ELSE moved
     IN /\ car' = [car EXCEPT !.at = at, !.slips = IF slip > 0 THEN @ + 1 ELSE @,
                             !.seen = @ \cup {at}]
        /\ IF slam.loc THEN slam' = known
           ELSE \E back \in Returns(known, at) :
                  slam' = MaybeFinishMappingLap(known, back)

-----------------------------------------------------------------------------
(* A frame of cones                                                         *)

\* The gate as the start-area map has it, once a lap's worth was driven.
SeamTargets(s, seen) ==
  {l \in s.landmarks : /\ ~s.loc
                       /\ seen = {Gate}
                       /\ s.origin # None
                       /\ s.travelled - s.originAt >= MinTravel
                       /\ s.loops < 3
                       /\ l.cone = Gate /\ l.first <= s.originAt + StartMap}

\* In mapping only the gate of the start-area map is matched, which closes
\* the seam; after the freeze any cone of the map.
CsmTargets(s, seen) ==
  IF SeamTargets(s, seen) # {} THEN SeamTargets(s, seen)
  ELSE {l \in s.landmarks : s.loc /\ l.cone \in seen}

CsmAttempted(s, seen) ==
  /\ ~s.edged /\ seen # {}
  /\ s.csmAt = None \/ s.travelled - s.csmAt >= 1

\* An accepted match moves the pose to where the map has the cones in view.
\* One that finds the pose in place already certifies the seam all the same.
CsmApplied(s, seen) ==
  LET pose == (CHOOSE l \in CsmTargets(s, seen) : TRUE).off
      loop == SeamTargets(s, seen) # {}
      certified == IF loop THEN [s EXCEPT !.loops = @ + 1, !.seam = pose] ELSE s
  IN IF pose = s.drift THEN certified
     ELSE [certified EXCEPT !.drift = pose, !.tracks = {}, !.due = loop \/ @]

\* locks: the constellation's response, sharpness and margin are accepted.
MaybeCsmRegister(s, seen, locks) ==
  IF ~CsmAttempted(s, seen) THEN s
  ELSE LET tried == [s EXCEPT !.csmAt = s.travelled]
       IN IF locks /\ CsmTargets(s, seen) # {} THEN CsmApplied(tried, seen) ELSE tried

\* Landmarks that explain the observed cone: exactly, or, when lap-old, from
\* within the inflated gate.
Matches(s, c, loose) ==
  LET exact == {l \in s.landmarks : l.cone = c /\ l.off = s.drift}
      wide == {l \in s.landmarks : /\ l.cone = c
                                   /\ Unseen(s, l) >= DriftStale
                                   /\ l.off - s.drift \in {-1, 1}}
  IN IF exact # {} THEN exact ELSE IF loose THEN wide ELSE {}

\* A stale re-association before the gate certified the seam is dropped.
Dropped(s, l) ==
  ~s.edged /\ Unseen(s, l) >= LoopGap /\ ~s.loc /\ s.loops = 0

\* Any other one is an edge; a stale one asks for a solve at once.
Confirmed(s, l) ==
  [s EXCEPT !.landmarks = (@ \ {l}) \cup {[l EXCEPT !.last = s.travelled]},
            !.ready = @ \/ (~s.edged /\ Unseen(s, l) >= LoopGap)]

\* A track is held back while a stale landmark sits within the hold radius,
\* which the drift of a lap widens.
Held(s, t) ==
  \E l \in s.landmarks :
    /\ l.cone = t.cone
    /\ Unseen(s, l) >= 1
    /\ \/ l.off = t.off
       \/ Unseen(s, l) >= DriftStale /\ l.off - t.off \in {-1, 1}

Promotable(t) == t.hits >= RepairHits \/ (t.near /\ t.hits >= PromoteHits)

\* An unmatched observation updates its track, or founds one.
Hit(s, c, near) ==
  LET old == {t \in s.tracks : t.cone = c /\ t.off = s.drift}
      new == IF old = {}
             THEN [cone |-> c, off |-> s.drift, hits |-> 1, near |-> near]
             ELSE LET t == CHOOSE t \in old : TRUE
                  IN [t EXCEPT !.hits = IF @ < RepairHits THEN @ + 1 ELSE @,
                               !.near = @ \/ near]
  IN IF Promotable(new) /\ ~Held(s, new)
     THEN Promoted([s EXCEPT !.tracks = @ \ old],
                   [cone |-> c, off |-> new.off, hits |-> new.hits])
     ELSE [s EXCEPT !.tracks = (@ \ old) \cup {new}]

\* Landmarks in the reliable envelope that this keyframe's first frame did
\* not use count a miss; the gate is never deleted.
Reaped(s, at, used) ==
  LET missed == {l \in s.landmarks : /\ l.cone = at
                                     /\ l.cone # Gate
                                     /\ <<l.cone, l.off>> \notin used}
      hit == {l \in s.landmarks : <<l.cone, l.off>> \in used}
  IN [s EXCEPT !.landmarks =
        (@ \ (missed \cup hit))
        \cup {[l EXCEPT !.misses = 0] : l \in hit}
        \cup {[l EXCEPT !.misses = @ + 1] :
                l \in {l \in missed : l.misses + 1 < MissBudget}}]

\* Runs the solver: once the seam is an edge of the graph, the lap's drift
\* is spread over it, and map and keyframes come out straight.
Optimized(s) ==
  [s EXCEPT !.due = FALSE,
            !.settled = s.loops > 0 \/ @,
            !.landmarks = IF s.loops > 0 /\ ~s.loc
                          THEN {[l EXCEPT !.off = s.seam] : l \in @} ELSE @,
            !.ready = @ /\ s.converged,
            !.converged = @ \/ s.ready]

MaybeOptimize(s) == IF s.due THEN Optimized(s) ELSE s

\* The state after a frame, and whether it added edges to the graph.
AddConeObservations(s, at, seen, near, locks, loose) ==
  LET reg == MaybeCsmRegister(s, seen, locks)
      matched == UNION {Matches(reg, c, loose) : c \in seen}
      kept == {l \in matched : ~Dropped(reg, l)}
      confirmed == IF kept = {} THEN reg
                   ELSE Confirmed(reg, CHOOSE l \in kept : TRUE)
      flushed == IF ~SeamPending(confirmed) /\ ~s.loc /\ ~confirmed.due
                 THEN Flushed(confirmed) ELSE confirmed
      grown == IF matched = {} /\ seen # {}
               THEN Hit(flushed, CHOOSE c \in seen : TRUE, near)
               ELSE flushed
      born == IF matched = {} THEN grown.landmarks \ flushed.landmarks ELSE {}
      used == {<<l.cone, l.off>> : l \in born \cup kept}
  IN [state |-> IF s.edged THEN grown ELSE Reaped(grown, at, used),
      edges |-> born # {} \/ (~s.edged /\ kept # {})]

\* limited: the solver ran less than optimize_min_interval ago.
ConesCallback(seen, near, locks, loose, limited) ==
  /\ slam.posed
  /\ LET u == AddConeObservations(slam, car.at, seen, near, locks, loose)
     IN slam' = [(IF u.edges /\ ~limited THEN MaybeOptimize(u.state) ELSE u.state)
                   EXCEPT !.edged = TRUE]
  /\ UNCHANGED car

OnOptimizeTimer ==
  /\ slam.posed /\ slam.due
  /\ slam' = MaybeOptimize(slam)
  /\ UNCHANGED car

-----------------------------------------------------------------------------
(* The operator                                                             *)

\* Bounds: the operator calls once the map is frozen, and MaxCalls times.
Call == slam.loc /\ car.calls < MaxCalls /\ car' = [car EXCEPT !.calls = @ + 1, !.seen = {}]

\* Relocalization drops the trajectory and keeps the map; the registration's
\* own odometer and the parked promotions are left as they are.
InitialPose ==
  /\ slam.posed
  /\ Call
  /\ slam' = [slam EXCEPT !.drift = 0, !.travelled = 0, !.origin = None,
                          !.due = FALSE, !.edged = FALSE]

HandleReset == Call /\ slam' = Fresh(slam)

HandleStartMapping == Call /\ slam' = [Fresh(slam) EXCEPT !.loc = FALSE]

HandleLoadMap(ok) ==
  /\ Call
  /\ slam' = [Fresh(slam) EXCEPT
                !.loc = ok,
                !.landmarks = IF ok THEN [cone : Ring, off : {0}, first : {0},
                                          last : {0}, misses : {0}] ELSE {}]

\* Whether this frame can depend on the registration, on the inflated gate, on the range
\* of the cone, and, without a cone, on the keyframe it comes at.
MayLock == CsmAttempted(slam, {car.at}) /\ CsmTargets(slam, {car.at}) # {}
MayStretch == \E l \in slam.landmarks : l.cone = car.at /\ Unseen(slam, l) >= DriftStale
MayFound == \A l \in slam.landmarks : l.cone = car.at => l.off # slam.drift
MayMiss == ~(slam.edged /\ slam.deferred = {})

SlamNext ==
  \/ AddInitialPose
  \/ AddKeyframe(0, 0)
  \/ \E slip \in Slips : AddKeyframe(1, slip)
  \/ MayMiss /\ ConesCallback({}, TRUE, FALSE, FALSE, FALSE)
  \/ \E locks \in IF MayLock THEN BOOLEAN ELSE {FALSE},
        near \in IF slam.loc /\ MayFound THEN BOOLEAN ELSE {TRUE},
        loose \in IF MayStretch THEN BOOLEAN ELSE {FALSE},
        limited \in IF RateLimited THEN BOOLEAN ELSE {FALSE} :
       ConesCallback({car.at}, near, locks, loose, limited)
  \/ OnOptimizeTimer
  \/ InitialPose
  \/ HandleReset
  \/ HandleStartMapping
  \/ \E ok \in BOOLEAN : HandleLoadMap(ok)

\* What publishStatus says; the planners act on it.
Status(s) == IF s.loc THEN "localization"
             ELSE IF s.converged THEN "mapping_converged" ELSE "mapping"

SlamSpec == SlamInit /\ [][SlamNext]_vars

-----------------------------------------------------------------------------
SlamTypeOK ==
  /\ car \in [at : Ring, slips : 0 .. MaxSlip, calls : 0 .. MaxCalls,
              seen : SUBSET Ring]
  /\ slam \in [loc : BOOLEAN, returns : 0 .. ReturnsToFreeze, window : BOOLEAN,
               posed : BOOLEAN, drift : Offsets, travelled : 0 .. MaxTravel,
               landmarks : SUBSET Landmark, tracks : SUBSET Track,
               deferred : SUBSET Promotion, origin : Ring \cup {None},
               originAt : 0 .. MaxTravel, loops : 0 .. 3, seam : Offsets \cup {None},
               settled : BOOLEAN, due : BOOLEAN, edged : BOOLEAN, csmAt : Nat \cup {None},
               ready : BOOLEAN, converged : BOOLEAN]

\* A service call or a pose estimate, and not the car driving or seeing.
Called == car'.calls # car.calls

\* Mapping ends by itself only when the run has driven past every place: a
\* drifted estimate that brushes the origin half way round freezes no half
\* map (maybeFinishMappingLap).
HalfMapNeverFrozen ==
  [][Status(slam) # "localization" /\ Status(slam') = "localization" /\ ~Called
       => car'.seen = Ring]_vars

\* No promotion parked across the seam is lost: when the parked ones are
\* taken out, each of their cones is in the map (flushDeferredPromotions,
\* enterLocalizationMode).
DeferredLand ==
  [][slam.deferred # {} /\ slam'.deferred = {} /\ ~Called =>
       \A p \in slam.deferred : \E l \in slam'.landmarks : l.cone = p.cone]_vars

\* The mapping run, and the freeze that ends it, leave every cone of the
\* start-area map in the map once, whatever drift the car comes back with
\* (addConeObservations' deferral, registerPromotion's twin suppression).
StartMapNotDoubled ==
  [][~slam.loc /\ slam'.origin # None /\ ~Called =>
       \A l, m \in slam'.landmarks :
         l.cone = m.cone /\ l.first <= slam'.originAt + StartMap => l = m]_vars

=============================================================================
