----------------------------- MODULE SeamMatch -----------------------------
(* maybeCsmRegister of graph_slam_node.cpp: the correlative registration of one
   keyframe, which closes the seam of the lap at the orange gate and tracks the
   frozen map after it.  GraphSlam takes its verdicts as given; here they are
   worked out from the cones.  The road is one axis, in cells of the grid, and
   the travel is counted in steps of the car around a lap of Lap of them.     *)
EXTENDS Integers, FiniteSets, FiniteSetsExt, Sequences, SequencesExt

CONSTANTS Factor,        \* coarse_factor: fine cells in a coarse one
          Reach,         \* three smear_sigma: fine cells a cone is stamped over
          Dilate,        \* coarse cells around content that count as covered
          CoarseMin,     \* coarse_response_min
          FineMin,       \* fine_response_min
          Notch,         \* how far below the best bound a candidate may be
          OrangeWeight   \* orange_weight

CONSTANTS Gate, Blues, Yellows,  \* where the cones of the start area stand
          Late,                  \* where orange cones stand later in the lap
          Lap,                   \* steps in a lap; Late is seen in the middle
          Margin,               \* what a target may be off the window by
          ReturnTravel,          \* lap_return_min_travel_m
          StartArea,             \* 30 m: what was founded by then is a target
          MinPoints,             \* csm_min_query_points
          Span, Dedup, DedupOrange, \* submap: span_m and the dedup radii
          LoopWindow, TrackWindow,  \* csm_loop_window_m, csm_track_window_m
          MinOrangeSpan, OrangeResponse, LoopResponse, \* csm_loop_min_...
          PeakMargin,            \* csm_peak_margin
          Cooldown,              \* csm_apply_cooldown_m, in steps
          Slips,                 \* drift of the odometry in a step
          Missed,                \* how many cones of the gate a frame may miss
          MaxTravel              \* bound of the run

-----------------------------------------------------------------------------
(* correlation_grid.hpp: correlative matching of a constellation of cones with
   the map.  The grid has one axis and the heading is known, so a hypothesis is
   a shift, in fine cells of five centimetres; a response is in thousandths, as
   if every cone lay in the middle of its cell.  Shift 0 is the seed of the
   window, and a coarse block begins there, as the code's does.

   The spread of the responses around the peak is left out: it is of shifts at
   most one coarse cell away, half a metre, and csm_max_sigma_xy is 1.2 metres,
   csm_max_sigma_theta above one coarse step: no match is refused for it.     *)

(* exp(-n/32), which is the smear n squared cells away, since its sigma is four
   cells: between the values at every eighth n.                               *)
Decays ==
  <<1000, 779, 607, 472, 368, 287, 223, 174, 135, 105, 82, 64, 50, 39, 30,
    24, 18, 14, 11, 9, 7, 5, 4, 3, 2, 2, 2, 1, 1>>
Decay(n) ==
  LET k == n \div 8 + 1 IN Decays[k] - ((Decays[k] - Decays[k + 1]) * (n % 8)) \div 8
Unmatched == 221                                        \* kEps = exp(-221/32)

Distance(a, b) == IF a < b THEN b - a ELSE a - b
Block(cell) == cell \div Factor

(* layerOf: a cone of unknown colour is stamped into every layer, and one that
   is asked for takes the best of them.                                       *)
Unknown == "unknown"
SameLayer(a, b) == Unknown \in {a, b} \/ a = b

(* From the nearest target in the layer: to the fine cell (fineAt), and to the
   nearest fine cell of its block, since a coarse cell holds the most of its
   block (coarseAt).                                                          *)
FineGap(targets, color, cell) ==
  {Distance(t.at, cell) : t \in {t \in targets : SameLayer(color, t.color)}}
CoarseGap(targets, color, cell) ==
  {Max({0, Block(cell) * Factor - t.at, t.at - (Block(cell) * Factor + Factor - 1)}) :
     t \in {t \in targets : SameLayer(color, t.color)}}
Gaps(targets, color, cell, coarse) ==
  {d \in IF coarse THEN CoarseGap(targets, color, cell)
                   ELSE FineGap(targets, color, cell) : d <= Reach}

Squared(n) == n * n
Cost(gaps) == IF gaps = {} THEN Unmatched ELSE Squared(Min(gaps))
Stamp(gaps) == IF gaps = {} THEN 0 ELSE Decay(Squared(Min(gaps)))

(* inCoverage: a block of the map within reach holds more than 0.05.           *)
InCoverage(targets, cell) ==
  \E t \in targets : /\ Block(t.at + 9) >= Block(cell) - Dilate
                     /\ Block(t.at - 9) <= Block(cell) + Dilate

Weight(p) == IF p.color = "orange" THEN OrangeWeight ELSE 1
Total(f(_), points) == MapThenSumSet(f, points)

(* coveredResponse: over the points the map could have seen; or, for the gate,
   the geometric mean over all of them.                                       *)
MeanResponse(targets, query, shift, coarse, minPoints) ==
  LET Term(p) == Weight(p) * Stamp(Gaps(targets, p.color, p.at + shift, coarse))
      Mean(covered) == IF Cardinality(covered) < minPoints THEN 0
                       ELSE Total(Term, covered) \div Total(Weight, covered)
  IN Mean({p \in query : InCoverage(targets, p.at + shift)})
JointResponse(targets, query, shift, coarse, minPoints) ==
  LET Term(p) == Cost(Gaps(targets, p.color, p.at + shift, coarse))
  IN IF Cardinality(query) < minPoints THEN 0
     ELSE Decay(Total(Term, query) \div Cardinality(query))
Response(g, query, shift, coarse) ==
  IF g.joint THEN JointResponse(g.targets, query, shift, coarse, g.minPoints)
             ELSE MeanResponse(g.targets, query, shift, coarse, g.minPoints)

NoMatch == [valid |-> FALSE, shift |-> 0, response |-> 0, second |-> 0, other |-> 0]

(* match: a coarse pass over the window, one hypothesis for each coarse cell,
   then a fine pass around those within a notch of the best bound; the first of
   equal hypotheses wins.  The second peak is the best outside the basin.     *)
Scored(g, query, shifts, coarse) ==
  {[shift |-> s, response |-> Response(g, query, s, coarse)] : s \in shifts}
Top(scored) == Max({h.response : h \in scored})
Peak(scored) ==
  LET best == Top(scored)
      top == {h \in scored : h.response = best}
  IN CHOOSE h \in top : \A other \in top : h.shift <= other.shift
Around(best, scored) ==
  UNION {h.shift - Factor \div 2 .. h.shift + Factor \div 2 :
           h \in {h \in scored : h.response >= best - Notch}}
Answer(peak, second) ==
  [valid |-> TRUE, shift |-> peak.shift, response |-> peak.response,
   second |-> second.response, other |-> second.shift]
WithPeak(fine, peak) ==
  LET outside == {h \in fine : Distance(h.shift, peak.shift) > Factor /\ h.response > 0}
  IN IF peak.response <= FineMin THEN NoMatch
     ELSE Answer(peak, IF outside = {} THEN [shift |-> 0, response |-> 0] ELSE Peak(outside))
Peaked(fine) == WithPeak(fine, Peak(fine))
FineMatch(g, query, candidates) ==
  IF candidates = {} THEN NoMatch
  ELSE Peaked(Scored(g, query, Around(Top(candidates), candidates), FALSE))
Match(g, query, seed, window) ==
  LET range == Max({1, (window + Factor - 1) \div Factor})
      bounds == Scored(g, query, {seed + k * Factor : k \in -range .. range}, TRUE)
  IN IF Cardinality(query) < g.minPoints \/ Cardinality(g.targets) < g.minPoints THEN NoMatch
     ELSE FineMatch(g, query, {h \in bounds : h.response >= CoarseMin})

-----------------------------------------------------------------------------
(* The registration of a keyframe, and the drive around the lap.              *)
VARIABLES car,   \* [travel, slip]: its way, and the error of raw odometry
          est,   \* [fix]: what registrations have added to the estimate
          map,   \* landmarks: [at, color, seen]
          frames, \* the submap: a sequence of [slip, points, travel]
          csm,   \* [last, applied, gate]: csm_loop_applied_, and the last
                 \* attempt: whether the gate locked
          frozen \* localization_mode_
seamVars == <<car, est, map, frames, csm, frozen>>

Cone(at, color) == [at |-> at, color |-> color]
Cones(place) ==
  CASE place = 0 -> {Cone(x, "orange") : x \in Gate} \cup
                    {Cone(x, "blue") : x \in Blues} \cup {Cone(x, "yellow") : x \in Yellows}
    [] place = 1 -> {Cone(x, "yellow") : x \in Yellows}
    [] place = Lap \div 2 -> {Cone(x, "orange") : x \in Late}
    [] place = Lap - 1 ->
         {Cone(x, "orange") : x \in {x \in Gate : x < Max(Gate) - MinOrangeSpan}} \cup
         {Cone(x, "blue") : x \in Blues}
    [] OTHER -> {}
Where(place) == IF place = Lap \div 2 THEN Min(Late) ELSE 0

OrangeOf(points) == {p \in points : p.color = "orange"}

Drift == car.slip + est.fix
Shifted(p, by) == [p EXCEPT !.at = @ + by]

(* addFrame: what is further back than the span is let go.                     *)
Framed(points, slip, travel) ==
  IF points = {} THEN frames
  ELSE SelectSeq(Append(frames, [slip |-> slip, points |-> points, travel |-> travel]),
                 LAMBDA f : travel - f.travel <= Span)

(* pointsInFrame: every frame in the body of the newest, by raw odometry;
   sightings of one colour within a radius become one, at their mean.         *)
Radius(color) == IF color = "orange" THEN DedupOrange ELSE Dedup
Joined(clusters, q) ==
  LET near == {i \in DOMAIN clusters :
                 /\ clusters[i].color = q.color
                 /\ Distance(clusters[i].sum \div clusters[i].n, q.at) <= Radius(q.color)}
  IN IF near = {} THEN Append(clusters, [color |-> q.color, sum |-> q.at, n |-> 1])
     ELSE [clusters EXCEPT ![Min(near)].sum = @ + q.at, ![Min(near)].n = @ + 1]
PointsInFrame(fs, slip) ==
  LET InBody(f) == {Shifted(p, f.slip - slip) : p \in f.points}
      AddFrame(clusters, f) ==
        FoldSet(LAMBDA q, acc : Joined(acc, q), clusters, InBody(f))
  IN {Cone(c.sum \div c.n, c.color) : c \in ToSet(FoldLeft(AddFrame, <<>>, fs))}

(* buildMatchPoints: the submap, or this frame alone while that is too small.  *)
Enough(points, fs) ==
  IF Cardinality(points) >= MinPoints \/ fs = <<>> THEN points ELSE Last(fs).points
BuildMatchPoints(fs, slip) == Enough(PointsInFrame(fs, slip), fs)

(* A bug of this shape: the trail just driven is matched against as well.      *)
LandmarkMatchTargetsOfAnyAge(centre, radius, latest) ==
  {Cone(l.at, l.color) : l \in {l \in map : Distance(l.at, centre) <= radius + Margin}}
(* landmarkMatchTargets: landmarks in reach, founded early enough.             *)
LandmarkMatchTargets(centre, radius, latest) ==
  {Cone(l.at, l.color) :
     l \in {l \in map : l.seen <= latest /\ Distance(l.at, centre) <= radius + Margin}}

(* Both sides of the gate are in view: its cones span enough.                  *)
GateInView(points) ==
  \E p, q \in OrangeOf(points) : Distance(p.at, q.at) >= MinOrangeSpan

Grid(targets) == [targets |-> targets, joint |-> FALSE, minPoints |-> MinPoints]
(* The gate is scored over all of its points, with no exemption.              *)
GateGrid(targets, orange) ==
  [targets |-> targets, joint |-> TRUE, minPoints |-> Min({3, Cardinality(orange)})]
LayerResponse(targets, orange, shift) ==
  MapThenSumSet(LAMBDA p : Stamp(Gaps(targets, p.color, p.at + shift, FALSE)), orange)
    \div Cardinality(orange)

GateMatch(targets, points) ==
  Match(GateGrid(targets, OrangeOf(points)), OrangeOf(points), 0, LoopWindow)
GateLocks(match) == match.valid /\ match.response >= OrangeResponse

(* The corridors choose among the hypotheses the gate allows: the first of the
   best that a refinement of at most a metre leaves on the gate.              *)
OnGate(refined, targets, points) ==
  refined.valid /\ LayerResponse(targets, OrangeOf(points), refined.shift) >= OrangeResponse
BetterOf(best, refined, targets, points) ==
  IF refined.response > best.response /\ OnGate(refined, targets, points) THEN refined ELSE best
OrGate(best, gate) == IF best.valid THEN best ELSE gate
Refined(targets, points, gate) ==
  LET hypotheses == <<gate.shift>> \o
        (IF gate.second >= OrangeResponse THEN <<gate.other>> ELSE <<>>)
      Better(best, h) == BetterOf(best, Match(Grid(targets), points, h, 20), targets, points)
  IN OrGate(FoldLeft(Better, NoMatch, hypotheses), gate)

(* One attempt: the mode, whether the gate locked, and the match that passed.
   Points are taken in the body of the car at the place where it is, targets in
   the frame of the estimate, so the seed is a shift of zero.                 *)
Nothing == [mode |-> "none", locked |-> FALSE, match |-> NoMatch]
Loop(gate, start, points) ==
  LET Passing(match) == IF match.response >= LoopResponse THEN match ELSE NoMatch
  IN IF ~GateLocks(gate) THEN Nothing
     ELSE [mode |-> "loop", locked |-> TRUE, match |-> Passing(Refined(start, points, gate))]
Tracking(match) ==
  [mode |-> "tracking", locked |-> FALSE,
   match |-> IF match.response - match.second >= PeakMargin THEN match ELSE NoMatch]
Tried(points, start, whole) ==
  IF /\ ~frozen
     /\ GateInView(points)
     /\ car'.travel >= ReturnTravel
     /\ csm.applied < 3
     /\ Cardinality(start) >= MinPoints
  THEN Loop(GateMatch(start, points), start, points)
  ELSE IF frozen /\ Cardinality(whole) >= MinPoints
  THEN Tracking(Match(Grid(whole), points, 0, TrackWindow))
  ELSE Nothing
Attempt(seen, where) ==
  LET centre == where + car'.slip + est.fix
      InMap(ts) == {Shifted(t, -centre) : t \in ts}
  IN Tried({Shifted(p, -where) : p \in seen},
           InMap(LandmarkMatchTargets(centre, LoopWindow, StartArea)),
           InMap(LandmarkMatchTargets(centre, TrackWindow, MaxTravel)))

(* What passed moves the estimate, or confirms a seam that is in place.  An
   apply holds the next attempt off for the cooldown.                         *)
Applied(attempt) ==
  LET match == attempt.match
      inPlace == Distance(match.shift, 0) < 3
      counted == IF match.valid /\ attempt.mode = "loop" THEN 1 ELSE 0
  IN /\ est' = [fix |-> est.fix + IF match.valid /\ ~inPlace THEN match.shift ELSE 0]
     /\ csm' = [last |-> car'.travel + IF match.valid /\ ~inPlace THEN Cooldown ELSE 0,
                applied |-> csm.applied + counted,
                gate |-> attempt.locked]

MaybeCsmRegister(points, where) ==
  IF \/ car'.travel - csm.last < 1
     \/ Cardinality(points) < MinPoints
  THEN /\ est' = est /\ csm' = [csm EXCEPT !.gate = FALSE]
  ELSE Applied(Attempt(points, where))

(* Cones in no landmark's reach are founded; near the start area they wait for
   the seam (GraphSlam), and a frozen map is not added to.                    *)
Founded(seen, drift) ==
  IF frozen \/ car'.travel >= ReturnTravel THEN map
  ELSE map \cup {[at |-> c.at + drift, color |-> c.color, seen |-> car'.travel] :
                   c \in {c \in seen : ~\E l \in map : /\ SameLayer(l.color, c.color)
                                                       /\ Distance(l.at, c.at + drift) < 20}}

(* The lap begins at the gate; the cones beyond it are founded a step on.      *)
SeamInit ==
  /\ car = [travel |-> 0, slip |-> 0]
  /\ est = [fix |-> 0]
  /\ map = {[at |-> c.at, color |-> c.color, seen |-> 0] :
              c \in {c \in Cones(0) : c.color # "yellow"}}
  /\ frames = <<[slip |-> 0, points |-> Cones(0), travel |-> 0]>>
  /\ csm = [last |-> 0, applied |-> 0, gate |-> FALSE]
  /\ frozen = FALSE

(* One step of the car: it slips, and a frame of what it sees is registered
   before its cones are associated.                                           *)
Drive(slip) ==
  /\ car.travel < MaxTravel
  /\ car' = [travel |-> car.travel + 1, slip |-> car.slip + slip]
  /\ \E seen \in SUBSET Cones(car'.travel % Lap) :
       /\ \/ seen = Cones(car'.travel % Lap)
          \/ /\ car'.travel % Lap = 0
             /\ Cones(0) \ seen \in kSubset(Missed, OrangeOf(Cones(0)))
       /\ frames' = Framed(seen, car'.slip, car'.travel)
       /\ IF seen = {} THEN est' = est /\ csm' = [csm EXCEPT !.gate = FALSE]
          ELSE MaybeCsmRegister(BuildMatchPoints(frames', car'.slip),
                                Where(car'.travel % Lap))
       /\ map' = Founded(seen, car'.slip + est'.fix)
  /\ UNCHANGED frozen

(* The map is frozen when a lap has ended with the seam registered.            *)
Freeze ==
  /\ ~frozen /\ csm.applied > 0
  /\ frozen' = TRUE
  /\ UNCHANGED <<car, est, map, frames, csm>>

SeamNext == Freeze \/ \E slip \in Slips : Drive(slip)
SeamSpec == SeamInit /\ [][SeamNext]_seamVars

(* A seam is certified only by the gate the lap began at, never by cones founded
   on the way: when the count goes up a lap has been driven and that gate is in
   the trail, and the estimate is then right to within a coarse cell, however
   the odometry had drifted and whichever cones were in view.
   maybeCsmRegister, graph_slam_node.cpp:1061-1180.                           *)
SeamStep ==
  csm'.applied > csm.applied =>
    /\ car'.travel >= Lap - 1 /\ car'.travel % Lap # Lap \div 2
    /\ Distance(Drift', 0) <= Factor

(* "the gate locked conjunctively, so the seam WILL apply": a gate that locks
   is an apply or a confirmation, whatever the corridors say.
   graph_slam_node.cpp:1168-1172.                                             *)
LockedGateCounts == [][csm'.gate => csm'.applied = csm.applied + 1]_seamVars

=============================================================================
