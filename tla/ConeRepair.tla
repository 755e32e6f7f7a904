----------------------------- MODULE ConeRepair -----------------------------
(* slam_centerline_builder.cpp: the repairs of the cone map and the gates it must
   pass before a centreline is sought in it, and the gate that s = 0 is anchored
   at.  The map is a stretch of straight track with a few ghosts; lengths are in
   eighths of a metre, distances are compared squared.                        *)
EXTENDS Integers, Sequences, FiniteSets, SequencesExt

CONSTANTS Spacing, Width, Side,       \* the track: between cones, across, per side
          MinWidth, MaxWidth, MaxGap, \* min_track_width_m .. max_boundary_gap_m
          MinCones, Dup,              \* min_cones_per_side, the duplicate threshold
          Tolerance, Nominal,         \* kClusterToleranceM and the nominal width of a gate
          GhostX, GhostY,             \* the landmarks that are no cone
          GateX, StrayX               \* the gate of orange cones, and a stray one

VARIABLES seen,      \* the map as SLAM publishes it: [blue, yellow, markers]
          blue, yellow, before,   \* the points; and before the corridor's ghosts went
          stage, reason,
          start      \* where s = 0 is anchored, once there is a loop
repairVars == <<seen, blue, yellow, before, stage, reason, start>>

Sq(n) == n * n
Abs(n) == IF n < 0 THEN -n ELSE n
Dist2(p, q) == Sq(p[1] - q[1]) + Sq(p[2] - q[2])
Midpoint(p, q) == <<(p[1] + q[1]) \div 2, (p[2] + q[2]) \div 2>>
Within(p, s, limit) == \E i \in DOMAIN s : Dist2(p, s[i]) <= Sq(limit)
Pairs(s) == {p \in (DOMAIN s) \X (DOMAIN s) : p[1] < p[2]}
Earlier(p, q) == p[1] < q[1] \/ (p[1] = q[1] /\ p[2] <= q[2])
Without(s, dropped) ==
  LET kept == SelectSeq([i \in DOMAIN s |-> i], LAMBDA i : i \notin dropped)
  IN [i \in DOMAIN kept |-> s[kept[i]]]
(* n / 4U of the number of points: the budget of every repair. *)
Quarter(s) == Len(s) \div 4

(* mergeSameColorDuplicates: the first pair there is, until there is none.     *)
Twins(s) == {p \in Pairs(s) : Dist2(s[p[1]], s[p[2]]) < Sq(Dup)}
RECURSIVE Merged(_)
Merged(s) ==
  IF Twins(s) = {} THEN s
  ELSE LET p == CHOOSE p \in Twins(s) : \A q \in Twins(s) : Earlier(p, q)
       IN Merged(RemoveAt([s EXCEPT ![p[1]] = Midpoint(s[p[1]], s[p[2]])], p[2]))

(* dropDriftDuplicateGhosts: of two cones closer than half the typical spacing, the
   one that lies clearly worse on the line through the two cones nearest them. *)
Nearest2(s, i) ==
  LET ds == {Dist2(s[i], s[j]) : j \in DOMAIN s \ {i}}
  IN CHOOSE d \in ds : \A e \in ds : d <= e
Typical2(s) ==
  LET near == [i \in DOMAIN s |-> Nearest2(s, i)]
  IN CHOOSE d \in {near[i] : i \in DOMAIN s} :
       /\ Cardinality({i \in DOMAIN s : near[i] < d}) <= Len(s) \div 2
       /\ Cardinality({i \in DOMAIN s : near[i] <= d}) > Len(s) \div 2
Twice(p) == <<2 * p[1], 2 * p[2]>>
Line(s, p, drop) ==
  LET sum == <<s[p[1]][1] + s[p[2]][1], s[p[1]][2] + s[p[2]][2]>>
      near(k) == Dist2(Twice(s[k]), sum)
      first(K) == CHOOSE k \in K : \A j \in K : near(k) < near(j) \/ (near(k) = near(j) /\ k <= j)
      K == DOMAIN s \ ({p[1], p[2]} \cup drop)
  IN IF Cardinality(K) < 2 THEN {}
     ELSE {<<s[first(K)], s[first(K \ {first(K)})]>>}
Residual(p, l) ==
  Abs((l[2][1] - l[1][1]) * (p[2] - l[1][2]) - (l[2][2] - l[1][2]) * (p[1] - l[1][1]))
(* A bug of this shape: either of the two may go, if the line through their
   neighbours does not fit both.                                              *)
WorseOrBetter(s, p, l) ==
  IF Residual(s[p[1]], l) # Residual(s[p[2]], l) THEN {p[1]} ELSE {}
Worse(s, p, l) ==
  LET ri == Residual(s[p[1]], l)  rj == Residual(s[p[2]], l)
      gap == (IF ri > rj THEN ri ELSE rj) - 2 * (IF ri > rj THEN rj ELSE ri)
  IN IF gap > 0 /\ Sq(gap) > 16 * Dist2(l[1], l[2])      \* 16: half a metre, squared
     THEN {IF ri > rj THEN p[1] ELSE p[2]} ELSE {}
DriftGhosts(s) ==
  LET n == Len(s)
      all == SelectSeq([k \in 1 .. n * n |-> <<(k - 1) \div n + 1, ((k - 1) % n) + 1>>],
                       LAMBDA p : p[1] < p[2])
      Judge(drop, p) ==
        IF {p[1], p[2]} \cap drop # {} \/ 4 * Dist2(s[p[1]], s[p[2]]) >= Typical2(s)
        THEN drop
        ELSE drop \cup UNION {Worse(s, p, l) : l \in Line(s, p, drop)}
  IN FoldLeft(Judge, {}, all)
Undrifted(s) ==
  IF Len(s) < 4 \/ Cardinality(DriftGhosts(s)) > Quarter(s) THEN s
  ELSE Without(s, DriftGhosts(s))

(* dropOffCorridorGhosts: nearer than half the minimum width to the other side, or
   farther than one and a half times the maximum.                             *)
OffCorridor(s, opposite) ==
  {i \in DOMAIN s : \/ ~ \E j \in DOMAIN opposite : 4 * Dist2(s[i], opposite[j]) <= 9 * Sq(MaxWidth)
                    \/ \E j \in DOMAIN opposite : 4 * Dist2(s[i], opposite[j]) < Sq(MinWidth)}
InCorridor(s, opposite) ==
  IF opposite = <<>> \/ Cardinality(OffCorridor(s, opposite)) > Quarter(s) THEN s
  ELSE Without(s, OffCorridor(s, opposite))

(* foldStartFinishMarkers: each marker joins the boundary it is nearest to.    *)
(* A bug of this shape: the paired timing cones are folded in one by one.       *)
CollapsedNone(markers) == markers
Collapsed(markers) ==
  FoldLeft(LAMBDA s, p : IF Within(p, s, Dup) THEN s ELSE Append(s, p), <<>>, markers)
NearerFirst(p, s, t) ==
  \/ t = <<>>
  \/ \E i \in DOMAIN s : \A j \in DOMAIN t : Dist2(p, s[i]) <= Dist2(p, t[j])
Joined(p, sides, judged) ==
  IF NearerFirst(p, judged[1], judged[2])
  THEN IF Within(p, judged[1], Dup) THEN sides ELSE <<Append(sides[1], p), sides[2]>>
  ELSE IF Within(p, judged[2], Dup) THEN sides ELSE <<sides[1], Append(sides[2], p)>>
(* A bug of this shape: the sides are judged as they grow, and the first marker of
   the gate draws the second to its own side.                                 *)
FoldedGrowing(b, y, markers) ==
  FoldLeft(LAMBDA sides, p : Joined(p, sides, sides), <<b, y>>, Collapsed(markers))
Folded(b, y, markers) ==
  FoldLeft(LAMBDA sides, p : Joined(p, sides, <<b, y>>), <<b, y>>, Collapsed(markers))

(* dropGapDisconnectedCones: the largest component, the first one of equals.   *)
RECURSIVE Reached(_, _)
Reached(s, S) ==
  LET next == S \cup {j \in DOMAIN s : \E i \in S : Dist2(s[i], s[j]) <= Sq(MaxGap)}
  IN IF next = S THEN S ELSE Reached(s, next)
Component(s, i) == Reached(s, {i})
Largest(s) ==
  CHOOSE i \in DOMAIN s : \A j \in DOMAIN s :
    \/ Cardinality(Component(s, i)) > Cardinality(Component(s, j))
    \/ Cardinality(Component(s, i)) = Cardinality(Component(s, j)) /\ i <= j
Connected(s) ==
  IF Len(s) < 2 THEN s ELSE Without(s, DOMAIN s \ Component(s, Largest(s)))
Fragmented(s) == Len(s) - Len(Connected(s)) > Quarter(s)

(* hasInvalidNearestTrackWidth, over both sides.                               *)
Misfits(s, opposite) ==
  {i \in DOMAIN s : \/ \E j \in DOMAIN opposite : Dist2(s[i], opposite[j]) < Sq(MinWidth)
                    \/ ~ Within(s[i], opposite, MaxWidth)}
InvalidWidth(b, y) ==
  Cardinality(Misfits(b, y)) + Cardinality(Misfits(y, b)) > (Len(b) + Len(y)) \div 4

(* findStartFinishGateMidpoint: clusters of markers, and the two that face each
   other best; twice the midpoint, times the sizes of the clusters, as a sum.  *)
RECURSIVE Linked(_, _)
Linked(s, S) ==
  LET next == S \cup {j \in DOMAIN s : \E i \in S : Dist2(s[i], s[j]) <= Sq(Tolerance)}
  IN IF next = S THEN S ELSE Linked(s, next)
Clusters(s) == {Linked(s, {i}) : i \in DOMAIN s}
Centroid(s, S) ==
  LET n == Cardinality(S)
      sum(c) == FoldLeftDomain(LAMBDA t, i : IF i \in S THEN t + s[i][c] ELSE t, 0, s)
  IN <<sum(1) \div n, sum(2) \div n>>
Apart(s, S, T) == Dist2(Centroid(s, S), Centroid(s, T))
Facing(s) ==
  {p \in Clusters(s) \X Clusters(s) :
     p[1] # p[2] /\ Sq(MinWidth) <= Apart(s, p[1], p[2]) /\ Apart(s, p[1], p[2]) <= Sq(MaxWidth)}
Root(n) == CHOOSE r \in 0 .. MaxWidth : Sq(r) <= n /\ n < Sq(r + 1)
Misfit(s, p) == Abs(Root(Apart(s, p[1], p[2])) - Nominal)
BothPairs(p) == Cardinality(p[1]) >= 2 /\ Cardinality(p[2]) >= 2
(* A bug of this shape: the pair of the best width, however many cones it has.  *)
BetterWidth(s, p, q) == Misfit(s, p) <= Misfit(s, q)
Better(s, p, q) ==
  \/ BothPairs(p) /\ ~BothPairs(q)
  \/ BothPairs(p) = BothPairs(q) /\ Misfit(s, p) <= Misfit(s, q)
GateMidpoint(s) ==
  IF Facing(s) = {} THEN Centroid(s, DOMAIN s)
  ELSE LET p == CHOOSE p \in Facing(s) : \A q \in Facing(s) : Better(s, p, q)
       IN Midpoint(Centroid(s, p[1]), Centroid(s, p[2]))

(* buildCenterlineFromSlamMap, up to the search for an ordering.               *)
Stage(from, to) == stage = from /\ stage' = to
MergeDuplicates ==
  /\ Stage("map", "merged")
  /\ blue' = Merged(blue) /\ yellow' = Merged(yellow)
  /\ UNCHANGED <<seen, before, reason, start>>
DropDrift ==
  /\ Stage("merged", "undrifted")
  /\ blue' = Undrifted(blue) /\ yellow' = Undrifted(yellow) /\ before' = Undrifted(blue)
  /\ UNCHANGED <<seen, reason, start>>
(* A bug of this shape: yellow is judged by what is left of blue.              *)
OppositeLeft == InCorridor(blue, yellow)
OppositeOfYellow == before
DropCorridor ==
  /\ Stage("undrifted", "corridor")
  /\ blue' = InCorridor(blue, yellow) /\ yellow' = InCorridor(yellow, OppositeOfYellow)
  /\ UNCHANGED <<seen, before, reason, start>>
FoldMarkers ==
  LET sides == Folded(blue, yellow, seen.markers)
  IN /\ Stage("corridor", "folded")
     /\ blue' = sides[1] /\ yellow' = sides[2]
     /\ UNCHANGED <<seen, before, reason, start>>
DropDisconnected ==
  /\ Stage("folded", "connected")
  /\ blue' = Connected(blue) /\ yellow' = Connected(yellow)
  /\ reason' = IF Fragmented(blue) \/ Fragmented(yellow) THEN "branch_jump" ELSE reason
  /\ UNCHANGED <<seen, before, start>>
Verdict(b, y) ==
  IF Len(b) < MinCones \/ Len(y) < MinCones THEN "insufficient"
  ELSE IF Twins(b) \cup Twins(y) # {} THEN "duplicate_ghost"
  ELSE IF InvalidWidth(b, y) THEN "invalid_width" ELSE "accepted"
Judge ==
  /\ Stage("connected", "judged")
  /\ reason' = IF reason = "" THEN Verdict(blue, yellow) ELSE reason
  /\ UNCHANGED <<seen, blue, yellow, before, start>>
(* rebaseLoopAtStartFinishGate: where the loop found in the points starts.      *)
Rebase ==
  /\ Stage("judged", "rebased") /\ reason = "accepted" /\ seen.markers # <<>>
  /\ start' = GateMidpoint(seen.markers)
  /\ UNCHANGED <<seen, blue, yellow, before, reason>>

(* What SLAM may have seen: the cones, ghosts at either end of its list, and the
   two pairs of the gate with a stray orange cone.                            *)
Cones(y) == [i \in 1 .. Side |-> <<i * Spacing, y>>]
Real(side) == Cones(IF side = "blue" THEN Width ELSE 0)
Ghosts == [side : {"blue", "yellow"}, at : GhostX \X GhostY, first : BOOLEAN]
Listed(side, G) ==
  LET mine(f) == {g.at : g \in {h \in G : h.side = side /\ h.first = f}}
  IN SetToSeq(mine(TRUE)) \o Real(side) \o SetToSeq(mine(FALSE))
Gate == <<<<GateX, 0>>, <<GateX + 2, 0>>, <<GateX, Width>>, <<GateX + 2, Width>>>>
Inset(dy) == [i \in DOMAIN Gate |-> <<Gate[i][1], IF i < 3 THEN dy ELSE Width - dy>>]
Markers ==
  {<<>>, Inset(Width \div 16), Inset(Width \div 4)}
  \cup {Append(Gate, <<x, y>>) : x \in StrayX, y \in {0, Width \div 2}}
RepairInit ==
  /\ \E g, h \in Ghosts, markers \in Markers :
       \E G \in {{}, {g}} \cup IF markers = <<>> THEN {{g, h}} ELSE {} :
          seen = [blue |-> Listed("blue", G), yellow |-> Listed("yellow", G),
                  markers |-> markers]
  /\ blue = seen.blue /\ yellow = seen.yellow /\ before = <<>>
  /\ stage = "map" /\ reason = "" /\ start = <<>>
RepairNext ==
  \/ MergeDuplicates \/ DropDrift \/ DropCorridor
  \/ FoldMarkers \/ DropDisconnected \/ Judge \/ Rebase
RepairSpec == RepairInit /\ [][RepairNext]_repairVars

(* The duplicate gate only guards: neither the merge nor the fold of the markers
   leaves two cones of a colour that it would reject the map for.  mergeSame-
   ColorDuplicates and foldStartFinishMarkers, :112-145 and :254-272.         *)
GuardNeverTrips == reason # "duplicate_ghost"

(* The gate spans the track: its markers are folded into both boundaries, which
   closes the gap the gate leaves in each of them, unless a ghost stands in the
   gate.  :112-145.                                                           *)
Clear ==
  \A i \in DOMAIN seen.markers, s \in {seen.blue, seen.yellow} : \A j \in DOMAIN s :
    \/ Dist2(seen.markers[i], s[j]) >= Sq(Width)
    \/ s[j] \in {Real(side)[k] : side \in {"blue", "yellow"}, k \in 1 .. Side}
GateSpansTrack ==
  stage = "folded" /\ seen.markers # <<>> /\ Clear =>
    \E i \in DOMAIN blue, j \in DOMAIN yellow :
      {blue[i], yellow[j]} \subseteq {seen.markers[k] : k \in DOMAIN seen.markers}

(* What is repaired does not depend on the colour: a map that is its own mirror
   image is repaired to its own mirror image.  :1440-1452.                    *)
Mirror(s) == [i \in DOMAIN s |-> <<s[i][1], Width - s[i][2]>>]
ColourBlind ==
  seen.yellow = Mirror(seen.blue) /\ stage \in {"merged", "undrifted", "corridor"} =>
    yellow = Mirror(blue)

(* A ghost costs the map at most itself, and the one cone it shares a car's width
   with if they are of opposite colours: with one ghost the map is accepted and
   keeps every other cone.  The repairs, :254-413, and the gates, :415-470.    *)
OneGhost == Len(seen.blue) + Len(seen.yellow) = 2 * Side + 1
Survives(p, s, opposite) ==
  Within(p, s, Dup) \/ \E i \in DOMAIN opposite : 4 * Dist2(p, opposite[i]) < Sq(MinWidth)
GhostCostsItself ==
  stage = "judged" /\ OneGhost /\ seen.markers = <<>> =>
    /\ reason = "accepted"
    /\ \A i \in 1 .. Side : /\ Survives(Real("blue")[i], blue, seen.yellow)
                            /\ Survives(Real("yellow")[i], yellow, seen.blue)

(* s = 0 stays at the gate, a stray orange cone or not: the frenet seam and the
   end of the path are taken for the start/finish line.  :486-585.            *)
StartsAtGate == start # <<>> => Dist2(start, <<GateX, Width \div 2>>) <= Sq(Tolerance)
=============================================================================
