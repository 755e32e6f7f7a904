-------------------------- MODULE StraightCorridor --------------------------
(* The path of an acceleration run (local_path_builder.cpp): along the one axis
   of a straight corridor, rows of cones are mapped, seen for a frame or missed,
   and fitted by a line that is latched and held.  Lengths are ground distances
   and lateral geometry is left out: both cones of a row make a pair.         *)
EXTENDS Integers, FiniteSets, FiniteSetsExt

CONSTANTS Corridor,     \* rows of blue, yellow and big orange cones
          BrakingZone,  \* rows of orange cones, after the corridor
          Behind,       \* roi_min_x, as a length
          Ahead,        \* roi_max_x, and how far a cone is mapped
          Cap,          \* straight_extension_cap_m
          Horizon,      \* two_sided_horizon_m
          Fallback,     \* fallback_horizon_m
          MinPath,      \* shortest length that resamples to five points
          MaxStart,     \* max_start_distance_m
          Gap,          \* max_traversal_gap_m, centerline_max_link_gap_m
          MaxX          \* where the run is no longer followed

VARIABLES car,    \* position along the run
          map,    \* mapped cones: <<row, side>>
          latch,  \* the latched line: [end, corridor], or nothing
          path    \* the path of the last frame: [end, fast], or nothing
corridorVars == <<car, map, latch, path>>

Sides == {"blue", "yellow"}
Cones == (Corridor \cup BrakingZone) \X Sides

CorridorInit == car = 0 /\ map = {} /\ latch = {} /\ path = {}

(* ---- One frame, from the cones seen in it. ------------------------------ *)
Rows(cones, side) == {c[1] : c \in {d \in cones : d[2] = side}}
Pairs(cones) == Rows(cones, "blue") \cap Rows(cones, "yellow")
InRoi(cones) == {c \in cones : c[1] - car \in -Behind .. Ahead}

(* finishPath: what may be published, cut at the horizon.                     *)
Finished(from, to, horizon, fast) ==
  IF /\ from - car \in -MaxStart .. MaxStart
     /\ to > from /\ Min({to - from, horizon}) >= MinPath
  THEN {[end |-> Min({to, from + horizon}), fast |-> fast]} ELSE {}

(* The corridor still reaches the car.  Its last blue or yellow cone counts;
   with none in view, it does not.                                            *)
InCorridor(end) == end >= car
CorridorEnd(cones) == Max({c[1] : c \in {d \in cones : d[1] \in Corridor}} \cup {-Behind - 1})

(* straightCorridorPath: a line through two pairs or more, ahead or behind.   *)
Fitted(cones) ==
  IF Cardinality(Pairs(cones)) < 2 \/ Max(Pairs(cones)) + Cap <= car THEN {}
  ELSE {[end |-> Max(Pairs(cones)) + Cap, corridor |-> CorridorEnd(cones)]}

StraightPath(line) ==
  UNION {Finished(car, l.end, Horizon, InCorridor(l.corridor)) : l \in line}

(* forwardTraversal along the axis: from the row nearest to the car (the one
   behind, on a tie) forward as far as no gap is too long.                    *)
Distance(row) == IF row < car THEN car - row ELSE row - car
Seed(rows) == CHOOSE r \in rows : \A s \in rows :
                Distance(r) < Distance(s) \/ (Distance(r) = Distance(s) /\ r <= s)
ChainEnd(rows) ==
  Max({r \in rows : r >= Seed(rows) /\
         \A a \in rows \cap (Seed(rows) .. r - 1) : \E b \in rows : b > a /\ b <= a + Gap})

TwoSided(cones) ==
  LET rows == Pairs(cones)
  IN IF Cardinality(rows) < 2 \/ ChainEnd(rows) = Seed(rows) THEN {}
     ELSE Finished(Seed(rows), ChainEnd(rows), Horizon, TRUE)

OneSided(rows) ==
  IF ChainEnd(rows) = Seed(rows) THEN {}
  ELSE Finished(Seed(rows), ChainEnd(rows), Fallback, FALSE)

(* buildSparseFallback: towards a lone pair ahead, or along a side of two, and
   on to the fallback horizon.                                                *)
LonePair(cones) ==
  IF Pairs(cones) = {} \/ Max(Pairs(cones)) <= car THEN {}
  ELSE Finished(car, Max({Max(Pairs(cones)), car + Fallback}), Fallback, FALSE)
LoneSide(cones) ==
  LET blue == Rows(cones, "blue")
      yellow == Rows(cones, "yellow")
      rows == IF Cardinality(blue) >= 2 /\ Cardinality(blue) >= Cardinality(yellow)
              THEN blue ELSE yellow
  IN IF Cardinality(rows) < 2 \/ ChainEnd(rows) = Seed(rows) THEN {}
     ELSE Finished(Seed(rows), Max({ChainEnd(rows), Seed(rows) + Fallback}),
                   Fallback, FALSE)

FirstOf(a, b) == IF a # {} THEN a ELSE b

(* buildLocalPath past the straight line: two sides, one, or a creep.         *)
Generic(cones) ==
  LET blue == Rows(cones, "blue")
      yellow == Rows(cones, "yellow")
      both == Cardinality(blue) >= 2 /\ Cardinality(yellow) >= 2
      blueOnly == Cardinality(blue) >= 3 /\ (yellow = {} \/ both)
      yellowOnly == Cardinality(yellow) >= 3 /\ (blue = {} \/ both)
      useBlue == blueOnly /\ (~yellowOnly \/
                   Distance(Seed(blue)) <= Distance(Seed(yellow)))
  IN FirstOf(IF both THEN TwoSided(cones) ELSE {},
             IF blueOnly \/ yellowOnly THEN OneSided(IF useBlue THEN blue ELSE yellow)
             ELSE FirstOf(LonePair(cones), LoneSide(cones)))

(* A bug of this shape: the latched end moves along with the car.             *)
HeldFromCar(line) ==
  UNION {Finished(car, car + Cap, Horizon, InCorridor(l.corridor)) : l \in line}

(* buildHeldStraightPath: the latched line, from where the car is now.        *)
Held(line) == StraightPath(line)

(* A bug of this shape: any path that the frame itself gives is preferred.     *)
LatchAppliedLast(cones) ==
  LET fit == Fitted(cones)
  IN IF StraightPath(fit) # {}
     THEN latch' = fit /\ path' = StraightPath(fit)
     ELSE latch' = {} /\ path' = Generic(cones)

(* applyStraightLatch: a fit that could be published is latched anew; without
   one the latched line wins over the generic path while it can be driven.    *)
LatchApplied(cones) ==
  LET fit == Fitted(cones)
  IN IF StraightPath(fit) # {}
     THEN latch' = fit /\ path' = StraightPath(fit)
     ELSE latch' = latch /\ path' = FirstOf(Held(latch), Generic(cones))

(* Cones of the map come and go between frames as their colours do.           *)
Plan ==
  \E cones \in SUBSET InRoi(map) : LatchApplied(cones)
  /\ UNCHANGED <<car, map>>

MapsCone ==
  /\ \E c \in Cones \ map : c[1] - car \in -Behind .. Ahead /\ map' = map \cup {c}
  /\ UNCHANGED <<car, latch, path>>

Advance ==
  /\ car < MaxX
  /\ car' = car + 1
  /\ UNCHANGED <<map, latch, path>>

CorridorNext == Plan \/ MapsCone \/ Advance
CorridorSpec == CorridorInit /\ [][CorridorNext]_corridorVars

(* No path leads past the furthest cone mapped by more than the extension: the
   point where the car runs out of path, and brakes, does not depend on how
   the path was made, nor on which cones a frame happened to see.             *)
EndsPastCones ==
  \A p \in path : p.end <= Max({c[1] : c \in map}) + Cap

(* Once a line has been fitted, no frame's path ends short of the held line's
   end until the car is nearly there: no brake pulse in mid-run.              *)
NoBrakePulseStep ==
  Plan /\ latch # {} => \E l \in latch' : l.end - car >= MinPath =>
    \E p \in path' : p.end >= Min({l.end, car + Horizon})
=============================================================================
