----------------------------- MODULE FrenetPath -----------------------------
(***************************************************************************)
(* frenet_odom_node with its GlobalPathValidityState: which reference path *)
(* the Frenet coordinates are measured on.  A path is a number, 0 none.    *)
(* invalidation_generation_ is only ever compared with the generation that *)
(* accepted the waypoints, and invalidating clears the latter: `accepted`  *)
(* says they are equal.                                                    *)
(***************************************************************************)
EXTENDS Ages

CONSTANTS
  FrenetTimeout,   \* global_path_valid_timeout_sec of frenet_odom_node, in ticks
  FrenetPaths      \* the paths published

ASSUME FrenetAssumption == FrenetTimeout \in Nat /\ FrenetPaths \subseteq Nat \ {0}

\* raw is last_raw_waypoints_, converter the path the converter was built from.
FrenetType ==
  [valid : BOOLEAN, age : 0..(FrenetTimeout + 1), accepted : BOOLEAN,
   raw : FrenetPaths \cup {0}, converter : FrenetPaths \cup {0}, failed : BOOLEAN]

\* Both generations start at zero, so waypoints count as accepted before the first.
FrenetInit ==
  [valid |-> FALSE, age |-> FrenetTimeout + 1, accepted |-> TRUE, raw |-> 0,
   converter |-> 0, failed |-> FALSE]

AgeFrenet(f) == [f EXCEPT !.age = Older(@, FrenetTimeout + 1)]

\* invalidate, and applyInvalidationLocked with it.
FrenetInvalidate(f) ==
  [f EXCEPT !.valid = FALSE, !.accepted = FALSE, !.raw = 0, !.converter = 0]

FrenetLapsed(f) == f.valid /\ f.age > FrenetTimeout

FrenetInvalidateIfStale(f) == IF FrenetLapsed(f) THEN FrenetInvalidate(f) ELSE f

\* A bug of this shape: a lapse overlooked by the next true.
OnFrenetValidityUnrefreshed(f, v) ==
  IF v THEN [f EXCEPT !.valid = TRUE, !.age = 0] ELSE FrenetInvalidate(f)

OnFrenetValidity(f, v) ==
  IF v THEN [FrenetInvalidateIfStale(f) EXCEPT !.valid = TRUE, !.age = 0]
  ELSE FrenetInvalidate(f)

\* A path with the geometry of the last one is ignored; one CLCS cannot build leaves the
\* previous converter in place, which `failed` remembers.
OnFrenetWaypoints(f, path, builds) ==
  IF path = f.raw THEN f
  ELSE IF ~builds THEN [f EXCEPT !.failed = TRUE]
  ELSE [f EXCEPT !.converter = path, !.raw = path, !.accepted = TRUE, !.failed = FALSE]

\* The path /planning/frenet_odom is measured on when an odometry sample comes, 0: none.
FrenetReference(f) ==
  IF f.valid /\ f.age <= FrenetTimeout /\ f.accepted THEN f.converter ELSE 0

=============================================================================
