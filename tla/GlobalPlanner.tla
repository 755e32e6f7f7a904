--------------------------- MODULE GlobalPlanner ---------------------------
(***************************************************************************)
(* The package hyu_global_planner: planner_node, which builds the global   *)
(* path from the frozen SLAM map and vouches for it with a heartbeat, and  *)
(* the gate of wpnt_publisher that keeps its copy.  The planner's fields   *)
(* are a record; a map is its version, and a path is the version of the    *)
(* map it was built from.                                                  *)
(***************************************************************************)
EXTENDS Ages

CONSTANTS
  OdomTimeout,     \* odom_timeout_sec, in ticks
  Holds,           \* values hold_last_valid_path may have
  MaxMaps          \* bound on cone_map_version_

ASSUME PlannerAssumption ==
  OdomTimeout \in Nat /\ Holds \subseteq BOOLEAN /\ MaxMaps \in Nat

PlannerType ==
  [hold : Holds, cones : 0..MaxMaps, status : {"none", "mapping", "localization"},
   odomAge : 0..(OdomTimeout + 1), valid : BOOLEAN, published : 0..MaxMaps]

\* hold is the parameter hold_last_valid_path, the other fields are the state.
PlannerInit ==
  [hold : Holds, cones : {0}, status : {"none"}, odomAge : {OdomTimeout + 1},
   valid : {FALSE}, published : {0}]

AgePlanner(p) == [p EXCEPT !.odomAge = Older(@, OdomTimeout + 1)]

\* A bug of this shape: the signature is only taken once.
OnConeMapFirstOnly(p, changed) ==
  IF changed /\ p.cones = 0 THEN [p EXCEPT !.cones = 1] ELSE p

\* Only a map whose signature differs is a new version.
OnConeMap(p, changed) == IF changed THEN [p EXCEPT !.cones = @ + 1] ELSE p

OnPlannerOdom(p) == [p EXCEPT !.odomAge = 0]

OnPlannerStatus(p, status) == [p EXCEPT !.status = status]

InputsAllowPlanning(p) ==
  p.status = "localization" /\ p.cones > 0 /\ p.odomAge <= OdomTimeout

CanHoldLastValidPath(p) == p.hold /\ p.valid

UpToDate(p) == p.valid /\ p.published = p.cones

\* One heartbeat: the planner after it, the path it publishes (0: none) and the
\* validity it publishes after that.
Refused(p) ==
  [planner |-> [p EXCEPT !.valid = CanHoldLastValidPath(p)], path |-> 0,
   valid |-> CanHoldLastValidPath(p)]

Heartbeat(p, builds) ==
  IF ~InputsAllowPlanning(p) THEN Refused(p)
  ELSE IF UpToDate(p) THEN [planner |-> p, path |-> 0, valid |-> TRUE]
  ELSE IF ~builds THEN Refused(p)
  ELSE [planner |-> [p EXCEPT !.valid = TRUE, !.published = p.cones],
        path |-> p.cones, valid |-> TRUE]

-----------------------------------------------------------------------------
(* GlobalPathValidityGate, wpnt_publisher's books on the global path, as operators on
   its field values.  A path is a number, 0 the null pointer; the time of the last
   heartbeat is its age in ticks.                                             *)
CONSTANTS
  GateTimeout,   \* global_path_valid_timeout_sec of wpnt_publisher, in ticks
  GatePaths      \* the paths published

ASSUME GateAssumption == GateTimeout \in Nat /\ GatePaths \subseteq Nat \ {0}

GateType ==
  [has : BOOLEAN, valid : BOOLEAN, age : 0..(GateTimeout + 1),
   path : GatePaths \cup {0}, pending : GatePaths \cup {0},
   pendingGen : Nat, gen : Nat, hasInvalidation : BOOLEAN]

GateInit ==
  [has |-> FALSE, valid |-> FALSE, age |-> GateTimeout + 1, path |-> 0, pending |-> 0,
   pendingGen |-> 0, gen |-> 0, hasInvalidation |-> FALSE]

AgeGate(g) == [g EXCEPT !.age = Older(@, GateTimeout + 1)]

ValidityFresh(g) == g.has /\ g.valid /\ g.age <= GateTimeout

Lapsed(g) == g.has /\ g.valid /\ ~ValidityFresh(g)

\* A bug of this shape: only the pending snapshot is dropped.
GateInvalidateKeepsPath(g) ==
  IF g.pending = 0 /\ ~(g.has /\ g.valid) /\ g.hasInvalidation
  THEN [g EXCEPT !.valid = FALSE]
  ELSE [g EXCEPT !.pending = 0, !.valid = FALSE, !.hasInvalidation = TRUE,
                 !.gen = @ + 1, !.pendingGen = 0]

\* A repeated invalidation with nothing cached is not numbered.
GateInvalidate(g) ==
  IF g.path = 0 /\ g.pending = 0 /\ ~(g.has /\ g.valid) /\ g.hasInvalidation
  THEN [g EXCEPT !.valid = FALSE]
  ELSE [g EXCEPT !.path = 0, !.pending = 0, !.valid = FALSE, !.hasInvalidation = TRUE,
                 !.gen = @ + 1, !.pendingGen = 0]

InvalidateIfStale(g) == IF Lapsed(g) THEN GateInvalidate(g) ELSE g

Activatable(g) == g.pending # 0 /\ g.pendingGen = g.gen

ActivatePending(g) ==
  IF Activatable(g) THEN [g EXCEPT !.path = g.pending, !.pending = 0, !.pendingGen = 0]
  ELSE g

\* Bugs of this shape: the first snapshot of an episode is kept; one outside an episode
\* is dropped.
OnSnapshotFirstOnly(g0, path) ==
  LET g == InvalidateIfStale(g0) IN
  IF ValidityFresh(g)
  THEN [g EXCEPT !.path = IF @ = 0 THEN path ELSE @, !.pending = 0, !.pendingGen = 0]
  ELSE [g EXCEPT !.pending = path, !.pendingGen = g.gen, !.path = 0]

OnSnapshotLiveOnly(g0, path) ==
  LET g == InvalidateIfStale(g0) IN
  IF ValidityFresh(g) THEN [g EXCEPT !.path = path, !.pending = 0, !.pendingGen = 0] ELSE g

\* A snapshot is used at once in a live episode, and kept pending outside one.
OnSnapshot(g0, path) ==
  LET g == InvalidateIfStale(g0) IN
  IF ValidityFresh(g) THEN [g EXCEPT !.path = path, !.pending = 0, !.pendingGen = 0]
  ELSE [g EXCEPT !.pending = path, !.pendingGen = g.gen, !.path = 0]

OnGateValidity(g, v) ==
  IF v THEN ActivatePending([InvalidateIfStale(g) EXCEPT !.has = TRUE, !.valid = TRUE, !.age = 0])
  ELSE GateInvalidate([g EXCEPT !.has = TRUE, !.age = 0])

\* The books after a read, and the snapshot it returns.
AfterRead(g) ==
  LET n == InvalidateIfStale(g) IN IF ValidityFresh(n) THEN ActivatePending(n) ELSE n

ReadForOdom(g) == IF ValidityFresh(AfterRead(g)) THEN AfterRead(g).path ELSE 0
=============================================================================
