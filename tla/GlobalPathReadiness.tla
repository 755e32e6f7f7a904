------------------------ MODULE GlobalPathReadiness ------------------------
(***************************************************************************)
(* The global-path bookkeeping of the planning state machine: the classes  *)
(* GlobalPathReadiness and ContinuousHandoffGate, as operators on their    *)
(* field values.  A stored receive time is kept as its age in clock ticks; *)
(* an age saturates one tick past the timeout it is compared with, beyond  *)
(* which the code cannot tell two ages apart.                              *)
(***************************************************************************)
EXTENDS Ages

CONSTANTS
  ValidTimeout,          \* global_path_valid_timeout_sec, in ticks
  HandoffTimeout,        \* global_handoff_timeout_sec, in ticks
  EntryDwell,            \* global_entry_dwell_sec, in ticks
  RequireLocalization,   \* global_requires_graph_slam_localization
  MaxPathLength          \* bound on the s of a path's last waypoint

ASSUME ReadinessAssumption ==
  /\ ValidTimeout \in Nat /\ HandoffTimeout \in Nat /\ EntryDwell \in Nat
  /\ RequireLocalization \in BOOLEAN
  /\ MaxPathLength \in Nat

\* What graph_slam_node publishes on /localization/status; "none" before the first.
SlamStatus == {"none", "mapping", "mapping_converged", "localization"}

-----------------------------------------------------------------------------
(* GlobalPathReadiness.  has_global_waypoints_, global_path_ready_ and a     *)
(* positive accepted_waypoint_count_ are set and cleared together: `has`.    *)

ReadinessType ==
  [msgGen : Nat, accGen : Nat, invGen : Nat, has : BOOLEAN, len : 0..MaxPathLength,
   hasValid : BOOLEAN, valid : BOOLEAN, validAge : 0..(ValidTimeout + 1),
   status : SlamStatus]

ReadinessInit ==
  [msgGen |-> 0, accGen |-> 0, invGen |-> 0, has |-> FALSE, len |-> 0,
   hasValid |-> FALSE, valid |-> FALSE, validAge |-> ValidTimeout + 1,
   status |-> "none"]

AgeReadiness(r) == [r EXCEPT !.validAge = Older(@, ValidTimeout + 1)]

Invalidate(r) == [r EXCEPT !.invGen = r.msgGen, !.has = FALSE, !.len = 0]

HasFreshValidity(r) == r.hasValid /\ r.valid /\ r.validAge <= ValidTimeout

RefreshValidity(r) ==
  IF r.hasValid /\ r.valid /\ r.validAge > ValidTimeout
  THEN Invalidate([r EXCEPT !.valid = FALSE])
  ELSE r

OnWaypointsLengthened(r, count, len) ==
  IF count = 0 THEN [r EXCEPT !.msgGen = @ + 1]
  ELSE [r EXCEPT !.msgGen = @ + 1, !.accGen = r.msgGen + 1, !.has = TRUE, !.len = len + 1]

\* An empty snapshot is rejected, but it is still numbered.
OnWaypoints(r, count, len) ==
  LET n == [r EXCEPT !.msgGen = @ + 1] IN
  IF count = 0 THEN n ELSE [n EXCEPT !.has = TRUE, !.accGen = n.msgGen, !.len = len]

OnValidityUnrefreshed(r, v) ==
  LET n == [r EXCEPT !.hasValid = TRUE, !.valid = v, !.validAge = 0]
  IN IF v THEN n ELSE Invalidate(n)

\* A heartbeat first settles whether the one before it had lapsed.
OnValidity(r, v) ==
  LET n == [RefreshValidity(r) EXCEPT !.hasValid = TRUE, !.valid = v, !.validAge = 0] IN
  IF v THEN n ELSE Invalidate(n)

OnStatus(r, status) == [r EXCEPT !.status = status]

GraphSlamLocalized(r) == r.status = "localization"

Ready(r) ==
  /\ r.has
  /\ r.accGen > r.invGen
  /\ HasFreshValidity(r)
  /\ RequireLocalization => GraphSlamLocalized(r)

-----------------------------------------------------------------------------
(* ContinuousHandoffGate.                                                    *)

HandoffType ==
  [hasValue : BOOLEAN, value : BOOLEAN, age : 0..(HandoffTimeout + 1),
   dwelling : BOOLEAN, dwellAge : 0..EntryDwell]

HandoffInit ==
  [hasValue |-> FALSE, value |-> FALSE, age |-> HandoffTimeout + 1,
   dwelling |-> FALSE, dwellAge |-> 0]

AgeHandoff(h) == [h EXCEPT !.age = Older(@, HandoffTimeout + 1),
                           !.dwellAge = Older(@, EntryDwell)]

ObserveHandoffAcrossGaps(h, v) ==
  LET seen == [h EXCEPT !.hasValue = TRUE, !.value = v, !.age = 0] IN
  CASE ~v            -> [seen EXCEPT !.dwelling = FALSE]
    [] v /\ h.value  -> seen
    [] v /\ ~h.value -> [seen EXCEPT !.dwelling = TRUE, !.dwellAge = 0]

\* The dwell runs on only from a fresh true; after a gap it starts again.
ObserveHandoff(h, v) ==
  LET previousFresh == h.hasValue /\ h.value /\ h.age <= HandoffTimeout
      seen == [h EXCEPT !.hasValue = TRUE, !.value = v, !.age = 0]
  IN IF ~v THEN [seen EXCEPT !.dwelling = FALSE]
     ELSE IF previousFresh THEN seen
     ELSE [seen EXCEPT !.dwelling = TRUE, !.dwellAge = 0]

RefreshHandoff(h) ==
  IF h.hasValue /\ h.value /\ h.age > HandoffTimeout
  THEN [h EXCEPT !.hasValue = FALSE, !.value = FALSE, !.dwelling = FALSE]
  ELSE h

HandoffDwellReady(h) ==
  /\ h.hasValue /\ h.value /\ h.dwelling
  /\ h.age <= HandoffTimeout
  /\ h.dwellAge >= EntryDwell

=============================================================================
