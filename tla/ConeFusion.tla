----------------------------- MODULE ConeFusion -----------------------------
(* The perception node (perception_node.py): it caches the newest boxes and the
   exact stereo pairs, and turns every LiDAR cloud into one message of cones:
   clusters first, then sparse LiDAR cones, then cones measured by stereo.
   A cone of the world is a member of Cones; its LiDAR returns are none, too
   few to cluster ("thin"), or a cluster, and neighbours may have merged.     *)
EXTENDS Integers, FiniteSets, Sequences, SequencesExt

CONSTANTS Cones,        \* the cones in view
          MaxNow,       \* last tick of the clock
          MaxAge,       \* max_cluster_age_sec
          MaxImageAge,  \* max_image_age_sec
          MaxUncompensatedGap,  \* max_uncompensated_gap_sec
          PairBuffer,   \* halves kept while they wait for their counterpart
          MaxPairs,     \* exact pairs kept
          Support       \* min_cluster_support_px

VARIABLES now,      \* the clock, and whether its cloud is still to come
          stereo,   \* left and right halves waiting, and the exact pairs
          bboxMsg,  \* the newest boxes: a set of at most one message
          camera,   \* camera_info has arrived
          cloud,    \* the clusters of the cloud handled by the last step
          cones     \* the cones published by the last step
fusionVars == <<now, stereo, bboxMsg, camera, cloud, cones>>

Eyes == {"left", "right"}
Other(eye) == CHOOSE e \in Eyes : e # eye

FusionInit ==
  /\ now = [tick |-> 0, due |-> TRUE]
  /\ stereo = [left |-> <<>>, right |-> <<>>, pairs |-> <<>>]
  /\ bboxMsg = {} /\ camera = FALSE /\ cloud = {} /\ cones = {}

(* A step that handles no cloud publishes none. *)
NoCloud == cloud' = {} /\ cones' = {}

Newest(s, n) == SubSeq(s, Len(s) - n + 1, Len(s))
Bounded(s, n) == IF Len(s) > n THEN Newest(s, n) ELSE s

(* _offer_half: halves pair by equal stamps; a pair drops all that wait. *)
OfferHalf(eye) ==
  stereo' = IF now.tick \in ToSet(stereo[Other(eye)])
    THEN [left |-> <<>>, right |-> <<>>,
          pairs |-> Bounded(Append(stereo.pairs, now.tick), MaxPairs)]
    ELSE [stereo EXCEPT ![eye] = Bounded(Append(@, now.tick), PairBuffer)]

ImageCallback(eye) ==
  /\ now.tick \notin ToSet(stereo[eye]) \cup ToSet(stereo.pairs)
  /\ OfferHalf(eye)
  /\ NoCloud /\ UNCHANGED <<now, bboxMsg, camera>>

CameraInfoCallback ==
  /\ ~camera /\ camera' = TRUE
  /\ NoCloud /\ UNCHANGED <<now, stereo, bboxMsg>>

(* _extract_detections: a detection is known by the cone it frames. *)
BboxCallback ==
  /\ \E detections \in SUBSET Cones, stamp \in 0..now.tick :
       bboxMsg' = {[stamp |-> stamp, detections |-> detections]}
  /\ NoCloud /\ UNCHANGED <<now, stereo, camera>>

(* _cluster: a blob of returns is a cluster if it has the size of a cone; one
   that is wide is split when each half is a cone by itself.  merged: the two
   halves are not separable, and count as the cluster of both cones.          *)
Blobs(dense) == {{{k} : k \in dense}, {dense} \ {{}}}
SplitPairCluster(blob, separable) ==
  IF Cardinality(blob) > 1 /\ separable THEN {{k} : k \in blob} ELSE {blob}
Clusters(blobs, separable) ==
  UNION {SplitPairCluster(b, separable) : b \in blobs}

(* _lookup_transform_between: across time a transform may be missing (tf), and
   a small gap does without it.                                               *)
TransformBetween(stamp, tf) == tf \/ now.tick - stamp <= MaxUncompensatedGap

(* _scene_at: the points can be projected into the image of a stamp if it is
   not too old and the transforms exist.                                      *)
InScene(stamp, tf) == now.tick - stamp <= MaxAge /\ TransformBetween(stamp, tf)

(* How many points of a cluster lie in a box.  view: the boxes that miss their
   own cone's points, and how many of a neighbour's points a box takes in.    *)
Inside(c, d, view) ==
  IF d \in c THEN IF d \in view.missing THEN 0 ELSE Support + 1 ELSE view.overlap
Supported(clusters, detections, view) ==
  {p \in clusters \X detections : Inside(p[1], p[2], view) >= Support}

(* _match: the greedy one-to-one matching in the order of falling scores, which
   are distinct or tied arbitrarily: some maximal matching in which a pair that
   was passed over meets a pair with no lower score.                          *)
Score(p, view) == Inside(p[1], p[2], view)
OneToOne(pairs) ==
  \A p, q \in pairs : p # q => p[1] # q[1] /\ p[2] # q[2]
Matchings(pairs, view) ==
  {m \in SUBSET pairs :
     /\ OneToOne(m)
     /\ \A p \in pairs \ m :
          \E q \in m : /\ q[1] = p[1] \/ q[2] = p[2]
                       /\ Score(q, view) >= Score(p, view)}

Cone(place, provenance) == [place |-> place, provenance |-> provenance]

ClusterCones(clusters, m) ==
  {Cone(c, IF \E p \in m : p[1] = c THEN "lidar+camera" ELSE "lidar_only") :
     c \in clusters}

(* _sparse_cone: an unclaimed detection with enough returns in its box, its own
   or a neighbour's, that belong to no cluster, all of one cone.  Nothing keeps
   two boxes from using the same returns.                                     *)
InBox(d, points, view) == {k \in points : Inside({k}, d, view) >= Support}
SparseDetections(unclaimed, thin, view) ==
  {d \in unclaimed : \E k \in thin : InBox(d, thin, view) = {k}}

(* _monocular_cone, _stereo_cone: a box that is tall enough for the monocular
   curve and the stereo pair of the image's own instant, or else the newest
   one, not too far from it; the disparity finds the cone of the box (peaks).  *)
ExactPair(stamp) == {s \in ToSet(stereo.pairs) : s = stamp}
ChosenPair(stamp) ==
  IF ExactPair(stamp) # {} \/ stereo.pairs = <<>> THEN ExactPair(stamp)
  ELSE {Last(stereo.pairs)}
Measurable(stamp) ==
  \E s \in ChosenPair(stamp) : stamp - s <= MaxImageAge /\ s - stamp <= MaxImageAge

(* A bug of this shape: only cones the camera confirmed guard against a second
   cone at their place.                                                       *)
DedupedAgainstConfirmed(measured, published) ==
  {d \in measured : \A c \in published :
     c.provenance # "lidar_only" => d \notin c.place}

(* The vision cones that stand within the dedup radius of none before them. *)
Deduped(measured, published) ==
  {d \in measured : \A c \in published : d \notin c.place}

BuildCones(detections, clusters, thin, m, view, stamp) ==
  LET unclaimed == detections \ {p[2] : p \in m}
      sparse == SparseDetections(unclaimed, thin, view)
      lidar == ClusterCones(clusters, m)
                 \cup {Cone(InBox(d, thin, view), "sparse") : d \in sparse}
      measured == IF Measurable(stamp) THEN (unclaimed \ sparse) \cap view.peaks
                  ELSE {}
  IN lidar \cup {Cone({d}, "vision") : d \in Deduped(measured, lidar)}

NoBoxes == [detections |-> {}, stamp |-> now.tick]

(* A bug of this shape: fresh boxes are used even if the cloud cannot be
   projected into their image.                                                *)
UsedBoxesUnprojected(points, tf) ==
  LET fresh == {b \in bboxMsg : now.tick - b.stamp <= MaxAge}
  IN IF fresh = {} THEN NoBoxes ELSE CHOOSE b \in fresh : TRUE

(* Without boxes, with old ones, or when the cloud cannot be projected into
   their image, the cloud goes out uncoloured, at its own stamp.              *)
UsedBoxes(points, tf) ==
  LET fresh == {b \in bboxMsg : /\ now.tick - b.stamp <= MaxAge
                                /\ points = {} \/ InScene(b.stamp, tf)}
  IN IF fresh = {} THEN NoBoxes ELSE CHOOSE b \in fresh : TRUE

Views == [missing : SUBSET Cones, overlap : {0, Support, Support + 2},
          peaks : SUBSET Cones]

(* The cones of a cloud's clusters and thin returns, in the used boxes' scene. *)
PublishCones(points, tf, clusters, thin) ==
  LET boxes == UsedBoxes(points, tf)
      scene == InScene(boxes.stamp, tf)
      seen == IF scene THEN clusters ELSE {}
  IN /\ cloud' = clusters
     /\ \E view \in Views :
        \E m \in Matchings(Supported(seen, boxes.detections, view), view) :
          cones' = BuildCones(boxes.detections, seen, IF scene THEN thin ELSE {},
                              m, view, boxes.stamp)

(* _cloud_callback.  A cloud with points needs the transform at its own stamp
   (placed), and no cloud is published before the intrinsics are known.       *)
CloudCallback ==
  \E thin \in SUBSET Cones, placed, tf \in BOOLEAN :
  \E dense \in SUBSET (Cones \ thin) :
  \E blobs \in Blobs(dense), separable \in BOOLEAN :
    /\ now.due /\ now' = [now EXCEPT !.due = FALSE]
    /\ UNCHANGED <<stereo, bboxMsg, camera>>
    /\ IF ~camera \/ (~placed /\ dense \cup thin # {}) THEN NoCloud
       ELSE PublishCones(dense \cup thin, tf, Clusters(blobs, separable), thin)

Tick ==
  /\ now.tick < MaxNow
  /\ now' = [tick |-> now.tick + 1, due |-> TRUE]
  /\ NoCloud /\ UNCHANGED <<stereo, bboxMsg, camera>>

FusionNext ==
  \/ \E eye \in Eyes : ImageCallback(eye)
  \/ CameraInfoCallback \/ BboxCallback \/ CloudCallback \/ Tick

FusionSpec == FusionInit /\ [][FusionNext]_fusionVars

Backs(clusters, published) ==
  \A c \in clusters : \E once \in published :
    {k \in published : /\ k.place = c
                      /\ k.provenance \in {"lidar+camera", "lidar_only"}} = {once}
Apart(published) == \A k, l \in published : k # l => k.place \cap l.place = {}

(* The LiDAR is the backbone: every cluster of a cloud that could be placed is
   published once, whatever the boxes, their stamp, the transform to their
   instant and the stereo images are.                                         *)
BackboneStands == Backs(cloud, cones)

(* A cone that was measured twice, by LiDAR and by vision, is published once:
   neither a mismatched cluster nor a thin return leaves a second one.  (Two
   sparse cones may stand on the same returns, and are not meant here.)       *)
EachConeOnce == Apart(cones)

(* What a cloud's step needs to know of the state before it: that a clock is there, so
   that a cloud is never too old for its own stamp.                           *)
FusionInv == now \in [tick : Nat, due : BOOLEAN] /\ BackboneStands /\ EachConeOnce
=============================================================================
