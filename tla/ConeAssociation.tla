-------------------------- MODULE ConeAssociation --------------------------
(***************************************************************************)
(* Which cone of the map a sighting belongs to, and when one that belongs  *)
(* to none becomes a cone of the map: the SLAM node's tentative-track      *)
(* frontend (tentative_track_frontend.hpp), the per-cone association of a  *)
(* relocalization (findAssociatedLandmark), the gentle fusion of a match   *)
(* into its landmark, the colour votes, and the map file                   *)
(* (graph_slam_node.cpp).                                                  *)
(*                                                                         *)
(* Two real cones, "a" and "b", stand on a line; positions are decimetres, *)
(* variances square decimetres and travel is metres.  The scene says how   *)
(* far apart they are, what of them is mapped, how long ago it was seen,   *)
(* and by how much the pose has drifted since.                             *)
(***************************************************************************)
EXTENDS Integers, FiniteSets, SequencesExt

CONSTANTS
  Gaps,          \* distances of the two cones on a first pass
  RevisitGap,    \* their distance on a revisit
  Stales,        \* metres since the landmarks were seen, on a revisit
  Drifts,        \* drifts of the pose on a revisit
  LostDrift, LostStale, \* drift that a landmark's gate does not cover, and metres unseen
  Twins,         \* distances of a duplicate landmark of "a"
  Noise,         \* error of a sighting, to either side
  Levers,        \* variances the heading error adds at the ranges seen from
  SensorVar,     \* variance of a sighting
  Step,          \* metres driven between two frames
  MaxFrames,     \* bound: frames of a first pass
  RevisitFrames, \* bound: frames of a revisit
  MaxWrong,      \* bound: sightings of the wrong colour on a first pass
  MaxDistance,   \* association_max_distance
  Gate,          \* association_gate_chi2, in thousandths
  Ratio,         \* association_ambiguity_ratio squared, in hundredths
  MaxInflation,  \* association_max_inflation
  PairSeparation, \* duplicate_pair_max_separation_m
  TrackGate,     \* track_gate_chi2, in thousandths
  TrackDistance, \* track_gate_max_distance
  MinHits, MinVar,   \* track_promote_min_hits and max_sigma, squared
  FarHits, FarVar,   \* track_promote_far_min_hits and far_max_sigma, squared
  HoldRadius, HoldStale, DriftStale,  \* track_promote_hold_*
  KillMisses,    \* track_kill_consecutive_misses
  KillTravel,    \* track_kill_unpromoted_travel
  LoopGap,       \* loop_gap_distance
  RepairHits,    \* loc_map_repair_min_hits
  Floor,         \* min_observation_variance
  TwinRadius     \* registerPromotion's twin_radius

VARIABLES
  scene,       \* the case at hand, as above
  left,        \* frames, wrong colours and calls of the operator left to come
  travelled,   \* traveled_distance_
  landmarks,   \* landmarks_
  tracks,      \* the frontend's tracks_
  last,        \* the last frame: who was seen, refused, and matched with what
  streak,      \* frames in a row in which both cones were seen
  file         \* the map as it was saved

vars == <<scene, left, travelled, landmarks, tracks, last, streak, file>>

Cones == {"a", "b"}
Colours == {"blue", "yellow"}
Colour(c) == IF c = "a" THEN "blue" ELSE "yellow"
Other(c) == IF c = "blue" THEN "yellow" ELSE "blue"
Place(c) == IF c = "a" THEN 0 ELSE scene.gap
Square(n) == n * n
Least(m, n) == IF m < n THEN m ELSE n
Most(m, n) == IF m > n THEN m ELSE n
Distance(p, q) == IF p > q THEN p - q ELSE q - p
Rounded(n, d) == (2 * n + d) \div (2 * d)
Root[n \in Nat] == CHOOSE r \in 0 .. n : Square(r) <= n /\ n < Square(r + 1)

-----------------------------------------------------------------------------
(* A sighting                                                               *)

\* covarianceFromCone and covarianceInMapFrame: never below the floor.
Variance(v) == Most(v, Floor)

\* A track fuses the error of the heading, which grows with range.
Levered(o) == o.var + scene.lever

\* Where a cone is seen, in the map frame of a pose that has drifted.
Sighting(c, error, colour) ==
  [cone |-> c, at |-> Place(c) + scene.drift + error, var |-> Variance(SensorVar),
   colour |-> colour]

-----------------------------------------------------------------------------
(* Colours                                                                  *)

NoVotes == [c \in Colours |-> 0]
VoteColour(votes, c) == [votes EXCEPT ![c] = @ + 1]

\* A bug of this shape: the last label decides.
MajorityLast(votes, label) == label

\* The colour of most votes; the first one on a tie.
Majority(votes, label) == IF votes["yellow"] > votes["blue"] THEN "yellow" ELSE "blue"

\* A cone of the map starts with one vote of its own colour.
Landmark(at, var, seen, colour, of) ==
  [at |-> at, var |-> var, seen |-> seen, votes |-> VoteColour(NoVotes, colour),
   colour |-> colour, of |-> of]

VoteLandmarkColour(l, c) ==
  LET votes == VoteColour(l.votes, c)
  IN [l EXCEPT !.votes = votes, !.colour = Majority(votes, c)]

-----------------------------------------------------------------------------
(* Landmarks that explain a sighting                                        *)

Unseen(l) == Most(0, travelled - l.seen)

\* Whether all landmarks were last seen at the same time.
Even == \A l, m \in landmarks : l.seen = m.seen

\* The drift since the landmark was seen widens its gate, with distance.
Inflation(l) == Least(MaxInflation, Unseen(l))

\* Mahalanobis distance, as a fraction.
Chi2(l, o) == [n |-> Square(l.at - o.at), d |-> l.var + o.var + Inflation(l)]
Below(x, y) == x.n * y.d < y.n * x.d
Within(x, gate) == 1000 * x.n <= gate * x.d

InReach(l, o) == Distance(l.at, o.at) <= MaxDistance + 3 * Root[Inflation(l)]

Explains(l, o) ==
  InReach(l, o) /\ (Within(Chi2(l, o), Gate) \/ Distance(l.at, o.at) <= MaxDistance)

\* The landmarks in reach that no other is better than, and the next ones.
BestOf(ls, o) == {l \in ls : \A m \in ls : ~Below(Chi2(m, o), Chi2(l, o))}

\* A bug of this shape: duplicates are judged as if nothing had drifted.
DuplicateSeparationFresh(l, m) == MaxDistance

\* A duplicate of one cone lies as far off as the drift that spawned it.
DuplicateSeparation(l, m) ==
  Least(PairSeparation,
        MaxDistance + 3 * Root[Most(Inflation(l), Inflation(m))])

\* Two landmarks explain the sighting about equally well, and they are not
\* duplicates of each other.
Rivals(l, m, o) ==
  /\ Within(Chi2(m, o), Gate)
  /\ 100 * Chi2(l, o).n * Chi2(m, o).d > Ratio * Chi2(m, o).n * Chi2(l, o).d
  /\ Distance(l.at, m.at) > DuplicateSeparation(l, m)

\* A bug of this shape: the better of two rivals is good enough.
AmbiguousNever(ls, o) == FALSE

Ambiguous(ls, o) ==
  LET reach == {l \in ls : InReach(l, o)}
  IN \E l \in BestOf(reach, o) :
       \E m \in BestOf(reach \ {l}, o) : Rivals(l, m, o)

-----------------------------------------------------------------------------
(* One frame, assigned as a whole                                           *)

MapCandidates(obs) ==
  {[obs |-> o, map |-> TRUE, to |-> l, chi2 |-> Chi2(l, o)] :
     <<o, l>> \in {p \in obs \X landmarks : Explains(p[2], p[1])}}

TrackChi2(t, o) == [n |-> Square(t.at - o.at), d |-> t.var + Levered(o)]

\* A bug of this shape: whatever is near enough fits a track.
TrackFitsNear(t, o) == Distance(o.at, t.at) <= TrackDistance

TrackFits(t, o) ==
  Distance(o.at, t.at) <= TrackDistance /\ Within(TrackChi2(t, o), TrackGate)

TrackCandidates(obs) ==
  {[obs |-> o, map |-> FALSE, to |-> t, chi2 |-> TrackChi2(t, o)] :
     <<o, t>> \in {p \in obs \X tracks : TrackFits(p[2], p[1])}}

\* A bug of this shape: a landmark takes every cone that fits it.
ClashSharing(c, d) == c.obs = d.obs

\* One sighting per target and one target per sighting.
Clash(c, d) == c.obs = d.obs \/ (c.map = d.map /\ c.to = d.to)

\* The assignments: always the best candidate left; any, on a tie.
RECURSIVE Assignments(_)
Assignments(cands) ==
  IF cands = {} THEN {{}}
  ELSE LET best == {c \in cands : \A d \in cands : ~Below(d.chi2, c.chi2)}
       IN UNION {{{c} \cup rest : rest \in Assignments({d \in cands : ~Clash(c, d)})} :
                   c \in best}

-----------------------------------------------------------------------------
(* Landmarks                                                                *)

\* A stale match is no evidence before the gate has certified the seam.
Dropped(l) == ~scene.loc /\ ~scene.seam /\ Unseen(l) >= LoopGap

\* updateLandmarkEstimate: a third of a Kalman step; a frozen map stays.
Fused(l, o) ==
  LET prior == Most(l.var, Floor) + Floor
      total == prior + o.var
  IN IF scene.loc THEN l
     ELSE [l EXCEPT
             !.at = @ + Rounded(3 * prior * (o.at - @), 10 * total),
             !.var = Most(Floor, prior - Rounded(3 * prior * prior, 10 * total))]

\* A dropped match votes for the colour, and that is all it does.
Matched(l, o) ==
  LET voted == VoteLandmarkColour(l, o.colour)
  IN IF Dropped(l) THEN voted
     ELSE [Fused(voted, o) EXCEPT !.seen = travelled, !.of = @ \cup {o.cone}]

-----------------------------------------------------------------------------
(* Tentative tracks                                                         *)

FoundTrack(o) ==
  [at |-> o.at, var |-> Levered(o), hits |-> 1, misses |-> 0,
   first |-> travelled,
   votes |-> VoteColour(NoVotes, o.colour), label |-> o.colour, of |-> {o.cone}]

UpdateTrack(t, o) ==
  LET total == t.var + Levered(o)
  IN [t EXCEPT !.at = @ + Rounded(t.var * (o.at - @), total),
               !.var = t.var - Rounded(t.var * t.var, total),
               !.hits = Least(FarHits, @ + 1), !.misses = 0,
               !.votes = VoteColour(@, o.colour), !.label = o.colour,
               !.of = @ \cup {o.cone}]

\* Misses count only while the track should be in view.
MissTrack(t) == IF scene.view THEN [t EXCEPT !.misses = @ + 1] ELSE t

Dead(t) == t.misses >= KillMisses \/ travelled - t.first > KillTravel

\* The fused variance, and the lever's that no number of hits averages away.
Promotable(t) ==
  \/ t.hits >= MinHits /\ t.var + scene.lever <= MinVar
  \/ t.hits >= FarHits /\ t.var + scene.lever <= FarVar

HoldReach(l) ==
  HoldRadius + (IF travelled - l.seen >= DriftStale
                THEN 3 * Root[Inflation(l)] ELSE 0)

\* A bug of this shape: nothing is held back.
HeldNever(t) == FALSE

\* A bug of this shape: a neighbour in view holds a track just as well.
HeldByAny(t) == \E l \in landmarks : Distance(l.at, t.at) <= HoldRadius

\* Held beside a landmark that was not seen lately: it may be that cone.
Held(t) ==
  \E l \in landmarks : /\ travelled - l.seen > HoldStale
                       /\ Distance(l.at, t.at) <= HoldReach(l)

\* Registered unless it stands on a landmark; a frozen map asks for more.
Registered(ls, t) ==
  IF \/ scene.loc /\ t.hits < RepairHits
     \/ \E l \in ls : Distance(l.at, t.at) < TwinRadius
  THEN ls
  ELSE ls \cup {Landmark(t.at, Most(t.var, Floor), travelled,
                         Majority(t.votes, t.label), t.of)}

-----------------------------------------------------------------------------
Seen(obs, c) == {o \in obs : o.cone = c}

ProcessFrame(obs, chosen) ==
  LET clear == {o \in obs : ~Ambiguous(landmarks, o)}
      used == {c.obs : c \in chosen}
      hit == {c.to : c \in {x \in chosen : ~x.map}}
      matches == {c \in chosen : c.map}
      refreshed == {IF \E c \in matches : c.to = l
                    THEN Matched(l, (CHOOSE c \in matches : c.to = l).obs) ELSE l :
                      l \in landmarks}
      alive == {t \in {MissTrack(t) : t \in tracks \ hit}
                       \cup {UpdateTrack(c.to, c.obs) : c \in chosen \ matches}
                       \cup {FoundTrack(o) : o \in clear \ used} : ~Dead(t)}
      promoted == {t \in alive : Promotable(t) /\ ~Held(t)}
  IN /\ landmarks' = FoldSet(LAMBDA t, ls : Registered(ls, t), refreshed, promoted)
     /\ tracks' = alive \ promoted
     /\ last' = [obs |-> obs, even |-> Even, refused |-> obs \ clear, born |-> promoted,
                 matches |-> {<<c.obs, c.to>> : c \in matches}]

Frame(obs) ==
  /\ left.frames > 0
  /\ left' = [left EXCEPT !.frames = @ - 1,
                          !.wrong = @ - Cardinality({o \in obs : o.colour # Colour(o.cone)})]
  /\ left'.wrong >= 0
  /\ travelled' = travelled + Step
  /\ streak' = IF Cardinality(obs) = 2 THEN Least(FarHits, streak + 1) ELSE 0
  /\ \E chosen \in Assignments({c \in MapCandidates(obs) \cup TrackCandidates(obs) :
                                  ~Ambiguous(landmarks, c.obs)}) :
       ProcessFrame(obs, chosen)
  /\ UNCHANGED <<scene, file>>

-----------------------------------------------------------------------------
(* The operator                                                             *)

\* One cone of a relocalization: the best landmark that is still free, or none.
FindAssociatedLandmark(free, o) ==
  LET reach == {l \in free : InReach(l, o)}
  IN IF Ambiguous(free, o) THEN {} ELSE {l \in BestOf(reach, o) : Explains(l, o)}

\* The cones of the frame one after the other, blue ones first.
Associated(obs) ==
  FoldLeft(LAMBDA pairs, c :
             pairs \cup UNION {LET free == landmarks \ {p[2] : p \in pairs}
                                   fits == FindAssociatedLandmark(free, o)
                               IN IF fits = {} THEN {}
                                  ELSE {<<o, CHOOSE l \in fits : TRUE>>} :
                                    o \in Seen(obs, c)},
           {}, <<"a", "b">>)

\* The car is put where the last frame fits the map; travel restarts, and no
\* landmark is stale any more.
Relocalize(drift) ==
  /\ left.calls > 0 /\ last.obs # {}
  /\ LET moved == {[o EXCEPT !.at = @ + drift - scene.drift] : o \in last.obs}
     IN last' = [obs |-> moved, even |-> Even, refused |-> {}, born |-> {}, matches |-> Associated(moved)]
  /\ scene' = [scene EXCEPT !.drift = drift]
  /\ travelled' = 0
  /\ left' = [left EXCEPT !.calls = @ - 1, !.frames = 1]
  /\ UNCHANGED <<landmarks, tracks, streak, file>>

SaveMap ==
  /\ left.calls > 0 /\ file = {}
  /\ file' = landmarks
  /\ UNCHANGED <<scene, left, travelled, landmarks, tracks, last, streak>>

\* The loaded map is the reference from then on; of the votes one is left.
LoadMap ==
  /\ left.calls > 0 /\ file # {}
  /\ landmarks' = {Landmark(l.at, l.var, 0, l.colour, l.of) : l \in file}
  /\ scene' = [scene EXCEPT !.loc = TRUE, !.seam = FALSE]
  /\ travelled' = 0 /\ tracks' = {} /\ streak' = 0
  /\ last' = [obs |-> {}, even |-> TRUE, refused |-> {}, born |-> {}, matches |-> {}]
  /\ left' = [left EXCEPT !.calls = @ - 1, !.frames = 1]
  /\ UNCHANGED file

-----------------------------------------------------------------------------
(* A first pass, over unmapped cones or one that is mapped; and a revisit   *)
(* through drift, which a match or a relocalization then takes out.         *)

\* Unmapped cones are in view throughout; beside a mapped one they may hide.
FirstPass ==
  {s \in [gap : Gaps, lever : Levers, drift : {0}, view : BOOLEAN, loc : {FALSE},
          seam : {FALSE}, stale : {0}, twin : {0}, known : {{}, {"a"}}] :
     s.view = (s.known = {})}

Revisit ==
  [gap : {RevisitGap}, lever : Levers, drift : Drifts, view : {TRUE},
   loc : BOOLEAN, seam : BOOLEAN, stale : Stales, twin : {0} \cup Twins,
   known : {Cones}]

\* So much drift since "a" was seen that it looks like another cone.
Lost ==
  [gap : {RevisitGap}, lever : Levers, drift : {LostDrift}, view : {TRUE},
   loc : {FALSE}, seam : {TRUE}, stale : {LostStale}, twin : {0}, known : {{"a"}}]

AssociationInit ==
  /\ scene \in FirstPass \cup Revisit \cup Lost
  /\ left = IF scene.known # Cones
            THEN [frames |-> MaxFrames, wrong |-> MaxWrong, calls |-> 0]
            ELSE [frames |-> RevisitFrames, wrong |-> 0, calls |-> 1]
  /\ travelled = scene.stale
  /\ landmarks = {Landmark(Place(c), SensorVar \div 2, 0, Colour(c), {c}) : c \in scene.known}
                 \cup (IF scene.twin = 0 THEN {}
                       ELSE {Landmark(scene.twin, SensorVar \div 2, 0, "blue", {"a"})})
  /\ tracks = {} /\ streak = 0 /\ file = {}
  /\ last = [obs |-> {}, even |-> TRUE, refused |-> {}, born |-> {}, matches |-> {}]

AssociationNext ==
  \/ \E errors \in UNION {[cs -> {-Noise, Noise}] : cs \in SUBSET Cones} :
       \E wrong \in IF left.wrong > 0 THEN SUBSET (DOMAIN errors) ELSE {{}} :
         Frame({Sighting(c, errors[c], IF c \in wrong THEN Other(Colour(c)) ELSE Colour(c)) :
                  c \in DOMAIN errors})
  \/ \E drift \in Drifts : Relocalize(drift)
  \/ SaveMap
  \/ LoadMap

-----------------------------------------------------------------------------
(* Properties.  The premise of most: landmarks of different cones stand     *)
(* further apart than the radius that always matches.                       *)
Apart == scene.gap - scene.twin > MaxDistance

\* A sighting is never tied to the neighbour's landmark: not through the drift
\* of a lap, not by the assignment of a frame, not by a relocalization
\* (processFrame's gates and ambiguity, findAssociatedLandmark).  It takes
\* landmarks that were last seen together: one that is long unseen outbids the
\* cone's own landmark, because its gate is so wide that any error is small.
OwnLandmark ==
  Apart /\ last.even => \A m \in last.matches : m[1].cone \in m[2].of

\* A duplicate of a cone never makes its sightings ambiguous, at any drift that
\* leaves the cone itself nearer than its neighbour (the drift-scaled
\* duplicate separation: judged without it, "every seam revisit" was refused).
TwinServes ==
  Apart /\ last.even /\ 3 * scene.drift <= scene.gap => last.refused = {}

\* No cone of the map is fused from the sightings of two (the track gate and the
\* mutual exclusion of processFrame).
OneConeEach ==
  Apart /\ scene.stale = 0 => \A l \in landmarks : Cardinality(l.of) = 1

\* No second landmark for a cone, not even when it is seen so far off that it
\* does not associate (the hold of stale neighbours, the twin radius).
MappedOnce ==
  Apart /\ scene.twin = 0 => \A l, m \in landmarks : l.of = m.of => l = m

\* Two cones in view together are both in the map after MinHits frames,
\* however close they stand: neither the hold of promotions nor the gate of
\* the mapped one eats the other (promote_hold_stale_travel_m, landmark_claimed).
BothMapped ==
  scene.stale = 0 /\ streak >= MinHits =>
    \A c \in Cones : \E l \in landmarks : c \in l.of

\* A cone enters the map in the colour of most of its sightings
\* (majorityColor; ColorMajorityVoteSurvivesMislabels).
BornOfMajority ==
  \A t \in last.born : \A l \in landmarks :
    l.of = t.of /\ l.at = t.at => \A c \in Colours : t.votes[l.colour] >= t.votes[c]

=============================================================================
