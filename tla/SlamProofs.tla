----------------------------- MODULE SlamProofs -----------------------------
(***************************************************************************)
(* Proofs about graph SLAM, for every ring, distance, hit count, miss      *)
(* budget and number of slips and calls: no half map is ever frozen.       *)
(***************************************************************************)
EXTENDS GraphSlam, TLAPS

\* What the steps need of a state's shape: the bounds of TLC's instance left out.
LandmarkShape == [cone : Ring, off : Int, first : Nat, last : Nat, misses : Nat]
TrackShape == [cone : Ring, off : Int, hits : Nat, near : BOOLEAN]
PromotionShape == [cone : Ring, off : Int, hits : Nat]
SlamShape ==
  [loc : BOOLEAN, returns : Int, window : BOOLEAN, posed : BOOLEAN, drift : Int,
   travelled : Nat, landmarks : SUBSET LandmarkShape, tracks : SUBSET TrackShape,
   deferred : SUBSET PromotionShape, origin : Int, originAt : Nat, loops : Nat,
   seam : Int, settled : BOOLEAN, due : BOOLEAN, edged : BOOLEAN, csmAt : Int,
   ready : BOOLEAN, converged : BOOLEAN]
CarShape == [at : Ring, slips : Nat, calls : Nat, seen : SUBSET Ring]

\* The car has driven on from the gate, landmark l made there, and is not back yet; or it
\* has seen every place.
Trails(l, s, c) ==
  \/ c.seen = Ring
  \/ /\ s.travelled - l.first \in Ring
     /\ c.at = s.travelled - l.first
     /\ 0 .. c.at \subseteq c.seen

\* While the node maps: nothing is held before the first pose, the seam is closed only by
\* a car that has seen every place, only the pending seam parks a promotion, and a gate in
\* the map is one the car has driven on from.
MapInv(s, c) ==
  ~s.loc =>
    /\ ~s.posed => s.landmarks = {} /\ s.deferred = {} /\ s.loops = 0
    /\ s.posed => c.at \in c.seen
    /\ s.loops > 0 => c.seen = Ring
    /\ s.deferred # {} => s.loops > 0 \/ SeamPending(s)
    /\ s.loops = 0 => \A l \in s.landmarks : l.cone = Gate => Trails(l, s, c)

HalfMapInv == slam \in SlamShape /\ car \in CarShape /\ MapInv(slam, car)

\* A state of a node that has its first pose.
Mapped(s, c) == s \in SlamShape /\ s.posed /\ MapInv(s, c)

\* t is s with other landmarks, tracks and parked promotions: a landmark of the gate in it
\* is one of s, or made where the car is.
Redrawn(s, t, c) ==
  /\ t \in SlamShape
  /\ t.loc = s.loc /\ t.posed = s.posed /\ t.travelled = s.travelled
  /\ t.origin = s.origin /\ t.originAt = s.originAt /\ t.loops = s.loops
  /\ ~s.loc /\ t.deferred # {} => s.deferred # {} \/ SeamPending(s)
  /\ ~s.loc /\ s.loops = 0 =>
       \A l \in t.landmarks : l.cone = Gate =>
         \/ \E m \in s.landmarks : m.cone = Gate /\ m.first = l.first
         \/ c.at = Gate /\ l.first = s.travelled

\* The seam is closed at the gate of the start area, after more travel than founded it.
SeamAfterStart == StartMap < MinTravel

-----------------------------------------------------------------------------
LEMMA GateInRing == Gate \in Ring
  BY SlamAssumption DEF Gate, Ring

(***************************************************************************)
(* What redraws the map keeps its invariant.                               *)
(***************************************************************************)
LEMMA RedrawnIsMapped ==
  ASSUME NEW s, NEW t, NEW c \in CarShape, Mapped(s, c), Redrawn(s, t, c)
  PROVE  Mapped(t, c) /\ t.loc = s.loc
<1>1. t \in SlamShape /\ t.posed /\ t.loc = s.loc /\ s.posed
  BY DEF Mapped, Redrawn
<1>2. ASSUME ~s.loc PROVE MapInv(t, c)
  <2>1. c.at \in c.seen /\ (s.loops > 0 => c.seen = Ring)
        /\ (s.deferred # {} => s.loops > 0 \/ SeamPending(s))
    BY <1>1, <1>2 DEF Mapped, MapInv
  <2>2. t.loops > 0 => c.seen = Ring
    BY <2>1 DEF Redrawn
  <2>3. t.deferred # {} => t.loops > 0 \/ SeamPending(t)
    BY <1>2, <2>1 DEF Redrawn, SeamPending
  <2>4. ASSUME t.loops = 0, NEW l \in t.landmarks, l.cone = Gate PROVE Trails(l, t, c)
    <3>1. s.loops = 0 /\ t.travelled = s.travelled
      BY <2>4 DEF Redrawn
    <3>2. CASE \E m \in s.landmarks : m.cone = Gate /\ m.first = l.first
      <4>1. PICK m \in s.landmarks : m.cone = Gate /\ m.first = l.first
        BY <3>2
      <4>2. Trails(m, s, c)
        BY <1>2, <3>1, <4>1 DEF Mapped, MapInv
      <4>. QED BY <3>1, <4>1, <4>2 DEF Trails
    <3>3. CASE c.at = Gate /\ l.first = s.travelled
      <4>1. s.travelled - s.travelled = 0
        BY DEF Mapped, SlamShape
      <4>2. 0 .. 0 = {0}
        OBVIOUS
      <4>. QED BY <2>1, <3>1, <3>3, <4>1, <4>2, GateInRing DEF Trails, Gate
    <3>. QED BY <1>2, <2>4, <3>1, <3>2, <3>3 DEF Redrawn
  <2>. QED BY <1>1, <2>1, <2>2, <2>3, <2>4 DEF MapInv
<1>. QED BY <1>1, <1>2 DEF Mapped, MapInv

(***************************************************************************)
(* The promotions.                                                         *)
(***************************************************************************)
LEMMA Added ==
  ASSUME NEW s \in SlamShape, NEW ps, \A p \in ps : p.cone \in Ring /\ p.off \in Int
  PROVE  /\ AddLandmarks(s, ps) \in SlamShape
         /\ \A l \in AddLandmarks(s, ps).landmarks :
              l \in s.landmarks \/ \E p \in ps : l.cone = p.cone /\ l.first = s.travelled
<1>. DEFINE New(p) == [cone |-> p.cone, off |-> p.off, first |-> s.travelled,
                       last |-> s.travelled, misses |-> 0]
            M == s.landmarks \cup {New(p) : p \in ps}
<1>1. s.travelled \in Nat /\ s.landmarks \in SUBSET LandmarkShape
  BY DEF SlamShape
<1>2. \A p \in ps : New(p) \in LandmarkShape
  BY <1>1 DEF LandmarkShape
<1>3. M \in SUBSET LandmarkShape
  BY <1>1, <1>2
<1>4. AddLandmarks(s, ps) = [s EXCEPT !.landmarks = M]
  BY DEF AddLandmarks, SlamShape
<1>5. \A l \in M : l \in s.landmarks \/ \E p \in ps : l.cone = p.cone /\ l.first = s.travelled
  OBVIOUS
<1>. HIDE DEF M
<1>6. [s EXCEPT !.landmarks = M] \in SlamShape
  BY <1>3 DEF SlamShape
<1>7. [s EXCEPT !.landmarks = M].landmarks = M
  BY DEF SlamShape
<1>. QED BY <1>4, <1>5, <1>6, <1>7

LEMMA RederivedType ==
  ASSUME NEW s \in SlamShape, NEW p \in PromotionShape
  PROVE  Rederived(s, p) \in PromotionShape /\ Rederived(s, p).cone = p.cone
  BY DEF Rederived, SlamShape, PromotionShape

\* The flush is safe while the node maps, when the seam is not pending: what is still
\* parked then was parked before a seam that is closed.
LEMMA FlushedRedraws ==
  ASSUME NEW s \in SlamShape
  PROVE  /\ Flushed(s) \in SlamShape
         /\ \A c \in CarShape : Mapped(s, c) /\ ~SeamPending(s) => Redrawn(s, Flushed(s), c)
<1>. DEFINE landed == {Rederived(s, p) : p \in s.deferred}
            ps == {p \in landed : ~Twin(s, p)}
            a == AddLandmarks(s, ps)
            f == [a EXCEPT !.deferred = {}]
<1>1. Flushed(s) = f
  BY DEF Flushed
<1>2. \A p \in ps : p.cone \in Ring /\ p.off \in Int
  <2>1. s.deferred \in SUBSET PromotionShape
    BY DEF SlamShape
  <2>2. landed \in SUBSET PromotionShape
    BY <2>1, RederivedType
  <2>. QED BY <2>2 DEF PromotionShape
<1>3. s.deferred = {} => ps = {}
  OBVIOUS
<1>. HIDE DEF ps
<1>4. /\ a \in SlamShape
      /\ \A l \in a.landmarks :
           l \in s.landmarks \/ \E p \in ps : l.cone = p.cone /\ l.first = s.travelled
  BY <1>2, Added
<1>5. /\ a.loc = s.loc /\ a.posed = s.posed /\ a.travelled = s.travelled
      /\ a.origin = s.origin /\ a.originAt = s.originAt /\ a.loops = s.loops
  BY DEF AddLandmarks, SlamShape
<1>. HIDE DEF a
<1>6. /\ f \in SlamShape
      /\ f.loc = a.loc /\ f.posed = a.posed /\ f.travelled = a.travelled
      /\ f.origin = a.origin /\ f.originAt = a.originAt /\ f.loops = a.loops
      /\ f.deferred = {} /\ f.landmarks = a.landmarks
  BY <1>4 DEF SlamShape
<1>7. ASSUME NEW c \in CarShape, Mapped(s, c), ~SeamPending(s), ~s.loc, s.loops = 0
      PROVE  ps = {}
  <2>1. s.deferred = {}
    BY <1>7 DEF Mapped, MapInv
  <2>. QED BY <2>1, <1>3
<1>. HIDE DEF f
<1>. QED BY <1>1, <1>4, <1>5, <1>6, <1>7 DEF Redrawn

LEMMA SameRedraws ==
  ASSUME NEW s \in SlamShape, NEW c \in CarShape
  PROVE  Redrawn(s, s, c)
  BY DEF Redrawn

\* A promotion where the car is.
LEMMA PromotedRedraws ==
  ASSUME NEW s \in SlamShape, NEW c \in CarShape, NEW p \in PromotionShape, p.cone = c.at
  PROVE  Redrawn(s, Promoted(s, p), c)
<1>1. CASE s.loc /\ p.hits < RepairHits
  BY <1>1, SameRedraws DEF Promoted
<1>2. CASE ~(s.loc /\ p.hits < RepairHits) /\ SeamPending(s) /\ NearStartMap(s, p)
  <2>. DEFINE t == [s EXCEPT !.deferred = s.deferred \cup {p}]
  <2>1. t = Promoted(s, p)
    BY <1>2 DEF Promoted
  <2>2. /\ t \in SlamShape
        /\ t.loc = s.loc /\ t.posed = s.posed /\ t.travelled = s.travelled
        /\ t.origin = s.origin /\ t.originAt = s.originAt /\ t.loops = s.loops
        /\ t.landmarks = s.landmarks
    BY DEF SlamShape
  <2>. HIDE DEF t
  <2>. QED BY <1>2, <2>1, <2>2 DEF Redrawn
<1>3. CASE ~(s.loc /\ p.hits < RepairHits) /\ ~(SeamPending(s) /\ NearStartMap(s, p))
  <2>1. Promoted(s, p) = Registered(s, p)
    BY <1>3 DEF Promoted
  <2>2. CASE Twin(s, p)
    BY <2>1, <2>2, SameRedraws DEF Registered
  <2>3. CASE ~Twin(s, p)
    <3>. DEFINE a == AddLandmarks(s, {p})
    <3>1. Promoted(s, p) = a
      BY <2>1, <2>3 DEF Registered
    <3>2. /\ a \in SlamShape
          /\ \A l \in a.landmarks :
               l \in s.landmarks \/ \E q \in {p} : l.cone = q.cone /\ l.first = s.travelled
      <4>1. \A q \in {p} : q.cone \in Ring /\ q.off \in Int
        BY DEF PromotionShape
      <4>. QED BY <4>1, Added
    <3>3. /\ a.loc = s.loc /\ a.posed = s.posed /\ a.travelled = s.travelled
          /\ a.origin = s.origin /\ a.originAt = s.originAt /\ a.loops = s.loops
          /\ a.deferred = s.deferred
      BY DEF AddLandmarks, SlamShape
    <3>. HIDE DEF a
    <3>. QED BY <3>1, <3>2, <3>3 DEF Redrawn
  <2>. QED BY <2>2, <2>3
<1>. QED BY <1>1, <1>2, <1>3

LEMMA TracksRedraw ==
  ASSUME NEW s \in SlamShape, NEW c \in CarShape, NEW T \in SUBSET TrackShape
  PROVE  Redrawn(s, [s EXCEPT !.tracks = T], c)
<1>. DEFINE t == [s EXCEPT !.tracks = T]
<1>1. /\ t \in SlamShape
      /\ t.loc = s.loc /\ t.posed = s.posed /\ t.travelled = s.travelled
      /\ t.origin = s.origin /\ t.originAt = s.originAt /\ t.loops = s.loops
      /\ t.landmarks = s.landmarks /\ t.deferred = s.deferred
  BY DEF SlamShape
<1>. HIDE DEF t
<1>2. Redrawn(s, t, c)
  BY <1>1 DEF Redrawn
<1>. QED BY <1>2 DEF t

\* An observation without a landmark, of the cone where the car is.
LEMMA HitMaps ==
  ASSUME NEW s, NEW c \in CarShape, NEW near \in BOOLEAN, Mapped(s, c)
  PROVE  Mapped(Hit(s, c.at, near), c) /\ Hit(s, c.at, near).loc = s.loc
<1>. DEFINE at == c.at
            old == {t \in s.tracks : t.cone = at /\ t.off = s.drift}
            chosen == CHOOSE t \in old : TRUE
            founded == [cone |-> at, off |-> s.drift, hits |-> 1, near |-> near]
            updated == [chosen EXCEPT !.hits = IF @ < RepairHits THEN @ + 1 ELSE @,
                                      !.near = @ \/ near]
            new == IF old = {} THEN founded ELSE updated
            p == [cone |-> at, off |-> new.off, hits |-> new.hits]
            cut == [s EXCEPT !.tracks = s.tracks \ old]
            put == [s EXCEPT !.tracks = (s.tracks \ old) \cup {new}]
<1>1. Hit(s, c.at, near) = IF Promotable(new) /\ ~Held(s, new) THEN Promoted(cut, p) ELSE put
  BY DEF Hit
<1>2. s \in SlamShape /\ s.tracks \in SUBSET TrackShape /\ s.drift \in Int /\ at \in Ring
  BY DEF Mapped, SlamShape, CarShape
<1>3. new \in TrackShape
  <2>1. CASE old = {}
    <3>1. founded \in TrackShape
      BY <1>2 DEF TrackShape
    <3>. QED BY <2>1, <3>1
  <2>2. CASE old # {}
    <3>1. chosen \in TrackShape
      BY <1>2, <2>2
    <3>. HIDE DEF chosen
    <3>2. /\ (IF chosen.hits < RepairHits THEN chosen.hits + 1 ELSE chosen.hits) \in Nat
          /\ (chosen.near \/ near) \in BOOLEAN
      BY <3>1 DEF TrackShape
    <3>3. \A h \in Nat, b \in BOOLEAN :
            [chosen EXCEPT !.hits = h, !.near = b] \in TrackShape
      BY <3>1 DEF TrackShape
    <3>4. updated \in TrackShape
      BY <3>2, <3>3
    <3>. QED BY <2>2, <3>4
  <2>. QED BY <2>1, <2>2
<1>. HIDE DEF new, old
<1>4. p \in PromotionShape /\ p.cone = c.at
  BY <1>2, <1>3 DEF PromotionShape, TrackShape
<1>5. Redrawn(s, cut, c) /\ Redrawn(s, put, c)
  <2>1. s.tracks \ old \in SUBSET TrackShape /\ (s.tracks \ old) \cup {new} \in SUBSET TrackShape
    BY <1>2, <1>3
  <2>. QED BY <1>2, <2>1, TracksRedraw
<1>. HIDE DEF cut, put, p
<1>6. Mapped(cut, c) /\ cut.loc = s.loc /\ Mapped(put, c) /\ put.loc = s.loc
  BY <1>5, RedrawnIsMapped
<1>7. Mapped(Promoted(cut, p), c) /\ Promoted(cut, p).loc = cut.loc
  <2>1. Redrawn(cut, Promoted(cut, p), c)
    BY <1>4, <1>6, PromotedRedraws DEF Mapped
  <2>. QED BY <1>6, <2>1, RedrawnIsMapped
<1>. QED BY <1>1, <1>6, <1>7

(***************************************************************************)
(* What rewrites landmarks keeps their cone and when they were made.       *)
(***************************************************************************)
LEMMA RewrittenRedraws ==
  ASSUME NEW s \in SlamShape, NEW c \in CarShape, NEW t \in SlamShape,
         t.loc = s.loc, t.posed = s.posed, t.travelled = s.travelled,
         t.origin = s.origin, t.originAt = s.originAt, t.loops = s.loops,
         t.deferred = s.deferred,
         \A l \in t.landmarks : \E m \in s.landmarks : m.cone = l.cone /\ m.first = l.first
  PROVE  Redrawn(s, t, c)
  BY DEF Redrawn

LEMMA ConfirmedRedraws ==
  ASSUME NEW s \in SlamShape, NEW c \in CarShape, NEW l \in s.landmarks
  PROVE  Redrawn(s, Confirmed(s, l), c)
<1>. DEFINE seen == [l EXCEPT !.last = s.travelled]
            L == (s.landmarks \ {l}) \cup {seen}
            r == s.ready \/ (~s.edged /\ Unseen(s, l) >= LoopGap)
            t == [s EXCEPT !.landmarks = L, !.ready = r]
<1>1. t = Confirmed(s, l)
  BY DEF Confirmed
<1>2. s.landmarks \in SUBSET LandmarkShape /\ s.travelled \in Nat /\ s.ready \in BOOLEAN
      /\ s.edged \in BOOLEAN
  BY DEF SlamShape
<1>3. seen \in LandmarkShape /\ seen.cone = l.cone /\ seen.first = l.first
  BY <1>2 DEF LandmarkShape
<1>. HIDE DEF seen
<1>4. L \in SUBSET LandmarkShape
  BY <1>2, <1>3
<1>5. \A k \in L : \E m \in s.landmarks : m.cone = k.cone /\ m.first = k.first
  BY <1>3
<1>6. r \in BOOLEAN
  BY <1>2
<1>. HIDE DEF L, r
<1>7. /\ t \in SlamShape
      /\ t.loc = s.loc /\ t.posed = s.posed /\ t.travelled = s.travelled
      /\ t.origin = s.origin /\ t.originAt = s.originAt /\ t.loops = s.loops
      /\ t.deferred = s.deferred /\ t.landmarks = L
  BY <1>4, <1>6 DEF SlamShape
<1>. HIDE DEF t
<1>. QED BY <1>1, <1>5, <1>7, RewrittenRedraws

LEMMA ReapedRedraws ==
  ASSUME NEW s \in SlamShape, NEW c \in CarShape, NEW used
  PROVE  Redrawn(s, Reaped(s, c.at, used), c)
<1>. DEFINE missed == {l \in s.landmarks : /\ l.cone = c.at
                                           /\ l.cone # Gate
                                           /\ <<l.cone, l.off>> \notin used}
            hit == {l \in s.landmarks : <<l.cone, l.off>> \in used}
            H == {[l EXCEPT !.misses = 0] : l \in hit}
            M == {[l EXCEPT !.misses = @ + 1] :
                    l \in {l \in missed : l.misses + 1 < MissBudget}}
            L == (s.landmarks \ (missed \cup hit)) \cup H \cup M
            t == [s EXCEPT !.landmarks = L]
<1>1. t = Reaped(s, c.at, used)
  BY DEF Reaped
<1>2. s.landmarks \in SUBSET LandmarkShape
  BY DEF SlamShape
<1>3. \A l \in s.landmarks, n \in Nat :
        /\ [l EXCEPT !.misses = n] \in LandmarkShape
        /\ [l EXCEPT !.misses = n].cone = l.cone
        /\ [l EXCEPT !.misses = n].first = l.first
  BY <1>2 DEF LandmarkShape
<1>4. \A k \in H : /\ k \in LandmarkShape
                   /\ \E m \in s.landmarks : m.cone = k.cone /\ m.first = k.first
  <2>. SUFFICES ASSUME NEW k \in H
                PROVE  /\ k \in LandmarkShape
                       /\ \E m \in s.landmarks : m.cone = k.cone /\ m.first = k.first
    OBVIOUS
  <2>1. PICK l \in s.landmarks : k = [l EXCEPT !.misses = 0]
    OBVIOUS
  <2>. QED BY <1>3, <2>1
<1>5. \A k \in M : /\ k \in LandmarkShape
                   /\ \E m \in s.landmarks : m.cone = k.cone /\ m.first = k.first
  <2>. SUFFICES ASSUME NEW k \in M
                PROVE  /\ k \in LandmarkShape
                       /\ \E m \in s.landmarks : m.cone = k.cone /\ m.first = k.first
    OBVIOUS
  <2>1. PICK l \in s.landmarks : k = [l EXCEPT !.misses = @ + 1]
    OBVIOUS
  <2>2. l.misses + 1 \in Nat
    BY <1>2 DEF LandmarkShape
  <2>3. k = [l EXCEPT !.misses = l.misses + 1]
    BY <2>1
  <2>. QED BY <1>3, <2>2, <2>3
<1>. HIDE DEF H, M
<1>6. /\ L \in SUBSET LandmarkShape
      /\ \A k \in L : \E m \in s.landmarks : m.cone = k.cone /\ m.first = k.first
  BY <1>2, <1>4, <1>5
<1>. HIDE DEF L
<1>7. /\ t \in SlamShape
      /\ t.loc = s.loc /\ t.posed = s.posed /\ t.travelled = s.travelled
      /\ t.origin = s.origin /\ t.originAt = s.originAt /\ t.loops = s.loops
      /\ t.deferred = s.deferred /\ t.landmarks = L
  BY <1>6 DEF SlamShape
<1>. HIDE DEF t
<1>. QED BY <1>1, <1>6, <1>7, RewrittenRedraws

LEMMA OptimizedRedraws ==
  ASSUME NEW s \in SlamShape, NEW c \in CarShape
  PROVE  Redrawn(s, MaybeOptimize(s), c)
<1>. DEFINE S == {[l EXCEPT !.off = s.seam] : l \in s.landmarks}
            L == IF s.loops > 0 /\ ~s.loc THEN S ELSE s.landmarks
            settled == (s.loops > 0) \/ s.settled
            ready == s.ready /\ s.converged
            converged == s.converged \/ s.ready
            t == [s EXCEPT !.due = FALSE, !.settled = settled, !.landmarks = L,
                           !.ready = ready, !.converged = converged]
<1>1. Optimized(s) = t
  BY DEF Optimized, SlamShape
<1>2. s.landmarks \in SUBSET LandmarkShape /\ s.seam \in Int
      /\ s.settled \in BOOLEAN /\ s.ready \in BOOLEAN /\ s.converged \in BOOLEAN
  BY DEF SlamShape
<1>3. \A l \in s.landmarks :
        /\ [l EXCEPT !.off = s.seam] \in LandmarkShape
        /\ [l EXCEPT !.off = s.seam].cone = l.cone
        /\ [l EXCEPT !.off = s.seam].first = l.first
  BY <1>2 DEF LandmarkShape
<1>4. /\ L \in SUBSET LandmarkShape
      /\ \A k \in L : \E m \in s.landmarks : m.cone = k.cone /\ m.first = k.first
  BY <1>2, <1>3
<1>5. settled \in BOOLEAN /\ ready \in BOOLEAN /\ converged \in BOOLEAN
  BY <1>2
<1>. HIDE DEF L, settled, ready, converged
<1>6. /\ t \in SlamShape
      /\ t.loc = s.loc /\ t.posed = s.posed /\ t.travelled = s.travelled
      /\ t.origin = s.origin /\ t.originAt = s.originAt /\ t.loops = s.loops
      /\ t.deferred = s.deferred /\ t.landmarks = L
  <2>1. t \in SlamShape
    BY <1>4, <1>5 DEF SlamShape
  <2>2. /\ t.loc = s.loc /\ t.posed = s.posed /\ t.travelled = s.travelled
        /\ t.origin = s.origin /\ t.originAt = s.originAt /\ t.loops = s.loops
        /\ t.deferred = s.deferred /\ t.landmarks = L
    BY DEF SlamShape
  <2>. QED BY <2>1, <2>2
<1>. HIDE DEF t
<1>7. Redrawn(s, t, c)
  BY <1>4, <1>6, RewrittenRedraws
<1>. QED BY <1>1, <1>7, SameRedraws DEF MaybeOptimize

(***************************************************************************)
(* The registration closes the seam only when every place has been seen:   *)
(* the gate of the start area, in view again after more travel than it     *)
(* was made within.                                                        *)
(***************************************************************************)
LEMMA SeamClosesOnRing ==
  ASSUME SeamAfterStart, NEW s, NEW c \in CarShape, Mapped(s, c), NEW seen \in {{}, {c.at}},
         SeamTargets(s, seen) # {}
  PROVE  ~s.loc /\ c.seen = Ring
<1>1. PICK l \in s.landmarks : /\ ~s.loc /\ seen = {Gate} /\ l.cone = Gate
                               /\ s.travelled - s.originAt >= MinTravel
                               /\ l.first <= s.originAt + StartMap
  BY DEF SeamTargets
<1>2. c.at = Gate
  BY <1>1
<1>3. /\ s.travelled \in Nat /\ s.originAt \in Nat /\ l.first \in Nat /\ s.loops \in Nat
      /\ StartMap \in Nat /\ MinTravel \in Nat
  BY <1>1, SlamAssumption DEF Mapped, SlamShape, LandmarkShape
<1>4. s.travelled - l.first # 0
  BY <1>1, <1>3 DEF SeamAfterStart
<1>5. CASE s.loops = 0
  <2>1. Trails(l, s, c)
    BY <1>1, <1>5 DEF Mapped, MapInv
  <2>. QED BY <1>1, <1>2, <1>4, <2>1 DEF Trails, Gate
<1>6. CASE s.loops > 0
  BY <1>1, <1>6 DEF Mapped, MapInv
<1>. QED BY <1>3, <1>5, <1>6

LEMMA CsmAppliedMaps ==
  ASSUME SeamAfterStart, NEW s, NEW c \in CarShape, Mapped(s, c), NEW seen \in {{}, {c.at}},
         CsmTargets(s, seen) # {}
  PROVE  Mapped(CsmApplied(s, seen), c) /\ CsmApplied(s, seen).loc = s.loc
<1>. DEFINE chosen == CHOOSE l \in CsmTargets(s, seen) : TRUE
            pose == chosen.off
            loop == SeamTargets(s, seen) # {}
            closed == [s EXCEPT !.loops = s.loops + 1, !.seam = pose]
            certified == IF loop THEN closed ELSE s
            due == loop \/ certified.due
            moved == [certified EXCEPT !.drift = pose, !.tracks = {}, !.due = due]
<1>1. CsmApplied(s, seen) = IF pose = s.drift THEN certified ELSE moved
  BY DEF CsmApplied
<1>2. pose \in Int
  <2>1. chosen \in CsmTargets(s, seen)
    OBVIOUS
  <2>2. chosen \in s.landmarks
    BY <2>1 DEF CsmTargets, SeamTargets
  <2>3. chosen \in LandmarkShape
    BY <2>2 DEF Mapped, SlamShape
  <2>. QED BY <2>3 DEF LandmarkShape
<1>. HIDE DEF pose
<1>3. s \in SlamShape /\ s.posed /\ s.loops \in Nat /\ s.due \in BOOLEAN
  BY DEF Mapped, SlamShape
<1>4. Mapped(certified, c) /\ certified.loc = s.loc
  <2>1. CASE loop
    <3>1. ~s.loc /\ c.seen = Ring
      BY <2>1, SeamClosesOnRing
    <3>2. /\ closed \in SlamShape
          /\ closed.loc = s.loc /\ closed.posed = s.posed
          /\ closed.loops = s.loops + 1
      <4>1. s.loops + 1 \in Nat
        BY <1>3
      <4>2. \A n \in Nat : LET q == [s EXCEPT !.loops = n, !.seam = pose]
                           IN /\ q \in SlamShape
                              /\ q.loc = s.loc /\ q.posed = s.posed /\ q.loops = n
        BY <1>2, <1>3 DEF SlamShape
      <4>. QED BY <4>1, <4>2
    <3>3. c.at \in c.seen
      BY <3>1 DEF CarShape
    <3>. HIDE DEF closed
    <3>4. MapInv(closed, c)
      <4>1. closed.loops > 0 /\ closed.loops # 0 /\ closed.posed
        BY <1>3, <3>2
      <4>. QED BY <3>1, <3>3, <4>1 DEF MapInv
    <3>5. Mapped(closed, c) /\ closed.loc = s.loc
      BY <1>3, <3>2, <3>4 DEF Mapped
    <3>. QED BY <2>1, <3>5
  <2>2. CASE ~loop
    BY <2>2
  <2>. QED BY <2>1, <2>2
<1>. HIDE DEF certified
<1>5. Redrawn(certified, moved, c)
  <2>1. due \in BOOLEAN
    BY <1>4 DEF Mapped, SlamShape
  <2>. HIDE DEF due
  <2>2. certified \in SlamShape
    BY <1>4 DEF Mapped
  <2>3. /\ moved \in SlamShape
        /\ moved.loc = certified.loc /\ moved.posed = certified.posed
        /\ moved.travelled = certified.travelled
        /\ moved.origin = certified.origin /\ moved.originAt = certified.originAt
        /\ moved.loops = certified.loops
        /\ moved.deferred = certified.deferred /\ moved.landmarks = certified.landmarks
    BY <1>2, <2>1, <2>2 DEF SlamShape
  <2>. HIDE DEF moved
  <2>. QED BY <2>3 DEF Redrawn
<1>. HIDE DEF moved
<1>6. Mapped(moved, c) /\ moved.loc = certified.loc
  BY <1>4, <1>5, RedrawnIsMapped
<1>. QED BY <1>1, <1>4, <1>6

LEMMA RegistrationMaps ==
  ASSUME SeamAfterStart, NEW s, NEW c \in CarShape, Mapped(s, c), NEW seen \in {{}, {c.at}},
         NEW locks \in BOOLEAN
  PROVE  /\ Mapped(MaybeCsmRegister(s, seen, locks), c)
         /\ MaybeCsmRegister(s, seen, locks).loc = s.loc
<1>. DEFINE tried == [s EXCEPT !.csmAt = s.travelled]
<1>1. Redrawn(s, tried, c)
  <2>1. s \in SlamShape
    BY DEF Mapped
  <2>2. /\ tried \in SlamShape
        /\ tried.loc = s.loc /\ tried.posed = s.posed /\ tried.travelled = s.travelled
        /\ tried.origin = s.origin /\ tried.originAt = s.originAt /\ tried.loops = s.loops
        /\ tried.landmarks = s.landmarks /\ tried.deferred = s.deferred
    BY <2>1 DEF SlamShape
  <2>. HIDE DEF tried
  <2>. QED BY <2>2 DEF Redrawn
<1>2. \/ MaybeCsmRegister(s, seen, locks) = s
      \/ MaybeCsmRegister(s, seen, locks) = tried
      \/ /\ MaybeCsmRegister(s, seen, locks) = CsmApplied(tried, seen)
         /\ CsmTargets(s, seen) # {}
  BY DEF MaybeCsmRegister
<1>3. CsmTargets(tried, seen) = CsmTargets(s, seen)
  <2>1. /\ tried.loc = s.loc /\ tried.travelled = s.travelled /\ tried.loops = s.loops
        /\ tried.origin = s.origin /\ tried.originAt = s.originAt
        /\ tried.landmarks = s.landmarks
    BY DEF Mapped, SlamShape
  <2>. HIDE DEF tried
  <2>. QED BY <2>1 DEF CsmTargets, SeamTargets
<1>. HIDE DEF tried
<1>4. Mapped(tried, c) /\ tried.loc = s.loc
  BY <1>1, RedrawnIsMapped
<1>5. ASSUME CsmTargets(tried, seen) # {}
      PROVE  Mapped(CsmApplied(tried, seen), c) /\ CsmApplied(tried, seen).loc = tried.loc
  BY <1>4, <1>5, CsmAppliedMaps
<1>. QED BY <1>2, <1>3, <1>4, <1>5

(***************************************************************************)
(* A frame of cones.                                                       *)
(***************************************************************************)
LEMMA ObservationsMap ==
  ASSUME SeamAfterStart, NEW s, NEW c \in CarShape, Mapped(s, c), NEW seen \in {{}, {c.at}},
         NEW near \in BOOLEAN, NEW locks \in BOOLEAN, NEW loose \in BOOLEAN
  PROVE  /\ Mapped(AddConeObservations(s, c.at, seen, near, locks, loose).state, c)
         /\ AddConeObservations(s, c.at, seen, near, locks, loose).state.loc = s.loc
<1>. DEFINE reg == MaybeCsmRegister(s, seen, locks)
            matched == UNION {Matches(reg, k, loose) : k \in seen}
            kept == {l \in matched : ~Dropped(reg, l)}
            confirmed == IF kept = {} THEN reg
                         ELSE Confirmed(reg, CHOOSE l \in kept : TRUE)
            flushed == IF ~SeamPending(confirmed) /\ ~s.loc /\ ~confirmed.due
                       THEN Flushed(confirmed) ELSE confirmed
            grown == IF matched = {} /\ seen # {}
                     THEN Hit(flushed, CHOOSE k \in seen : TRUE, near)
                     ELSE flushed
            born == IF matched = {} THEN grown.landmarks \ flushed.landmarks ELSE {}
            used == {<<l.cone, l.off>> : l \in born \cup kept}
            final == IF s.edged THEN grown ELSE Reaped(grown, c.at, used)
<1>1. AddConeObservations(s, c.at, seen, near, locks, loose).state = final
  BY DEF AddConeObservations
<1>2. Mapped(reg, c) /\ reg.loc = s.loc
  BY RegistrationMaps
<1>3. matched \subseteq reg.landmarks
  <2>1. \A k \in seen : Matches(reg, k, loose) \subseteq reg.landmarks
    BY DEF Matches
  <2>. HIDE DEF reg
  <2>. QED BY <2>1
<1>. HIDE DEF reg, matched
<1>4. Mapped(confirmed, c) /\ confirmed.loc = s.loc
  <2>1. CASE kept = {}
    BY <1>2, <2>1
  <2>2. CASE kept # {}
    <3>. DEFINE l == CHOOSE l \in kept : TRUE
    <3>1. l \in reg.landmarks
      BY <1>3, <2>2
    <3>2. confirmed = Confirmed(reg, l)
      BY <2>2
    <3>. HIDE DEF l, confirmed
    <3>3. Redrawn(reg, Confirmed(reg, l), c)
      BY <1>2, <3>1, ConfirmedRedraws DEF Mapped
    <3>. QED BY <1>2, <3>2, <3>3, RedrawnIsMapped
  <2>. QED BY <2>1, <2>2
<1>. HIDE DEF kept, confirmed
<1>5. Mapped(flushed, c) /\ flushed.loc = s.loc
  <2>1. CASE ~SeamPending(confirmed) /\ ~s.loc /\ ~confirmed.due
    <3>1. Redrawn(confirmed, Flushed(confirmed), c)
      BY <1>4, <2>1, FlushedRedraws DEF Mapped
    <3>2. flushed = Flushed(confirmed)
      BY <2>1
    <3>. QED BY <1>4, <3>1, <3>2, RedrawnIsMapped
  <2>2. CASE ~(~SeamPending(confirmed) /\ ~s.loc /\ ~confirmed.due)
    BY <1>4, <2>2
  <2>. QED BY <2>1, <2>2
<1>. HIDE DEF flushed
<1>6. Mapped(grown, c) /\ grown.loc = s.loc
  <2>1. CASE matched = {} /\ seen # {}
    <3>1. (CHOOSE k \in seen : TRUE) = c.at
      BY <2>1
    <3>2. grown = Hit(flushed, c.at, near)
      BY <2>1, <3>1
    <3>. HIDE DEF grown
    <3>3. Mapped(Hit(flushed, c.at, near), c) /\ Hit(flushed, c.at, near).loc = flushed.loc
      BY <1>5, HitMaps
    <3>. QED BY <1>5, <3>2, <3>3
  <2>2. CASE ~(matched = {} /\ seen # {})
    BY <1>5, <2>2
  <2>. QED BY <2>1, <2>2
<1>. HIDE DEF grown, used
<1>7. Mapped(Reaped(grown, c.at, used), c) /\ Reaped(grown, c.at, used).loc = s.loc
  <2>1. Redrawn(grown, Reaped(grown, c.at, used), c)
    BY <1>6, ReapedRedraws DEF Mapped
  <2>. QED BY <1>6, <2>1, RedrawnIsMapped
<1>. QED BY <1>1, <1>6, <1>7

LEMMA ConesStep ==
  ASSUME SeamAfterStart, car \in CarShape, slam \in SlamShape, MapInv(slam, car),
         NEW seen \in {{}, {car.at}}, NEW near \in BOOLEAN, NEW locks \in BOOLEAN,
         NEW loose \in BOOLEAN, NEW limited \in BOOLEAN,
         ConesCallback(seen, near, locks, loose, limited)
  PROVE  slam' \in SlamShape /\ MapInv(slam', car) /\ slam'.loc = slam.loc /\ car' = car
<1>. DEFINE u == AddConeObservations(slam, car.at, seen, near, locks, loose)
            solved == IF u.edges /\ ~limited THEN MaybeOptimize(u.state) ELSE u.state
            t == [solved EXCEPT !.edged = TRUE]
<1>1. slam' = t /\ car' = car /\ Mapped(slam, car)
  BY DEF ConesCallback, Mapped
<1>2. Mapped(u.state, car) /\ u.state.loc = slam.loc
  <2>1. Mapped(slam, car)
    BY <1>1
  <2>. HIDE DEF solved, t
  <2>2. \A x \in {{}, {car.at}}, n \in BOOLEAN, k \in BOOLEAN, o \in BOOLEAN :
          /\ Mapped(AddConeObservations(slam, car.at, x, n, k, o).state, car)
          /\ AddConeObservations(slam, car.at, x, n, k, o).state.loc = slam.loc
    BY <2>1, ObservationsMap
  <2>3. /\ Mapped(AddConeObservations(slam, car.at, seen, near, locks, loose).state, car)
        /\ AddConeObservations(slam, car.at, seen, near, locks, loose).state.loc = slam.loc
    BY <2>2
  <2>. QED BY <2>3
<1>. HIDE DEF u
<1>3. Mapped(solved, car) /\ solved.loc = slam.loc
  <2>1. Redrawn(u.state, MaybeOptimize(u.state), car)
    BY <1>2, OptimizedRedraws DEF Mapped
  <2>2. Mapped(MaybeOptimize(u.state), car) /\ MaybeOptimize(u.state).loc = slam.loc
    BY <1>2, <2>1, RedrawnIsMapped
  <2>. QED BY <1>2, <2>2
<1>. HIDE DEF solved
<1>4. Redrawn(solved, t, car)
  <2>1. solved \in SlamShape
    BY <1>3 DEF Mapped
  <2>2. /\ t \in SlamShape
        /\ t.loc = solved.loc /\ t.posed = solved.posed /\ t.travelled = solved.travelled
        /\ t.origin = solved.origin /\ t.originAt = solved.originAt /\ t.loops = solved.loops
        /\ t.landmarks = solved.landmarks /\ t.deferred = solved.deferred
    BY <2>1 DEF SlamShape
  <2>. HIDE DEF t
  <2>. QED BY <2>2 DEF Redrawn
<1>. HIDE DEF t
<1>5. Mapped(t, car) /\ t.loc = solved.loc
  BY <1>3, <1>4, RedrawnIsMapped
<1>. QED BY <1>1, <1>3, <1>5 DEF Mapped

(***************************************************************************)
(* The end of the mapping lap: the map freezes only once a seam is closed. *)
(***************************************************************************)
LEMMA EnteredShape ==
  ASSUME NEW s \in SlamShape
  PROVE  EnterLocalizationMode(s) \in SlamShape /\ EnterLocalizationMode(s).loc
<1>. DEFINE f == Flushed(s)
            L == {[l EXCEPT !.misses = 0] : l \in f.landmarks}
            t == [f EXCEPT !.tracks = {}, !.loc = TRUE, !.landmarks = L]
<1>1. EnterLocalizationMode(s) = t
  BY DEF EnterLocalizationMode
<1>2. f \in SlamShape
  BY FlushedRedraws
<1>. HIDE DEF f
<1>3. L \in SUBSET LandmarkShape
  <2>1. \A l \in f.landmarks : [l EXCEPT !.misses = 0] \in LandmarkShape
    BY <1>2 DEF SlamShape, LandmarkShape
  <2>. QED BY <2>1
<1>. HIDE DEF L
<1>4. t \in SlamShape /\ t.loc
  BY <1>2, <1>3 DEF SlamShape
<1>. QED BY <1>1, <1>4

LEMMA FinishStep ==
  ASSUME NEW s \in SlamShape, NEW c \in CarShape, Mapped(s, c), ~s.loc,
         NEW back \in BOOLEAN
  PROVE  LET t == MaybeFinishMappingLap(s, back)
         IN t \in SlamShape /\ MapInv(t, c) /\ (t.loc => c.seen = Ring)
<1>. DEFINE far == [s EXCEPT !.window = FALSE]
            n == IF s.window \/ s.returns = ReturnsToFreeze THEN s.returns ELSE s.returns + 1
            r == [s EXCEPT !.window = TRUE, !.returns = n]
            t == MaybeFinishMappingLap(s, back)
<1>1. \/ t = s
      \/ t = far
      \/ t = r
      \/ s.loops # 0 /\ t = EnterLocalizationMode(r)
  BY DEF MaybeFinishMappingLap
<1>2. n \in Int
  BY DEF SlamShape
<1>. HIDE DEF n, t
<1>3. Redrawn(s, far, c) /\ Redrawn(s, r, c)
  <2>1. /\ far \in SlamShape
        /\ far.loc = s.loc /\ far.posed = s.posed /\ far.travelled = s.travelled
        /\ far.origin = s.origin /\ far.originAt = s.originAt /\ far.loops = s.loops
        /\ far.landmarks = s.landmarks /\ far.deferred = s.deferred
    BY DEF SlamShape
  <2>2. /\ r \in SlamShape
        /\ r.loc = s.loc /\ r.posed = s.posed /\ r.travelled = s.travelled
        /\ r.origin = s.origin /\ r.originAt = s.originAt /\ r.loops = s.loops
        /\ r.landmarks = s.landmarks /\ r.deferred = s.deferred
    BY <1>2 DEF SlamShape
  <2>. HIDE DEF far, r
  <2>. QED BY <2>1, <2>2 DEF Redrawn
<1>. HIDE DEF far, r
<1>4. Mapped(far, c) /\ far.loc = s.loc /\ Mapped(r, c) /\ r.loc = s.loc
  BY <1>3, RedrawnIsMapped
<1>5. CASE s.loops # 0 /\ t = EnterLocalizationMode(r)
  <2>1. t \in SlamShape /\ t.loc
    BY <1>4, <1>5, EnteredShape DEF Mapped
  <2>2. c.seen = Ring
    BY <1>5 DEF Mapped, MapInv, SlamShape
  <2>3. MapInv(t, c)
    BY <2>1 DEF MapInv
  <2>. QED BY <2>1, <2>2, <2>3 DEF t
<1>6. CASE t = s \/ t = far \/ t = r
  BY <1>4, <1>6 DEF Mapped, t
<1>. QED BY <1>1, <1>5, <1>6

(***************************************************************************)
(* A keyframe: the car goes on from the gate, and from the last place of   *)
(* the ring back to it with every place seen.                              *)
(***************************************************************************)
LEMMA NextPlace ==
  ASSUME NEW at \in Ring
  PROVE  /\ at # Places - 1 => (at + 1) % Places = at + 1 /\ at + 1 \in Ring
         /\ at = Places - 1 => (at + 1) % Places = 0
         /\ (at + 0) % Places = at
<1>1. Places \in Nat \ {0} /\ at \in 0 .. Places - 1
  BY SlamAssumption DEF Ring
<1>2. at # Places - 1 => (at + 1) % Places = at + 1 /\ at + 1 \in Ring
  BY <1>1 DEF Ring
<1>3. at = Places - 1 => (at + 1) % Places = 0
  BY <1>1
<1>4. (at + 0) % Places = at
  BY <1>1
<1>. QED BY <1>2, <1>3, <1>4

LEMMA TrailGrows ==
  ASSUME NEW s \in SlamShape, NEW t \in SlamShape, NEW c \in CarShape, NEW d \in CarShape,
         NEW l \in LandmarkShape, NEW step \in {0, 1}, Trails(l, s, c),
         t.travelled = s.travelled + step,
         d.at = (c.at + step) % Places, d.seen = c.seen \cup {d.at}
  PROVE  Trails(l, t, d)
<1>1. c.at \in Ring /\ d.at \in Ring /\ c.seen \subseteq Ring /\ d.seen \subseteq Ring
  BY DEF CarShape
<1>2. s.travelled \in Nat /\ t.travelled \in Nat /\ l.first \in Nat /\ Places \in Nat \ {0}
  BY SlamAssumption DEF SlamShape, LandmarkShape
<1>3. CASE c.seen = Ring
  BY <1>1, <1>3 DEF Trails
<1>4. CASE c.seen # Ring
  <2>1. /\ s.travelled - l.first \in Ring
        /\ c.at = s.travelled - l.first
        /\ 0 .. c.at \subseteq c.seen
    BY <1>4 DEF Trails
  <2>2. CASE step = 0
    <3>1. d.at = c.at /\ t.travelled = s.travelled
      <4>1. (c.at + 0) % Places = c.at
        BY <1>1, NextPlace
      <4>. QED BY <1>2, <2>2, <4>1
    <3>. QED BY <2>1, <3>1 DEF Trails
  <2>3. CASE step = 1
    <3>1. CASE c.at = Places - 1
      <4>1. 0 .. c.at = Ring
        BY <3>1 DEF Ring
      <4>. QED BY <1>1, <1>4, <2>1, <4>1
    <3>2. CASE c.at # Places - 1
      <4>1. d.at = c.at + 1
        BY <1>1, <2>3, <3>2, NextPlace
      <4>2. 0 .. d.at \subseteq d.seen
        BY <1>1, <2>1, <4>1 DEF Ring
      <4>3. t.travelled - l.first = d.at
        BY <1>1, <1>2, <2>1, <2>3, <4>1 DEF Ring
      <4>. QED BY <1>1, <4>2, <4>3 DEF Trails
    <3>. QED BY <3>1, <3>2
  <2>. QED BY <2>2, <2>3
<1>. QED BY <1>3, <1>4

LEMMA KeyframeStep ==
  ASSUME car \in CarShape, slam \in SlamShape, MapInv(slam, car),
         NEW step \in {0, 1}, NEW slip \in Int, AddKeyframe(step, slip)
  PROVE  /\ car' \in CarShape /\ slam' \in SlamShape /\ MapInv(slam', car')
         /\ ~slam.loc /\ slam'.loc => car'.seen = Ring
<1>. DEFINE at == (car.at + step) % Places
            moved == [slam EXCEPT !.travelled = slam.travelled + step,
                                  !.drift = slam.drift + slip,
                                  !.due = TRUE, !.edged = FALSE]
            opened == [moved EXCEPT !.origin = at, !.originAt = moved.travelled]
            known == IF ~slam.loc /\ slam.origin = None /\ moved.travelled >= OriginTravel
                     THEN opened ELSE moved
            d == [car EXCEPT !.at = at, !.slips = IF slip > 0 THEN @ + 1 ELSE @,
                             !.seen = @ \cup {at}]
<1>1. /\ slam.posed /\ car' = d
      /\ slam.loc => slam' = known
      /\ ~slam.loc => \E back \in BOOLEAN : slam' = MaybeFinishMappingLap(known, back)
  <2>1. Returns(known, at) \subseteq BOOLEAN
    BY DEF Returns
  <2>. QED BY <2>1 DEF AddKeyframe
<1>2. at \in Ring
  <2>1. car.at \in Ring
    BY DEF CarShape
  <2>. QED BY <2>1, NextPlace, GateInRing DEF Gate
<1>. HIDE DEF at
<1>3. d \in CarShape /\ d.at = at /\ d.seen = car.seen \cup {at}
  <2>1. (IF slip > 0 THEN car.slips + 1 ELSE car.slips) \in Nat
    BY DEF CarShape
  <2>. QED BY <1>2, <2>1 DEF CarShape
<1>4. /\ moved \in SlamShape
      /\ moved.loc = slam.loc /\ moved.posed = slam.posed /\ moved.loops = slam.loops
      /\ moved.travelled = slam.travelled + step
      /\ moved.origin = slam.origin /\ moved.originAt = slam.originAt
      /\ moved.landmarks = slam.landmarks /\ moved.deferred = slam.deferred
  <2>1. slam.travelled + step \in Nat /\ slam.drift + slip \in Int
    BY DEF SlamShape
  <2>. QED BY <2>1 DEF SlamShape
<1>. HIDE DEF moved
<1>5. /\ opened \in SlamShape
      /\ opened.loc = moved.loc /\ opened.posed = moved.posed /\ opened.loops = moved.loops
      /\ opened.travelled = moved.travelled
      /\ opened.landmarks = moved.landmarks /\ opened.deferred = moved.deferred
  <2>1. at \in Int
    BY <1>2, SlamAssumption DEF Ring
  <2>2. moved.travelled \in Nat
    BY <1>4 DEF SlamShape
  <2>. QED BY <1>4, <2>1, <2>2 DEF SlamShape
<1>. HIDE DEF opened, d
<1>6. /\ known \in SlamShape
      /\ known.loc = slam.loc /\ known.posed = slam.posed /\ known.loops = slam.loops
      /\ known.travelled = slam.travelled + step
      /\ known.landmarks = slam.landmarks /\ known.deferred = slam.deferred
      /\ slam.origin # None => known.origin = slam.origin /\ known.originAt = slam.originAt
  BY <1>4, <1>5
<1>. HIDE DEF known
<1>7. ASSUME ~slam.loc PROVE MapInv(known, d)
  <2>1. d.at \in d.seen /\ known.posed
    BY <1>1, <1>3, <1>6
  <2>2. known.loops > 0 => d.seen = Ring
    <3>1. car.seen = Ring => d.seen = Ring
      BY <1>2, <1>3
    <3>. QED BY <1>6, <1>7, <3>1 DEF MapInv
  <2>3. known.deferred # {} => known.loops > 0 \/ SeamPending(known)
    <3>1. SeamPending(slam) => SeamPending(known)
      BY <1>6, SlamAssumption DEF SeamPending, SlamShape
    <3>. QED BY <1>6, <1>7, <3>1 DEF MapInv
  <2>4. ASSUME known.loops = 0, NEW l \in known.landmarks, l.cone = Gate
        PROVE  Trails(l, known, d)
    <3>1. Trails(l, slam, car)
      BY <1>6, <1>7, <2>4 DEF MapInv
    <3>2. l \in LandmarkShape
      BY <1>6 DEF SlamShape
    <3>3. d.at = (car.at + step) % Places /\ d.seen = car.seen \cup {d.at}
      BY <1>3 DEF at
    <3>. QED BY <1>3, <1>6, <3>1, <3>2, <3>3, TrailGrows
  <2>. QED BY <2>1, <2>2, <2>3, <2>4 DEF MapInv
<1>8. CASE slam.loc
  BY <1>1, <1>3, <1>6, <1>8 DEF MapInv
<1>9. CASE ~slam.loc
  <2>1. PICK back \in BOOLEAN : slam' = MaybeFinishMappingLap(known, back)
    BY <1>1, <1>9
  <2>2. Mapped(known, d) /\ ~known.loc
    BY <1>1, <1>6, <1>7, <1>9 DEF Mapped
  <2>3. LET t == MaybeFinishMappingLap(known, back)
        IN t \in SlamShape /\ MapInv(t, d) /\ (t.loc => d.seen = Ring)
    BY <1>3, <1>6, <2>2, FinishStep
  <2>. QED BY <1>1, <1>3, <2>1, <2>3
<1>. QED BY <1>8, <1>9

(***************************************************************************)
(* The other steps.                                                        *)
(***************************************************************************)
LEMMA FreshShape ==
  ASSUME NEW s, s.loc \in BOOLEAN, s.returns \in Int, s.window \in BOOLEAN
  PROVE  /\ Fresh(s) \in SlamShape
         /\ Fresh(s).loc = s.loc /\ ~Fresh(s).posed /\ Fresh(s).loops = 0
         /\ Fresh(s).landmarks = {} /\ Fresh(s).deferred = {}
  BY DEF Fresh, SlamShape, None

LEMMA NoneIsInt == None \in Int
  BY DEF None

\* A pose of travel k, drift e and origin n is put, on the first pose and on an estimate.
Posed(s, n, k, e) == [s EXCEPT !.posed = TRUE, !.travelled = k, !.origin = n, !.drift = e]

Estimated(s, n, k, e) ==
  [s EXCEPT !.drift = e, !.travelled = k, !.origin = n, !.due = FALSE, !.edged = FALSE]

LEMMA PosedShape ==
  ASSUME NEW s \in SlamShape, NEW n \in Int, NEW k \in Nat, NEW e \in Int
  PROVE  /\ Posed(s, n, k, e) \in SlamShape
         /\ Posed(s, n, k, e).loc = s.loc /\ Posed(s, n, k, e).posed
         /\ Posed(s, n, k, e).loops = s.loops
         /\ Posed(s, n, k, e).landmarks = s.landmarks
         /\ Posed(s, n, k, e).deferred = s.deferred
         /\ Estimated(s, n, k, e) \in SlamShape /\ Estimated(s, n, k, e).loc = s.loc
  BY DEF SlamShape, Posed, Estimated

LEMMA PoseStep ==
  ASSUME car \in CarShape, slam \in SlamShape, MapInv(slam, car), AddInitialPose
  PROVE  /\ car' \in CarShape /\ slam' \in SlamShape /\ MapInv(slam', car')
         /\ slam'.loc = slam.loc
<1>. DEFINE t == [slam EXCEPT !.posed = TRUE, !.travelled = 0, !.origin = None,
                              !.drift = 0]
            d == [car EXCEPT !.seen = {car.at}]
<1>1. ~slam.posed /\ slam' = t /\ car' = d
  BY DEF AddInitialPose
<1>2. /\ t \in SlamShape /\ t.loc = slam.loc /\ t.posed /\ t.loops = slam.loops
      /\ t.landmarks = slam.landmarks /\ t.deferred = slam.deferred
  <2>1. t = Posed(slam, None, 0, 0)
    BY DEF Posed
  <2>. DEFINE q == Posed(slam, None, 0, 0)
  <2>2. q \in SlamShape /\ q.loc = slam.loc /\ q.loops = slam.loops
    BY NoneIsInt, PosedShape
  <2>3. q.posed
    BY NoneIsInt, PosedShape
  <2>4. q.landmarks = slam.landmarks /\ q.deferred = slam.deferred
    BY NoneIsInt, PosedShape
  <2>. HIDE DEF t, q
  <2>. QED BY <2>1, <2>2, <2>3, <2>4 DEF q
<1>3. d \in CarShape /\ d.at \in d.seen
  BY DEF CarShape
<1>. HIDE DEF t, d
<1>4. MapInv(t, d)
  BY <1>1, <1>2, <1>3 DEF MapInv
<1>. QED BY <1>1, <1>2, <1>3, <1>4

LEMMA CallStep ==
  ASSUME car \in CarShape, slam \in SlamShape,
         InitialPose \/ HandleReset \/ HandleStartMapping \/ \E ok \in BOOLEAN : HandleLoadMap(ok)
  PROVE  /\ car' \in CarShape /\ slam' \in SlamShape /\ MapInv(slam', car') /\ slam.loc
<1>1. slam.loc /\ car' \in CarShape
  <2>1. Call
    BY DEF InitialPose, HandleReset, HandleStartMapping, HandleLoadMap
  <2>2. car.calls + 1 \in Nat
    BY DEF CarShape
  <2>. QED BY <2>1, <2>2 DEF Call, CarShape
<1>. DEFINE f == Fresh(slam)
<1>2. /\ f \in SlamShape /\ f.loc = slam.loc /\ ~f.posed /\ f.loops = 0
      /\ f.landmarks = {} /\ f.deferred = {}
  BY FreshShape DEF SlamShape
<1>. HIDE DEF f
<1>3. CASE InitialPose
  <2>. DEFINE t == [slam EXCEPT !.drift = 0, !.travelled = 0, !.origin = None,
                                !.due = FALSE, !.edged = FALSE]
  <2>1. slam' = t
    BY <1>3 DEF InitialPose
  <2>2. t \in SlamShape /\ t.loc = slam.loc
    <3>1. t = Estimated(slam, None, 0, 0)
      BY DEF Estimated
    <3>2. /\ Estimated(slam, None, 0, 0) \in SlamShape
          /\ Estimated(slam, None, 0, 0).loc = slam.loc
      BY NoneIsInt, PosedShape
    <3>. HIDE DEF t
    <3>. QED BY <3>1, <3>2
  <2>. QED BY <1>1, <2>1, <2>2 DEF MapInv
<1>4. CASE HandleReset
  <2>1. slam' = f
    BY <1>4 DEF HandleReset, f
  <2>. QED BY <1>1, <1>2, <2>1 DEF MapInv
<1>5. CASE HandleStartMapping
  <2>. DEFINE t == [f EXCEPT !.loc = FALSE]
  <2>1. slam' = t
    BY <1>5 DEF HandleStartMapping, f
  <2>2. /\ t \in SlamShape /\ ~t.posed /\ t.loops = 0
        /\ t.landmarks = {} /\ t.deferred = {}
    BY <1>2 DEF SlamShape
  <2>. HIDE DEF t
  <2>. QED BY <1>1, <2>1, <2>2 DEF MapInv
<1>6. CASE \E ok \in BOOLEAN : HandleLoadMap(ok)
  <2>1. PICK ok \in BOOLEAN : HandleLoadMap(ok)
    BY <1>6
  <2>. DEFINE whole == [cone : Ring, off : {0}, first : {0}, last : {0}, misses : {0}]
              L == IF ok THEN whole ELSE {}
              t == [f EXCEPT !.loc = ok, !.landmarks = L]
  <2>2. slam' = t
    BY <2>1 DEF HandleLoadMap, f
  <2>3. whole \in SUBSET LandmarkShape
    BY DEF LandmarkShape
  <2>4. L \in SUBSET LandmarkShape /\ (~ok => L = {})
    BY <2>3
  <2>. HIDE DEF L
  <2>5. /\ t \in SlamShape /\ t.loc = ok /\ ~t.posed /\ t.loops = 0
        /\ t.landmarks = L /\ t.deferred = {}
    BY <1>2, <2>4 DEF SlamShape
  <2>. HIDE DEF t
  <2>6. MapInv(t, car')
    BY <2>4, <2>5 DEF MapInv
  <2>. QED BY <1>1, <2>2, <2>5, <2>6
<1>. QED BY <1>3, <1>4, <1>5, <1>6

LEMMA TimerStep ==
  ASSUME car \in CarShape, slam \in SlamShape, MapInv(slam, car), OnOptimizeTimer
  PROVE  slam' \in SlamShape /\ MapInv(slam', car) /\ slam'.loc = slam.loc /\ car' = car
<1>1. Mapped(slam, car) /\ slam' = MaybeOptimize(slam) /\ car' = car
  BY DEF OnOptimizeTimer, Mapped
<1>2. Mapped(MaybeOptimize(slam), car) /\ MaybeOptimize(slam).loc = slam.loc
  <2>1. Redrawn(slam, MaybeOptimize(slam), car)
    BY OptimizedRedraws
  <2>. QED BY <1>1, <2>1, RedrawnIsMapped
<1>. QED BY <1>1, <1>2 DEF Mapped

LEMMA SlamInitMapInv == SlamInit => HalfMapInv
<1>. SUFFICES ASSUME SlamInit PROVE HalfMapInv
  OBVIOUS
<1>. DEFINE off == [loc |-> FALSE, returns |-> 0, window |-> FALSE]
<1>1. slam = Fresh(off) /\ car = [at |-> 0, slips |-> 0, calls |-> 0, seen |-> {}]
  BY DEF SlamInit
<1>2. /\ slam \in SlamShape /\ ~slam.loc /\ ~slam.posed /\ slam.loops = 0
      /\ slam.landmarks = {} /\ slam.deferred = {}
  <2>1. Fresh(off) = [loc |-> FALSE, returns |-> 0, window |-> FALSE,
                      posed |-> FALSE, drift |-> 0, travelled |-> 0,
                      landmarks |-> {}, tracks |-> {}, deferred |-> {},
                      origin |-> None, originAt |-> 0,
                      loops |-> 0, seam |-> None, settled |-> FALSE,
                      due |-> FALSE, edged |-> FALSE, csmAt |-> None,
                      ready |-> FALSE, converged |-> FALSE]
    BY DEF Fresh
  <2>2. slam = Fresh(off)
    BY <1>1
  <2>. HIDE DEF off
  <2>. QED BY <2>1, <2>2, NoneIsInt DEF SlamShape
<1>3. car \in CarShape
  BY <1>1, GateInRing DEF CarShape, Gate
<1>. QED BY <1>2, <1>3 DEF HalfMapInv, MapInv

\* Every step keeps the invariant, and one that freezes the map of a node that maps is a
\* keyframe of a car that has seen every place.
LEMMA SlamStep ==
  ASSUME SeamAfterStart, HalfMapInv, SlamNext
  PROVE  HalfMapInv' /\ (~slam.loc /\ slam'.loc => car'.seen = Ring)
<1>1. car \in CarShape /\ slam \in SlamShape /\ MapInv(slam, car)
  BY DEF HalfMapInv
<1>2. CASE AddInitialPose
  BY <1>1, <1>2, PoseStep DEF HalfMapInv
<1>3. CASE AddKeyframe(0, 0)
  BY <1>1, <1>3, KeyframeStep DEF HalfMapInv
<1>4. CASE \E slip \in Slips : AddKeyframe(1, slip)
  <2>1. PICK slip \in Slips : AddKeyframe(1, slip)
    BY <1>4
  <2>2. slip \in Int
    BY DEF Slips
  <2>. QED BY <1>1, <2>1, <2>2, KeyframeStep DEF HalfMapInv
<1>5. CASE MayMiss /\ ConesCallback({}, TRUE, FALSE, FALSE, FALSE)
  BY <1>1, <1>5, ConesStep DEF HalfMapInv
<1>6. CASE \E locks, near, loose, limited \in BOOLEAN :
             ConesCallback({car.at}, near, locks, loose, limited)
  BY <1>1, <1>6, ConesStep DEF HalfMapInv
<1>7. CASE OnOptimizeTimer
  BY <1>1, <1>7, TimerStep DEF HalfMapInv
<1>8. CASE InitialPose \/ HandleReset \/ HandleStartMapping \/ \E ok \in BOOLEAN : HandleLoadMap(ok)
  BY <1>1, <1>8, CallStep DEF HalfMapInv
<1>9. (\E locks \in IF MayLock THEN BOOLEAN ELSE {FALSE},
          near \in IF slam.loc /\ MayFound THEN BOOLEAN ELSE {TRUE},
          loose \in IF MayStretch THEN BOOLEAN ELSE {FALSE},
          limited \in IF RateLimited THEN BOOLEAN ELSE {FALSE} :
         ConesCallback({car.at}, near, locks, loose, limited))
        => \E locks, near, loose, limited \in BOOLEAN :
             ConesCallback({car.at}, near, locks, loose, limited)
  OBVIOUS
<1>. QED BY <1>2, <1>3, <1>4, <1>5, <1>6, <1>7, <1>8, <1>9 DEF SlamNext

(***************************************************************************)
(* Mapping ends by itself only when the car has driven past every place:   *)
(* for every ring, drift, hit and miss count, and any order of frames,     *)
(* keyframes, solves and calls (maybeFinishMappingLap, maybeCsmRegister).  *)
(***************************************************************************)
THEOREM NoHalfMapFrozen ==
  ASSUME SeamAfterStart
  PROVE  SlamSpec => HalfMapNeverFrozen
<1>1. SlamInit => HalfMapInv
  BY SlamInitMapInv
<1>2. HalfMapInv /\ [SlamNext]_vars => HalfMapInv'
  <2>1. HalfMapInv /\ UNCHANGED vars => HalfMapInv'
    BY DEF HalfMapInv, vars
  <2>. QED BY <2>1, SlamStep
<1>3. HalfMapInv /\ [SlamNext]_vars
        => [Status(slam) # "localization" /\ Status(slam') = "localization" /\ ~Called
              => car'.seen = Ring]_vars
  <2>1. Status(slam) # "localization" => ~slam.loc
    BY DEF Status
  <2>2. Status(slam') = "localization" => slam'.loc
    BY DEF Status
  <2>. QED BY <2>1, <2>2, SlamStep
<1>. QED BY <1>1, <1>2, <1>3, PTL DEF SlamSpec, HalfMapNeverFrozen
=============================================================================
