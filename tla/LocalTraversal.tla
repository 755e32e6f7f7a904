--------------------------- MODULE LocalTraversal ---------------------------
(* forwardTraversalWithReason (local_path_geometry.cpp): the chain of cones or
   midpoints that the local path follows, one link at a time.  Points lie on an
   integer grid in the ego frame, x ahead and y to the left, and every
   comparison of lengths and angles is made exact on squares.  A twin chain is
   built from the same points with left and right exchanged.                  *)
EXTENDS Integers, Sequences, FiniteSets, SequencesExt, FiniteSetsExt

CONSTANTS Grid,      \* points that cones may be on
          Counts,    \* how many cones there may be
          MaxGap,    \* max_traversal_gap_m
          Spacing    \* waypoint_spacing_m

VARIABLES cones,    \* the points, and whether a partial boundary is allowed
          chain,    \* [ordered, tangent, sharp, arc, end, tied]
          twin      \* the chain of the mirrored points
traversalVars == <<cones, chain, twin>>

Mirror(p) == <<p[1], -p[2]>>
Abs(n) == IF n < 0 THEN -n ELSE n
Sq(v) == v[1] * v[1] + v[2] * v[2]
Dot(u, v) == u[1] * v[1] + u[2] * v[2]
Cross(u, v) == u[1] * v[2] - u[2] * v[1]
Sub(a, b) == <<a[1] - b[1], a[2] - b[2]>>
Sign(n) == CASE n > 0 -> 1 [] n < 0 -> -1 [] OTHER -> 0

(* A length in tenths, rounded down, for the arc that is added up.            *)
Tenths(sq) == CHOOSE n \in 0 .. 10 * (Abs(sq) + 1) :
                n * n <= 100 * sq /\ (n + 1) * (n + 1) > 100 * sq

(* Points in the order of their index: lexicographicPoint.                    *)
Before(a, b) == a[1] < b[1] \/ (a[1] = b[1] /\ a[2] < b[2])

(* The first difference of two keys decides: each is a sequence of integers.   *)
KeyLess(k, l) ==
  \E i \in DOMAIN k : k[i] < l[i] /\ \A j \in 1 .. i - 1 : k[j] = l[j]

(* Candidates are segments from the end of the chain.  The larger of two
   changes of heading has the smaller cosine, compared with its sign.         *)
SignedCosine(c, other) == Sign(c.dot) * c.dot * c.dot * other.gap
Wider(c, other) == SignedCosine(other, c) - SignedCosine(c, other)

(* A bug of this shape: ties are resolved by y, towards the car's right.       *)
NormalKeySigned(c, other) ==
  <<c.gap - other.gap, Wider(c, other), c.point[1] - other.point[1],
    c.point[2] - other.point[2]>>
(* betterNormalCandidate and betterUTurnCandidate: |y|, not y.               *)
NormalKey(c, other) ==
  <<c.gap - other.gap, Wider(c, other), c.point[1] - other.point[1],
    Abs(c.point[2]) - Abs(other.point[2])>>
UTurnKey(c, other) ==
  <<Wider(c, other), c.gap - other.gap, c.point[1] - other.point[1],
    Abs(c.point[2]) - Abs(other.point[2])>>

Zero == <<0, 0, 0, 0>>
Better(key, c, other) ==
  KeyLess(key, Zero) \/ (key = Zero /\ Before(c.point, other.point))
BetterNormal(c, other) == Better(NormalKey(c, other), c, other)
BetterUTurn(c, other) == Better(UTurnKey(c, other), c, other)

(* closeUTurnBranch: gaps within the spacing, headings within ten degrees.    *)
GapsClose(a, b) ==
  LET over == Max({a, b}) - Min({a, b}) - Spacing * Spacing
  IN over <= 0 \/ over * over <= 4 * Spacing * Spacing * Min({a, b})
HeadingsClose(c, d) ==
  LET cosine == c.dot * d.dot + Abs(c.cross) * Abs(d.cross)
  IN cosine >= 0 /\ 10000 * cosine * cosine >= 9698 * c.gap * d.gap * c.tt * c.tt
CloseBranch(c, d) == GapsClose(c.gap, d.gap) /\ HeadingsClose(c, d)

Candidate(ch, p) ==
  LET segment == Sub(p, Last(ch.ordered))
  IN [point |-> p, segment |-> segment, gap |-> Sq(segment), tt |-> Sq(ch.tangent),
      dot |-> Dot(segment, ch.tangent), cross |-> Cross(ch.tangent, segment)]

Gentle(c) == c.dot > 0 /\ 4 * c.dot * c.dot >= c.gap * c.tt             \* 60 degrees
SharpForward(c) == c.dot > 0 /\ ~Gentle(c)
WithinUTurn(c) == c.dot >= 0 \/ 4 * c.dot * c.dot <= 3 * c.gap * c.tt   \* 150 degrees

(* The scan for a u-turn in the order of the index: a branch is ambiguous when
   it is close to the best one before it.                                     *)
Scan(acc, c) ==
  [best |-> IF acc.best = {} \/ \A b \in acc.best : BetterUTurn(c, b) THEN {c} ELSE acc.best,
   ambiguous |-> acc.ambiguous \/ \E b \in acc.best : CloseBranch(c, b)]
Scanned(candidates) ==
  FoldLeft(Scan, [best |-> {}, ambiguous |-> FALSE],
           SetToSortSeq(candidates, LAMBDA c, d : Before(c.point, d.point)))

Tie(candidates, key(_, _)) ==
  \E c, d \in candidates : c # d /\ key(c, d) = Zero

Link(ch, c, sharp, arc, tied) ==
  [ch EXCEPT !.ordered = Append(@, c.point), !.tangent = c.segment,
             !.sharp = sharp, !.arc = arc, !.tied = @ \/ tied]

(* One round of the loop: the best smooth continuation; without any, the best
   turn, unless two are alike or it folds the chain back on itself.           *)
Extended(ch, points, partial) ==
  LET near == {c \in {Candidate(ch, p) : p \in points \ Range(ch.ordered)} :
                 c.gap <= MaxGap * MaxGap}
      gentle == {c \in near : Gentle(c)}
      turns == {c \in near \ gentle : (SharpForward(c) => partial) /\ WithinUTurn(c)}
      mayTurn == Len(ch.ordered) >= 2 /\ Cardinality(points) >= 4
      scanned == Scanned(turns)
      jump == {c \in near \ gentle :
                 SharpForward(c) \/ (mayTurn /\ ~WithinUTurn(c))}
  IN IF gentle # {}
     THEN LET best == CHOOSE c \in gentle : \A d \in gentle \ {c} : BetterNormal(c, d)
          IN Link(ch, best, ch.sharp,
                  IF ch.arc >= 0 THEN ch.arc + Tenths(best.gap) ELSE ch.arc,
                  Tie({best} \cup {d \in gentle : NormalKey(best, d) = Zero}, NormalKey))
     ELSE IF ~mayTurn \/ turns = {}
          THEN [ch EXCEPT !.end = IF jump # {} THEN "heading_jump" ELSE "topology_gap"]
     ELSE IF scanned.ambiguous
          THEN [ch EXCEPT !.end = "u_turn_branch_ambiguous"]
     ELSE LET best == CHOOSE c \in scanned.best : TRUE
          IN IF ch.sharp # 0 /\ Sign(best.cross) * ch.sharp < 0
                /\ ch.arc \in 0 .. 20 * MaxGap
             THEN [ch EXCEPT !.end = "fold_back"]
             ELSE Link(ch, best, Sign(best.cross), 0, Tie(turns, UTurnKey))

Step(ch, points, partial) ==
  IF ch.end # "" THEN ch
  ELSE IF Len(ch.ordered) = Cardinality(points) THEN [ch EXCEPT !.end = "all"]
  ELSE Extended(ch, points, partial)

(* The seed is the nearest point, then the one behind, then the one nearer to
   the axis; of two that are left the first.                                  *)
SeedKey(p, q) == <<Sq(p) - Sq(q), p[1] - q[1], Abs(p[2]) - Abs(q[2])>>
Seed(points) ==
  CHOOSE p \in points : \A q \in points \ {p} :
    KeyLess(SeedKey(p, q), <<0, 0, 0>>) \/ (SeedKey(p, q) = <<0, 0, 0>> /\ Before(p, q))
Seeded(points) ==
  [ordered |-> <<Seed(points)>>, tangent |-> <<1, 0>>, sharp |-> 0, arc |-> -1, end |-> "",
   tied |-> \E q \in points \ {Seed(points)} : SeedKey(Seed(points), q) = <<0, 0, 0>>]

Mirrored == {Mirror(p) : p \in cones.points}

TraversalInit ==
  \E n \in Counts, partial \in BOOLEAN : \E points \in kSubset(n, Grid) :
    /\ cones = [points |-> points, partial |-> partial]
    /\ chain = Seeded(points)
    /\ twin = Seeded({Mirror(p) : p \in points})

Traverse ==
  /\ chain.end = "" \/ twin.end = ""
  /\ chain' = Step(chain, cones.points, cones.partial)
  /\ twin' = Step(twin, Mirrored, cones.partial)
  /\ UNCHANGED cones

TraversalNext == Traverse

Ambiguous(ch) == ch.end = "u_turn_branch_ambiguous"

(* The chain knows neither left nor right: that of the mirrored cones is its
   mirror, and ends for the same reason, unless two candidates were alike in
   everything but their side, or one of the chains met an ambiguous u-turn.  (The
   scan compares each branch with the best one before it only: whether two
   branches that are not both the best are found alike depends on the order of
   their indices, which the mirror changes.)                                  *)
MirrorSymmetric ==
  \/ chain.tied \/ twin.tied \/ Ambiguous(chain) \/ Ambiguous(twin)
  \/ /\ twin.end = chain.end
     /\ twin.ordered = [i \in DOMAIN chain.ordered |-> Mirror(chain.ordered[i])]
=============================================================================
