-------------------------- MODULE CenterlineBuild --------------------------
(* slam_boundary_ordering.cpp and slam_centerline_builder.cpp: the search for a
   closed centreline between the repaired cones.  Each boundary is walked from one
   seed after another until a walk closes, the two rings are aligned, oriented and
   brought to the same seam, and the sweep pairs them; as a last resort one hole
   is bridged.  The track is an oval; lengths are in decimetres, angles in
   milliradians.  The racing line that is fitted into the corridor is left out. *)
EXTENDS Integers, Sequences, FiniteSets, FiniteSetsExt, SequencesExt

CONSTANTS MaxGap, MinWidth, MaxWidth, CloseLoop, Sampling,   \* of SlamCenterlineConfig
          OrderSeeds, BuildSeeds,  \* kMaxOrderingSeedAttempts, kMaxCenterlineSeedAttempts
          Turns,                   \* rotations of the list the cones come in
          Holes,                   \* holes in a boundary: 100 * first cone + cones
          Ghosts                   \* where a ghost stands, 0 for none

VARIABLES cones,     \* [blue, yellow]: the points the search starts from
          points,    \* the same, with the points that fill a hole
          tier, attempt,
          built      \* <<blue, yellow, line>>: the rings in order, and the line
buildVars == <<cones, points, tier, attempt, built>>

Sq(n) == n * n
Abs(n) == IF n < 0 THEN -n ELSE n
Least(a, b) == IF a < b THEN a ELSE b
Most(a, b) == IF a < b THEN b ELSE a
RECURSIVE Newton(_, _)
Newton(n, r) == LET q == (r + n \div r) \div 2 IN IF q >= r THEN r ELSE Newton(n, q)
Root(n) == IF n = 0 THEN 0 ELSE Newton(n, n)
Minus(p, q) == <<p[1] - q[1], p[2] - q[2]>>
Dot(u, v) == u[1] * v[1] + u[2] * v[2]
Cross(u, v) == u[1] * v[2] - u[2] * v[1]
Dist(p, q) == Root(Dot(Minus(p, q), Minus(p, q)))
Along(p, q, t) == <<p[1] + ((q[1] - p[1]) * t) \div 1000, p[2] + ((q[2] - p[2]) * t) \div 1000>>
Middle(p, q) == <<(p[1] + q[1]) \div 2, (p[2] + q[2]) \div 2>>
(* The product of two lengths; the roots are taken in hundredths.              *)
Lengths(u, v) == Most(1, (Root(10000 * Dot(u, u)) * Root(10000 * Dot(v, v))) \div 10000)
Cosine(u, v) == IF Dot(u, u) = 0 \/ Dot(v, v) = 0 THEN 1000 ELSE (1000 * Dot(u, v)) \div Lengths(u, v)
(* acos, from the cosine in thousandths, linear between its tenths.            *)
ACosTenths == <<1571, 1471, 1369, 1266, 1159, 1047, 927, 795, 644, 451, 0, 0>>
ACosAt(a) ==
  ACosTenths[a \div 100 + 1]
    + ((ACosTenths[a \div 100 + 2] - ACosTenths[a \div 100 + 1]) * (a % 100)) \div 100
ACos(c) == IF c >= 0 THEN ACosAt(Least(c, 1000)) ELSE 3142 - ACosAt(Least(-c, 1000))
(* The least of a set of pairs of a value and an index, the first on a tie.     *)
Best(S) == CHOOSE p \in S : \A q \in S : p[1] < q[1] \/ (p[1] = q[1] /\ p[2] <= q[2])
Closed(s) == Append(s, s[1])
Sorted(s) == SortSeq(s, <)
UpperMedian(s) == IF s = <<>> THEN 0 ELSE Sorted(s)[(Len(s) \div 2) + 1]
Median(s) == IF Len(s) % 2 = 1 THEN UpperMedian(s)
             ELSE (Sorted(s)[Len(s) \div 2] + UpperMedian(s)) \div 2
Steps(s) == [i \in 1 .. Len(s) - 1 |-> Dist(s[i], s[i + 1])]
Nearest(s, p) == Best({<<Dist(s[i], p), i>> : i \in DOMAIN s})[2]

(* headingAwareGraphOrder: from the head of the chain to the cone of the least
   distance and turn; a few cones out of reach at the end may be left behind.  *)
WalkScore(input, chain, i) ==
  LET head == input[Last(chain)]
      turn == IF Len(chain) < 2 THEN 0
              ELSE ACos(Cosine(Minus(head, input[chain[Len(chain) - 1]]), Minus(input[i], head)))
  IN 1000 * Dist(head, input[i]) + MaxGap * turn
Reachable(input, chain) ==
  {i \in DOMAIN input \ ToSet(chain) : Dist(input[Last(chain)], input[i]) <= MaxGap}
RECURSIVE Chain(_, _)
Chain(input, chain) ==
  LET R == Reachable(input, chain)
  IN IF R = {} THEN chain
     ELSE Chain(input, Append(chain, Best({<<WalkScore(input, chain, i), i>> : i \in R})[2]))
Points(input, chain) == [i \in DOMAIN chain |-> input[chain[i]]]
Walk(input, seed) == Points(input, Chain(input, <<seed>>))

(* BoundaryOrderScore.                                                         *)
Parts(a, b, c, d) ==   \* the line through a and b has c and d on its two sides
  LET l == Cross(Minus(b, a), Minus(c, a))  r == Cross(Minus(b, a), Minus(d, a))
  IN (l < 0 /\ r > 0) \/ (l > 0 /\ r < 0)
Crosses(a, b, c, d) == Parts(a, b, c, d) /\ Parts(c, d, a, b)
Crossings(s) ==
  Cardinality({p \in (1 .. Len(s) - 1) \X (1 .. Len(s) - 1) :
                 p[1] + 2 <= p[2] /\ Crosses(s[p[1]], s[p[1] + 1], s[p[2]], s[p[2] + 1])})
WidestStep(s) == Max({0} \cup {Dist(s[i], s[i + 1]) : i \in 1 .. Len(s) - 1})
LoopGap(s) == Dist(s[1], Last(s))
BetterOrder(s, t) ==
  \/ Crossings(s) < Crossings(t)
  \/ Crossings(s) = Crossings(t) /\ WidestStep(s) < WidestStep(t)
  \/ Crossings(s) = Crossings(t) /\ WidestStep(s) = WidestStep(t) /\ LoopGap(s) < LoopGap(t)

(* reinsertTailStragglers: the cones behind the last jump go back where they make
   the least detour.                                                          *)
Detour(a, p, b) == Dist(a, p) + Dist(p, b) - Dist(a, b)
PutAt(s, p, best) == IF best[2] = 1 THEN Append(s, p) ELSE InsertAt(s, best[2], p)
Spliced(s, p) ==   \* behind the end, which wins a tie, or between two cones
  PutAt(s, p, Best({<<Detour(Last(s), p, s[1]), 1>>} \cup
                   {<<Detour(s[i - 1], p, s[i]), i>> : i \in 2 .. Len(s)}))
Jumps(s, limit) == {i \in 2 .. Len(s) : Dist(s[i - 1], s[i]) > limit}
BackIn(s, jump) ==
  IF Len(s) - jump + 1 > Len(s) \div 4 THEN s
  ELSE FoldLeft(Spliced, SubSeq(s, 1, jump - 1), SubSeq(s, jump, Len(s)))
Reinserted(s) ==
  IF Len(s) < 4 THEN s
  ELSE BackIn(s, Max({1} \cup
                     Jumps(s, Least(MaxGap, Most((5 * UpperMedian(Steps(s))) \div 2, 20)))))

(* trimOpenSeamSpurs *)
RECURSIVE Trimmed(_, _)
Trimmed(s, budget) ==
  LET noTail == Dist(s[1], s[Len(s) - 1])  noHead == Dist(s[2], Last(s))
  IN IF budget = 0 \/ Len(s) <= 4 \/ LoopGap(s) <= MaxGap THEN s
     ELSE IF noTail < LoopGap(s) /\ noTail <= noHead THEN Trimmed(Front(s), budget - 1)
     ELSE IF noHead < LoopGap(s) THEN Trimmed(Tail(s), budget - 1) ELSE s

(* twoOptRepairRing: the first flip that shortens the ring, until none does.   *)
Flipped(s, i, j) == SubSeq(s, 1, i) \o Reverse(SubSeq(s, i + 1, j)) \o SubSeq(s, j + 1, Len(s))
Shorter(s, i, j, after) ==
  Dist(s[i], s[j]) + Dist(s[i + 1], s[after]) < Dist(s[i], s[i + 1]) + Dist(s[j], s[after])
Flips(s) ==
  {p \in (1 .. Len(s) - 1) \X (1 .. Len(s)) :
     /\ p[1] + 2 <= p[2] /\ ~(p[1] = 1 /\ p[2] = Len(s))
     /\ Shorter(s, p[1], p[2], (p[2] % Len(s)) + 1)}
RECURSIVE TwoOpt(_, _)
TwoOpt(s, budget) ==
  LET flips == IF Len(s) < 4 \/ budget = 0 THEN {} ELSE Flips(s)
      p == Best(flips)
  IN IF flips = {} THEN s ELSE TwoOpt(Flipped(s, p[1], p[2]), budget - 1)

(* orderAttempt and orderBoundary: a sequence of attempts, and the first that
   succeeds.  The empty ring stands for failure.                              *)
Chosen(input, walked, try) ==
  IF try.input /\ WidestStep(input) <= MaxGap /\ BetterOrder(input, walked) THEN input ELSE walked
Uncrossed(s, try) == IF try.uncross THEN TwoOpt(s, 16 * Len(s)) ELSE s
Accepted(ring, open) ==
  IF Crossings(ring) > 0 \/ WidestStep(ring) > MaxGap \/ (~open /\ LoopGap(ring) > MaxGap)
  THEN <<>> ELSE ring
Tidied(s, try, open) == Uncrossed(IF open THEN s ELSE Trimmed(s, try.drops), try)
OrderFrom(input, walked, try, open) ==
  IF Len(input) - Len(walked) > try.drops THEN <<>>
  ELSE Accepted(Tidied(Reinserted(Chosen(input, walked, try)), try, open), open)
OrderAttempt(input, try, open) == OrderFrom(input, Walk(input, try.seed), try, open)
RECURSIVE FirstOrder(_, _, _)
FirstOrder(input, tries, open) ==
  IF tries = <<>> THEN <<>>
  ELSE LET ring == OrderAttempt(input, tries[1], open)
       IN IF ring # <<>> THEN ring ELSE FirstOrder(input, Tail(tries), open)
Spread(n, seeds) == LET k == Least(n, seeds) IN [i \in 1 .. k |-> ((i - 1) * n) \div k + 1]
OrderBoundary(input, ego, repair, open) ==
  LET drops == Len(input) \div 8
      seeds == Spread(Len(input), OrderSeeds)
      try(own, d, uncross) == [i \in DOMAIN seeds |->
         [seed |-> seeds[i], input |-> FALSE, drops |-> d, uncross |-> uncross]]
      start == [seed |-> Nearest(input, ego), input |-> TRUE, drops |-> 0, uncross |-> FALSE]
  IN FirstOrder(input, <<start>> \o try(FALSE, 0, FALSE)
                       \o (IF drops > 0 THEN try(FALSE, drops, FALSE) ELSE <<>>)
                       \o (IF drops > 0 /\ repair THEN try(FALSE, drops, TRUE) ELSE <<>>), open)

(* A point on a chain: its closest segment, and the arc length along it.       *)
Ratio(p, a, b) ==
  IF a = b THEN 0
  ELSE Most(0, Least(1000, (1000 * Dot(Minus(p, a), Minus(b, a))) \div Dot(Minus(b, a), Minus(b, a))))
Closest(s, p) ==
  Best({<<Dist(p, Along(s[i], s[i + 1], Ratio(p, s[i], s[i + 1]))), i>> : i \in 1 .. Len(s) - 1})[2]
RECURSIVE ArcFrom(_, _)
ArcFrom(s, arc) ==
  LET n == Len(arc) IN IF n = Len(s) THEN arc ELSE ArcFrom(s, Append(arc, Last(arc) + Dist(s[n], s[n + 1])))
Arc(s) == ArcFrom(s, <<0>>)
At(s, arc, target) ==
  IF target <= 0 THEN s[1] ELSE IF target >= Last(arc) THEN Last(s)
  ELSE LET i == CHOOSE i \in 2 .. Len(s) : arc[i] > target /\ arc[i - 1] <= target
       IN Along(s[i - 1], s[i], (1000 * (target - arc[i - 1])) \div (arc[i] - arc[i - 1]))
Sampled(s, n) ==
  LET arc == Arc(s) IN [i \in 1 .. n |-> At(s, arc, ((i - 1) * Last(arc)) \div (n - 1))]

(* A bug of this shape: the directions are compared at equal indices, whatever the
   phase of the two rings.                                                    *)
AlignedByIndex(b, y) ==
  LET n == Least(Len(b), Len(y)) - 1
      votes == [i \in 1 .. n |-> Cosine(Minus(b[i + 1], b[i]), Minus(y[i + 1], y[i]))]
  IN IF Median(votes) < 0 THEN Reverse(y) ELSE y
(* alignBoundaryDirections: each yellow step against the blue one it is beside. *)
Aligned(b, y) ==
  LET beside(i) == Closest(b, Middle(y[i], y[i + 1]))
      votes == [i \in 1 .. Len(y) - 1 |->
                  Cosine(Minus(b[beside(i) + 1], b[beside(i)]), Minus(y[i + 1], y[i]))]
  IN IF Median(votes) < 0 THEN Reverse(y) ELSE y
(* medianTrackSideSign: negative where yellow is on the right of the travel.     *)
Sine(u, v) == (1000 * Cross(u, v)) \div Lengths(u, v)
(* A bug of this shape: the side is taken from yellow to blue.                   *)
SideOfBlue(bs, ys, mid) ==
  Median([i \in 1 .. Len(mid) - 1 |->
            Sine(Minus(mid[i + 1], mid[i]), Minus(bs[i + 1], ys[i + 1]))])
Side(bs, ys, mid) ==
  Median([i \in 1 .. Len(mid) - 1 |->
            Sine(Minus(mid[i + 1], mid[i]), Minus(ys[i + 1], bs[i + 1]))])
SideBetween(bs, ys) == Side(bs, ys, [i \in DOMAIN bs |-> Middle(bs[i], ys[i])])
SideSign(b, y) ==
  SideBetween(Sampled(b, Least(Len(b), Len(y))), Sampled(y, Least(Len(b), Len(y))))
(* orientTravelDirection                                                       *)
Oriented(b, y) == IF SideSign(b, y) > 0 THEN <<Reverse(b), Reverse(y)>> ELSE <<b, y>>
(* rotateRingSeamToReference *)
Reseamed(s, p) ==
  IF Len(s) < 3 \/ LoopGap(s) > MaxGap THEN s
  ELSE LET k == Nearest(s, p) IN SubSeq(s, k, Len(s)) \o SubSeq(s, 1, k - 1)
(* orderSlamBoundaries *)
InTravel(pair, seed) ==
  IF SideSign(pair[1], pair[2]) >= 0 THEN <<>>
  ELSE <<Reseamed(pair[1], seed), Reseamed(pair[2], seed)>>
OrderedPair(b, y, seed) ==
  IF b = <<>> \/ y = <<>> THEN <<>> ELSE InTravel(Oriented(b, Aligned(b, y)), seed)
Ordered(input, seed, repair) ==
  OrderedPair(OrderBoundary(input.blue, seed, repair, FALSE),
              OrderBoundary(input.yellow, seed, repair, FALSE), seed)

(* closestPointOnPolylineAfter: ahead of what is already paired, and no further
   than the window.                                                           *)
Window == Most(50, 2 * MaxWidth)
LeastRatio(arc, i, from) ==
  IF from <= arc[i] \/ arc[i + 1] = arc[i] THEN 0
  ELSE Least(1000, (1000 * (from - arc[i])) \div (arc[i + 1] - arc[i]))
Hit(s, arc, from, i, ratio) ==
  [point |-> Along(s[i], s[i + 1], ratio),
   arc |-> Most(from, arc[i] + (ratio * (arc[i + 1] - arc[i])) \div 1000)]
NearestHit(s, arc, p, from, ratio) ==
  LET i == Best({<<Dist(p, Along(s[j], s[j + 1], ratio[j])), j>> : j \in DOMAIN ratio})[2]
  IN Hit(s, arc, from, i, ratio[i])
After(s, arc, p, from) ==
  NearestHit(s, arc, p, from,
    [i \in {i \in 1 .. Len(s) - 1 : arc[i + 1] >= from /\ arc[i] <= from + Window} |->
       Most(LeastRatio(arc, i, from), Ratio(p, s[i], s[i + 1]))])
(* The yellow ring, carried on through its seam.                               *)
CarriedOn(y) ==
  IF LoopGap(y) > CloseLoop THEN y
  ELSE FoldLeft(LAMBDA a, p : IF a.extra >= Window THEN a
                 ELSE [s |-> Append(a.s, p), extra |-> a.extra + Dist(Last(a.s), p)],
                [s |-> y, extra |-> 0], y).s
CeilDiv(a, b) == (a + b - 1) \div b
(* The sweep of buildCenterlineFromSeed: [line, bad, pair].                    *)
WithMiddle(a, width, mid) ==
  IF width \notin MinWidth .. MaxWidth THEN [a EXCEPT !.bad = @ + 1]
  ELSE IF a.line # <<>> /\ Last(a.line) = mid THEN a
  ELSE [a EXCEPT !.line = Append(@, mid)]
WithHit(a, blue, hit) ==
  WithMiddle([a EXCEPT !.pair = @ + 1, !.arc = hit.arc], Dist(blue, hit.point),
             Middle(blue, hit.point))
RECURSIVE Sweep(_, _, _, _)
Sweep(a, blues, yellow, arc) ==
  IF a.pair = Len(blues) THEN a
  ELSE LET blue == blues[a.pair + 1]
       IN Sweep(WithHit(a, blue, After(yellow, arc, blue, a.arc)), blues, yellow, arc)
SweptFrom(blues, yellow) ==
  Sweep([pair |-> 0, arc |-> 0, bad |-> 0, line |-> <<>>], blues, yellow, Arc(yellow))
Paired(b, y) ==
  SweptFrom(Sampled(b, Most(2, CeilDiv(Last(Arc(b)), Sampling) + 1)), CarriedOn(y))
(* The tail is cut back until the closing chord goes with the travel.          *)
RECURSIVE CutBack(_)
CutBack(s) ==
  IF Len(s) > 2 /\ LoopGap(s) > 0 /\ Dot(Minus(Last(s), s[Len(s) - 1]), Minus(s[1], Last(s))) < 0
  THEN CutBack(Front(s)) ELSE s
Loop(s) ==
  IF LoopGap(s) > CloseLoop THEN s
  ELSE LET cut == CutBack(s) IN IF LoopGap(cut) \in 1 .. CloseLoop THEN Closed(cut) ELSE cut
(* resampleBySpacing: the end point stays, and swallows a sample that is close. *)
WithEnd(even, end) ==
  IF Dist(Last(even), end) < Sampling \div 2 THEN Append(Front(even), end) ELSE Append(even, end)
AtSpacing(s, arc) ==
  WithEnd([i \in 1 .. CeilDiv(Last(arc), Sampling) |-> At(s, arc, (i - 1) * Sampling)], Last(s))
Resampled(s) == AtSpacing(s, Arc(s))
(* validateWaypoints: no step turns by more than 60 degrees.                   *)
Smooth(s) ==
  \A i \in 1 .. Len(s) - 2 : s[i] # s[i + 1] /\ Cosine(Minus(s[i + 1], s[i]), Minus(s[i + 2], s[i + 1])) >= 500
(* buildCenterlineFromSeed: the rings and the line, or <<>> for none.          *)
Validated(pair, line) == IF Len(line) < 3 \/ ~Smooth(line) THEN <<>> ELSE pair \o <<line>>
Finished(pair, loop) == IF LoopGap(loop) > 0 THEN <<>> ELSE Validated(pair, Resampled(loop))
Swept(pair, sweep) ==
  IF sweep.bad > sweep.pair \div 4 \/ Len(sweep.line) < 2 THEN <<>>
  ELSE Finished(pair, Loop(sweep.line))
BuiltFrom(pair) == IF pair = <<>> THEN <<>> ELSE Swept(pair, Paired(pair[1], pair[2]))
Built(input, seed, repair) == BuiltFrom(Ordered(input, seed, repair))

(* planSeamBridge: what fills the hole, at the spacing of the boundary itself.  *)
Open(ring) == LoopGap(ring) > MaxGap
Bridgeable(ring) == Len(ring) >= 3 /\ LoopGap(ring) <= 2 * MaxGap
Fill(ring) ==
  LET n == Most(2, CeilDiv(LoopGap(ring), Least(UpperMedian(Steps(ring)), MaxGap)))
  IN IF ~Open(ring) THEN <<>>
     ELSE [i \in 1 .. n - 1 |-> Along(Last(ring), ring[1], (1000 * i) \div n)]
SegmentDist(p, a, b) == Dist(p, Along(a, b, Ratio(p, a, b)))
Facing(b, y) ==
  LET from == Last(b)  to == b[1]  start == Last(y)  end == y[1]
  IN /\ \/ \E p \in {from, to} : SegmentDist(p, start, end) <= MaxWidth
        \/ \E p \in {start, end} : SegmentDist(p, from, to) <= MaxWidth
     /\ Abs(Cosine(Minus(to, from), Minus(end, start))) >= 500
Distant(p, s) == Dist(p, s[Nearest(s, p)])
InBand(fill, opposite) == \A i \in DOMAIN fill : Distant(fill[i], opposite) \in MinWidth .. MaxWidth
(* synthesizeOpenSeamClosure: the points with the holes filled, or none.        *)
Bridges(b, y) ==
  /\ b # <<>> /\ y # <<>> /\ Bridgeable(b) /\ Bridgeable(y)
  /\ Open(b) \/ Open(y)
  /\ Open(b) /\ Open(y) => Facing(b, y)
Distinct(fill, s) == SelectSeq(fill, LAMBDA p : Distant(p, s) > MinWidth \div 4)
FilledBy(input, f, g) ==
  IF InBand(f, input.yellow \o g) /\ InBand(g, input.blue \o f)
  THEN [blue |-> input.blue \o f, yellow |-> input.yellow \o g]
  ELSE [blue |-> <<>>, yellow |-> <<>>]
Filled(input, b, y) ==
  IF Bridges(b, y)
  THEN FilledBy(input, Distinct(Fill(b), input.blue), Distinct(Fill(y), input.yellow))
  ELSE [blue |-> <<>>, yellow |-> <<>>]
Synthesized(input) ==
  Filled(input, OrderBoundary(input.blue, <<0, 0>>, FALSE, TRUE),
         OrderBoundary(input.yellow, <<0, 0>>, FALSE, TRUE))

(* The oval, and the lists of cones it can be seen as: from any cone, either way
   round, with holes, and with one ghost.                                      *)
Oval == [blue |-> <<<<0, 20>>, <<46, 20>>, <<88, 2>>, <<116, -34>>, <<120, -78>>, <<116, -121>>,
                    <<88, -157>>, <<46, -175>>, <<0, -175>>, <<-46, -175>>, <<-88, -157>>,
                    <<-116, -121>>, <<-120, -78>>, <<-116, -34>>, <<-88, 2>>, <<-46, 20>>>>,
         yellow |-> <<<<0, -20>>, <<45, -20>>, <<80, -55>>, <<80, -100>>, <<45, -135>>,
                      <<0, -135>>, <<-45, -135>>, <<-80, -100>>, <<-80, -55>>, <<-45, -20>>>>]
Turned(s, k) ==
  LET t == SubSeq(s, k \div 2 + 1, Len(s)) \o SubSeq(s, 1, k \div 2)
  IN IF k % 2 = 0 THEN t ELSE SortSeq(t, LAMBDA p, q : 999 * p[1] + p[2] < 999 * q[1] + q[2])
Without(s, hole) ==
  LET first == (hole \div 100) % Len(s)
      gone == {((first + i) % Len(s)) + 1 : i \in 0 .. (hole % 100) - 1}
  IN SelectSeq(s, LAMBDA p : \A i \in gone : s[i] # p)
GhostAt(g) == IF g = 0 THEN <<>> ELSE <<<<30, g - 100>>>>
Seen(turn, turn2, hole, hole2, ghost) ==
  [blue |-> Turned(Without(Oval.blue, hole), turn) \o GhostAt(ghost),
   yellow |-> Turned(Without(Oval.yellow, hole2), turn2)]

BuildInit ==
  /\ \E turn, turn2 \in Turns, hole, hole2 \in Holes, ghost \in Ghosts :
       /\ ghost = 0 \/ hole + hole2 = 0
       /\ cones = Seen(turn, turn2, hole, hole2, ghost)
  /\ points = cones /\ tier = "origin" /\ attempt = 1 /\ built = <<>>
(* buildCenterlineFromSlamMap, after the repair: one seed at a time.           *)
Seed == points.blue[Spread(Len(points.blue), BuildSeeds)[attempt]]
Concluded(b, last, next) ==
  /\ built' = b
  /\ tier' = IF b # <<>> THEN "published" ELSE IF last THEN next ELSE tier
  /\ attempt' = IF b # <<>> THEN attempt ELSE IF last THEN 1 ELSE attempt + 1
  /\ UNCHANGED <<cones, points>>
Try(seed, repair, next) ==
  Concluded(Built(points, seed, repair),
            tier = "origin" \/ attempt = Least(BuildSeeds, Len(points.blue)), next)
TryOrigin == tier = "origin" /\ Try(<<0, 0>>, FALSE, "plain")
TryPlain == tier = "plain" /\ Try(Seed, FALSE, "repair")
TryRepair == tier = "repair" /\ Try(Seed, TRUE, "bridge")
Bridged(s) ==
  IF s.blue = <<>> THEN tier' = "failed" /\ UNCHANGED points
  ELSE tier' = "bridged plain" /\ points' = s
TryBridge ==
  /\ tier = "bridge"
  /\ Bridged(Synthesized(points))
  /\ UNCHANGED <<cones, attempt, built>>
TryBridgedPlain == tier = "bridged plain" /\ Try(Seed, FALSE, "bridged repair")
TryBridgedRepair == tier = "bridged repair" /\ Try(Seed, TRUE, "failed")
BuildNext == TryOrigin \/ TryPlain \/ TryRepair \/ TryBridge \/ TryBridgedPlain \/ TryBridgedRepair

(* The published line goes round between the cones of the track, blue on its left,
   whatever is missing or made up: it never passes through a boundary.
   buildCenterlineFromSeed (slam_centerline_builder.cpp:1188-1396).            *)
Through(line, ring) ==
  \E i \in 1 .. Len(line) - 1, j \in 1 .. Len(ring) - 1 :
    Crosses(line[i], line[i + 1], ring[j], ring[j + 1])
InTrackOrder(true, seen) == Closed(SelectSeq(true, LAMBDA p : p \in ToSet(seen)))
Clockwise(line) ==
  MapThenSumSet(LAMBDA i : Cross(line[i], line[i + 1]), 1 .. Len(line) - 1) < 0
LineInTrack ==
  tier = "published" =>
    /\ ~Through(built[3], InTrackOrder(Oval.blue, cones.blue))
    /\ ~Through(built[3], InTrackOrder(Oval.yellow, cones.yellow))
    /\ LoopGap(built[3]) = 0 /\ Clockwise(built[3])
(* A map whose boundaries have no hole wider than the boundary gap, and no ghost,
   is always built, from whatever cone its lists start.                        *)
Whole(k) == WidestStep(InTrackOrder(Oval[k], cones[k])) <= MaxGap /\ ToSet(cones[k]) \subseteq ToSet(Oval[k])
WholeMapBuilds == Whole("blue") /\ Whole("yellow") => tier \notin {"bridge", "failed"}
=============================================================================
