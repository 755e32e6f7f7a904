----------------------------- MODULE NodeProofs -----------------------------
(***************************************************************************)
(* Proofs about the nodes of NodeScenes, for every value of their          *)
(* parameters: each node's inductive invariant is in its own module, and   *)
(* is proved here of its initial states and of its steps.                  *)
(***************************************************************************)
EXTENDS NodeScenes, Sequences, TLAPS

-----------------------------------------------------------------------------
(***************************************************************************)
(* A behaviour is one machine's throughout.                                *)
(***************************************************************************)
LEMMA MachineStays == ASSUME [ScenesNext]_sceneVars PROVE machine' = machine
  BY DEF ScenesNext, sceneVars

LEMMA SlotsStay ==
  ASSUME UNCHANGED sceneVars
  PROVE  UNCHANGED <<v1, v2, v3, v4, v5, v6, v7, v8, v9, v10>>
  BY DEF sceneVars

-----------------------------------------------------------------------------
(***************************************************************************)
(* wheel_odometry.                                                         *)
(***************************************************************************)
LEMMA WheelsStart ==
  ASSUME Wheels!WheelInit PROVE Wheels!WheelInv
  BY DEF Wheels!WheelInit, Wheels!WheelInv, Wheels!Spanned, Wheels!Never

LEMMA WheelsKeep ==
  ASSUME WheelsAssumption, Wheels!WheelInv, Wheels!WheelNext
  PROVE  Wheels!WheelInv'
<1>. USE DEF Wheels!WheelInv, Wheels!Spanned, Wheels!Never
<1>1. CASE Wheels!OnEkfNav
  BY <1>1 DEF Wheels!OnEkfNav
<1>2. CASE Wheels!OnRotAccel
  <2>1. PICK t \in 0 .. v1 :
          /\ v4' = [stamp |-> t, filter |-> Wheels!Newer(v4.filter, t)]
          /\ v5' = [v5 EXCEPT !.filtered = IF v4.filter # -1 /\ t > v4.filter
                                           THEN @ + t - v4.filter ELSE @,
                              !.began = IF @ = -1 THEN t ELSE @]
          /\ UNCHANGED <<v1, v2, v3, v6>>
    BY <1>2 DEF Wheels!OnRotAccel
  <2>2. v4' \in [stamp : Int, filter : Int] /\ v4'.filter = IF v4.filter > t THEN v4.filter ELSE t
    BY <2>1 DEF Wheels!Newer
  <2>. DEFINE f == IF v4.filter # -1 /\ t > v4.filter
                   THEN v5.filtered + t - v4.filter ELSE v5.filtered
              b == IF v5.began = -1 THEN t ELSE v5.began
  <2>3. f \in Int /\ b \in Int /\ v5' = [v5 EXCEPT !.filtered = f, !.began = b]
    BY <2>1
  <2>4. Wheels!Spanned(b, v4'.filter, f)
    BY <2>2
  <2>. HIDE DEF f, b
  <2>5. /\ v5' \in [last : Int, first : Int, travel : Int, filtered : Int, began : Int]
        /\ v5'.last = v5.last /\ v5'.first = v5.first /\ v5'.travel = v5.travel
        /\ v5'.filtered = f /\ v5'.began = b
    BY <2>3
  <2>. QED BY <2>1, <2>2, <2>4, <2>5
<1>3. CASE Wheels!OnWheelSpeeds
  <2>1. PICK t \in 0 .. v1 :
          /\ v5' = [v5 EXCEPT !.last = Wheels!Committed(@, t),
                              !.first = IF v5.last # -1 THEN @ ELSE t,
                              !.travel = IF v5.last # -1 /\ Wheels!Integrates(t - v5.last)
                                         THEN @ + (t - v5.last) ELSE @]
          /\ UNCHANGED <<v1, v2, v3, v4>>
    BY <1>3 DEF Wheels!OnWheelSpeeds
  <2>. DEFINE l == IF v5.last > t THEN v5.last ELSE t
              b == IF v5.last # -1 THEN v5.first ELSE t
              d == IF v5.last # -1 /\ t - v5.last \in 1 .. WheelsMaxDt
                   THEN v5.travel + (t - v5.last) ELSE v5.travel
  <2>2. /\ l \in Int /\ b \in Int /\ d \in Int
        /\ v5' = [v5 EXCEPT !.last = l, !.first = b, !.travel = d]
    BY <2>1 DEF Wheels!Committed, Wheels!Newer, Wheels!Integrates
  <2>3. Wheels!Spanned(b, l, d)
    BY <2>1 DEF WheelsAssumption
  <2>. HIDE DEF l, b, d
  <2>4. /\ v5' \in [last : Int, first : Int, travel : Int, filtered : Int, began : Int]
        /\ v5'.last = l /\ v5'.first = b /\ v5'.travel = d
        /\ v5'.filtered = v5.filtered /\ v5'.began = v5.began
    BY <2>2
  <2>. QED BY <2>1, <2>3, <2>4
<1>4. CASE Wheels!Drive
  BY <1>4 DEF Wheels!Drive
<1>. QED BY <1>1, <1>2, <1>3, <1>4 DEF Wheels!WheelNext

LEMMA WheelsCount == ASSUME Wheels!WheelInv PROVE Wheels!TimeCountsOnce
  BY DEF Wheels!WheelInv, Wheels!Spanned, Wheels!Never, Wheels!TimeCountsOnce

-----------------------------------------------------------------------------
(***************************************************************************)
(* sbg_odometry_bridge: the arithmetic.  Speeds are s, v, w, the way since *)
(* the last CarState r, its age a and that of the wheel speed b.           *)
(***************************************************************************)
LEMMA TimesNext == ASSUME NEW s \in Int, NEW a \in Int PROVE 2 * s * (a + 1) = 2 * s * a + 2 * s
  OBVIOUS

LEMMA SquareOfNext == ASSUME NEW a \in Int PROVE (a + 1) * (a + 1) = a * a + 2 * a + 1
  OBVIOUS

LEMMA TimesMonotone ==
  ASSUME NEW s \in Nat, NEW a \in Nat, NEW b \in Nat, a <= b PROVE s * a <= s * b
<1>1. PICK d \in Nat : b = a + d
  <2>1. b - a \in Nat /\ b = a + (b - a)
    OBVIOUS
  <2>. QED BY <2>1
<1>2. s * b = s * a + s * d /\ s * d >= 0
  BY <1>1
<1>. QED BY <1>2

LEMMA SquareMonotone ==
  ASSUME NEW a \in Nat, NEW b \in Nat, a <= b PROVE a * a <= b * b
<1>1. a * a <= a * b /\ b * a <= b * b /\ a * b = b * a
  BY TimesMonotone
<1>. QED BY <1>1

\* A tick: the car goes on at v and then at u.
LEMMA TickOfSpeed ==
  ASSUME NEW v \in Nat, NEW u \in Nat, NEW a \in Nat, NEW r \in Nat,
         Bridge!Abs(u - v) <= 1, Bridge!Abs(r - 2 * v * a) <= a * a
  PROVE  Bridge!Abs(r + v + u - 2 * u * (a + 1)) <= (a + 1) * (a + 1)
<1>1. u = v \/ u = v + 1 \/ u = v - 1
  BY DEF Bridge!Abs
<1>2. 2 * u * a = 2 * v * a \/ 2 * u * a = 2 * v * a + 2 * a \/ 2 * u * a = 2 * v * a - 2 * a
  BY <1>1
<1>. DEFINE p == 2 * v * a
            q == 2 * u * a
            n == a * a
<1>3. p \in Int /\ q \in Int /\ n \in Int
  OBVIOUS
<1>4. 2 * u * (a + 1) = q + 2 * u /\ (a + 1) * (a + 1) = n + 2 * a + 1
  BY TimesNext, SquareOfNext
<1>5. Bridge!Abs(r - p) <= n /\ (q = p \/ q = p + 2 * a \/ q = p - 2 * a)
  BY <1>2
<1>. HIDE DEF p, q, n
<1>6. Bridge!Abs(r + v + u - (q + 2 * u)) <= n + 2 * a + 1
  BY <1>1, <1>3, <1>5 DEF Bridge!Abs
<1>. QED BY <1>4, <1>6

LEMMA MissNext ==
  ASSUME NEW a \in Nat, NEW b \in Nat
  PROVE  /\ Bridge!WheelsMiss(a, b) \in Int
         /\ Bridge!WheelsMiss(a + 1, b + 1) = Bridge!WheelsMiss(a, b) + 2 * b + 1
<1>. DEFINE n == b * b
            p == (a - b) * (a - b)
            q == (b - a) * (b - a)
<1>1. n \in Int /\ p \in Int /\ q \in Int
  OBVIOUS
<1>2. (b + 1) * (b + 1) = n + 2 * b + 1
  BY SquareOfNext
<1>3. a + 1 - (b + 1) = a - b /\ b + 1 - (a + 1) = b - a /\ (b + 1 <= a + 1 <=> b <= a)
  OBVIOUS
<1>4. Bridge!WheelsMiss(a, b) = IF b <= a THEN n + p ELSE n - q
  BY DEF Bridge!WheelsMiss, Bridge!Square
<1>5. Bridge!WheelsMiss(a + 1, b + 1)
      = IF b <= a THEN (b + 1) * (b + 1) + p ELSE (b + 1) * (b + 1) - q
  BY <1>3 DEF Bridge!WheelsMiss, Bridge!Square
<1>. HIDE DEF n, p, q
<1>. QED BY <1>1, <1>2, <1>4, <1>5

\* A wheel speed of less than c ticks ago misses no more than c ticks of the odometry may.
LEMMA MissBounded ==
  ASSUME NEW a \in Nat, NEW b \in Nat, NEW c \in Nat, a <= c, b <= c
  PROVE  Bridge!WheelsMiss(a, b) <= c * c
<1>1. CASE b <= a
  <2>1. PICK d \in Nat : a = b + d
    <3>1. a - b \in Nat /\ a = b + (a - b)
      BY <1>1
    <3>. QED BY <3>1
  <2>2. (b + d) * (b + d) = b * b + d * d + 2 * (b * d) /\ b * d >= 0
    BY <2>1
  <2>3. b * b + (a - b) * (a - b) <= a * a
    BY <2>1, <2>2
  <2>4. a * a <= c * c
    BY SquareMonotone
  <2>. QED BY <1>1, <2>3, <2>4 DEF Bridge!WheelsMiss, Bridge!Square
<1>2. CASE b > a
  <2>1. (b - a) * (b - a) >= 0
    OBVIOUS
  <2>2. b * b <= c * c
    BY SquareMonotone
  <2>. QED BY <1>2, <2>1, <2>2 DEF Bridge!WheelsMiss, Bridge!Square
<1>. QED BY <1>1, <1>2

LEMMA MissOfNew == ASSUME NEW a \in Nat PROVE Bridge!WheelsMiss(a, 0) = a * a
  BY DEF Bridge!WheelsMiss, Bridge!Square

LEMMA MissOfNone == ASSUME NEW b \in Nat PROVE Bridge!WheelsMiss(0, b) = 0
  BY DEF Bridge!WheelsMiss, Bridge!Square

-----------------------------------------------------------------------------
(***************************************************************************)
(* sbg_odometry_bridge: its steps.                                         *)
(***************************************************************************)
LEMMA BridgeBounds ==
  ASSUME BridgeAssumption
  PROVE  /\ BridgeMaxDt \in Nat /\ BridgeWheelTimeout \in Nat /\ BridgeRefixHoldoff \in Nat
         /\ BridgeMaxSpeed \in Nat /\ BridgeSlack \in Nat /\ BridgeWheelTimeout <= BridgeMaxDt
         /\ BridgeMaxDt * BridgeMaxDt <= BridgeSlack
  BY DEF BridgeAssumption

LEMMA BridgeStart == ASSUME BridgeAssumption, Bridge!BridgeInit PROVE Bridge!BridgeInv
<1>1. /\ v1 \in [v : 0 .. BridgeMaxSpeed, run : {0}, fault : {FALSE}]
      /\ v3 = [age |-> -1, v |-> 0]
      /\ v4 = [started |-> FALSE, georeferenced |-> FALSE, last |-> -1,
               published |-> FALSE, stationary |-> FALSE, speed |-> -1, tier |-> -1,
               ever |-> FALSE, hold |-> 0]
      /\ v5 = {} /\ v6 = {} /\ v7 = [acc |-> -1, steady |-> 0]
  BY DEF Bridge!BridgeInit, Bridge!Never, Bridge!Unanchored
<1>2. Bridge!MotionInv
  <2>1. /\ v1 \in [v : 0 .. BridgeMaxSpeed, run : Nat, fault : BOOLEAN]
        /\ v1.run = 0 /\ ~v1.fault
    <3>1. PICK u \in 0 .. BridgeMaxSpeed : v1 = [v |-> u, run |-> 0, fault |-> FALSE]
      BY <1>1
    <3>. QED BY <3>1
  <2>2. v3.age = -1 /\ v3 \in [age : Int, v : Nat]
    BY <1>1
  <2>3. /\ v4 \in [started : BOOLEAN, georeferenced : BOOLEAN, last : Int,
                   published : BOOLEAN, stationary : BOOLEAN, speed : Int, tier : Int,
                   ever : BOOLEAN, hold : Nat]
        /\ ~v4.started /\ v4.speed = -1 /\ v4.last = -1
    BY <1>1
  <2>. QED BY <2>1, <2>2, <2>3, BridgeBounds DEF Bridge!MotionInv, Bridge!Fresh, Bridge!Never
<1>3. Bridge!AnchorInv
  BY <1>1, BridgeBounds DEF Bridge!AnchorInv, Bridge!Unanchored
<1>4. Bridge!MissedMotionOwned /\ Bridge!AnchorReturns
  BY <1>1 DEF Bridge!MissedMotionOwned, Bridge!AnchorReturns
<1>. QED BY <1>2, <1>3, <1>4 DEF Bridge!BridgeInv

LEMMA BridgeTick ==
  ASSUME BridgeAssumption, Bridge!BridgeInv, Bridge!Tick PROVE Bridge!BridgeInv'
<1>. USE BridgeBounds DEF Bridge!Never
<1>1. PICK u \in 0 .. BridgeMaxSpeed :
        /\ Bridge!Abs(u - v1.v) <= 1
        /\ v1' = [v1 EXCEPT !.v = u, !.run =
                    IF v4.started THEN Bridge!Least(Bridge!RunCap, @ + v1.v + u) ELSE 0]
  BY DEF Bridge!Tick
<1>2. /\ v3' = [age |-> Bridge!Older(v3.age, BridgeWheelTimeout),
                v |-> IF Bridge!Fresh(v3.age, BridgeWheelTimeout - 1) THEN v3.v ELSE 0]
      /\ v4' = [v4 EXCEPT !.last = Bridge!Older(@, BridgeMaxDt), !.published = FALSE,
                          !.hold = IF @ > 0 THEN @ - 1 ELSE 0]
      /\ v7' = [v7 EXCEPT !.steady = Bridge!Older(@, BridgeRefixHoldoff)]
      /\ v5' = {} /\ v6' = {}
  BY DEF Bridge!Tick
<1>3. Bridge!MotionInv /\ Bridge!AnchorInv
  BY DEF Bridge!BridgeInv
<1>4. /\ v1 \in [v : 0 .. BridgeMaxSpeed, run : Nat, fault : BOOLEAN]
      /\ v3 \in [age : Int, v : Nat] /\ v3.age >= -1
      /\ v4 \in [started : BOOLEAN, georeferenced : BOOLEAN, last : Int,
                 published : BOOLEAN, stationary : BOOLEAN, speed : Int, tier : Int,
                 ever : BOOLEAN, hold : Nat]
      /\ v4.speed >= -1 /\ v4.last >= -1 /\ v4.last <= BridgeMaxDt + 1
  BY <1>3 DEF Bridge!MotionInv
<1>. DEFINE run == IF v4.started THEN Bridge!Least(Bridge!RunCap, v1.run + v1.v + u) ELSE 0
            last == Bridge!Older(v4.last, BridgeMaxDt)
            hold == IF v4.hold > 0 THEN v4.hold - 1 ELSE 0
<1>5. BridgeMaxSpeed * BridgeMaxDt \in Nat /\ Bridge!RunCap \in Nat
      /\ Bridge!RunCap = 2 * BridgeMaxSpeed * BridgeMaxDt + BridgeSlack + 1
  BY DEF Bridge!RunCap
<1>6. run \in Nat /\ v1.v \in Nat /\ v1.run \in Nat
  BY <1>4, <1>5 DEF Bridge!Least
<1>7. /\ v1' \in [v : 0 .. BridgeMaxSpeed, run : Nat, fault : BOOLEAN]
      /\ v1'.v = u /\ v1'.run = run /\ v1'.fault = v1.fault
  <2>. v1' = [v1 EXCEPT !.v = u, !.run = run]
    BY <1>1, <1>4
  <2>. HIDE DEF run
  <2>. QED BY <1>4, <1>6
<1>8. last \in Int /\ hold \in Nat
  BY <1>4 DEF Bridge!Older, Bridge!Least
<1>9. /\ v4' \in [started : BOOLEAN, georeferenced : BOOLEAN, last : Int,
                  published : BOOLEAN, stationary : BOOLEAN, speed : Int, tier : Int,
                  ever : BOOLEAN, hold : Nat]
      /\ v4'.last = last /\ v4'.hold = hold /\ v4'.started = v4.started
      /\ v4'.speed = v4.speed /\ v4'.tier = v4.tier
  <2>. v4' = [v4 EXCEPT !.last = last, !.published = FALSE, !.hold = hold]
    BY <1>2, <1>4
  <2>. HIDE DEF last, hold
  <2>. QED BY <1>4, <1>8
<1>10. /\ v3' \in [age : Int, v : Nat] /\ v3'.age >= -1
       /\ Bridge!Fresh(v3'.age, BridgeWheelTimeout) =>
            v3'.age = v3.age + 1 /\ v3'.v = v3.v /\ Bridge!Fresh(v3.age, BridgeWheelTimeout)
            /\ v3.age \in Nat
  BY <1>2, <1>4 DEF Bridge!Fresh, Bridge!Older, Bridge!Least
<1>11. ASSUME Bridge!Fresh(v3'.age, BridgeWheelTimeout)
       PROVE  Bridge!Abs(v1'.v - v3'.v) <= v3'.age
  BY <1>1, <1>3, <1>4, <1>6, <1>7, <1>10, <1>11 DEF Bridge!MotionInv, Bridge!Abs
<1>12. ASSUME v4.started, ~v1.fault, last <= BridgeMaxDt PROVE Bridge!Counted(v4.last)'
  <2>1. v4.last \in Nat /\ last = v4.last + 1 /\ v4.last <= BridgeMaxDt
    BY <1>3, <1>4, <1>12 DEF Bridge!MotionInv, Bridge!Older, Bridge!Least
  <2>2. PICK a \in Nat : a = v4.last
    BY <2>1
  <2>3. Bridge!Counted(a)
    BY <1>3, <1>12, <2>1, <2>2 DEF Bridge!MotionInv
  <2>4. v1.run <= 2 * BridgeMaxSpeed * a /\ 2 * BridgeMaxSpeed * (a + 1) = 2 * BridgeMaxSpeed * a + 2 * BridgeMaxSpeed
    BY <2>3, TimesNext DEF Bridge!Counted
  <2>5. 2 * BridgeMaxSpeed * (a + 1) <= 2 * BridgeMaxSpeed * BridgeMaxDt
    BY <1>12, <2>1, <2>2, TimesMonotone
  <2>6. run = v1.run + v1.v + u /\ run <= 2 * BridgeMaxSpeed * (a + 1)
    <3>1. v1.run + v1.v + u <= 2 * BridgeMaxSpeed * a + 2 * BridgeMaxSpeed
      BY <1>4, <1>6, <2>4
    <3>. QED BY <1>5, <1>6, <1>12, <2>4, <2>5, <3>1 DEF Bridge!Least
  <2>. HIDE DEF run, last
  <2>7. Bridge!Abs(run - 2 * u * (a + 1)) <= (a + 1) * (a + 1)
    BY <1>1, <1>6, <2>3, <2>6, TickOfSpeed DEF Bridge!Counted, Bridge!Square
  <2>10. v4'.last = a + 1 /\ v4'.speed = v4.speed /\ v1'.v = u /\ v1'.run = run
    BY <1>7, <1>9, <2>1, <2>2
  <2>11. PICK x \in Nat : x = v1'.run /\ x = v1.run + v1.v + u
    BY <1>6, <2>6, <2>10
  <2>8. ASSUME v4.speed # -1
        PROVE  /\ Bridge!Abs(u - v4.speed) <= a + 1
               /\ Bridge!Abs(x - 2 * v4.speed * (a + 1)) <= (a + 1) * (a + 1)
    <3>1. PICK p \in Nat, m \in Nat : p = v4.speed /\ m = a * a
      BY <1>4, <2>8
    <3>2. Bridge!Abs(v1.v - p) <= a /\ Bridge!Abs(v1.run - 2 * p * a) <= m
      BY <2>3, <2>8, <3>1 DEF Bridge!Counted, Bridge!Square
    <3>3. /\ Bridge!Abs(u - p) <= a + 1
          /\ Bridge!Abs(x - 2 * p * (a + 1)) <= m + 2 * a + 1
      <4>1. PICK q \in Int : q = 2 * p * a /\ 2 * p * (a + 1) = q + 2 * p
        BY TimesNext
      <4>2. Bridge!Abs(x - (q + 2 * p)) <= m + 2 * a + 1
        BY <1>1, <1>6, <2>11, <3>2, <4>1 DEF Bridge!Abs
      <4>. QED BY <1>1, <1>6, <2>11, <3>2, <4>1, <4>2 DEF Bridge!Abs
    <3>4. (a + 1) * (a + 1) = m + 2 * a + 1
      BY <3>1, SquareOfNext
    <3>5. Bridge!Abs(x - 2 * p * (a + 1)) <= (a + 1) * (a + 1)
      BY <3>3, <3>4, Zenon
    <3>. QED BY <3>1, <3>3, <3>5, Zenon
  <2>9. ASSUME Bridge!Fresh(v3'.age, BridgeWheelTimeout)
        PROVE  Bridge!Abs(x - 2 * v3'.v * (a + 1)) <= Bridge!WheelsMiss(a + 1, v3'.age)
    <3>1. PICK b \in Nat, w \in Nat : b = v3.age /\ v3'.age = b + 1 /\ v3'.v = w /\ v3.v = w
                                     /\ Bridge!Fresh(v3.age, BridgeWheelTimeout)
      BY <1>4, <1>10, <2>9
    <3>2. PICK m \in Int : m = Bridge!WheelsMiss(a, b)
                           /\ Bridge!WheelsMiss(a + 1, b + 1) = m + 2 * b + 1
      BY MissNext
    <3>3. Bridge!Abs(v1.v - w) <= b /\ Bridge!Abs(v1.run - 2 * w * a) <= m
      BY <1>3, <2>3, <3>1, <3>2 DEF Bridge!Counted, Bridge!MotionInv
    <3>4. Bridge!Abs(x - 2 * w * (a + 1)) <= m + 2 * b + 1
      <4>1. PICK q \in Int : q = 2 * w * a /\ 2 * w * (a + 1) = q + 2 * w
        BY TimesNext
      <4>2. Bridge!Abs(x - (q + 2 * w)) <= m + 2 * b + 1
        BY <1>1, <1>6, <2>11, <3>3, <4>1 DEF Bridge!Abs
      <4>. QED BY <4>1, <4>2
    <3>5. Bridge!Abs(x - 2 * w * (a + 1)) <= Bridge!WheelsMiss(a + 1, b + 1)
      BY <3>2, <3>4, Zenon
    <3>. QED BY <3>1, <3>5, Zenon
  <2>12. v1'.run <= 2 * BridgeMaxSpeed * v4'.last
    BY <2>6, <2>10, Zenon
  <2>13. Bridge!Abs(v1'.run - 2 * v1'.v * v4'.last) <= v4'.last * v4'.last
    BY <2>7, <2>10, Zenon
  <2>14. v4'.speed # -1 =>
           /\ Bridge!Abs(v1'.v - v4'.speed) <= v4'.last
           /\ Bridge!Abs(v1'.run - 2 * v4'.speed * v4'.last) <= v4'.last * v4'.last
    <3>1. SUFFICES ASSUME v4'.speed # -1
                   PROVE  /\ Bridge!Abs(v1'.v - v4'.speed) <= v4'.last
                          /\ Bridge!Abs(v1'.run - 2 * v4'.speed * v4'.last) <= v4'.last * v4'.last
      OBVIOUS
    <3>2. v4.speed # -1 /\ v4'.last = a + 1 /\ v4'.speed = v4.speed /\ v1'.v = u
      BY <2>10, <3>1
    <3>3. /\ Bridge!Abs(u - v4.speed) <= a + 1
          /\ Bridge!Abs(x - 2 * v4.speed * (a + 1)) <= (a + 1) * (a + 1)
      BY <2>8, <3>2
    <3>. QED BY <2>11, <3>2, <3>3, Zenon
  <2>15. Bridge!Fresh(v3'.age, BridgeWheelTimeout) =>
           Bridge!Abs(v1'.run - 2 * v3'.v * v4'.last) <= Bridge!WheelsMiss(v4'.last, v3'.age)
    <3>1. SUFFICES ASSUME Bridge!Fresh(v3'.age, BridgeWheelTimeout)
                   PROVE  Bridge!Abs(v1'.run - 2 * v3'.v * v4'.last)
                          <= Bridge!WheelsMiss(v4'.last, v3'.age)
      OBVIOUS
    <3>2. Bridge!Abs(x - 2 * v3'.v * (a + 1)) <= Bridge!WheelsMiss(a + 1, v3'.age)
      BY <2>9, <3>1
    <3>3. v4'.last = a + 1
      BY <2>10
    <3>. QED BY <2>11, <3>2, <3>3, Zenon
  <2>. QED
    BY <2>12, <2>13, <2>14, <2>15, Zenon DEF Bridge!Counted, Bridge!Square
<1>13. Bridge!MotionInv'
  <2>1. IF v4'.started THEN v4'.last >= 0 ELSE v1'.run = 0 /\ ~v1'.fault
    BY <1>3, <1>4, <1>7, <1>9 DEF Bridge!MotionInv, Bridge!Older, Bridge!Least
  <2>2. v4'.last >= -1 /\ v4'.last <= BridgeMaxDt + 1
    BY <1>4, <1>9 DEF Bridge!Older, Bridge!Least
  <2>3. v4'.started /\ ~v1'.fault /\ v4'.last <= BridgeMaxDt => Bridge!Counted(v4.last)'
    BY <1>7, <1>9, <1>12
  <2>. HIDE DEF run, last, hold
  <2>. QED BY <1>4, <1>7, <1>9, <1>10, <1>11, <2>1, <2>2, <2>3 DEF Bridge!MotionInv
<1>14. Bridge!AnchorInv'
  <2>1. v7 \in [acc : Int, steady : Nat] /\ v4.hold \in Nat
    BY <1>3, <1>4 DEF Bridge!AnchorInv
  <2>2. v7' \in [acc : Int, steady : Nat] /\ v7'.acc = v7.acc
        /\ (v7'.steady = v7.steady + 1 \/ v7'.steady = BridgeRefixHoldoff + 1)
        /\ v7'.steady <= v7.steady + 1
    BY <1>2, <2>1 DEF Bridge!Older, Bridge!Least
  <2>. QED BY <1>3, <1>9, <2>1, <2>2 DEF Bridge!AnchorInv
<1>15. Bridge!MissedMotionOwned' /\ Bridge!AnchorReturns'
  BY <1>2 DEF Bridge!MissedMotionOwned, Bridge!AnchorReturns
<1>. QED BY <1>13, <1>14, <1>15 DEF Bridge!BridgeInv


LEMMA BridgeWheels ==
  ASSUME BridgeAssumption, Bridge!BridgeInv, Bridge!OnWheelSpeeds PROVE Bridge!BridgeInv'
<1>. USE BridgeBounds DEF Bridge!Never
<1>1. v3' = [age |-> 0, v |-> v1.v] /\ v1' = v1 /\ v4' = v4 /\ v5' = v5 /\ v6' = v6 /\ v7' = v7
  BY DEF Bridge!OnWheelSpeeds
<1>2. Bridge!MotionInv /\ v1.v \in Nat /\ v1.run \in Nat
  BY DEF Bridge!BridgeInv, Bridge!MotionInv
<1>3. /\ v3' \in [age : Int, v : Nat] /\ v3'.age = 0 /\ v3'.v = v1.v
      /\ Bridge!Abs(v1.v - v3'.v) <= v3'.age
  BY <1>1, <1>2 DEF Bridge!Abs
<1>4. ASSUME v4.started, ~v1.fault, v4.last <= BridgeMaxDt PROVE Bridge!Counted(v4.last)'
  <2>1. PICK a \in Nat : a = v4.last
    BY <1>2, <1>4 DEF Bridge!MotionInv
  <2>2. Bridge!Counted(a)
    BY <1>2, <1>4, <2>1 DEF Bridge!MotionInv
  <2>3. Bridge!Abs(v1.run - 2 * v1.v * a) <= Bridge!WheelsMiss(a, 0)
    BY <2>2, MissOfNew DEF Bridge!Counted, Bridge!Square
  <2>4. v4'.last = a
    BY <1>1, <2>1
  <2>. QED BY <1>1, <1>3, <2>2, <2>3, <2>4, Zenon DEF Bridge!Counted
<1>5. Bridge!MotionInv'
  BY <1>1, <1>2, <1>3, <1>4 DEF Bridge!MotionInv
<1>. QED
  BY <1>1, <1>5 DEF Bridge!BridgeInv, Bridge!AnchorInv, Bridge!MissedMotionOwned,
                    Bridge!AnchorReturns

LEMMA BridgeEuler ==
  ASSUME Bridge!BridgeInv, Bridge!OnEuler PROVE Bridge!BridgeInv'
<1>1. v1' = v1 /\ v3' = v3 /\ v4' = v4 /\ v5' = v5 /\ v6' = v6 /\ v7' = v7
  BY DEF Bridge!OnEuler
<1>2. Bridge!MotionInv' = Bridge!MotionInv
  BY <1>1 DEF Bridge!MotionInv, Bridge!Counted
<1>. QED
  BY <1>1, <1>2 DEF Bridge!BridgeInv, Bridge!AnchorInv, Bridge!MissedMotionOwned,
                    Bridge!AnchorReturns

\* What is started has its clock started too.
LEMMA BridgeStarted ==
  ASSUME BridgeAssumption, Bridge!MotionInv, NEW msg \in Bridge!Solutions
  PROVE  LET n == Bridge!Started(msg)
         IN /\ n \in [started : BOOLEAN, georeferenced : BOOLEAN, last : Int,
                      published : BOOLEAN, stationary : BOOLEAN, speed : Int, tier : Int,
                      ever : BOOLEAN, hold : Nat]
            /\ n.started /\ n.last >= 0 /\ n.speed = v4.speed /\ n.tier = v4.tier
            /\ n.hold = v4.hold /\ n.ever = v4.ever
            /\ v4.started => n.last = v4.last
<1>1. /\ v4 \in [started : BOOLEAN, georeferenced : BOOLEAN, last : Int,
                 published : BOOLEAN, stationary : BOOLEAN, speed : Int, tier : Int,
                 ever : BOOLEAN, hold : Nat]
      /\ v4.started => v4.last >= 0
  BY DEF Bridge!MotionInv
<1>. DEFINE e == v4.georeferenced \/ Bridge!Absolute(msg)
            f == Bridge!Absolute(msg)
<1>2. e \in BOOLEAN /\ f \in BOOLEAN
  BY DEF Bridge!Absolute
<1>3. PICK b \in BOOLEAN, d \in BOOLEAN, t \in BOOLEAN, z \in Int :
        b = e /\ d = f /\ t = TRUE /\ z = 0
  <2>. HIDE DEF e, f
  <2>1. \E b \in BOOLEAN : b = e
    BY <1>2
  <2>2. \E d \in BOOLEAN : d = f
    BY <1>2
  <2>3. \E z \in Int : z = 0
    OBVIOUS
  <2>. QED BY <2>1, <2>2, <2>3
<1>4. Bridge!Started(msg) = IF v4.started THEN [v4 EXCEPT !.georeferenced = b]
                            ELSE [v4 EXCEPT !.started = t, !.georeferenced = d, !.last = z]
  BY <1>1, <1>3 DEF Bridge!Started
<1>5. CASE v4.started
  BY <1>1, <1>4, <1>5
<1>6. CASE ~v4.started
  <2>. DEFINE n == [v4 EXCEPT !.started = t, !.georeferenced = d, !.last = z]
  <2>1. Bridge!Started(msg) = n /\ t /\ z = 0
    BY <1>3, <1>4, <1>6
  <2>2. /\ n \in [started : BOOLEAN, georeferenced : BOOLEAN, last : Int,
                 published : BOOLEAN, stationary : BOOLEAN, speed : Int, tier : Int,
                 ever : BOOLEAN, hold : Nat]
        /\ n.started = t /\ n.last = z /\ n.speed = v4.speed /\ n.tier = v4.tier
        /\ n.hold = v4.hold /\ n.ever = v4.ever
    BY <1>1
  <2>. HIDE DEF n
  <2>. QED BY <1>6, <2>1, <2>2
<1>. QED BY <1>5, <1>6

LEMMA BridgeFault ==
  ASSUME BridgeAssumption, Bridge!BridgeInv, NEW msg \in Bridge!Solutions,
         Bridge!OnNavFault(msg), v3' = v3
  PROVE  Bridge!BridgeInv'
<1>. USE BridgeBounds DEF Bridge!Never
<1>. DEFINE n == Bridge!Started(msg)
<1>1. Bridge!MotionInv /\ Bridge!AnchorInv
  BY DEF Bridge!BridgeInv
<1>2. /\ n \in [started : BOOLEAN, georeferenced : BOOLEAN, last : Int,
                published : BOOLEAN, stationary : BOOLEAN, speed : Int, tier : Int,
                ever : BOOLEAN, hold : Nat]
      /\ n.started /\ n.tier = v4.tier /\ n.hold = v4.hold
  BY <1>1, BridgeStarted
<1>3. /\ v4' = [n EXCEPT !.last = 0, !.speed = -1] /\ v1' = [v1 EXCEPT !.fault = TRUE]
      /\ v7' = Bridge!FixSeen(msg, v4'.georeferenced) /\ v5' = v5 /\ v6' = v6 /\ msg.mode < 3
  BY DEF Bridge!OnNavFault, Bridge!Fault
<1>. HIDE DEF n
<1>4. /\ v4' \in [started : BOOLEAN, georeferenced : BOOLEAN, last : Int,
                  published : BOOLEAN, stationary : BOOLEAN, speed : Int, tier : Int,
                  ever : BOOLEAN, hold : Nat]
      /\ v4'.started /\ v4'.tier = v4.tier /\ v4'.hold = v4.hold /\ v4'.last = 0
      /\ v4'.speed = -1
  <2>1. PICK z \in Int : z = 0
    OBVIOUS
  <2>2. PICK m \in Int : m = -1
    OBVIOUS
  <2>3. v4' = [n EXCEPT !.last = z, !.speed = m]
    BY <1>3, <2>1, <2>2
  <2>. QED BY <1>2, <2>1, <2>2, <2>3
<1>5. v1' \in [v : 0 .. BridgeMaxSpeed, run : Nat, fault : BOOLEAN] /\ v1'.fault /\ v1'.v = v1.v
  BY <1>1, <1>3 DEF Bridge!MotionInv
<1>6. Bridge!MotionInv'
  BY <1>1, <1>4, <1>5 DEF Bridge!MotionInv
<1>7. ~Bridge!Absolute(msg)
  BY <1>3 DEF Bridge!Absolute, Bridge!Solutions
<1>8. v7' \in [acc : Int, steady : Nat] /\ v7'.acc = -1
  BY <1>1, <1>3, <1>7 DEF Bridge!FixSeen, Bridge!Unanchored, Bridge!AnchorInv
<1>9. Bridge!AnchorInv' /\ Bridge!AnchorReturns'
  BY <1>1, <1>4, <1>8 DEF Bridge!AnchorInv, Bridge!AnchorReturns, Bridge!Unanchored
<1>. QED
  BY <1>3, <1>6, <1>9 DEF Bridge!BridgeInv, Bridge!MissedMotionOwned

LEMMA BridgeWaiting ==
  ASSUME Bridge!BridgeInv, NEW msg \in Bridge!Solutions, Bridge!OnNavWaiting(msg), v3' = v3
  PROVE  Bridge!BridgeInv'
<1>1. /\ v1' = v1 /\ v4' = v4 /\ v5' = v5 /\ v6' = v6
      /\ v7' = [acc |-> -1, steady |-> IF -1 = v7.acc THEN v7.steady ELSE 0]
  BY DEF Bridge!OnNavWaiting, Bridge!FixSeen, Bridge!Unanchored
<1>2. Bridge!MotionInv' = Bridge!MotionInv
  BY <1>1 DEF Bridge!MotionInv, Bridge!Counted
<1>3. v7 \in [acc : Int, steady : Nat] /\ v4.hold <= BridgeRefixHoldoff
  BY DEF Bridge!BridgeInv, Bridge!AnchorInv
<1>4. v7' \in [acc : Int, steady : Nat] /\ v7'.acc = -1
  BY <1>1, <1>3
<1>5. Bridge!AnchorInv' /\ Bridge!AnchorReturns'
  BY <1>1, <1>3, <1>4 DEF Bridge!AnchorInv, Bridge!AnchorReturns, Bridge!Unanchored
<1>. QED BY <1>1, <1>2, <1>5 DEF Bridge!BridgeInv, Bridge!MissedMotionOwned

\* The refix holdoff: a tier that is the one before leaves it as it is.
LEMMA BridgeAnchored ==
  ASSUME BridgeAssumption, NEW msg \in Bridge!Solutions,
         NEW k \in [started : BOOLEAN, georeferenced : BOOLEAN, last : Int,
                    published : BOOLEAN, stationary : BOOLEAN, speed : Int, tier : Int,
                    ever : BOOLEAN, hold : Nat]
  PROVE  LET a == Bridge!Anchored(k, msg)
         IN /\ a \in [started : BOOLEAN, georeferenced : BOOLEAN, last : Int,
                      published : BOOLEAN, stationary : BOOLEAN, speed : Int, tier : Int,
                      ever : BOOLEAN, hold : Nat]
            /\ a.started = k.started /\ a.last = k.last /\ a.speed = k.speed
            /\ a.tier = IF k.georeferenced /\ Bridge!Absolute(msg) THEN msg.acc ELSE -1
            /\ a.hold = k.hold \/ a.hold = BridgeRefixHoldoff
            /\ k.tier = 2 /\ a.tier = 2 => a.hold = k.hold
<1>. USE BridgeBounds
<1>1. msg.acc \in {0, 2}
  BY DEF Bridge!Solutions
<1>2. CASE k.georeferenced /\ Bridge!Absolute(msg)
  <2>. DEFINE h == IF Bridge!Improved(k, msg.acc) THEN BridgeRefixHoldoff ELSE k.hold
  <2>1. PICK t \in BOOLEAN, c \in Int : t = TRUE /\ c = msg.acc
    <3>1. \E c \in Int : c = msg.acc
      BY <1>1
    <3>. QED BY <3>1
  <2>2. h \in Nat
    OBVIOUS
  <2>3. k.tier = 2 /\ c = 2 => h = k.hold
    BY <2>1 DEF Bridge!Improved, Bridge!Unanchored
  <2>4. Bridge!Anchored(k, msg) = [k EXCEPT !.tier = c, !.ever = t, !.hold = h]
    BY <1>2, <2>1 DEF Bridge!Anchored, Bridge!Held, Bridge!Tier
  <2>5. h = k.hold \/ h = BridgeRefixHoldoff
    OBVIOUS
  <2>. DEFINE a == [k EXCEPT !.tier = c, !.ever = t, !.hold = h]
  <2>. HIDE DEF h
  <2>6. /\ a \in [started : BOOLEAN, georeferenced : BOOLEAN, last : Int,
                  published : BOOLEAN, stationary : BOOLEAN, speed : Int, tier : Int,
                  ever : BOOLEAN, hold : Nat]
        /\ a.started = k.started /\ a.last = k.last /\ a.speed = k.speed
        /\ a.tier = c /\ a.hold = h
    BY <2>2
  <2>. HIDE DEF a
  <2>. QED BY <1>2, <2>1, <2>3, <2>4, <2>5, <2>6 DEF a
<1>3. CASE ~(k.georeferenced /\ Bridge!Absolute(msg))
  <2>1. PICK m \in Int : m = -1
    OBVIOUS
  <2>2. Bridge!Anchored(k, msg) = [k EXCEPT !.tier = m]
    BY <1>3, <2>1 DEF Bridge!Anchored, Bridge!Unanchored
  <2>. QED BY <1>3, <2>1, <2>2
<1>. QED BY <1>2, <1>3

\* The motion of a step that a fresh source measured is known to within the slack.
LEMMA BridgeHonest ==
  ASSUME BridgeAssumption, Bridge!MotionInv, NEW msg \in Bridge!Solutions,
         v4.started, ~v1.fault, NEW n, n.last = v4.last, n.speed = v4.speed,
         NEW source, source = Bridge!Source(msg, n.last), source \notin {"zupt", "held"}
  PROVE  ~(Bridge!Abs(Bridge!Step(n, source, n.last) - v1.run) > BridgeSlack)
<1>. USE BridgeBounds DEF Bridge!Never
<1>1. PICK a \in Nat : a = v4.last /\ a = n.last
  BY DEF Bridge!MotionInv
<1>2. PICK v \in Nat, r \in Nat, w \in Nat : v = v1.v /\ r = v1.run /\ w = v3.v
  BY DEF Bridge!MotionInv
<1>3. \/ source = "velocity" /\ a \in 1 .. BridgeMaxDt
      \/ source = "wheels" /\ a \in 1 .. BridgeMaxDt /\ Bridge!Fresh(v3.age, BridgeWheelTimeout)
  BY <1>1 DEF Bridge!Source, Bridge!CanDeadReckon
<1>4. Bridge!Counted(a)
  BY <1>1, <1>3 DEF Bridge!MotionInv
<1>5. PICK m \in Nat : m = a * a /\ m <= BridgeSlack
  <2>1. a * a <= BridgeMaxDt * BridgeMaxDt /\ a * a \in Nat /\ BridgeMaxDt * BridgeMaxDt \in Nat
    BY <1>3, SquareMonotone
  <2>. QED BY <2>1
<1>6. CASE source = "velocity"
  <2>1. PICK s \in Nat : s = IF v4.speed = -1 THEN v ELSE v4.speed
    <3>1. v4.speed \in Int /\ v4.speed >= -1
      BY DEF Bridge!MotionInv
    <3>. QED BY <3>1
  <2>2. Bridge!Abs(r - 2 * v * a) <= m /\ Bridge!Abs(r - 2 * s * a) <= m
    BY <1>2, <1>4, <1>5, <2>1 DEF Bridge!Counted, Bridge!Square
  <2>3. Bridge!Abs((s + v) * a - r) <= m
    <3>1. PICK p \in Int, q \in Int : p = s * a /\ q = v * a
      OBVIOUS
    <3>2. 2 * v * a = 2 * q /\ 2 * s * a = 2 * p /\ (s + v) * a = p + q
      BY <3>1
    <3>3. Bridge!Abs(r - 2 * q) <= m /\ Bridge!Abs(r - 2 * p) <= m
      BY <2>2, <3>2
    <3>4. Bridge!Abs(p + q - r) <= m
      BY <3>3 DEF Bridge!Abs
    <3>. QED BY <3>2, <3>4
  <2>4. Bridge!Step(n, source, n.last) = (s + v) * a
    BY <1>1, <1>2, <1>6, <2>1 DEF Bridge!Step
  <2>5. PICK q \in Int : q = (s + v) * a
    OBVIOUS
  <2>6. ~(Bridge!Abs(q - r) > BridgeSlack)
    BY <1>5, <2>3, <2>5 DEF Bridge!Abs
  <2>. QED BY <1>2, <2>4, <2>5, <2>6
<1>7. CASE source = "wheels"
  <2>1. PICK b \in Nat : b = v3.age /\ b <= BridgeMaxDt
    BY <1>3, <1>7 DEF Bridge!Fresh, Bridge!MotionInv
  <2>2. Bridge!WheelsMiss(a, b) <= BridgeMaxDt * BridgeMaxDt /\ Bridge!WheelsMiss(a, b) \in Int
        /\ BridgeMaxDt * BridgeMaxDt \in Nat
    <3>1. a <= BridgeMaxDt
      BY <1>3
    <3>2. Bridge!WheelsMiss(a, b) <= BridgeMaxDt * BridgeMaxDt
      BY <2>1, <3>1, MissBounded
    <3>3. BridgeMaxDt * BridgeMaxDt \in Nat
      OBVIOUS
    <3>4. Bridge!WheelsMiss(a, b) \in Int
      BY MissNext
    <3>. QED BY <3>2, <3>3, <3>4
  <2>3. Bridge!Abs(r - 2 * w * a) <= Bridge!WheelsMiss(a, b)
    BY <1>2, <1>3, <1>4, <1>7, <2>1 DEF Bridge!Counted
  <2>4. PICK q \in Int : q = 2 * w * a
    OBVIOUS
  <2>5. ~(Bridge!Abs(q - r) > BridgeSlack)
    BY <2>2, <2>3, <2>4 DEF Bridge!Abs
  <2>6. Bridge!Step(n, source, n.last) = q
    BY <1>1, <1>2, <1>7, <2>4 DEF Bridge!Step
  <2>. QED BY <1>2, <2>5, <2>6
<1>. QED BY <1>3, <1>6, <1>7

LEMMA BridgePublished ==
  ASSUME BridgeAssumption, Bridge!BridgeInv, NEW msg \in Bridge!Solutions,
         Bridge!OnNavPublished(msg), v3' = v3
  PROVE  Bridge!BridgeInv'
<1>. USE BridgeBounds DEF Bridge!Never
<1>. DEFINE n == Bridge!Started(msg)
            source == Bridge!Source(msg, n.last)
            speed == IF source = "velocity" THEN v1.v ELSE -1
            k == [n EXCEPT !.last = 0, !.published = TRUE,
                           !.stationary = Bridge!Stationary, !.speed = speed]
            next == Bridge!Anchored(k, msg)
<1>1. Bridge!MotionInv /\ Bridge!AnchorInv
  BY DEF Bridge!BridgeInv
<1>2. /\ n \in [started : BOOLEAN, georeferenced : BOOLEAN, last : Int,
                published : BOOLEAN, stationary : BOOLEAN, speed : Int, tier : Int,
                ever : BOOLEAN, hold : Nat]
      /\ n.started /\ n.tier = v4.tier /\ n.hold = v4.hold /\ n.speed = v4.speed
      /\ v4.started => n.last = v4.last
  BY <1>1, BridgeStarted
<1>3. /\ v4' = next /\ v1' = [v1 EXCEPT !.run = 0, !.fault = FALSE]
      /\ v5' = {[sigma |-> Bridge!Sigma(source, msg.mode), source |-> source,
                 hidden |-> v4.started
                            /\ Bridge!Abs(Bridge!Step(n, source, n.last) - v1.run) > BridgeSlack,
                 resumes |-> v1.fault]}
      /\ v6' = IF n.georeferenced THEN {Bridge!AnchorSigma(next, msg)} ELSE {}
      /\ v7' = Bridge!FixSeen(msg, n.georeferenced)
  BY DEF Bridge!OnNavPublished
<1>4. v1.v \in 0 .. BridgeMaxSpeed /\ speed \in {-1, v1.v}
  BY <1>1 DEF Bridge!MotionInv
<1>5. /\ k \in [started : BOOLEAN, georeferenced : BOOLEAN, last : Int,
                published : BOOLEAN, stationary : BOOLEAN, speed : Int, tier : Int,
                ever : BOOLEAN, hold : Nat]
      /\ k.started /\ k.tier = v4.tier /\ k.hold = v4.hold /\ k.speed = speed /\ k.last = 0
      /\ k.georeferenced = n.georeferenced
  <2>1. PICK z \in Int : z = 0
    OBVIOUS
  <2>2. PICK b \in BOOLEAN : b = Bridge!Stationary
    <3>1. Bridge!Stationary \in BOOLEAN
      BY DEF Bridge!Stationary, Bridge!Fresh
    <3>. QED BY <3>1
  <2>3. PICK t \in BOOLEAN : t = TRUE
    OBVIOUS
  <2>4. PICK p \in Int : p = speed
    BY <1>4
  <2>5. k = [n EXCEPT !.last = z, !.published = t, !.stationary = b, !.speed = p]
    BY <2>1, <2>2, <2>3, <2>4
  <2>. HIDE DEF n, k, speed
  <2>. QED BY <1>2, <2>1, <2>4, <2>5
<1>. HIDE DEF k
<1>6. /\ v4' \in [started : BOOLEAN, georeferenced : BOOLEAN, last : Int,
                  published : BOOLEAN, stationary : BOOLEAN, speed : Int, tier : Int,
                  ever : BOOLEAN, hold : Nat]
      /\ v4'.started /\ v4'.last = 0 /\ v4'.speed = speed
      /\ v4'.tier = IF n.georeferenced /\ Bridge!Absolute(msg) THEN msg.acc ELSE -1
      /\ v4'.hold = v4.hold \/ v4'.hold = BridgeRefixHoldoff
      /\ v4.tier = 2 /\ v4'.tier = 2 => v4'.hold = v4.hold
  BY <1>3, <1>5, BridgeAnchored
<1>7. /\ v1' \in [v : 0 .. BridgeMaxSpeed, run : Nat, fault : BOOLEAN]
      /\ v1'.v = v1.v /\ v1'.run = 0 /\ ~v1'.fault
  BY <1>1, <1>3 DEF Bridge!MotionInv
<1>. HIDE DEF n, source, next, speed
<1>8. Bridge!MotionInv'
  <2>1. v1'.v \in Nat /\ v1'.run = 0
    BY <1>4, <1>7
  <2>2. /\ v3' \in [age : Int, v : Nat] /\ v3'.age >= -1
        /\ Bridge!Fresh(v3'.age, BridgeWheelTimeout) => Bridge!Abs(v1'.v - v3'.v) <= v3'.age
    BY <1>1, <1>7 DEF Bridge!MotionInv
  <2>3. v4'.speed \in {-1, v1'.v}
    BY <1>4, <1>6, <1>7
  <2>4. Bridge!Counted(0)'
    <3>1. PICK u \in Nat, w \in Nat, b \in Int : u = v1'.v /\ w = v3'.v /\ b = v3'.age
      BY <2>1, <2>2
    <3>2. 2 * u * 0 = 0 /\ 2 * w * 0 = 0 /\ 2 * BridgeMaxSpeed * 0 = 0 /\ 0 * 0 = 0
      OBVIOUS
    <3>3. Bridge!Fresh(b, BridgeWheelTimeout) => Bridge!WheelsMiss(0, b) = 0
      BY MissOfNone DEF Bridge!Fresh
    <3>4. Bridge!Abs(0 - 0) = 0 /\ Bridge!Abs(u - u) = 0 /\ 0 <= 0
      BY DEF Bridge!Abs
    <3>5. v1'.run <= 2 * BridgeMaxSpeed * 0
      BY <2>1, <3>2
    <3>6. Bridge!Abs(v1'.run - 2 * v1'.v * 0) <= 0 * 0
      BY <2>1, <3>1, <3>2, <3>4, Zenon
    <3>7. ASSUME v4'.speed # -1
          PROVE  /\ Bridge!Abs(v1'.v - v4'.speed) <= 0
                 /\ Bridge!Abs(v1'.run - 2 * v4'.speed * 0) <= 0 * 0
      <4>1. v4'.speed = u
        BY <2>3, <3>1, <3>7
      <4>. QED BY <2>1, <3>1, <3>2, <3>4, <4>1, Zenon
    <3>8. ASSUME Bridge!Fresh(v3'.age, BridgeWheelTimeout)
          PROVE  Bridge!Abs(v1'.run - 2 * v3'.v * 0) <= Bridge!WheelsMiss(0, v3'.age)
      <4>1. Bridge!WheelsMiss(0, v3'.age) = 0
        BY <3>1, <3>3, <3>8, Zenon
      <4>. QED BY <2>1, <3>1, <3>2, <3>4, <4>1, Zenon
    <3>. QED BY <3>5, <3>6, <3>7, <3>8, Zenon DEF Bridge!Counted, Bridge!Square, Bridge!Never
  <2>. QED BY <1>4, <1>6, <1>7, <2>2, <2>4 DEF Bridge!MotionInv
<1>9. msg.acc \in {0, 2}
  BY DEF Bridge!Solutions
<1>10. /\ v7' \in [acc : Int, steady : Nat]
       /\ v7'.acc = IF n.georeferenced /\ Bridge!Absolute(msg) THEN msg.acc ELSE -1
       /\ v7'.steady = IF v7'.acc = v7.acc THEN v7.steady ELSE 0
  BY <1>1, <1>3, <1>9 DEF Bridge!FixSeen, Bridge!Unanchored, Bridge!AnchorInv
<1>11. Bridge!AnchorInv'
  BY <1>1, <1>6, <1>10 DEF Bridge!AnchorInv, Bridge!Unanchored
<1>12. Bridge!AnchorReturns'
  <2>1. SUFFICES ASSUME v7'.acc = 2, v7'.steady > BridgeRefixHoldoff
                 PROVE  v6' \subseteq {"tight"}
    BY DEF Bridge!AnchorReturns
  <2>2. v7.acc = 2 /\ v7.steady > BridgeRefixHoldoff /\ v7.steady \in Nat
    BY <1>1, <1>10, <2>1 DEF Bridge!AnchorInv
  <2>3. v4.hold = 0 /\ v4.tier = 2
    BY <1>1, <2>2 DEF Bridge!AnchorInv, Bridge!Unanchored, Bridge!MotionInv
  <2>4. n.georeferenced /\ Bridge!Absolute(msg) /\ msg.acc = 2
    BY <1>10, <2>1
  <2>5. v4'.hold = 0
    BY <1>6, <2>3, <2>4
  <2>6. Bridge!AnchorSigma(v4', msg) = "tight"
    BY <2>4, <2>5 DEF Bridge!AnchorSigma
  <2>. QED BY <1>3, <2>6
<1>13. Bridge!MissedMotionOwned'
  <2>1. SUFFICES ASSUME NEW pose \in v5', pose.hidden
                 PROVE  pose.sigma = "huge" \/ pose.source = "zupt" \/ pose.resumes
    BY DEF Bridge!MissedMotionOwned
  <2>2. /\ pose.sigma = Bridge!Sigma(source, msg.mode) /\ pose.source = source
        /\ pose.resumes = v1.fault
        /\ v4.started
        /\ Bridge!Abs(Bridge!Step(n, source, n.last) - v1.run) > BridgeSlack
    <3>1. PICK h \in BOOLEAN :
            h = (v4.started /\ Bridge!Abs(Bridge!Step(n, source, n.last) - v1.run) > BridgeSlack)
      OBVIOUS
    <3>2. v5' = {[sigma |-> Bridge!Sigma(source, msg.mode), source |-> source,
                  hidden |-> h, resumes |-> v1.fault]}
      BY <1>3, <3>1
    <3>3. pose = [sigma |-> Bridge!Sigma(source, msg.mode), source |-> source,
                  hidden |-> h, resumes |-> v1.fault]
      BY <2>1, <3>2
    <3>. QED BY <2>1, <3>1, <3>3
  <2>3. CASE source = "held"
    BY <2>2, <2>3 DEF Bridge!Sigma
  <2>4. CASE source \notin {"zupt", "held"} /\ ~v1.fault
    <3>1. n.last = v4.last /\ n.speed = v4.speed /\ source = Bridge!Source(msg, n.last)
      BY <1>2, <2>2 DEF source
    <3>2. ~(Bridge!Abs(Bridge!Step(n, source, n.last) - v1.run) > BridgeSlack)
      BY <1>1, <2>2, <2>4, <3>1, BridgeHonest
    <3>. QED BY <2>2, <3>2
  <2>. QED BY <2>2, <2>3, <2>4
<1>. QED BY <1>8, <1>11, <1>12, <1>13 DEF Bridge!BridgeInv

LEMMA BridgeKeep ==
  ASSUME BridgeAssumption, Bridge!BridgeInv, Bridge!BridgeNext PROVE Bridge!BridgeInv'
<1>1. CASE Bridge!OnNav
  <2>1. PICK msg \in Bridge!Solutions :
          Bridge!OnNavWaiting(msg) \/ Bridge!OnNavFault(msg) \/ Bridge!OnNavPublished(msg)
    BY <1>1 DEF Bridge!OnNav
  <2>2. v3' = v3
    BY <1>1 DEF Bridge!OnNav
  <2>. QED BY <2>1, <2>2, BridgeWaiting, BridgeFault, BridgePublished
<1>. QED BY <1>1, BridgeTick, BridgeEuler, BridgeWheels DEF Bridge!BridgeNext

-----------------------------------------------------------------------------
(***************************************************************************)
(* perception_node: what one cloud publishes.                              *)
(***************************************************************************)
\* Of the clusters of a cloud no two share a cone, and each is made of the dense ones.
LEMMA ClustersApart ==
  ASSUME NEW dense, NEW blobs \in Fusion!Blobs(dense),
         NEW separable \in BOOLEAN
  PROVE  /\ \A c \in Fusion!Clusters(blobs, separable) : c \subseteq dense
         /\ \A c, d \in Fusion!Clusters(blobs, separable) : c # d => c \cap d = {}
         /\ dense = {} => Fusion!Clusters(blobs, separable) = {}
<1>1. CASE blobs = {{k} : k \in dense}
  <2>1. \A b \in blobs : Fusion!SplitPairCluster(b, separable) = {b}
    BY <1>1 DEF Fusion!SplitPairCluster
  <2>2. Fusion!Clusters(blobs, separable) = blobs
    BY <2>1 DEF Fusion!Clusters
  <2>3. \A c \in blobs : \E k \in dense : c = {k}
    BY <1>1
  <2>4. ASSUME NEW c \in blobs, NEW d \in blobs, c # d PROVE c \cap d = {}
    <3>1. PICK x : c = {x}
      BY <2>3
    <3>2. PICK y : d = {y}
      BY <2>3
    <3>. QED BY <2>4, <3>1, <3>2
  <2>5. dense = {} => blobs = {}
    BY <2>3
  <2>. QED BY <2>2, <2>3, <2>4, <2>5
<1>2. CASE blobs = {dense} \ {{}}
  <2>1. Fusion!SplitPairCluster(dense, separable) \in {{{k} : k \in dense}, {dense}}
    BY DEF Fusion!SplitPairCluster
  <2>2. CASE dense = {}
    BY <1>2, <2>2 DEF Fusion!Clusters
  <2>3. CASE dense # {}
    <3>1. Fusion!Clusters(blobs, separable) = Fusion!SplitPairCluster(dense, separable)
      BY <1>2, <2>3 DEF Fusion!Clusters
    <3>2. CASE Fusion!SplitPairCluster(dense, separable) = {dense}
      BY <2>3, <3>1, <3>2
    <3>3. CASE Fusion!SplitPairCluster(dense, separable) = {{k} : k \in dense}
      <4>1. \A c \in Fusion!Clusters(blobs, separable) : \E k \in dense : c = {k}
        BY <3>1, <3>3
      <4>2. ASSUME NEW c \in Fusion!Clusters(blobs, separable),
                   NEW d \in Fusion!Clusters(blobs, separable), c # d
            PROVE  c \cap d = {}
        <5>1. PICK x : c = {x}
          BY <4>1
        <5>2. PICK y : d = {y}
          BY <4>1
        <5>. QED BY <4>2, <5>1, <5>2
      <4>. QED BY <2>3, <4>1, <4>2
    <3>. QED BY <2>1, <3>2, <3>3
  <2>. QED BY <2>2, <2>3
<1>. QED BY <1>1, <1>2 DEF Fusion!Blobs

\* A cloud whose scene is missing had no points: its own stamp is always in its scene.
LEMMA SceneOrNothing ==
  ASSUME FusionAssumption, v1 \in [tick : Nat, due : BOOLEAN], NEW points, NEW tf \in BOOLEAN,
         ~Fusion!InScene(Fusion!UsedBoxes(points, tf).stamp, tf)
  PROVE  points = {}
<1>. DEFINE fresh == {b \in v3 : /\ v1.tick - b.stamp <= FusionMaxAge
                                 /\ points = {} \/ Fusion!InScene(b.stamp, tf)}
<1>1. Fusion!UsedBoxes(points, tf)
        = IF fresh = {} THEN Fusion!NoBoxes ELSE CHOOSE b \in fresh : TRUE
  BY DEF Fusion!UsedBoxes
<1>2. CASE fresh = {}
  <2>1. Fusion!UsedBoxes(points, tf).stamp = v1.tick
    BY <1>1, <1>2 DEF Fusion!NoBoxes
  <2>2. v1.tick - v1.tick = 0 /\ 0 <= FusionMaxAge /\ 0 <= FusionMaxGap
    BY DEF FusionAssumption
  <2>. QED BY <2>1, <2>2 DEF Fusion!InScene, Fusion!TransformBetween
<1>3. CASE fresh # {}
  <2>1. Fusion!UsedBoxes(points, tf) \in fresh
    BY <1>1, <1>3
  <2>. QED BY <2>1
<1>. QED BY <1>2, <1>3

\* What is built of clusters that share nothing, and of thin cones beside them, has every
\* cluster once and no place twice.
LEMMA BuiltConesApart ==
  ASSUME NEW clusters, NEW thin,
         \A c \in clusters : c \cap thin = {},
         \A c, d \in clusters : c # d => c \cap d = {},
         NEW detections, NEW m, NEW view, NEW stamp,
         NEW built, built = Fusion!BuildCones(detections, clusters, thin, m, view, stamp)
  PROVE  Fusion!Backs(clusters, built) /\ Fusion!Apart(built)
<1>. DEFINE unclaimed == detections \ {p[2] : p \in m}
            sparse == Fusion!SparseDetections(unclaimed, thin, view)
            kind(c) == IF \E p \in m : p[1] = c THEN "lidar+camera" ELSE "lidar_only"
            one == Fusion!ClusterCones(clusters, m)
            two == {Fusion!Cone(Fusion!InBox(d, thin, view), "sparse") : d \in sparse}
            measured == IF Fusion!Measurable(stamp) THEN (unclaimed \ sparse) \cap view.peaks
                        ELSE {}
            three == {Fusion!Cone({d}, "vision") : d \in Fusion!Deduped(measured, one \cup two)}
<1>1. built = (one \cup two) \cup three
  BY DEF Fusion!BuildCones
<1>2. one = {[place |-> c, provenance |-> kind(c)] : c \in clusters}
  BY DEF Fusion!ClusterCones, Fusion!Cone
<1>3. \A k \in two : /\ k.provenance = "sparse"
                     /\ \E x \in thin : k = [place |-> {x}, provenance |-> "sparse"]
  <2>. SUFFICES ASSUME NEW k \in two
                PROVE  \E x \in thin : k = [place |-> {x}, provenance |-> "sparse"]
    OBVIOUS
  <2>1. PICK d \in sparse :
          k = [place |-> Fusion!InBox(d, thin, view), provenance |-> "sparse"]
    BY DEF Fusion!Cone
  <2>2. \E x \in thin : Fusion!InBox(d, thin, view) = {x}
    BY DEF Fusion!SparseDetections
  <2>. QED BY <2>1, <2>2
<1>4. \A k \in three :
        \E d : /\ k = [place |-> {d}, provenance |-> "vision"]
               /\ \A c \in one \cup two : d \notin c.place
  BY DEF Fusion!Cone, Fusion!Deduped
<1>. HIDE DEF one, two, three, measured, sparse, unclaimed
<1>5. ASSUME NEW c \in clusters
      PROVE  \E once \in built :
               {k \in built : /\ k.place = c
                             /\ k.provenance \in {"lidar+camera", "lidar_only"}} = {once}
  <2>. HIDE DEF kind
  <2>1. kind(c) \in {"lidar+camera", "lidar_only"}
    BY DEF kind
  <2>2. [place |-> c, provenance |-> kind(c)] \in one
    BY <1>2
  <2>3. \A k \in built : k.place = c /\ k.provenance \in {"lidar+camera", "lidar_only"}
                           => k = [place |-> c, provenance |-> kind(c)]
    BY <1>1, <1>2, <1>3, <1>4
  <2>4. {k \in built : /\ k.place = c
                      /\ k.provenance \in {"lidar+camera", "lidar_only"}}
          = {[place |-> c, provenance |-> kind(c)]}
    BY <1>1, <2>1, <2>2, <2>3
  <2>. QED BY <1>1, <2>2, <2>4
<1>6. ASSUME NEW k \in built, NEW l \in built, k # l PROVE k.place \cap l.place = {}
  <2>. HIDE DEF kind
  <2>1. ASSUME NEW a \in one, NEW b \in one, a # b PROVE a.place \cap b.place = {}
    BY <1>2, <2>1
  <2>2. ASSUME NEW a \in one, NEW b \in two PROVE a.place \cap b.place = {}
    BY <1>2, <1>3
  <2>3. ASSUME NEW a \in two, NEW b \in two, a # b PROVE a.place \cap b.place = {}
    <3>1. PICK x \in thin : a = [place |-> {x}, provenance |-> "sparse"]
      BY <1>3
    <3>2. PICK y \in thin : b = [place |-> {y}, provenance |-> "sparse"]
      BY <1>3
    <3>3. x # y
      BY <2>3, <3>1, <3>2
    <3>. QED BY <3>1, <3>2, <3>3
  <2>4. ASSUME NEW a \in one \cup two, NEW b \in three PROVE a.place \cap b.place = {}
    BY <1>4
  <2>5. ASSUME NEW a \in three, NEW b \in three, a # b PROVE a.place \cap b.place = {}
    <3>1. PICK d : a = [place |-> {d}, provenance |-> "vision"]
      BY <1>4
    <3>2. PICK e : b = [place |-> {e}, provenance |-> "vision"]
      BY <1>4
    <3>3. d # e
      BY <2>5, <3>1, <3>2
    <3>. QED BY <3>1, <3>2, <3>3
  <2>6. k \in one \/ k \in two \/ k \in three
    BY <1>1
  <2>7. l \in one \/ l \in two \/ l \in three
    BY <1>1
  <2>8. k.place \cap l.place = l.place \cap k.place
    OBVIOUS
  <2>. QED BY <1>6, <2>1, <2>2, <2>3, <2>4, <2>5, <2>6, <2>7, <2>8
<1>. QED BY <1>5, <1>6 DEF Fusion!Backs, Fusion!Apart

LEMMA FusionStart ==
  ASSUME Fusion!FusionInit PROVE Fusion!FusionInv
  BY DEF Fusion!FusionInit, Fusion!FusionInv, Fusion!BackboneStands, Fusion!EachConeOnce,
         Fusion!Backs, Fusion!Apart

LEMMA FusionKeep ==
  ASSUME FusionAssumption, Fusion!FusionInv, Fusion!FusionNext PROVE Fusion!FusionInv'
<1>1. v1' \in [tick : Nat, due : BOOLEAN]
  <2>1. v1 \in [tick : Nat, due : BOOLEAN]
    BY DEF Fusion!FusionInv
  <2>2. CASE Fusion!Tick
    BY <2>1, <2>2 DEF Fusion!Tick
  <2>3. CASE Fusion!CloudCallback
    <3>1. v1' = [v1 EXCEPT !.due = FALSE]
      BY <2>3 DEF Fusion!CloudCallback
    <3>. QED BY <2>1, <3>1
  <2>4. CASE v1' = v1
    BY <2>1, <2>4
  <2>. QED BY <2>2, <2>3, <2>4
       DEF Fusion!FusionNext, Fusion!ImageCallback, Fusion!CameraInfoCallback, Fusion!BboxCallback
<1>2. CASE v5' = {} /\ v6' = {}
  BY <1>1, <1>2 DEF Fusion!FusionInv, Fusion!BackboneStands, Fusion!EachConeOnce,
                   Fusion!Backs, Fusion!Apart
<1>3. CASE Fusion!CloudCallback
  <2>. DEFINE publishes(thin, tf, dense, blobs, separable) ==
         Fusion!PublishCones(dense \cup thin, tf, Fusion!Clusters(blobs, separable), thin)
  <2>1. PICK thin \in SUBSET FusionCones, placed \in BOOLEAN, tf \in BOOLEAN :
          \E dense \in SUBSET (FusionCones \ thin) :
          \E blobs \in Fusion!Blobs(dense), separable \in BOOLEAN :
            Fusion!NoCloud \/ publishes(thin, tf, dense, blobs, separable)
    BY <1>3, Zenon DEF Fusion!CloudCallback
  <2>2. PICK dense \in SUBSET (FusionCones \ thin) :
          \E blobs \in Fusion!Blobs(dense), separable \in BOOLEAN :
            Fusion!NoCloud \/ publishes(thin, tf, dense, blobs, separable)
    BY <2>1, Zenon
  <2>3. PICK blobs \in Fusion!Blobs(dense), separable \in BOOLEAN :
          Fusion!NoCloud \/ publishes(thin, tf, dense, blobs, separable)
    BY <2>2, Zenon
  <2>. DEFINE boxes == Fusion!UsedBoxes(dense \cup thin, tf)
              scene == Fusion!InScene(boxes.stamp, tf)
              clusters == Fusion!Clusters(blobs, separable)
  <2>4. CASE Fusion!NoCloud
    BY <1>2, <2>4 DEF Fusion!NoCloud
  <2>5. CASE publishes(thin, tf, dense, blobs, separable)
    <3>1. v1 \in [tick : Nat, due : BOOLEAN]
      BY DEF Fusion!FusionInv
    <3>2. /\ \A c \in clusters : c \subseteq dense
          /\ \A c, d \in clusters : c # d => c \cap d = {}
          /\ dense = {} => clusters = {}
      BY ClustersApart
    <3>3. scene \in BOOLEAN /\ (~scene => clusters = {})
      <4>1. ~scene => dense \cup thin = {}
        BY <3>1, SceneOrNothing, Zenon
      <4>. QED BY <3>2, <4>1 DEF Fusion!InScene
    <3>. DEFINE seen == IF scene THEN clusters ELSE {}
                left == IF scene THEN thin ELSE {}
    <3>4. /\ v5' = clusters
          /\ \E view, m : v6' = Fusion!BuildCones(boxes.detections, seen, left, m, view, boxes.stamp)
      BY <2>5, Zenon DEF Fusion!PublishCones
    <3>5. seen = clusters /\ left \subseteq thin
      BY <3>3
    <3>6. \A c \in seen : c \cap left = {}
      <4>1. \A c \in seen : c \subseteq dense
        BY <3>2, <3>5
      <4>. QED BY <3>5, <4>1
    <3>. HIDE DEF seen, left, clusters, boxes, scene
    <3>7. PICK view, m : v6' = Fusion!BuildCones(boxes.detections, seen, left, m, view, boxes.stamp)
      BY <3>4
    <3>8. Fusion!Backs(seen, v6') /\ Fusion!Apart(v6')
      BY <3>2, <3>5, <3>6, <3>7, BuiltConesApart
    <3>9. v5' = seen
      BY <3>4, <3>5
    <3>. QED BY <1>1, <3>8, <3>9, Zenon
             DEF Fusion!FusionInv, Fusion!BackboneStands, Fusion!EachConeOnce
  <2>. QED BY <2>3, <2>4, <2>5
<1>4. CASE ~Fusion!CloudCallback
  BY <1>2, <1>4 DEF Fusion!FusionNext, Fusion!ImageCallback, Fusion!CameraInfoCallback,
    Fusion!BboxCallback, Fusion!Tick, Fusion!NoCloud
<1>. QED BY <1>3, <1>4

-----------------------------------------------------------------------------
(***************************************************************************)
(* The solver: what it has heard of each input, and when it settles.       *)
(***************************************************************************)
LEMMA CycleStart ==
  ASSUME Cycle!CycleAssumption, Cycle!CycleInit PROVE Cycle!CycleInv
<1>. USE DEF Cycle!CycleAssumption, Cycle!CycleInit, Cycle!WorldMost, Cycle!MadeMost
<1>1. Cycle!CycleTypes
  <2>1. PICK z \in Nat, f \in BOOLEAN : z = 0 /\ f = FALSE
    OBVIOUS
  <2>0. /\ CycleInputTimeout \in Nat /\ CycleGateTimeout \in Nat /\ CycleTrajTimeout \in Nat
        /\ CycleStateTimeout \in Nat /\ CycleLocTimeout \in Nat /\ CycleDelay \in Nat
        /\ CycleTop \in Nat
    OBVIOUS
  <2>2. [i \in CycleInputs |-> CycleInputTimeout + 1] \in [CycleInputs -> Nat]
    <3>1. ASSUME NEW t \in Nat PROVE [i \in CycleInputs |-> t] \in [CycleInputs -> Nat]
      BY Zenon
    <3>2. CycleInputTimeout + 1 \in Nat
      BY <2>0, SMT
    <3>. QED BY <3>1, <3>2, Zenon
  <2>3. /\ CycleInputTimeout + 1 \in Nat /\ CycleGateTimeout + 1 \in Nat
        /\ CycleTrajTimeout + 1 \in Nat /\ CycleStateTimeout + 1 \in Nat
        /\ CycleLocTimeout + 1 \in Nat /\ Cycle!MadeMost \in Nat /\ z \in 0 .. CycleTop
    BY <2>0, <2>1
  <2>. DEFINE a == [i \in CycleInputs |-> CycleInputTimeout + 1]
              src == CycleInputTimeout + 1   beat == CycleGateTimeout + 1
              traj == CycleTrajTimeout + 1   state == CycleStateTimeout + 1
              loc == CycleLocTimeout + 1     made == Cycle!MadeMost
  <2>4. /\ v3 = [global |-> f, source |-> src, ages |-> a, ok |-> f, beat |-> beat,
                 path |-> f, count |-> z]
        /\ v4 = [loc |-> loc, made |-> made, new |-> f, rest |-> loc, init |-> f,
                 last |-> made, span |-> z]
        /\ v6 = [state |-> state, made |-> made, span |-> z, race |-> z,
                 raceAge |-> traj, stop |-> z, stopAge |-> traj,
                 settle |-> z, steps |-> CycleSettle]
    BY <2>1
  <2>. HIDE DEF a, src, beat, traj, state, loc, made
  <2>5. /\ a \in [CycleInputs -> Nat] /\ src \in Nat /\ beat \in Nat /\ traj \in Nat
        /\ state \in Nat /\ loc \in Nat /\ made \in Nat
    BY <2>2, <2>3 DEF a, src, beat, traj, state, loc, made
  <2>. QED BY <2>1, <2>3, <2>4, <2>5 DEF Cycle!CycleTypes
<1>2. Cycle!PairInv
  BY DEF Cycle!PairInv
<1>3. Cycle!PresentInv
  <2>1. v2 = [global |-> Cycle!WorldMost, valid |-> Cycle!WorldMost]
    OBVIOUS
  <2>2. ~v3.global /\ ~v3.ok /\ v5.race = <<>> /\ v6.raceAge = CycleTrajTimeout + 1
    <3>1. PICK f \in BOOLEAN : f = FALSE
      OBVIOUS
    <3>2. v3.global = f /\ v3.ok = f
      BY <3>1
    <3>3. v5.race = <<>>
      BY Zenon
    <3>4. v6 = [state |-> CycleStateTimeout + 1, made |-> Cycle!MadeMost, span |-> 0,
                race |-> 0, raceAge |-> CycleTrajTimeout + 1, stop |-> 0,
                stopAge |-> CycleTrajTimeout + 1, settle |-> 0, steps |-> CycleSettle]
      BY Zenon
    <3>. HIDE DEF Cycle!CycleInit, Cycle!CycleAssumption, Cycle!MadeMost
    <3>. QED BY <3>1, <3>2, <3>3, <3>4
  <2>. HIDE DEF Cycle!CycleInit
  <2>3. Cycle!WorldMost \in Nat /\ CycleTrajTimeout \in Nat
    OBVIOUS
  <2>. HIDE DEF Cycle!CycleAssumption, Cycle!WorldMost
  <2>4. v2 \in [global : Nat, valid : Nat]
    BY <2>1, <2>3
  <2>5. ~(v6.raceAge <= CycleTrajTimeout)
    BY <2>2, <2>3
  <2>. QED BY <2>2, <2>4, <2>5 DEF Cycle!PresentInv
<1>4. Cycle!PoseInv
  <2>1. /\ v4.loc = CycleLocTimeout + 1 /\ v6.state = CycleStateTimeout + 1
        /\ v4.span = 0 /\ v6.span = 0
    OBVIOUS
  <2>2. CycleLocTimeout \in Nat /\ CycleStateTimeout \in Nat
    OBVIOUS
  <2>. HIDE DEF Cycle!CycleInit, Cycle!CycleAssumption
  <2>. QED BY <2>1, <2>2 DEF Cycle!PoseInv
<1>5. Cycle!SettleInv
  BY DEF Cycle!SettleInv
<1>. QED BY <1>1, <1>2, <1>3, <1>4, <1>5
         DEF Cycle!CycleInv, Cycle!DrivesOnPresent, Cycle!PairsFollow, Cycle!SettlesFirst

\* What the publisher hears.
LEMMA CycleHears ==
  ASSUME Cycle!CycleAssumption, Cycle!CycleInv,
         \/ \E global \in BOOLEAN : Cycle!HearSource(global)
         \/ \E i \in CycleInputs : Cycle!HearInput(i)
         \/ \E ok \in BOOLEAN : Cycle!HearBeat(ok)
         \/ Cycle!HearPath
  PROVE  /\ Cycle!CycleTypes' /\ Cycle!PairInv' /\ Cycle!PresentInv' /\ Cycle!PoseInv'
         /\ Cycle!SettleInv'
<1>. DEFINE Pubs == [global : BOOLEAN, source : Nat, ages : [CycleInputs -> Nat],
                     ok : BOOLEAN, beat : Nat, path : BOOLEAN, count : 0 .. CycleTop]
            Worlds == [global : Nat, valid : Nat]
            heard ==
              /\ UNCHANGED <<v4, v5, v6>>
              /\ v3' \in Pubs /\ v2' \in Worlds /\ v3'.count = v3.count
              /\ \/ /\ v3'.global = v3.global /\ v3'.source = v3.source
                    /\ v2'.global = v2.global
                 \/ /\ v3'.global => v2'.global = 0
                    /\ v2'.global = 0 \/ v2'.global = v2.global
              /\ \/ /\ v3'.ok = v3.ok /\ v3'.beat = v3.beat
                    /\ v2'.valid = v2.valid
                 \/ /\ v3'.ok => v2'.valid = 0
                    /\ v2'.valid = 0 \/ v2'.valid = v2.valid
<1>1. v3 \in Pubs /\ v2 \in Worlds
  BY DEF Cycle!CycleInv, Cycle!CycleTypes, Cycle!PresentInv
<1>2. PICK z \in Nat : z = 0
  OBVIOUS
<1>3. heard
  <2>1. ASSUME NEW g \in BOOLEAN, Cycle!HearSource(g) PROVE heard
    <3>1. v3' = [v3 EXCEPT !.global = g, !.source = z]
          /\ v2' = [v2 EXCEPT !.global = IF g THEN z ELSE @] /\ UNCHANGED <<v4, v5, v6>>
      BY <1>2, <2>1 DEF Cycle!HearSource
    <3>. QED BY <1>1, <1>2, <3>1
  <2>2. ASSUME NEW i \in CycleInputs, Cycle!HearInput(i) PROVE heard
    <3>1. /\ v3' = [v3 EXCEPT !.ages = [v3.ages EXCEPT ![i] = z]]
          /\ UNCHANGED <<v2, v4, v5, v6>>
      BY <1>2, <2>2 DEF Cycle!HearInput
    <3>. QED BY <1>1, <1>2, <3>1
  <2>3. ASSUME NEW ok \in BOOLEAN, Cycle!HearBeat(ok) PROVE heard
    <3>0. PICK p \in BOOLEAN : p = (v3.path /\ ok /\ Cycle!GateFresh)
      OBVIOUS
    <3>1. v3' = [v3 EXCEPT !.ok = ok, !.beat = z, !.path = p]
          /\ v2' = [v2 EXCEPT !.valid = IF ok THEN z ELSE @] /\ UNCHANGED <<v4, v5, v6>>
      BY <1>2, <2>3, <3>0 DEF Cycle!HearBeat
    <3>. QED BY <1>1, <1>2, <3>1
  <2>4. ASSUME Cycle!HearPath PROVE heard
    <3>0. PICK p \in BOOLEAN : p = TRUE
      OBVIOUS
    <3>1. v3' = [v3 EXCEPT !.path = p] /\ UNCHANGED <<v2, v4, v5, v6>>
      BY <2>4, <3>0 DEF Cycle!HearPath
    <3>. QED BY <1>1, <3>1
  <2>. QED BY <2>1, <2>2, <2>3, <2>4
<1>. HIDE DEF Pubs
<1>4. Cycle!CycleTypes'
  BY <1>3 DEF Cycle!CycleInv, Cycle!CycleTypes, Pubs
<1>5. Cycle!PairInv' /\ Cycle!PoseInv' /\ Cycle!SettleInv'
  BY <1>3 DEF Cycle!CycleInv, Cycle!PairInv, Cycle!PoseInv, Cycle!SettleInv, Cycle!NextCount
<1>6. Cycle!PresentInv'
  <2>0. /\ v3.source \in Nat /\ v3.beat \in Nat /\ v3'.source \in Nat /\ v3'.beat \in Nat
        /\ v3.global \in BOOLEAN /\ v3.ok \in BOOLEAN
        /\ v3'.global \in BOOLEAN /\ v3'.ok \in BOOLEAN
        /\ CycleInputTimeout \in Nat /\ CycleGateTimeout \in Nat
        /\ v2.global \in Nat /\ v2.valid \in Nat /\ v2'.global \in Nat /\ v2'.valid \in Nat
    BY <1>1, <1>3 DEF Pubs, Cycle!CycleAssumption
  <2>1. v2'.global <= v2.global /\ v2'.valid <= v2.valid
    BY <1>3, <2>0
  <2>2. v3'.global /\ v3'.source <= CycleInputTimeout => v2'.global <= v3'.source
    <3>1. v3.global /\ v3.source <= CycleInputTimeout => v2.global <= v3.source
      BY Zenon DEF Cycle!CycleInv, Cycle!PresentInv
    <3>2. \/ v3'.global = v3.global /\ v3'.source = v3.source /\ v2'.global = v2.global
          \/ v3'.global => v2'.global = 0
      BY <1>3, Zenon
    <3>3. 0 <= v3'.source
      BY <2>0
    <3>. QED BY <3>1, <3>2, <3>3, Zenon
  <2>3. v3'.ok /\ v3'.beat <= CycleGateTimeout => v2'.valid <= v3'.beat
    <3>1. v3.ok /\ v3.beat <= CycleGateTimeout => v2.valid <= v3.beat
      BY Zenon DEF Cycle!CycleInv, Cycle!PresentInv
    <3>2. \/ v3'.ok = v3.ok /\ v3'.beat = v3.beat /\ v2'.valid = v2.valid
          \/ v3'.ok => v2'.valid = 0
      BY <1>3, Zenon
    <3>3. 0 <= v3'.beat
      BY <2>0
    <3>. QED BY <3>1, <3>2, <3>3, Zenon
  <2>4. v5'.race # <<>> => v2'.global <= CycleInputTimeout /\ v2'.valid <= CycleGateTimeout
    <3>1. v5.race # <<>> => v2.global <= CycleInputTimeout /\ v2.valid <= CycleGateTimeout
      BY Zenon DEF Cycle!CycleInv, Cycle!PresentInv
    <3>2. v5' = v5
      BY <1>3
    <3>. QED BY <2>0, <2>1, <3>1, <3>2
  <2>5. v6.raceAge \in Nat
    BY DEF Cycle!CycleInv, Cycle!CycleTypes
  <2>6. v6'.raceAge <= CycleTrajTimeout =>
          /\ v2'.global <= CycleInputTimeout + v6'.raceAge
          /\ v2'.valid <= CycleGateTimeout + v6'.raceAge
    <3>1. v6.raceAge <= CycleTrajTimeout =>
            /\ v2.global <= CycleInputTimeout + v6.raceAge
            /\ v2.valid <= CycleGateTimeout + v6.raceAge
      BY Zenon DEF Cycle!CycleInv, Cycle!PresentInv
    <3>2. v6'.raceAge = v6.raceAge
      BY <1>3
    <3>3. SUFFICES ASSUME v6'.raceAge <= CycleTrajTimeout
                   PROVE  /\ v2'.global <= CycleInputTimeout + v6'.raceAge
                          /\ v2'.valid <= CycleGateTimeout + v6'.raceAge
      OBVIOUS
    <3>4. /\ v2.global <= CycleInputTimeout + v6.raceAge
          /\ v2.valid <= CycleGateTimeout + v6.raceAge
      BY <3>1, <3>2, <3>3, Zenon
    <3>. QED BY <2>0, <2>1, <2>5, <3>2, <3>4
  <2>. QED BY <1>3, <2>2, <2>3, <2>4, <2>6 DEF Cycle!PresentInv
<1>. QED BY <1>4, <1>5, <1>6

LEMMA CycleTimed ==
  ASSUME Cycle!CycleAssumption, Cycle!CycleInv,
         v5.race = <<>>, v5.stop = <<>>, NEW built \in BOOLEAN, Cycle!TrajectoryTimer(built)
  PROVE  /\ Cycle!CycleTypes' /\ Cycle!PairInv' /\ Cycle!PresentInv' /\ Cycle!PoseInv'
         /\ Cycle!SettleInv'
<1>1. /\ v3 \in [global : BOOLEAN, source : Nat, ages : [CycleInputs -> Nat],
                 ok : BOOLEAN, beat : Nat, path : BOOLEAN, count : 0 .. CycleTop]
      /\ v5 = [race |-> <<>>, stop |-> <<>>]
      /\ v6.race = v3.count /\ v6.stop = v3.count
  BY DEF Cycle!CycleInv, Cycle!CycleTypes, Cycle!PairInv
<1>2. UNCHANGED <<v2, v4, v6>>
  BY DEF Cycle!TrajectoryTimer
<1>. DEFINE next == Cycle!NextCount(v3.count)
<1>3. next \in 0 .. CycleTop /\ next # 0
  BY <1>1 DEF Cycle!NextCount, Cycle!CycleAssumption
<1>4. \/ \E p \in BOOLEAN : v3' = [v3 EXCEPT !.path = p] /\ v5' = v5
      \/ v3' = v3 /\ v5' = v5
      \/ /\ Cycle!Fit /\ v3' = [v3 EXCEPT !.count = next]
         /\ v5' = [race |-> <<next>>, stop |-> <<next>>]
  <2>1. CASE ~Cycle!Fit
    <3>1. PICK p \in BOOLEAN : p = (v3.path /\ Cycle!GateFresh)
      OBVIOUS
    <3>. QED BY <2>1, <3>1 DEF Cycle!TrajectoryTimer
  <2>2. CASE Cycle!Fit /\ built
    <3>1. v5.race = <<>> /\ v5.stop = <<>>
      BY <1>1
    <3>2. \A x : Append(<<>>, x) = <<x>>
      OBVIOUS
    <3>3. v3' = [v3 EXCEPT !.count = next]
      BY <2>2, Zenon DEF Cycle!TrajectoryTimer, Cycle!Counted
    <3>4. v5' = [race |-> Append(v5.race, next), stop |-> Append(v5.stop, next)]
      BY <2>2, Zenon DEF Cycle!TrajectoryTimer
    <3>. QED BY <2>2, <3>1, <3>2, <3>3, <3>4, Zenon
  <2>3. CASE Cycle!Fit /\ ~built
    <3>1. v3' = [v3 EXCEPT !.count = v3.count] /\ v5' = v5
      BY <2>3, Zenon DEF Cycle!TrajectoryTimer, Cycle!Counted
    <3>2. v3' = v3
      BY <1>1, <3>1
    <3>. QED BY <3>1, <3>2
  <2>. QED BY <2>1, <2>2, <2>3
<1>. HIDE DEF next
<1>5. /\ v3' \in [global : BOOLEAN, source : Nat, ages : [CycleInputs -> Nat],
                  ok : BOOLEAN, beat : Nat, path : BOOLEAN, count : 0 .. CycleTop]
      /\ v3'.global = v3.global /\ v3'.source = v3.source
      /\ v3'.ok = v3.ok /\ v3'.beat = v3.beat
      /\ \/ v3'.count = v3.count /\ v5' = v5
         \/ /\ Cycle!Fit /\ v3'.count = next
            /\ v5' = [race |-> <<next>>, stop |-> <<next>>]
  BY <1>1, <1>3, <1>4
<1>6. Cycle!CycleTypes'
  BY <1>2, <1>5 DEF Cycle!CycleInv, Cycle!CycleTypes
<1>7. Cycle!PairInv'
  <2>1. CASE v3'.count = v3.count /\ v5' = v5
    BY <1>2, <2>1 DEF Cycle!CycleInv, Cycle!PairInv, Cycle!NextCount
  <2>2. CASE v3'.count = next /\ v5' = [race |-> <<next>>, stop |-> <<next>>]
    <3>1. v5'.race = <<next>> /\ v5'.stop = <<next>> /\ <<next>> # <<>>
      BY <2>2
    <3>2. /\ v6' = v6 /\ Cycle!NextCount(v6.race) = next /\ Cycle!NextCount(v6.stop) = next
      BY <1>1, <1>2 DEF next
    <3>3. v6.race \in 0 .. CycleTop /\ v6.stop \in 0 .. CycleTop
      BY <1>1
    <3>. QED BY <1>1, <2>2, <3>1, <3>2, <3>3 DEF Cycle!PairInv, Cycle!NextCount
  <2>. QED BY <1>5, <2>1, <2>2
<1>8. Cycle!PoseInv' /\ Cycle!SettleInv'
  BY <1>2 DEF Cycle!CycleInv, Cycle!PoseInv, Cycle!SettleInv
<1>9. Cycle!PresentInv'
  <2>1. v5'.race # <<>> => v2.global <= CycleInputTimeout /\ v2.valid <= CycleGateTimeout
    <3>1. CASE v5' = v5
      BY <1>1, <3>1
    <3>2. CASE Cycle!Fit
      <4>1. v2.global <= v3.source /\ v3.source <= CycleInputTimeout
        BY <3>2, Zenon DEF Cycle!Fit, Cycle!CycleInv, Cycle!PresentInv
      <4>2. v2.valid <= v3.beat /\ v3.beat <= CycleGateTimeout
        BY <3>2, Zenon DEF Cycle!Fit, Cycle!GateFresh, Cycle!CycleInv, Cycle!PresentInv
      <4>3. v2.global \in Nat /\ v2.valid \in Nat
        BY DEF Cycle!CycleInv, Cycle!PresentInv
      <4>. QED BY <1>1, <4>1, <4>2, <4>3 DEF Cycle!CycleAssumption
    <3>. QED BY <1>5, <3>1, <3>2
  <2>. QED BY <1>2, <1>5, <2>1, Zenon DEF Cycle!CycleInv, Cycle!PresentInv
<1>. QED BY <1>6, <1>7, <1>8, <1>9

\* The state bridge, and what it hears.
LEMMA CycleBridges ==
  ASSUME Cycle!CycleAssumption, Cycle!CycleInv,
         \/ \E old \in 0 .. CycleDelay : Cycle!HearLocalization(old)
         \/ Cycle!HearRest
         \/ \E sound \in BOOLEAN : Cycle!BridgeTimer(sound)
  PROVE  /\ Cycle!CycleTypes' /\ Cycle!PairInv' /\ Cycle!PresentInv' /\ Cycle!PoseInv'
         /\ Cycle!SettleInv'
<1>. DEFINE Bridges == [loc : Nat, made : Nat, new : BOOLEAN, rest : Nat, init : BOOLEAN,
                        last : Nat, span : Int]
            Solvers == [state : Nat, made : Nat, span : Int, race : Int, raceAge : Nat,
                        stop : Int, stopAge : Nat, settle : Int, steps : Int]
            kept == /\ v6'.race = v6.race /\ v6'.stop = v6.stop
                    /\ v6'.raceAge = v6.raceAge /\ v6'.settle = v6.settle
                    /\ v6'.steps = v6.steps
<1>1. v4 \in Bridges /\ v6 \in Solvers
  BY DEF Cycle!CycleInv, Cycle!CycleTypes
<1>2. PICK z \in Nat, t \in BOOLEAN, f \in BOOLEAN : z = 0 /\ t = TRUE /\ f = FALSE
  OBVIOUS
<1>3. /\ CycleLocTimeout \in Nat /\ CycleDelay \in Nat /\ CycleStateTimeout \in Nat
  BY DEF Cycle!CycleAssumption
<1>4. /\ v4.loc <= CycleLocTimeout => v4.made <= CycleDelay + v4.loc
      /\ v6.state <= CycleStateTimeout => v6.made <= CycleDelay + CycleLocTimeout + v6.state
      /\ v4.span <= CycleLocTimeout /\ v6.span <= CycleLocTimeout
  BY DEF Cycle!CycleInv, Cycle!PoseInv
<1>5. UNCHANGED <<v2, v3, v5>>
  <2>1. CASE \E old \in 0 .. CycleDelay : Cycle!HearLocalization(old)
    BY <2>1, Zenon DEF Cycle!HearLocalization
  <2>2. CASE Cycle!HearRest
    BY <2>2, Zenon DEF Cycle!HearRest
  <2>3. CASE \E sound \in BOOLEAN : Cycle!BridgeTimer(sound)
    BY <2>3, Zenon DEF Cycle!BridgeTimer
  <2>. QED BY <2>1, <2>2, <2>3
<1>6. v4' \in Bridges /\ v6' \in Solvers /\ kept /\ Cycle!PoseInv'
  <2>1. CASE \E old \in 0 .. CycleDelay : Cycle!HearLocalization(old)
    <3>1. PICK old \in 0 .. CycleDelay : Cycle!HearLocalization(old)
      BY <2>1
    <3>2. v4' = [v4 EXCEPT !.loc = z, !.made = old, !.new = t] /\ v6' = v6
      <4>1. v4' = [v4 EXCEPT !.loc = 0, !.made = old, !.new = TRUE] /\ v6' = v6
        BY <3>1, Zenon DEF Cycle!HearLocalization
      <4>2. z = 0 /\ t = TRUE
        BY <1>2
      <4>. QED BY <4>1, <4>2, Zenon
    <3>3. old \in Nat /\ old <= CycleDelay
      BY <1>3
    <3>4. v4' \in Bridges /\ v4'.loc = 0 /\ v4'.made = old /\ v4'.span = v4.span
      BY <1>1, <1>2, <3>2, <3>3
    <3>. QED BY <1>1, <1>3, <1>4, <3>2, <3>3, <3>4 DEF Cycle!PoseInv
  <2>2. CASE Cycle!HearRest
    <3>1. v4' = [v4 EXCEPT !.rest = z] /\ v6' = v6
      BY <1>2, <2>2 DEF Cycle!HearRest
    <3>2. v4' \in Bridges /\ v4'.loc = v4.loc /\ v4'.made = v4.made /\ v4'.span = v4.span
      BY <1>1, <3>1
    <3>. QED BY <1>1, <1>4, <3>1, <3>2 DEF Cycle!PoseInv
  <2>3. CASE \E sound \in BOOLEAN : Cycle!BridgeTimer(sound)
    <3>1. PICK sound \in BOOLEAN : Cycle!BridgeTimer(sound)
      BY <2>3
    <3>2. CASE Cycle!BridgeFresh /\ sound
      <4>. DEFINE joined == v4.init /\ Cycle!Joins(v4.last - v4.made)
                  span == IF joined THEN v4.last - v4.made ELSE z
      <4>1. v4' = Cycle!Filtered(v4) /\ v6' = [v6 EXCEPT !.state = z, !.made = v4.made, !.span = v4'.span]
        BY <1>2, <3>1, <3>2 DEF Cycle!BridgeTimer
      <4>2. span \in Int /\ span <= CycleLocTimeout
        BY <1>1, <1>2, <1>3 DEF Cycle!Joins
      <4>3. v4.loc <= CycleLocTimeout
        BY <3>2 DEF Cycle!BridgeFresh
      <4>4. v4' = v4 \/ v4' = [v4 EXCEPT !.new = f, !.init = t, !.last = v4.made, !.span = span]
        BY <1>2, <4>1 DEF Cycle!Filtered
      <4>. HIDE DEF span
      <4>5. /\ v4' \in Bridges /\ v4'.loc = v4.loc /\ v4'.made = v4.made
            /\ v4'.span \in Int /\ v4'.span <= CycleLocTimeout
        <5>1. CASE v4' = v4
          BY <1>1, <1>4, <5>1
        <5>2. CASE v4' = [v4 EXCEPT !.new = f, !.init = t, !.last = v4.made, !.span = span]
          <6>1. v4.made \in Nat
            BY <1>1
          <6>2. /\ v4' \in Bridges /\ v4'.loc = v4.loc /\ v4'.made = v4.made
                /\ v4'.span = span
            BY <1>1, <4>2, <5>2, <6>1
          <6>. QED BY <4>2, <6>2
        <5>. QED BY <4>4, <5>1, <5>2
      <4>6. /\ v6' \in Solvers /\ kept
            /\ v6'.state = 0 /\ v6'.made = v4.made /\ v6'.span = v4'.span
        <5>1. PICK m \in Nat : m = v4.made
          BY <1>1
        <5>2. PICK s \in Int : s = v4'.span
          BY <4>5
        <5>3. v6' = [v6 EXCEPT !.state = z, !.made = m, !.span = s]
          BY <4>1, <5>1, <5>2
        <5>. QED BY <1>1, <1>2, <5>1, <5>2, <5>3
      <4>7. v6'.made <= CycleDelay + CycleLocTimeout
        BY <1>1, <1>3, <1>4, <4>3, <4>6
      <4>. QED BY <1>1, <1>3, <1>4, <4>3, <4>5, <4>6, <4>7 DEF Cycle!PoseInv
    <3>3. CASE ~(Cycle!BridgeFresh /\ sound)
      <4>1. v4' = [v4 EXCEPT !.init = f, !.span = z] /\ v6' = v6
        BY <1>2, <3>1, <3>3 DEF Cycle!BridgeTimer
      <4>2. /\ v4' \in Bridges /\ v4'.loc = v4.loc /\ v4'.made = v4.made
            /\ v4'.span = 0
        <5>1. PICK i \in Int : i = z
          OBVIOUS
        <5>2. v4' = [v4 EXCEPT !.init = f, !.span = i]
          BY <4>1, <5>1
        <5>3. /\ v4' \in Bridges /\ v4'.loc = v4.loc /\ v4'.made = v4.made
              /\ v4'.span = i
          BY <1>1, <5>2
        <5>. QED BY <1>2, <5>1, <5>3
      <4>. QED BY <1>1, <1>3, <1>4, <4>1, <4>2 DEF Cycle!PoseInv
    <3>. QED BY <3>2, <3>3
  <2>. QED BY <2>1, <2>2, <2>3
<1>. HIDE DEF Bridges, Solvers
<1>7. Cycle!CycleTypes'
  BY <1>5, <1>6 DEF Cycle!CycleInv, Cycle!CycleTypes, Bridges, Solvers
<1>8. Cycle!PairInv' /\ Cycle!PresentInv' /\ Cycle!SettleInv'
  BY <1>5, <1>6 DEF Cycle!CycleInv, Cycle!PairInv, Cycle!PresentInv, Cycle!SettleInv, Cycle!NextCount
<1>. QED BY <1>6, <1>7, <1>8

\* The solver hears a trajectory.
LEMMA CycleReceives ==
  ASSUME Cycle!CycleAssumption, Cycle!CycleInv, Cycle!HearRace \/ Cycle!HearStop
  PROVE  /\ Cycle!CycleTypes' /\ Cycle!PairInv' /\ Cycle!PresentInv' /\ Cycle!PoseInv'
         /\ Cycle!SettleInv'
<1>. DEFINE Solvers == [state : Nat, made : Nat, span : Int, race : Int, raceAge : Nat,
                        stop : Int, stopAge : Nat, settle : Int, steps : Int]
<1>1. /\ v6 \in Solvers /\ v3.count \in 0 .. CycleTop
      /\ v5 \in [race : {<<>>, <<v3.count>>}, stop : {<<>>, <<v3.count>>}]
  BY DEF Cycle!CycleInv, Cycle!CycleTypes, Cycle!PairInv
<1>2. PICK z \in Nat : z = 0
  OBVIOUS
<1>3. PICK c \in Int : c = v3.count
  BY <1>1
<1>4. \A x : Head(<<x>>) = x /\ Tail(<<x>>) = <<>> /\ <<x>> # <<>>
  OBVIOUS
<1>5. UNCHANGED <<v2, v3, v4>>
  BY DEF Cycle!HearRace, Cycle!HearStop
<1>6. CASE Cycle!HearRace
  <2>1. v5.race = <<c>>
    BY <1>1, <1>3, <1>6 DEF Cycle!HearRace
  <2>2. Head(v5.race) = c /\ Tail(v5.race) = <<>>
    BY <1>4, <2>1, Zenon
  <2>3. v6' = [v6 EXCEPT !.race = c, !.raceAge = z] /\ v5' = [v5 EXCEPT !.race = <<>>]
    BY <1>2, <1>6, <2>2, Zenon DEF Cycle!HearRace
  <2>4. /\ v6' \in Solvers /\ v6'.race = c /\ v6'.raceAge = 0 /\ v6'.stop = v6.stop
        /\ v6'.state = v6.state /\ v6'.made = v6.made /\ v6'.span = v6.span
        /\ v6'.settle = v6.settle /\ v6'.steps = v6.steps
    BY <1>1, <1>2, <2>3
  <2>5. /\ v5' \in [race : {<<>>, <<v3.count>>}, stop : {<<>>, <<v3.count>>}]
        /\ v5'.race = <<>> /\ v5'.stop = v5.stop
    BY <1>1, <2>3
  <2>. HIDE DEF Solvers
  <2>6. Cycle!CycleTypes'
    BY <1>5, <2>4 DEF Cycle!CycleInv, Cycle!CycleTypes, Solvers
  <2>7. Cycle!PairInv'
    BY <1>1, <1>3, <1>5, <2>4, <2>5 DEF Cycle!CycleInv, Cycle!PairInv, Cycle!NextCount
  <2>8. Cycle!PoseInv' /\ Cycle!SettleInv'
    BY <1>5, <2>4 DEF Cycle!CycleInv, Cycle!PoseInv, Cycle!SettleInv
  <2>9. Cycle!PresentInv'
    <3>1. v2.global <= CycleInputTimeout /\ v2.valid <= CycleGateTimeout
      BY <1>6, Zenon DEF Cycle!HearRace, Cycle!CycleInv, Cycle!PresentInv
    <3>2. CycleInputTimeout + v6'.raceAge = CycleInputTimeout
          /\ CycleGateTimeout + v6'.raceAge = CycleGateTimeout
      BY <2>4 DEF Cycle!CycleAssumption
    <3>. QED BY <1>5, <2>5, <3>1, <3>2, Zenon DEF Cycle!CycleInv, Cycle!PresentInv
  <2>. QED BY <2>6, <2>7, <2>8, <2>9
<1>7. CASE Cycle!HearStop
  <2>1. v5.stop = <<c>>
    BY <1>1, <1>3, <1>7 DEF Cycle!HearStop
  <2>2. Head(v5.stop) = c /\ Tail(v5.stop) = <<>>
    BY <1>4, <2>1, Zenon
  <2>3. v6' = [v6 EXCEPT !.stop = c, !.stopAge = z] /\ v5' = [v5 EXCEPT !.stop = <<>>]
    BY <1>2, <1>7, <2>2, Zenon DEF Cycle!HearStop
  <2>4. /\ v6' \in Solvers /\ v6'.stop = c /\ v6'.raceAge = v6.raceAge /\ v6'.race = v6.race
        /\ v6'.state = v6.state /\ v6'.made = v6.made /\ v6'.span = v6.span
        /\ v6'.settle = v6.settle /\ v6'.steps = v6.steps
    BY <1>1, <1>2, <2>3
  <2>5. /\ v5' \in [race : {<<>>, <<v3.count>>}, stop : {<<>>, <<v3.count>>}]
        /\ v5'.stop = <<>> /\ v5'.race = v5.race
    BY <1>1, <2>3
  <2>. HIDE DEF Solvers
  <2>6. Cycle!CycleTypes'
    BY <1>5, <2>4 DEF Cycle!CycleInv, Cycle!CycleTypes, Solvers
  <2>7. Cycle!PairInv'
    BY <1>1, <1>3, <1>5, <2>4, <2>5 DEF Cycle!CycleInv, Cycle!PairInv, Cycle!NextCount
  <2>8. Cycle!PoseInv' /\ Cycle!SettleInv'
    BY <1>5, <2>4 DEF Cycle!CycleInv, Cycle!PoseInv, Cycle!SettleInv
  <2>9. Cycle!PresentInv'
    BY <1>5, <2>4, <2>5, Zenon DEF Cycle!CycleInv, Cycle!PresentInv
  <2>. QED BY <2>6, <2>7, <2>8, <2>9
<1>. QED BY <1>6, <1>7

\* A tick makes nothing older by more than one, and what it leaves fresh by exactly one.
LEMMA OlderByOne ==
  ASSUME NEW n \in Nat, NEW cap \in Nat
  PROVE  /\ Cycle!Older(n, cap + 1) \in Nat /\ Cycle!Older(n, cap + 1) <= n + 1
         /\ Cycle!Older(n, cap + 1) <= cap => n <= cap /\ Cycle!Older(n, cap + 1) = n + 1
  BY DEF Cycle!Older

LEMMA CycleTicks ==
  ASSUME Cycle!CycleAssumption, Cycle!CycleInv, Cycle!Tick
  PROVE  /\ Cycle!CycleTypes' /\ Cycle!PairInv' /\ Cycle!PresentInv' /\ Cycle!PoseInv'
         /\ Cycle!SettleInv'
<1>. DEFINE Pubs == [global : BOOLEAN, source : Nat, ages : [CycleInputs -> Nat],
                     ok : BOOLEAN, beat : Nat, path : BOOLEAN, count : 0 .. CycleTop]
            Bridges == [loc : Nat, made : Nat, new : BOOLEAN, rest : Nat, init : BOOLEAN,
                        last : Nat, span : Int]
            Solvers == [state : Nat, made : Nat, span : Int, race : Int, raceAge : Nat,
                        stop : Int, stopAge : Nat, settle : Int, steps : Int]
            Worlds == [global : Nat, valid : Nat]
<1>1. v2 \in Worlds /\ v3 \in Pubs /\ v4 \in Bridges /\ v6 \in Solvers
  BY DEF Cycle!CycleInv, Cycle!CycleTypes, Cycle!PresentInv
<1>2. /\ CycleInputTimeout \in Nat /\ CycleGateTimeout \in Nat /\ CycleTrajTimeout \in Nat
      /\ CycleStateTimeout \in Nat /\ CycleLocTimeout \in Nat /\ CycleDelay \in Nat
  BY DEF Cycle!CycleAssumption
<1>3. /\ v5' = v5 /\ v5.race = <<>>
  BY DEF Cycle!Tick
<1>4. CASE v1 = "pair"
  <2>. DEFINE global == Cycle!Older(v2.global, Cycle!WorldMost)
              valid == Cycle!Older(v2.valid, Cycle!WorldMost)
              source == Cycle!Older(v3.source, CycleInputTimeout + 1)
              beat == Cycle!Older(v3.beat, CycleGateTimeout + 1)
              ages == [i \in CycleInputs |-> Cycle!Older(v3.ages[i], CycleInputTimeout + 1)]
              raceAge == Cycle!Older(v6.raceAge, CycleTrajTimeout + 1)
              stopAge == Cycle!Older(v6.stopAge, CycleTrajTimeout + 1)
  <2>1. /\ v2' = [global |-> global, valid |-> valid]
        /\ v3' = [v3 EXCEPT !.source = source, !.beat = beat, !.ages = ages]
        /\ v6' = [v6 EXCEPT !.raceAge = raceAge, !.stopAge = stopAge]
        /\ v4' = v4
    BY <1>4, Zenon DEF Cycle!Tick
  <2>2. /\ global \in Nat /\ global <= v2.global + 1
        /\ valid \in Nat /\ valid <= v2.valid + 1
    BY <1>1, <1>2 DEF Cycle!Older, Cycle!WorldMost
  <2>3. /\ source \in Nat
        /\ source <= CycleInputTimeout => v3.source <= CycleInputTimeout /\ source = v3.source + 1
        /\ beat \in Nat
        /\ beat <= CycleGateTimeout => v3.beat <= CycleGateTimeout /\ beat = v3.beat + 1
    BY <1>1, <1>2, OlderByOne
  <2>4. /\ raceAge \in Nat /\ stopAge \in Nat
        /\ raceAge <= CycleTrajTimeout =>
             v6.raceAge <= CycleTrajTimeout /\ raceAge = v6.raceAge + 1
    BY <1>1, <1>2, OlderByOne
  <2>5. ages \in [CycleInputs -> Nat]
    BY <1>1, <1>2, OlderByOne
  <2>. HIDE DEF global, valid, source, beat, ages, raceAge, stopAge
  <2>6. v2' \in Worlds /\ v2'.global = global /\ v2'.valid = valid
    BY <2>1, <2>2
  <2>7. /\ v3' \in Pubs /\ v3'.source = source /\ v3'.beat = beat
        /\ v3'.global = v3.global /\ v3'.ok = v3.ok /\ v3'.count = v3.count
    BY <1>1, <2>1, <2>3, <2>5
  <2>8. /\ v6' \in Solvers /\ v6'.raceAge = raceAge
        /\ v6'.state = v6.state /\ v6'.made = v6.made /\ v6'.span = v6.span
        /\ v6'.race = v6.race /\ v6'.stop = v6.stop
        /\ v6'.settle = v6.settle /\ v6'.steps = v6.steps
    BY <1>1, <2>1, <2>4
  <2>9. /\ v3.global /\ v3.source <= CycleInputTimeout => v2.global <= v3.source
        /\ v3.ok /\ v3.beat <= CycleGateTimeout => v2.valid <= v3.beat
        /\ v6.raceAge <= CycleTrajTimeout =>
             /\ v2.global <= CycleInputTimeout + v6.raceAge
             /\ v2.valid <= CycleGateTimeout + v6.raceAge
    BY Zenon DEF Cycle!CycleInv, Cycle!PresentInv
  <2>10. v3'.global /\ v3'.source <= CycleInputTimeout => v2'.global <= v3'.source
    <3>1. SUFFICES ASSUME v3'.global, v3'.source <= CycleInputTimeout
                   PROVE  v2'.global <= v3'.source
      OBVIOUS
    <3>2. v3.source <= CycleInputTimeout /\ v3'.source = v3.source + 1
      BY <2>3, <2>7, <3>1, Zenon
    <3>3. v2.global <= v3.source
      BY <2>7, <2>9, <3>1, <3>2, Zenon
    <3>4. v2.global \in Nat /\ v3.source \in Nat
      BY <1>1
    <3>. QED BY <2>2, <2>6, <3>2, <3>3, <3>4
  <2>11. v3'.ok /\ v3'.beat <= CycleGateTimeout => v2'.valid <= v3'.beat
    <3>1. SUFFICES ASSUME v3'.ok, v3'.beat <= CycleGateTimeout
                   PROVE  v2'.valid <= v3'.beat
      OBVIOUS
    <3>2. v3.beat <= CycleGateTimeout /\ v3'.beat = v3.beat + 1
      BY <2>3, <2>7, <3>1, Zenon
    <3>3. v2.valid <= v3.beat
      BY <2>7, <2>9, <3>1, <3>2, Zenon
    <3>4. v2.valid \in Nat /\ v3.beat \in Nat
      BY <1>1
    <3>. QED BY <2>2, <2>6, <3>2, <3>3, <3>4
  <2>12. v6'.raceAge <= CycleTrajTimeout =>
           /\ v2'.global <= CycleInputTimeout + v6'.raceAge
           /\ v2'.valid <= CycleGateTimeout + v6'.raceAge
    <3>1. SUFFICES ASSUME v6'.raceAge <= CycleTrajTimeout
                   PROVE  /\ v2'.global <= CycleInputTimeout + v6'.raceAge
                          /\ v2'.valid <= CycleGateTimeout + v6'.raceAge
      OBVIOUS
    <3>2. v6.raceAge <= CycleTrajTimeout /\ v6'.raceAge = v6.raceAge + 1
      BY <2>4, <2>8, <3>1, Zenon
    <3>3. /\ v2.global <= CycleInputTimeout + v6.raceAge
          /\ v2.valid <= CycleGateTimeout + v6.raceAge
      BY <2>9, <3>2, Zenon
    <3>4. v2.global \in Nat /\ v2.valid \in Nat /\ v6.raceAge \in Nat
      BY <1>1
    <3>. QED BY <1>2, <2>2, <2>6, <3>2, <3>3, <3>4
  <2>. HIDE DEF Pubs, Solvers, Worlds
  <2>13. Cycle!PresentInv'
    BY <1>3, <2>6, <2>10, <2>11, <2>12, Zenon DEF Cycle!PresentInv, Worlds
  <2>14. Cycle!CycleTypes'
    BY <2>1, <2>7, <2>8 DEF Cycle!CycleInv, Cycle!CycleTypes, Pubs, Solvers
  <2>15. Cycle!PairInv' /\ Cycle!PoseInv' /\ Cycle!SettleInv'
    BY <1>3, <2>1, <2>7, <2>8
    DEF Cycle!CycleInv, Cycle!PairInv, Cycle!PoseInv, Cycle!SettleInv, Cycle!NextCount
  <2>. QED BY <2>13, <2>14, <2>15
<1>5. CASE v1 # "pair"
  <2>. DEFINE loc == Cycle!Older(v4.loc, CycleLocTimeout + 1)
              made == Cycle!Older(v4.made, Cycle!MadeMost)
              rest == Cycle!Older(v4.rest, CycleLocTimeout + 1)
              last == Cycle!Older(v4.last, Cycle!MadeMost)
              state == Cycle!Older(v6.state, CycleStateTimeout + 1)
              held == Cycle!Older(v6.made, Cycle!MadeMost)
  <2>1. /\ v4' = [v4 EXCEPT !.loc = loc, !.made = made, !.rest = rest, !.last = last]
        /\ v6' = [v6 EXCEPT !.state = state, !.made = held]
        /\ v2' = v2 /\ v3' = v3
    BY <1>5, Zenon DEF Cycle!Tick
  <2>2. /\ made \in Nat /\ made <= v4.made + 1 /\ last \in Nat
        /\ held \in Nat /\ held <= v6.made + 1
    BY <1>1, <1>2 DEF Cycle!Older, Cycle!MadeMost
  <2>3. /\ loc \in Nat /\ rest \in Nat /\ state \in Nat
        /\ loc <= CycleLocTimeout => v4.loc <= CycleLocTimeout /\ loc = v4.loc + 1
        /\ state <= CycleStateTimeout => v6.state <= CycleStateTimeout /\ state = v6.state + 1
    BY <1>1, <1>2, OlderByOne
  <2>. HIDE DEF loc, made, rest, last, state, held
  <2>4. /\ v4' \in Bridges /\ v4'.loc = loc /\ v4'.made = made /\ v4'.span = v4.span
    BY <1>1, <2>1, <2>2, <2>3
  <2>5. /\ v6' \in Solvers /\ v6'.state = state /\ v6'.made = held /\ v6'.span = v6.span
        /\ v6'.raceAge = v6.raceAge /\ v6'.race = v6.race /\ v6'.stop = v6.stop
        /\ v6'.settle = v6.settle /\ v6'.steps = v6.steps
    BY <1>1, <2>1, <2>2, <2>3
  <2>6. Cycle!PoseInv'
    <3>1. /\ v4.loc <= CycleLocTimeout => v4.made <= CycleDelay + v4.loc
          /\ v6.state <= CycleStateTimeout => v6.made <= CycleDelay + CycleLocTimeout + v6.state
          /\ v4.span <= CycleLocTimeout /\ v6.span <= CycleLocTimeout
      BY DEF Cycle!CycleInv, Cycle!PoseInv
    <3>2. /\ v4.loc \in Nat /\ v4.made \in Nat /\ v6.state \in Nat /\ v6.made \in Nat
      BY <1>1
    <3>3. loc <= CycleLocTimeout => made <= CycleDelay + loc
      BY <1>2, <2>2, <2>3, <3>1, <3>2
    <3>4. state <= CycleStateTimeout => held <= CycleDelay + CycleLocTimeout + state
      BY <1>2, <2>2, <2>3, <3>1, <3>2
    <3>. QED BY <2>4, <2>5, <3>1, <3>3, <3>4 DEF Cycle!PoseInv
  <2>. HIDE DEF Bridges, Solvers
  <2>7. Cycle!CycleTypes'
    BY <2>1, <2>4, <2>5 DEF Cycle!CycleInv, Cycle!CycleTypes, Bridges, Solvers
  <2>8. Cycle!PairInv' /\ Cycle!PresentInv' /\ Cycle!SettleInv'
    BY <1>3, <2>1, <2>5, Zenon
    DEF Cycle!CycleInv, Cycle!PairInv, Cycle!PresentInv, Cycle!SettleInv, Cycle!NextCount
  <2>. QED BY <2>6, <2>7, <2>8
<1>. QED BY <1>4, <1>5

\* The solver publishes.
LEMMA CycleSolves ==
  ASSUME Cycle!CycleAssumption, Cycle!CycleInv,
         NEW matched \in BOOLEAN, NEW diverged \in BOOLEAN, Cycle!SolverTimer(matched, diverged)
  PROVE  Cycle!CycleInv'
<1>. DEFINE Solvers == [state : Nat, made : Nat, span : Int, race : Int, raceAge : Nat,
                        stop : Int, stopAge : Nat, settle : Int, steps : Int]
            stale == \/ v6.state > CycleStateTimeout \/ v6.raceAge > CycleTrajTimeout
                     \/ v6.stopAge > CycleTrajTimeout
            kept == /\ v6'.state = v6.state /\ v6'.made = v6.made /\ v6'.span = v6.span
                    /\ v6'.raceAge = v6.raceAge /\ v6'.race = v6.race /\ v6'.stop = v6.stop
<1>1. /\ v6 \in Solvers
      /\ v6.settle \in 0 .. CycleSettle /\ v6.steps = CycleSettle - v6.settle
      /\ CycleSettle \in Nat
  BY DEF Cycle!CycleInv, Cycle!CycleTypes, Cycle!SettleInv, Cycle!CycleAssumption
<1>2. PICK z \in Nat : z = 0
  OBVIOUS
<1>3. UNCHANGED <<v2, v3, v4, v5>>
  BY DEF Cycle!SolverTimer
<1>. DEFINE sent == [race |-> v6.race, stop |-> v6.stop, steps |-> v6.steps,
                     made |-> v6.made, span |-> v6.span,
                     global |-> v2.global, valid |-> v2.valid]
<1>4. /\ v6' \in Solvers /\ kept /\ Cycle!SettleInv'
      /\ v7' = {} \/ (~stale /\ v6.settle = 0 /\ v7' = {sent})
  <2>1. CASE stale
    BY <1>1, <2>1 DEF Cycle!SolverTimer, Cycle!Run, Cycle!SettleInv
  <2>2. CASE ~stale /\ diverged
    <3>1. v6' = [v6 EXCEPT !.settle = CycleSettle, !.steps = z] /\ v7' = {}
      BY <1>2, <2>2, Zenon DEF Cycle!SolverTimer, Cycle!Run, Cycle!SettleAgain
    <3>2. v6' \in Solvers /\ kept /\ v6'.settle = CycleSettle /\ v6'.steps = z
      <4>1. PICK i \in Int, j \in Int : i = CycleSettle /\ j = z
        BY <1>1
      <4>2. v6' = [v6 EXCEPT !.settle = i, !.steps = j]
        BY <3>1, <4>1
      <4>3. v6' \in Solvers /\ kept /\ v6'.settle = i /\ v6'.steps = j
        BY <1>1, <4>2
      <4>. QED BY <4>1, <4>3
    <3>. QED BY <1>1, <1>2, <3>1, <3>2 DEF Cycle!SettleInv
  <2>3. CASE ~stale /\ ~diverged
    <3>. DEFINE settle == IF v6.settle > 0 THEN v6.settle - 1 ELSE 0
                steps == Cycle!Older(v6.steps, CycleSettle)
    <3>1. /\ v6' = [v6 EXCEPT !.settle = settle, !.steps = steps]
          /\ v7' = IF v6.settle = 0 /\ matched THEN {sent} ELSE {}
      BY <2>3, Zenon DEF Cycle!SolverTimer, Cycle!Run
    <3>2. /\ settle \in 0 .. CycleSettle /\ steps = CycleSettle - settle
          /\ settle \in Int /\ steps \in Int
      BY <1>1 DEF Cycle!Older
    <3>. HIDE DEF settle, steps
    <3>3. v6' \in Solvers /\ kept /\ v6'.settle = settle /\ v6'.steps = steps
      BY <1>1, <3>1, <3>2
    <3>4. v7' = {} \/ (v6.settle = 0 /\ v7' = {sent})
      BY <3>1, Zenon
    <3>. QED BY <2>3, <3>2, <3>3, <3>4 DEF Cycle!SettleInv
  <2>. QED BY <2>1, <2>2, <2>3
<1>5. /\ Cycle!CycleTypes' /\ Cycle!PairInv' /\ Cycle!PoseInv' /\ Cycle!PresentInv'
  <2>. HIDE DEF Solvers
  <2>1. Cycle!CycleTypes'
    BY <1>3, <1>4, Zenon DEF Cycle!CycleInv, Cycle!CycleTypes, Solvers
  <2>2. Cycle!PairInv' /\ Cycle!PoseInv' /\ Cycle!PresentInv'
    BY <1>3, <1>4, Zenon
    DEF Cycle!CycleInv, Cycle!PairInv, Cycle!PoseInv, Cycle!PresentInv, Cycle!NextCount
  <2>. QED BY <2>1, <2>2
<1>6. Cycle!DrivesOnPresent' /\ Cycle!PairsFollow' /\ Cycle!SettlesFirst'
  <2>1. CASE v7' = {}
    BY <2>1 DEF Cycle!DrivesOnPresent, Cycle!PairsFollow, Cycle!SettlesFirst
  <2>2. CASE ~stale /\ v6.settle = 0 /\ v7' = {sent}
    <3>1. /\ v2.global \in Nat /\ v2.valid \in Nat
          /\ CycleInputTimeout \in Nat /\ CycleGateTimeout \in Nat /\ CycleTrajTimeout \in Nat
          /\ CycleStateTimeout \in Nat /\ CycleLocTimeout \in Nat /\ CycleDelay \in Nat
      BY DEF Cycle!CycleInv, Cycle!PresentInv, Cycle!CycleAssumption
    <3>2. v6.raceAge <= CycleTrajTimeout /\ v6.state <= CycleStateTimeout
      BY <1>1, <2>2, <3>1
    <3>3. /\ v2.global <= CycleInputTimeout + v6.raceAge
          /\ v2.valid <= CycleGateTimeout + v6.raceAge
      BY <3>2, Zenon DEF Cycle!CycleInv, Cycle!PresentInv
    <3>4. /\ v6.made <= CycleDelay + CycleLocTimeout + v6.state
          /\ v6.span <= CycleLocTimeout
      BY <3>2, Zenon DEF Cycle!CycleInv, Cycle!PoseInv
    <3>5. /\ v2.global <= CycleInputTimeout + CycleTrajTimeout
          /\ v2.valid <= CycleGateTimeout + CycleTrajTimeout
          /\ v6.made <= CycleDelay + CycleLocTimeout + CycleStateTimeout
      BY <1>1, <3>1, <3>2, <3>3, <3>4
    <3>6. v6.steps = CycleSettle
      BY <1>1, <2>2
    <3>7. \/ v6.race = v6.stop \/ v6.race = Cycle!NextCount(v6.stop)
          \/ v6.stop = Cycle!NextCount(v6.race)
      BY Zenon DEF Cycle!CycleInv, Cycle!PairInv
    <3>8. \A c \in v7' : c = sent
      BY <2>2
    <3>9. /\ sent.race = v6.race /\ sent.stop = v6.stop /\ sent.steps = v6.steps
          /\ sent.made = v6.made /\ sent.span = v6.span
          /\ sent.global = v2.global /\ sent.valid = v2.valid
      OBVIOUS
    <3>. HIDE DEF sent
    <3>10. Cycle!DrivesOnPresent'
      BY <3>4, <3>5, <3>8, <3>9, Zenon DEF Cycle!DrivesOnPresent
    <3>11. Cycle!PairsFollow'
      BY <3>7, <3>8, <3>9, Zenon DEF Cycle!PairsFollow, Cycle!NextCount
    <3>12. Cycle!SettlesFirst'
      BY <3>6, <3>8, <3>9, Zenon DEF Cycle!SettlesFirst
    <3>. QED BY <3>10, <3>11, <3>12
  <2>. QED BY <1>4, <2>1, <2>2
<1>. QED BY <1>4, <1>5, <1>6 DEF Cycle!CycleInv

LEMMA CycleKeep ==
  ASSUME Cycle!CycleAssumption, Cycle!CycleInv, Cycle!CycleNext PROVE Cycle!CycleInv'
<1>1. CASE Cycle!Handles /\ v7' = {}
  <2>1. /\ Cycle!CycleTypes' /\ Cycle!PairInv' /\ Cycle!PresentInv' /\ Cycle!PoseInv'
        /\ Cycle!SettleInv'
    BY <1>1, CycleHears, CycleTimed, CycleBridges, CycleReceives, CycleTicks, Zenon
    DEF Cycle!Handles
  <2>. QED BY <1>1, <2>1
       DEF Cycle!CycleInv, Cycle!DrivesOnPresent, Cycle!PairsFollow, Cycle!SettlesFirst
<1>. QED BY <1>1, CycleSolves, Zenon DEF Cycle!CycleNext

-----------------------------------------------------------------------------
(***************************************************************************)
(* The local planner: maps of an earlier run stay behind its floor.        *)
(***************************************************************************)
LEMMA LocalStart ==
  ASSUME Latches!LocalInputsInit PROVE Latches!LocalInv
<1>1. PICK due \in BOOLEAN : ~due /\ v1 = [now |-> 1, odomDue |-> due]
  BY Zenon DEF Latches!LocalInputsInit
<1>2. PICK straight \in BOOLEAN :
        v4 = [map |-> {}, status |-> "", floor |-> Latches!NoFloor, odom |-> 1,
              history |-> {1}, live |-> {}, latch |-> {}, known |-> 0, straight |-> straight]
  BY Zenon DEF Latches!LocalInputsInit
<1>3. /\ v2 = [run |-> 0, status |-> "mapping", since |-> 0]
      /\ v3 = [map |-> {}, status |-> {}] /\ v5 = {}
  BY Zenon DEF Latches!LocalInputsInit
<1>4. /\ v1 \in [now : Nat, odomDue : BOOLEAN] /\ v1.now = 1 /\ v1.odomDue = due
      /\ v2 \in [run : Nat, status : Latches!Statuses, since : Nat]
      /\ v2.run = 0 /\ v2.status = "mapping" /\ v2.since = 0
      /\ v3.map = {} /\ v3.status = {}
      /\ v3 \in [map : SUBSET Latches!Maps,
                 status : SUBSET [run : Nat, status : Latches!Statuses]]
  BY <1>1, <1>3 DEF Latches!Statuses
<1>5. /\ DOMAIN v4 = {"map", "status", "floor", "odom", "history", "live", "latch",
                     "known", "straight"}
      /\ v4.map = {} /\ v4.floor = -1 /\ v4.odom = 1 /\ v4.known = 0
  BY <1>2 DEF Latches!NoFloor
<1>6. Latches!LocalTypes
  BY <1>1, <1>4, <1>5 DEF Latches!LocalTypes
<1>7. Latches!FencedInv
  BY <1>4, <1>5 DEF Latches!FencedInv
<1>. QED BY <1>3, <1>6, <1>7 DEF Latches!LocalInv, Latches!PlansOnPresentMap

\* SLAM goes on: what it sends is its own run's.
LEMMA LocalSlam ==
  ASSUME Latches!LocalInv,
         \/ Latches!PublishMap \/ Latches!Converges \/ Latches!Freezes
         \/ Latches!StartMapping \/ Latches!LoadMap
  PROVE  Latches!LocalInv'
<1>. DEFINE Maps == [run : Nat, stamp : Int]
            Messages == [run : Nat, status : Latches!Statuses]
<1>1. /\ v1.now \in Nat /\ v2 \in [run : Nat, status : Latches!Statuses, since : Nat]
      /\ v2.since <= v1.now
      /\ v3 \in [map : SUBSET Maps, status : SUBSET Messages]
      /\ v4.known \in Nat /\ v4.known <= v2.run
  BY DEF Latches!LocalInv, Latches!LocalTypes, Latches!Maps
<1>2. /\ \A map \in v3.map : map.run < v4.known => map.stamp <= v4.floor
      /\ v2.status # "mapping" => \A map \in v3.map : map.run = v2.run
      /\ \A map \in v3.map : map.run < v2.run => map.stamp < v2.since
      /\ \A map \in v3.map : map.stamp < v1.now \/ map.stamp <= v2.since
      /\ \A msg \in v3.status : msg.run = v2.run /\ msg.status = v2.status
  BY DEF Latches!LocalInv, Latches!FencedInv
<1>3. UNCHANGED <<v1, v4, v5>>
  BY DEF Latches!PublishMap, Latches!Converges, Latches!Freezes, Latches!StartMapping,
         Latches!LoadMap, Latches!Announce
<1>. DEFINE sound ==
       /\ v2' \in [run : Nat, status : Latches!Statuses, since : Nat]
       /\ v2'.since <= v1.now /\ v2.run <= v2'.run
       /\ v3' \in [map : SUBSET Maps, status : SUBSET Messages]
       /\ \A map \in v3'.map : map \in v3.map \/ map.run = v2'.run
       /\ v2'.status # "mapping" => \A map \in v3'.map : map.run = v2'.run
       /\ \A map \in v3'.map : map.run < v2'.run => map.stamp < v2'.since
       /\ \A map \in v3'.map : map.stamp < v1.now \/ map.stamp <= v2'.since
       /\ \A msg \in v3'.status : msg.run = v2'.run /\ msg.status = v2'.status
<1>4. ASSUME NEW run \in Nat, NEW status \in Latches!Statuses, Latches!Announce(run, status),
             \/ run = v2.run /\ (status # "mapping" => \A map \in v3.map : map.run = v2.run)
             \/ run = v2.run + 1 /\ status = "mapping" /\ v2.since < v1.now
      PROVE  sound
  <2>. DEFINE since == IF run = v2.run THEN v2.since ELSE v1.now
              msg == [run |-> run, status |-> status]
  <2>1. v2' = [run |-> run, status |-> status, since |-> since]
        /\ v3' = [v3 EXCEPT !.status = {msg}]
    BY <1>4, Zenon DEF Latches!Announce
  <2>2. since \in Nat /\ since <= v1.now
    BY <1>1
  <2>3. msg \in Messages /\ msg.run = run /\ msg.status = status
    OBVIOUS
  <2>. HIDE DEF msg
  <2>4. /\ v3' \in [map : SUBSET Maps, status : SUBSET Messages]
        /\ v3'.map = v3.map /\ v3'.status = {msg}
    BY <1>1, <2>1, <2>3
  <2>5. \A map \in v3.map : map.run \in Nat /\ map.stamp \in Int
    BY <1>1
  <2>6. CASE run = v2.run /\ (status # "mapping" => \A map \in v3.map : map.run = v2.run)
    <3>1. since = v2.since
      BY <2>6
    <3>. HIDE DEF since
    <3>. QED BY <1>1, <1>2, <2>1, <2>2, <2>3, <2>4, <2>6, <3>1
  <2>7. CASE run = v2.run + 1 /\ status = "mapping" /\ v2.since < v1.now
    <3>1. since = v1.now
      BY <1>1, <2>7
    <3>2. \A map \in v3.map : map.stamp < v1.now
      BY <1>1, <1>2, <2>5, <2>7
    <3>. HIDE DEF since
    <3>. QED BY <1>1, <2>1, <2>2, <2>3, <2>4, <2>7, <3>1, <3>2
  <2>. QED BY <1>4, <2>6, <2>7
<1>5. sound
  <2>1. CASE Latches!PublishMap
    <3>. DEFINE map == [run |-> v2.run, stamp |-> v1.now - 1]
    <3>1. map \in Maps /\ map.run = v2.run /\ map.stamp < v1.now
      BY <1>1
    <3>. HIDE DEF map
    <3>2. v3' = [v3 EXCEPT !.map = {map}] /\ v2' = v2
      BY <2>1, Zenon DEF Latches!PublishMap, map
    <3>3. v3' \in [map : SUBSET Maps, status : SUBSET Messages]
          /\ v3'.map = {map} /\ v3'.status = v3.status
      BY <1>1, <3>1, <3>2
    <3>. QED BY <1>1, <1>2, <3>1, <3>2, <3>3
  <2>2. CASE Latches!Converges
    BY <1>1, <1>4, <2>2 DEF Latches!Converges, Latches!Statuses
  <2>3. CASE Latches!Freezes
    BY <1>1, <1>2, <1>4, <2>3 DEF Latches!Freezes, Latches!Statuses
  <2>4. CASE Latches!StartMapping
    BY <1>1, <1>4, <2>4 DEF Latches!StartMapping, Latches!MayRestart, Latches!Statuses
  <2>5. CASE Latches!LoadMap
    <3>. DEFINE map == [run |-> v2.run + 1, stamp |-> v1.now]
                msg == [run |-> v2.run + 1, status |-> "localization"]
    <3>1. map \in Maps /\ map.run = v2.run + 1 /\ map.stamp = v1.now
      BY <1>1
    <3>2. msg \in Messages /\ msg.run = v2.run + 1 /\ msg.status = "localization"
      BY <1>1 DEF Latches!Statuses
    <3>. HIDE DEF map, msg
    <3>3. v2' = [run |-> v2.run + 1, status |-> "localization", since |-> v1.now]
          /\ v3' = [map |-> {map}, status |-> {msg}]
      BY <2>5, Zenon DEF Latches!LoadMap, map, msg
    <3>. QED BY <1>1, <3>1, <3>2, <3>3 DEF Latches!Statuses
  <2>. QED BY <2>1, <2>2, <2>3, <2>4, <2>5
<1>6. Latches!LocalTypes'
  BY <1>1, <1>3, <1>5 DEF Latches!LocalInv, Latches!LocalTypes, Latches!Maps
<1>7. Latches!FencedInv'
  <2>1. \A map \in v3'.map : map.run < v4.known => map.stamp <= v4.floor
    BY <1>1, <1>2, <1>5
  <2>. QED BY <1>3, <1>5, <2>1 DEF Latches!LocalInv, Latches!FencedInv
<1>. QED BY <1>3, <1>6, <1>7 DEF Latches!LocalInv, Latches!PlansOnPresentMap

LEMMA LocalKeep ==
  ASSUME Latches!LocalInv, Latches!LocalInputsNext PROVE Latches!LocalInv'
<1>. DEFINE Maps == [run : Nat, stamp : Int]
            Messages == [run : Nat, status : Latches!Statuses]
            Keys == {"map", "status", "floor", "odom", "history", "live", "latch",
                     "known", "straight"}
<1>1. /\ v1 \in [now : Nat, odomDue : BOOLEAN]
      /\ v2 \in [run : Nat, status : Latches!Statuses, since : Nat] /\ v2.since <= v1.now
      /\ v3 \in [map : SUBSET Maps, status : SUBSET Messages]
      /\ DOMAIN v4 = Keys /\ v4.map \subseteq Maps /\ v4.floor \in Int
      /\ v4.known \in Nat /\ v4.known <= v2.run
      /\ v4.odom \in Nat /\ v4.odom >= v1.now - 1
  BY DEF Latches!LocalInv, Latches!LocalTypes, Latches!Maps
<1>2. /\ \A map \in v4.map : map.run >= v4.known
      /\ \A map \in v3.map : map.run < v4.known => map.stamp <= v4.floor
      /\ v2.status # "mapping" => \A map \in v3.map : map.run = v2.run
      /\ \A map \in v3.map : map.run < v2.run => map.stamp < v2.since
      /\ \A map \in v3.map : map.stamp < v1.now \/ map.stamp <= v2.since
      /\ \A msg \in v3.status : msg.run = v2.run /\ msg.status = v2.status
  BY DEF Latches!LocalInv, Latches!FencedInv
<1>3. \A p \in v5 : ~p.held => p.run >= v4.known
  BY DEF Latches!LocalInv, Latches!PlansOnPresentMap
<1>4. CASE Latches!ReceiveSlamMap
  <2>1. PICK map \in v3.map :
          /\ v3' = [v3 EXCEPT !.map = {}]
          /\ v4' = IF map.stamp <= v4.floor THEN v4 ELSE [v4 EXCEPT !.map = {map}]
          /\ UNCHANGED <<v1, v2, v5>>
    BY <1>4 DEF Latches!ReceiveSlamMap
  <2>2. v3' \in [map : SUBSET Maps, status : SUBSET Messages]
        /\ v3'.map = {} /\ v3'.status = v3.status
    BY <1>1, <2>1
  <2>3. map \in Maps
    BY <1>1
  <2>4. /\ DOMAIN v4' = Keys /\ v4'.map \subseteq Maps /\ v4'.floor = v4.floor
        /\ v4'.known = v4.known /\ v4'.odom = v4.odom
        /\ \A m \in v4'.map : m.run >= v4.known
    <3>1. CASE map.stamp <= v4.floor
      BY <1>1, <1>2, <2>1, <3>1
    <3>2. CASE ~(map.stamp <= v4.floor)
      <4>1. v4' = [v4 EXCEPT !.map = {map}]
        BY <2>1, <3>2
      <4>2. map.run >= v4.known
        BY <1>1, <1>2, <2>3, <3>2
      <4>. QED BY <1>1, <2>3, <4>1, <4>2
    <3>. QED BY <3>1, <3>2
  <2>5. Latches!LocalTypes'
    BY <1>1, <2>1, <2>2, <2>4 DEF Latches!LocalInv, Latches!LocalTypes, Latches!Maps
  <2>6. Latches!FencedInv'
    BY <1>2, <2>1, <2>2, <2>4 DEF Latches!FencedInv
  <2>. QED BY <1>3, <2>1, <2>4, <2>5, <2>6 DEF Latches!LocalInv, Latches!PlansOnPresentMap
<1>5. CASE Latches!ReceiveSlamStatus
  <2>1. PICK msg \in v3.status :
          /\ v3' = [v3 EXCEPT !.status = {}]
          /\ v4' = CASE Latches!EnteringMapping(msg.status) ->
                          [v4 EXCEPT !.map = {}, !.floor = v4.odom,
                                     !.status = msg.status, !.known = msg.run]
                     [] msg.status = "localization" ->
                          [v4 EXCEPT !.floor = Latches!NoFloor, !.status = msg.status]
                     [] OTHER -> [v4 EXCEPT !.status = msg.status]
          /\ v5' = IF Latches!EnteringMapping(msg.status) THEN {} ELSE v5
          /\ UNCHANGED <<v1, v2>>
    BY <1>5 DEF Latches!ReceiveSlamStatus
  <2>2. v3' \in [map : SUBSET Maps, status : SUBSET Messages]
        /\ v3'.map = v3.map /\ v3'.status = {}
    BY <1>1, <2>1
  <2>3. msg.run = v2.run /\ msg.status = v2.status /\ msg.run \in Nat
    BY <1>1, <1>2
  <2>4. /\ DOMAIN v4' = Keys /\ v4'.map \subseteq Maps /\ v4'.floor \in Int
        /\ v4'.known \in Nat /\ v4'.known <= v2.run /\ v4'.odom = v4.odom
        /\ \A m \in v4'.map : m.run >= v4'.known
        /\ \A m \in v3.map : m.run < v4'.known => m.stamp <= v4'.floor
        /\ \A p \in v5' : ~p.held => p.run >= v4'.known
    <3>1. CASE Latches!EnteringMapping(msg.status)
      <4>. DEFINE entered == [v4 EXCEPT !.map = {}, !.floor = v4.odom,
                                       !.status = msg.status, !.known = msg.run]
                  localized == [v4 EXCEPT !.floor = Latches!NoFloor, !.status = msg.status]
                  other == [v4 EXCEPT !.status = msg.status]
      <4>a. v4' = CASE Latches!EnteringMapping(msg.status) -> entered
                    [] msg.status = "localization" -> localized
                    [] OTHER -> other
        BY <2>1, Zenon
      <4>b. msg.status = "mapping"
        BY <3>1 DEF Latches!EnteringMapping
      <4>c. v4' = entered
        <5>. HIDE DEF entered, localized, other
        <5>. QED BY <3>1, <4>a, <4>b
      <4>1. v4' = entered /\ v5' = {}
        BY <2>1, <3>1, <4>c, Zenon
      <4>2. /\ DOMAIN v4' = Keys /\ v4'.map = {} /\ v4'.floor = v4.odom
            /\ v4'.known = msg.run /\ v4'.odom = v4.odom
        BY <1>1, <4>1
      <4>3. \A m \in v3.map : m.run < msg.run => m.stamp <= v4.odom
        BY <1>1, <1>2, <2>3
      <4>. QED BY <1>1, <2>3, <4>1, <4>2, <4>3
    <3>2. CASE ~Latches!EnteringMapping(msg.status) /\ msg.status = "localization"
      <4>1. /\ v4' = [v4 EXCEPT !.floor = Latches!NoFloor, !.status = msg.status]
            /\ v5' = v5
        BY <2>1, <3>2, Zenon
      <4>2. /\ DOMAIN v4' = Keys /\ v4'.map = v4.map /\ v4'.floor = Latches!NoFloor
            /\ v4'.known = v4.known /\ v4'.odom = v4.odom
        BY <1>1, <4>1
      <4>3. \A m \in v3.map : ~(m.run < v4.known)
        BY <1>1, <1>2, <2>3, <3>2
      <4>. QED BY <1>1, <1>2, <1>3, <4>1, <4>2, <4>3 DEF Latches!NoFloor
    <3>3. CASE ~Latches!EnteringMapping(msg.status) /\ msg.status # "localization"
      <4>1. /\ v4' = [v4 EXCEPT !.status = msg.status]
            /\ v5' = v5
        BY <2>1, <3>3, Zenon
      <4>2. /\ DOMAIN v4' = Keys /\ v4'.map = v4.map /\ v4'.floor = v4.floor
            /\ v4'.known = v4.known /\ v4'.odom = v4.odom
        BY <1>1, <4>1
      <4>. QED BY <1>1, <1>2, <1>3, <4>1, <4>2
    <3>. QED BY <3>1, <3>2, <3>3
  <2>5. Latches!LocalTypes'
    BY <1>1, <2>1, <2>2, <2>4 DEF Latches!LocalInv, Latches!LocalTypes, Latches!Maps
  <2>6. Latches!FencedInv'
    BY <1>2, <2>1, <2>2, <2>4 DEF Latches!FencedInv
  <2>. QED BY <2>4, <2>5, <2>6 DEF Latches!LocalInv, Latches!PlansOnPresentMap
<1>6. CASE Latches!ReceiveSlamLiveCones
  <2>1. v4' = [v4 EXCEPT !.live = {v1.now - 1}] /\ UNCHANGED <<v1, v2, v3, v5>>
    BY <1>6, Zenon DEF Latches!ReceiveSlamLiveCones
  <2>2. /\ DOMAIN v4' = Keys /\ v4'.map = v4.map /\ v4'.floor = v4.floor
        /\ v4'.known = v4.known /\ v4'.odom = v4.odom
    BY <1>1, <2>1
  <2>. QED BY <1>1, <1>2, <1>3, <2>1, <2>2
       DEF Latches!LocalInv, Latches!LocalTypes, Latches!FencedInv, Latches!PlansOnPresentMap,
           Latches!Maps
<1>7. CASE Latches!ProcessSlamOdom
  <2>. DEFINE history == Latches!Recent(v4.history \cup {v1.now})
              odom == [v4 EXCEPT !.odom = v1.now, !.history = history]
  <2>1. /\ v1' = [v1 EXCEPT !.odomDue = FALSE] /\ v2' = v2 /\ v3' = v3
        /\ \/ v4' = odom /\ v5' = {}
           \/ \E map \in v4.map, fit, generic, holds \in BOOLEAN :
                /\ v4' = [odom EXCEPT !.latch = Latches!Latched(map, fit)]
                /\ v5' = Latches!Planned(map, Latches!Anchor(history, v4.live), fit, generic, holds)
    BY <1>7, Zenon DEF Latches!ProcessSlamOdom
  <2>. HIDE DEF history
  <2>2. v1' \in [now : Nat, odomDue : BOOLEAN] /\ v1'.now = v1.now
    <3>1. PICK f \in BOOLEAN : f = FALSE
      OBVIOUS
    <3>. QED BY <1>1, <2>1, <3>1
  <2>3. /\ DOMAIN odom = Keys /\ odom.map = v4.map /\ odom.floor = v4.floor
        /\ odom.known = v4.known /\ odom.odom = v1.now
    BY <1>1
  <2>. HIDE DEF odom
  <2>4. /\ DOMAIN v4' = Keys /\ v4'.map = v4.map /\ v4'.floor = v4.floor
        /\ v4'.known = v4.known /\ v4'.odom = v1.now
    BY <2>1, <2>3
  <2>5. \A p \in v5' : ~p.held => p.run >= v4.known
    <3>1. CASE v5' = {}
      BY <3>1
    <3>2. ASSUME NEW map \in v4.map, NEW fit \in BOOLEAN, NEW generic \in BOOLEAN,
                 NEW holds \in BOOLEAN, NEW anchor,
                 v5' = Latches!Planned(map, anchor, fit, generic, holds),
                 NEW p \in v5', ~p.held
          PROVE  p.run >= v4.known
      <4>1. p = [run |-> map.run, held |-> FALSE, anchor |-> anchor]
        BY <3>2 DEF Latches!Planned
      <4>. QED BY <1>2, <4>1
    <3>. QED BY <2>1, <3>1, <3>2
  <2>6. Latches!LocalTypes'
    BY <1>1, <2>1, <2>2, <2>4 DEF Latches!LocalInv, Latches!LocalTypes, Latches!Maps
  <2>7. Latches!FencedInv'
    BY <1>2, <2>1, <2>2, <2>4 DEF Latches!FencedInv
  <2>. QED BY <2>4, <2>5, <2>6, <2>7 DEF Latches!LocalInv, Latches!PlansOnPresentMap
<1>8. CASE Latches!Tick
  <2>1. /\ v1' = [now |-> v1.now + 1, odomDue |-> TRUE] /\ ~v1.odomDue
        /\ UNCHANGED <<v2, v3, v4, v5>>
    BY <1>8, Zenon DEF Latches!Tick
  <2>2. v4.odom = v1.now
    BY <2>1, Zenon DEF Latches!LocalInv, Latches!LocalTypes
  <2>3. v1'.now = v1.now + 1 /\ v1'.odomDue = TRUE /\ v1' \in [now : Nat, odomDue : BOOLEAN]
    BY <1>1, <2>1
  <2>4. Latches!LocalTypes'
    BY <1>1, <2>1, <2>2, <2>3 DEF Latches!LocalInv, Latches!LocalTypes, Latches!Maps
  <2>5. Latches!FencedInv'
    BY <1>1, <1>2, <2>1, <2>3 DEF Latches!FencedInv
  <2>. QED BY <1>3, <2>1, <2>4, <2>5 DEF Latches!LocalInv, Latches!PlansOnPresentMap
<1>. QED BY <1>4, <1>5, <1>6, <1>7, <1>8, LocalSlam DEF Latches!LocalInputsNext

-----------------------------------------------------------------------------
(***************************************************************************)
(* The simulated vehicle: what is on its way was allowed when it came.     *)
(***************************************************************************)
LEMMA VehicleStart ==
  ASSUME VehicleAssumption, Vehicle!VehicleInit PROVE Vehicle!VehicleInv
<1>1. VehicleDelay \in Nat \ {0} /\ VehicleCmdTimeout \in Nat \ {0}
  BY DEF VehicleAssumption
<1>2. PICK published \in Int : published = 0
  OBVIOUS
<1>3. PICK nothing \in Nat : nothing = 0
  OBVIOUS
<1>4. /\ v5 = [published |-> published, cmd |-> VehicleCmdTimeout] /\ v6 = <<>>
      /\ v7 = [des |-> "slow", act |-> "slow"] /\ v8 = nothing
  BY <1>2, <1>3 DEF Vehicle!VehicleInit
<1>5. v5 \in [published : Int, cmd : 0 .. VehicleCmdTimeout] /\ v5.cmd = VehicleCmdTimeout
  BY <1>1, <1>4
<1>6. DOMAIN v7 = {"des", "act"} /\ v7.des = "slow" /\ v7.act = "slow"
  BY <1>4
<1>7. Len(v6) = 0 /\ v6 \in Seq([acc : {"drive", "brake"}, age : 0 .. VehicleDelay - 1])
  BY <1>4
<1>8. Vehicle!QueueInv
  BY <1>4, <1>7 DEF Vehicle!QueueInv
<1>9. Vehicle!DrivenInv
  BY <1>4, <1>6, <1>7 DEF Vehicle!DrivenInv
<1>. QED BY <1>4, <1>5, <1>6, <1>8, <1>9 DEF Vehicle!VehicleInv, Vehicle!StopsBeingDriven

\* A command is queued behind the others, and what is allowed ends the idleness.
LEMMA VehicleCommanded ==
  ASSUME VehicleAssumption, Vehicle!VehicleInv, Vehicle!OnCmd PROVE Vehicle!VehicleInv'
<1>. DEFINE Cmds == [acc : {"drive", "brake"}, age : 0 .. VehicleDelay - 1]
            n == Len(v6)
<1>1. VehicleDelay \in Nat \ {0} /\ VehicleCmdTimeout \in Nat \ {0}
  BY DEF VehicleAssumption
<1>2. /\ v5 \in [published : Int, cmd : 0 .. VehicleCmdTimeout] /\ v8 \in Nat
      /\ DOMAIN v7 = {"des", "act"} /\ v6 \in Seq(Cmds)
      /\ \A i, j \in 1 .. n : i < j => v6[i].age > v6[j].age
      /\ v6 # <<>> /\ v5.cmd < VehicleCmdTimeout => v5.cmd = v6[n].age
      /\ \A i \in 1 .. n : v6[i].acc = "drive" => v8 <= v6[i].age
      /\ \A i \in 1 .. n - 1 : \/ v8 <= v6[i + 1].age
                               \/ v6[i].age - v6[i + 1].age < VehicleCmdTimeout
      /\ v8 > VehicleCmdTimeout + VehicleDelay => v7.act # "drive"
  BY DEF Vehicle!VehicleInv, Vehicle!QueueInv, Vehicle!DrivenInv, Vehicle!StopsBeingDriven,
         Vehicle!Window
<1>3. v7.des = "drive" => IF v6 # <<>> THEN v8 <= VehicleCmdTimeout + v6[1].age
                          ELSE v5.cmd < VehicleCmdTimeout => v8 <= v5.cmd
  BY DEF Vehicle!VehicleInv, Vehicle!DrivenInv
<1>4. PICK cmd \in {"drive", "brake"} :
        /\ \A i \in DOMAIN v6 : v6[i].age > 0
        /\ v6' = Vehicle!Queued(cmd)
        /\ v5' = [v5 EXCEPT !.cmd = 0]
        /\ v8' = IF Vehicle!CanDrive \/ v5.cmd = VehicleCmdTimeout THEN 0 ELSE v8
        /\ v7' = v7
  BY DEF Vehicle!OnCmd
<1>5. PICK acc \in {"drive", "brake"}, nought \in 0 .. VehicleDelay - 1 :
        /\ nought = 0 /\ v6' = Append(v6, [acc |-> acc, age |-> nought])
        /\ acc = "drive" => Vehicle!CanDrive
  <2>1. 0 \in 0 .. VehicleDelay - 1
    BY <1>1
  <2>2. v6' = Append(v6, [acc |-> IF Vehicle!CanDrive THEN cmd ELSE "brake", age |-> 0])
    BY <1>4, Zenon DEF Vehicle!Queued
  <2>. QED BY <2>1, <2>2
<1>. DEFINE new == [acc |-> acc, age |-> nought]
<1>6. new \in Cmds /\ new.acc = acc /\ new.age = 0
  BY <1>5
<1>7. v6' = Append(v6, new)
  BY <1>5
<1>. HIDE DEF new, Cmds
<1>8. /\ v6' \in Seq(Cmds) /\ Len(v6') = n + 1 /\ v6'[n + 1] = new /\ v6' # <<>>
      /\ \A i \in 1 .. n : v6'[i] = v6[i] /\ v6[i] \in Cmds
      /\ n \in Nat /\ DOMAIN v6 = 1 .. n
  BY <1>2, <1>6, <1>7
<1>9. \A c \in Cmds : c.age \in 0 .. VehicleDelay - 1
  BY DEF Cmds
<1>10. v8' \in Nat /\ v8' <= v8 /\ (acc = "drive" => v8' = 0)
       /\ (v5.cmd = VehicleCmdTimeout => v8' = 0)
  BY <1>2, <1>4, <1>5
<1>11. v5' \in [published : Int, cmd : 0 .. VehicleCmdTimeout] /\ v5'.cmd = 0
  <2>1. PICK z \in 0 .. VehicleCmdTimeout : z = 0
    BY <1>1
  <2>. QED BY <1>2, <1>4, <2>1
<1>12. Vehicle!QueueInv'
  <2>1. \A i, j \in 1 .. n + 1 : i < j => v6'[i].age > v6'[j].age
    <3>1. SUFFICES ASSUME NEW i \in 1 .. n + 1, NEW j \in 1 .. n + 1, i < j
                   PROVE  v6'[i].age > v6'[j].age
      OBVIOUS
    <3>2. i \in 1 .. n /\ (j \in 1 .. n \/ j = n + 1)
      BY <1>8, <3>1
    <3>3. v6'[i] = v6[i] /\ v6[i].age > 0 /\ v6[i].age \in Int
      BY <1>1, <1>4, <1>8, <1>9, <3>2
    <3>4. CASE j \in 1 .. n
      <4>1. v6'[j] = v6[j] /\ v6[i].age > v6[j].age
        BY <1>2, <1>8, <3>1, <3>2, <3>4
      <4>. QED BY <3>3, <4>1
    <3>5. CASE j = n + 1
      <4>1. v6'[j].age = 0
        BY <1>6, <1>8, <3>5
      <4>. QED BY <3>3, <4>1
    <3>. QED BY <3>2, <3>4, <3>5
  <2>. QED BY <1>6, <1>8, <1>11, <2>1 DEF Vehicle!QueueInv, Cmds
<1>13. n = 0 <=> v6 = <<>>
  BY <1>2
<1>14. v5.cmd \in 0 .. VehicleCmdTimeout
  BY <1>2
<1>15. Vehicle!DrivenInv'
  <2>1. \A i \in 1 .. n + 1 : v6'[i].acc = "drive" => v8' <= v6'[i].age
    BY <1>2, <1>6, <1>8, <1>9, <1>10
  <2>2. \A i \in 1 .. n : \/ v8' <= v6'[i + 1].age
                          \/ v6'[i].age - v6'[i + 1].age < VehicleCmdTimeout
    <3>1. ASSUME NEW i \in 1 .. n - 1
          PROVE  \/ v8' <= v6'[i + 1].age
                 \/ v6'[i].age - v6'[i + 1].age < VehicleCmdTimeout
      <4>1. i + 1 \in 1 .. n /\ i \in 1 .. n
        BY <1>8
      <4>2. v6[i] \in Cmds /\ v6[i + 1] \in Cmds /\ v6'[i] = v6[i] /\ v6'[i + 1] = v6[i + 1]
        BY <1>8, <4>1
      <4>3. v6[i].age \in 0 .. VehicleDelay - 1 /\ v6[i + 1].age \in 0 .. VehicleDelay - 1
        BY <1>9, <4>2
      <4>. QED BY <1>1, <1>2, <1>10, <4>2, <4>3
    <3>2. n > 0 => \/ v8' <= v6'[n + 1].age
                   \/ v6'[n].age - v6'[n + 1].age < VehicleCmdTimeout
      <4>1. SUFFICES ASSUME n > 0, v5.cmd # VehicleCmdTimeout
                     PROVE  v6'[n].age - v6'[n + 1].age < VehicleCmdTimeout
        BY <1>1, <1>6, <1>8, <1>10, <1>14
      <4>2. v6'[n] = v6[n] /\ v6[n].age = v5.cmd
        BY <1>1, <1>2, <1>8, <1>13, <1>14, <4>1
      <4>. QED BY <1>1, <1>6, <1>8, <1>14, <4>1, <4>2
    <3>. QED
      <4>a. n \in Nat
        BY <1>8
      <4>1. \A i \in 1 .. n : i \in 1 .. n - 1 \/ (i = n /\ n > 0)
        <5>. HIDE DEF n
        <5>. QED BY <4>a
      <4>. QED BY <3>1, <3>2, <4>1
  <2>3. v7'.des = "drive" => v8' <= VehicleCmdTimeout + v6'[1].age
    <3>1. CASE n = 0
      <4>1. v6'[1].age = 0
        BY <1>6, <1>8, <3>1
      <4>. QED BY <1>1, <1>2, <1>3, <1>4, <1>10, <1>13, <1>14, <3>1, <4>1
    <3>2. CASE n > 0
      <4>1. v6'[1] = v6[1] /\ v6[1] \in Cmds
        BY <1>8, <3>2
      <4>2. v6[1].age \in 0 .. VehicleDelay - 1
        BY <1>9, <4>1
      <4>. QED BY <1>1, <1>2, <1>3, <1>4, <1>10, <1>13, <3>2, <4>1, <4>2
    <3>. QED BY <1>8, <3>1, <3>2
  <2>. QED BY <1>8, <2>1, <2>2, <2>3 DEF Vehicle!DrivenInv
<1>16. Vehicle!StopsBeingDriven'
  BY <1>1, <1>2, <1>4, <1>10 DEF Vehicle!StopsBeingDriven, Vehicle!Window
<1>. QED BY <1>2, <1>4, <1>10, <1>11, <1>12, <1>15, <1>16 DEF Vehicle!VehicleInv

\* An update makes every command on its way older, and takes up the one that is due.
LEMMA VehicleUpdated ==
  ASSUME VehicleAssumption, Vehicle!VehicleInv, Vehicle!Update PROVE Vehicle!VehicleInv'
<1>. DEFINE Cmds == [acc : {"drive", "brake"}, age : 0 .. VehicleDelay - 1]
            n == Len(v6)
<1>1. VehicleDelay \in Nat \ {0} /\ VehicleCmdTimeout \in Nat \ {0}
  BY DEF VehicleAssumption
<1>2. /\ v5 \in [published : Int, cmd : 0 .. VehicleCmdTimeout] /\ v8 \in Nat
      /\ DOMAIN v7 = {"des", "act"} /\ v6 \in Seq(Cmds)
      /\ \A i, j \in 1 .. n : i < j => v6[i].age > v6[j].age
      /\ v6 # <<>> /\ v5.cmd < VehicleCmdTimeout => v5.cmd = v6[n].age
      /\ \A i \in 1 .. n : v6[i].acc = "drive" => v8 <= v6[i].age
      /\ \A i \in 1 .. n - 1 : \/ v8 <= v6[i + 1].age
                               \/ v6[i].age - v6[i + 1].age < VehicleCmdTimeout
  BY DEF Vehicle!VehicleInv, Vehicle!QueueInv, Vehicle!DrivenInv
<1>3. v7.des = "drive" => IF v6 # <<>> THEN v8 <= VehicleCmdTimeout + v6[1].age
                          ELSE v5.cmd < VehicleCmdTimeout => v8 <= v5.cmd
  BY DEF Vehicle!VehicleInv, Vehicle!DrivenInv
<1>. DEFINE older == [i \in DOMAIN v6 |->
                        [v6[i] EXCEPT !.age = Vehicle!Least(@ + 1, VehicleDelay)]]
            des == IF Vehicle!Due THEN Head(v6).acc ELSE v7.des
<1>4. /\ v6' = IF Vehicle!Due THEN Tail(older) ELSE older
      /\ v7' = [des |-> des, act |-> IF v5.cmd + 1 < VehicleCmdTimeout THEN des ELSE "slow"]
      /\ v8' = Vehicle!Least(v8 + 1, VehicleCmdTimeout + VehicleDelay + 1)
      /\ v5' = [published |-> IF Vehicle!Publishes THEN 0 ELSE v5.published + 1,
                cmd |-> Vehicle!Least(v5.cmd + 1, VehicleCmdTimeout)]
  BY Zenon DEF Vehicle!Update, Vehicle!Older, Vehicle!Applied, Vehicle!Window
<1>5. Vehicle!Due <=> v6 # <<>> /\ older[1].age >= VehicleDelay
  <2>1. v6 # <<>> => Head(Vehicle!Older) = Vehicle!Older[1]
    BY <1>2 DEF Vehicle!Older
  <2>. QED BY <2>1, Zenon DEF Vehicle!Due, Vehicle!Older
<1>6. n \in Nat /\ DOMAIN v6 = 1 .. n /\ (n = 0 <=> v6 = <<>>)
      /\ \A i \in 1 .. n : v6[i] \in Cmds
  <2>1. v6 \in Seq(Cmds)
    BY <1>2
  <2>. HIDE DEF Cmds
  <2>2. n \in Nat /\ DOMAIN v6 = 1 .. n /\ \A i \in 1 .. n : v6[i] \in Cmds
    BY <2>1
  <2>3. n = 0 <=> v6 = <<>>
    BY <2>1
  <2>. QED BY <2>2, <2>3
<1>7. \A c \in Cmds : c.age \in 0 .. VehicleDelay - 1 /\ c.acc \in {"drive", "brake"}
  OBVIOUS
<1>8. \A i \in 1 .. n : /\ older[i] \in [acc : {"drive", "brake"}, age : 1 .. VehicleDelay]
                        /\ older[i].acc = v6[i].acc /\ older[i].age = v6[i].age + 1
  BY <1>1, <1>6 DEF Vehicle!Least
<1>9. /\ v5' \in [published : Int, cmd : 0 .. VehicleCmdTimeout]
      /\ v5'.cmd = Vehicle!Least(v5.cmd + 1, VehicleCmdTimeout)
      /\ v5.cmd \in 0 .. VehicleCmdTimeout
  <2>1. PICK published \in Int :
          published = IF Vehicle!Publishes THEN 0 ELSE v5.published + 1
    BY <1>2
  <2>2. PICK c \in 0 .. VehicleCmdTimeout : c = Vehicle!Least(v5.cmd + 1, VehicleCmdTimeout)
    BY <1>1, <1>2 DEF Vehicle!Least
  <2>3. v5' = [published |-> published, cmd |-> c]
    BY <1>4, <2>1, <2>2, Zenon
  <2>. QED BY <1>2, <2>2, <2>3
<1>10. v8' \in Nat /\ v8' <= v8 + 1
  <2>1. PICK most \in Nat : most = VehicleCmdTimeout + VehicleDelay + 1
    BY <1>1
  <2>2. v8 \in Nat /\ v8' = IF v8 + 1 < most THEN v8 + 1 ELSE most
    BY <1>2, <1>4, <2>1, Zenon DEF Vehicle!Least
  <2>. QED BY <2>1, <2>2
<1>11. /\ DOMAIN v7' = {"des", "act"} /\ v7'.des = des
       /\ v7'.act = "drive" => des = "drive" /\ v5.cmd + 1 < VehicleCmdTimeout
  BY <1>4
<1>12. Vehicle!Due <=> n > 0 /\ v6[1].age = VehicleDelay - 1
  <2>1. n > 0 => older[1].age = v6[1].age + 1 /\ v6[1].age \in 0 .. VehicleDelay - 1
    <3>. HIDE DEF older, Cmds
    <3>1. n > 0 => 1 \in 1 .. n
      BY <1>6
    <3>. QED BY <1>6, <1>7, <1>8, <3>1
  <2>. HIDE DEF older
  <2>. QED BY <1>1, <1>5, <1>6, <2>1
<1>13. Vehicle!Due => des = v6[1].acc
  BY <1>2, <1>6
<1>14. ~Vehicle!Due => des = v7.des
  OBVIOUS
<1>. DEFINE k == IF Vehicle!Due THEN 1 ELSE 0
            m == n - k
<1>15. k \in {0, 1} /\ m \in Nat /\ (Vehicle!Due => k = 1 /\ n > 0) /\ (~Vehicle!Due => k = 0)
  BY <1>6, <1>12
<1>16. older \in Seq([acc : {"drive", "brake"}, age : 1 .. VehicleDelay]) /\ Len(older) = n
  <2>. DEFINE Aged == [acc : {"drive", "brake"}, age : 1 .. VehicleDelay]
  <2>1. older \in [1 .. n -> Aged]
    BY <1>6, <1>8
  <2>. HIDE DEF older, Aged, n
  <2>2. older \in Seq(Aged) /\ Len(older) = n
    BY <1>6, <2>1
  <2>. QED BY <2>2 DEF Aged
<1>17. /\ v6' \in Seq([acc : {"drive", "brake"}, age : 1 .. VehicleDelay]) /\ Len(v6') = m
       /\ \A i \in 1 .. m : v6'[i] = older[i + k]
  <2>. HIDE DEF older
  <2>1. CASE Vehicle!Due
    <3>1. v6' = Tail(older) /\ k = 1 /\ n > 0
      BY <1>4, <1>15, <2>1
    <3>. HIDE DEF k
    <3>. QED BY <1>6, <1>16, <3>1
  <2>2. CASE ~Vehicle!Due
    <3>1. v6' = older /\ k = 0
      BY <1>4, <1>15, <2>2
    <3>. HIDE DEF k
    <3>. QED BY <1>6, <1>16, <3>1
  <2>. QED BY <2>1, <2>2
<1>. HIDE DEF older, des, k, Cmds
<1>18. \A i \in 1 .. m : /\ i + k \in 1 .. n
                         /\ v6'[i].acc = v6[i + k].acc /\ v6'[i].age = v6[i + k].age + 1
                         /\ v6'[i].age \in 0 .. VehicleDelay - 1
  <2>1. \A i \in 1 .. m : i + k \in 1 .. n
    BY <1>6, <1>15
  <2>2. \A i \in 1 .. m : v6[i + k].age < VehicleDelay - 1
    <3>1. CASE ~Vehicle!Due
      <4>1. \A i \in 1 .. n : v6[1].age >= v6[i].age
        BY <1>2, <1>6, <1>7
      <4>2. \A i \in 1 .. n : v6[1] \in Cmds /\ v6[1].age # VehicleDelay - 1
        BY <1>6, <1>12, <3>1
      <4>. QED BY <1>1, <1>6, <1>7, <2>1, <4>1, <4>2
    <3>2. CASE Vehicle!Due
      <4>1. \A i \in 1 .. m : v6[1].age > v6[i + k].age /\ v6[1].age = VehicleDelay - 1
        BY <1>2, <1>6, <1>12, <1>15, <2>1, <3>2
      <4>. QED BY <1>1, <1>6, <1>7, <2>1, <4>1
    <3>. QED BY <3>1, <3>2
  <2>3. ASSUME NEW i \in 1 .. m
        PROVE  /\ v6'[i].acc = v6[i + k].acc /\ v6'[i].age = v6[i + k].age + 1
               /\ v6'[i].age \in 0 .. VehicleDelay - 1
    <3>1. i + k \in 1 .. n /\ v6[i + k].age < VehicleDelay - 1 /\ v6'[i] = older[i + k]
      BY <1>17, <2>1, <2>2, <2>3
    <3>2. v6[i + k].age \in 0 .. VehicleDelay - 1
      BY <1>6, <1>7, <3>1
    <3>. QED BY <1>1, <1>8, <3>1, <3>2
  <2>. QED BY <2>1, <2>3
<1>. DEFINE q == v6'
<1>19. /\ m = 0 <=> q = <<>>
       /\ q \in Seq([acc : {"drive", "brake"}, age : 1 .. VehicleDelay]) /\ Len(q) = m
  <2>1. /\ v6' \in Seq([acc : {"drive", "brake"}, age : 1 .. VehicleDelay]) /\ Len(v6') = m
    BY <1>17
  <2>2. Len(v6') = 0 <=> v6' = <<>>
    BY <2>1
  <2>. QED BY <2>1, <2>2
<1>20. \A i \in 1 .. m : q[i] \in [acc : {"drive", "brake"}, age : 1 .. VehicleDelay]
  <2>. DEFINE Aged == [acc : {"drive", "brake"}, age : 1 .. VehicleDelay]
  <2>1. q \in Seq(Aged) /\ Len(q) = m
    BY <1>19
  <2>. HIDE DEF Aged, m, q
  <2>2. \A i \in 1 .. m : q[i] \in Aged
    BY <2>1
  <2>. QED BY <2>2 DEF Aged
<1>21. q \in Seq(Cmds)
  <2>1. \A i \in 1 .. m : q[i] \in Cmds
    BY <1>18, <1>20 DEF Cmds
  <2>. QED BY <1>19, <2>1
<1>22. Vehicle!QueueInv'
  <2>1. \A i, j \in 1 .. m : i < j => q[i].age > q[j].age
    <3>1. SUFFICES ASSUME NEW i \in 1 .. m, NEW j \in 1 .. m, i < j PROVE q[i].age > q[j].age
      OBVIOUS
    <3>2. i + k \in 1 .. n /\ j + k \in 1 .. n /\ i + k < j + k
      BY <1>15, <1>18, <3>1
    <3>3. v6[i + k].age \in Int /\ v6[j + k].age \in Int
      BY <1>6, <1>7, <3>2
    <3>4. v6[i + k].age > v6[j + k].age
      BY <1>2, <3>2
    <3>5. q[i].age = v6[i + k].age + 1 /\ q[j].age = v6[j + k].age + 1
      BY <1>18, <3>1
    <3>. QED BY <3>3, <3>4, <3>5
  <2>2. q # <<>> /\ v5'.cmd < VehicleCmdTimeout => v5'.cmd = q[m].age
    <3>1. SUFFICES ASSUME m > 0, v5'.cmd < VehicleCmdTimeout PROVE v5'.cmd = q[m].age
      BY <1>15, <1>19
    <3>2. v5'.cmd = v5.cmd + 1 /\ v5.cmd < VehicleCmdTimeout
      BY <1>1, <1>9, <3>1 DEF Vehicle!Least
    <3>3. m + k = n /\ m \in 1 .. m /\ v6 # <<>>
      BY <1>6, <1>15, <3>1
    <3>. QED BY <1>2, <1>18, <3>2, <3>3
  <2>. QED BY <1>19, <1>21, <2>1, <2>2 DEF Vehicle!QueueInv, Cmds
<1>23. Vehicle!DrivenInv'
  <2>1. \A i \in 1 .. m : q[i].acc = "drive" => v8' <= q[i].age
    <3>1. SUFFICES ASSUME NEW i \in 1 .. m, q[i].acc = "drive" PROVE v8' <= q[i].age
      OBVIOUS
    <3>2. /\ i + k \in 1 .. n /\ v6[i + k].acc = "drive"
          /\ q[i].age = v6[i + k].age + 1
      BY <1>18, <3>1
    <3>3. v6[i + k].age \in Int /\ v8 <= v6[i + k].age
      BY <1>2, <1>6, <1>7, <3>2
    <3>. QED BY <1>2, <1>10, <3>2, <3>3
  <2>2. \A i \in 1 .. m - 1 : \/ v8' <= q[i + 1].age
                              \/ q[i].age - q[i + 1].age < VehicleCmdTimeout
    <3>1. SUFFICES ASSUME NEW i \in 1 .. m - 1
                   PROVE  \/ v8' <= q[i + 1].age
                          \/ q[i].age - q[i + 1].age < VehicleCmdTimeout
      OBVIOUS
    <3>2. /\ i \in 1 .. m /\ i + 1 \in 1 .. m /\ (i + 1) + k = (i + k) + 1
          /\ i + k \in 1 .. n - 1
      BY <1>15, <3>1
    <3>3. /\ i + k \in 1 .. n /\ (i + k) + 1 \in 1 .. n
          /\ v6[i + k].age \in Int /\ v6[(i + k) + 1].age \in Int
          /\ q[i].age = v6[i + k].age + 1 /\ q[i + 1].age = v6[(i + k) + 1].age + 1
      BY <1>6, <1>7, <1>18, <3>2
    <3>4. \/ v8 <= v6[(i + k) + 1].age
          \/ v6[i + k].age - v6[(i + k) + 1].age < VehicleCmdTimeout
      BY <1>2, <3>2
    <3>5. v8 \in Nat
      BY <1>2
    <3>. QED BY <1>1, <1>10, <3>3, <3>4, <3>5
  <2>3. des = "drive" => IF q # <<>> THEN v8' <= VehicleCmdTimeout + q[1].age
                         ELSE v5'.cmd < VehicleCmdTimeout => v8' <= v5'.cmd
    <3>1. v5'.cmd < VehicleCmdTimeout => v5'.cmd = v5.cmd + 1 /\ v5.cmd < VehicleCmdTimeout
      BY <1>1, <1>9 DEF Vehicle!Least
    <3>2. CASE ~Vehicle!Due /\ n = 0
      <4>1. q = <<>> /\ v6 = <<>> /\ des = v7.des
        BY <1>6, <1>14, <1>15, <1>19, <3>2
      <4>. QED BY <1>2, <1>3, <1>9, <1>10, <3>1, <4>1
    <3>3. CASE ~Vehicle!Due /\ n > 0
      <4>1. /\ q # <<>> /\ v6 # <<>> /\ des = v7.des /\ m > 0 /\ k = 0
            /\ q[1].age = v6[1].age + 1 /\ v6[1].age \in Int
        BY <1>6, <1>7, <1>14, <1>15, <1>18, <1>19, <3>3
      <4>. QED BY <1>1, <1>2, <1>3, <1>10, <4>1
    <3>4. CASE Vehicle!Due /\ n = 1
      <4>1. /\ q = <<>> /\ v6 # <<>> /\ des = v6[1].acc /\ v6[1].age \in Int
            /\ 1 \in 1 .. n
        BY <1>6, <1>7, <1>13, <1>15, <1>19, <3>4
      <4>2. des = "drive" => v8 <= v6[1].age
        BY <1>2, <4>1
      <4>3. v5.cmd < VehicleCmdTimeout => v5.cmd = v6[1].age
        BY <1>2, <3>4, <4>1
      <4>. QED BY <1>1, <1>2, <1>9, <1>10, <3>1, <4>1, <4>2, <4>3
    <3>5. CASE Vehicle!Due /\ n > 1
      <4>1. /\ q # <<>> /\ v6 # <<>> /\ des = v6[1].acc /\ v6[1].age \in Int
            /\ 1 \in 1 .. n /\ 2 \in 1 .. n /\ v6[2].age \in Int /\ 1 \in 1 .. m /\ k = 1
            /\ 1 \in 1 .. n - 1
        BY <1>6, <1>7, <1>13, <1>15, <1>19, <3>5
      <4>2. q[1].age = v6[2].age + 1
        BY <1>18, <4>1
      <4>3. \/ v8 <= v6[2].age
            \/ v6[1].age - v6[2].age < VehicleCmdTimeout
        BY <1>2, <4>1
      <4>4. des = "drive" => v8 <= v6[1].age
        BY <1>2, <4>1
      <4>5. v8 \in Nat /\ v6[1].age < VehicleDelay
        BY <1>1, <1>2, <1>6, <1>7, <4>1
      <4>6. des = "drive" => v8' <= VehicleCmdTimeout + q[1].age
        BY <1>1, <1>10, <4>1, <4>2, <4>3, <4>4, <4>5
      <4>. QED BY <4>1, <4>6
    <3>. QED BY <1>6, <1>12, <3>2, <3>3, <3>4, <3>5
  <2>4. q # <<>> => Head(q) = q[1]
    BY <1>19
  <2>. QED BY <1>11, <1>19, <2>1, <2>2, <2>3, <2>4 DEF Vehicle!DrivenInv
<1>24. Vehicle!StopsBeingDriven'
  <2>1. SUFFICES ASSUME des = "drive", v5.cmd + 1 < VehicleCmdTimeout
                 PROVE  v8' <= VehicleCmdTimeout + VehicleDelay
    BY <1>1, <1>10, <1>11 DEF Vehicle!StopsBeingDriven, Vehicle!Window
  <2>2. v5'.cmd < VehicleCmdTimeout
    BY <1>1, <1>9, <2>1 DEF Vehicle!Least
  <2>3. IF q # <<>> THEN v8' <= VehicleCmdTimeout + Head(q).age ELSE v8' <= v5'.cmd
    BY <1>11, <1>23, <2>1, <2>2 DEF Vehicle!DrivenInv
  <2>4. q # <<>> => Head(q).age \in 0 .. VehicleDelay - 1
    BY <1>15, <1>18, <1>19
  <2>. QED BY <1>1, <1>9, <1>10, <2>2, <2>3, <2>4
<1>. QED BY <1>9, <1>10, <1>11, <1>22, <1>23, <1>24 DEF Vehicle!VehicleInv

LEMMA VehicleKeep ==
  ASSUME VehicleAssumption, Vehicle!VehicleInv, Vehicle!VehicleNext PROVE Vehicle!VehicleInv'
<1>1. CASE UNCHANGED <<v5, v6, v7, v8>>
  BY <1>1 DEF Vehicle!VehicleInv, Vehicle!QueueInv, Vehicle!DrivenInv, Vehicle!StopsBeingDriven
<1>. QED BY <1>1, VehicleCommanded, VehicleUpdated
     DEF Vehicle!VehicleNext, Vehicle!SetMission, Vehicle!ResetState, Vehicle!RequestEBS,
         Vehicle!CompletedCallback

-----------------------------------------------------------------------------
(***************************************************************************)
(* The brake test: the speed last heard of is one turn off at most.        *)
(***************************************************************************)
LEMMA InspectionStart ==
  ASSUME InspectionAssumption, Inspection!InspectionInit PROVE Inspection!InspectionInv
<1>1. InspectionBrakeHold \in Nat /\ InspectionSpunUp \in Nat \ {0, 1}
  BY DEF InspectionAssumption
<1>2. PICK spun \in BOOLEAN, asked \in BOOLEAN, braked \in Nat :
        /\ ~spun /\ ~asked /\ braked = 0
        /\ v10 = [verdict |-> "none", spun |-> spun, braked |-> braked, asked |-> asked]
  BY Zenon DEF Inspection!InspectionInit
<1>3. /\ v10 \in [verdict : {"none", "PASS", "FAIL"}, spun : BOOLEAN, braked : Nat,
                  asked : BOOLEAN]
      /\ v10.verdict = "none" /\ v10.spun = spun
  BY <1>2
<1>4. ~v10.spun
  BY <1>2, <1>3, Zenon
<1>5. v2 = -1 /\ v3 = -1 /\ v6 = -1 /\ v8 = 0 /\ v9 = 0
  BY DEF Inspection!InspectionInit, Inspection!Unset
<1>. QED BY <1>1, <1>3, <1>4, <1>5
     DEF Inspection!InspectionInv, Inspection!VerdictTrue, Inspection!Unset

LEMMA InspectionKeep ==
  ASSUME InspectionAssumption, Inspection!InspectionInv, Inspection!InspectionNext
  PROVE  Inspection!InspectionInv'
<1>. DEFINE Tests == [verdict : {"none", "PASS", "FAIL"}, spun : BOOLEAN, braked : Nat,
                      asked : BOOLEAN]
<1>1. /\ InspectionBrakeHold \in Nat /\ InspectionSpunUp \in Nat \ {0, 1}
      /\ InspectionStopLimit \in Nat /\ InspectionDuration \in Nat
  BY DEF InspectionAssumption
<1>2. /\ v8 \in 0 .. InspectionSpunUp /\ v9 \in 0 .. 1 /\ v6 \in Int
      /\ v6 # -1 => v8 - v6 <= v9 /\ v6 - v8 <= v9
      /\ v3 \in (0 .. InspectionBrakeHold) \cup {-1} /\ v2 \in Int
      /\ v10 \in Tests
      /\ v3 # -1 /\ v10.verdict = "none" => v10.braked <= v3
  BY DEF Inspection!InspectionInv, Inspection!Unset
<1>3. /\ v3 # -1 => v10.asked \/ v10.spun
      /\ v3 # -1 => (v4 <=> v10.verdict # "none")
      /\ v10.verdict = "PASS" => v10.asked \/ (v10.spun /\ v10.braked <= InspectionStopLimit)
      /\ v3 = -1 /\ v10.spun => v10.verdict # "none"
  BY DEF Inspection!InspectionInv, Inspection!Unset, Inspection!VerdictTrue
<1>4. CASE Inspection!OnCan
  <2>1. UNCHANGED <<v3, v4, v6, v8, v9, v10>> /\ v2' = 0
    BY <1>4 DEF Inspection!OnCan
  <2>. QED BY <2>1 DEF Inspection!InspectionInv, Inspection!VerdictTrue, Inspection!Unset
<1>5. CASE Inspection!OnSpeed
  <2>. DEFINE stops == v3 # -1 /\ ~v4 /\ v8 = 0
              verdict == IF v3 <= InspectionStopLimit THEN "PASS" ELSE "FAIL"
  <2>1. /\ v6' = v8 /\ v9' = 0 /\ UNCHANGED <<v2, v3, v8>>
        /\ v4' = (v4 \/ stops)
        /\ v10' = IF stops THEN [v10 EXCEPT !.verdict = verdict] ELSE v10
    BY <1>5, Zenon DEF Inspection!OnSpeed, Inspection!Unset
  <2>2. verdict \in {"PASS", "FAIL"} /\ (verdict = "PASS" => v3 <= InspectionStopLimit)
    OBVIOUS
  <2>. HIDE DEF verdict
  <2>3. /\ v8' \in 0 .. InspectionSpunUp /\ v9' \in 0 .. 1 /\ v6' \in Int
        /\ v8' - v6' <= v9' /\ v6' - v8' <= v9'
    BY <1>2, <2>1
  <2>4. CASE stops
    <3>1. v3 # -1 /\ ~v4 /\ v4' /\ v10' = [v10 EXCEPT !.verdict = verdict]
      BY <2>1, <2>4, Zenon
    <3>2. v10' \in Tests /\ v10'.verdict = verdict /\ v10'.spun = v10.spun
          /\ v10'.braked = v10.braked /\ v10'.asked = v10.asked
      BY <1>2, <2>2, <3>1
    <3>3. v10.verdict = "none" /\ v10.braked <= v3 /\ (v10.asked \/ v10.spun)
      BY <1>2, <1>3, <3>1, Zenon
    <3>4. verdict = "PASS" => v10.braked <= InspectionStopLimit
      <4>1. v10.braked \in Nat
        BY <1>2
      <4>. QED BY <1>1, <1>2, <2>2, <3>1, <3>3, <4>1
    <3>5. verdict # "none"
      BY <2>2
    <3>6. Inspection!VerdictTrue'
      BY <2>1, <3>1, <3>2, <3>3, <3>4, <3>5, Zenon DEF Inspection!VerdictTrue, Inspection!Unset
    <3>. QED BY <1>2, <2>1, <2>3, <3>1, <3>2, <3>3, <3>5, <3>6, Zenon
         DEF Inspection!InspectionInv, Inspection!Unset
  <2>5. CASE ~stops
    <3>1. v10' = v10 /\ (v4' <=> v4)
      BY <2>1, <2>5, Zenon
    <3>. QED BY <1>2, <1>3, <2>1, <2>3, <3>1, Zenon
         DEF Inspection!InspectionInv, Inspection!VerdictTrue, Inspection!Unset
  <2>. QED BY <2>4, <2>5
<1>6. CASE Inspection!OnBrakeTest
  <2>1. PICK asked \in BOOLEAN, spun \in BOOLEAN, none \in Nat :
          /\ none = 0 /\ asked = (v3 # -1)
          /\ spun = IF v3 = -1 THEN v8 > 0 ELSE v10.spun
          /\ v10' = [verdict |-> "none", braked |-> none, asked |-> asked, spun |-> spun]
    <3>1. PICK asked \in BOOLEAN : asked = (v3 # -1)
      BY Zenon
    <3>2. v10.spun \in BOOLEAN
      BY <1>2
    <3>3. PICK spun \in BOOLEAN : spun = IF v3 = -1 THEN v8 > 0 ELSE v10.spun
      <4>1. (v8 > 0) \in BOOLEAN
        BY <1>2
      <4>. QED BY <3>2, <4>1, Zenon
    <3>4. PICK none \in Nat : none = 0
      OBVIOUS
    <3>5. v10' = [verdict |-> "none", braked |-> none, asked |-> asked, spun |-> spun]
      BY <1>6, <3>1, <3>3, <3>4, Zenon DEF Inspection!OnBrakeTest, Inspection!Unset
    <3>. QED BY <3>1, <3>3, <3>4, <3>5
  <2>2. v3' = 0 /\ ~v4' /\ UNCHANGED <<v2, v6, v8, v9>> /\ v6 >= InspectionSpunUp
    BY <1>6 DEF Inspection!OnBrakeTest, Inspection!Testable
  <2>3. v10' \in Tests /\ v10'.verdict = "none" /\ v10'.braked = 0
        /\ v10'.asked = asked /\ v10'.spun = spun
    BY <2>1
  <2>4. v8 > 0
    BY <1>1, <1>2, <2>2
  <2>5. v10'.asked \/ v10'.spun
    BY <2>1, <2>3, <2>4, Zenon
  <2>6. v3' \in 0 .. InspectionBrakeHold /\ v3' # -1 /\ v10'.braked <= v3'
    BY <1>1, <2>2, <2>3
  <2>7. Inspection!VerdictTrue'
    BY <2>3, <2>6 DEF Inspection!VerdictTrue, Inspection!Unset
  <2>. QED BY <1>2, <2>2, <2>3, <2>5, <2>6, <2>7, Zenon
       DEF Inspection!InspectionInv, Inspection!Unset
<1>7. CASE Inspection!Tick
  <2>1. UNCHANGED <<v2, v4, v6, v8, v9>>
    BY <1>7 DEF Inspection!Tick
  <2>2. CASE UNCHANGED <<v3, v10>>
    BY <2>1, <2>2 DEF Inspection!InspectionInv, Inspection!VerdictTrue
  <2>3. CASE Inspection!Resumed
    <3>1. v3' = -1
          /\ v10' = IF v3 # -1 /\ ~v4 THEN [v10 EXCEPT !.verdict = "FAIL"] ELSE v10
      BY <2>3 DEF Inspection!Resumed, Inspection!Unset
    <3>2. v10' \in Tests /\ v10'.spun = v10.spun
      <4>1. PICK verdict \in {"none", "PASS", "FAIL"} : verdict = "FAIL"
        OBVIOUS
      <4>2. v10' = v10 \/ v10' = [v10 EXCEPT !.verdict = verdict]
        BY <3>1, <4>1
      <4>3. [v10 EXCEPT !.verdict = verdict] \in Tests
            /\ [v10 EXCEPT !.verdict = verdict].spun = v10.spun
        BY <1>2
      <4>. HIDE DEF Tests
      <4>. QED BY <1>2, <4>2, <4>3, Zenon
    <3>3. v10'.verdict = "FAIL" \/ (v10' = v10 /\ (v3 # -1 => v4))
      <4>1. [v10 EXCEPT !.verdict = "FAIL"].verdict = "FAIL"
        BY <1>2
      <4>. QED BY <3>1, <4>1, Zenon
    <3>4. Inspection!VerdictTrue'
      BY <1>3, <3>1, <3>2, <3>3 DEF Inspection!VerdictTrue, Inspection!Unset
    <3>. QED BY <1>2, <2>1, <3>1, <3>2, <3>4, Zenon
         DEF Inspection!InspectionInv, Inspection!Unset
  <2>. QED BY <1>7, <2>2, <2>3 DEF Inspection!Tick, Inspection!Command
<1>8. CASE Inspection!Time
  <2>. DEFINE braked == Inspection!Least(v10.braked + 1, InspectionBrakeHold)
  <2>1. /\ v9 < 1 /\ v9' = v9 + 1 /\ v8' \in Inspection!Turns
        /\ v2' = Inspection!Elapsed(v2, InspectionDuration)
        /\ v3' = Inspection!Elapsed(v3, InspectionBrakeHold)
        /\ v10' = IF v8 = 0 \/ v10.verdict # "none" THEN v10
                  ELSE [v10 EXCEPT !.braked = braked]
        /\ UNCHANGED <<v4, v6>>
    BY <1>8, Zenon DEF Inspection!Time
  <2>2. v8' \in 0 .. InspectionSpunUp /\ v8' - v8 <= 1 /\ v8 - v8' <= 1
    BY <1>1, <1>2, <2>1 DEF Inspection!Turns, Inspection!Least
  <2>3. /\ v9' \in 0 .. 1 /\ v2' \in Int
        /\ v6' # -1 => v8' - v6' <= v9' /\ v6' - v8' <= v9'
    BY <1>1, <1>2, <2>1, <2>2 DEF Inspection!Elapsed, Inspection!Least, Inspection!Unset
  <2>4. /\ v3' \in (0 .. InspectionBrakeHold) \cup {-1} /\ (v3' = -1 <=> v3 = -1)
        /\ v3 # -1 => v3' = Inspection!Least(v3 + 1, InspectionBrakeHold)
    BY <1>1, <1>2, <2>1 DEF Inspection!Elapsed, Inspection!Least, Inspection!Unset
  <2>5. v10.braked \in Nat
    BY <1>2
  <2>6. braked \in Nat
    BY <1>1, <2>5 DEF Inspection!Least
  <2>7. v3 # -1 /\ v10.verdict = "none" => v10.braked <= v3' /\ braked <= v3'
    BY <1>1, <1>2, <2>4, <2>5 DEF Inspection!Least
  <2>. HIDE DEF braked
  <2>8. /\ v10' \in Tests /\ v10'.verdict = v10.verdict /\ v10'.spun = v10.spun
        /\ v10'.asked = v10.asked
        /\ v10.verdict # "none" => v10'.braked = v10.braked
        /\ v10'.braked = v10.braked \/ v10'.braked = braked
    BY <1>2, <2>1, <2>6
  <2>9. Inspection!VerdictTrue'
    BY <1>3, <2>4, <2>8 DEF Inspection!VerdictTrue, Inspection!Unset
  <2>10. v3' # -1 /\ v10'.verdict = "none" => v10'.braked <= v3'
    BY <2>4, <2>7, <2>8, Zenon
  <2>. QED BY <1>3, <2>1, <2>2, <2>3, <2>4, <2>8, <2>9, <2>10, Zenon
       DEF Inspection!InspectionInv, Inspection!Unset
<1>. QED BY <1>4, <1>5, <1>6, <1>7, <1>8 DEF Inspection!InspectionNext

-----------------------------------------------------------------------------
(***************************************************************************)
(* The live pose: the last keyframe and its snapshot carry the correction. *)
(***************************************************************************)
LEMMA LiveStart ==
  ASSUME Odometry!OdometryInit PROVE Odometry!LiveInv
<1>1. PICK z \in Int, n \in Nat, last \in Int :
        /\ z = 0 /\ n = 0 /\ last = -1
        /\ v1 = [now |-> z, place |-> 0, raw |-> 0, run |-> z, troubles |-> 0]
        /\ v2 = {[stamp |-> v1.now, raw |-> v1.raw, place |-> v1.place, run |-> v1.run]}
        /\ v5 = [keyframe |-> {}, snapshot |-> {}, reference |-> {}, applied |-> n]
        /\ v6 = {} /\ v8 = [last |-> last, run |-> z] /\ v9 = [live |-> {}, placed |-> {}]
  <2>1. PICK z \in Int, n \in Nat, last \in Int : z = 0 /\ n = 0 /\ last = -1
    OBVIOUS
  <2>. QED BY <2>1 DEF Odometry!OdometryInit, Odometry!CarState, Odometry!Fresh, Odometry!Nothing
<1>2. /\ DOMAIN v1 = {"now", "place", "raw", "run", "troubles"} /\ v1.now = z /\ v1.run = z
      /\ \A m \in v2 : m.stamp = v1.now /\ m.run = v1.run
      /\ DOMAIN v5 = {"keyframe", "snapshot", "reference", "applied"}
      /\ v5.keyframe = {} /\ v5.snapshot = {} /\ v5.applied = 0
      /\ v8 \in [last : Int, run : Int] /\ v9.live = {}
  BY <1>1
<1>. QED BY <1>1, <1>2 DEF Odometry!LiveInv, Odometry!KeyframeTypes,
         Odometry!LiveNeverReverts, Odometry!MapShownAgain

\* What a step does to the graph, the picture and the pose it publishes.
LEMMA LiveKeep ==
  ASSUME LiveAssumption, Odometry!LiveInv, Odometry!OdometryNext PROVE Odometry!LiveInv'
<1>. DEFINE Sane(k) ==
              /\ DOMAIN k = {"raw", "est", "stamp", "run", "epoch", "drift"}
              /\ k.stamp \in Int /\ k.run \in Int /\ k.epoch \in Nat
            Graphs(g) ==
              /\ DOMAIN g = {"keyframe", "snapshot", "reference", "applied"}
              /\ \A j, k \in g.keyframe : j = k
              /\ \A j, k \in g.snapshot : j = k
              /\ \A k \in g.keyframe : Sane(k) /\ g.applied <= k.epoch
              /\ \A k \in g.snapshot : Sane(k) /\ g.applied <= k.epoch
              /\ g.applied \in Nat /\ (g.keyframe = {} => g.applied = 0)
            Worlds(w) == /\ DOMAIN w = {"now", "place", "raw", "run", "troubles"}
                         /\ w.now \in Int /\ w.run \in Int
            Waits(c) == DOMAIN c = {"m", "floor"} /\ c.floor \in Nat
            Pictures == [last : Int, run : Int]
            Soon(stamp, v) == stamp - v.last \in 0 .. LiveVisualInterval - 1
<1>1. /\ Graphs(v5) /\ Worlds(v1) /\ v8 \in Pictures
      /\ \A c \in v6 : Waits(c) /\ c.floor <= v5.applied
      /\ \A m \in v2 : m.stamp \in Int /\ m.run \in Int /\ m.run <= v1.run
      /\ \A k \in v5.keyframe : k.run <= v1.run
  BY DEF Odometry!LiveInv, Odometry!KeyframeTypes
<1>2. \A k \in v5.keyframe : k.run = v1.run /\ v8.run # v1.run => Soon(k.stamp, v8)
  BY DEF Odometry!LiveInv, Odometry!MapShownAgain
<1>3. LiveVisualInterval \in Nat /\ LiveRestart \in Nat
  BY DEF LiveAssumption
<1>4. ASSUME Graphs(v5'), Worlds(v1'), v8' \in Pictures,
             \A c \in v6' : Waits(c) /\ c.floor <= v5'.applied,
             \A m \in v2' : m.stamp \in Int /\ m.run \in Int /\ m.run <= v1'.run,
             \A k \in v5'.keyframe : /\ k.run <= v1'.run
                                     /\ k.run = v1'.run /\ v8'.run # v1'.run => Soon(k.stamp, v8'),
             \A live \in v9'.live : live.epoch >= live.floor
      PROVE  Odometry!LiveInv'
  BY <1>4 DEF Odometry!LiveInv, Odometry!KeyframeTypes, Odometry!LiveNeverReverts,
              Odometry!MapShownAgain
<1>5. ASSUME NEW k, Sane(k), NEW epoch \in Nat, epoch <= k.epoch,
             v5' = Odometry!Applied(Odometry!Committed(v5, k), epoch)
      PROVE  Graphs(v5') /\ v5'.keyframe = {k} /\ v5'.applied = epoch
  <2>1. v5' = [[[v5 EXCEPT !.keyframe = {k}] EXCEPT !.snapshot = {k}] EXCEPT !.applied = epoch]
    BY <1>5, Zenon DEF Odometry!Applied, Odometry!Committed, Odometry!CommittedToGraph
  <2>. HIDE DEF Sane
  <2>2. /\ DOMAIN v5' = {"keyframe", "snapshot", "reference", "applied"}
        /\ v5'.keyframe = {k} /\ v5'.snapshot = {k} /\ v5'.applied = epoch
    BY <1>1, <2>1
  <2>. QED BY <1>5, <2>2
<1>6. ASSUME NEW stamp \in Int, NEW run \in Int, v8' = Odometry!Shown(v8, stamp, run)
      PROVE  v8' \in Pictures /\ (v8'.run # run => Soon(stamp, v8'))
  <2>1. CASE Odometry!ShouldPublishVisuals(v8, stamp)
    BY <1>6, <2>1 DEF Odometry!Shown
  <2>2. CASE ~Odometry!ShouldPublishVisuals(v8, stamp)
    <3>1. v8' = v8
      BY <1>6, <2>2 DEF Odometry!Shown
    <3>. QED BY <1>1, <1>3, <1>6, <2>2, <3>1 DEF Odometry!ShouldPublishVisuals
  <2>. QED BY <2>1, <2>2
<1>7. ASSUME NEW k, NEW est, NEW place, NEW floor \in Int, k.epoch \in Int, k.epoch >= floor,
             v9' = Odometry!Live(k, est, place, floor)
      PROVE  \A live \in v9'.live : live.epoch >= live.floor
  <2>. DEFINE live == [est |-> est, place |-> place, epoch |-> k.epoch, drift |-> k.drift,
                       floor |-> floor]
  <2>1. v9' = [[live |-> {}, placed |-> {}] EXCEPT !.live = {live}]
    BY <1>7, Zenon DEF Odometry!Live, Odometry!Nothing
  <2>2. live.epoch = k.epoch /\ live.floor = floor
    OBVIOUS
  <2>. HIDE DEF live
  <2>. QED BY <1>7, <2>1, <2>2
<1>8. v9' = Odometry!Nothing => v9'.live = {}
  BY DEF Odometry!Nothing
<1>9. \A k \in v5.keyframe : v5.keyframe = {k} /\ (CHOOSE j \in v5.keyframe : TRUE) = k
  BY <1>1
<1>. HIDE DEF Sane, Pictures
<1>10. CASE Odometry!StateCallback
  <2>1. PICK m \in v2 :
          /\ v6 = {} /\ v2' = {} /\ v1' = v1
          /\ \/ Odometry!FromGraph(m) /\ v6' = v6
             \/ /\ v6' = {[m |-> m, floor |-> v5.applied]}
                /\ v9' = Odometry!Nothing /\ UNCHANGED <<v5, v8>>
    BY <1>10 DEF Odometry!StateCallback
  <2>2. m.stamp \in Int /\ m.run \in Int /\ m.run <= v1.run
    BY <1>1
  <2>3. ASSUME NEW k, Sane(k), k.stamp = m.stamp, k.run = m.run, v5.applied <= k.epoch,
               NEW epoch \in Nat, epoch <= k.epoch, v6' = v6,
               v5' = Odometry!Applied(Odometry!Committed(v5, k), epoch),
               v8' = Odometry!Shown(v8, m.stamp, m.run),
               v9' = Odometry!Live(k, k.est, m.place, v5.applied)
        PROVE  Odometry!LiveInv'
    <3>1. Graphs(v5') /\ v5'.keyframe = {k} /\ v5'.applied = epoch
      BY <1>5, <2>3
    <3>2. v8' \in Pictures /\ (v8'.run # m.run => Soon(m.stamp, v8'))
      BY <1>6, <2>2, <2>3
    <3>3. k.epoch \in Int /\ v5.applied \in Int
      BY <1>1, <2>3 DEF Sane
    <3>4. \A live \in v9'.live : live.epoch >= live.floor
      BY <1>7, <2>3, <3>3
    <3>. HIDE DEF Graphs, Worlds, Soon, Waits
    <3>. QED BY <1>1, <1>4, <2>1, <2>2, <2>3, <3>1, <3>2, <3>4
  <2>4. CASE v5.keyframe = {} /\ Odometry!FromGraph(m) /\ v6' = v6
    <3>. DEFINE first == [raw |-> m.raw, est |-> m.raw, stamp |-> m.stamp, run |-> m.run,
                          epoch |-> 0, drift |-> 0]
    <3>1. /\ v5' = Odometry!Applied(Odometry!Committed(v5, first), 0)
          /\ v8' = Odometry!Shown(v8, m.stamp, m.run)
          /\ v9' = Odometry!Live(first, first.est, m.place, v5.applied)
      BY <2>4, Zenon DEF Odometry!FromGraph
    <3>2. Sane(first) /\ first.stamp = m.stamp /\ first.run = m.run /\ first.epoch = 0
      BY <2>2 DEF Sane
    <3>3. v5.applied = 0
      BY <1>1, <2>4
    <3>. HIDE DEF first
    <3>. QED BY <2>3, <2>4, <3>1, <3>2, <3>3
  <2>5. ASSUME NEW k \in v5.keyframe, v6' = v6,
               v9' = Odometry!Live(k, Odometry!Carried(k, m.raw), m.place, v5.applied),
               UNCHANGED <<v5, v8>>
        PROVE  Odometry!LiveInv'
    <3>1. k.epoch \in Int /\ v5.applied \in Int /\ k.epoch >= v5.applied
      BY <1>1 DEF Sane
    <3>2. \A live \in v9'.live : live.epoch >= live.floor
      BY <1>7, <2>5, <3>1
    <3>. HIDE DEF Graphs, Worlds, Soon, Waits
    <3>. QED BY <1>1, <1>2, <1>4, <2>1, <2>5, <3>2
  <2>6. ASSUME NEW k \in v5.keyframe, v6' = v6, NEW next,
               next = [k EXCEPT !.raw = m.raw, !.est = Odometry!Carried(k, m.raw),
                                !.stamp = m.stamp, !.run = m.run],
               v5' = Odometry!Applied(Odometry!Committed(v5, next), next.epoch),
               v8' = Odometry!Shown(v8, m.stamp, m.run),
               v9' = Odometry!Live(next, next.est, m.place, v5.applied)
        PROVE  Odometry!LiveInv'
    <3>1. /\ Sane(next) /\ next.stamp = m.stamp /\ next.run = m.run /\ next.epoch = k.epoch
          /\ next.epoch \in Nat
      BY <1>1, <2>2, <2>6 DEF Sane
    <3>2. v5.applied <= next.epoch /\ next.epoch <= next.epoch
      BY <1>1, <3>1
    <3>. QED BY <2>3, <2>6, <3>1, <3>2
  <2>7. CASE Odometry!FromGraph(m) /\ v6' = v6
    BY <2>4, <2>5, <2>6, <2>7, Zenon DEF Odometry!FromGraph
  <2>8. CASE /\ v6' = {[m |-> m, floor |-> v5.applied]}
             /\ v9' = Odometry!Nothing /\ UNCHANGED <<v5, v8>>
    <3>1. \A c \in v6' : Waits(c) /\ c.floor <= v5'.applied
      BY <1>1, <2>8
    <3>. HIDE DEF Graphs, Worlds, Soon, Waits
    <3>. QED BY <1>1, <1>2, <1>4, <1>8, <2>1, <2>8, <3>1
  <2>. QED BY <2>1, <2>7, <2>8
<1>11. CASE Odometry!FromSnapshot
  <2>1. PICK c \in v6 :
          /\ v6' = {} /\ UNCHANGED <<v1, v2, v5, v8>>
          /\ v9' = IF v5.snapshot = {} THEN Odometry!Nothing
                   ELSE LET k == CHOOSE k \in v5.snapshot : TRUE
                        IN Odometry!Live(k, Odometry!Carried(k, c.m.raw), c.m.place, c.floor)
    BY <1>11, Zenon DEF Odometry!FromSnapshot
  <2>2. \A live \in v9'.live : live.epoch >= live.floor
    <3>1. CASE v5.snapshot = {}
      BY <1>8, <2>1, <3>1
    <3>2. CASE v5.snapshot # {}
      <4>1. PICK k \in v5.snapshot : k = CHOOSE j \in v5.snapshot : TRUE
        BY <3>2
      <4>2. v9' = Odometry!Live(k, Odometry!Carried(k, c.m.raw), c.m.place, c.floor)
        BY <2>1, <3>2, <4>1, Zenon
      <4>3. k.epoch \in Int /\ c.floor \in Int /\ k.epoch >= c.floor
        BY <1>1 DEF Sane
      <4>. QED BY <1>7, <4>2, <4>3
    <3>. QED BY <3>1, <3>2
  <2>. HIDE DEF Graphs, Worlds, Soon, Waits
  <2>. QED BY <1>1, <1>2, <1>4, <2>1, <2>2
<1>12. CASE Odometry!TakeFrame \/ Odometry!CheckSpan \/ Odometry!TimerBegins
  <2>1. v9' = Odometry!Nothing /\ UNCHANGED <<v1, v2, v5, v6, v8>>
    BY <1>12 DEF Odometry!TakeFrame, Odometry!CheckSpan, Odometry!TimerBegins
  <2>. HIDE DEF Graphs, Worlds, Soon, Waits
  <2>. QED BY <1>1, <1>2, <1>4, <1>8, <2>1
<1>13. CASE Odometry!PlaceFrame
  <2>1. PICK reference, placed :
          /\ v5' = [v5 EXCEPT !.reference = reference]
          /\ v9' = [Odometry!Nothing EXCEPT !.placed = placed]
          /\ UNCHANGED <<v1, v2, v6, v8>>
    BY <1>13, Zenon DEF Odometry!PlaceFrame
  <2>2. v9'.live = {}
    BY <2>1 DEF Odometry!Nothing
  <2>3. Graphs(v5') /\ v5'.keyframe = v5.keyframe /\ v5'.applied = v5.applied
    BY <1>1, <2>1
  <2>. HIDE DEF Graphs, Worlds, Soon, Waits
  <2>. QED BY <1>1, <1>2, <1>4, <2>1, <2>2, <2>3
<1>14. ASSUME NEW k \in v5.keyframe, NEW epoch \in Nat, k.epoch < epoch, NEW drift, NEW moved,
              moved = Odometry!Corrected(v5, epoch, drift)
       PROVE  /\ Sane(moved) /\ moved.epoch = epoch /\ moved.stamp = k.stamp
              /\ moved.run = k.run /\ v5.applied <= epoch
  <2>1. moved = [k EXCEPT !.est = k.raw + drift, !.drift = drift, !.epoch = epoch]
    BY <1>9, <1>14, Zenon DEF Odometry!Corrected
  <2>. QED BY <1>1, <1>14, <2>1 DEF Sane
<1>15. CASE Odometry!Register
  <2>1. v9' = Odometry!Nothing /\ UNCHANGED <<v1, v2, v6, v8>>
    BY <1>15 DEF Odometry!Register
  <2>2. CASE v5' = v5
    <3>. HIDE DEF Graphs, Worlds, Soon, Waits
    <3>. QED BY <1>1, <1>2, <1>4, <1>8, <2>1, <2>2
  <2>3. ASSUME NEW k \in v5.keyframe, NEW drift,
               v5' = Odometry!CommittedToGraph(v5, Odometry!Corrected(v5, k.epoch + 1, drift))
        PROVE  Odometry!LiveInv'
    <3>1. PICK moved : moved = Odometry!Corrected(v5, k.epoch + 1, drift)
      OBVIOUS
    <3>2. k.epoch + 1 \in Nat /\ k.epoch < k.epoch + 1
      BY <1>1 DEF Sane
    <3>3. /\ Sane(moved) /\ moved.epoch = k.epoch + 1 /\ moved.stamp = k.stamp
          /\ moved.run = k.run /\ v5.applied <= moved.epoch
      BY <1>14, <3>1, <3>2
    <3>4. v5' = [v5 EXCEPT !.keyframe = {moved}]
      BY <2>3, <3>1, Zenon DEF Odometry!CommittedToGraph
    <3>5. Graphs(v5') /\ v5'.keyframe = {moved} /\ v5'.applied = v5.applied
      BY <1>1, <3>3, <3>4
    <3>. HIDE DEF Graphs, Worlds, Soon, Waits
    <3>. QED BY <1>1, <1>2, <1>4, <1>8, <2>1, <3>3, <3>5
  <2>. QED BY <1>15, <2>2, <2>3 DEF Odometry!Register
<1>16. CASE Odometry!Optimize
  <2>1. v9' = Odometry!Nothing /\ UNCHANGED <<v1, v2, v6>>
    BY <1>16 DEF Odometry!Optimize
  <2>2. CASE UNCHANGED <<v5, v8>>
    <3>. HIDE DEF Graphs, Worlds, Soon, Waits
    <3>. QED BY <1>1, <1>2, <1>4, <1>8, <2>1, <2>2
  <2>3. ASSUME NEW k \in v5.keyframe, NEW drift, v8' = Odometry!Shown(v8, k.stamp, k.run),
               v5' = Odometry!Applied(Odometry!Optimized(v5, k.epoch + 1, drift), k.epoch + 1)
        PROVE  Odometry!LiveInv'
    <3>1. PICK moved : moved = Odometry!Corrected(v5, k.epoch + 1, drift)
      OBVIOUS
    <3>2. PICK epoch \in Nat : epoch = k.epoch + 1 /\ k.epoch < epoch /\ v5.applied <= k.epoch
      BY <1>1 DEF Sane
    <3>3. /\ Sane(moved) /\ moved.epoch = epoch /\ moved.stamp = k.stamp
          /\ moved.run = k.run
      BY <1>14, <3>1, <3>2
    <3>4. v5' = Odometry!Applied(Odometry!Committed(v5, moved), epoch)
      BY <2>3, <3>1, <3>2, Zenon DEF Odometry!Optimized
    <3>5. Graphs(v5') /\ v5'.keyframe = {moved} /\ v5'.applied = epoch
      BY <1>5, <3>2, <3>3, <3>4
    <3>6. k.stamp \in Int /\ k.run \in Int
      BY <1>1 DEF Sane
    <3>7. v8' \in Pictures /\ (v8'.run # k.run => Soon(k.stamp, v8'))
      BY <1>6, <2>3, <3>6
    <3>8. v5.applied <= epoch /\ \A c \in v6 : Waits(c) /\ c.floor <= epoch
      BY <1>1, <3>2, <3>3 DEF Sane
    <3>. HIDE DEF Graphs, Worlds, Soon, Waits
    <3>. QED BY <1>1, <1>4, <1>8, <2>1, <3>3, <3>5, <3>7, <3>8
  <2>. QED BY <1>16, <2>2, <2>3 DEF Odometry!Optimize
<1>17. CASE Odometry!InitialPoseBegins
  <2>1. /\ v1' = [v1 EXCEPT !.troubles = v1.troubles + 1]
        /\ v9' = Odometry!Nothing /\ UNCHANGED <<v2, v5, v6, v8>>
    BY <1>17, Zenon DEF Odometry!InitialPoseBegins
  <2>2. Worlds(v1') /\ v1'.run = v1.run
    BY <1>1, <2>1
  <2>. HIDE DEF Graphs, Worlds, Soon, Waits
  <2>. QED BY <1>1, <1>2, <1>4, <1>8, <2>1, <2>2
<1>18. CASE Odometry!RelocalizeAt
  <2>1. PICK raw, est, drift, anchor :
          /\ anchor = [raw |-> raw, stamp |-> v1.now, run |-> v1.run, est |-> est,
                       epoch |-> Odometry!Newest(v5) + 1, drift |-> drift]
          /\ v5' = Odometry!Applied(Odometry!Committed(v5, anchor), anchor.epoch)
          /\ v8' = Odometry!Shown(v8, v1.now, v1.run)
          /\ v9' = Odometry!Live(anchor, anchor.est, anchor.est, v5.applied)
          /\ UNCHANGED <<v1, v2, v6>>
    BY <1>18, Zenon DEF Odometry!RelocalizeAt
  <2>2. PICK epoch \in Nat : epoch = Odometry!Newest(v5) + 1 /\ v5.applied <= epoch
    <3>1. CASE v5.keyframe = {}
      <4>1. Odometry!Newest(v5) = 0 /\ v5.applied = 0
        BY <1>1, <3>1 DEF Odometry!Newest, Odometry!EpochOf
      <4>. QED BY <4>1
    <3>2. CASE v5.keyframe # {}
      <4>1. PICK k \in v5.keyframe : Odometry!Newest(v5) = k.epoch
        BY <1>9, <3>2, Zenon DEF Odometry!Newest, Odometry!EpochOf
      <4>. QED BY <1>1, <4>1 DEF Sane
    <3>. QED BY <3>1, <3>2
  <2>3. /\ Sane(anchor) /\ anchor.stamp = v1.now /\ anchor.run = v1.run
        /\ anchor.epoch = epoch
    BY <1>1, <2>1, <2>2 DEF Sane
  <2>4. Graphs(v5') /\ v5'.keyframe = {anchor} /\ v5'.applied = epoch
    BY <1>5, <2>1, <2>2, <2>3
  <2>5. v8' \in Pictures /\ (v8'.run # v1.run => Soon(v1.now, v8'))
    BY <1>1, <1>6, <2>1
  <2>6. \A live \in v9'.live : live.epoch >= live.floor
    <3>1. v5.applied \in Int /\ anchor.epoch \in Int /\ anchor.epoch >= v5.applied
      BY <1>1, <2>2, <2>3
    <3>. QED BY <1>7, <2>1, <3>1
  <2>7. v1.run <= v1.run /\ \A c \in v6 : Waits(c) /\ c.floor <= epoch
    BY <1>1, <2>2
  <2>. HIDE DEF Graphs, Worlds, Soon, Waits
  <2>. QED BY <1>1, <1>4, <2>1, <2>3, <2>4, <2>5, <2>6, <2>7
<1>19. CASE Odometry!HandleReset
  <2>1. PICK last \in Int, nought \in Nat :
          /\ nought = 0
          /\ v5' = [keyframe |-> {}, snapshot |-> {}, reference |-> {}, applied |-> nought]
          /\ v8' = [v8 EXCEPT !.last = last]
          /\ v6' = {[c EXCEPT !.floor = nought] : c \in v6}
          /\ v1' = [v1 EXCEPT !.troubles = v1.troubles + 1]
          /\ v9' = Odometry!Nothing /\ v2' = v2
    <3>1. PICK last \in Int, nought \in Nat : nought = 0 /\ last = -1
      OBVIOUS
    <3>. QED BY <1>19, <3>1, Zenon DEF Odometry!HandleReset, Odometry!Fresh
  <2>2. Graphs(v5') /\ v5'.keyframe = {} /\ v5'.applied = 0
    BY <2>1
  <2>3. Worlds(v1') /\ v1'.run = v1.run
    BY <1>1, <2>1
  <2>4. v8' \in Pictures
    BY <1>1, <2>1 DEF Pictures
  <2>5. \A c \in v6' : Waits(c) /\ c.floor = 0
    <3>1. \A c \in v6 : DOMAIN [c EXCEPT !.floor = nought] = {"m", "floor"}
                         /\ [c EXCEPT !.floor = nought].floor = nought
      <4>. HIDE DEF Graphs, Worlds
      <4>. QED BY <1>1
    <3>. HIDE DEF Graphs, Worlds
    <3>. QED BY <2>1, <3>1
  <2>. HIDE DEF Graphs, Worlds, Soon, Waits
  <2>. QED BY <1>1, <1>4, <1>8, <2>1, <2>2, <2>3, <2>4, <2>5
<1>20. CASE Odometry!Tick
  <2>1. PICK place, raw, troubles :
          /\ v1' = [v1 EXCEPT !.now = v1.now + 1, !.place = place, !.raw = raw,
                              !.troubles = troubles]
          /\ v2' = {} \/ v2' = {Odometry!CarState(v1')}
          /\ v9' = Odometry!Nothing /\ UNCHANGED <<v5, v6, v8>>
    <3>. DEFINE W(move, slip) == [v1 EXCEPT !.now = @ + 1, !.place = @ + move,
                                  !.raw = @ + move - slip, !.troubles = @ + slip]
    <3>. HIDE DEF Graphs, Worlds, Waits, Pictures, Soon, Sane
    <3>1. PICK move \in LiveMoves, slip \in 0 .. 1, lost \in 0 .. 1 :
            /\ v1' = W(move, slip)
            /\ v2' = IF lost = 1 THEN {} ELSE {Odometry!CarState(W(move, slip))}
      BY <1>20, ZenonT(30) DEF Odometry!Tick
    <3>2. v9' = Odometry!Nothing /\ UNCHANGED <<v5, v6, v8>>
      BY <1>20, Zenon DEF Odometry!Tick
    <3>3. v2' = {} \/ v2' = {Odometry!CarState(v1')}
      BY <3>1, Zenon
    <3>4. \E place, raw, troubles :
            v1' = [v1 EXCEPT !.now = v1.now + 1, !.place = place, !.raw = raw,
                             !.troubles = troubles]
      BY <3>1, Zenon
    <3>. QED BY <3>2, <3>3, <3>4, Zenon
  <2>2. Worlds(v1') /\ v1'.run = v1.run
    BY <1>1, <2>1
  <2>3. \A m \in v2' : m.stamp = v1'.now /\ m.run = v1'.run
    BY <2>1 DEF Odometry!CarState
  <2>4. \A m \in v2' : m.stamp \in Int /\ m.run \in Int /\ m.run <= v1'.run
    BY <2>2, <2>3
  <2>. HIDE DEF Graphs, Worlds, Soon, Waits
  <2>. QED BY <1>1, <1>2, <1>4, <1>8, <2>1, <2>2, <2>4
<1>21. CASE Odometry!ClockRollsBack
  <2>1. /\ v1' = [now |-> LiveRestart, place |-> 0, raw |-> 0, run |-> v1.run + 1,
                  troubles |-> v1.troubles + 1]
        /\ v2' = {Odometry!CarState(v1')}
        /\ v9' = Odometry!Nothing /\ UNCHANGED <<v5, v6, v8>>
    BY <1>21, Zenon DEF Odometry!ClockRollsBack
  <2>2. Worlds(v1') /\ v1'.run = v1.run + 1
    BY <1>1, <1>3, <2>1
  <2>3. \A m \in v2' : m.stamp = v1'.now /\ m.run = v1'.run
    BY <2>1 DEF Odometry!CarState
  <2>4. \A m \in v2' : m.stamp \in Int /\ m.run \in Int /\ m.run <= v1'.run
    BY <2>2, <2>3
  <2>5. \A k \in v5'.keyframe : k.run <= v1'.run /\ k.run # v1'.run
    <3>1. \A k \in v5.keyframe : k.run \in Int /\ k.run <= v1.run
      BY <1>1 DEF Sane
    <3>. QED BY <1>1, <2>1, <2>2, <3>1
  <2>. HIDE DEF Graphs, Worlds, Soon, Waits
  <2>. QED BY <1>1, <1>4, <1>8, <2>1, <2>2, <2>4, <2>5
<1>. QED BY <1>10, <1>11, <1>12, <1>13, <1>15, <1>16, <1>17, <1>18, <1>19, <1>20, <1>21
     DEF Odometry!OdometryNext

-----------------------------------------------------------------------------
(***************************************************************************)
(* The nodes of the sensors.                                               *)
(***************************************************************************)
SensorsInv ==
  /\ machine = "fusion" => Fusion!FusionInv
  /\ machine = "bridge" => Bridge!BridgeInv
  /\ machine = "wheels" => Wheels!WheelInv

\* Every cluster of a cloud is published once and no cone twice, whatever the boxes, the
\* transforms and the stereo images are; the bridge's odometry owns up to the motion it has missed and its anchor comes back, and
\* the wheel odometry counts no time twice: for every timeout, holdoff and speed.
THEOREM SensorsAreHonest == ScenesSpec => []SensorsHonest
<1>1. FusionAssumption /\ BridgeAssumption /\ WheelsAssumption
  BY BoundsFit DEF BoundsFit
<1>2. ScenesInit => SensorsInv
  BY <1>1, FusionStart, BridgeStart, WheelsStart DEF ScenesInit, SensorsInv
<1>3. SensorsInv /\ [ScenesNext]_sceneVars => SensorsInv'
  <2>. SUFFICES ASSUME SensorsInv, [ScenesNext]_sceneVars PROVE SensorsInv'
    OBVIOUS
  <2>1. machine' = machine
    BY MachineStays
  <2>2. ASSUME machine = "bridge" PROVE Bridge!BridgeInv'
    <3>1. Bridge!BridgeInv /\ (Bridge!BridgeNext \/ UNCHANGED sceneVars)
      BY <2>2 DEF SensorsInv, ScenesNext
    <3>2. CASE UNCHANGED sceneVars
      BY <3>1, <3>2, SlotsStay
      DEF Bridge!BridgeInv, Bridge!MotionInv, Bridge!AnchorInv, Bridge!Counted,
          Bridge!MissedMotionOwned, Bridge!AnchorReturns
    <3>. QED BY <1>1, <3>1, <3>2, BridgeKeep
  <2>3. ASSUME machine = "wheels" PROVE Wheels!WheelInv'
    <3>1. Wheels!WheelInv /\ (Wheels!WheelNext \/ UNCHANGED sceneVars)
      BY <2>3 DEF SensorsInv, ScenesNext
    <3>2. CASE UNCHANGED sceneVars
      BY <3>1, <3>2, SlotsStay DEF Wheels!WheelInv
    <3>. QED BY <1>1, <3>1, <3>2, WheelsKeep
  <2>4. ASSUME machine = "fusion" PROVE Fusion!FusionInv'
    <3>1. Fusion!FusionInv /\ (Fusion!FusionNext \/ UNCHANGED sceneVars)
      BY <2>4 DEF SensorsInv, ScenesNext
    <3>2. CASE UNCHANGED sceneVars
      BY <3>1, <3>2, SlotsStay DEF Fusion!FusionInv, Fusion!BackboneStands, Fusion!EachConeOnce
    <3>. QED BY <1>1, <3>1, <3>2, FusionKeep
  <2>. QED BY <2>1, <2>2, <2>3, <2>4 DEF SensorsInv
<1>4. SensorsInv => SensorsHonest
  BY WheelsCount DEF SensorsInv, SensorsHonest, Bridge!BridgeInv, Fusion!FusionInv
<1>. QED BY <1>2, <1>3, <1>4, PTL DEF ScenesSpec

-----------------------------------------------------------------------------
(***************************************************************************)
(* The nodes that plan and drive.                                          *)
(***************************************************************************)
InputsInv ==
  /\ machine = "inputs" => Latches!LocalInv
  /\ machine = "cycle" => Cycle!CycleInv

\* The local planner plans on no map of a run before the one it knows of, however often
\* SLAM restarts and however late its maps are; the solver, once settled, drives on a
\* pair or two that follow each other and on inputs that are all present, however long
\* each of them is silent and whatever the timeouts are.
THEOREM InputsArePresent == ScenesSpec => []InputsPresent
<1>1. Cycle!CycleAssumption
  BY BoundsFit DEF BoundsFit
<1>2. ScenesInit => InputsInv
  BY <1>1, LocalStart, CycleStart DEF ScenesInit, InputsInv
<1>3. InputsInv /\ [ScenesNext]_sceneVars => InputsInv'
  <2>. SUFFICES ASSUME InputsInv, [ScenesNext]_sceneVars PROVE InputsInv'
    OBVIOUS
  <2>1. machine' = machine
    BY MachineStays
  <2>2. ASSUME machine = "inputs" PROVE Latches!LocalInv'
    <3>1. Latches!LocalInv /\ (Latches!LocalInputsNext \/ UNCHANGED sceneVars)
      BY <2>2 DEF InputsInv, ScenesNext
    <3>2. CASE UNCHANGED sceneVars
      BY <3>1, <3>2, SlotsStay
      DEF Latches!LocalInv, Latches!LocalTypes, Latches!FencedInv, Latches!PlansOnPresentMap
    <3>. QED BY <3>1, <3>2, LocalKeep
  <2>3. ASSUME machine = "cycle" PROVE Cycle!CycleInv'
    <3>1. Cycle!CycleInv /\ (Cycle!CycleNext \/ UNCHANGED sceneVars)
      BY <2>3 DEF InputsInv, ScenesNext
    <3>2. CASE UNCHANGED sceneVars
      BY <3>1, <3>2, SlotsStay DEF Cycle!CycleInv, Cycle!PairInv, Cycle!PresentInv, Cycle!PoseInv, Cycle!SettleInv, Cycle!CycleTypes, Cycle!DrivesOnPresent, Cycle!PairsFollow, Cycle!SettlesFirst
    <3>. QED BY <1>1, <3>1, <3>2, CycleKeep
  <2>. QED BY <2>1, <2>2, <2>3 DEF InputsInv
<1>4. InputsInv => InputsPresent
  BY DEF InputsInv, InputsPresent, Latches!LocalInv, Cycle!CycleInv, Cycle!PairInv, Cycle!PresentInv, Cycle!PoseInv, Cycle!SettleInv, Cycle!CycleTypes
<1>. QED BY <1>2, <1>3, <1>4, PTL DEF ScenesSpec

StopsInv ==
  /\ machine = "vehicle" => Vehicle!VehicleInv
  /\ machine = "inspection" => Inspection!InspectionInv

\* A car that may not drive stops being driven once its commands have timed out and the
\* delayed ones are through, for every delay and timeout; the verdict of a brake test is
\* true of the axle, for every limit, hold time and profile.
THEOREM StopsAreHeld == ScenesSpec => []StopsHold
<1>1. VehicleAssumption /\ InspectionAssumption
  BY BoundsFit DEF BoundsFit
<1>2. ScenesInit => StopsInv
  BY <1>1, VehicleStart, InspectionStart DEF ScenesInit, StopsInv
<1>3. StopsInv /\ [ScenesNext]_sceneVars => StopsInv'
  <2>. SUFFICES ASSUME StopsInv, [ScenesNext]_sceneVars PROVE StopsInv'
    OBVIOUS
  <2>1. machine' = machine
    BY MachineStays
  <2>2. ASSUME machine = "vehicle" PROVE Vehicle!VehicleInv'
    <3>1. Vehicle!VehicleInv /\ (Vehicle!VehicleNext \/ UNCHANGED sceneVars)
      BY <2>2 DEF StopsInv, ScenesNext
    <3>2. CASE UNCHANGED sceneVars
      BY <3>1, <3>2, SlotsStay
      DEF Vehicle!VehicleInv, Vehicle!QueueInv, Vehicle!DrivenInv, Vehicle!StopsBeingDriven
    <3>. QED BY <1>1, <3>1, <3>2, VehicleKeep
  <2>3. ASSUME machine = "inspection" PROVE Inspection!InspectionInv'
    <3>1. Inspection!InspectionInv /\ (Inspection!InspectionNext \/ UNCHANGED sceneVars)
      BY <2>3 DEF StopsInv, ScenesNext
    <3>2. CASE UNCHANGED sceneVars
      BY <3>1, <3>2, SlotsStay DEF Inspection!InspectionInv, Inspection!VerdictTrue
    <3>. QED BY <1>1, <3>1, <3>2, InspectionKeep
  <2>. QED BY <2>1, <2>2, <2>3 DEF StopsInv
<1>4. StopsInv => StopsHold
  BY DEF StopsInv, StopsHold, Vehicle!VehicleInv, Inspection!InspectionInv
<1>. QED BY <1>2, <1>3, <1>4, PTL DEF ScenesSpec

LivePoseInv == machine = "odometry" => Odometry!LiveInv

\* The live pose carries every correction that was applied before its callback began,
\* whoever held the graph meanwhile, and a clock that goes back does not stop the map: for
\* every movement, delay, horizon, keyframe distance and interval.
THEOREM LivePoseIsKept == ScenesSpec => []LivePoseKept
<1>1. LiveAssumption
  BY BoundsFit DEF BoundsFit
<1>2. ScenesInit => LivePoseInv
  BY LiveStart DEF ScenesInit, LivePoseInv
<1>3. LivePoseInv /\ [ScenesNext]_sceneVars => LivePoseInv'
  <2>. SUFFICES ASSUME LivePoseInv, [ScenesNext]_sceneVars, machine = "odometry"
                PROVE  Odometry!LiveInv'
    BY MachineStays DEF LivePoseInv
  <2>1. Odometry!LiveInv /\ (Odometry!OdometryNext \/ UNCHANGED sceneVars)
    BY DEF LivePoseInv, ScenesNext
  <2>2. CASE UNCHANGED sceneVars
    BY <2>1, <2>2, SlotsStay
    DEF Odometry!LiveInv, Odometry!KeyframeTypes, Odometry!LiveNeverReverts,
        Odometry!MapShownAgain
  <2>. QED BY <1>1, <2>1, <2>2, LiveKeep
<1>4. LivePoseInv => LivePoseKept
  BY DEF LivePoseInv, LivePoseKept, Odometry!LiveInv
<1>. QED BY <1>2, <1>3, <1>4, PTL DEF ScenesSpec
=============================================================================
