-------------------------- MODULE TimerWheelProofs --------------------------
(***************************************************************************)
(* Theorems about TimerWheel, for wheels of any number and size and a      *)
(* clock of any granularity.                                               *)
(*                                                                         *)
(* The wheels are an odometer: there are times at which each of them turns *)
(* next, a wheel's with the last spoke of the one below (Odometer).  From  *)
(* these times follows when a timer's spoke comes up, and that depends on  *)
(* nothing but where the timer was dealt: DealtInTime says it is not later *)
(* than its event, DealtLate that it is not much earlier.                  *)
(***************************************************************************)
EXTENDS TimerWheel, FiniteSetTheorems, WellFoundedInduction, TLAPS

-----------------------------------------------------------------------------
(* Arithmetic. *)

\* A number is quotient times divisor plus remainder.
LEMMA DivModIdentity ==
    ASSUME NEW a \in Int, NEW b \in Int, b > 0
    PROVE  \A q \in Int, r \in Int : q = a \div b /\ r = a % b => a = b * q + r
OBVIOUS

\* The same, with the ranges of quotient and remainder.
LEMMA DivMod ==
    ASSUME NEW a \in Int, NEW b \in Nat \ {0}
    PROVE  \E q \in Int, r \in 0..(b - 1) :
               /\ q = a \div b /\ r = a % b /\ a = b * q + r
               /\ a \in Nat => q \in Nat /\ r <= a /\ b * q <= a
<1>1. a \div b \in Int /\ a % b \in 0..(b - 1)
  OBVIOUS
<1>2. a \in Nat => a \div b \in Nat /\ a % b <= a
  OBVIOUS
<1>3. \A q \in Int, r \in Int : q = a \div b /\ r = a % b => a = b * q + r
  BY DivModIdentity
<1>4. PICK q \in Int, r \in 0..(b - 1) : q = a \div b /\ r = a % b
  BY <1>1
<1>5. r \in Int
  OBVIOUS
<1>6. a = b * q + r
  BY <1>3, <1>4, <1>5, Zenon
<1>7. a \in Nat => q \in Nat /\ r <= a
  BY <1>2, <1>4, Zenon
<1>8. a \in Nat => b * q <= a
  BY <1>6
<1> QED
  BY <1>4, <1>6, <1>7, <1>8, Zenon

\* The quotient is the only number between whose multiples a lies.
LEMMA Quotient ==
    ASSUME NEW a \in Int, NEW b \in Nat \ {0}, NEW q \in Int, b * q <= a, a < b * q + b
    PROVE  a \div b = q
OBVIOUS

\* Multiplying keeps the order.
LEMMA Multiply ==
    ASSUME NEW a \in Int, NEW c \in Int, NEW b \in Nat, a <= c
    PROVE  a * b <= c * b
OBVIOUS

\* Going x spokes on from spoke k of a wheel of S spokes takes at most x turns
\* of a spoke, and x if that is not once round.
LEMMA GoingOn ==
    ASSUME NEW x \in Nat, NEW S \in Nat \ {0}, NEW k \in 0..(S - 1)
    PROVE  \E s \in 0..(S - 1), a \in 0..x :
               /\ s = (x + k) % S /\ a = IF s >= k THEN s - k ELSE s - k + S
               /\ x < S => a = x
<1>1. PICK q \in Nat, s \in 0..(S - 1) : s = (x + k) % S /\ x + k = S * q + s
  <2>1. x + k \in Nat /\ x + k \in Int
    OBVIOUS
  <2>2. PICK q \in Int, s \in 0..(S - 1) : s = (x + k) % S /\ x + k = S * q + s /\ q \in Nat
    BY <2>1, DivMod, Zenon
  <2> QED
    BY <2>2, Zenon
<1>2. PICK a \in Int : a = IF s >= k THEN s - k ELSE s - k + S
  <2>1. (IF s >= k THEN s - k ELSE s - k + S) \in Int
    OBVIOUS
  <2> QED
    BY <2>1, Zenon
<1>3. a \in 0..x /\ (x < S => a = x)
  <2>1. x + k = S * q + s
    BY <1>1
  <2>2. CASE q = 0
    BY <1>2, <2>1, <2>2
  <2>3. CASE q = 1
    BY <1>2, <2>1, <2>3
  <2>4. CASE q >= 2
    <3>1. 2 * S <= q * S /\ q * S = S * q
      BY <2>4, Multiply
    <3>2. x + k >= 2 * S + s
      BY <2>1, <3>1
    <3> QED
      BY <1>2, <3>2
  <2> QED
    BY <2>2, <2>3, <2>4
<1> QED
  BY <1>1, <1>2, <1>3, Zenon

\* The spokes of a higher wheel, as addTimerNode counts them.
LEMMA HigherSpoke ==
    ASSUME NEW i \in Nat, NEW T \in Nat \ {0}, NEW k \in Nat, T <= i
    PROVE  \E d \in Nat \ {0} : d * T <= i /\ (i - T + k * T) \div T = (d - 1) + k
<1>1. PICK d \in Nat : d = i \div T /\ T * d <= i /\ i < T * d + T
  <2>1. PICK q \in Int, r \in 0..(T - 1) :
            q = i \div T /\ i = T * q + r /\ q \in Nat /\ T * q <= i
    BY DivMod
  <2>2. i < T * q + T
    BY <2>1
  <2> QED
    BY <2>1, <2>2
<1>2. d # 0
  BY <1>1
<1>3. (i - T + k * T) \div T = (d - 1) + k
  <2>1. T * ((d - 1) + k) = T * d - T + k * T
    BY <1>1
  <2>2. i - T + k * T \in Int /\ (d - 1) + k \in Int
    BY <1>1
  <2>3. T * ((d - 1) + k) <= i - T + k * T /\ i - T + k * T < T * ((d - 1) + k) + T
    BY <1>1, <2>1
  <2> QED
    BY <2>2, <2>3, Quotient
<1>4. d \in Nat \ {0} /\ d * T <= i
  BY <1>1, <1>2
<1> QED
  BY <1>3, <1>4, Zenon

\* The wheels, their sizes and periods.
LEMMA Wheels ==
    /\ 0 \in Wheel /\ \A w \in Wheel : w \in Nat /\ Size(w) \in Nat \ {0} /\ Period(w) \in Nat \ {0}
    /\ Size(0) = Size1 /\ Period(0) = Granularity /\ Threshold(0) = 0
    /\ \A w \in Wheel : w # 0 => /\ Threshold(w) \in Nat \ {0} /\ Size(w) = Size2
                                 /\ Period(w) = Threshold(w) * Granularity
    /\ \A w \in Wheel : w + 1 \in Wheel => Period(w + 1) = Period(w) * Size(w)
    /\ Intervals \in Nat \ {0}
    /\ 1 \in Wheel => Threshold(1) = Size1
    /\ 1 \notin Wheel => Intervals = Size1
<1> USE TimerAssumption
<1>1. \A n \in 0..WheelNum : Size2 ^ n \in Nat \ {0} /\ Size2 ^ (n + 1) = Size2 ^ n * Size2
  BY PowerAssumption
<1>2. Size2 ^ 0 = 1
  BY PowerAssumption
<1>3. ASSUME NEW w \in Wheel, w # 0
      PROVE  /\ Threshold(w) \in Nat \ {0} /\ Size(w) = Size2
             /\ Period(w) = Threshold(w) * Granularity
             /\ Threshold(w + 1) = Threshold(w) * Size2
  <2>1. w - 1 \in 0..WheelNum /\ (w - 1) + 1 = w /\ (w + 1) - 1 = w /\ w + 1 # 0
    BY <1>3 DEF Wheel
  <2>2. PICK p \in Nat \ {0} : p = Size2 ^ (w - 1) /\ Size2 ^ w = p * Size2
    BY <1>1, <2>1
  <2>3. Threshold(w) = Size1 * p /\ Threshold(w + 1) = Size1 * (p * Size2)
    BY <1>3, <2>1, <2>2 DEF Threshold
  <2>4. Size1 * p \in Nat \ {0} /\ Size1 * (p * Size2) = (Size1 * p) * Size2
    BY <2>2
  <2> QED
    BY <1>3, <2>3, <2>4 DEF Size, Period
<1>4. Threshold(1) = Size1
  BY <1>2 DEF Threshold
<1>5. \A w \in Wheel : w \in Nat /\ Size(w) \in Nat \ {0} /\ Period(w) \in Nat \ {0}
  <2> SUFFICES ASSUME NEW w \in Wheel PROVE w \in Nat /\ Size(w) \in Nat \ {0} /\ Period(w) \in Nat \ {0}
    OBVIOUS
  <2>1. CASE w = 0
    BY <2>1 DEF Wheel, Size, Period
  <2>2. CASE w # 0
    <3>1. Threshold(w) * Granularity \in Nat \ {0}
      BY <1>3, <2>2
    <3> QED
      BY <1>3, <2>2, <3>1 DEF Wheel
  <2> QED
    BY <2>1, <2>2
<1>6. ASSUME NEW w \in Wheel, w + 1 \in Wheel
      PROVE  Period(w + 1) = Period(w) * Size(w)
  <2>1. Period(w + 1) = Threshold(w + 1) * Granularity
    BY <1>5 DEF Period
  <2>2. CASE w = 0
    BY <1>4, <2>1, <2>2 DEF Period, Size
  <2>3. CASE w # 0
    <3>1. PICK T \in Nat : T = Threshold(w)
      BY <1>3, <2>3
    <3>2. (T * Size2) * Granularity = (T * Granularity) * Size2
      BY <3>1
    <3> QED
      BY <1>3, <2>1, <2>3, <3>1, <3>2
  <2> QED
    BY <2>2, <2>3
<1>7. Intervals \in Nat \ {0}
  <2>1. WheelNum - 1 \in 0..WheelNum
    OBVIOUS
  <2>2. PICK p \in Nat \ {0} : p = Size2 ^ (WheelNum - 1)
    BY <1>1, <2>1
  <2> QED
    BY <2>2 DEF Intervals
<1>8. 1 \notin Wheel => Intervals = Size1
  <2>1. 1 \notin Wheel => WheelNum - 1 = 0
    BY DEF Wheel
  <2> QED
    BY <1>2, <2>1 DEF Intervals
<1> QED
  BY <1>3, <1>4, <1>5, <1>6, <1>7, <1>8 DEF Wheel, Size, Period, Threshold

\* The last wheel whose first interval is not beyond i: the least of the sets
\* w..n of wheels.
LEMMA LastWheel ==
    ASSUME NEW n \in Nat, NEW T \in SUBSET (0..n), T # {}
    PROVE  \E w \in T : \A v \in T : v <= w
<1> DEFINE From == {w..n : w \in T}
<1>1. IsFiniteSet(0..n)
  BY FS_Interval
<1>2. FiniteSubsetsOf(0..n) = SUBSET (0..n)
  BY <1>1, FS_FiniteSubsetsOfFinite
<1>3. IsWellFoundedOn(StrictSubsetOrdering(0..n), FiniteSubsetsOf(0..n))
  BY FS_StrictSubsetOrderingWellFounded
<1>4. From \subseteq SUBSET (0..n) /\ From # {}
  <2>1. \A w \in T : w..n \in SUBSET (0..n)
    OBVIOUS
  <2>2. PICK w : w \in T
    OBVIOUS
  <2>3. w..n \in From
    BY <2>2
  <2> QED
    BY <2>1, <2>3
<1>5. PICK X \in From : \A Y \in From : ~ (<<Y, X>> \in StrictSubsetOrdering(0..n))
  <2> HIDE DEF From
  <2> QED
    BY <1>2, <1>3, <1>4, WFMin
<1>6. PICK w \in T : X = w..n
  BY <1>5
<1>7. ASSUME NEW v \in T PROVE v <= w
  <2>1. v \in 0..n /\ w \in 0..n /\ v..n \in From
    OBVIOUS
  <2>2. ~ (<<v..n, w..n>> \in StrictSubsetOrdering(0..n))
    BY <2>1, <1>5, <1>6
  <2>3. SUFFICES ASSUME w < v PROVE FALSE
    BY <2>1
  <2>4. v..n \subseteq w..n /\ v..n # w..n /\ v..n \in SUBSET (0..n) /\ w..n \in SUBSET (0..n)
    <3>1. w \in w..n /\ w \notin v..n
      BY <2>1, <2>3
    <3> QED
      BY <2>1, <2>3, <3>1
  <2> QED
    BY <2>2, <2>4 DEF StrictSubsetOrdering
<1> QED
  BY <1>7

\* The thresholds of addTimerNode leave no interval without a wheel.
LEMMA WheelFound ==
    ASSUME NEW i \in Nat
    PROVE  /\ WheelOf(i) \in Wheel /\ Threshold(WheelOf(i)) <= i
           /\ WheelOf(i) + 1 \in Wheel => i < Threshold(WheelOf(i) + 1)
<1> DEFINE T == {w \in Wheel : Threshold(w) <= i}
<1>1. 0 \in T /\ WheelNum - 1 \in Nat /\ T \in SUBSET (0..(WheelNum - 1))
  BY Wheels, TimerAssumption DEF Wheel
<1>2. PICK w \in T : \A v \in T : v <= w
  <2> HIDE DEF T
  <2> QED
    BY <1>1, LastWheel
<1>3. w + 1 \in Wheel => i < Threshold(w + 1)
  <2> SUFFICES ASSUME w + 1 \in Wheel, Threshold(w + 1) <= i PROVE FALSE
    BY Wheels
  <2>1. w + 1 \in T
    OBVIOUS
  <2>2. w + 1 <= w /\ w \in Nat
    BY <1>2, <2>1, Wheels
  <2> QED
    BY <2>2
<1> QED
  BY <1>2, <1>3 DEF WheelOf
-----------------------------------------------------------------------------
(* addTimerNode. *)

Indices == spokeindex \in [Wheel -> Nat] /\ \A w \in Wheel : spokeindex[w] < Size(w)

\* The spoke of a higher wheel is d - 1 on from the current one, for a d
\* whose thresholds fit in the interval.
LEMMA HigherSpokeOf ==
    ASSUME NEW w \in Wheel, w # 0, NEW i \in Nat, Threshold(w) <= i, spokeindex'[w] \in Nat
    PROVE  \E d \in Nat \ {0} :
               d * Threshold(w) <= i /\ SpokeOf(w, i) = ((d - 1) + spokeindex'[w]) % Size2
<1>1. Threshold(w) \in Nat \ {0}
  BY Wheels
<1>2. PICK d \in Nat \ {0} : /\ d * Threshold(w) <= i
                             /\ (i - Threshold(w) + spokeindex'[w] * Threshold(w)) \div Threshold(w)
                                    = (d - 1) + spokeindex'[w]
  BY <1>1, HigherSpoke, Zenon
<1>3. SpokeOf(w, i) = ((i - Threshold(w) + spokeindex'[w] * Threshold(w)) \div Threshold(w)) % Size2
  BY Zenon DEF SpokeOf
<1> QED
  BY <1>2, <1>3, Zenon

\* The interval that addTimerNode computes of a time is at most that time, and
\* not more than a spoke less if the wheels cover it.
LEMMA IntervalOf ==
    ASSUME NEW ms \in Int
    PROVE  \E i \in 0..(Intervals - 1) :
               /\ i = ((ms % TimeMod) \div Granularity) % Intervals
               /\ ms \in Nat => i * Granularity <= ms
               /\ ms \in Nat /\ ms < Intervals * Granularity /\ Intervals * Granularity <= TimeMod
                      => ms < i * Granularity + Granularity
<1>1. Granularity \in Nat \ {0} /\ Intervals \in Nat \ {0} /\ TimeMod \in Nat \ {0}
  BY Wheels, TimerAssumption
<1>2. PICK q1 \in Int, r1 \in 0..(TimeMod - 1) :
          /\ r1 = ms % TimeMod /\ ms = TimeMod * q1 + r1
          /\ ms \in Nat => q1 \in Nat /\ r1 <= ms
  BY <1>1, DivMod, Zenon
<1>3. r1 \in Int /\ r1 \in Nat
  BY <1>1, <1>2
<1>4. PICK q2 \in Int, r2 \in 0..(Granularity - 1) :
          q2 = r1 \div Granularity /\ r1 = Granularity * q2 + r2 /\ q2 \in Nat /\ Granularity * q2 <= r1
  BY <1>1, <1>3, DivMod, Zenon
<1>5. PICK q3 \in Int, i \in 0..(Intervals - 1) :
          i = q2 % Intervals /\ q2 = Intervals * q3 + i /\ q3 \in Nat /\ i <= q2
  <2>1. q2 \in Int /\ q2 \in Nat
    BY <1>4
  <2> QED
    BY <1>1, <2>1, DivMod, Zenon
<1>6. i = ((ms % TimeMod) \div Granularity) % Intervals
  BY <1>2, <1>4, <1>5, Zenon
<1>7. PICK G \in Nat, N \in Nat, M \in Nat : G = Granularity /\ N = Intervals /\ M = TimeMod
  BY <1>1
<1>8. /\ r2 < G /\ r2 >= 0 /\ r2 \in Int /\ G > 0 /\ N > 0 /\ M > 0 /\ i \in Nat
      /\ r1 = G * q2 + r2 /\ ms = M * q1 + r1 /\ q2 = N * q3 + i
  <2>1. G # 0 /\ N # 0 /\ M # 0 /\ r2 \in 0..(G - 1) /\ i \in 0..(N - 1)
    BY <1>1, <1>4, <1>5, <1>7, Zenon
  <2>2. r1 = G * q2 + r2 /\ ms = M * q1 + r1 /\ q2 = N * q3 + i
    BY <1>2, <1>4, <1>5, <1>7, Zenon
  <2> QED
    BY <2>1, <2>2
<1>9. ms \in Nat => i * G <= ms
  <2>1. i * G <= q2 * G
    BY <1>4, <1>5, <1>8, Multiply
  <2>2. q2 * G = G * q2 /\ G * q2 <= r1
    BY <1>4, <1>7, <1>8
  <2> QED
    BY <1>2, <1>3, <1>8, <2>1, <2>2
<1>10. ASSUME ms \in Nat, ms < N * G, N * G <= M PROVE ms < i * G + G
  <2>1. q1 \in Nat /\ r1 \in Nat
    BY <1>2, <1>3, <1>10
  <2>2. q1 = 0
    <3>1. SUFFICES ASSUME 1 <= q1 PROVE FALSE
      BY <2>1
    <3>2. 1 * M <= q1 * M
      BY <2>1, <3>1, Multiply
    <3> QED
      BY <1>8, <1>10, <2>1, <3>2
  <2>3. ms = G * q2 + r2
    BY <1>8, <2>1, <2>2
  <2>4. q3 = 0
    <3>1. SUFFICES ASSUME 1 <= q3 PROVE FALSE
      BY <1>5
    <3>2. 1 * N <= q3 * N
      BY <1>5, <3>1, Multiply
    <3>3. N <= q2
      BY <1>5, <1>8, <3>2
    <3>4. N * G <= q2 * G
      BY <1>4, <3>3, Multiply
    <3>5. q2 * G = G * q2 /\ G * q2 \in Int
      BY <1>4
    <3>6. G * q2 <= ms
      BY <1>8, <2>3, <3>5
    <3> QED
      BY <1>10, <3>4, <3>5, <3>6
  <2>5. q2 = i
    BY <1>5, <1>8, <2>4
  <2> QED
    BY <1>8, <2>3, <2>5
<1> QED
  BY <1>6, <1>7, <1>9, <1>10

\* A timer is dealt to a spoke that is turned by its time, a higher wheel's a
\* turn of that wheel before; and to a spoke of wheel 0 only if it is turned
\* not more than a spoke before.
LEMMA Dealt ==
    ASSUME Indices', NEW ms \in Int
    PROVE  \E w \in Wheel, s \in Nat, a \in Nat :
               /\ Node(ms) = <<w, s>> /\ s < Size(w) /\ a = Ahead(w, s)'
               /\ ms \in Nat => a * Period(w) + (IF w = 0 THEN 0 ELSE Period(w)) <= ms
               /\ ms \in Nat /\ ms < Intervals * Granularity /\ Intervals * Granularity <= TimeMod
                      => (w = 0 => ms < a * Granularity + Granularity)
<1>1. PICK i \in 0..(Intervals - 1) :
          /\ i = ((ms % TimeMod) \div Granularity) % Intervals
          /\ ms \in Nat => i * Granularity <= ms
          /\ ms \in Nat /\ ms < Intervals * Granularity /\ Intervals * Granularity <= TimeMod
                 => ms < i * Granularity + Granularity
  BY IntervalOf
<1>2. i \in Nat /\ Intervals \in Nat \ {0} /\ i < Intervals
  BY Wheels
<1>3. PICK w \in Wheel : /\ w = WheelOf(i) /\ Threshold(w) <= i
                         /\ w + 1 \in Wheel => i < Threshold(w + 1)
  BY <1>2, WheelFound, Zenon
<1>4. PICK s : s = SpokeOf(w, i)
  OBVIOUS
<1>5. Node(ms) = <<w, s>>
  BY <1>1, <1>3, <1>4 DEF Node
<1>6. PICK k \in Nat : k = spokeindex'[w] /\ k \in 0..(Size(w) - 1)
  <2>1. spokeindex'[w] \in Nat /\ spokeindex'[w] < Size(w) /\ Size(w) \in Nat
    BY Wheels DEF Indices
  <2> QED
    BY <2>1
<1>7. PICK S \in Nat \ {0}, P \in Nat \ {0}, G \in Nat \ {0} : S = Size(w) /\ P = Period(w) /\ G = Granularity
  BY Wheels, TimerAssumption
<1>8. Ahead(w, s)' = IF s >= k THEN s - k ELSE s - k + S
  BY <1>6, <1>7 DEF Ahead
<1>9. CASE w = 0
  <2>1. s = (i + k) % S /\ P = G
    BY <1>4, <1>6, <1>7, <1>9, Wheels DEF SpokeOf
  <2>2. i < S
    <3>1. 1 \in Wheel => i < Size1
      BY <1>3, <1>9, Wheels
    <3>2. 1 \notin Wheel => i < Size1
      BY <1>2, Wheels
    <3> QED
      BY <1>7, <1>9, <3>1, <3>2, Wheels
  <2>3. PICK a \in Nat : a = Ahead(w, s)' /\ a = i /\ s \in 0..(S - 1)
    <3>1. k \in 0..(S - 1)
      BY <1>6, <1>7
    <3>2. PICK r \in 0..(S - 1), a \in 0..i :
              /\ r = (i + k) % S /\ a = IF r >= k THEN r - k ELSE r - k + S
              /\ i < S => a = i
      BY <1>2, <3>1, GoingOn, Zenon
    <3> QED
      BY <1>2, <1>8, <2>1, <2>2, <3>2, Zenon
  <2>4. s \in Nat /\ s < Size(w)
    BY <1>7, <2>3
  <2> QED
    BY <1>1, <1>2, <1>5, <1>7, <1>9, <2>1, <2>3, <2>4
<1>10. CASE w # 0
  <2>1. PICK T \in Nat \ {0} : T = Threshold(w) /\ P = T * G /\ S = Size2 /\ T <= i
    BY <1>3, <1>7, <1>10, Wheels
  <2>2. PICK d \in Nat \ {0} : d * T <= i /\ SpokeOf(w, i) = ((d - 1) + k) % Size2
    BY <1>2, <1>6, <1>10, <2>1, HigherSpokeOf
  <2>3. s = ((d - 1) + k) % S
    BY <1>4, <2>1, <2>2, Zenon
  <2>4. PICK a \in Nat : a = Ahead(w, s)' /\ a <= d - 1 /\ s \in 0..(S - 1)
    <3>1. PICK x \in Nat : x = d - 1
      OBVIOUS
    <3>2. k \in 0..(S - 1) /\ s = (x + k) % S
      BY <1>6, <1>7, <2>3, <3>1, Zenon
    <3>3. PICK r \in 0..(S - 1), a \in 0..x : 
              /\ r = (x + k) % S /\ a = IF r >= k THEN r - k ELSE r - k + S
              /\ x < S => a = x
      BY <3>2, GoingOn, Zenon
    <3>4. a = Ahead(w, s)' /\ s \in 0..(S - 1)
      BY <1>8, <3>2, <3>3, Zenon
    <3>5. a \in Nat /\ a <= d - 1
      BY <3>1
    <3> QED
      BY <3>4, <3>5, Zenon
  <2>5. s \in Nat /\ s < Size(w)
    BY <1>7, <2>4
  <2>6. a * P + P <= i * G
    <3>1. (a + 1) * P <= d * P
      BY <2>4, Multiply
    <3>2. (d * T) * G <= i * G
      BY <1>2, <2>2, Multiply
    <3>3. d * P = (d * T) * G /\ (a + 1) * P = a * P + P
      BY <2>1
    <3> QED
      BY <1>2, <2>1, <3>1, <3>2, <3>3
  <2>7. ms \in Nat => a * Period(w) + Period(w) <= ms
    BY <1>1, <1>2, <1>7, <2>6
  <2> QED
    BY <1>5, <1>10, <2>4, <2>5, <2>7
<1> QED
  BY <1>9, <1>10

\* A timer is dealt to a spoke that exists.
LEMMA NodeInSpoke ==
    ASSUME Indices', NEW ms \in Int
    PROVE  Node(ms) \in Spoke
<1>1. PICK w \in Wheel, s \in Nat : Node(ms) = <<w, s>> /\ s < Size(w)
  BY Dealt
<1> QED
  BY <1>1 DEF Spoke

-----------------------------------------------------------------------------
(* The types of the state, and how far the wheels are behind the clock. *)

StateInv == TypeOK /\ Placed /\ Behind

\* What the type invariant says of the times.
LEMMA TypeOKParts ==
    ASSUME TypeOK
    PROVE  /\ Indices
           /\ now \in Nat /\ start \in Nat /\ loops \in Nat /\ level \in Wheel
           /\ due \in [Timer -> Nat] /\ step \in [Timer -> Steps \cup {0}]
           /\ \A t \in Timer : due[t] \in Nat /\ step[t] \in Nat
<1>1. due \in [Timer -> Nat] /\ step \in [Timer -> Steps \cup {0}]
  BY DEF TypeOK
<1>2. Steps \cup {0} \subseteq Nat
  BY TimerAssumption
<1>3. \A t \in Timer : due[t] \in Nat /\ step[t] \in Nat
  BY <1>1, <1>2
<1> QED
  BY <1>1, <1>3 DEF TypeOK, Indices

\* A wheel that turns.
LEMMA Advance ==
    ASSUME TypeOK, NEW w \in Wheel, spokeindex' = Advanced(w)
    PROVE  /\ Indices'
           /\ spokeindex'[w] = IF spokeindex[w] + 1 = Size(w) THEN 0 ELSE spokeindex[w] + 1
           /\ spokeindex[w] + 1 <= Size(w)
           /\ \A v \in Wheel : v # w => spokeindex'[v] = spokeindex[v]
           /\ \A v \in Wheel, s \in Nat : v # w => Ahead(v, s)' = Ahead(v, s)
           /\ \A s \in Nat : s < Size(w) =>
                  /\ Ahead(w, s) \in Nat /\ (s = spokeindex[w] <=> Ahead(w, s) = 0)
                  /\ s # spokeindex[w] => Ahead(w, s)' = Ahead(w, s) - 1
<1>1. PICK S \in Nat \ {0}, k \in Nat : S = Size(w) /\ k = spokeindex[w] /\ k + 1 <= S
  BY Wheels DEF TypeOK
<1>2. (k + 1) % S = IF k + 1 = S THEN 0 ELSE k + 1
  <2>1. CASE k + 1 = S
    BY <2>1
  <2>2. CASE k + 1 < S
    BY <2>2
  <2> QED
    BY <1>1, <2>1, <2>2
<1>3. spokeindex \in [Wheel -> Nat] /\ \A v \in Wheel : spokeindex[v] < Size(v)
  BY DEF TypeOK
<1>4. spokeindex' = [spokeindex EXCEPT ![w] = (k + 1) % S]
  BY <1>1 DEF Advanced
<1>5. PICK n \in Nat : n = (k + 1) % S /\ n < S /\ n = IF k + 1 = S THEN 0 ELSE k + 1
  BY <1>1, <1>2
<1>6. spokeindex' \in [Wheel -> Nat] /\ spokeindex'[w] = n
  BY <1>3, <1>4, <1>5
<1>7. \A v \in Wheel : v # w => spokeindex'[v] = spokeindex[v]
  BY <1>3, <1>4
<1>8. \A v \in Wheel : spokeindex'[v] < Size(v)
  BY <1>1, <1>3, <1>5, <1>6, <1>7
<1>9. \A v \in Wheel, s \in Nat : v # w => Ahead(v, s)' = Ahead(v, s)
  BY <1>7 DEF Ahead
<1>10. ASSUME NEW s \in Nat, s < Size(w)
       PROVE  /\ Ahead(w, s) \in Nat /\ (s = spokeindex[w] <=> Ahead(w, s) = 0)
              /\ s # spokeindex[w] => Ahead(w, s)' = Ahead(w, s) - 1
  <2>1. Ahead(w, s) = (IF s >= k THEN s - k ELSE s - k + S)
    BY <1>1 DEF Ahead
  <2>2. Ahead(w, s)' = (IF s >= n THEN s - n ELSE s - n + S)
    BY <1>1, <1>6 DEF Ahead
  <2>3. s < S
    BY <1>1, <1>10
  <2>4. s # k => (IF s >= n THEN s - n ELSE s - n + S) = (IF s >= k THEN s - k ELSE s - k + S) - 1
    BY <1>1, <1>5, <2>3
  <2>5. Ahead(w, s) \in Nat /\ (s = k <=> Ahead(w, s) = 0)
    BY <1>1, <2>1, <2>3
  <2> QED
    BY <1>1, <2>1, <2>2, <2>4, <2>5
<1> QED
  BY <1>1, <1>5, <1>6, <1>7, <1>8, <1>9, <1>10 DEF Indices

\* After a wheel has turned, the loop is not further behind.
LEMMA GoneOn ==
    ASSUME TypeOK, Behind, loops > 0, NEW w \in Wheel, GoOn(w), now' = now
    PROVE  /\ Behind' /\ start' \in Nat /\ loops' \in Nat /\ level' \in Wheel
           /\ phase' \in {"turn", "cascade"}
<1> USE TimerAssumption
<1>1. now \in Nat /\ start \in Nat /\ loops \in Nat
  BY DEF TypeOK
<1>2. start + loops * Granularity <= now /\ loops * Granularity <= MaxLag /\ now <= start + MaxLag
  BY DEF Behind
<1>3. CASE Cascaded(w)
  <2>1. phase' = "cascade" /\ level' = w + 1 /\ start' = start /\ loops' = loops
    BY <1>3 DEF GoOn
  <2>2. w + 1 \in Wheel /\ w + 1 # 0
    BY <1>3, Wheels DEF Cascaded
  <2> QED
    BY <1>1, <1>2, <2>1, <2>2 DEF Behind
<1>4. CASE ~ Cascaded(w)
  <2>1. phase' = "turn" /\ level' = 0 /\ start' = start + Granularity /\ loops' = loops - 1
    BY <1>4 DEF GoOn
  <2>2. (loops - 1) * Granularity = loops * Granularity - Granularity
    BY <1>1
  <2>3. /\ start' + loops' * Granularity <= now' /\ loops' * Granularity <= MaxLag
        /\ now' <= start' + MaxLag
    BY <1>1, <1>2, <2>1, <2>2
  <2> QED
    BY <1>1, <2>1, <2>3, Wheels DEF Behind
<1> QED
  BY <1>3, <1>4

\* At the start the wheels are at their first spokes, and no timer is in
\* them.
LEMMA StateInit == Init => StateInv
<1> SUFFICES ASSUME Init PROVE StateInv
  OBVIOUS
<1> USE TimerAssumption
<1>1. /\ now = 0 /\ start = 0 /\ loops = 0 /\ level = 0 /\ phase = "idle" /\ connected = {}
      /\ spokeindex = [w \in Wheel |-> 0] /\ place = [t \in Timer |-> Off]
      /\ due = [t \in Timer |-> 0] /\ step = [t \in Timer |-> 0]
  BY DEF Init
<1>2. spokeindex \in [Wheel -> Nat] /\ \A w \in Wheel : spokeindex[w] < Size(w)
  BY <1>1, Wheels
<1>3. Off # Ready
  BY DEF Off, Ready
<1>4. Placed
  BY <1>1, <1>3 DEF Placed
<1>5. TypeOK
  <2>1. \A t \in Timer : place[t] \in {Ready, Off}
    BY <1>1
  <2>2. due \in [Timer -> Nat] /\ step \in [Timer -> Steps \cup {0}]
    BY <1>1
  <2> QED
    BY <1>1, <1>2, <2>1, <2>2, Wheels DEF TypeOK
<1>6. Behind
  <2>1. 0 * Granularity = 0 /\ 0 <= MaxLag
    OBVIOUS
  <2> QED
    BY <1>1, <2>1 DEF Behind
<1> QED
  BY <1>4, <1>5, <1>6 DEF StateInv

\* What is left of TypeOK when the places and the indices are in range.
LEMMA TypeOKFrom ==
    ASSUME Placed', Indices', now' \in Nat, start' \in Nat, loops' \in Nat, level' \in Wheel,
           due' \in [Timer -> Nat], step' \in [Timer -> Steps \cup {0}], connected' \in SUBSET Timer,
           phase' \in {"idle", "turn", "cascade", "fire"}
    PROVE  TypeOK'
<1>1. ASSUME NEW t \in Timer
      PROVE  \/ place'[t] \in {Ready, Off}
             \/ place'[t][1] \in Wheel /\ place'[t][2] \in 0..Size(place'[t][1]) - 1
  <2>1. place'[t] \in {Ready, Off} \/ place'[t] \in Spoke
    BY DEF Placed
  <2>2. CASE place'[t] \in Spoke
    <3>1. place'[t][1] \in Wheel /\ place'[t][2] \in Nat /\ place'[t][2] < Size(place'[t][1])
      BY <2>2 DEF Spoke
    <3> QED
      BY <3>1, Wheels
  <2> QED
    BY <2>1, <2>2
<1> QED
  BY <1>1 DEF TypeOK, Indices

\* Every step keeps the indices, the places and the lag.
LEMMA StateNext == StateInv /\ [Next]_vars => StateInv'
<1> SUFFICES ASSUME StateInv, [Next]_vars PROVE StateInv'
  OBVIOUS
<1> USE TimerAssumption
<1>1. TypeOK /\ Placed /\ Behind
  BY DEF StateInv
<1>2. /\ Indices /\ now \in Nat /\ start \in Nat /\ loops \in Nat /\ level \in Wheel
      /\ due \in [Timer -> Nat] /\ step \in [Timer -> Steps \cup {0}]
      /\ \A t \in Timer : due[t] \in Nat /\ step[t] \in Nat
  BY <1>1, TypeOKParts
<1>3. connected \in SUBSET Timer /\ phase \in {"idle", "turn", "cascade", "fire"}
  BY <1>1 DEF TypeOK
<1>4. place \in [Timer -> {Ready, Off} \cup Spoke]
  BY <1>1 DEF Placed
<1>5. ASSUME NEW t \in Timer, NEW s \in Steps, NEW d \in Delays, AddTimer(t, s, d) PROVE StateInv'
  <2>1. /\ phase \in {"idle", "fire"} /\ now' = now /\ phase' = phase
        /\ start' = start /\ spokeindex' = spokeindex /\ loops' = loops /\ level' = level
        /\ due' = [due EXCEPT ![t] = now + d] /\ step' = [step EXCEPT ![t] = s]
        /\ connected' = connected \cup {t}
        /\ place' = [place EXCEPT ![t] = Node(now + d - start)]
    BY <1>5 DEF AddTimer, turn
  <2>2. Indices'
    BY <1>2, <2>1 DEF Indices
  <2>3. now + d \in Nat /\ now + d - start \in Int
    BY <1>2
  <2>4. PICK x \in Spoke : x = Node(now + d - start)
    BY <2>2, <2>3, NodeInSpoke
  <2>5. Placed'
    <3>1. place' = [place EXCEPT ![t] = x]
      BY <2>1, <2>4
    <3>2. place' \in [Timer -> {Ready, Off} \cup Spoke]
      BY <1>4, <3>1
    <3>3. x # Ready
      BY DEF Ready, Spoke, Wheel
    <3>4. phase' = "idle" => \A u \in Timer : place'[u] # Ready
      BY <1>1, <1>4, <2>1, <3>1, <3>3 DEF Placed
    <3> QED
      BY <3>2, <3>4 DEF Placed
  <2>6. due' \in [Timer -> Nat] /\ step' \in [Timer -> Steps \cup {0}] /\ connected' \in SUBSET Timer
    BY <1>2, <1>3, <2>1, <2>3
  <2>7. TypeOK'
    BY <1>2, <1>3, <2>1, <2>2, <2>5, <2>6, TypeOKFrom
  <2>8. Behind'
    BY <1>1, <2>1 DEF Behind
  <2> QED
    BY <2>5, <2>7, <2>8 DEF StateInv
<1>6. ASSUME NEW t \in Timer, Disconnect(t) PROVE StateInv'
  <2>1. UNCHANGED <<now, start, spokeindex, loops, level, place, due, step, phase>>
        /\ connected' = connected \ {t}
    BY <1>6 DEF Disconnect, turn
  <2>2. Placed' /\ Indices' /\ Behind'
    BY <1>1, <1>2, <2>1 DEF Placed, Indices, Behind
  <2>3. connected' \in SUBSET Timer
    BY <1>3, <2>1
  <2>4. TypeOK'
    BY <1>1, <2>1, <2>3 DEF TypeOK
  <2> QED
    BY <2>2, <2>4 DEF StateInv
<1>7. CASE DetectTimerList
  <2>1. /\ phase = "idle" /\ phase' = "turn" /\ loops' = (now - start) \div Granularity
        /\ UNCHANGED <<now, start, spokeindex, place, due, step, connected, level>>
    BY <1>7 DEF DetectTimerList, timers
  <2>2. loops = 0 /\ start <= now /\ now - start <= MaxLag /\ now - start \in Nat
    BY <1>1, <1>2, <2>1 DEF Behind
  <2>3. PICK q \in Int, r \in 0..(Granularity - 1) :
            q = (now - start) \div Granularity /\ q \in Nat /\ Granularity * q <= now - start
    <3>1. now - start \in Int
      BY <2>2
    <3> QED
      BY <2>2, <3>1, DivMod, Zenon
  <2>4. loops' = q /\ q \in Nat /\ q * Granularity <= now - start
    BY <2>1, <2>3
  <2>5. Behind'
    BY <1>2, <2>1, <2>2, <2>4 DEF Behind
  <2>6. Placed' /\ Indices'
    BY <1>1, <1>2, <2>1 DEF Placed, Indices
  <2>7. TypeOK'
    BY <1>1, <2>1, <2>4 DEF TypeOK
  <2> QED
    BY <2>5, <2>6, <2>7 DEF StateInv
<1>8. ASSUME NEW w \in Wheel, loops > 0, spokeindex' = Advanced(w), GoOn(w),
             UNCHANGED <<now, due, step, connected>>,
             place' \in [Timer -> {Ready, Off} \cup Spoke]
      PROVE  StateInv'
  <2>1. /\ Behind' /\ start' \in Nat /\ loops' \in Nat /\ level' \in Wheel
        /\ phase' \in {"turn", "cascade"}
    BY <1>1, <1>8, GoneOn
  <2>2. Indices'
    BY <1>1, <1>8, Advance
  <2>3. Placed'
    BY <1>8, <2>1 DEF Placed
  <2>4. TypeOK'
    BY <1>2, <1>3, <1>8, <2>1, <2>2, <2>3, TypeOKFrom
  <2> QED
    BY <2>1, <2>3, <2>4 DEF StateInv
<1>9. CASE Turn
  <2>1. place' \in [Timer -> {Ready, Off} \cup Spoke]
    BY <1>4, <1>9 DEF Turn
  <2> QED
    BY <1>8, <1>9, <2>1, Wheels DEF Turn
<1>10. CASE Cascade
  <2>1. loops > 0
    BY <1>1, <1>10 DEF Cascade, Behind
  <2>2. /\ spokeindex' = Advanced(level) /\ GoOn(level) /\ UNCHANGED <<now, due, step, connected>>
        /\ place' = [t \in Timer |-> IF place[t] # <<level, spokeindex[level]>> THEN place[t]
                                     ELSE IF due[t] <= now THEN Ready ELSE Node(due[t] - now)]
    BY <1>10 DEF Cascade
  <2>3. Indices'
    BY <1>1, <1>2, <2>2, Advance
  <2>4. place' \in [Timer -> {Ready, Off} \cup Spoke]
    <3>1. ASSUME NEW t \in Timer PROVE Node(due[t] - now) \in Spoke
      <4>1. due[t] - now \in Int
        BY <1>2
      <4> QED
        BY <2>3, <4>1, NodeInSpoke
    <3> QED
      BY <1>4, <2>2, <3>1
  <2> QED
    BY <1>2, <1>8, <2>1, <2>2, <2>4
<1>11. CASE EndTurn
  <2>1. phase' = "fire" /\ loops = 0
        /\ UNCHANGED <<now, start, spokeindex, loops, level, place, due, step, connected>>
    BY <1>11 DEF EndTurn, turn, timers
  <2> QED
    BY <1>1, <2>1 DEF StateInv, TypeOK, Placed, Behind
<1>12. ASSUME NEW t \in Timer, Fire(t) PROVE StateInv'
  <2>1. /\ phase = "fire" /\ phase' = "fire"
        /\ UNCHANGED <<now, start, spokeindex, loops, level, step>>
    BY <1>12 DEF Fire, turn
  <2>2. Indices' /\ Behind'
    BY <1>1, <1>2, <2>1 DEF Indices, Behind
  <2>3. CASE step[t] # 0
    <3>1. /\ due' = [due EXCEPT ![t] = @ + step[t]] /\ connected' = connected
          /\ place' = [place EXCEPT ![t] = Node(due[t] + step[t] - start)]
      BY <1>12, <2>3 DEF Fire
    <3>2. due[t] + step[t] - start \in Int /\ due[t] + step[t] \in Nat
      BY <1>2
    <3>3. Node(due[t] + step[t] - start) \in Spoke
      BY <2>2, <3>2, NodeInSpoke
    <3>4. Placed'
      BY <1>4, <2>1, <3>1, <3>3 DEF Placed
    <3>5. due' \in [Timer -> Nat]
      BY <1>2, <3>1, <3>2
    <3>6. TypeOK'
      BY <1>2, <1>3, <2>1, <2>2, <3>1, <3>4, <3>5, TypeOKFrom
    <3> QED
      BY <2>2, <3>4, <3>6 DEF StateInv
  <2>4. CASE step[t] = 0
    <3>1. /\ due' = due /\ connected' = connected \ {t}
          /\ place' = [place EXCEPT ![t] = Off]
      BY <1>12, <2>4 DEF Fire
    <3>2. Placed'
      BY <1>4, <2>1, <3>1 DEF Placed
    <3>3. connected' \in SUBSET Timer
      BY <1>3, <3>1
    <3>4. TypeOK'
      BY <1>2, <1>3, <2>1, <2>2, <3>1, <3>2, <3>3, TypeOKFrom
    <3> QED
      BY <2>2, <3>2, <3>4 DEF StateInv
  <2> QED
    BY <2>3, <2>4
<1>13. ASSUME NEW t \in Timer, Drop(t) PROVE StateInv'
  <2>1. /\ phase = "fire" /\ phase' = "fire"
        /\ UNCHANGED <<now, start, spokeindex, loops, level, due, step, connected>>
        /\ place' = [place EXCEPT ![t] = Off]
    BY <1>13 DEF Drop, turn
  <2>2. Indices' /\ Behind'
    BY <1>1, <1>2, <2>1 DEF Indices, Behind
  <2>3. Placed'
    BY <1>4, <2>1 DEF Placed
  <2>4. TypeOK'
    BY <1>2, <1>3, <2>1, <2>2, <2>3, TypeOKFrom
  <2> QED
    BY <2>2, <2>3, <2>4 DEF StateInv
<1>14. CASE EndFire
  <2>1. /\ phase = "fire" /\ phase' = "idle"
        /\ \A t \in Timer : place[t] # Ready
        /\ UNCHANGED <<now, start, spokeindex, loops, level, place, due, step, connected>>
    BY <1>14 DEF EndFire, turn, timers
  <2>2. loops = 0
    BY <1>1, <2>1 DEF Behind
  <2>3. Behind'
    BY <1>1, <2>1, <2>2 DEF Behind
  <2>4. Placed' /\ Indices'
    BY <1>2, <1>4, <2>1 DEF Placed, Indices
  <2>5. TypeOK'
    BY <1>2, <1>3, <2>1, <2>4, TypeOKFrom
  <2> QED
    BY <2>3, <2>4, <2>5 DEF StateInv
<1>15. CASE Tick
  <2>1. now < start + MaxLag /\ now' = now + 1
        /\ UNCHANGED <<start, spokeindex, loops, level, place, due, step, connected, phase>>
    BY <1>15 DEF Tick, turn, timers
  <2>2. start + loops * Granularity <= now /\ loops * Granularity \in Int
    BY <1>1, <1>2 DEF Behind
  <2>3. Behind'
    <3>1. now' <= start + MaxLag /\ start + loops * Granularity <= now'
      BY <1>2, <2>1, <2>2
    <3> QED
      BY <1>1, <2>1, <3>1 DEF Behind
  <2>4. TypeOK' /\ Placed'
    BY <1>1, <1>2, <2>1 DEF TypeOK, Placed
  <2> QED
    BY <2>3, <2>4 DEF StateInv
<1>16. CASE UNCHANGED vars
  BY <1>1, <1>16 DEF StateInv, TypeOK, Placed, Behind, vars, turn, timers
<1> QED
  BY <1>5, <1>6, <1>7, <1>9, <1>10, <1>11, <1>12, <1>13, <1>14, <1>15, <1>16 DEF Next, LoopStep

\* The indices stay in their wheels, the timers in their spokes, and the clock
\* is never further ahead of the wheels than the lag the main loop may have.
THEOREM StateInductive == Spec => []StateInv
<1>1. Init => StateInv
  BY StateInit
<1>2. StateInv /\ [Next]_vars => StateInv'
  BY StateNext
<1> QED
  BY <1>1, <1>2, PTL DEF Spec

\* Every variable has its type (the time of an event, that of the clock, the
\* place of a timer in a wheel that exists).
THEOREM TypeCorrect == Spec => []TypeOK
<1>1. StateInv => TypeOK
  BY DEF StateInv
<1> QED
  BY <1>1, StateInductive, PTL

-----------------------------------------------------------------------------
(* Events are not called back early. *)

\* A timer that is dealt at the time b, which is ahead of the wheels by no more
\* than the lag.
LEMMA LateDealt ==
    ASSUME WaitsFit, StateInv', NEW t \in Timer, NEW ms \in Int, NEW b \in Int,
           place'[t] = Node(ms), due'[t] = b + ms,
           ms < Intervals * Granularity, due'[t] < start' + Intervals * Granularity,
           b <= start' + Turning' \/ b <= start' + Turning' + (MaxLag - Granularity)
    PROVE  DealtLate(t)' /\ Covered(t)'
<1>1. Indices' /\ start' \in Nat
  BY DEF StateInv, TypeOK, Indices
<1>2. PICK H \in Nat : H = Intervals * Granularity /\ H <= TimeMod
  BY Wheels, TimerAssumption DEF WaitsFit
<1>3. PICK w \in Wheel, s \in Nat, a \in Nat :
          /\ Node(ms) = <<w, s>> /\ s < Size(w) /\ a = Ahead(w, s)'
          /\ ms \in Nat /\ ms < Intervals * Granularity /\ Intervals * Granularity <= TimeMod
                 => (w = 0 => ms < a * Granularity + Granularity)
  BY <1>1, Dealt
<1>4. place'[t] = <<w, s>>
  BY <1>3
<1>5. Covered(t)'
  <2>1. place'[t] # Ready
    BY <1>4 DEF Ready, Wheel
  <2> QED
    BY <2>1 DEF Covered
<1>6. DealtLate(t)'
  <2> SUFFICES ASSUME w = 0
               PROVE  due'[t] < Turned(s)' \/ due'[t] < Turned(s)' + (MaxLag - Granularity)
    BY <1>4 DEF DealtLate
  <2>1. PICK G \in Nat, A \in Nat : G = Granularity /\ A = a * Granularity /\ G > 0
    BY <1>3, TimerAssumption
  <2>2. ms < A + G
    <3>1. CASE ms \in Nat
      BY <1>2, <1>3, <2>1, <3>1
    <3>2. CASE ms < 0
      BY <2>1, <3>2
    <3> QED
      BY <3>1, <3>2
  <2>3. Turned(s)' = start' + G + Turning' + A
    BY <1>3, <2>1 DEF Turned
  <2>4. Turning' \in Nat
    BY <2>1 DEF Turning
  <2>5. MaxLag \in Nat
    BY TimerAssumption
  <2> QED
    BY <1>1, <2>1, <2>2, <2>3, <2>4, <2>5
<1> QED
  BY <1>5, <1>6

\* One that stays where it is, and whose spoke is turned when it would have been.
LEMMA LateKept ==
    ASSUME StateInv, StateInv', NEW t \in Timer, DealtLate(t), Covered(t),
           place'[t] = place[t], due'[t] = due[t], start <= start', now <= now',
           place[t][1] = 0 => Turned(place[t][2])' = Turned(place[t][2])
    PROVE  DealtLate(t)' /\ Covered(t)'
<1>1. /\ start \in Nat /\ start' \in Nat /\ now \in Nat /\ now' \in Nat /\ due[t] \in Nat
      /\ MaxLag \in Nat /\ Granularity \in Nat
  BY TimerAssumption DEF StateInv, TypeOK
<1>2. PICK H \in Nat : H = Intervals * Granularity
  BY Wheels, TimerAssumption
<1>3. Covered(t)'
  BY <1>1, <1>2 DEF Covered
<1>4. DealtLate(t)'
  BY DEF DealtLate
<1> QED
  BY <1>3, <1>4

\* One that became ready or was deleted.
LEMMA LateOut ==
    ASSUME NEW t \in Timer,
           \/ place'[t] = Off
           \/ /\ place'[t] = Ready /\ due'[t] < start' + Intervals * Granularity
              /\ due'[t] <= now' \/ due'[t] < now' + (MaxLag - Granularity)
    PROVE  DealtLate(t)' /\ Covered(t)'
<1>1. Off # Ready /\ Off[1] # 0 /\ Ready[1] # 0
  BY TimerAssumption DEF Off, Ready
<1> QED
  BY <1>1 DEF DealtLate, Covered

\* A step that moves none of the wheels.
LEMMA LateStill ==
    ASSUME StateInv, StateInv', NEW t \in Timer, DealtLate(t), Covered(t),
           place'[t] = place[t], due'[t] = due[t], start' = start, spokeindex' = spokeindex,
           now <= now', Turning' = Turning
    PROVE  DealtLate(t)' /\ Covered(t)'
<1>1. place[t][1] = 0 => Turned(place[t][2])' = Turned(place[t][2])
  BY DEF Turned, Ahead
<1>2. start <= start'
  BY DEF StateInv, TypeOK
<1> QED
  BY <1>1, <1>2, LateKept

\* A wheel that turns leaves the spokes of wheel 0 the time at which they are
\* turned, but for its current one.
LEMMA TurnedAlike ==
    ASSUME TypeOK, NEW w \in Wheel, spokeindex' = Advanced(w), GoOn(w),
           phase = (IF w = 0 THEN "turn" ELSE "cascade")
    PROVE  /\ start <= start'
           /\ start' + Turning' = start + Granularity
           /\ \A s \in Nat : s < Size(0) /\ (w = 0 => s # spokeindex[0]) => Turned(s)' = Turned(s)
<1>1. PICK G \in Nat : G = Granularity /\ start \in Nat
  BY TimerAssumption DEF TypeOK
<1>2. start <= start' /\ start' + Turning' = start + G
  BY <1>1 DEF GoOn, Turning
<1>3. ASSUME NEW s \in Nat, s < Size(0), w = 0 => s # spokeindex[0]
      PROVE  Turned(s)' = Turned(s)
  <2>1. PICK a \in Nat, b \in Nat : /\ a = Ahead(0, s) /\ b = Ahead(0, s)'
                                    /\ b = IF w = 0 THEN a - 1 ELSE a
    <3>1. CASE w = 0
      <4>1. Ahead(0, s) \in Nat /\ Ahead(0, s) # 0 /\ Ahead(0, s)' = Ahead(0, s) - 1
        BY <1>3, <3>1, Advance
      <4> QED
        BY <3>1, <4>1
    <3>2. CASE w # 0
      <4>1. Ahead(0, s)' = Ahead(0, s)
        BY <3>2, Wheels, Advance
      <4>2. Ahead(0, s) \in Nat
        <5>1. s \in Nat /\ spokeindex[0] \in Nat /\ Size(0) \in Nat /\ spokeindex[0] < Size(0)
          BY Wheels DEF TypeOK
        <5> QED
          BY <5>1 DEF Ahead
      <4> QED
        BY <3>2, <4>1, <4>2
    <3> QED
      BY <3>1, <3>2
  <2>2. Turning = IF w = 0 THEN 0 ELSE G
    BY <1>1 DEF Turning
  <2>3. Turned(s) = start + G + Turning + a * G /\ Turned(s)' = start' + G + Turning' + b * G
    BY <1>1, <2>1 DEF Turned
  <2>4. start' \in Nat /\ Turning' \in Nat
    BY <1>1 DEF GoOn, Turning
  <2>5. PICK x \in Nat : x = (IF w = 0 THEN G ELSE 0) /\ Turning = G - x /\ b * G = a * G - x
    <3>1. b * G = a * G - (IF w = 0 THEN G ELSE 0)
      BY <1>1, <2>1
    <3>2. Turning = G - (IF w = 0 THEN G ELSE 0)
      BY <1>1, <2>2
    <3>3. (IF w = 0 THEN G ELSE 0) \in Nat
      BY <1>1
    <3> QED
      BY <3>1, <3>2, <3>3
  <2>6. PICK A \in Nat, B \in Int : A = a * G /\ B = b * G
    BY <1>1, <2>1
  <2>7. PICK u \in Nat, v \in Nat, n \in Nat : u = start' /\ v = Turning' /\ n = start
    BY <1>1, <2>4
  <2>8. Turned(s) = n + G + (G - x) + A /\ Turned(s)' = u + G + v + (A - x) /\ u + v = n + G
    BY <1>2, <2>3, <2>5, <2>6, <2>7
  <2>9. u + G + v + (A - x) = n + G + (G - x) + A
    BY <2>8
  <2> QED
    BY <2>8, <2>9
<1> QED
  BY <1>1, <1>2, <1>3

\* Every step keeps the timers from being early.
LEMMA LateNext ==
    ASSUME WaitsFit, StateInv, StateInv', LateInv, [Next]_vars
    PROVE  LateInv'
<1> SUFFICES ASSUME NEW u \in Timer PROVE DealtLate(u)' /\ Covered(u)'
  BY DEF LateInv
<1>1. DealtLate(u) /\ Covered(u)
  BY DEF LateInv
<1>2. TypeOK /\ Behind /\ place \in [Timer -> {Ready, Off} \cup Spoke]
  BY DEF StateInv, Placed
<1>3. /\ now \in Nat /\ start \in Nat /\ loops \in Nat /\ level \in Wheel
      /\ due \in [Timer -> Nat] /\ \A t \in Timer : due[t] \in Nat /\ step[t] \in Nat
  BY <1>2, TypeOKParts
<1>4. PICK G \in Nat \ {0}, H \in Nat, M \in Nat :
          G = Granularity /\ H = Intervals * Granularity /\ M = MaxLag
  BY Wheels, TimerAssumption
<1>5. start <= now /\ now <= start + M
  <2>1. start + loops * G <= now /\ loops * G \in Nat /\ now <= start + M
    BY <1>2, <1>3, <1>4 DEF Behind
  <2> QED
    BY <1>3, <2>1
<1>6. ASSUME start' = start, spokeindex' = spokeindex, now <= now',
             phase # "cascade", phase' # "cascade",
             NEW t \in Timer, t # u => place'[u] = place[u] /\ due'[u] = due[u],
             u = t => DealtLate(u)' /\ Covered(u)'
      PROVE  DealtLate(u)' /\ Covered(u)'
  <2>1. Turning' = Turning
    BY <1>6 DEF Turning
  <2> QED
    BY <1>1, <1>6, <2>1, LateStill
<1>7. ASSUME NEW t \in Timer, NEW s \in Steps, NEW d \in Delays, AddTimer(t, s, d)
      PROVE  DealtLate(u)' /\ Covered(u)'
  <2>1. /\ phase \in {"idle", "fire"} /\ now' = now /\ phase' = phase
        /\ start' = start /\ spokeindex' = spokeindex
        /\ due' = [due EXCEPT ![t] = now + d]
        /\ place' = [place EXCEPT ![t] = Node(now + d - start)]
    BY <1>7 DEF AddTimer, turn
  <2>2. ASSUME u = t PROVE DealtLate(u)' /\ Covered(u)'
    <3>1. d \in Nat /\ d + M < H
      BY <1>4, TimerAssumption DEF WaitsFit
    <3>2. PICK ms \in Int : ms = now + d - start
      BY <1>3, <3>1
    <3>3. place'[u] = Node(ms)
      BY <1>2, <2>1, <2>2, <3>2
    <3>4. due'[u] = now + d
      BY <1>3, <2>1, <2>2
    <3>5. due'[u] = start + ms /\ ms < H /\ due'[u] < start + H
      BY <1>3, <1>5, <3>1, <3>2, <3>4
    <3>6. Turning' = 0
      BY <2>1 DEF Turning
    <3>7. start <= start' + Turning'
      BY <1>3, <2>1, <3>6
    <3>8. start \in Int
      BY <1>3
    <3> QED
      BY <1>4, <2>1, <3>3, <3>5, <3>7, <3>8, LateDealt
  <2>3. t # u => place'[u] = place[u] /\ due'[u] = due[u]
    BY <1>2, <1>3, <2>1
  <2>4. phase # "cascade" /\ now <= now'
    BY <1>3, <2>1
  <2> QED
    BY <1>6, <2>1, <2>2, <2>3, <2>4
<1>8. ASSUME NEW t \in Timer, Fire(t) PROVE DealtLate(u)' /\ Covered(u)'
  <2>1. /\ phase = "fire" /\ now' = now /\ phase' = phase /\ place[t] = Ready
        /\ start' = start /\ spokeindex' = spokeindex /\ step' = step
    BY <1>8 DEF Fire, turn
  <2>2. ASSUME u = t, step[t] = 0 PROVE DealtLate(u)' /\ Covered(u)'
    <3>1. place'[u] = Off
      BY <1>2, <1>8, <2>2 DEF Fire
    <3> QED
      BY <3>1, LateOut
  <2>3. ASSUME u = t, step[t] # 0 PROVE DealtLate(u)' /\ Covered(u)'
    <3>1. /\ due' = [due EXCEPT ![t] = @ + step[t]]
          /\ place' = [place EXCEPT ![t] = Node(due[t] + step[t] - start)]
      BY <1>8, <2>3 DEF Fire
    <3>2. step[t] \in Nat /\ step[t] + 2 * M < H
      <4>1. step[t] \in Steps
        BY <1>2, <2>3 DEF TypeOK
      <4> QED
        BY <1>3, <1>4, <4>1 DEF WaitsFit
    <3>3. PICK ms \in Int : ms = due[t] + step[t] - start
      BY <1>3
    <3>4. place'[u] = Node(ms)
      BY <1>2, <2>3, <3>1, <3>3
    <3>5. due'[u] = due[u] + step[u]
      BY <1>3, <2>3, <3>1
    <3>6. due[u] <= now + M
      <4>1. due[u] <= now \/ due[u] < now + (M - G)
        BY <1>1, <1>4, <2>1, <2>3 DEF Covered
      <4> QED
        BY <1>3, <1>4, <4>1
    <3>7. due'[u] = start + ms /\ ms < H /\ due'[u] < start + H
      BY <1>3, <1>5, <2>3, <3>2, <3>3, <3>5, <3>6
    <3>8. Turning' = 0
      BY <2>1 DEF Turning
    <3>9. start <= start' + Turning' /\ start \in Int
      BY <1>3, <2>1, <3>8
    <3> QED
      BY <1>4, <2>1, <3>4, <3>7, <3>9, LateDealt
  <2>4. t # u => place'[u] = place[u] /\ due'[u] = due[u]
    BY <1>2, <1>3, <1>8 DEF Fire
  <2>5. phase # "cascade" /\ now <= now'
    BY <1>3, <2>1
  <2> QED
    BY <1>6, <2>1, <2>2, <2>3, <2>4, <2>5
<1>9. ASSUME NEW t \in Timer, Drop(t) PROVE DealtLate(u)' /\ Covered(u)'
  <2>1. /\ phase = "fire" /\ now' = now /\ phase' = phase /\ start' = start
        /\ spokeindex' = spokeindex /\ due' = due /\ place' = [place EXCEPT ![t] = Off]
    BY <1>9 DEF Drop, turn
  <2>2. ASSUME u = t PROVE DealtLate(u)' /\ Covered(u)'
    <3>1. place'[u] = Off
      BY <1>2, <2>1, <2>2
    <3> QED
      BY <3>1, LateOut
  <2>3. t # u => place'[u] = place[u] /\ due'[u] = due[u]
    BY <1>2, <2>1
  <2>4. phase # "cascade" /\ now <= now'
    BY <1>3, <2>1
  <2> QED
    BY <1>6, <2>1, <2>2, <2>3, <2>4
<1>10. CASE Turn
  <2>1. /\ phase = "turn" /\ loops > 0 /\ now' = now /\ due' = due
        /\ spokeindex' = Advanced(0) /\ GoOn(0)
        /\ place' = [t \in Timer |-> IF place[t] = <<0, spokeindex[0]>> THEN Ready ELSE place[t]]
    BY <1>10 DEF Turn
  <2>2. /\ start <= start'
        /\ \A s \in Nat : s < Size(0) /\ s # spokeindex[0] => Turned(s)' = Turned(s)
    BY <1>2, <2>1, Wheels, TurnedAlike
  <2>3. CASE place[u] = <<0, spokeindex[0]>>
    <3>1. place'[u] = Ready /\ place[u] # Off /\ place[u][1] = 0 /\ place[u][2] = spokeindex[0]
      BY <2>1, <2>3, TimerAssumption DEF Off
    <3>2. Turned(spokeindex[0]) = start + G
      <4>1. spokeindex[0] \in Nat
        BY <1>2, Wheels DEF TypeOK
      <4>2. Ahead(0, spokeindex[0]) = 0
        BY <4>1 DEF Ahead
      <4>3. Turning = 0
        BY <2>1 DEF Turning
      <4> QED
        BY <1>3, <1>4, <4>2, <4>3 DEF Turned
    <3>3. due[u] < start + G \/ due[u] < start + G + (M - G)
      BY <1>1, <1>4, <3>1, <3>2 DEF DealtLate
    <3>4. start + G <= now
      <4>1. start + loops * G <= now
        BY <1>2, <1>4 DEF Behind
      <4>2. 1 * G <= loops * G
        BY <1>3, <2>1, Multiply
      <4> QED
        BY <1>3, <4>1, <4>2
    <3>5. due'[u] <= now' \/ due'[u] < now' + (MaxLag - Granularity)
      BY <1>3, <1>4, <2>1, <3>3, <3>4
    <3>6. due'[u] < start' + Intervals * Granularity
      <4>1. due[u] < start + H
        BY <1>1, <1>4, <3>1 DEF Covered
      <4>2. start' \in Nat
        BY DEF StateInv, TypeOK
      <4> QED
        BY <1>3, <1>4, <2>1, <2>2, <4>1, <4>2
    <3> QED
      BY <3>1, <3>5, <3>6, LateOut
  <2>4. CASE place[u] # <<0, spokeindex[0]>>
    <3>1. place'[u] = place[u] /\ due'[u] = due[u] /\ now <= now'
      BY <1>3, <2>1, <2>4
    <3>2. place[u][1] = 0 => Turned(place[u][2])' = Turned(place[u][2])
      <4> SUFFICES ASSUME place[u][1] = 0 PROVE Turned(place[u][2])' = Turned(place[u][2])
        OBVIOUS
      <4>1. place[u] \in Spoke
        BY <1>2, TimerAssumption DEF Ready, Off
      <4>2. PICK s \in Nat : place[u] = <<0, s>> /\ s < Size(0)
        BY <4>1 DEF Spoke
      <4>3. s # spokeindex[0] /\ place'[u] = <<0, s>>
        BY <2>4, <3>1, <4>2
      <4> QED
        BY <2>2, <4>2, <4>3
    <3> QED
      BY <1>1, <2>2, <3>1, <3>2, LateKept
  <2> QED
    BY <2>3, <2>4
<1>11. CASE Cascade
  <2>1. /\ phase = "cascade" /\ now' = now /\ due' = due
        /\ spokeindex' = Advanced(level) /\ GoOn(level)
        /\ place' = [t \in Timer |-> IF place[t] # <<level, spokeindex[level]>> THEN place[t]
                                     ELSE IF due[t] <= now THEN Ready ELSE Node(due[t] - now)]
    BY <1>11 DEF Cascade
  <2>2. level # 0
    BY <1>2, <2>1 DEF Behind
  <2>3. /\ start <= start' /\ start' + Turning' = start + G
        /\ \A s \in Nat : s < Size(0) => Turned(s)' = Turned(s)
    BY <1>2, <1>3, <1>4, <2>1, <2>2, TurnedAlike
  <2>4. start' \in Nat
    BY DEF StateInv, TypeOK
  <2>5. CASE place[u] = <<level, spokeindex[level]>>
    <3>1. place[u] # Off
      BY <1>3, <2>5 DEF Off, Wheel
    <3>2. due[u] < start + H
      BY <1>1, <1>4, <3>1 DEF Covered
    <3>3. due'[u] = due[u] /\ due'[u] < start' + Intervals * Granularity
      BY <1>3, <1>4, <2>1, <2>3, <2>4, <3>2
    <3>4. CASE due[u] <= now
      <4>1. place'[u] = Ready
        BY <2>1, <2>5, <3>4
      <4>2. due'[u] <= now'
        BY <2>1, <3>4
      <4> QED
        BY <3>3, <4>1, <4>2, LateOut
    <3>5. CASE ~ (due[u] <= now)
      <4>1. place'[u] = Node(due[u] - now)
        BY <2>1, <2>5, <3>5
      <4>2. PICK ms \in Int : ms = due[u] - now
        BY <1>3
      <4>3. ms < H /\ due'[u] = now + ms
        BY <1>3, <1>5, <3>2, <3>3, <4>2
      <4>4. now <= start' + Turning' + (M - G)
        BY <1>3, <1>4, <1>5, <2>3
      <4>5. now \in Int /\ place'[u] = Node(ms)
        BY <1>3, <4>1, <4>2
      <4> QED
        BY <1>4, <3>3, <4>3, <4>4, <4>5, LateDealt
    <3> QED
      BY <3>4, <3>5
  <2>6. CASE place[u] # <<level, spokeindex[level]>>
    <3>1. place'[u] = place[u] /\ due'[u] = due[u] /\ now <= now'
      BY <1>3, <2>1, <2>6
    <3>2. place[u][1] = 0 => Turned(place[u][2])' = Turned(place[u][2])
      <4> SUFFICES ASSUME place[u][1] = 0 PROVE Turned(place[u][2])' = Turned(place[u][2])
        OBVIOUS
      <4>1. place[u] \in Spoke
        BY <1>2, TimerAssumption DEF Ready, Off
      <4>2. PICK s \in Nat : place[u] = <<0, s>> /\ s < Size(0)
        BY <4>1 DEF Spoke
      <4>3. place'[u] = <<0, s>>
        BY <3>1, <4>2
      <4> QED
        BY <2>3, <4>2, <4>3
    <3> QED
      BY <1>1, <2>3, <3>1, <3>2, LateKept
  <2> QED
    BY <2>5, <2>6
<1>12. ASSUME UNCHANGED <<start, spokeindex, place, due>>, now <= now',
              phase' = phase \/ (phase # "cascade" /\ phase' # "cascade")
       PROVE  DealtLate(u)' /\ Covered(u)'
  <2>1. Turning' = Turning
    BY <1>12 DEF Turning
  <2> QED
    BY <1>1, <1>12, <2>1, LateStill
<1>13. CASE DetectTimerList \/ EndTurn \/ EndFire \/ Tick \/ UNCHANGED vars \/ \E t \in Timer : Disconnect(t)
  <2>1. UNCHANGED <<start, spokeindex, place, due>>
    BY <1>13 DEF DetectTimerList, EndTurn, EndFire, Tick, Disconnect, vars, turn, timers
  <2>2. now <= now'
    BY <1>3, <1>13 DEF DetectTimerList, EndTurn, EndFire, Tick, Disconnect, vars, turn, timers
  <2>3. phase' = phase \/ (phase # "cascade" /\ phase' # "cascade")
    BY <1>13 DEF DetectTimerList, EndTurn, EndFire, Tick, Disconnect, vars, turn, timers
  <2> QED
    BY <1>12, <2>1, <2>2, <2>3
<1> QED
  BY <1>7, <1>8, <1>9, <1>10, <1>11, <1>13 DEF Next, LoopStep

\* No event is called back before its time by more than the loop was behind
\* beyond the spoke it turns, if the waits of the program's timers fit in the
\* wheels.
THEOREM NeverEarly == ASSUME WaitsFit PROVE Spec => EarlyBounded
<1>1. Init => LateInv
  <2> SUFFICES ASSUME Init, NEW t \in Timer PROVE DealtLate(t) /\ Covered(t)
    BY DEF LateInv
  <2>1. place[t] = Off
    BY DEF Init
  <2>2. Off # Ready /\ Off[1] # 0
    BY TimerAssumption DEF Off, Ready
  <2> QED
    BY <2>1, <2>2 DEF DealtLate, Covered
<1>2. StateInv /\ StateInv' /\ LateInv /\ [Next]_vars => LateInv'
  BY LateNext
<1>3. LateInv /\ [Next]_vars => [FiredLateEnough]_vars
  BY DEF LateInv, Covered, Fired, FiredLateEnough
<1> QED
  BY <1>1, <1>2, <1>3, StateInductive, PTL DEF Spec, EarlyBounded

-----------------------------------------------------------------------------
(* Events are not called back late. *)

\* A wheel's period is not shorter than that of a wheel below.
LEMMA PeriodsGrow ==
    ASSUME NEW v \in Wheel, NEW w \in Wheel, v <= w
    PROVE  Period(v) <= Period(w)
<1> DEFINE Good == {x \in Wheel : v <= x /\ \A y \in Wheel : v <= y /\ y <= x => Period(v) <= Period(y)}
<1>1. v \in Good /\ Good \in SUBSET (0..(WheelNum - 1)) /\ WheelNum - 1 \in Nat
  <2>1. \A y \in Wheel : v <= y /\ y <= v => y = v
    BY TimerAssumption DEF Wheel
  <2>2. Period(v) <= Period(v) /\ v <= v
    BY Wheels
  <2> QED
    BY <2>1, <2>2, TimerAssumption DEF Wheel
<1>2. PICK x \in Good : \A y \in Good : y <= x
  <2> HIDE DEF Good
  <2> QED
    BY <1>1, LastWheel
<1>3. x \in Wheel /\ v <= x /\ \A y \in Wheel : v <= y /\ y <= x => Period(v) <= Period(y)
  OBVIOUS
<1>4. x + 1 \notin Wheel
  <2> SUFFICES ASSUME x + 1 \in Wheel PROVE FALSE
    OBVIOUS
  <2>1. PICK a \in Nat \ {0}, b \in Nat, S \in Nat \ {0}, p \in Nat :
            a = Period(x) /\ b = Period(x + 1) /\ S = Size(x) /\ p = Period(v) /\ b = a * S
    BY <1>3, Wheels
  <2>2. a <= a * S
    <3>1. 1 * a <= S * a
      BY Multiply
    <3> QED
      BY <3>1
  <2>3. p <= b
    BY <1>3, <2>1, <2>2, Wheels
  <2>4. \A y \in Wheel : v <= y /\ y <= x + 1 => Period(v) <= Period(y)
    <3> SUFFICES ASSUME NEW y \in Wheel, v <= y, y <= x + 1 PROVE Period(v) <= Period(y)
      OBVIOUS
    <3>1. y <= x \/ y = x + 1
      BY <1>3, Wheels
    <3> QED
      BY <1>3, <2>1, <2>3, <3>1
  <2>5. x + 1 \in Good
    BY <1>3, <2>4, Wheels
  <2>6. x + 1 <= x /\ x \in Nat
    BY <1>2, <1>3, <2>5, Wheels
  <2> QED
    BY <2>6
<1>5. w <= x
  BY <1>3, <1>4, Wheels, TimerAssumption DEF Wheel
<1> QED
  BY <1>3, <1>5

\* The timers whose wheels turn at the times turns, and those that are ready.
InTimeInv ==
    /\ \E turns \in [Wheel -> Nat] : Odometer(turns) /\ \A t \in Timer : DealtInTime(turns, t)
    /\ \A t \in Timer : ReadyInTime(t)

\* A timer that was dealt in time is not in a wheel that went past it.
LEMMA OnTimeHolds == StateInv /\ InTimeInv => OnTime
<1> SUFFICES ASSUME StateInv, InTimeInv, NEW t \in Timer, phase = "idle", place[t] # Off
             PROVE  start <= due[t]
  BY DEF OnTime
<1>1. PICK f \in [Wheel -> Nat] : Odometer(f) /\ \A u \in Timer : DealtInTime(f, u)
  BY DEF InTimeInv
<1>2. place[t] \in Spoke
  BY DEF StateInv, Placed
<1>3. PICK w \in Wheel, s \in Nat : place[t] = <<w, s>> /\ s < Size(w)
  BY <1>2 DEF Spoke
<1>4. f[0] = start + Granularity /\ f[0] <= f[w]
  <2>1. 0 \in Wheel /\ 0 <= w
    BY Wheels
  <2>2. f[0] <= f[w] /\ f[0] = start + Granularity + Turning
    BY <1>1, <2>1 DEF Odometer
  <2>3. Turning = 0 /\ start \in Nat
    BY DEF Turning, StateInv, TypeOK
  <2> QED
    BY <2>2, <2>3, TimerAssumption
<1>5. PICK a \in Nat : a = Ahead(w, s)
  <2>1. spokeindex[w] \in Nat /\ spokeindex[w] < Size(w) /\ Size(w) \in Nat
    BY Wheels DEF StateInv, TypeOK
  <2> QED
    BY <1>3, <2>1 DEF Ahead
<1>6. f[w] + a * Period(w) <= due[t] + (IF w = 0 THEN Granularity ELSE 0)
  BY <1>1, <1>3, <1>5 DEF DealtInTime
<1>7. PICK A \in Nat : A = a * Period(w)
  BY Wheels
<1>8. due[t] \in Nat /\ start \in Nat /\ f[w] \in Nat /\ f[0] \in Nat /\ Granularity \in Nat
  BY Wheels, TimerAssumption DEF StateInv, TypeOK
<1> QED
  BY <1>3, <1>4, <1>6, <1>7, <1>8

\* At the start no timer is in a wheel.
LEMMA InTimeInit == Init => InTimeInv
<1> SUFFICES ASSUME Init PROVE InTimeInv
  OBVIOUS
<1> DEFINE f == [w \in Wheel |-> Period(w)]
<1>1. /\ start = 0 /\ phase = "idle" /\ spokeindex = [w \in Wheel |-> 0]
      /\ \A t \in Timer : place[t] = Off
  BY DEF Init
<1>2. f \in [Wheel -> Nat] /\ \A w \in Wheel : f[w] = Period(w)
  BY Wheels
<1>3. Turning = 0 /\ phase # "cascade"
  BY <1>1 DEF Turning
<1>4. f[0] = start + Granularity + Turning
  BY <1>1, <1>2, <1>3, Wheels
<1>5. ASSUME NEW w \in Wheel, w + 1 \in Wheel
      PROVE  f[w + 1] + 0 = f[w] + (Size(w) - 1 - spokeindex[w]) * Period(w)
  <2>1. PICK p \in Nat, S \in Nat : p = Period(w) /\ S = Size(w) /\ Period(w + 1) = p * S
    BY <1>5, Wheels
  <2>2. (S - 1 - 0) * p = p * S - p /\ p * S \in Nat
    BY <2>1
  <2>3. f[w + 1] = p * S /\ f[w] = p /\ spokeindex[w] = 0
    BY <1>1, <1>2, <1>5, <2>1
  <2> QED
    BY <2>1, <2>2, <2>3
<1>6. \A v, w \in Wheel : v <= w => f[v] <= f[w]
  BY <1>2, PeriodsGrow
<1>7. \A w \in Wheel : f[w] <= start + Period(w) + Turning
  BY <1>1, <1>2, <1>3, Wheels
<1>8. Odometer(f)
  <2> HIDE DEF f
  <2> QED
    BY <1>3, <1>4, <1>5, <1>6, <1>7 DEF Odometer
<1>9. \A t \in Timer : DealtInTime(f, t) /\ ReadyInTime(t)
  <2>1. Off # Ready /\ Off[1] \notin Wheel
    BY TimerAssumption DEF Off, Ready, Wheel
  <2> HIDE DEF f
  <2> QED
    BY <1>1, <2>1 DEF DealtInTime, ReadyInTime
<1> HIDE DEF f
<1> QED
  BY <1>2, <1>8, <1>9 DEF InTimeInv

\* A timer that is dealt at the time b is in time if the wheels turn next within
\* their periods from b.
LEMMA InTimeDealt ==
    ASSUME StateInv', NEW f \in [Wheel -> Nat], NEW t \in Timer, NEW ms \in Nat, NEW b \in Nat,
           place'[t] = Node(ms), due'[t] = b + ms,
           \A w \in Wheel : f[w] <= b + Period(w)
    PROVE  DealtInTime(f, t)' /\ ReadyInTime(t)'
<1>1. Indices' /\ ms \in Int
  BY DEF StateInv, TypeOK, Indices
<1>2. PICK w \in Wheel, s \in Nat, a \in Nat :
          /\ Node(ms) = <<w, s>> /\ s < Size(w) /\ a = Ahead(w, s)'
          /\ ms \in Nat => a * Period(w) + (IF w = 0 THEN 0 ELSE Period(w)) <= ms
  BY <1>1, Dealt
<1>3. place'[t] = <<w, s>> /\ place'[t] # Ready
  BY <1>2 DEF Ready, Wheel
<1>4. PICK A \in Nat, p \in Nat : A = a * Period(w) /\ p = Period(w)
  BY Wheels
<1>5. f[w] + A <= b + ms + (IF w = 0 THEN Granularity ELSE 0)
  <2>1. f[w] \in Nat /\ f[w] <= b + p /\ A + (IF w = 0 THEN 0 ELSE p) <= ms
    BY <1>2, <1>4
  <2>2. CASE w = 0
    <3>1. p = Granularity /\ A <= ms
      BY <1>4, <2>1, <2>2, Wheels
    <3> QED
      BY <2>1, <2>2, <3>1
  <2>3. CASE w # 0
    BY <2>1, <2>3
  <2> QED
    BY <2>2, <2>3
<1>6. DealtInTime(f, t)'
  BY <1>2, <1>3, <1>4, <1>5 DEF DealtInTime
<1> QED
  BY <1>3, <1>6 DEF ReadyInTime

\* A step that turns no wheel.
LEMMA OdometerStill ==
    ASSUME NEW f \in [Wheel -> Nat], Odometer(f), start' = start, spokeindex' = spokeindex,
           (phase' = phase /\ level' = level) \/ (phase # "cascade" /\ phase' # "cascade")
    PROVE  /\ Odometer(f)' /\ Turning' = Turning
           /\ \A t \in Timer : DealtInTime(f, t) /\ place'[t] = place[t] /\ due'[t] = due[t]
                  => DealtInTime(f, t)'
<1>1. Turning' = Turning
  BY DEF Turning
<1>2. Odometer(f)'
  <2>1. CASE phase' = phase /\ level' = level
    BY <1>1, <2>1 DEF Odometer
  <2>2. CASE phase # "cascade" /\ phase' # "cascade"
    BY <1>1, <2>2 DEF Odometer
  <2> QED
    BY <2>1, <2>2
<1>3. ASSUME NEW t \in Timer, DealtInTime(f, t), place'[t] = place[t], due'[t] = due[t]
      PROVE  DealtInTime(f, t)'
  BY <1>3 DEF DealtInTime, Ahead
<1> QED
  BY <1>1, <1>2, <1>3

\* Wheel w turns, and the odometer goes on: its own next turn is a period later,
\* and the next wheel turns with its last spoke.
LEMMA OdometerTurns ==
    ASSUME StateInv, NEW w \in Wheel, spokeindex' = Advanced(w), GoOn(w),
           \/ phase = "turn" /\ w = 0
           \/ phase = "cascade" /\ w = level /\ w # 0,
           NEW f \in [Wheel -> Nat], Odometer(f),
           NEW g, g = [f EXCEPT ![w] = @ + Period(w)]
    PROVE  /\ g \in [Wheel -> Nat] /\ Odometer(g)' /\ f[w] = start + Granularity
           /\ \A v \in Wheel : g[v] <= start + Granularity + Period(v)
<1>1. PICK G \in Nat \ {0}, n \in Nat : G = Granularity /\ n = start
  BY TimerAssumption DEF StateInv, TypeOK
<1>2. Turning = (IF w = 0 THEN 0 ELSE G)
  BY <1>1 DEF Turning
<1>3. f[w] = n + G
  <2>1. CASE w = 0
    BY <1>1, <1>2, <2>1 DEF Odometer
  <2>2. CASE w # 0
    BY <1>1, <2>2 DEF Odometer
  <2> QED
    BY <2>1, <2>2
<1>4. PICK p \in Nat \ {0}, S \in Nat \ {0}, k \in Nat :
          p = Period(w) /\ S = Size(w) /\ k = spokeindex[w] /\ k + 1 <= S
  BY Wheels DEF StateInv, TypeOK
<1>5. g \in [Wheel -> Nat] /\ g[w] = n + G + p /\ \A v \in Wheel : v # w => g[v] = f[v]
  BY <1>3, <1>4
<1>6. PICK m \in Nat, x \in Nat : m = start' /\ x = Turning' /\ m + x = n + G
  BY <1>1 DEF GoOn, Turning
<1>7. /\ spokeindex'[w] = (IF k + 1 = S THEN 0 ELSE k + 1)
      /\ \A v \in Wheel : v # w => spokeindex'[v] = spokeindex[v]
  BY <1>4, Advance DEF StateInv
<1>8. \A v \in Wheel : f[v] <= n + Period(v) + Turning /\ f[v] <= n + G + Period(v)
  <2>1. \A v \in Wheel : f[v] <= n + Period(v) + Turning
    BY <1>1 DEF Odometer
  <2>2. \A v \in Wheel : f[v] \in Nat /\ Period(v) \in Nat
    BY Wheels
  <2> QED
    BY <1>2, <2>1, <2>2
<1>9. \A v \in Wheel : g[v] <= n + G + Period(v)
  BY <1>4, <1>5, <1>8
<1>10. w + 1 \in Wheel => f[w + 1] = f[w] + (S - 1 - k) * p
  <2> SUFFICES ASSUME w + 1 \in Wheel PROVE f[w + 1] = f[w] + (S - 1 - k) * p
    OBVIOUS
  <2>1. ~ (phase = "cascade" /\ level = w + 1)
    BY Wheels
  <2>2. f[w + 1] + 0 = f[w] + (S - 1 - k) * p
    BY <1>4, <2>1 DEF Odometer
  <2>3. f[w + 1] \in Nat
    OBVIOUS
  <2> QED
    BY <2>2, <2>3
<1>11. Cascaded(w) <=> w + 1 \in Wheel /\ k + 1 = S
  BY <1>4 DEF Cascaded
<1>12. \/ Cascaded(w) /\ phase' = "cascade" /\ level' = w + 1
       \/ ~ Cascaded(w) /\ phase' = "turn"
  BY DEF GoOn
<1>13. g[0] = start' + Granularity + Turning'
  <2>0. n + G + G = m + G + x
    <3>1. m + x = n + G
      BY <1>6
    <3> QED
      BY <3>1
  <2>1. CASE w = 0
    <3>1. p = G
      BY <1>1, <1>4, <2>1, Wheels
    <3> QED
      BY <2>0, <1>1, <1>5, <1>6, <2>1, <3>1
  <2>2. CASE w # 0
    <3>1. f[0] = n + G + G
      BY <1>1, <1>2, <2>2 DEF Odometer
    <3> QED
      BY <2>0, <1>1, <1>5, <1>6, <2>2, <3>1, Wheels
  <2> QED
    BY <2>1, <2>2
<1>14. phase' = "cascade" => g[level'] = start' + Granularity
  <2> SUFFICES ASSUME phase' = "cascade" PROVE g[level'] = start' + Granularity
    OBVIOUS
  <2>1. w + 1 \in Wheel /\ k + 1 = S /\ level' = w + 1 /\ start' = start
    BY <1>11, <1>12 DEF GoOn
  <2>2. f[w + 1] = n + G
    <3>1. (S - 1 - k) * p = 0
      BY <1>4, <2>1
    <3> QED
      BY <1>3, <1>10, <2>1, <3>1
  <2>3. w + 1 # w
    BY Wheels
  <2> QED
    BY <1>1, <1>5, <2>1, <2>2, <2>3
<1>15. ASSUME NEW v \in Wheel, v + 1 \in Wheel
       PROVE  g[v + 1] + (IF phase' = "cascade" /\ level' = v + 1 THEN Period(v + 1) ELSE 0)
                  = g[v] + (Size(v) - 1 - spokeindex'[v]) * Period(v)
  <2>0. v \in Nat /\ w \in Nat
    BY Wheels
  <2>1. CASE v + 1 = w
    <3>1. ~ (phase' = "cascade" /\ level' = v + 1) /\ v # w
      BY <1>12, <2>0, <2>1
    <3>2. phase = "cascade" /\ level = v + 1
      BY <2>0, <2>1
    <3>3. f[w] + p = f[v] + (Size(v) - 1 - spokeindex[v]) * Period(v)
      BY <1>4, <1>15, <2>1, <3>2 DEF Odometer
    <3>4. g[w] = f[w] + p /\ g[v] = f[v] /\ spokeindex'[v] = spokeindex[v] /\ g[w] + 0 = g[w]
      BY <1>3, <1>5, <1>7, <3>1
    <3> QED
      BY <2>1, <3>1, <3>3, <3>4
  <2>2. CASE v = w /\ k + 1 = S
    <3>1. phase' = "cascade" /\ level' = v + 1
      BY <1>11, <1>12, <1>15, <2>2
    <3>2. f[w + 1] = n + G
      <4>1. (S - 1 - k) * p = 0
        BY <1>4, <2>2
      <4> QED
        BY <1>3, <1>10, <1>15, <2>2, <4>1
    <3>3. Period(v + 1) = p * S /\ g[v + 1] = n + G
      BY <1>4, <1>5, <1>15, <2>0, <2>2, <3>2, Wheels
    <3>4. (Size(v) - 1 - spokeindex'[v]) * Period(v) = p * S - p /\ p * S \in Nat
      <4>1. (S - 1 - 0) * p = p * S - p /\ p * S \in Nat
        BY <1>4
      <4> QED
        BY <1>4, <1>7, <2>2, <4>1
    <3>5. g[v] = n + G + p
      BY <1>5, <2>2
    <3>6. n + G + p * S = n + G + p + (p * S - p)
      BY <3>4
    <3> QED
      BY <3>1, <3>3, <3>4, <3>5, <3>6
  <2>3. CASE v = w /\ k + 1 # S
    <3>1. phase' # "cascade"
      BY <1>11, <1>12, <2>3
    <3>2. g[v + 1] = f[w] + (S - 1 - k) * p /\ g[v + 1] + 0 = g[v + 1]
      BY <1>5, <1>10, <1>15, <2>0, <2>3
    <3>3. (Size(v) - 1 - spokeindex'[v]) * Period(v) = (S - 1 - k) * p - p /\ (S - 1 - k) * p \in Int
      <4>1. PICK d \in Int : d = S - 1 - k /\ d - 1 = S - 1 - (k + 1)
        BY <1>4
      <4>2. (d - 1) * p = d * p - p /\ d * p \in Int
        BY <1>4
      <4> QED
        BY <1>4, <1>7, <2>3, <4>1, <4>2
    <3>4. g[v] = n + G + p /\ f[w] = n + G
      BY <1>3, <1>5, <2>3
    <3>5. n + G + (S - 1 - k) * p = n + G + p + ((S - 1 - k) * p - p)
      BY <3>3
    <3> QED
      BY <3>1, <3>2, <3>3, <3>4, <3>5
  <2>4. CASE v + 1 # w /\ v # w
    <3>1. ~ (phase' = "cascade" /\ level' = v + 1)
      BY <1>12, <2>0, <2>4
    <3>2. ~ (phase = "cascade" /\ level = v + 1)
      BY <2>4
    <3>3. f[v + 1] + 0 = f[v] + (Size(v) - 1 - spokeindex[v]) * Period(v)
      BY <1>15, <3>2 DEF Odometer
    <3> QED
      BY <1>5, <1>7, <1>15, <2>4, <3>1, <3>3
  <2> QED
    BY <2>1, <2>2, <2>3, <2>4
<1>16. ASSUME NEW u \in Wheel, NEW v \in Wheel, u <= v, phase' = "cascade" => v < level' \/ level' <= u
       PROVE  g[u] <= g[v]
  <2>0. u \in Nat /\ v \in Nat /\ w \in Nat
    BY Wheels
  <2>1. \A a \in Wheel, b \in Wheel : a <= b /\ (w # 0 => b < w \/ w <= a) => f[a] <= f[b]
    BY DEF Odometer
  <2>2. \A a \in Wheel : a <= w => g[a] <= g[w]
    <3> SUFFICES ASSUME NEW a \in Wheel, a <= w PROVE g[a] <= g[w]
      OBVIOUS
    <3>1. g[a] <= n + G + Period(a) /\ Period(a) <= p /\ Period(a) \in Nat /\ g[a] \in Nat
      BY <1>4, <1>5, <1>9, PeriodsGrow, Wheels
    <3> QED
      BY <1>5, <3>1
  <2>3. CASE v < w
    <3>1. f[u] <= f[v] /\ u # w /\ v # w
      BY <1>16, <2>0, <2>1, <2>3
    <3> QED
      BY <1>5, <3>1
  <2>4. CASE v = w
    BY <1>16, <2>2, <2>4
  <2>5. CASE v > w /\ u > w
    <3>1. f[u] <= f[v] /\ u # w /\ v # w
      BY <1>16, <2>0, <2>1, <2>5
    <3> QED
      BY <1>5, <3>1
  <2>6. CASE v > w /\ u <= w
    <3>1. phase' # "cascade"
      BY <1>12, <1>16, <2>0, <2>6
    <3>2. w + 1 \in Wheel
      BY <2>0, <2>6, TimerAssumption DEF Wheel
    <3>3. k + 1 < S
      BY <1>4, <1>11, <1>12, <3>1, <3>2
    <3>4. f[w + 1] = n + G + (S - 1 - k) * p
      BY <1>3, <1>10, <3>2
    <3>5. 1 * p <= (S - 1 - k) * p
      BY <1>4, <3>3, Multiply
    <3>6. n + G + p <= f[w + 1]
      BY <1>4, <3>4, <3>5
    <3>7. f[w + 1] <= f[v] /\ v # w
      <4>1. w + 1 <= v /\ w <= w + 1
        BY <2>0, <2>6
      <4> QED
        BY <2>0, <2>1, <2>6, <3>2, <4>1
    <3>8. g[u] <= g[w] /\ g[w] = n + G + p /\ g[v] = f[v]
      BY <1>5, <2>2, <2>6, <3>7
    <3>9. g[u] \in Nat /\ f[w + 1] \in Nat /\ f[v] \in Nat
      BY <1>5, <3>2
    <3> QED
      BY <3>6, <3>7, <3>8, <3>9
  <2> QED
    BY <2>0, <2>3, <2>4, <2>5, <2>6
<1>17. \A v \in Wheel : g[v] <= start' + Period(v) + Turning'
  <2> SUFFICES ASSUME NEW v \in Wheel PROVE g[v] <= start' + Period(v) + Turning'
    OBVIOUS
  <2>1. PICK y \in Nat, z \in Nat : y = g[v] /\ z = Period(v) /\ y <= n + G + z
    BY <1>5, <1>9, Wheels
  <2>2. y <= m + z + x
    <3>1. m + x = n + G
      BY <1>6
    <3> QED
      BY <2>1, <3>1
  <2> QED
    BY <1>6, <2>1, <2>2
<1>18. Odometer(g)'
  BY <1>13, <1>14, <1>15, <1>16, <1>17 DEF Odometer
<1> QED
  BY <1>1, <1>3, <1>5, <1>9, <1>18

\* What a wheel that turns means for a timer that is not in its current spoke.
LEMMA TurnsOn ==
    ASSUME StateInv, NEW w \in Wheel, spokeindex' = Advanced(w),
           NEW f \in [Wheel -> Nat], NEW g, g = [f EXCEPT ![w] = @ + Period(w)],
           NEW t \in Timer, DealtInTime(f, t), place'[t] = place[t], due'[t] = due[t],
           place[t] # <<w, spokeindex[w]>>
    PROVE  DealtInTime(g, t)'
<1>1. TypeOK /\ place[t] \in {Ready, Off} \cup Spoke
  BY DEF StateInv, Placed
<1>2. CASE place[t] \in {Ready, Off}
  <2>1. place'[t][1] \notin Wheel
    BY <1>2, TimerAssumption DEF Ready, Off, Wheel
  <2> QED
    BY <2>1 DEF DealtInTime
<1>3. CASE place[t] \in Spoke
  <2>1. PICK v \in Wheel, s \in Nat : place[t] = <<v, s>> /\ s < Size(v)
    BY <1>3 DEF Spoke
  <2>2. f[v] + Ahead(v, s) * Period(v) <= due[t] + (IF v = 0 THEN Granularity ELSE 0)
    BY <2>1 DEF DealtInTime
  <2>3. g[v] + Ahead(v, s)' * Period(v) = f[v] + Ahead(v, s) * Period(v)
    <3>1. CASE v # w
      <4>1. g[v] = f[v] /\ Ahead(v, s)' = Ahead(v, s)
        BY <1>1, <3>1, Advance
      <4> QED
        BY <4>1
    <3>2. CASE v = w
      <4>1. s # spokeindex[w]
        BY <2>1, <3>2
      <4>2. PICK a \in Nat : a = Ahead(v, s) /\ Ahead(v, s)' = a - 1
        BY <1>1, <2>1, <3>2, <4>1, Advance
      <4>3. PICK p \in Nat, x \in Nat : p = Period(v) /\ x = f[v] /\ g[v] = x + p
        BY <3>2, Wheels
      <4>4. (a - 1) * p = a * p - p /\ a * p \in Int
        BY <4>3
      <4>5. x + p + (a * p - p) = x + a * p
        BY <4>4
      <4> QED
        BY <4>2, <4>3, <4>4, <4>5
    <3> QED
      BY <3>1, <3>2
  <2>4. place'[t] = <<v, s>>
    BY <2>1
  <2> QED
    BY <2>2, <2>3, <2>4 DEF DealtInTime
<1> QED
  BY <1>1, <1>2, <1>3

\* A timer of the current spoke of a wheel is not ready too late.
LEMMA CurrentInTime ==
    ASSUME StateInv, NEW w \in Wheel, NEW f \in [Wheel -> Nat], f[w] = start + Granularity,
           NEW t \in Timer, DealtInTime(f, t), place[t] = <<w, spokeindex[w]>>
    PROVE  start <= due[t]
<1>1. PICK n \in Nat, d \in Nat, G \in Nat : n = start /\ d = due[t] /\ G = Granularity
  BY TimerAssumption DEF StateInv, TypeOK
<1>2. Ahead(w, spokeindex[w]) = 0 /\ 0 * Period(w) = 0
  <2>1. spokeindex[w] \in Nat /\ Period(w) \in Nat
    BY Wheels DEF StateInv, TypeOK
  <2> QED
    BY <2>1 DEF Ahead
<1>3. place[t][1] = w /\ place[t][2] = spokeindex[w]
  OBVIOUS
<1>4. f[w] + 0 <= due[t] + (IF w = 0 THEN Granularity ELSE 0)
  BY <1>2, <1>3 DEF DealtInTime
<1>5. n + G + 0 <= d + (IF w = 0 THEN G ELSE 0)
  BY <1>1, <1>4
<1> QED
  BY <1>1, <1>5

\* What the wheels turn through is what is left to turn less.
LEMMA TurnedThrough ==
    ASSUME StateInv, NEW w \in Wheel, GoOn(w)
    PROVE  start' + loops' * Granularity = start + loops * Granularity
<1>1. PICK n \in Nat, l \in Nat, G \in Nat : n = start /\ l = loops /\ G = Granularity
  BY TimerAssumption DEF StateInv, TypeOK
<1>2. CASE Cascaded(w)
  BY <1>2 DEF GoOn
<1>3. CASE ~ Cascaded(w)
  <2>1. start' = n + G /\ loops' = l - 1
    BY <1>1, <1>3 DEF GoOn
  <2>2. (l - 1) * G = l * G - G /\ l * G \in Nat
    BY <1>1
  <2>3. n + G + (l * G - G) = n + l * G
    BY <2>2
  <2> QED
    BY <1>1, <2>1, <2>2, <2>3
<1> QED
  BY <1>2, <1>3

\* Every step keeps the timers from being late.
LEMMA InTimeNext ==
    ASSUME StepsOutlastLag, StateInv, StateInv', InTimeInv, [Next]_vars
    PROVE  InTimeInv'
<1>1. PICK f \in [Wheel -> Nat] : Odometer(f) /\ \A t \in Timer : DealtInTime(f, t)
  BY DEF InTimeInv
<1>2. \A t \in Timer : ReadyInTime(t)
  BY DEF InTimeInv
<1>3. TypeOK /\ Behind /\ place \in [Timer -> {Ready, Off} \cup Spoke]
  BY DEF StateInv, Placed
<1>4. /\ now \in Nat /\ start \in Nat /\ loops \in Nat /\ level \in Wheel
      /\ due \in [Timer -> Nat] /\ \A t \in Timer : due[t] \in Nat /\ step[t] \in Nat
  BY <1>3, TypeOKParts
<1>5. PICK G \in Nat \ {0}, M \in Nat : G = Granularity /\ M = MaxLag
  BY TimerAssumption
<1>6. PICK lg \in Nat : lg = loops * Granularity /\ start + lg <= now /\ lg <= M /\ start <= now
  <2>1. PICK x \in Nat : x = loops * G
    BY <1>4
  <2>2. start + x <= now /\ x <= M
    BY <1>3, <1>5, <2>1 DEF Behind
  <2>3. start <= now
    BY <1>4, <2>2
  <2> QED
    BY <1>5, <2>1, <2>2, <2>3
<1>7. ASSUME NEW g \in [Wheel -> Nat], Odometer(g)',
             \A t \in Timer : DealtInTime(g, t)' /\ ReadyInTime(t)'
      PROVE  InTimeInv'
  BY <1>7 DEF InTimeInv
<1>8. \A w \in Wheel : phase # "cascade" => f[w] <= start + Period(w)
  <2> SUFFICES ASSUME NEW w \in Wheel, phase # "cascade" PROVE f[w] <= start + Period(w)
    OBVIOUS
  <2>1. Turning = 0
    BY DEF Turning
  <2>2. f[w] <= start + Period(w) + 0 /\ Period(w) \in Nat
    BY <1>1, <2>1, Wheels DEF Odometer
  <2> QED
    BY <1>4, <2>2
<1>9. ASSUME start' = start, spokeindex' = spokeindex, phase # "cascade", phase' # "cascade",
             NEW t \in Timer,
             \A u \in Timer : u # t => /\ place'[u] = place[u] /\ due'[u] = due[u]
                                       /\ loops' = loops,
             DealtInTime(f, t)' /\ ReadyInTime(t)'
      PROVE  InTimeInv'
  <2>1. /\ Odometer(f)'
        /\ \A u \in Timer : DealtInTime(f, u) /\ place'[u] = place[u] /\ due'[u] = due[u]
               => DealtInTime(f, u)'
    BY <1>1, <1>9, OdometerStill
  <2>2. ASSUME NEW u \in Timer, u # t PROVE DealtInTime(f, u)' /\ ReadyInTime(u)'
    <3>1. place'[u] = place[u] /\ due'[u] = due[u] /\ loops' = loops
      BY <1>9, <2>2
    <3> QED
      BY <1>1, <1>2, <1>9, <2>1, <3>1 DEF ReadyInTime
  <2> QED
    BY <1>7, <1>9, <2>1, <2>2
<1>10. ASSUME NEW t \in Timer, NEW s \in Steps, NEW d \in Delays, AddTimer(t, s, d)
       PROVE  InTimeInv'
  <2>1. /\ phase \in {"idle", "fire"} /\ now' = now /\ phase' = phase
        /\ start' = start /\ spokeindex' = spokeindex /\ loops' = loops
        /\ due' = [due EXCEPT ![t] = now + d]
        /\ place' = [place EXCEPT ![t] = Node(now + d - start)]
    BY <1>10 DEF AddTimer, turn
  <2>2. DealtInTime(f, t)' /\ ReadyInTime(t)'
    <3>1. d \in Nat
      BY TimerAssumption
    <3>2. PICK ms \in Nat : ms = now + d - start /\ start + ms = now + d
      <4>1. now + d - start \in Nat /\ start + (now + d - start) = now + d
        BY <1>4, <1>6, <3>1
      <4> QED
        BY <4>1
    <3>3. place'[t] = Node(ms) /\ due'[t] = start + ms
      BY <1>3, <1>4, <2>1, <3>2
    <3>4. \A w \in Wheel : f[w] <= start + Period(w)
      BY <1>8, <2>1
    <3> QED
      BY <1>4, <3>3, <3>4, InTimeDealt
  <2>3. \A u \in Timer : u # t => /\ place'[u] = place[u] /\ due'[u] = due[u]
                                  /\ loops' = loops
    BY <1>3, <1>4, <2>1
  <2> QED
    BY <1>9, <2>1, <2>2, <2>3
<1>11. ASSUME NEW t \in Timer, Fire(t) PROVE InTimeInv'
  <2>1. /\ phase = "fire" /\ now' = now /\ phase' = phase /\ place[t] = Ready
        /\ start' = start /\ spokeindex' = spokeindex /\ loops' = loops
    BY <1>11 DEF Fire, turn
  <2>2. \A u \in Timer : u # t => /\ place'[u] = place[u] /\ due'[u] = due[u]
                                  /\ loops' = loops
    BY <1>3, <1>4, <1>11, <2>1 DEF Fire
  <2>3. CASE step[t] = 0
    <3>1. place'[t] = Off
      BY <1>3, <1>11, <2>3 DEF Fire
    <3>2. DealtInTime(f, t)' /\ ReadyInTime(t)'
      <4>1. Off # Ready /\ Off[1] \notin Wheel
        BY TimerAssumption DEF Off, Ready, Wheel
      <4> QED
        BY <3>1, <4>1 DEF DealtInTime, ReadyInTime
    <3> QED
      BY <1>9, <2>1, <2>2, <3>2
  <2>4. CASE step[t] # 0
    <3>1. /\ due' = [due EXCEPT ![t] = @ + step[t]]
          /\ place' = [place EXCEPT ![t] = Node(due[t] + step[t] - start)]
      BY <1>11, <2>4 DEF Fire
    <3>2. start <= due[t] + step[t]
      <4>1. step[t] \in Steps \ {0}
        BY <1>3, <2>4 DEF TypeOK
      <4>2. M <= step[t]
        BY <1>5, <4>1 DEF StepsOutlastLag
      <4>3. start + lg <= due[t] + M
        BY <1>2, <1>5, <1>6, <2>1 DEF ReadyInTime
      <4> QED
        BY <1>4, <4>2, <4>3
    <3>3. PICK ms \in Nat : ms = due[t] + step[t] - start /\ start + ms = due[t] + step[t]
      <4>1. /\ due[t] + step[t] - start \in Nat
            /\ start + (due[t] + step[t] - start) = due[t] + step[t]
        BY <1>4, <3>2
      <4> QED
        BY <4>1
    <3>4. place'[t] = Node(ms) /\ due'[t] = start + ms
      BY <1>3, <1>4, <3>1, <3>3
    <3>5. \A w \in Wheel : f[w] <= start + Period(w)
      BY <1>8, <2>1
    <3>6. DealtInTime(f, t)' /\ ReadyInTime(t)'
      BY <1>4, <3>4, <3>5, InTimeDealt
    <3> QED
      BY <1>9, <2>1, <2>2, <3>6
  <2> QED
    BY <2>3, <2>4
<1>12. ASSUME NEW t \in Timer, Drop(t) PROVE InTimeInv'
  <2>1. /\ phase = "fire" /\ now' = now /\ phase' = phase /\ start' = start
        /\ spokeindex' = spokeindex /\ due' = due /\ loops' = loops
        /\ place' = [place EXCEPT ![t] = Off]
    BY <1>12 DEF Drop, turn
  <2>2. \A u \in Timer : u # t => /\ place'[u] = place[u] /\ due'[u] = due[u]
                                  /\ loops' = loops
    BY <1>3, <2>1
  <2>3. DealtInTime(f, t)' /\ ReadyInTime(t)'
    <3>1. Off # Ready /\ Off[1] \notin Wheel
      BY TimerAssumption DEF Off, Ready, Wheel
    <3>2. place'[t] = Off
      BY <1>3, <2>1
    <3> QED
      BY <3>1, <3>2 DEF DealtInTime, ReadyInTime
  <2> QED
    BY <1>9, <2>1, <2>2, <2>3
<1>13. ASSUME NEW w \in Wheel, spokeindex' = Advanced(w), GoOn(w),
              \/ phase = "turn" /\ w = 0
              \/ phase = "cascade" /\ w = level /\ w # 0,
              due' = due,
              \A u \in Timer : place[u] # <<w, spokeindex[w]>> => place'[u] = place[u],
              \A u \in Timer : place[u] = <<w, spokeindex[w]>> =>
                  \/ place'[u] = Ready
                  \/ due[u] > now /\ place'[u] = Node(due[u] - now)
       PROVE  InTimeInv'
  <2>1. PICK g : g = [f EXCEPT ![w] = @ + Period(w)]
    OBVIOUS
  <2>2. /\ g \in [Wheel -> Nat] /\ Odometer(g)' /\ f[w] = start + Granularity
        /\ \A v \in Wheel : g[v] <= start + Granularity + Period(v)
    BY <1>1, <1>13, <2>1, OdometerTurns
  <2>3. start' + loops' * Granularity = start + loops * Granularity
    BY <1>13, TurnedThrough
  <2>4. ASSUME NEW u \in Timer PROVE DealtInTime(g, u)' /\ ReadyInTime(u)'
    <3>1. CASE place[u] # <<w, spokeindex[w]>>
      <4>1. place'[u] = place[u] /\ due'[u] = due[u]
        BY <1>13, <3>1
      <4>2. DealtInTime(g, u)'
        BY <1>1, <1>13, <2>1, <3>1, <4>1, TurnsOn
      <4>3. ReadyInTime(u)'
        BY <1>2, <2>3, <4>1 DEF ReadyInTime
      <4> QED
        BY <4>2, <4>3
    <3>2. CASE place[u] = <<w, spokeindex[w]>> /\ place'[u] = Ready
      <4>1. start <= due[u]
        BY <1>1, <2>2, <3>2, CurrentInTime
      <4>2. start + lg <= due[u] + M
        BY <1>4, <1>6, <4>1
      <4>3. ReadyInTime(u)'
        BY <1>5, <1>6, <1>13, <2>3, <4>2 DEF ReadyInTime
      <4>4. DealtInTime(g, u)'
        BY <3>2, TimerAssumption DEF DealtInTime, Ready, Wheel
      <4> QED
        BY <4>3, <4>4
    <3>3. CASE place[u] = <<w, spokeindex[w]>> /\ due[u] > now /\ place'[u] = Node(due[u] - now)
      <4>1. PICK ms \in Nat : ms = due[u] - now /\ now + ms = due[u]
        <5>1. due[u] - now \in Nat /\ now + (due[u] - now) = due[u]
          BY <1>4, <3>3
        <5> QED
          BY <5>1
      <4>2. start + Granularity <= now
        <5>1. loops > 0
          <6>1. Behind'
            BY DEF StateInv
          <6>2. CASE phase = "cascade"
            BY <1>3, <6>2 DEF Behind
          <6>3. CASE phase = "turn"
            <7>1. loops' \in Nat
              BY DEF StateInv, TypeOK
            <7>2. CASE Cascaded(w)
              BY <1>4, <1>13, <6>1, <7>1, <7>2 DEF GoOn, Behind
            <7>3. CASE ~ Cascaded(w)
              BY <1>4, <1>13, <7>1, <7>3 DEF GoOn
            <7> QED
              BY <7>2, <7>3
          <6> QED
            BY <1>13, <6>2, <6>3
        <5>2. 1 * G <= loops * G
          BY <1>4, <5>1, Multiply
        <5>3. G <= lg
          BY <1>5, <1>6, <5>2
        <5> QED
          BY <1>4, <1>5, <1>6, <5>3
      <4>3. \A v \in Wheel : g[v] <= now + Period(v)
        <5> SUFFICES ASSUME NEW v \in Wheel PROVE g[v] <= now + Period(v)
          OBVIOUS
        <5>1. PICK x \in Nat, p \in Nat : x = g[v] /\ p = Period(v) /\ x <= start + G + p
          BY <1>5, <2>2, Wheels
        <5>2. start + G <= now
          BY <1>5, <4>2
        <5>3. x <= now + p
          BY <1>4, <5>1, <5>2
        <5> QED
          BY <5>1, <5>3
      <4>4. place'[u] = Node(ms) /\ due'[u] = now + ms
        BY <1>13, <3>3, <4>1
      <4> QED
        BY <1>4, <2>2, <4>3, <4>4, InTimeDealt
    <3> QED
      BY <1>13, <3>1, <3>2, <3>3
  <2> QED
    BY <1>7, <2>2, <2>4
<1>14. CASE Turn
  <2>1. /\ phase = "turn" /\ due' = due /\ spokeindex' = Advanced(0) /\ GoOn(0)
        /\ place' = [t \in Timer |-> IF place[t] = <<0, spokeindex[0]>> THEN Ready ELSE place[t]]
    BY <1>14 DEF Turn
  <2>2. \A u \in Timer : /\ place[u] # <<0, spokeindex[0]>> => place'[u] = place[u]
                         /\ place[u] = <<0, spokeindex[0]>> => place'[u] = Ready
    BY <2>1
  <2> QED
    BY <1>13, <2>1, <2>2, Wheels
<1>15. CASE Cascade
  <2>1. /\ phase = "cascade" /\ due' = due /\ spokeindex' = Advanced(level) /\ GoOn(level)
        /\ place' = [t \in Timer |-> IF place[t] # <<level, spokeindex[level]>> THEN place[t]
                                     ELSE IF due[t] <= now THEN Ready ELSE Node(due[t] - now)]
    BY <1>15 DEF Cascade
  <2>2. level # 0
    BY <1>3, <2>1 DEF Behind
  <2>3. ASSUME NEW u \in Timer
        PROVE  /\ place[u] # <<level, spokeindex[level]>> => place'[u] = place[u]
               /\ place[u] = <<level, spokeindex[level]>> =>
                      \/ place'[u] = Ready
                      \/ due[u] > now /\ place'[u] = Node(due[u] - now)
    <3>1. place[u] # <<level, spokeindex[level]>> => place'[u] = place[u]
      BY <2>1
    <3>2. place[u] = <<level, spokeindex[level]>> =>
              place'[u] = IF due[u] <= now THEN Ready ELSE Node(due[u] - now)
      BY <2>1
    <3>3. due[u] <= now \/ due[u] > now
      BY <1>4
    <3> QED
      BY <1>4, <3>1, <3>2, <3>3
  <2> QED
    BY <1>4, <1>13, <2>1, <2>2, <2>3
<1>16. ASSUME UNCHANGED <<start, spokeindex, place, due>>,
              \/ phase' = phase /\ level' = level
              \/ phase # "cascade" /\ phase' # "cascade",
              loops' = loops \/ \A t \in Timer : place[t] # Ready
       PROVE  InTimeInv'
  <2>1. Odometer(f)' /\ \A t \in Timer : DealtInTime(f, t)'
    BY <1>1, <1>16, OdometerStill
  <2>2. \A t \in Timer : ReadyInTime(t)'
    BY <1>2, <1>16 DEF ReadyInTime
  <2> QED
    BY <1>7, <2>1, <2>2
<1>17. CASE DetectTimerList
  <2>1. \A t \in Timer : place[t] # Ready
    BY <1>17 DEF DetectTimerList, StateInv, Placed
  <2> QED
    BY <1>16, <1>17, <2>1 DEF DetectTimerList, timers
<1>18. CASE EndTurn
  BY <1>16, <1>18 DEF EndTurn, turn, timers
<1>19. CASE EndFire
  BY <1>16, <1>19 DEF EndFire, turn, timers
<1>20. CASE Tick
  BY <1>16, <1>20 DEF Tick, turn, timers
<1>21. ASSUME NEW t \in Timer, Disconnect(t) PROVE InTimeInv'
  BY <1>16, <1>21 DEF Disconnect, turn
<1>22. CASE UNCHANGED vars
  BY <1>16, <1>22 DEF vars, turn, timers
<1> QED
  BY <1>10, <1>11, <1>12, <1>14, <1>15, <1>17, <1>18, <1>19, <1>20, <1>21, <1>22 DEF Next, LoopStep

\* When the wheels have been turned past the time of an event, its timer is not
\* in them any more, if the loop is never behind by a whole step.
THEOREM NeverLate == ASSUME StepsOutlastLag PROVE Spec => []OnTime
<1>1. Init => InTimeInv
  BY InTimeInit
<1>2. StateInv /\ StateInv' /\ InTimeInv /\ [Next]_vars => InTimeInv'
  BY InTimeNext
<1>3. StateInv /\ InTimeInv => OnTime
  BY OnTimeHolds
<1> QED
  BY <1>1, <1>2, <1>3, StateInductive, PTL DEF Spec
=============================================================================
