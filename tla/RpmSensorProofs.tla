--------------------------- MODULE RpmSensorProofs ---------------------------
(***************************************************************************)
(* Proofs about RpmSensor: what the mean of the samples can be, and that a *)
(* running engine is declared stopped only for a cause.                    *)
(***************************************************************************)
EXTENDS RpmSensorProps, FiniteSetTheorems, WellFoundedInduction, TLAPS

-----------------------------------------------------------------------------
(* The sum of the samples is a recursive function: what it computes is     *)
(* proved by induction, with the predicate as the set S of the numbers     *)
(* that satisfy it.                                                        *)

\* A set with 0, and with n + 1 for every n in it, has every natural number: otherwise the
\* ones it lacks would have a least one.
LEMMA SetInduction ==
  ASSUME NEW S, 0 \in S, \A n \in Nat : n \in S => n + 1 \in S
  PROVE  \A n \in Nat : n \in S
<1> DEFINE T == Nat \ S
           R == OpToRel(<, Nat)
<1>1. IsWellFoundedOn(R, Nat)
  BY NatLessThanWellFounded
<1>2. ASSUME NEW x \in Nat, x + 1 \in Nat PROVE <<x, x + 1>> \in R
  BY DEF OpToRel
<1> HIDE DEF R
<1>3. SUFFICES ASSUME T # {} PROVE FALSE
  OBVIOUS
<1>4. PICK x \in T : \A y \in T : ~ (<<y, x>> \in R)
  BY <1>1, <1>3, WFMin
<1>5. x \in Nat /\ x # 0 /\ x - 1 \in Nat /\ (x - 1) + 1 = x
  OBVIOUS
<1>6. <<x - 1, (x - 1) + 1>> \in R
  BY <1>2, <1>5
<1>7. <<x - 1, x>> \in R
  BY <1>5, <1>6
<1>8. x - 1 \notin T
  BY <1>4, <1>7
<1>9. QED
  BY <1>5, <1>8

Sample == [rpm : Levels, lost : BOOLEAN]

LEMMA LevelsAreNumbers == Levels \subseteq Nat
BY SensorAssumption DEF Levels

\* h holds the sums of the first i samples of f, for every i to n.
SumsTo(f, n, h) == h = [i \in 0..n |-> IF i = 0 THEN 0 ELSE h[i - 1] + f[i].rpm]

\* There are such sums for every sequence, so that the definition of Total has a value.
LEMMA SumsExist ==
  ASSUME NEW f \in Seq(Sample)
  PROVE  \E h : SumsTo(f, Len(f), h)
<1> DEFINE S == {n \in Nat : \E h : SumsTo(f, n, h)}
<1>1. 0 \in S
  <2> DEFINE h == [i \in 0..0 |-> 0]
  <2>1. SumsTo(f, 0, h)
    BY DEF SumsTo
  <2>2. QED
    BY <2>1
<1>2. ASSUME NEW n \in Nat, n \in S PROVE n + 1 \in S
  <2>1. PICK h : SumsTo(f, n, h)
    BY <1>2
  <2> DEFINE g == [i \in 0..(n + 1) |-> IF i <= n THEN h[i] ELSE h[n] + f[n + 1].rpm]
  <2>2. ASSUME NEW i \in 0..(n + 1)
        PROVE  g[i] = IF i = 0 THEN 0 ELSE g[i - 1] + f[i].rpm
    <3>1. CASE i <= n
      <4>1. g[i] = h[i] /\ (i # 0 => g[i - 1] = h[i - 1])
        BY <3>1
      <4>2. h[i] = IF i = 0 THEN 0 ELSE h[i - 1] + f[i].rpm
        BY <2>1, <3>1 DEF SumsTo
      <4>3. QED
        BY <4>1, <4>2
    <3>2. CASE i = n + 1
      BY <3>2
    <3>3. QED
      BY <3>1, <3>2
  <2>3. SumsTo(f, n + 1, g)
    BY <2>2 DEF SumsTo
  <2> HIDE DEF g
  <2>4. QED
    BY <2>3
<1>3. \A n \in Nat : n \in S
  <2> HIDE DEF S
  <2>1. QED
    BY <1>1, <1>2, SetInduction
<1>4. QED
  BY <1>3

\* Total is the last of the sums: the first is 0 and each next one adds a sample.
LEMMA TotalIsSum ==
  ASSUME NEW f \in Seq(Sample)
  PROVE  \E h : /\ h \in [0..Len(f) -> Nat] /\ h[0] = 0
                /\ \A i \in 1..Len(f) : h[i] = h[i - 1] + f[i].rpm
                /\ Total(f) = h[Len(f)]
<1> DEFINE h == CHOOSE g : g = [i \in 0..Len(f) |-> IF i = 0 THEN 0 ELSE g[i - 1] + f[i].rpm]
<1>1. Total(f) = h[Len(f)]
  BY DEF Total
<1>2. SumsTo(f, Len(f), h)
  BY SumsExist DEF SumsTo
<1> HIDE DEF h
<1>3. /\ h = [i \in 0..Len(f) |-> h[i]] /\ h[0] = 0
      /\ \A i \in 1..Len(f) : h[i] = h[i - 1] + f[i].rpm
  BY <1>2 DEF SumsTo
<1> DEFINE S == {n \in Nat : n <= Len(f) => h[n] \in Nat}
<1>4. \A n \in Nat : n \in S
  <2>1. 0 \in S
    BY <1>3
  <2>2. ASSUME NEW n \in Nat, n \in S PROVE n + 1 \in S
    <3>1. CASE n + 1 <= Len(f)
      <4>1. n + 1 \in 1..Len(f) /\ (n + 1) - 1 = n
        BY <3>1
      <4>2. h[n + 1] = h[n] + f[n + 1].rpm
        BY <1>3, <4>1
      <4>3. f[n + 1] \in Sample
        BY <4>1
      <4>4. f[n + 1].rpm \in Levels
        BY <4>3 DEF Sample
      <4>5. f[n + 1].rpm \in Nat
        BY <4>4, LevelsAreNumbers
      <4>6. QED
        BY <2>2, <3>1, <4>2, <4>5
    <3>2. QED
      BY <3>1
  <2> HIDE DEF S
  <2>3. QED
    BY <2>1, <2>2, SetInduction
<1>5. h \in [0..Len(f) -> Nat]
  <2>1. \A i \in 0..Len(f) : h[i] \in Nat
    BY <1>4
  <2>2. QED
    BY <1>3, <2>1
<1>6. QED
  BY <1>1, <1>3, <1>5

-----------------------------------------------------------------------------
(* The mean.                                                               *)

LEMMA ProductIsNatural == \A a, b \in Nat : a * b \in Nat
OBVIOUS

LEMMA ProductGrows ==
  ASSUME NEW a \in Nat, NEW b \in Nat, NEW d \in Nat, a <= b
  PROVE  d * a <= d * b
<1>1. b - a \in Nat /\ b = a + (b - a)
  OBVIOUS
<1>2. d * b = d * a + d * (b - a)
  BY <1>1
<1>3. d * (b - a) \in Nat /\ d * a \in Nat
  BY <1>1, ProductIsNatural
<1>4. QED
  BY <1>2, <1>3

LEMMA FactorCancels ==
  ASSUME NEW x \in Nat, NEW y \in Nat, NEW d \in Nat, d >= 1, d * x >= d * y
  PROVE  x >= y
<1>1. SUFFICES ASSUME x + 1 <= y PROVE FALSE
  OBVIOUS
<1>2. d * (x + 1) <= d * y
  BY <1>1, ProductGrows
<1>3. d * (x + 1) = d * x + d
  OBVIOUS
<1>4. d * x \in Nat
  BY ProductIsNatural
<1>5. QED
  BY <1>2, <1>3, <1>4

LEMMA QuotientAtLeast ==
  ASSUME NEW x \in Nat, NEW n \in Nat, n >= 1, NEW t \in Nat, x >= n * t
  PROVE  x \div n >= t
<1> DEFINE q == x \div n
<1>1. q \in Nat /\ x < n * q + n
  OBVIOUS
<1> HIDE DEF q
<1>2. CASE q + 1 <= t
  <2>1. n * (q + 1) <= n * t
    BY <1>1, <1>2, ProductGrows
  <2>2. n * (q + 1) = n * q + n
    BY <1>1
  <2>3. n * q \in Nat
    BY <1>1, ProductIsNatural
  <2>4. QED
    BY <1>1, <2>1, <2>2, <2>3
<1>3. CASE q >= t
  BY <1>3 DEF q
<1>4. QED
  BY <1>1, <1>2, <1>3

LEMMA MeanIsNatural ==
  ASSUME NEW f \in Seq(Sample), Len(f) > 0
  PROVE  Filtered(f) \in Nat
<1>1. PICK h : h \in [0..Len(f) -> Nat] /\ Total(f) = h[Len(f)]
  BY TotalIsSum
<1>2. Len(f) \in Nat /\ Total(f) \in Nat
  BY <1>1
<1>3. QED
  BY <1>2 DEF Filtered

\* When all samples but sample j are as fast as a mean of t needs without it, the mean of
\* all of them is not below t: the sums times the others keep pace with the samples.
THEOREM OneSampleIsForgiven ==
  ASSUME NEW f \in Seq(Sample), Len(f) > 1, NEW j \in 1..Len(f), NEW t \in Nat,
         \A i \in 1..Len(f) : i # j => f[i].rpm * (Len(f) - 1) >= Len(f) * t
  PROVE  Filtered(f) >= t
<1> DEFINE n == Len(f)
           d == n - 1
           c == n * t
<1>1. n \in Nat /\ n > 1 /\ d \in Nat /\ d >= 1 /\ c \in Nat
  OBVIOUS
<1>2. PICK h : /\ h \in [0..n -> Nat] /\ h[0] = 0
               /\ \A i \in 1..n : h[i] = h[i - 1] + f[i].rpm
               /\ Total(f) = h[n]
  BY TotalIsSum
<1>3. \A i \in 1..n : f[i].rpm \in Nat
  <2>1. \A i \in 1..n : f[i] \in Sample
    OBVIOUS
  <2>2. QED
    BY <2>1, LevelsAreNumbers DEF Sample
<1>4. \A i \in 1..n : i # j => f[i].rpm * d >= c
  OBVIOUS
<1> DEFINE owed(k) == IF k < j THEN k ELSE k - 1
           S == {k \in Nat : k <= n => h[k] * d >= owed(k) * c}
<1>5. \A k \in Nat : k \in S
  <2>1. 0 \in S
    BY <1>1, <1>2
  <2>2. ASSUME NEW k \in Nat, k \in S PROVE k + 1 \in S
    <3>1. SUFFICES ASSUME k + 1 <= n PROVE h[k + 1] * d >= owed(k + 1) * c
      OBVIOUS
    <3>2. k + 1 \in 1..n /\ k \in 0..n /\ (k + 1) - 1 = k
      BY <1>1, <3>1
    <3>3. h[k] \in Nat /\ f[k + 1].rpm \in Nat /\ h[k + 1] = h[k] + f[k + 1].rpm
      BY <1>2, <1>3, <3>2
    <3>4. h[k] * d >= owed(k) * c
      BY <2>2, <3>1
    <3> DEFINE r == f[k + 1].rpm
    <3>5. h[k + 1] * d = h[k] * d + r * d
      <4>1. d \in Nat
        BY <1>1
      <4>2. ASSUME NEW a \in Nat, NEW b \in Nat PROVE (a + b) * d = a * d + b * d
        BY <4>1
      <4>3. QED
        BY <3>3, <4>2
    <3>6. h[k] * d \in Nat /\ r * d \in Nat
      BY <1>1, <3>3, ProductIsNatural
    <3>7. CASE k + 1 = j
      <4>1. owed(k + 1) = owed(k)
        BY <3>7
      <4>2. owed(k) * c \in Nat
        BY <1>1, <3>7, ProductIsNatural
      <4> HIDE DEF owed, d, c, r
      <4>3. QED
        BY <3>4, <3>5, <3>6, <4>1, <4>2
    <3>8. CASE k + 1 # j
      <4>1. owed(k + 1) = owed(k) + 1 /\ owed(k) \in Int
        BY <3>8
      <4>2. owed(k + 1) * c = owed(k) * c + c /\ owed(k) * c \in Int
        BY <1>1, <4>1
      <4>3. r * d >= c
        BY <1>4, <3>2, <3>8
      <4>4. QED
        BY <1>1, <3>4, <3>5, <3>6, <4>2, <4>3
    <3>9. QED
      BY <3>7, <3>8
  <2> HIDE DEF S
  <2>3. QED
    BY <2>1, <2>2, SetInduction
<1>6. h[n] \in Nat /\ h[n] * d >= d * c
  <2>1. n \in S
    BY <1>1, <1>5
  <2>2. n <= n /\ owed(n) = d
    BY <1>1
  <2> HIDE DEF owed, d, c
  <2>3. QED
    BY <1>1, <1>2, <2>1, <2>2
<1>7. h[n] >= c
  <2>1. d * h[n] >= d * c
    BY <1>1, <1>6
  <2> HIDE DEF d, c
  <2>2. QED
    BY <1>1, <1>6, <2>1, FactorCancels
<1>8. Filtered(f) = h[n] \div n
  BY <1>2 DEF Filtered
<1> HIDE DEF n
<1>9. h[n] \div n >= t
  BY <1>1, <1>6, <1>7, QuotientAtLeast
<1>10. QED
  BY <1>8, <1>9

-----------------------------------------------------------------------------
(* The invariant: the values have their types, and between the update of   *)
(* the filter and the call of the controller the last sample is the speed  *)
(* just calculated.                                                        *)

SampleIsLast ==
  step \in {"reset", "tell"} => Len(filter) > 0 /\ filter[Len(filter)].rpm = raw

SensorInv == TypeOK /\ SampleIsLast

LEMMA PushedIsFilter ==
  ASSUME NEW f \in Seq(Sample), Len(f) <= Samples, NEW r \in Levels, NEW l \in BOOLEAN
  PROVE  /\ Pushed(f, r, l) \in Seq(Sample)
         /\ Len(Pushed(f, r, l)) \in 1..Samples
         /\ Pushed(f, r, l)[Len(Pushed(f, r, l))] = [rpm |-> r, lost |-> l]
<1> DEFINE s == [rpm |-> r, lost |-> l]
           g == Append(f, s)
<1>1. s \in Sample
  BY DEF Sample
<1>2. g \in Seq(Sample) /\ Len(g) = Len(f) + 1 /\ g[Len(f) + 1] = s
  BY <1>1
<1>3. CASE Len(g) > Samples
  <2>1. Pushed(f, r, l) = Tail(g)
    BY <1>3 DEF Pushed
  <2>2. Tail(g) \in Seq(Sample) /\ Len(Tail(g)) = Len(f) /\ Len(f) = Samples
    BY <1>2, <1>3, SensorAssumption
  <2> HIDE DEF g
  <2>3. Tail(g)[Len(f)] = s
    BY <1>2, <2>2, SensorAssumption
  <2>4. QED
    BY <2>1, <2>2, <2>3, SensorAssumption
<1>4. CASE ~(Len(g) > Samples)
  <2>1. Pushed(f, r, l) = g
    BY <1>4 DEF Pushed
  <2> HIDE DEF g
  <2>2. QED
    BY <1>2, <1>4, <2>1, SensorAssumption
<1>5. QED
  BY <1>3, <1>4

LEMMA SensorInit == Init => SensorInv
<1> SUFFICES ASSUME Init PROVE SensorInv
  OBVIOUS
<1>1. filter \in Seq([rpm : Levels, lost : BOOLEAN]) /\ Len(filter) = 0
  BY DEF Init
<1>2. age \in 0..Timeout /\ Len(filter) <= Samples
  BY <1>1, SensorAssumption DEF Init
<1>3. QED
  BY <1>1, <1>2 DEF Init, SensorInv, TypeOK, SampleIsLast, Levels

LEMMA SensorStep == SensorInv /\ [Next]_vars => SensorInv'
<1> SUFFICES ASSUME SensorInv, [Next]_vars PROVE SensorInv'
  OBVIOUS
<1> USE SensorAssumption DEF SensorInv, TypeOK, SampleIsLast, pulses
<1>1. CASE Pulse
  BY <1>1 DEF Pulse, Levels
<1>2. CASE Turn
  BY <1>2 DEF Turn
<1>3. CASE Calculate
  <2>1. age' \in 0..Timeout
    BY <1>3 DEF Calculate
  <2>2. QED
    BY <1>3, <2>1 DEF Calculate
<1>4. CASE ReadPulses
  BY <1>4 DEF ReadPulses, Levels
<1>5. CASE Update
  <2>1. filter \in Seq(Sample) /\ Len(filter) <= Samples /\ raw \in Levels /\ lost \in BOOLEAN
    BY DEF Sample
  <2>2. filter' = Pushed(filter, raw, lost) /\ raw' = raw
    BY <1>5 DEF Update
  <2>3. /\ filter' \in Seq(Sample) /\ Len(filter') \in 1..Samples
        /\ filter'[Len(filter')] = [rpm |-> raw, lost |-> lost]
    BY <2>1, <2>2, PushedIsFilter
  <2>4. SampleIsLast'
    BY <2>2, <2>3
  <2>5. deaf' \in BOOLEAN
    BY <1>5 DEF Update, TooFast
  <2>6. filter' \in Seq([rpm : Levels, lost : BOOLEAN]) /\ Len(filter') <= Samples
    BY <2>3 DEF Sample
  <2>7. speed' \in Levels
    BY <1>5 DEF Update, Levels
  <2>8. TypeOK'
    BY <1>5, <2>5, <2>6, <2>7 DEF Update
  <2>9. QED
    BY <2>4, <2>8
<1>6. CASE Reset
  BY <1>6 DEF Reset, Levels
<1>7. CASE Tell
  <2>1. fast' \in BOOLEAN
    <3>1. Filtered(filter) \in Nat
      BY <1>7, MeanIsNatural DEF Tell, Sample
    <3>2. (Filtered(filter) > Threshold) \in BOOLEAN
      BY <3>1
    <3>3. fast \in BOOLEAN /\ fast' \in {fast, Filtered(filter) > Threshold}
      BY <1>7 DEF Tell
    <3>4. QED
      BY <3>2, <3>3
  <2>2. engine' \in {"STOPPED", "STARTING", "WARMING", "RUNNING", "STOPPING"}
    BY <1>7 DEF Tell, EngineAfter
  <2>3. QED
    BY <1>7, <2>1, <2>2 DEF Tell, Levels
<1>8. CASE StartSampling
  <2>1. /\ sampling' \in BOOLEAN
        /\ pulsed' = pulsed /\ age' = age /\ speed' = speed /\ skewed' = skewed
        /\ ahead' = ahead /\ step' = step /\ raw' = raw /\ lost' = lost /\ filter' = filter
        /\ fast' = fast /\ engine' = engine /\ turning' = turning /\ deaf' = deaf
    BY <1>8 DEF StartSampling
  <2>2. QED
    BY <2>1
<1>9. CASE StopSampling
  <2>1. /\ sampling' \in BOOLEAN
        /\ pulsed' = pulsed /\ age' = age /\ speed' = speed /\ skewed' = skewed
        /\ ahead' = ahead /\ step' = step /\ raw' = raw /\ lost' = lost /\ filter' = filter
        /\ fast' = fast /\ engine' = engine /\ turning' = turning /\ deaf' = deaf
    BY <1>9 DEF StopSampling
  <2>2. QED
    BY <2>1
<1>10. CASE StartEngine
  BY <1>10 DEF StartEngine
<1>11. CASE CrankEnds
  BY <1>11 DEF CrankEnds
<1>12. CASE WarmedUp
  BY <1>12 DEF WarmedUp
<1>13. CASE StopEngine
  BY <1>13 DEF StopEngine
<1>14. CASE StopEnds
  BY <1>14 DEF StopEnds
<1>15. CASE UNCHANGED vars
  BY <1>15 DEF vars
<1>16. QED
  BY <1>1, <1>2, <1>3, <1>4, <1>5, <1>6, <1>7, <1>8, <1>9, <1>10, <1>11, <1>12, <1>13,
     <1>14, <1>15 DEF Next, Timer

\* Every value of the measurement keeps its type, and the last sample of the filter is the
\* speed just calculated when the engine controller is called.
THEOREM SensorInvariant == Spec => []SensorInv
<1>1. QED
  BY SensorInit, SensorStep, PTL DEF Spec

-----------------------------------------------------------------------------
(* The cause of a stop.                                                    *)

\* Two different things make a set of two.
LEMMA PairHasTwo ==
  ASSUME NEW i, NEW j, i # j
  PROVE  IsFiniteSet({i, j}) /\ Cardinality({i, j}) = 2
<1>1. IsFiniteSet({j}) /\ Cardinality({j}) = 1
  BY FS_Singleton
<1>2. {i, j} = {j} \cup {i} /\ i \notin {j}
  OBVIOUS
<1>3. IsFiniteSet({j} \cup {i}) /\ Cardinality({j} \cup {i}) = Cardinality({j}) + 1
  BY <1>1, <1>2, FS_AddElement
<1>4. Cardinality({j} \cup {i}) = 1 + 1
  BY <1>1, <1>3, Zenon
<1>5. QED
  BY <1>2, <1>3, <1>4

\* With no more than one falsified sample there is a place that all others are without.
LEMMA FewLost ==
  ASSUME NEW f \in Seq(Sample), Len(f) > 0,
         ~(Quantify(1..Len(f), LAMBDA i : f[i].lost) > 1)
  PROVE  \E j \in 1..Len(f) : \A i \in 1..Len(f) : i # j => ~f[i].lost
<1> DEFINE L == {i \in 1..Len(f) : f[i].lost}
<1>1. IsFiniteSet(1..Len(f))
  <2>1. 1 \in Int /\ Len(f) \in Int
    OBVIOUS
  <2>2. QED
    BY <2>1, FS_Interval
<1>2. IsFiniteSet(L) /\ Cardinality(L) \in Nat
  BY <1>1, FS_Subset, FS_CardinalityType
<1>3. ~(Cardinality(L) > 1)
  BY DEF Quantify
<1>4. CASE L = {}
  <2>1. 1 \in 1..Len(f)
    OBVIOUS
  <2>2. QED
    BY <1>4, <2>1
<1>5. CASE L # {}
  <2>1. PICK j : j \in L
    BY <1>5
  <2>2. ASSUME NEW i \in L, i # j PROVE FALSE
    <3>1. {i, j} \subseteq L
      BY <2>1
    <3>2. IsFiniteSet({i, j}) /\ Cardinality({i, j}) = 2
      BY <2>2, PairHasTwo
    <3>3. 2 <= Cardinality(L)
      BY <1>2, <3>1, <3>2, FS_Subset
    <3>4. QED
      BY <1>2, <1>3, <3>3
  <2>3. QED
    BY <2>1, <2>2
<1>6. QED
  BY <1>4, <1>5

Cause ==
  LET n == Len(filter)
  IN \/ \E i \in 1..n : ~filter[i].lost /\ filter[i].rpm * (n - 1) < n * Threshold
     \/ Quantify(1..n, LAMBDA i : filter[i].lost) > 1

\* The controller is told a mean below the threshold only for a cause: with one sample it
\* is not told at all, and with more one falsified sample cannot pull the others down.
LEMMA ToldForCause ==
  ASSUME SensorInv, step = "tell", raw # Filtered(filter), Filtered(filter) < Threshold
  PROVE  Cause
<1>1. /\ filter \in Seq(Sample) /\ Len(filter) > 0 /\ Len(filter) \in Nat
      /\ filter[Len(filter)].rpm = raw
  BY DEF SensorInv, TypeOK, SampleIsLast, Sample
<1>2. SUFFICES ASSUME ~(Quantify(1..Len(filter), LAMBDA i : filter[i].lost) > 1),
                      \A i \in 1..Len(filter) :
                         ~filter[i].lost =>
                           ~(filter[i].rpm * (Len(filter) - 1) < Len(filter) * Threshold)
               PROVE  FALSE
  BY DEF Cause
<1>3. \A i \in 1..Len(filter) : filter[i].rpm \in Nat
  <2>1. \A i \in 1..Len(filter) : filter[i] \in Sample
    BY <1>1
  <2>2. QED
    BY <2>1, LevelsAreNumbers DEF Sample
<1>4. PICK j \in 1..Len(filter) : \A i \in 1..Len(filter) : i # j => ~filter[i].lost
  BY <1>1, <1>2, FewLost
<1>5. CASE Len(filter) = 1
  <2>1. PICK h : /\ h \in [0..Len(filter) -> Nat] /\ h[0] = 0
                 /\ \A i \in 1..Len(filter) : h[i] = h[i - 1] + filter[i].rpm
                 /\ Total(filter) = h[Len(filter)]
    BY <1>1, TotalIsSum
  <2>2. h[1] = h[0] + filter[1].rpm
    BY <1>5, <2>1
  <2>3. Total(filter) = raw /\ raw \in Nat
    BY <1>1, <1>3, <1>5, <2>1, <2>2
  <2>4. Filtered(filter) = raw
    BY <1>5, <2>3 DEF Filtered
  <2>5. QED
    BY <2>4
<1>6. CASE Len(filter) > 1
  <2>1. \A i \in 1..Len(filter) :
           i # j => filter[i].rpm * (Len(filter) - 1) >= Len(filter) * Threshold
    <3>1. SUFFICES ASSUME NEW i \in 1..Len(filter), i # j
                   PROVE  filter[i].rpm * (Len(filter) - 1) >= Len(filter) * Threshold
      OBVIOUS
    <3>2. ~(filter[i].rpm * (Len(filter) - 1) < Len(filter) * Threshold)
      BY <1>2, <1>4, <3>1
    <3>3. /\ filter[i].rpm * (Len(filter) - 1) \in Nat
          /\ Len(filter) * Threshold \in Nat
      BY <1>1, <1>3, <1>6, SensorAssumption, ProductIsNatural
    <3>4. QED
      BY <3>2, <3>3
  <2>2. Filtered(filter) >= Threshold
    BY <1>1, <1>6, <2>1, OneSampleIsForgiven, SensorAssumption
  <2>3. Filtered(filter) \in Nat
    BY <1>1, MeanIsNatural
  <2>4. QED
    BY <2>2, <2>3, SensorAssumption
<1>7. \A k \in Nat : k > 0 => k = 1 \/ k > 1
  OBVIOUS
<1>8. QED
  BY <1>1, <1>5, <1>6, <1>7

LEMMA StopStep ==
  SensorInv /\ [Next]_vars => (engine = "RUNNING" /\ engine' = "STOPPED" => Cause)
<1> SUFFICES ASSUME SensorInv, [Next]_vars, engine = "RUNNING", engine' = "STOPPED"
             PROVE  Cause
  OBVIOUS
<1>1. CASE Tell
  <2>1. step = "tell" /\ raw # Filtered(filter) /\ Filtered(filter) < Threshold
    BY <1>1 DEF Tell, EngineAfter
  <2>2. QED
    BY <2>1, ToldForCause
<1>2. CASE Next /\ ~Tell
  BY <1>2 DEF Next, Timer, Pulse, Turn, Calculate, ReadPulses, Update, Reset, StartSampling,
     StopSampling, StartEngine, CrankEnds, WarmedUp, StopEngine, StopEnds, pulses
<1>3. QED
  BY <1>1, <1>2 DEF vars

\* A running engine is declared stopped only when one of the samples was slow, or when more
\* than one was falsified: for every length of the filter, threshold and set of speeds.
THEOREM StopsForACause == Spec => StopsForCause
<1>1. SensorInv /\ [Next]_vars =>
        (engine = "RUNNING" /\ engine' = "STOPPED" =>
           LET n == Len(filter)
           IN \/ \E i \in 1..n : ~filter[i].lost /\ filter[i].rpm * (n - 1) < n * Threshold
              \/ Quantify(1..n, LAMBDA i : filter[i].lost) > 1)
  BY StopStep DEF Cause
<1>2. QED
  BY <1>1, SensorInvariant, PTL DEF Spec, StopsForCause
=============================================================================
