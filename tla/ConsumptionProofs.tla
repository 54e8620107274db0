-------------------------- MODULE ConsumptionProofs --------------------------
(***************************************************************************)
(* What the consumption analysis computes, for any series of measurements, *)
(* settings and lengths of the day. The only fact about the system is that *)
(* the series is stored in the order of its times (SeriesFit); the rest is *)
(* about the functions. Those defined by recursion exist (Recursion,       *)
(* SumExists) and keep what each step keeps (Stepwise, SubsetInduction),   *)
(* by SetInduction of WateringHistoryProofs. The pass over the samples     *)
(* keeps PassFits, from which what it returns, its analysis and a day's    *)
(* combination of two results follow.                                      *)
(***************************************************************************)
EXTENDS Consumption, WateringHistoryProofs, SequenceTheorems

-----------------------------------------------------------------------------
(* The series *)

LEMMA ConsumptionBounds ==
    /\ Grams \subseteq Nat /\ Steps \subseteq Nat \ {0}
    /\ {MaxSamples, RiseReset, TransientMax, Tolerance, MaxRate, Adjacent, TransientWindow,
        RateWindow, MaxGap, Radius, HalfDay, MedianDays, ListedDays} \subseteq Nat \ {0}
    /\ Growth \in Nat /\ Growth > 1 /\ RiseReset <= TransientMax
  <1>1. Grams \subseteq Nat /\ Steps \subseteq Nat /\ 0 \notin Steps
    BY ConsumptionAssumption
  <1>2. Steps \subseteq Nat \ {0}
    BY <1>1
  <1> QED
    BY <1>1, <1>2, ConsumptionAssumption

Sorted(s) == \A i, j \in DOMAIN s : i < j => s[i].t < s[j].t

SeriesFit == samples \in Seq(Measurement) /\ Len(samples) <= MaxSamples /\ Sorted(samples)

LEMMA SeriesStays == ConsumptionSpec => []SeriesFit
  <1>1. ConsumptionInit => SeriesFit
    BY ConsumptionBounds DEF ConsumptionInit, SeriesFit, Sorted
  <1>2. SeriesFit /\ Measure => SeriesFit'
    <2> SUFFICES ASSUME SeriesFit, Measure PROVE SeriesFit'
      OBVIOUS
    <2> DEFINE n == Len(samples)
               last == IF samples = <<>> THEN 0 ELSE samples[n].t
    <2>1. PICK step \in Steps, w \in Grams :
             samples' = Append(samples, [t |-> step + last, w |-> w])
      BY DEF Measure
    <2>2. samples \in Seq(Measurement) /\ n \in Nat /\ n < MaxSamples /\ Sorted(samples)
      BY DEF SeriesFit, Measure
    <2>3. \A i \in 1..n : samples[i] \in Measurement /\ samples[i].t \in Nat
      <3>1. \A i \in 1..n : samples[i] \in Measurement
        BY <2>2
      <3> QED
        BY <3>1 DEF Measurement
    <2>4. last \in Nat /\ step \in Nat /\ step > 0
      <3>1. samples # <<>> => n \in 1..n
        BY <2>2
      <3> QED
        BY <2>3, <3>1, ConsumptionBounds
    <2> DEFINE x == [t |-> step + last, w |-> w]
    <2>5. x \in Measurement /\ x.t = step + last
      BY <2>4 DEF Measurement
    <2>6. \A i \in 1..n : samples[i].t <= last
      <3> SUFFICES ASSUME NEW i \in 1..n PROVE samples[i].t <= last
        OBVIOUS
      <3>1. n \in 1..n /\ last = samples[n].t /\ DOMAIN samples = 1..n
        BY <2>2
      <3>2. i < n => samples[i].t < samples[n].t
        BY <2>2, <3>1 DEF Sorted
      <3> QED
        BY <2>2, <2>3, <3>1, <3>2
    <2> HIDE DEF x, last
    <2>7. /\ samples' \in Seq(Measurement) /\ Len(samples') = n + 1 /\ DOMAIN samples' = 1..n + 1
          /\ samples'[n + 1] = x /\ \A i \in 1..n : samples'[i] = samples[i]
      BY <2>1, <2>2, <2>5 DEF x
    <2>8. ASSUME NEW i \in 1..n + 1, NEW j \in 1..n + 1, i < j PROVE samples'[i].t < samples'[j].t
      <3>1. i \in 1..n
        BY <2>2, <2>8
      <3>2. CASE j = n + 1
        BY <2>3, <2>4, <2>5, <2>6, <2>7, <3>1, <3>2
      <3>3. CASE j # n + 1
        <4>1. j \in 1..n /\ DOMAIN samples = 1..n
          BY <2>2, <3>3
        <4> QED
          BY <2>2, <2>7, <2>8, <3>1, <4>1 DEF Sorted
      <3> QED
        BY <3>2, <3>3
    <2>9. Len(samples') <= MaxSamples
      BY <2>2, <2>7, ConsumptionBounds
    <2> QED
      BY <2>7, <2>8, <2>9 DEF SeriesFit, Sorted
  <1>3. SeriesFit /\ UNCHANGED consumptionVars => SeriesFit'
    BY DEF consumptionVars, SeriesFit, Sorted
  <1> QED
    BY <1>1, <1>2, <1>3, PTL DEF ConsumptionSpec

LEMMA NowIs ==
    ASSUME SeriesFit
    PROVE  /\ Now \in Nat
           /\ \A k \in DOMAIN samples : samples[k].t \in Nat /\ samples[k].t <= Now
  <1> DEFINE n == Len(samples)
  <1>1. /\ n \in Nat /\ DOMAIN samples = 1..n
        /\ \A i \in 1..n : samples[i] \in Measurement /\ samples[i].t \in Nat
    <2>1. samples \in Seq(Measurement)
      BY DEF SeriesFit
    <2>2. n \in Nat /\ DOMAIN samples = 1..n /\ \A i \in 1..n : samples[i] \in Measurement
      BY <2>1
    <2> QED
      BY <2>2 DEF Measurement
  <1>2. CASE samples = <<>>
    BY <1>1, <1>2 DEF Now
  <1>3. CASE samples # <<>>
    <2>1. n \in 1..n /\ Now = samples[n].t
      BY <1>1, <1>3 DEF Now
    <2>2. \A i \in 1..n : i < n => samples[i].t < samples[n].t
      BY <1>1, <2>1 DEF SeriesFit, Sorted
    <2> QED
      BY <1>1, <2>1, <2>2
  <1> QED
    BY <1>2, <1>3

-----------------------------------------------------------------------------
(* The days of the median *)

LEMMA Monotone == ASSUME NEW a \in Int, NEW b \in Int, NEW n \in Nat, a <= b PROVE a * n <= b * n
  OBVIOUS

LEMMA Strictly ==
    ASSUME NEW a \in Int, NEW b \in Int, NEW n \in Nat, a * n < b * n PROVE a < b
  BY Monotone

LEMMA QuotientIs ==
    ASSUME NEW a \in Nat, NEW n \in Nat, n > 0
    PROVE  a \div n \in Nat /\ (a \div n) * n <= a /\ a < (a \div n + 1) * n
  OBVIOUS

LEMMA PreviousAre ==
    ASSUME NEW clock \in Nat
    PROVE  /\ LatestCompleted(clock) \in Int
           /\ Previous(clock) = {LatestCompleted(clock) - 2 * k : k \in 1..MedianDays}
  <1> DEFINE today == clock \div (2 * HalfDay)
             first == 2 * (today - DaysRead + 1)
             C == Completed(clock)
             M == MedianDays
             latest == LatestCompleted(clock)
  <1>1. /\ HalfDay \in Nat /\ HalfDay > 0 /\ M \in Nat /\ M > 0 /\ DaysRead \in Nat /\ DaysRead >= M + 2
        /\ 2 * HalfDay \in Nat /\ 2 * HalfDay > 0
    BY ConsumptionBounds DEF DaysRead, Greater
  <1>2. today \in Nat /\ today * (2 * HalfDay) <= clock /\ clock < (today + 1) * (2 * HalfDay)
    BY <1>1, QuotientIs
  <1> HIDE DEF today
  <1>3. first \in Int /\ first <= 2 * today - 1 - 2 * M
    BY <1>1, <1>2
  <1>4. \A h \in Int : h \in C <=> first <= h /\ h <= 2 * today + 1 /\ End(h) <= clock
    BY <1>2, <1>3 DEF Completed, Periods, today
  <1>5. \A h \in Int : End(h) = (h + 1) * HalfDay
    BY DEF End
  <1>6. ASSUME NEW h \in Int, NEW k \in Int, h <= k PROVE End(h) <= End(k)
    BY <1>1, <1>5, <1>6, Monotone
  <1>7. C \subseteq Int
    BY <1>3 DEF Completed, Periods, today
  <1>8. End(2 * today - 1) = today * (2 * HalfDay) /\ End(2 * today + 1) = (today + 1) * (2 * HalfDay)
    <2>1. 2 * today - 1 + 1 = 2 * today /\ 2 * today + 1 + 1 = 2 * (today + 1)
      BY <1>2
    <2>2. (2 * today) * HalfDay = today * (2 * HalfDay)
          /\ (2 * (today + 1)) * HalfDay = (today + 1) * (2 * HalfDay)
      BY <1>1, <1>2
    <2> QED
      BY <1>2, <1>5, <2>1, <2>2
  <1>9. 2 * today - 1 \in C /\ \A h \in C : h <= 2 * today
    <2>1. 2 * today - 1 \in C
      BY <1>1, <1>2, <1>3, <1>4, <1>8
    <2>2. ASSUME NEW h \in C PROVE h <= 2 * today
      <3>1. 2 * today + 1 \notin C
        BY <1>1, <1>2, <1>4, <1>8
      <3> QED
        BY <1>2, <1>4, <1>7, <3>1
    <2> QED
      BY <2>1, <2>2
  <1>10. latest \in C /\ (\A k \in C : k <= latest) /\ latest \in Int
    <2> HIDE DEF C
    <2>1. \E h \in C : \A k \in C : k <= h
      <3>1. CASE 2 * today \in C
        BY <1>9, <3>1
      <3>2. CASE 2 * today \notin C
        <4>1. \A h \in C : h \in Int /\ h <= 2 * today /\ h # 2 * today
          BY <1>7, <1>9, <3>2
        <4>2. \A h \in C : h <= 2 * today - 1
          BY <1>2, <4>1
        <4> QED
          BY <1>9, <4>2
      <3> QED
        BY <3>1, <3>2
    <2> QED
      BY <1>7, <2>1 DEF LatestCompleted, C
  <1> HIDE DEF C, latest, first
  <1>11. Previous(clock) = {h \in C : h % 2 = latest % 2 /\ h < latest
                                    /\ End(latest) - 2 * HalfDay * M <= End(h)}
    BY DEF Previous, latest, C
  <1>12. \A h \in Int : End(latest) - 2 * HalfDay * M <= End(h) <=> latest - 2 * M <= h
    <2> SUFFICES ASSUME NEW h \in Int
                 PROVE  End(latest) - 2 * HalfDay * M <= End(h) <=> latest - 2 * M <= h
      OBVIOUS
    <2>1. End(latest) - 2 * HalfDay * M = End(latest - 2 * M)
      <3>1. (latest + 1) * HalfDay - 2 * HalfDay * M = (latest + 1 - 2 * M) * HalfDay
        BY <1>1, <1>10
      <3>2. latest - 2 * M + 1 = latest + 1 - 2 * M /\ latest - 2 * M \in Int
        BY <1>1, <1>10
      <3> QED
        BY <1>5, <1>10, <3>1, <3>2
    <2>2. latest - 2 * M <= h => End(latest - 2 * M) <= End(h)
      BY <1>1, <1>6, <1>10
    <2>3. h < latest - 2 * M => End(h) < End(latest - 2 * M)
      <3> SUFFICES ASSUME h < latest - 2 * M PROVE End(h) < End(latest - 2 * M)
        OBVIOUS
      <3>1. End(h + 1) <= End(latest - 2 * M) /\ h + 1 \in Int
        BY <1>1, <1>6, <1>10
      <3>2. End(h + 1) = End(h) + HalfDay
        <4>1. (h + 1 + 1) * HalfDay = (h + 1) * HalfDay + HalfDay
          BY <1>1
        <4> QED
          BY <1>5, <3>1, <4>1
      <3>3. End(h) \in Int /\ End(latest - 2 * M) \in Int
        <4>1. (h + 1) * HalfDay \in Int /\ (latest - 2 * M + 1) * HalfDay \in Int
          BY <1>1, <1>10
        <4> QED
          BY <1>1, <1>5, <1>10, <4>1
      <3> QED
        BY <1>1, <3>1, <3>2, <3>3
    <2>4. End(h) \in Int /\ End(latest - 2 * M) \in Int /\ latest - 2 * M \in Int
      <3>1. (h + 1) * HalfDay \in Int /\ (latest - 2 * M + 1) * HalfDay \in Int /\ latest - 2 * M \in Int
        BY <1>1, <1>10
      <3> QED
        BY <1>5, <3>1
    <2> QED
      BY <2>1, <2>2, <2>3, <2>4
  <1>13. latest >= 2 * today - 1 /\ End(latest) <= clock /\ latest <= 2 * today
    BY <1>4, <1>9, <1>10
  <1>14. ASSUME NEW h \in Previous(clock) PROVE \E k \in 1..M : h = latest - 2 * k
    <2>1. h \in Int /\ h % 2 = latest % 2 /\ h < latest /\ latest - 2 * M <= h
      BY <1>7, <1>11, <1>12
    <2>2. PICK k \in Int : latest - h = 2 * k
      <3>1. (latest - h) % 2 = 0 /\ latest - h \in Int
        BY <1>10, <2>1
      <3>2. latest - h = 2 * ((latest - h) \div 2)
        BY <3>1
      <3> QED
        BY <3>1, <3>2
    <2>3. k \in 1..M /\ h = latest - 2 * k
      BY <1>1, <1>10, <2>1, <2>2
    <2> QED
      BY <2>3
  <1>15. ASSUME NEW k \in 1..M PROVE latest - 2 * k \in Previous(clock)
    <2> DEFINE h == latest - 2 * k
    <2>1. h \in Int /\ h < latest /\ latest - 2 * M <= h /\ h % 2 = latest % 2
      BY <1>1, <1>10
    <2>2. first <= h /\ h <= 2 * today + 1
      BY <1>1, <1>2, <1>3, <1>10, <1>13, <2>1
    <2>3. End(h) <= End(latest)
      BY <1>6, <1>10, <2>1
    <2>4. End(h) <= clock
      <3>1. End(h) \in Int /\ End(latest) \in Int
        <4>1. (h + 1) * HalfDay \in Int /\ (latest + 1) * HalfDay \in Int
          BY <1>1, <1>10, <2>1
        <4> QED
          BY <1>5, <1>10, <2>1, <4>1
      <3> HIDE DEF h
      <3> QED
        BY <1>13, <2>3, <3>1
    <2> HIDE DEF h
    <2>5. h \in Previous(clock)
      BY <1>4, <1>11, <1>12, <2>1, <2>2, <2>4
    <2> QED
      BY <2>5 DEF h
  <1>16. Previous(clock) = {latest - 2 * k : k \in 1..M}
    BY <1>14, <1>15
  <1> QED
    BY <1>10, <1>16 DEF latest

\* project_water_consumption reads as many days as the median takes: each of
\* them is there with the half that is compared, at whatever time it is asked.
THEOREM MedianRead == ConsumptionSpec => []MedianIsRead
  <1>1. SeriesFit => MedianIsRead
    <2> SUFFICES ASSUME SeriesFit PROVE Cardinality(Previous(Now)) = MedianDays
      BY DEF MedianIsRead
    <2> DEFINE latest == LatestCompleted(Now)
               f == [k \in 1..MedianDays |-> latest - 2 * k]
    <2>1. latest \in Int /\ Previous(Now) = {latest - 2 * k : k \in 1..MedianDays} /\ MedianDays \in Nat
      BY NowIs, PreviousAre, ConsumptionBounds
    <2> HIDE DEF latest
    <2>2. f \in Bijection(1..MedianDays, Previous(Now))
      <3>1. f \in [1..MedianDays -> Previous(Now)]
        BY <2>1
      <3>2. \A j, k \in 1..MedianDays : f[j] = f[k] => j = k
        BY <2>1
      <3>3. \A h \in Previous(Now) : \E k \in 1..MedianDays : f[k] = h
        BY <2>1
      <3> QED
        BY <3>1, <3>2, <3>3 DEF Bijection, Injection, Surjection, IsInjective
    <2> HIDE DEF f
    <2>3. IsFiniteSet(1..MedianDays) /\ Cardinality(1..MedianDays) = MedianDays
      BY <2>1, FS_Interval
    <2> QED
      <3>1. ExistsBijection(1..MedianDays, Previous(Now))
        BY <2>2 DEF ExistsBijection
      <3> QED
        BY <2>3, <3>1, FS_Bijection
  <1> QED
    BY <1>1, SeriesStays, PTL

-----------------------------------------------------------------------------
(* The nearest sample *)

Samples == {samples[k] : k \in DOMAIN samples}
Found(radius, at, clock) ==
    {x \in Samples : x.t >= at - radius /\ x.t <= Lesser(clock, at + radius)}

\* One radius of weight_at, with what it finds at the next ones.
TryStep(g, radius, at, clock) ==
    IF Found(radius, at, clock) # {}
    THEN <<CHOOSE a \in Found(radius, at, clock) : \A x \in Found(radius, at, clock) : Nearer(a, x, at)>>
    ELSE IF at <= radius /\ clock <= at + radius THEN <<>>
    ELSE g[Growth * radius]

Radii == Nat \ {0}

\* There is a function that tries: a great radius is the last.
LEMMA TryExists ==
    ASSUME NEW at \in Nat, NEW clock \in Nat
    PROVE  \E g : g = [radius \in Radii |-> TryStep(g, radius, at, clock)]
  <1> DEFINE B == at + clock
             To(g, n) == [r \in Radii |-> IF r >= B - n THEN TryStep(g, r, at, clock) ELSE <<>>]
             T == {n \in Nat : \E g : g = To(g, n)}
  <1>0. B \in Nat /\ \A r \in Radii : Growth * r \in Radii /\ Growth * r > r
    <2>1. Growth \in Nat /\ Growth >= 2
      BY ConsumptionBounds
    <2>2. ASSUME NEW r \in Radii PROVE Growth * r \in Radii /\ Growth * r > r
      <3>1. r \in Nat /\ r > 0
        BY DEF Radii
      <3>2. 2 * r <= Growth * r /\ Growth * r \in Nat
        BY <2>1, <3>1, Monotone
      <3> HIDE DEF Radii
      <3> QED
        BY <3>1, <3>2 DEF Radii
    <2> QED
      BY <2>2
  <1>1. 0 \in T
    <2> DEFINE g == [r \in Radii |-> IF r >= B - 0 THEN TryStep(<<>>, r, at, clock) ELSE <<>>]
    <2>1. ASSUME NEW r \in Radii, r >= B - 0, NEW h PROVE TryStep(h, r, at, clock) = TryStep(<<>>, r, at, clock)
      <3>1. at <= r /\ clock <= at + r
        BY <2>1 DEF Radii
      <3> QED
        BY <3>1 DEF TryStep
    <2>2. g = To(g, 0)
      <3> HIDE DEF B
      <3>1. \A r \in Radii : r >= B - 0 => TryStep(g, r, at, clock) = TryStep(<<>>, r, at, clock)
        <4> HIDE DEF g
        <4> QED
          BY <2>1
      <3> QED
        BY <3>1
    <2> HIDE DEF g
    <2> QED
      BY <2>2
  <1>2. ASSUME NEW n \in Nat, n \in T PROVE n + 1 \in T
    <2>1. PICK g : g = To(g, n)
      BY <1>2
    <2> DEFINE h == To(g, n + 1)
    <2>2. ASSUME NEW r \in Radii, r >= B - n PROVE h[r] = g[r]
      <3>1. r >= B - (n + 1)
        BY <1>0, <2>2 DEF Radii
      <3>2. h[r] = TryStep(g, r, at, clock)
        BY <3>1
      <3>3. g[r] = TryStep(g, r, at, clock)
        BY <2>1, <2>2
      <3> QED
        BY <3>2, <3>3
    <2> HIDE DEF h
    <2>3. ASSUME NEW r \in Radii, r >= B - (n + 1)
          PROVE  TryStep(h, r, at, clock) = TryStep(g, r, at, clock)
      <3>1. Growth * r \in Radii /\ Growth * r >= B - n
        <4>1. Growth * r \in Radii /\ Growth * r > r
          BY <1>0
        <4> HIDE DEF B
        <4> DEFINE q == Growth * r
        <4>2. q \in Nat /\ q > r /\ r \in Nat
          BY <4>1 DEF Radii
        <4> HIDE DEF q
        <4>3. q >= B - n
          BY <1>0, <2>3, <4>2
        <4> QED
          BY <4>1, <4>3 DEF q
      <3>2. h[Growth * r] = g[Growth * r]
        BY <2>2, <3>1
      <3> QED
        BY <3>2 DEF TryStep
    <2>4. h = To(h, n + 1)
      BY <2>3 DEF h
    <2> QED
      BY <2>4
  <1>3. B \in T
    <2> HIDE DEF T, B
    <2> QED
      BY <1>0, <1>1, <1>2, SetInduction
  <1>4. \A r \in Radii : r >= B - B
    BY <1>0 DEF Radii
  <1>5. PICK g : g = To(g, B)
    BY <1>3
  <1>6. g = [radius \in Radii |-> TryStep(g, radius, at, clock)]
    <2> HIDE DEF B
    <2> QED
      BY <1>4, <1>5
  <1> QED
    BY <1>6

\* The sample that is nearest, of some.
LEMMA NearestExists ==
    ASSUME NEW S, S # {}, NEW at \in Nat, \A x \in S : x.t \in Nat
    PROVE  \E a \in S : \A x \in S : Nearer(a, x, at)
  <1> DEFINE key(x) == 2 * Distance(x.t, at) + (IF x.t <= at THEN 0 ELSE 1)
             K == {key(x) : x \in S}
  <1>1. \A x \in S : key(x) \in Nat
    BY DEF Distance, Greater
  <1>2. PICK m \in K : \A n \in K : m <= n
    <2>1. K \in SUBSET Nat /\ K # {}
      <3> HIDE DEF key
      <3> QED
        BY <1>1
    <2> HIDE DEF K
    <2> QED
      BY <2>1, LeastExists
  <1>3. PICK a \in S : m = key(a)
    OBVIOUS
  <1>4. ASSUME NEW x \in S PROVE Nearer(a, x, at)
    <2>1. key(a) <= key(x)
      <3> HIDE DEF key
      <3> QED
        BY <1>2, <1>3
    <2>2. a.t \in Nat /\ x.t \in Nat
      OBVIOUS
    <2> QED
      BY <2>1, <2>2 DEF Nearer, Distance, Greater
  <1> QED
    BY <1>4

Right(found, at) ==
    IF samples = <<>> THEN found = <<>>
    ELSE found # <<>> /\ \A k \in DOMAIN samples : Nearer(found[1], samples[k], at)

LEMMA TryIsRight ==
    ASSUME SeriesFit, NEW at \in Nat, NEW g, NEW radius \in Radii,
           ~(at <= radius /\ Now <= at + radius) => Right(g[Growth * radius], at)
    PROVE  Right(TryStep(g, radius, at, Now), at)
  <1> DEFINE F == Found(radius, at, Now)
  <1>0. /\ Now \in Nat /\ \A x \in Samples : x.t \in Nat /\ x.t <= Now
        /\ samples = <<>> <=> Samples = {}
        /\ radius \in Nat
    <2>1. samples \in Seq(Measurement)
      BY DEF SeriesFit
    <2>2. samples = <<>> <=> DOMAIN samples = {}
      BY <2>1
    <2> QED
      BY <2>2, NowIs DEF Samples, Radii
  <1>1. CASE F # {}
    <2>1. \A x \in F : x \in Samples /\ x.t \in Nat
      BY <1>0 DEF Found
    <2> DEFINE a == CHOOSE a \in F : \A x \in F : Nearer(a, x, at)
    <2>2. a \in F /\ \A x \in F : Nearer(a, x, at)
      <3> HIDE DEF F
      <3>1. \E b \in F : \A x \in F : Nearer(b, x, at)
        BY <1>1, <2>1, NearestExists
      <3> QED
        BY <3>1
    <2>3. TryStep(g, radius, at, Now) = <<a>>
      BY <1>1 DEF TryStep
    <2> HIDE DEF a
    <2>4. ASSUME NEW x \in Samples PROVE Nearer(a, x, at)
      <3>1. CASE x \in F
        BY <2>2, <3>1
      <3>2. CASE x \notin F
        <4>1. x.t \in Nat /\ x.t <= Now /\ a.t \in Nat
              /\ a.t >= at - radius /\ a.t <= at + radius /\ a.t <= Now
          BY <1>0, <2>1, <2>2 DEF Found, Lesser
        <4>2. x.t < at - radius \/ x.t > at + radius
          BY <1>0, <3>2, <4>1 DEF Found, Lesser
        <4> QED
          BY <1>0, <4>1, <4>2 DEF Nearer, Distance, Greater
      <3> QED
        BY <3>1, <3>2
    <2>5. samples # <<>>
      BY <1>0, <1>1, <2>1
    <2> QED
      BY <2>3, <2>4, <2>5 DEF Right, Samples
  <1>2. CASE F = {} /\ at <= radius /\ Now <= at + radius
    <2>1. \A x \in Samples : x \in F
      BY <1>0, <1>2 DEF Found, Lesser
    <2>2. samples = <<>>
      BY <1>0, <1>2, <2>1
    <2>3. TryStep(g, radius, at, Now) = <<>>
      BY <1>2 DEF TryStep
    <2> QED
      BY <2>2, <2>3 DEF Right
  <1>3. CASE F = {} /\ ~(at <= radius /\ Now <= at + radius)
    BY <1>3 DEF TryStep
  <1> QED
    BY <1>1, <1>2, <1>3

LEMMA WeightAtIsRight ==
    ASSUME SeriesFit, NEW at \in Nat
    PROVE  Right(WeightAt(at, Now), at)
  <1> DEFINE g == CHOOSE g : g = [radius \in Radii |-> TryStep(g, radius, at, Now)]
             B == at + Now
             T == {n \in Nat : \A r \in Radii : r >= B - n => Right(g[r], at)}
  <1>0. Now \in Nat /\ B \in Nat
    BY NowIs
  <1>1. g = [radius \in Radii |-> TryStep(g, radius, at, Now)]
    BY <1>0, TryExists
  <1>2. WeightAt(at, Now) = g[Radius]
    BY DEF WeightAt, TryStep, Found, Samples, Radii
  <1> HIDE DEF g
  <1>3. \A r \in Radii : Growth * r \in Radii /\ Growth * r > r
    <2>1. Growth \in Nat /\ Growth >= 2
      BY ConsumptionBounds
    <2> SUFFICES ASSUME NEW r \in Radii PROVE Growth * r \in Radii /\ Growth * r > r
      OBVIOUS
    <2>2. r \in Nat /\ r > 0
      BY DEF Radii
    <2>3. 2 * r <= Growth * r /\ Growth * r \in Nat
      BY <2>1, <2>2, Monotone
    <2> QED
      BY <2>2, <2>3 DEF Radii
  <1>4. 0 \in T
    <2> SUFFICES ASSUME NEW r \in Radii, r >= B - 0 PROVE Right(g[r], at)
      OBVIOUS
    <2>1. at <= r /\ Now <= at + r
      BY <1>0 DEF Radii
    <2>2. g[r] = TryStep(g, r, at, Now)
      BY <1>1
    <2> QED
      BY <2>1, <2>2, TryIsRight
  <1>5. ASSUME NEW n \in Nat, n \in T PROVE n + 1 \in T
    <2> SUFFICES ASSUME NEW r \in Radii, r >= B - (n + 1) PROVE Right(g[r], at)
      OBVIOUS
    <2>1. Right(g[Growth * r], at)
      <3> DEFINE q == Growth * r
      <3>1. q \in Radii /\ q > r
        BY <1>3
      <3> HIDE DEF q, B
      <3>2. q \in Nat /\ r \in Nat
        BY <3>1 DEF Radii
      <3>3. q >= B - n
        BY <1>0, <3>1, <3>2
      <3> QED
        BY <1>5, <3>1, <3>3 DEF q
    <2>2. g[r] = TryStep(g, r, at, Now)
      BY <1>1
    <2> QED
      BY <2>1, <2>2, TryIsRight
  <1>6. B \in T
    <2> HIDE DEF T, B
    <2> QED
      BY <1>0, <1>4, <1>5, SetInduction
  <1>7. Radius \in Radii /\ Radius >= B - B
    BY <1>0, ConsumptionBounds DEF Radii
  <1> QED
    BY <1>2, <1>6, <1>7

\* weight_at finds the sample that is nearest of all, whatever radius it finds
\* it with, and none only when there is none.
THEOREM NearestFound == ConsumptionSpec => []NearestIsFound
  <1>1. SeriesFit => NearestIsFound
    <2> SUFFICES ASSUME SeriesFit, NEW at \in 0..Now PROVE Right(WeightAt(at, Now), at)
      BY DEF NearestIsFound, Right
    <2>1. at \in Nat
      BY NowIs
    <2> QED
      BY <2>1, WeightAtIsRight
  <1> QED
    BY <1>1, SeriesStays, PTL

-----------------------------------------------------------------------------
(* Sums *)

\* A set has all subsets of a finite set if it has each whose lesser ones it has.
LEMMA SubsetInduction ==
    ASSUME NEW S, IsFiniteSet(S), NEW Q,
           \A T \in SUBSET S : (\A x \in T : T \ {x} \in Q) => T \in Q
    PROVE  SUBSET S \subseteq Q
  <1> DEFINE N == {n \in Nat : \A T \in SUBSET S : Cardinality(T) <= n => T \in Q}
  <1>0. \A T \in SUBSET S : IsFiniteSet(T) /\ Cardinality(T) \in Nat
    BY FS_Subset, FS_CardinalityType
  <1>1. 0 \in N
    <2> SUFFICES ASSUME NEW T \in SUBSET S, Cardinality(T) <= 0 PROVE T \in Q
      OBVIOUS
    <2>1. T = {}
      <3>1. IsFiniteSet(T) /\ Cardinality(T) = 0
        BY <1>0
      <3> QED
        BY <3>1, FS_EmptySet
    <2> QED
      BY <2>1
  <1>2. ASSUME NEW n \in Nat, n \in N PROVE n + 1 \in N
    <2> SUFFICES ASSUME NEW T \in SUBSET S, Cardinality(T) <= n + 1 PROVE T \in Q
      OBVIOUS
    <2>1. ASSUME NEW x \in T PROVE T \ {x} \in Q
      <3>1. Cardinality(T \ {x}) = Cardinality(T) - 1 /\ Cardinality(T) \in Nat
        BY <1>0, FS_RemoveElement
      <3>2. T \ {x} \in SUBSET S /\ Cardinality(T \ {x}) <= n
        BY <3>1
      <3> QED
        BY <1>2, <3>2
    <2> QED
      BY <2>1
  <1>3. Nat \subseteq N
    <2> HIDE DEF N
    <2> QED
      BY <1>1, <1>2, SetInduction
  <1>4. ASSUME NEW T \in SUBSET S PROVE T \in Q
    <2>1. Cardinality(T) \in N /\ Cardinality(T) <= Cardinality(T)
      BY <1>0, <1>3
    <2> QED
      BY <2>1
  <1> QED
    BY <1>4

\* One step of the sum.
SumStep(g, f, T) ==
    IF T = {} THEN 0 ELSE LET x == CHOOSE x \in T : TRUE IN f[x] + g[T \ {x}]

Sums(g, f, S) == g = [T \in SUBSET S |-> SumStep(g, f, T)]

LEMMA SumExists ==
    ASSUME NEW S, IsFiniteSet(S), NEW f
    PROVE  \E g : Sums(g, f, S)
  <1> DEFINE To(g, n) == [T \in SUBSET S |-> IF Cardinality(T) <= n THEN SumStep(g, f, T) ELSE 0]
             N == {n \in Nat : \E g : g = To(g, n)}
  <1>0. \A T \in SUBSET S : IsFiniteSet(T) /\ Cardinality(T) \in Nat /\ Cardinality(T) <= Cardinality(S)
    BY FS_Subset, FS_CardinalityType
  <1>1. 0 \in N
    <2> DEFINE g == [T \in SUBSET S |-> 0]
    <2>1. \A T \in SUBSET S : Cardinality(T) <= 0 => T = {}
      BY <1>0, FS_EmptySet
    <2>2. \A T \in SUBSET S : Cardinality(T) <= 0 => SumStep(g, f, T) = 0
      BY <2>1 DEF SumStep
    <2>3. g = To(g, 0)
      BY <2>2
    <2> HIDE DEF g
    <2> QED
      BY <2>3
  <1>2. ASSUME NEW n \in Nat, n \in N PROVE n + 1 \in N
    <2>1. PICK g : g = To(g, n)
      BY <1>2
    <2> DEFINE h == To(g, n + 1)
    <2>2. ASSUME NEW T \in SUBSET S, Cardinality(T) <= n PROVE h[T] = g[T]
      <3>1. Cardinality(T) <= n + 1
        BY <1>0, <2>2
      <3>2. h[T] = SumStep(g, f, T)
        BY <3>1
      <3>3. g[T] = SumStep(g, f, T)
        BY <2>1, <2>2
      <3> QED
        BY <3>2, <3>3
    <2> HIDE DEF h
    <2>3. ASSUME NEW T \in SUBSET S, Cardinality(T) <= n + 1 PROVE SumStep(h, f, T) = SumStep(g, f, T)
      <3> DEFINE x == CHOOSE x \in T : TRUE
      <3>1. CASE T = {}
        BY <3>1 DEF SumStep
      <3>2. CASE T # {}
        <4>1. x \in T
          BY <3>2
        <4> HIDE DEF x
        <4>2. Cardinality(T \ {x}) = Cardinality(T) - 1 /\ Cardinality(T) \in Nat
          BY <1>0, <4>1, FS_RemoveElement
        <4>3. T \ {x} \in SUBSET S /\ Cardinality(T \ {x}) <= n
          BY <2>3, <4>2
        <4>4. h[T \ {x}] = g[T \ {x}]
          BY <2>2, <4>3
        <4> QED
          BY <3>2, <4>4 DEF SumStep, x
      <3> QED
        BY <3>1, <3>2
    <2>4. h = To(h, n + 1)
      BY <2>3 DEF h
    <2> QED
      BY <2>4
  <1>3. Cardinality(S) \in N
    <2> HIDE DEF N
    <2> QED
      BY <1>0, <1>1, <1>2, SetInduction
  <1>4. PICK g : g = To(g, Cardinality(S))
    BY <1>3
  <1>5. g = [T \in SUBSET S |-> SumStep(g, f, T)]
    BY <1>0, <1>4
  <1> QED
    BY <1>5 DEF Sums

LEMMA TotalSums ==
    ASSUME NEW S, IsFiniteSet(S), NEW f
    PROVE  \E g : Sums(g, f, S) /\ Total(f, S) = g[S]
  <1> DEFINE g == CHOOSE g : g = [T \in SUBSET S |-> SumStep(g, f, T)]
  <1>1. Sums(g, f, S)
    BY SumExists DEF Sums
  <1>2. Total(f, S) = g[S]
    BY DEF Total, SumStep
  <1> QED
    BY <1>1, <1>2

LEMMA SumIsInt ==
    ASSUME NEW S, IsFiniteSet(S), NEW f, \A x \in S : f[x] \in Int, NEW g, Sums(g, f, S)
    PROVE  \A T \in SUBSET S : g[T] \in Int
  <1> DEFINE Q == {T \in SUBSET S : g[T] \in Int}
  <1>1. ASSUME NEW T \in SUBSET S, \A x \in T : T \ {x} \in Q PROVE T \in Q
    <2> DEFINE x == CHOOSE x \in T : TRUE
    <2>0. g[T] = SumStep(g, f, T)
      BY DEF Sums
    <2>1. CASE T = {}
      BY <2>0, <2>1 DEF SumStep
    <2>2. CASE T # {}
      <3>1. x \in T
        BY <2>2
      <3>2. g[T] = f[x] + g[T \ {x}]
        BY <2>0, <2>2 DEF SumStep
      <3> HIDE DEF x
      <3>3. f[x] \in Int /\ g[T \ {x}] \in Int
        BY <1>1, <3>1
      <3> QED
        BY <3>2, <3>3
    <2> QED
      BY <2>1, <2>2
  <1>2. SUBSET S \subseteq Q
    <2> HIDE DEF Q
    <2> QED
      BY <1>1, SubsetInduction
  <1> QED
    BY <1>2

\* The sum is one of what is left, whatever is taken out.
LEMMA SumRemoves ==
    ASSUME NEW S, IsFiniteSet(S), NEW f, \A x \in S : f[x] \in Int, NEW g, Sums(g, f, S)
    PROVE  \A T \in SUBSET S : \A y \in T : g[T] = f[y] + g[T \ {y}]
  <1> DEFINE Q == {T \in SUBSET S : \A y \in T : g[T] = f[y] + g[T \ {y}]}
  <1>0. \A T \in SUBSET S : g[T] \in Int
    BY SumIsInt
  <1>1. ASSUME NEW T \in SUBSET S, \A x \in T : T \ {x} \in Q PROVE T \in Q
    <2> SUFFICES ASSUME NEW y \in T PROVE g[T] = f[y] + g[T \ {y}]
      OBVIOUS
    <2> DEFINE x == CHOOSE x \in T : TRUE
    <2>1. x \in T
      OBVIOUS
    <2>2. g[T] = f[x] + g[T \ {x}]
      BY DEF Sums, SumStep
    <2> HIDE DEF x
    <2>3. CASE x # y
      <3>1. y \in T \ {x} /\ x \in T \ {y}
        BY <2>1, <2>3
      <3>2. g[T \ {x}] = f[y] + g[(T \ {x}) \ {y}]
        BY <1>1, <2>1, <3>1
      <3>3. g[T \ {y}] = f[x] + g[(T \ {y}) \ {x}]
        BY <1>1, <3>1
      <3>4. (T \ {x}) \ {y} = (T \ {y}) \ {x} /\ (T \ {x}) \ {y} \in SUBSET S
        OBVIOUS
      <3>5. f[x] \in Int /\ f[y] \in Int /\ g[(T \ {x}) \ {y}] \in Int
        BY <1>0, <2>1, <3>4
      <3> DEFINE rest == g[(T \ {x}) \ {y}]
      <3>6. g[T \ {x}] = f[y] + rest /\ g[T \ {y}] = f[x] + rest /\ rest \in Int
        BY <3>2, <3>3, <3>4, <3>5
      <3> HIDE DEF rest
      <3> QED
        BY <2>2, <3>5, <3>6
    <2> QED
      BY <2>2, <2>3
  <1>2. SUBSET S \subseteq Q
    <2> HIDE DEF Q
    <2> QED
      BY <1>1, SubsetInduction
  <1> QED
    BY <1>2

\* The sum of what is the same is the same.
LEMMA SumsAgree ==
    ASSUME NEW S, IsFiniteSet(S), NEW f, NEW g, Sums(g, f, S), \A x \in S : f[x] \in Int,
           NEW R, IsFiniteSet(R), NEW h, NEW e, Sums(e, h, R), \A x \in R : h[x] \in Int,
           \A x \in S \cap R : f[x] = h[x]
    PROVE  \A T \in SUBSET (S \cap R) : g[T] = e[T]
  <1> DEFINE Q == {T \in SUBSET (S \cap R) : g[T] = e[T]}
  <1>1. ASSUME NEW T \in SUBSET (S \cap R), \A x \in T : T \ {x} \in Q PROVE T \in Q
    <2>1. CASE T = {}
      BY <2>1 DEF Sums, SumStep
    <2>2. CASE T # {}
      <3>1. PICK x \in T : TRUE
        BY <2>2
      <3>2. g[T] = f[x] + g[T \ {x}]
        <4>1. T \in SUBSET S
          OBVIOUS
        <4> QED
          BY <4>1, SumRemoves
      <3>3. e[T] = h[x] + e[T \ {x}]
        <4>1. T \in SUBSET R
          OBVIOUS
        <4> QED
          BY <4>1, SumRemoves
      <3>4. g[T \ {x}] = e[T \ {x}] /\ f[x] = h[x]
        BY <1>1
      <3> QED
        BY <3>2, <3>3, <3>4
    <2> QED
      BY <2>1, <2>2
  <1>2. IsFiniteSet(S \cap R)
    BY FS_Subset
  <1>3. SUBSET (S \cap R) \subseteq Q
    <2> HIDE DEF Q
    <2> QED
      BY <1>1, <1>2, SubsetInduction
  <1> QED
    BY <1>3

LEMMA TotalOfNothing == ASSUME NEW f PROVE Total(f, {}) = 0
  <1>1. IsFiniteSet({})
    BY FS_EmptySet
  <1>2. PICK g : Sums(g, f, {}) /\ Total(f, {}) = g[{}]
    BY <1>1, TotalSums
  <1> QED
    BY <1>2 DEF Sums, SumStep

LEMMA TotalIsInt ==
    ASSUME NEW S, IsFiniteSet(S), NEW f, \A x \in S : f[x] \in Int
    PROVE  Total(f, S) \in Int
  <1>1. PICK g : Sums(g, f, S) /\ Total(f, S) = g[S]
    BY TotalSums
  <1> QED
    BY <1>1, SumIsInt

LEMMA TotalAgrees ==
    ASSUME NEW S, IsFiniteSet(S), NEW f, NEW h, \A x \in S : f[x] \in Int /\ h[x] = f[x]
    PROVE  Total(h, S) = Total(f, S)
  <1>1. PICK g : Sums(g, f, S) /\ Total(f, S) = g[S]
    BY TotalSums
  <1>2. PICK e : Sums(e, h, S) /\ Total(h, S) = e[S]
    BY TotalSums
  <1>3. S \in SUBSET (S \cap S)
    OBVIOUS
  <1>4. g[S] = e[S]
    BY <1>1, <1>2, <1>3, SumsAgree
  <1> QED
    BY <1>1, <1>2, <1>4

LEMMA TotalAdds ==
    ASSUME NEW S, IsFiniteSet(S), NEW f, NEW h, NEW x, x \notin S, f[x] \in Int,
           \A y \in S : f[y] \in Int /\ h[y] = f[y]
    PROVE  Total(f, S \cup {x}) = f[x] + Total(h, S)
  <1> DEFINE R == S \cup {x}
  <1>0. IsFiniteSet(R)
    BY FS_AddElement
  <1>1. PICK g : Sums(g, f, R) /\ Total(f, R) = g[R]
    BY <1>0, TotalSums
  <1>2. PICK e : Sums(e, h, S) /\ Total(h, S) = e[S]
    BY TotalSums
  <1>3. \A y \in R : f[y] \in Int
    OBVIOUS
  <1>4. g[R] = f[x] + g[R \ {x}]
    <2>1. R \in SUBSET R /\ x \in R
      OBVIOUS
    <2> HIDE DEF R
    <2> QED
      BY <1>0, <1>1, <1>3, <2>1, SumRemoves
  <1>5. R \ {x} = S /\ S \in SUBSET (R \cap S) /\ \A y \in R \cap S : f[y] = h[y]
    OBVIOUS
  <1> HIDE DEF R
  <1>6. g[S] = e[S]
    BY <1>0, <1>1, <1>2, <1>3, <1>5, SumsAgree
  <1> QED
    BY <1>1, <1>2, <1>4, <1>5, <1>6 DEF R

-----------------------------------------------------------------------------
(* Recursion and induction over an interval *)

\* What holds at first and stays holds all along.
LEMMA Stepwise ==
    ASSUME NEW b \in Nat, NEW N \in Nat, b <= N, NEW f, NEW S, f[b] \in S[b],
           \A n \in b + 1..N : f[n - 1] \in S[n - 1] => f[n] \in S[n]
    PROVE  \A n \in b..N : f[n] \in S[n]
  <1> DEFINE T == {k \in Nat : b + k <= N => f[b + k] \in S[b + k]}
  <1>1. 0 \in T
    OBVIOUS
  <1>2. ASSUME NEW k \in Nat, k \in T PROVE k + 1 \in T
    <2> SUFFICES ASSUME b + (k + 1) <= N PROVE f[b + (k + 1)] \in S[b + (k + 1)]
      OBVIOUS
    <2> DEFINE n == b + (k + 1)
    <2>1. n \in b + 1..N /\ n - 1 = b + k /\ b + k <= N
      OBVIOUS
    <2>2. f[b + k] \in S[b + k]
      BY <1>2, <2>1
    <2> HIDE DEF n
    <2>3. f[n] \in S[n]
      BY <2>1, <2>2
    <2> QED
      BY <2>3 DEF n
  <1>3. Nat \subseteq T
    <2> HIDE DEF T
    <2> QED
      BY <1>1, <1>2, SetInduction
  <1> SUFFICES ASSUME NEW n \in b..N PROVE f[n] \in S[n]
    OBVIOUS
  <1>4. n - b \in Nat /\ b + (n - b) = n /\ n <= N
    OBVIOUS
  <1>5. n - b \in T
    BY <1>3, <1>4
  <1> QED
    BY <1>4, <1>5

Recursive(f, b, N, e, step) == f = [n \in b..N |-> IF n = b THEN e ELSE step[n][f[n - 1]]]

\* A function whose every value is the step from the one before it exists, if
\* the steps lead from one set of values to the next.
LEMMA Recursion ==
    ASSUME NEW b \in Nat, NEW N \in Nat, b <= N, NEW S, NEW e, e \in S[b], NEW step,
           \A n \in b + 1..N : \A x \in S[n - 1] : step[n][x] \in S[n]
    PROVE  \E f : Recursive(f, b, N, e, step) /\ \A n \in b..N : f[n] \in S[n]
  <1> DEFINE To(f, k) == [n \in b..N |-> IF n <= b + k THEN IF n = b THEN e ELSE step[n][f[n - 1]]
                                         ELSE e]
             T == {k \in Nat : \E f : f = To(f, k)}
  <1>1. 0 \in T
    <2> DEFINE g == [n \in b..N |-> e]
    <2>1. \A n \in b..N : n <= b + 0 => n = b
      OBVIOUS
    <2>2. g = To(g, 0)
      BY <2>1
    <2> HIDE DEF g
    <2> QED
      BY <2>2
  <1>2. ASSUME NEW k \in Nat, k \in T PROVE k + 1 \in T
    <2>1. PICK g : g = To(g, k)
      BY <1>2
    <2> DEFINE h == To(g, k + 1)
    <2>2. ASSUME NEW n \in b..N, n <= b + k PROVE h[n] = g[n]
      <3>1. n <= b + (k + 1)
        BY <2>2
      <3>2. h[n] = IF n = b THEN e ELSE step[n][g[n - 1]]
        BY <3>1
      <3>3. g[n] = IF n = b THEN e ELSE step[n][g[n - 1]]
        BY <2>1, <2>2
      <3> QED
        BY <3>2, <3>3
    <2> HIDE DEF h
    <2>3. ASSUME NEW n \in b..N, n <= b + (k + 1), n # b PROVE h[n - 1] = g[n - 1]
      <3>1. n - 1 \in b..N /\ n - 1 <= b + k
        BY <2>3
      <3> QED
        BY <2>2, <3>1
    <2>4. h = To(h, k + 1)
      BY <2>3 DEF h
    <2> QED
      BY <2>4
  <1>3. N \in T
    <2> HIDE DEF T
    <2> QED
      BY <1>1, <1>2, SetInduction
  <1>4. PICK f : f = To(f, N)
    BY <1>3
  <1>5. f = [n \in b..N |-> IF n = b THEN e ELSE step[n][f[n - 1]]]
    <2>1. \A n \in b..N : n <= b + N
      OBVIOUS
    <2> QED
      BY <1>4, <2>1
  <1>6. \A n \in b..N : f[n] \in S[n]
    <2>1. f[b] \in S[b]
      BY <1>5
    <2>2. ASSUME NEW n \in b + 1..N, f[n - 1] \in S[n - 1] PROVE f[n] \in S[n]
      <3>1. n \in b..N /\ n # b
        OBVIOUS
      <3>2. f[n] = step[n][f[n - 1]]
        BY <1>5, <3>1
      <3> QED
        BY <2>2, <3>2
    <2> HIDE <1>4, <1>5
    <2> QED
      BY <2>1, <2>2, Stepwise
  <1> QED
    BY <1>5, <1>6 DEF Recursive

-----------------------------------------------------------------------------
(* The samples at some places *)

\* x has some samples of s, from the places K up to n, in their order.
Picked(x, s, K, n) ==
    \E p \in [DOMAIN x -> K \cap 1..n] :
       /\ \A i, j \in DOMAIN x : i < j => p[i] < p[j]
       /\ \A i \in DOMAIN x : x[i] = s[p[i]]

LEMMA PickedNothing ==
    ASSUME NEW s, NEW K PROVE Picked(<<>>, s, K, 0)
  <1>1. DOMAIN <<>> = {}
    OBVIOUS
  <1>2. [i \in {} |-> 0] \in [{} -> K \cap 1..0]
    OBVIOUS
  <1> QED
    BY <1>1, <1>2 DEF Picked

LEMMA PickedLater ==
    ASSUME NEW x, NEW s, NEW K, NEW n \in Nat, Picked(x, s, K, n)
    PROVE  Picked(x, s, K, n + 1)
  <1>1. K \cap 1..n \subseteq K \cap 1..n + 1
    OBVIOUS
  <1> QED
    BY <1>1 DEF Picked

LEMMA PickedOneMore ==
    ASSUME NEW T, NEW s, NEW K, NEW n \in Nat, n + 1 \in K, s[n + 1] \in T,
           NEW x \in Seq(T), Picked(x, s, K, n)
    PROVE  Picked(Append(x, s[n + 1]), s, K, n + 1)
  <1> DEFINE y == Append(x, s[n + 1])
             m == Len(x)
  <1>1. PICK p \in [DOMAIN x -> K \cap 1..n] :
           /\ \A i, j \in DOMAIN x : i < j => p[i] < p[j]
           /\ \A i \in DOMAIN x : x[i] = s[p[i]]
    BY DEF Picked
  <1>2. /\ m \in Nat /\ DOMAIN x = 1..m /\ DOMAIN y = 1..m + 1
        /\ y[m + 1] = s[n + 1] /\ \A i \in 1..m : y[i] = x[i]
    OBVIOUS
  <1> HIDE DEF y
  <1> DEFINE q == [i \in 1..m + 1 |-> IF i = m + 1 THEN n + 1 ELSE p[i]]
  <1>3. \A i \in 1..m : p[i] \in K /\ p[i] \in 1..n
    BY <1>1, <1>2
  <1>4. \A i \in 1..m + 1 : i # m + 1 => i \in 1..m
    BY <1>2
  <1>5. q \in [1..m + 1 -> K \cap 1..n + 1]
    BY <1>3, <1>4
  <1>6. ASSUME NEW i \in 1..m + 1, NEW j \in 1..m + 1, i < j PROVE q[i] < q[j]
    <2>1. i \in 1..m /\ q[i] = p[i] /\ p[i] \in 1..n
      BY <1>2, <1>3, <1>6
    <2>2. CASE j = m + 1
      BY <2>1, <2>2
    <2>3. CASE j # m + 1
      BY <1>1, <1>2, <1>4, <1>6, <2>1, <2>3
    <2> QED
      BY <2>2, <2>3
  <1>7. \A i \in 1..m + 1 : y[i] = s[q[i]]
    BY <1>1, <1>2, <1>4
  <1> HIDE DEF q
  <1>8. Picked(y, s, K, n + 1)
    BY <1>2, <1>5, <1>6, <1>7 DEF Picked
  <1> QED
    BY <1>8 DEF y

LEMMA AtIs ==
    ASSUME NEW T, NEW s \in Seq(T), NEW K, K \subseteq DOMAIN s
    PROVE  /\ At(s, K) \in Seq(T) /\ Len(At(s, K)) <= Len(s)
           /\ Picked(At(s, K), s, K, Len(s))
  <1> DEFINE N == Len(s)
             One(n, x) == IF n \in K THEN Append(x, s[n]) ELSE x
             S == [n \in 0..N |-> {x \in Seq(T) : Len(x) <= n /\ Picked(x, s, K, n)}]
             step == [n \in 1..N |-> [x \in S[n - 1] |-> One(n, x)]]
             At0(f) == f = [n \in 0..N |-> IF n = 0 THEN <<>> ELSE One(n, f[n - 1])]
  <1>0. N \in Nat /\ K \subseteq 1..N /\ \A n \in 1..N : s[n] \in T
    OBVIOUS
  <1>1. <<>> \in S[0]
    <2>1. <<>> \in Seq(T) /\ Len(<<>>) = 0
      OBVIOUS
    <2> QED
      BY <1>0, <2>1, PickedNothing
  <1>2. ASSUME NEW n \in 1..N, NEW x \in S[n - 1] PROVE One(n, x) \in S[n]
    <2>1. n - 1 \in 0..N /\ n - 1 \in Nat /\ (n - 1) + 1 = n /\ n \in 0..N
      BY <1>0
    <2>2. x \in Seq(T) /\ Len(x) <= n - 1 /\ Picked(x, s, K, n - 1)
      BY <2>1
    <2>3. CASE n \in K
      <3>1. Append(x, s[n]) \in Seq(T) /\ Len(Append(x, s[n])) <= n
        BY <1>0, <2>1, <2>2
      <3>2. Picked(Append(x, s[n]), s, K, n)
        <4>1. Picked(Append(x, s[(n - 1) + 1]), s, K, (n - 1) + 1)
          BY <1>0, <2>1, <2>2, <2>3, PickedOneMore
        <4> QED
          BY <2>1, <4>1
      <3> QED
        BY <2>1, <2>3, <3>1, <3>2
    <2>4. CASE n \notin K
      <3>1. Picked(x, s, K, n)
        <4>1. Picked(x, s, K, (n - 1) + 1)
          BY <2>1, <2>2, PickedLater
        <4> QED
          BY <2>1, <4>1
      <3>2. Len(x) <= n
        <4>1. Len(x) \in Nat
          BY <2>2
        <4> QED
          BY <2>1, <2>2, <4>1
      <3> QED
        BY <2>1, <2>2, <2>4, <3>1, <3>2
    <2> QED
      BY <2>3, <2>4
  <1> HIDE DEF S, One
  <1>3. \E f : At0(f)
    <2>0. PICK b \in Nat : b = 0
      OBVIOUS
    <2>1. \A n \in b + 1..N : \A x \in S[n - 1] : step[n][x] \in S[n]
      BY <1>2, <2>0
    <2>2. PICK f : /\ f = [n \in 0..N |-> IF n = 0 THEN <<>> ELSE step[n][f[n - 1]]]
                   /\ \A n \in 0..N : f[n] \in S[n]
      <3> HIDE DEF step, N
      <3>1. \E f : /\ f = [n \in b..N |-> IF n = b THEN <<>> ELSE step[n][f[n - 1]]]
                  /\ \A n \in b..N : f[n] \in S[n]
        <4>1. PICK e : e = <<>>
          OBVIOUS
        <4>2. e \in S[b] /\ b <= N /\ N \in Nat
          BY <1>0, <1>1, <2>0, <4>1
        <4>3. \E f : Recursive(f, b, N, e, step) /\ \A n \in b..N : f[n] \in S[n]
          BY <2>1, <4>2, Recursion
        <4> QED
          BY <4>1, <4>3 DEF Recursive
      <3> QED
        BY <2>0, <3>1
    <2>3. \A n \in 0..N : n # 0 => step[n][f[n - 1]] = One(n, f[n - 1])
      <3> SUFFICES ASSUME NEW n \in 0..N, n # 0 PROVE step[n][f[n - 1]] = One(n, f[n - 1])
        OBVIOUS
      <3>1. n \in 1..N /\ n - 1 \in 0..N
        BY <1>0
      <3> QED
        BY <2>2, <3>1
    <2> HIDE DEF step
    <2>4. At0(f)
      BY <2>2, <2>3
    <2> QED
      BY <2>4
  <1> DEFINE g == CHOOSE f : At0(f)
  <1>4. At(s, K) = g[N]
    BY DEF At, One
  <1>5. At0(g)
    BY <1>3
  <1> HIDE DEF g
  <1>6. g[N] \in S[N]
    <2>0. PICK b \in Nat : b = 0
      OBVIOUS
    <2>1. ASSUME NEW n \in b + 1..N, g[n - 1] \in S[n - 1] PROVE g[n] \in S[n]
      <3>1. g[n] = One(n, g[n - 1]) /\ n \in 1..N
        BY <1>0, <1>5, <2>0
      <3> QED
        BY <1>2, <2>1, <3>1
    <2>2. g[0] \in S[0]
      BY <1>0, <1>1, <1>5
    <2>3. N \in 0..N
      BY <1>0
    <2> HIDE DEF At0, N
    <2>4. \A n \in b..N : g[n] \in S[n]
      <3>1. g[b] \in S[b] /\ b <= N /\ N \in Nat
        BY <1>0, <2>0, <2>2
      <3> QED
        BY <2>1, <3>1, Stepwise
    <2> QED
      BY <2>0, <2>3, <2>4
  <1> QED
    BY <1>0, <1>4, <1>6 DEF S

\* What is picked from a sorted sequence is sorted.
LEMMA PickedSorted ==
    ASSUME NEW s \in Seq(Measurement), Sorted(s), NEW K, NEW x, Picked(x, s, K, Len(s))
    PROVE  Sorted(x) /\ \A i \in DOMAIN x : \E k \in K \cap DOMAIN s : x[i] = s[k]
  <1>1. PICK p \in [DOMAIN x -> K \cap 1..Len(s)] :
           /\ \A i, j \in DOMAIN x : i < j => p[i] < p[j]
           /\ \A i \in DOMAIN x : x[i] = s[p[i]]
    BY DEF Picked
  <1>2. DOMAIN s = 1..Len(s)
    OBVIOUS
  <1>3. ASSUME NEW i \in DOMAIN x, NEW j \in DOMAIN x, i < j PROVE x[i].t < x[j].t
    <2>1. p[i] \in DOMAIN s /\ p[j] \in DOMAIN s /\ p[i] < p[j]
      BY <1>1, <1>2, <1>3
    <2> QED
      BY <1>1, <2>1 DEF Sorted
  <1>4. \A i \in DOMAIN x : p[i] \in K \cap DOMAIN s
    BY <1>1, <1>2
  <1> QED
    BY <1>1, <1>3, <1>4 DEF Sorted

-----------------------------------------------------------------------------
(* The sums of an audit trail *)

LEMMA IntervalFinite ==
    ASSUME NEW m \in Nat, NEW A \in SUBSET (1..m) PROVE IsFiniteSet(A)
  <1>1. IsFiniteSet(1..m)
    BY FS_Interval
  <1> QED
    BY <1>1, FS_Subset

Shifted(m, B) == {m + k : k \in B}

\* A sum over one sequence and another after it.
LEMMA TotalShifts ==
    ASSUME NEW m \in Nat, NEW A, \A k \in A : k \in 1..m,
           NEW B, IsFiniteSet(B), \A k \in B : k \in Nat /\ k > 0,
           NEW f, NEW g, NEW h, \A k \in A : f[k] \in Int /\ h[k] = f[k],
           \A k \in B : g[k] \in Int /\ h[m + k] = g[k]
    PROVE  Total(h, A \cup Shifted(m, B)) = Total(f, A) + Total(g, B)
  <1> DEFINE U(T) == A \cup Shifted(m, T)
             Q == {T \in SUBSET B : Total(h, U(T)) = Total(f, A) + Total(g, T)}
  <1>0. IsFiniteSet(A) /\ IsFiniteSet(B) /\ \A T \in SUBSET B : IsFiniteSet(T)
    <2>1. A \in SUBSET (1..m)
      OBVIOUS
    <2> QED
      BY <2>1, IntervalFinite, FS_Subset
  <1>1. ASSUME NEW T \in SUBSET B PROVE IsFiniteSet(U(T)) /\ \A k \in U(T) : h[k] \in Int
    <2>1. IsFiniteSet(T)
      BY <1>0
    <2>2. IsFiniteSet(Shifted(m, T))
      <3> DEFINE e == [k \in T |-> m + k]
      <3>1. e \in Surjection(T, Shifted(m, T))
        BY DEF Surjection, Shifted
      <3> QED
        BY <2>1, <3>1, FS_Surjection
    <2>3. IsFiniteSet(U(T))
      BY <1>0, <2>2, FS_Union
    <2>4. \A k \in U(T) : h[k] \in Int
      BY DEF Shifted
    <2> QED
      BY <2>3, <2>4
  <1>2. ASSUME NEW T \in SUBSET B, \A x \in T : T \ {x} \in Q PROVE T \in Q
    <2>1. CASE T = {}
      <3>1. U(T) = A
        BY <2>1 DEF Shifted
      <3>2. Total(h, A) = Total(f, A) /\ Total(f, A) \in Int
        BY <1>0, TotalAgrees, TotalIsInt
      <3>3. Total(g, T) = 0
        BY <2>1, TotalOfNothing
      <3> HIDE DEF U
      <3> QED
        BY <3>1, <3>2, <3>3
    <2>2. CASE T # {}
      <3>1. PICK x \in T : TRUE
        BY <2>2
      <3> DEFINE R == T \ {x}
      <3>2. Total(h, U(R)) = Total(f, A) + Total(g, R) /\ R \in SUBSET B
        BY <1>2, <3>1
      <3>3. x \in B /\ x \in Nat /\ x > 0 /\ x \notin R /\ T = R \cup {x}
        BY <3>1
      <3>4. m + x \notin U(R) /\ U(T) = U(R) \cup {m + x}
        <4>1. \A k \in R : k \in Nat /\ k # x
          <5>1. \A k \in R : k \in B /\ k # x
            BY <3>2
          <5> QED
            BY <5>1
        <4>2. m + x \notin A
          <5>1. m + x \notin 1..m
            BY <3>3
          <5> QED
            BY <5>1
        <4>3. \A k \in R : m + k # m + x
          BY <3>3, <4>1
        <4> HIDE DEF R
        <4> QED
          BY <3>3, <4>2, <4>3 DEF Shifted
      <3> HIDE DEF R, U
      <3>5. Total(h, U(R) \cup {m + x}) = h[m + x] + Total(h, U(R))
        <4>1. IsFiniteSet(U(R)) /\ \A k \in U(R) : h[k] \in Int
          BY <1>1, <3>2
        <4>2. h[m + x] \in Int
          BY <3>3
        <4>3. PICK V, y : V = U(R) /\ y = m + x
          OBVIOUS
        <4>4. Total(h, V \cup {y}) = h[y] + Total(h, V)
          <5>1. y \notin V /\ IsFiniteSet(V) /\ h[y] \in Int /\ \A k \in V : h[k] \in Int
            BY <3>4, <4>1, <4>2, <4>3
          <5> QED
            BY <5>1, TotalAdds
        <4> QED
          BY <4>3, <4>4
      <3>6. Total(g, R \cup {x}) = g[x] + Total(g, R)
        <4>1. IsFiniteSet(R) /\ \A k \in R : g[k] \in Int
          BY <1>0, <3>2
        <4>2. g[x] \in Int
          BY <3>3
        <4> QED
          BY <3>3, <4>1, <4>2, TotalAdds
      <3>7. Total(f, A) \in Int /\ Total(g, R) \in Int
        <4>1. IsFiniteSet(R) /\ \A k \in R : g[k] \in Int
          BY <1>0, <3>2
        <4> QED
          BY <1>0, <4>1, TotalIsInt
      <3>8. g[x] \in Int /\ h[m + x] = g[x]
        BY <3>3
      <3>9. Total(h, U(T)) = Total(f, A) + Total(g, T)
        <4>1. Total(h, U(T)) = g[x] + (Total(f, A) + Total(g, R))
          BY <3>2, <3>4, <3>5, <3>8
        <4>2. Total(g, T) = g[x] + Total(g, R)
          BY <3>3, <3>6
        <4> QED
          BY <3>7, <3>8, <4>1, <4>2
      <3> QED
        BY <3>9
    <2> QED
      BY <2>1, <2>2
  <1>3. SUBSET B \subseteq Q
    <2> HIDE DEF Q
    <2> QED
      BY <1>0, <1>2, SubsetInduction
  <1>4. B \in Q
    BY <1>3
  <1> QED
    BY <1>4

LEMMA TotalOfZeros ==
    ASSUME NEW S, IsFiniteSet(S), NEW f, \A x \in S : f[x] = 0
    PROVE  Total(f, S) = 0
  <1> DEFINE Q == {T \in SUBSET S : Total(f, T) = 0}
  <1>1. ASSUME NEW T \in SUBSET S, \A x \in T : T \ {x} \in Q PROVE T \in Q
    <2>1. CASE T = {}
      BY <2>1, TotalOfNothing
    <2>2. CASE T # {}
      <3>1. PICK x \in T : TRUE
        BY <2>2
      <3> DEFINE R == T \ {x}
      <3>2. Total(f, R) = 0 /\ R \in SUBSET S /\ x \notin R /\ T = R \cup {x} /\ IsFiniteSet(R)
        BY <1>1, <3>1, FS_Subset
      <3>3. f[x] = 0 /\ f[x] \in Int /\ \A y \in R : f[y] \in Int
        <4>1. f[x] = 0 /\ \A y \in R : f[y] = 0
          BY <3>1, <3>2
        <4> QED
          BY <4>1
      <3> HIDE DEF R
      <3>4. Total(f, R \cup {x}) = f[x] + Total(f, R)
        BY <3>2, <3>3, TotalAdds
      <3> QED
        BY <3>2, <3>3, <3>4
    <2> QED
      BY <2>1, <2>2
  <1>2. SUBSET S \subseteq Q
    <2> HIDE DEF Q
    <2> QED
      BY <1>1, SubsetInduction
  <1>3. S \in Q
    BY <1>2
  <1> QED
    BY <1>3

LEMMA TotalOfOne ==
    ASSUME NEW f, NEW x, f[x] \in Int PROVE Total(f, {x}) = f[x]
  <1>1. Total(f, {} \cup {x}) = f[x] + Total(f, {})
    BY FS_EmptySet, TotalAdds
  <1>2. Total(f, {}) = 0 /\ {} \cup {x} = {x}
    BY TotalOfNothing
  <1> QED
    BY <1>1, <1>2

Reasons == {"consumption", "abrupt_drop", "transient_weight_increase", "weight_increase",
            "rate_limit", "gap", "pending_weight_increase", "no_data"}
Intervals == [start : Int, end : Int, included : BOOLEAN, reason : Reasons, change : Int]

Lengths(s) == [k \in DOMAIN s |-> s[k].end - s[k].start]
Changes(s) == [k \in DOMAIN s |-> s[k].change]
Counts(s) == {k \in DOMAIN s : s[k].included}

TimeOf(s) == Total(Lengths(s), Counts(s))
ChangeOf(s) == Total(Changes(s), DOMAIN s)

LEMMA SumsType ==
    ASSUME NEW s \in Seq(Intervals)
    PROVE  /\ Len(s) \in Nat /\ DOMAIN s = 1..Len(s) /\ \A k \in 1..Len(s) : s[k] \in Intervals
           /\ \A k \in 1..Len(s) : Lengths(s)[k] \in Int /\ Changes(s)[k] \in Int
           /\ Counts(s) \in SUBSET (1..Len(s))
           /\ TimeOf(s) \in Int /\ ChangeOf(s) \in Int
  <1>1. Len(s) \in Nat /\ DOMAIN s = 1..Len(s) /\ \A k \in 1..Len(s) : s[k] \in Intervals
    OBVIOUS
  <1>2. \A k \in 1..Len(s) : Lengths(s)[k] \in Int /\ Changes(s)[k] \in Int
    BY <1>1 DEF Lengths, Changes, Intervals
  <1>3. Counts(s) \in SUBSET (1..Len(s)) /\ DOMAIN s \in SUBSET (1..Len(s))
    BY <1>1 DEF Counts
  <1>4. IsFiniteSet(Counts(s)) /\ IsFiniteSet(DOMAIN s)
    BY <1>1, <1>3, IntervalFinite
  <1>5. TimeOf(s) \in Int
    <2>1. \A k \in Counts(s) : Lengths(s)[k] \in Int
      BY <1>2, <1>3
    <2> QED
      BY <1>4, <2>1, TotalIsInt DEF TimeOf
  <1>6. ChangeOf(s) \in Int
    <2>1. \A k \in DOMAIN s : Changes(s)[k] \in Int
      BY <1>1, <1>2
    <2> QED
      BY <1>4, <2>1, TotalIsInt DEF ChangeOf
  <1> QED
    BY <1>1, <1>2, <1>3, <1>5, <1>6

LEMMA ConcatIs ==
    ASSUME NEW T, NEW s \in Seq(T), NEW r \in Seq(T)
    PROVE  /\ s \o r \in Seq(T) /\ Len(s \o r) = Len(s) + Len(r)
           /\ \A k \in 1..Len(s) : (s \o r)[k] = s[k]
           /\ \A k \in 1..Len(r) : (s \o r)[Len(s) + k] = r[k]
  OBVIOUS

LEMMA SumsOfConcat ==
    ASSUME NEW s \in Seq(Intervals), NEW r \in Seq(Intervals)
    PROVE  /\ TimeOf(s \o r) = TimeOf(s) + TimeOf(r)
           /\ ChangeOf(s \o r) = ChangeOf(s) + ChangeOf(r)
  <1> DEFINE m == Len(s)
             n == Len(r)
             x == s \o r
  <1>1. /\ m \in Nat /\ DOMAIN s = 1..m /\ \A k \in 1..m : s[k] \in Intervals
        /\ n \in Nat /\ DOMAIN r = 1..n /\ \A k \in 1..n : r[k] \in Intervals
        /\ \A k \in 1..m : Lengths(s)[k] \in Int /\ Changes(s)[k] \in Int
        /\ \A k \in 1..n : Lengths(r)[k] \in Int /\ Changes(r)[k] \in Int
        /\ Counts(s) \in SUBSET (1..m) /\ Counts(r) \in SUBSET (1..n)
    BY SumsType
  <1>2. /\ x \in Seq(Intervals) /\ Len(x) = m + n /\ DOMAIN x = 1..m + n
        /\ \A k \in 1..m : x[k] = s[k]
        /\ \A k \in 1..n : x[m + k] = r[k]
    BY <1>1, ConcatIs
  <1> HIDE DEF x
  <1>3. /\ \A k \in 1..m : k \in DOMAIN x /\ Lengths(x)[k] = Lengths(s)[k] /\ Changes(x)[k] = Changes(s)[k]
        /\ \A k \in 1..n : m + k \in DOMAIN x
                           /\ Lengths(x)[m + k] = Lengths(r)[k] /\ Changes(x)[m + k] = Changes(r)[k]
    BY <1>1, <1>2 DEF Lengths, Changes
  <1>4. \A k \in 1..m + n : k \in 1..m \/ (k - m \in 1..n /\ m + (k - m) = k)
    BY <1>1
  <1>5. Counts(x) = Counts(s) \cup Shifted(m, Counts(r))
    <2>1. ASSUME NEW k \in Counts(x) PROVE k \in Counts(s) \cup Shifted(m, Counts(r))
      <3>1. k \in 1..m + n /\ x[k].included
        BY <1>2, <2>1 DEF Counts
      <3>2. CASE k \in 1..m
        BY <1>1, <1>2, <3>1, <3>2 DEF Counts
      <3>3. CASE k - m \in 1..n /\ m + (k - m) = k
        <4> DEFINE j == k - m
        <4>1. j \in 1..n /\ m + j = k
          BY <3>3
        <4> HIDE DEF j
        <4>2. j \in Counts(r)
          BY <1>1, <1>2, <3>1, <4>1 DEF Counts
        <4> QED
          BY <4>1, <4>2 DEF Shifted
      <3> QED
        BY <1>4, <3>1, <3>2, <3>3
    <2>2. ASSUME NEW k \in Counts(s) PROVE k \in Counts(x)
      BY <1>1, <1>2, <1>3, <2>2 DEF Counts
    <2>3. ASSUME NEW k \in Counts(r) PROVE m + k \in Counts(x)
      BY <1>1, <1>2, <1>3, <2>3 DEF Counts
    <2> QED
      BY <2>1, <2>2, <2>3 DEF Shifted
  <1>6. DOMAIN x = (1..m) \cup Shifted(m, 1..n)
    <2>1. ASSUME NEW k \in DOMAIN x PROVE k \in (1..m) \cup Shifted(m, 1..n)
      <3>1. CASE k \in 1..m
        BY <3>1
      <3>2. CASE k - m \in 1..n /\ m + (k - m) = k
        BY <3>2 DEF Shifted
      <3> QED
        BY <1>2, <1>4, <3>1, <3>2
    <2> QED
      BY <1>3, <2>1 DEF Shifted
  <1>7. TimeOf(x) = TimeOf(s) + TimeOf(r)
    <2> DEFINE A == Counts(s)
               B == Counts(r)
    <2>1. \A k \in A : Lengths(s)[k] \in Int /\ Lengths(x)[k] = Lengths(s)[k]
      BY <1>1, <1>3
    <2>2. \A k \in B : Lengths(r)[k] \in Int /\ Lengths(x)[m + k] = Lengths(r)[k]
      BY <1>1, <1>3
    <2>3. m \in Nat /\ (\A k \in A : k \in 1..m) /\ IsFiniteSet(B) /\ \A k \in B : k \in Nat /\ k > 0
      <3>1. (\A k \in A : k \in 1..m) /\ \A k \in B : k \in 1..n
        BY <1>1
      <3>2. IsFiniteSet(B)
        <4>1. B \in SUBSET (1..n) /\ n \in Nat
          BY <1>1
        <4> QED
          BY <4>1, IntervalFinite
      <3>3. \A k \in B : k \in Nat /\ k > 0
        BY <1>1, <3>1
      <3> QED
        BY <1>1, <3>1, <3>2, <3>3
    <2> HIDE DEF A, B, m, n
    <2>4. Total(Lengths(x), A \cup Shifted(m, B)) = Total(Lengths(s), A) + Total(Lengths(r), B)
      BY <2>1, <2>2, <2>3, TotalShifts, SMTT(40)
    <2> QED
      BY <1>5, <2>4 DEF A, B, TimeOf
  <1>8. ChangeOf(x) = ChangeOf(s) + ChangeOf(r)
    <2> DEFINE A == 1..m
               B == 1..n
    <2>1. \A k \in A : Changes(s)[k] \in Int /\ Changes(x)[k] = Changes(s)[k]
      BY <1>1, <1>3
    <2>2. \A k \in B : Changes(r)[k] \in Int /\ Changes(x)[m + k] = Changes(r)[k]
      BY <1>1, <1>3
    <2>3. m \in Nat /\ (\A k \in A : k \in 1..m) /\ IsFiniteSet(B) /\ \A k \in B : k \in Nat /\ k > 0
      <3>1. (\A k \in A : k \in 1..m) /\ \A k \in B : k \in 1..n
        BY <1>1
      <3>2. IsFiniteSet(B)
        <4>1. B \in SUBSET (1..n) /\ n \in Nat
          BY <1>1
        <4> QED
          BY <4>1, IntervalFinite
      <3>3. \A k \in B : k \in Nat /\ k > 0
        BY <1>1, <3>1
      <3> QED
        BY <1>1, <3>1, <3>2, <3>3
    <2>4. DOMAIN s = A /\ DOMAIN r = B /\ DOMAIN x = A \cup Shifted(m, B)
      BY <1>1, <1>6
    <2> HIDE DEF A, B, m, n
    <2>5. Total(Changes(x), A \cup Shifted(m, B)) = Total(Changes(s), A) + Total(Changes(r), B)
      BY <2>1, <2>2, <2>3, TotalShifts, SMTT(40)
    <2> QED
      BY <2>4, <2>5 DEF ChangeOf
  <1> QED
    BY <1>7, <1>8 DEF x

LEMMA SumsOfOne ==
    ASSUME NEW v \in Intervals
    PROVE  /\ TimeOf(<<v>>) = IF v.included THEN v.end - v.start ELSE 0
           /\ ChangeOf(<<v>>) = v.change
  <1> DEFINE x == <<v>>
  <1>1. DOMAIN x = {1} /\ x[1] = v /\ v.end - v.start \in Int /\ v.change \in Int
    BY DEF Intervals
  <1> HIDE DEF x
  <1>2. Lengths(x)[1] = v.end - v.start /\ Changes(x)[1] = v.change
    BY <1>1 DEF Lengths, Changes
  <1>3. Counts(x) = IF v.included THEN {1} ELSE {}
    BY <1>1 DEF Counts
  <1>4. ChangeOf(x) = v.change
    BY <1>1, <1>2, TotalOfOne DEF ChangeOf
  <1>5. TimeOf(x) = IF v.included THEN v.end - v.start ELSE 0
    <2>1. CASE v.included
      BY <1>1, <1>2, <1>3, <2>1, TotalOfOne DEF TimeOf
    <2>2. CASE ~v.included
      BY <1>3, <2>2, TotalOfNothing DEF TimeOf
    <2> QED
      BY <2>1, <2>2
  <1> QED
    BY <1>4, <1>5 DEF x

LEMMA SumsOfNone == TimeOf(<<>>) = 0 /\ ChangeOf(<<>>) = 0
  <1>1. DOMAIN <<>> = {} /\ Counts(<<>>) = {}
    BY DEF Counts
  <1> QED
    BY <1>1, TotalOfNothing DEF TimeOf, ChangeOf

LEMMA SumsOfAppend ==
    ASSUME NEW s \in Seq(Intervals), NEW v \in Intervals
    PROVE  /\ TimeOf(Append(s, v)) = TimeOf(s) + (IF v.included THEN v.end - v.start ELSE 0)
           /\ ChangeOf(Append(s, v)) = ChangeOf(s) + v.change
  <1>1. Append(s, v) = s \o <<v>> /\ <<v>> \in Seq(Intervals)
    OBVIOUS
  <1>2. TimeOf(s \o <<v>>) = TimeOf(s) + TimeOf(<<v>>) /\ ChangeOf(s \o <<v>>) = ChangeOf(s) + ChangeOf(<<v>>)
    BY <1>1, SumsOfConcat
  <1> QED
    BY <1>1, <1>2, SumsOfOne

-----------------------------------------------------------------------------
(* The pass *)

\* The intervals x lead from the time a to the time b.
Leads(x, a, b) ==
    /\ \A k \in DOMAIN x : a <= x[k].start /\ x[k].start < x[k].end /\ x[k].end <= b
    /\ \A k \in 1..Len(x) - 1 : x[k].end = x[k + 1].start
    /\ IF x = <<>> THEN a = b ELSE x[1].start = a /\ x[Len(x)].end = b

Passes == [time : Int, change : Int, intervals : Seq(Intervals), windowTime : Int,
           windowChange : Int, window : Seq(Intervals), base : Int, over : BOOLEAN]

\* The pass from the time a to the time b agrees with its audit trail.
SumsFit(r) ==
    /\ r.time = TimeOf(r.intervals) /\ r.change = ChangeOf(r.intervals)
    /\ r.windowTime = TimeOf(r.window) /\ r.windowChange = ChangeOf(r.window)
BoundsFit(r, a, b) ==
    /\ r.change <= 0 /\ r.windowChange <= 0 /\ -r.change <= MaxRate * r.time
    /\ r.time >= 0 /\ r.windowTime >= 0 /\ r.time + r.windowTime <= b - a
PassFits(r, a, b) ==
    /\ r \in Passes /\ SumsFit(r) /\ BoundsFit(r, a, b)
    /\ Leads(r.intervals \o r.window, a, b)

LEMMA LeadsAppend ==
    ASSUME NEW x \in Seq(Intervals), NEW v \in Intervals, NEW a \in Int, NEW b \in Int,
           Leads(x, a, b), v.start = b, v.start < v.end
    PROVE  Leads(Append(x, v), a, v.end)
  <1> DEFINE n == Len(x)
             y == Append(x, v)
  <1>1. /\ n \in Nat /\ DOMAIN x = 1..n /\ Len(y) = n + 1 /\ DOMAIN y = 1..n + 1 /\ y # <<>>
        /\ y[n + 1] = v /\ \A k \in 1..n : y[k] = x[k] /\ x[k] \in Intervals
        /\ x = <<>> <=> n = 0
    OBVIOUS
  <1>2. v.end \in Int /\ \A k \in 1..n : x[k].start \in Int /\ x[k].end \in Int
    BY <1>1 DEF Intervals
  <1>3. a <= b
    <2>1. CASE n = 0
      BY <1>1, <2>1 DEF Leads
    <2>2. CASE n # 0
      <3>1. 1 \in 1..n
        BY <1>1, <2>2
      <3> QED
        BY <1>1, <1>2, <3>1 DEF Leads
    <2> QED
      BY <2>1, <2>2
  <1> HIDE DEF y
  <1>4. ASSUME NEW k \in 1..n + 1
        PROVE  a <= y[k].start /\ y[k].start < y[k].end /\ y[k].end <= v.end
    <2>1. CASE k = n + 1
      BY <1>1, <1>2, <1>3, <2>1
    <2>2. CASE k # n + 1
      <3>1. k \in 1..n /\ y[k] = x[k]
        BY <1>1, <2>2
      <3>2. a <= x[k].start /\ x[k].start < x[k].end /\ x[k].end <= b
        BY <1>1, <3>1 DEF Leads
      <3> QED
        BY <1>2, <3>1, <3>2
    <2> QED
      BY <2>1, <2>2
  <1>5. ASSUME NEW k \in 1..(n + 1) - 1 PROVE y[k].end = y[k + 1].start
    <2>1. k \in 1..n /\ y[k] = x[k]
      BY <1>1
    <2>2. CASE k = n
      <3>1. x # <<>> /\ x[n].end = b
        BY <1>1, <2>1, <2>2 DEF Leads
      <3> QED
        BY <1>1, <2>1, <2>2, <3>1
    <2>3. CASE k # n
      <3>1. k \in 1..n - 1 /\ k + 1 \in 1..n
        BY <1>1, <2>1, <2>3
      <3> QED
        BY <1>1, <2>1, <3>1 DEF Leads
    <2> QED
      BY <2>2, <2>3
  <1>6. y[1].start = a
    <2>1. CASE n = 0
      BY <1>1, <2>1 DEF Leads
    <2>2. CASE n # 0
      <3>1. 1 \in 1..n /\ x # <<>>
        BY <1>1, <2>2
      <3> QED
        BY <1>1, <3>1 DEF Leads
    <2> QED
      BY <2>1, <2>2
  <1>7. Leads(y, a, v.end)
    BY <1>1, <1>4, <1>5, <1>6 DEF Leads
  <1> QED
    BY <1>7 DEF y

\* Whether an interval counts does not matter for where it lies.
LEMMA LeadsAlike ==
    ASSUME NEW x, NEW y, NEW a, NEW b, Leads(x, a, b), Len(x) \in Nat,
           Len(y) = Len(x), DOMAIN x = 1..Len(x), DOMAIN y = DOMAIN x, x = <<>> <=> Len(x) = 0,
           y = <<>> <=> Len(y) = 0,
           \A k \in DOMAIN x : y[k].start = x[k].start /\ y[k].end = x[k].end
    PROVE  Leads(y, a, b)
  <1>1. \A k \in DOMAIN y : a <= y[k].start /\ y[k].start < y[k].end /\ y[k].end <= b
    BY DEF Leads
  <1>2. \A k \in 1..Len(y) - 1 : y[k].end = y[k + 1].start
    <2> SUFFICES ASSUME NEW k \in 1..Len(x) - 1 PROVE y[k].end = y[k + 1].start
      OBVIOUS
    <2>1. k \in DOMAIN x /\ k + 1 \in DOMAIN x
      OBVIOUS
    <2> QED
      BY <2>1 DEF Leads
  <1>3. y # <<>> => 1 \in DOMAIN x /\ Len(x) \in DOMAIN x
    OBVIOUS
  <1> QED
    BY <1>1, <1>2, <1>3 DEF Leads

\* The window's intervals when its rate is too high: shown, not counted.
Rejected(x) == [k \in DOMAIN x |-> [x[k] EXCEPT !.included = FALSE, !.reason = "rate_limit", !.change = 0]]

LEMMA RejectedIs ==
    ASSUME NEW x \in Seq(Intervals)
    PROVE  /\ Rejected(x) \in Seq(Intervals) /\ Len(Rejected(x)) = Len(x)
           /\ \A k \in DOMAIN x : /\ Rejected(x)[k].start = x[k].start /\ Rejected(x)[k].end = x[k].end
                                  /\ Rejected(x)[k].included = FALSE /\ Rejected(x)[k].change = 0
           /\ TimeOf(Rejected(x)) = 0 /\ ChangeOf(Rejected(x)) = 0
  <1> DEFINE y == Rejected(x)
             n == Len(x)
  <1>1. n \in Nat /\ DOMAIN x = 1..n /\ \A k \in 1..n : x[k] \in Intervals
    OBVIOUS
  <1>2. \A k \in 1..n : y[k] = [x[k] EXCEPT !.included = FALSE, !.reason = "rate_limit", !.change = 0]
    BY <1>1 DEF Rejected
  <1>3. ASSUME NEW k \in 1..n
        PROVE  /\ y[k] \in Intervals /\ y[k].start = x[k].start /\ y[k].end = x[k].end
               /\ y[k].included = FALSE /\ y[k].change = 0
    <2>1. PICK v \in Intervals : v = x[k]
      BY <1>1
    <2>2. y[k] = [v EXCEPT !.included = FALSE, !.reason = "rate_limit", !.change = 0]
      BY <1>2, <2>1
    <2>3. y[k] \in Intervals
      <3>1. /\ v = [start |-> v.start, end |-> v.end, included |-> v.included,
                    reason |-> v.reason, change |-> v.change]
            /\ v.start \in Int /\ v.end \in Int
        BY DEF Intervals
      <3>2. y[k] = [start |-> v.start, end |-> v.end, included |-> FALSE,
                    reason |-> "rate_limit", change |-> 0]
        BY <2>2, <3>1
      <3>3. "rate_limit" \in Reasons /\ FALSE \in BOOLEAN /\ 0 \in Int
        BY DEF Reasons
      <3> QED
        BY <3>1, <3>2, <3>3 DEF Intervals
    <2>4. y[k].start = v.start /\ y[k].end = v.end
      BY <2>2 DEF Intervals
    <2>5. y[k].included = FALSE /\ y[k].change = 0
      BY <2>2 DEF Intervals
    <2> QED
      BY <2>1, <2>3, <2>4, <2>5
  <1>4. DOMAIN y = 1..n /\ y = [k \in 1..n |-> y[k]]
    BY <1>1 DEF Rejected
  <1> HIDE DEF y
  <1>5. y \in Seq(Intervals) /\ Len(y) = n
    <2>1. y \in [1..n -> Intervals]
      BY <1>3, <1>4
    <2> QED
      BY <1>1, <2>1
  <1>6. TimeOf(y) = 0
    <2>1. Counts(y) = {}
      BY <1>3, <1>4 DEF Counts
    <2> QED
      BY <2>1, TotalOfNothing DEF TimeOf
  <1>7. ChangeOf(y) = 0
    <2>1. IsFiniteSet(DOMAIN y)
      <3>1. IsFiniteSet(1..n)
        BY <1>1, FS_Interval
      <3> QED
        BY <1>4, <3>1
    <2>2. \A k \in DOMAIN y : Changes(y)[k] = 0
      BY <1>3, <1>4 DEF Changes
    <2> QED
      BY <2>1, <2>2, TotalOfZeros DEF ChangeOf
  <1> QED
    BY <1>1, <1>3, <1>5, <1>6, <1>7 DEF y

LEMMA PassIs ==
    ASSUME NEW r \in Passes
    PROVE  /\ r.time \in Int /\ r.change \in Int /\ r.windowTime \in Int /\ r.windowChange \in Int
           /\ r.intervals \in Seq(Intervals) /\ r.window \in Seq(Intervals)
           /\ r.base \in Int /\ r.over \in BOOLEAN
  BY DEF Passes

LEMMA PassRecord ==
    ASSUME NEW r \in Passes
    PROVE  r = [time |-> r.time, change |-> r.change, intervals |-> r.intervals,
                windowTime |-> r.windowTime, windowChange |-> r.windowChange, window |-> r.window,
                base |-> r.base, over |-> r.over]
  BY DEF Passes

LEMMA Distributes ==
    ASSUME NEW a \in Int, NEW b \in Int, NEW n \in Nat
    PROVE  n * (a + b) = n * a + n * b /\ n * a \in Int /\ n * b \in Int
  OBVIOUS

LEMMA IncludedIs ==
    ASSUME NEW r \in Passes, NEW e, e = IncludeWindow(r)
    PROVE  /\ e \in Passes
           /\ e.time = r.time + r.windowTime /\ e.change = r.change + r.windowChange
           /\ e.intervals = r.intervals \o r.window
           /\ e.windowTime = 0 /\ e.windowChange = 0
           /\ e.window = <<>>
           /\ e.base = r.base /\ e.over = r.over
  <1>1. r = [time |-> r.time, change |-> r.change, intervals |-> r.intervals,
             windowTime |-> r.windowTime, windowChange |-> r.windowChange, window |-> r.window,
             base |-> r.base, over |-> r.over]
    BY PassRecord
  <1>2. e = [time |-> r.time + r.windowTime, change |-> r.change + r.windowChange,
             intervals |-> r.intervals \o r.window,
             windowTime |-> 0, windowChange |-> 0,
             window |-> <<>>, base |-> r.base, over |-> r.over]
    BY <1>1 DEF IncludeWindow
  <1>3. /\ r.intervals \o r.window \in Seq(Intervals) /\ <<>> \in Seq(Intervals)
        /\ r.time + r.windowTime \in Int /\ r.change + r.windowChange \in Int
    BY PassIs, ConcatIs
  <1> QED
    BY <1>2, <1>3, PassIs DEF Passes

\* finish_window of a window whose rate is too high.
Reject(r) == [r EXCEPT !.intervals = @ \o Rejected(r.window),
                       !.windowTime = 0, !.windowChange = 0, !.window = <<>>]

LEMMA RejectIs ==
    ASSUME NEW r \in Passes, NEW e, e = Reject(r)
    PROVE  /\ e \in Passes
           /\ e.time = r.time /\ e.change = r.change
           /\ e.intervals = r.intervals \o Rejected(r.window)
           /\ e.windowTime = 0 /\ e.windowChange = 0
           /\ e.window = <<>>
           /\ e.base = r.base /\ e.over = r.over
  <1>1. r = [time |-> r.time, change |-> r.change, intervals |-> r.intervals,
             windowTime |-> r.windowTime, windowChange |-> r.windowChange, window |-> r.window,
             base |-> r.base, over |-> r.over]
    BY PassRecord
  <1>2. e = [time |-> r.time, change |-> r.change,
             intervals |-> r.intervals \o Rejected(r.window),
             windowTime |-> 0, windowChange |-> 0,
             window |-> <<>>, base |-> r.base, over |-> r.over]
    BY <1>1 DEF Reject
  <1>3. r.intervals \o Rejected(r.window) \in Seq(Intervals) /\ <<>> \in Seq(Intervals)
    <2>1. Rejected(r.window) \in Seq(Intervals)
      BY PassIs, RejectedIs
    <2> QED
      BY <2>1, PassIs, ConcatIs
  <1> QED
    BY <1>2, <1>3, PassIs DEF Passes

LEMMA FinishIs ==
    ASSUME NEW r
    PROVE  FinishWindow(r) = IF -r.windowChange <= MaxRate * r.windowTime THEN IncludeWindow(r)
                             ELSE Reject(r)
  BY DEF FinishWindow, Reject, Rejected

\* What finish_window leaves open: nothing.
Closed(r) == r.windowTime = 0 /\ r.windowChange = 0 /\ r.window = <<>>

LEMMA ConcatNothing ==
    ASSUME NEW T, NEW x \in Seq(T) PROVE x \o <<>> = x
  OBVIOUS

LEMMA IncludeFits ==
    ASSUME NEW r, NEW a \in Int, NEW b \in Int, PassFits(r, a, b),
           -r.windowChange <= MaxRate * r.windowTime,
           NEW e, e = IncludeWindow(r)
    PROVE  PassFits(e, a, b) /\ Closed(e) /\ e.base = r.base /\ e.over = r.over
  <1>1. r \in Passes /\ SumsFit(r) /\ BoundsFit(r, a, b) /\ Leads(r.intervals \o r.window, a, b)
    BY DEF PassFits
  <1>2. /\ e \in Passes
        /\ e.time = r.time + r.windowTime /\ e.change = r.change + r.windowChange
        /\ e.intervals = r.intervals \o r.window
        /\ e.windowTime = 0 /\ e.windowChange = 0 /\ e.window = <<>>
        /\ e.base = r.base /\ e.over = r.over
    BY <1>1, IncludedIs
  <1>3. /\ r.time \in Int /\ r.change \in Int /\ r.windowTime \in Int /\ r.windowChange \in Int
        /\ r.intervals \in Seq(Intervals) /\ r.window \in Seq(Intervals)
    BY <1>1, PassIs
  <1>4. SumsFit(e)
    <2>1. TimeOf(e.intervals) = TimeOf(r.intervals) + TimeOf(r.window)
          /\ ChangeOf(e.intervals) = ChangeOf(r.intervals) + ChangeOf(r.window)
      BY <1>2, <1>3, SumsOfConcat
    <2> QED
      BY <1>1, <1>2, <2>1, SumsOfNone DEF SumsFit
  <1>5. BoundsFit(e, a, b)
    <2>1. MaxRate \in Nat
      BY ConsumptionBounds
    <2>2. MaxRate * (r.time + r.windowTime) = MaxRate * r.time + MaxRate * r.windowTime
          /\ MaxRate * r.time \in Int /\ MaxRate * r.windowTime \in Int
      BY <1>3, <2>1, Distributes
    <2>3. /\ r.change <= 0 /\ r.windowChange <= 0 /\ -r.change <= MaxRate * r.time
          /\ r.time >= 0 /\ r.windowTime >= 0 /\ r.time + r.windowTime <= b - a
      BY <1>1 DEF BoundsFit
    <2>4. -(r.change + r.windowChange) <= MaxRate * (r.time + r.windowTime)
      BY <1>3, <2>2, <2>3
    <2> QED
      BY <1>2, <1>3, <2>3, <2>4 DEF BoundsFit
  <1>6. Leads(e.intervals \o e.window, a, b)
    <2>1. r.intervals \o r.window \in Seq(Intervals)
      BY <1>3, ConcatIs
    <2>2. (r.intervals \o r.window) \o <<>> = r.intervals \o r.window
      BY <2>1, ConcatNothing
    <2> QED
      BY <1>1, <1>2, <2>2
  <1> QED
    BY <1>2, <1>4, <1>5, <1>6 DEF PassFits, Closed

\* x is s and then r.
Joins(x, s, m, r, n) ==
    /\ Len(x) = m + n /\ DOMAIN x = 1..m + n /\ (x = <<>> <=> m + n = 0)
    /\ \A k \in 1..m : x[k] = s[k]
    /\ \A k \in 1..n : x[m + k] = r[k]

LEMMA ConcatJoins ==
    ASSUME NEW T, NEW s \in Seq(T), NEW r \in Seq(T)
    PROVE  Joins(s \o r, s, Len(s), r, Len(r))
  BY DEF Joins

LEMMA RestAlike ==
    ASSUME NEW i \in Seq(Intervals), NEW v \in Seq(Intervals), NEW w \in Seq(Intervals),
           Len(w) = Len(v), NEW a, NEW b, Leads(i \o v, a, b),
           \A k \in DOMAIN v : w[k].start = v[k].start /\ w[k].end = v[k].end
    PROVE  Leads(i \o w, a, b)
  <1> DEFINE m == Len(i)
             n == Len(v)
             x == i \o v
             y == i \o w
  <1>1. Joins(x, i, m, v, n) /\ Joins(y, i, m, w, n)
    <2>1. Joins(i \o v, i, Len(i), v, Len(v)) /\ Joins(i \o w, i, Len(i), w, Len(w))
      BY ConcatJoins
    <2> QED
      BY <2>1
  <1>2. m \in Nat /\ n \in Nat /\ DOMAIN v = 1..n
    OBVIOUS
  <1>3. Leads(x, a, b)
    OBVIOUS
  <1> HIDE DEF m, n, x, y
  <1>5. ASSUME NEW k \in DOMAIN x PROVE y[k].start = x[k].start /\ y[k].end = x[k].end
    <2>0. k \in 1..m + n
      BY <1>1 DEF Joins
    <2>1. CASE k \in 1..m
      BY <1>1, <2>1 DEF Joins
    <2>2. CASE k \notin 1..m
      <3>1. PICK j \in 1..n : k = m + j
        <4>1. k - m \in 1..n /\ k = m + (k - m)
          BY <1>2, <2>0, <2>2
        <4> QED
          BY <4>1
      <3>2. y[k] = w[j] /\ x[k] = v[j]
        BY <1>1, <3>1 DEF Joins
      <3>3. j \in DOMAIN v
        BY <1>2
      <3> QED
        BY <3>2, <3>3
    <2> QED
      BY <2>1, <2>2
  <1>6. Len(x) \in Nat /\ Len(y) = Len(x) /\ DOMAIN x = 1..Len(x) /\ DOMAIN y = DOMAIN x
        /\ (x = <<>> <=> Len(x) = 0) /\ (y = <<>> <=> Len(y) = 0)
    BY <1>1, <1>2 DEF Joins
  <1>7. Leads(y, a, b)
    BY <1>3, <1>5, <1>6, LeadsAlike
  <1> QED
    BY <1>7 DEF y

LEMMA RejectFits ==
    ASSUME NEW r, NEW a \in Int, NEW b \in Int, PassFits(r, a, b), NEW e, e = Reject(r)
    PROVE  PassFits(e, a, b) /\ Closed(e) /\ e.base = r.base /\ e.over = r.over
  <1>1. r \in Passes /\ SumsFit(r) /\ BoundsFit(r, a, b) /\ Leads(r.intervals \o r.window, a, b)
    BY DEF PassFits
  <1> DEFINE w == Rejected(r.window)
  <1>2. /\ e \in Passes
        /\ e.time = r.time /\ e.change = r.change
        /\ e.intervals = r.intervals \o w
        /\ e.windowTime = 0 /\ e.windowChange = 0 /\ e.window = <<>>
        /\ e.base = r.base /\ e.over = r.over
    BY <1>1, RejectIs
  <1>3. /\ r.time \in Int /\ r.change \in Int /\ r.windowTime \in Int /\ r.windowChange \in Int
        /\ r.intervals \in Seq(Intervals) /\ r.window \in Seq(Intervals)
    BY <1>1, PassIs
  <1>4. /\ w \in Seq(Intervals) /\ Len(w) = Len(r.window)
        /\ \A k \in DOMAIN r.window : w[k].start = r.window[k].start /\ w[k].end = r.window[k].end
        /\ TimeOf(w) = 0 /\ ChangeOf(w) = 0
    BY <1>3, RejectedIs
  <1> HIDE DEF w
  <1>5. SumsFit(e)
    <2>1. TimeOf(e.intervals) = TimeOf(r.intervals) + 0 /\ ChangeOf(e.intervals) = ChangeOf(r.intervals) + 0
      BY <1>2, <1>3, <1>4, SumsOfConcat
    <2> QED
      BY <1>1, <1>2, <1>3, <2>1, SumsOfNone DEF SumsFit
  <1>6. BoundsFit(e, a, b)
    BY <1>1, <1>2, <1>3 DEF BoundsFit
  <1>7. Leads(e.intervals \o e.window, a, b)
    <2>1. Leads(r.intervals \o w, a, b)
      BY <1>1, <1>3, <1>4, RestAlike
    <2>2. r.intervals \o w \in Seq(Intervals)
      BY <1>3, <1>4, ConcatIs
    <2>3. (r.intervals \o w) \o <<>> = r.intervals \o w
      BY <2>2, ConcatNothing
    <2> QED
      BY <1>2, <2>1, <2>3
  <1> QED
    BY <1>2, <1>5, <1>6, <1>7 DEF PassFits, Closed

LEMMA FinishFits ==
    ASSUME NEW r, NEW a \in Int, NEW b \in Int, PassFits(r, a, b), NEW e, e = FinishWindow(r)
    PROVE  PassFits(e, a, b) /\ Closed(e) /\ e.base = r.base /\ e.over = r.over
  <1>1. CASE -r.windowChange <= MaxRate * r.windowTime
    <2>1. e = IncludeWindow(r)
      BY <1>1, FinishIs
    <2> QED
      BY <1>1, <2>1, IncludeFits
  <1>2. CASE ~(-r.windowChange <= MaxRate * r.windowTime)
    <2>1. e = Reject(r)
      BY <1>2, FinishIs
    <2> QED
      BY <2>1, RejectFits
  <1> QED
    BY <1>1, <1>2

LEMMA AppendIs ==
    ASSUME NEW T, NEW i \in Seq(T), NEW w \in Seq(T), NEW e \in T
    PROVE  /\ Append(w, e) \in Seq(T) /\ Append(i, e) \in Seq(T)
           /\ i \o Append(w, e) = Append(i \o w, e)
  OBVIOUS

\* An interval goes into the window.
Windowed(r, new, dt, dc, base) ==
    [r EXCEPT !.windowTime = @ + dt, !.windowChange = @ + dc, !.base = base, !.window = Append(@, new)]

LEMMA InWindowIs ==
    ASSUME NEW r \in Passes, NEW new \in Intervals, NEW dt \in Int, NEW dc \in Int, NEW base \in Int,
           NEW e, e = Windowed(r, new, dt, dc, base)
    PROVE  /\ e \in Passes
           /\ e.time = r.time /\ e.change = r.change
           /\ e.intervals = r.intervals
           /\ e.windowTime = r.windowTime + dt /\ e.windowChange = r.windowChange + dc
           /\ e.window = Append(r.window, new)
           /\ e.base = base /\ e.over = r.over
  <1>1. r = [time |-> r.time, change |-> r.change, intervals |-> r.intervals,
             windowTime |-> r.windowTime, windowChange |-> r.windowChange, window |-> r.window,
             base |-> r.base, over |-> r.over]
    BY PassRecord
  <1>2. e = [time |-> r.time, change |-> r.change,
             intervals |-> r.intervals,
             windowTime |-> r.windowTime + dt, windowChange |-> r.windowChange + dc,
             window |-> Append(r.window, new), base |-> base, over |-> r.over]
    BY <1>1 DEF Windowed
  <1>3. /\ Append(r.window, new) \in Seq(Intervals)
        /\ r.windowTime + dt \in Int /\ r.windowChange + dc \in Int
    <2>1. r.window \in Seq(Intervals) /\ r.windowTime \in Int /\ r.windowChange \in Int
      BY PassIs
    <2> QED
      BY <2>1, AppendIs
  <1> QED
    BY <1>2, <1>3, PassIs DEF Passes

LEMMA InWindowFits ==
    ASSUME NEW r, NEW a \in Int, NEW b \in Int, PassFits(r, a, b), NEW c \in Int, b < c,
           NEW v, v.change \in Int, v.change <= 0, v.base \in Int, v.reason \in Reasons,
           NEW e, e = InWindow(r, b, c, v)
    PROVE  PassFits(e, a, c) /\ e.base = v.base /\ e.over = r.over
  <1>1. r \in Passes /\ SumsFit(r) /\ BoundsFit(r, a, b) /\ Leads(r.intervals \o r.window, a, b)
    BY DEF PassFits
  <1>2. PICK new : new = Interval(b, c, TRUE, v.reason, v.change)
    OBVIOUS
  <1>3. new \in Intervals /\ new.start = b /\ new.end = c /\ new.included = TRUE /\ new.change = v.change
    BY <1>2 DEF Interval, Intervals
  <1>4. /\ e \in Passes
        /\ e.time = r.time /\ e.change = r.change /\ e.intervals = r.intervals
        /\ e.windowTime = r.windowTime + (c - b) /\ e.windowChange = r.windowChange + v.change
        /\ e.window = Append(r.window, new) /\ e.base = v.base /\ e.over = r.over
    <2>1. e = [r EXCEPT !.windowTime = @ + (c - b), !.windowChange = @ + v.change, !.base = v.base,
                        !.window = Append(@, new)]
      BY <1>2 DEF InWindow
    <2>2. PICK dt, dc, base : dt = c - b /\ dc = v.change /\ base = v.base
      OBVIOUS
    <2>4. dt \in Int /\ dc \in Int /\ base \in Int
      BY <2>2
    <2>3. e = Windowed(r, new, dt, dc, base)
      BY <2>1, <2>2 DEF Windowed
    <2>5. r \in Passes /\ new \in Intervals
      BY <1>1, <1>3
    <2>6. /\ e \in Passes
          /\ e.time = r.time /\ e.change = r.change /\ e.intervals = r.intervals
          /\ e.windowTime = r.windowTime + dt /\ e.windowChange = r.windowChange + dc
          /\ e.window = Append(r.window, new) /\ e.base = base /\ e.over = r.over
      BY ONLY <2>3, <2>4, <2>5, InWindowIs
    <2> QED
      BY <2>2, <2>6
  <1>5. /\ r.time \in Int /\ r.change \in Int /\ r.windowTime \in Int /\ r.windowChange \in Int
        /\ r.intervals \in Seq(Intervals) /\ r.window \in Seq(Intervals)
    BY <1>1, PassIs
  <1>6. SumsFit(e)
    <2>1. TimeOf(e.window) = TimeOf(r.window) + (c - b) /\ ChangeOf(e.window) = ChangeOf(r.window) + v.change
      BY <1>3, <1>4, <1>5, SumsOfAppend
    <2> QED
      BY <1>1, <1>4, <2>1 DEF SumsFit
  <1>7. BoundsFit(e, a, c)
    <2>1. /\ r.change <= 0 /\ r.windowChange <= 0 /\ -r.change <= MaxRate * r.time
          /\ r.time >= 0 /\ r.windowTime >= 0 /\ r.time + r.windowTime <= b - a
      BY <1>1 DEF BoundsFit
    <2>2. /\ r.time \in Int /\ r.windowTime \in Int /\ r.windowChange \in Int
          /\ v.change \in Int /\ v.change <= 0
      BY <1>5
    <2>3. \A t, x \in Int : x >= 0 /\ t + x <= b - a => x + (c - b) >= 0 /\ t + (x + (c - b)) <= c - a
      OBVIOUS
    <2>4. \A x, y \in Int : x <= 0 /\ y <= 0 => x + y <= 0
      OBVIOUS
    <2>5. r.windowTime + (c - b) >= 0 /\ r.time + (r.windowTime + (c - b)) <= c - a
      BY <2>1, <2>2, <2>3
    <2>6. r.windowChange + v.change <= 0
      BY <2>1, <2>2, <2>4
    <2> QED
      BY <1>4, <2>1, <2>5, <2>6 DEF BoundsFit
  <1>8. Leads(e.intervals \o e.window, a, c)
    <2>0. PICK i, w : i = r.intervals /\ w = r.window
      OBVIOUS
    <2>1. e.intervals \o e.window = Append(r.intervals \o r.window, new)
      <3>1. i \in Seq(Intervals) /\ w \in Seq(Intervals) /\ new \in Intervals
        BY <1>3, <1>5, <2>0
      <3>2. i \o Append(w, new) = Append(i \o w, new)
        BY <3>1, AppendIs
      <3> QED
        BY <1>4, <2>0, <3>2
    <2>2. r.intervals \o r.window \in Seq(Intervals)
      BY <1>5, ConcatIs
    <2>3. Leads(Append(r.intervals \o r.window, new), a, new.end)
      BY <1>1, <1>3, <2>2, LeadsAppend
    <2> QED
      BY <1>3, <2>1, <2>3
  <1> QED
    BY <1>4, <1>6, <1>7, <1>8 DEF PassFits

LEMMA AddedIs ==
    ASSUME NEW r \in Passes, NEW new \in Intervals, NEW e, e = [r EXCEPT !.intervals = Append(@, new)]
    PROVE  /\ e \in Passes
           /\ e.time = r.time /\ e.change = r.change
           /\ e.intervals = Append(r.intervals, new)
           /\ e.windowTime = r.windowTime /\ e.windowChange = r.windowChange
           /\ e.window = r.window
           /\ e.base = r.base /\ e.over = r.over
  <1>1. r = [time |-> r.time, change |-> r.change, intervals |-> r.intervals,
             windowTime |-> r.windowTime, windowChange |-> r.windowChange, window |-> r.window,
             base |-> r.base, over |-> r.over]
    BY PassRecord
  <1>2. e = [time |-> r.time, change |-> r.change,
             intervals |-> Append(r.intervals, new),
             windowTime |-> r.windowTime, windowChange |-> r.windowChange,
             window |-> r.window, base |-> r.base, over |-> r.over]
    BY <1>1
  <1>3. Append(r.intervals, new) \in Seq(Intervals)
    <2>1. r.intervals \in Seq(Intervals)
      BY PassIs
    <2> QED
      BY <2>1, AppendIs
  <1> QED
    BY <1>2, <1>3, PassIs DEF Passes

LEMMA SkippedFits ==
    ASSUME NEW r, NEW a \in Int, NEW b \in Int, PassFits(r, a, b), NEW c \in Int, b < c,
           NEW reason \in Reasons, NEW e, e = Skipped(r, b, c, reason)
    PROVE  PassFits(e, a, c) /\ Closed(e) /\ e.base = r.base /\ e.over = r.over
  <1>1. PICK f : f = FinishWindow(r)
    OBVIOUS
  <1>2. PassFits(f, a, b) /\ Closed(f) /\ f.base = r.base /\ f.over = r.over
    BY <1>1, FinishFits
  <1>3. f \in Passes /\ SumsFit(f) /\ BoundsFit(f, a, b) /\ Leads(f.intervals \o f.window, a, b)
    BY <1>2 DEF PassFits
  <1>4. PICK new : new = Interval(b, c, FALSE, reason, 0)
    OBVIOUS
  <1>5. new \in Intervals /\ new.start = b /\ new.end = c /\ new.included = FALSE /\ new.change = 0
    BY <1>4 DEF Interval, Intervals
  <1>6. /\ e \in Passes
        /\ e.time = f.time /\ e.change = f.change /\ e.intervals = Append(f.intervals, new)
        /\ e.windowTime = f.windowTime /\ e.windowChange = f.windowChange
        /\ e.window = f.window /\ e.base = f.base /\ e.over = f.over
    <2>1. e = [f EXCEPT !.intervals = Append(@, new)]
      BY <1>1, <1>4 DEF Skipped
    <2> QED
      BY <1>3, <1>5, <2>1, AddedIs
  <1>7. /\ f.time \in Int /\ f.change \in Int /\ f.windowTime \in Int /\ f.windowChange \in Int
        /\ f.intervals \in Seq(Intervals) /\ f.window = <<>>
    BY <1>2, <1>3, PassIs DEF Closed
  <1>8. SumsFit(e)
    <2>1. TimeOf(e.intervals) = TimeOf(f.intervals) + 0 /\ ChangeOf(e.intervals) = ChangeOf(f.intervals) + 0
      BY <1>5, <1>6, <1>7, SumsOfAppend
    <2> QED
      BY <1>3, <1>6, <1>7, <2>1 DEF SumsFit
  <1>9. BoundsFit(e, a, c)
    <2>1. /\ f.change <= 0 /\ f.windowChange <= 0 /\ -f.change <= MaxRate * f.time
          /\ f.time >= 0 /\ f.windowTime >= 0 /\ f.time + f.windowTime <= b - a
      BY <1>3 DEF BoundsFit
    <2>2. f.time + f.windowTime <= c - a
      BY <1>7, <2>1
    <2> QED
      BY <1>6, <2>1, <2>2 DEF BoundsFit
  <1>10. Leads(e.intervals \o e.window, a, c)
    <2>1. f.intervals \o <<>> = f.intervals /\ e.intervals \o <<>> = e.intervals
      <3>1. e.intervals \in Seq(Intervals)
        BY <1>6, PassIs
      <3> QED
        BY <1>7, <3>1, ConcatNothing
    <2>2. Leads(f.intervals, a, b)
      BY <1>3, <1>7, <2>1
    <2>3. Leads(Append(f.intervals, new), a, new.end)
      BY <1>5, <1>7, <2>2, LeadsAppend
    <2> QED
      BY <1>5, <1>6, <1>7, <2>1, <2>3
  <1> QED
    BY <1>2, <1>6, <1>8, <1>9, <1>10 DEF PassFits, Closed

\* A change of base or of the mark that the pass is over.
Marked(r, base, over) == [r EXCEPT !.base = base, !.over = over]

LEMMA MarkedFits ==
    ASSUME NEW r, NEW a \in Int, NEW b \in Int, PassFits(r, a, b), NEW base \in Int,
           NEW over \in BOOLEAN, NEW e, e = Marked(r, base, over)
    PROVE  PassFits(e, a, b) /\ (Closed(r) => Closed(e)) /\ e.base = base /\ e.over = over
  <1>1. r \in Passes /\ SumsFit(r) /\ BoundsFit(r, a, b) /\ Leads(r.intervals \o r.window, a, b)
    BY DEF PassFits
  <1>2. r = [time |-> r.time, change |-> r.change, intervals |-> r.intervals,
             windowTime |-> r.windowTime, windowChange |-> r.windowChange, window |-> r.window,
             base |-> r.base, over |-> r.over]
    BY <1>1, PassRecord
  <1>3. e = [time |-> r.time, change |-> r.change, intervals |-> r.intervals,
             windowTime |-> r.windowTime, windowChange |-> r.windowChange, window |-> r.window,
             base |-> base, over |-> over]
    BY <1>2 DEF Marked
  <1>4. /\ e.time = r.time /\ e.change = r.change /\ e.intervals = r.intervals
        /\ e.windowTime = r.windowTime /\ e.windowChange = r.windowChange /\ e.window = r.window
        /\ e.base = base /\ e.over = over
    BY <1>3
  <1>5. e \in Passes
    BY <1>1, <1>3, PassIs DEF Passes
  <1> HIDE <1>3
  <1>6. SumsFit(e) /\ BoundsFit(e, a, b) /\ Leads(e.intervals \o e.window, a, b)
    BY <1>1, <1>4 DEF SumsFit, BoundsFit
  <1> QED
    BY <1>4, <1>5, <1>6 DEF PassFits, Closed

\* What a verdict says: a change is a fall from the base, which moves with it.
LEMMA VerdictIs ==
    ASSUME NEW s, NEW i, NEW base \in Int, s[i].w \in Int,
           s[i].t \in Int, s[i - 1].t \in Int, NEW v, v = Verdict(s, i, base)
    PROVE  /\ v.reason \in Reasons /\ v.change \in Int /\ v.change <= 0 /\ v.base \in Int
           /\ v.base = s[i].w \/ (v.base = base /\ v.change = 0)
           /\ v.change \in {0, s[i].w - base}
           /\ s[i].w - base <= RiseReset /\ v.base # base => s[i].w - base <= 0
  <1> DEFINE difference == s[i].w - base
             V(reason, change, b) == [reason |-> reason, change |-> change, base |-> b]
  <1>0. difference \in Int
    OBVIOUS
  <1>1. ASSUME difference < -(MaxRate * Greater(RateWindow, s[i].t - s[i - 1].t)) PROVE difference <= 0
    <2>1. PICK g : g = Greater(RateWindow, s[i].t - s[i - 1].t)
      OBVIOUS
    <2>2. g \in Nat
      BY <2>1, ConsumptionBounds DEF Greater
    <2>3. MaxRate * g \in Nat
      BY <2>2, ConsumptionBounds
    <2> QED
      BY <1>0, <1>1, <2>1, <2>3
  <1>2. \/ v = V("abrupt_drop", 0, s[i].w) /\ difference <= 0
        \/ v = V("consumption", difference, s[i].w) /\ difference <= 0
        \/ v = V("consumption", 0, base)
        \/ v = V("transient_weight_increase", 0, base)
        \/ v = V("weight_increase", 0, s[i].w) /\ ~(difference <= RiseReset)
    BY <1>1 DEF Verdict
  <1> QED
    BY <1>0, <1>2 DEF Reasons

-----------------------------------------------------------------------------
(* The pass over a series *)

Points == [t : Int, w : Int]
Series(s) == s \in Seq(Points) /\ Sorted(s)

LEMMA SeriesIs ==
    ASSUME NEW s, Series(s)
    PROVE  /\ Len(s) \in Nat /\ DOMAIN s = 1..Len(s)
           /\ \A i \in 1..Len(s) : s[i] \in Points /\ s[i].t \in Int /\ s[i].w \in Int
           /\ \A i, j \in 1..Len(s) : i < j => s[i].t < s[j].t
  <1>1. Len(s) \in Nat /\ DOMAIN s = 1..Len(s) /\ \A i \in 1..Len(s) : s[i] \in Points
    <2>1. s \in Seq(Points)
      BY DEF Series
    <2> QED
      BY <2>1
  <1>2. \A x \in Points : x.t \in Int /\ x.w \in Int
    BY DEF Points
  <1> QED
    BY <1>1, <1>2 DEF Series, Sorted

\* How far the pass has come after the sample i.
Reached(s, i, r) == IF r.over THEN s[Len(s)].t ELSE s[i].t
PassedTo(s, i, r) == PassFits(r, s[1].t, Reached(s, i, r)) /\ (r.over => Closed(r))

LEMMA CountedFits ==
    ASSUME NEW s, Series(s), NEW i \in 2..Len(s), NEW r, PassedTo(s, i - 1, r), ~r.over
    PROVE  PassedTo(s, i, Counted(s, i, r)) /\ ~Counted(s, i, r).over
  <1>1. /\ Len(s) \in Nat /\ 1 \in 1..Len(s) /\ i \in 1..Len(s) /\ i - 1 \in 1..Len(s)
        /\ \A k \in 1..Len(s) : s[k].t \in Int /\ s[k].w \in Int
        /\ s[i - 1].t < s[i].t
    BY SeriesIs
  <1>2. PassFits(r, s[1].t, s[i - 1].t)
    BY DEF PassedTo, Reached
  <1>3. r.base \in Int
    BY <1>2, PassIs DEF PassFits
  <1>4. PICK v : v = Verdict(s, i, r.base)
    OBVIOUS
  <1>5. v.reason \in Reasons /\ v.change \in Int /\ v.change <= 0 /\ v.base \in Int
    BY <1>1, <1>3, <1>4, VerdictIs
  <1>6. PICK e : e = InWindow(r, s[i - 1].t, s[i].t, v)
    OBVIOUS
  <1>7. PassFits(e, s[1].t, s[i].t) /\ e.over = r.over
    BY <1>1, <1>2, <1>5, <1>6, InWindowFits
  <1>8. PICK f : f = FinishIfFull(e)
    OBVIOUS
  <1>9. PassFits(f, s[1].t, s[i].t) /\ f.over = r.over
    <2>1. CASE f = e
      BY <1>7, <2>1
    <2>2. CASE f = FinishWindow(e)
      BY <1>1, <1>7, <2>2, FinishFits
    <2> QED
      BY <1>8, <2>1, <2>2 DEF FinishIfFull
  <1>10. f = Counted(s, i, r)
    BY <1>4, <1>6, <1>8 DEF Counted
  <1> QED
    BY <1>9, <1>10 DEF PassedTo, Reached

LEMMA LookedFits ==
    ASSUME NEW s, Series(s), NEW i \in 2..Len(s), NEW r, PassedTo(s, i - 1, r)
    PROVE  PassedTo(s, i, Looked(s, i, r))
  <1>1. /\ Len(s) \in Nat /\ 1 \in 1..Len(s) /\ i \in 1..Len(s) /\ i - 1 \in 1..Len(s)
        /\ Len(s) \in 1..Len(s)
        /\ \A k \in 1..Len(s) : s[k].t \in Int /\ s[k].w \in Int
        /\ s[i - 1].t < s[i].t /\ s[i - 1].t < s[Len(s)].t
    BY SeriesIs
  <1>2. CASE r.over
    <2>1. Looked(s, i, r) = r
      BY <1>2 DEF Looked
    <2> QED
      BY <1>2, <2>1 DEF PassedTo, Reached
  <1>3. CASE ~r.over
    <2>1. PassFits(r, s[1].t, s[i - 1].t)
      BY <1>3 DEF PassedTo, Reached
    <2>2. r.base \in Int /\ r.over \in BOOLEAN /\ r.over = FALSE
      BY <1>3, <2>1, PassIs DEF PassFits
    <2>3. CASE s[i].t - s[i - 1].t > MaxGap
      <3>1. PICK f : f = Skipped(r, s[i - 1].t, s[i].t, "gap")
        OBVIOUS
      <3>2. PassFits(f, s[1].t, s[i].t) /\ Closed(f) /\ f.over = r.over
        <4>1. "gap" \in Reasons
          BY DEF Reasons
        <4> QED
          BY <1>1, <2>1, <3>1, <4>1, SkippedFits
      <3>3. PICK e : e = Marked(f, s[i].w, r.over)
        OBVIOUS
      <3>4. PassFits(e, s[1].t, s[i].t) /\ e.over = r.over
        BY <1>1, <2>2, <3>2, <3>3, MarkedFits
      <3>5. e = [f EXCEPT !.base = s[i].w]
        <4>1. f = [time |-> f.time, change |-> f.change, intervals |-> f.intervals,
                   windowTime |-> f.windowTime, windowChange |-> f.windowChange, window |-> f.window,
                   base |-> f.base, over |-> f.over]
          BY <3>2, PassRecord DEF PassFits
        <4> QED
          BY <3>2, <3>3, <4>1 DEF Marked
      <3>6. Looked(s, i, r) = e
        BY <1>3, <2>3, <3>1, <3>5 DEF Looked
      <3> QED
        BY <1>3, <3>4, <3>6 DEF PassedTo, Reached
    <2>4. CASE /\ ~(s[i].t - s[i - 1].t > MaxGap)
               /\ s[i].w - r.base > RiseReset /\ RiseKind(s, i, r.base) = "pending"
      <3>1. PICK f : f = Skipped(r, s[i - 1].t, s[Len(s)].t, "pending_weight_increase")
        OBVIOUS
      <3>2. PassFits(f, s[1].t, s[Len(s)].t) /\ Closed(f) /\ f.base = r.base
        <4>1. "pending_weight_increase" \in Reasons
          BY DEF Reasons
        <4> QED
          BY <1>1, <2>1, <3>1, <4>1, SkippedFits
      <3>3. PICK e, over : over = TRUE /\ e = Marked(f, r.base, over)
        OBVIOUS
      <3>4. PassFits(e, s[1].t, s[Len(s)].t) /\ Closed(e) /\ e.over
        <4>1. over \in BOOLEAN
          BY <3>3
        <4>2. PassFits(e, s[1].t, s[Len(s)].t) /\ (Closed(f) => Closed(e)) /\ e.over = over
          <5>1. s[1].t \in Int /\ s[Len(s)].t \in Int /\ r.base \in Int
            BY <1>1, <2>2
          <5>2. e = Marked(f, r.base, over)
            BY <3>3
          <5> QED
            BY <3>2, <4>1, <5>1, <5>2, MarkedFits
        <4> QED
          BY <3>2, <3>3, <4>2
      <3>5. e = [f EXCEPT !.over = TRUE]
        <4>1. f = [time |-> f.time, change |-> f.change, intervals |-> f.intervals,
                   windowTime |-> f.windowTime, windowChange |-> f.windowChange, window |-> f.window,
                   base |-> f.base, over |-> f.over]
          BY <3>2, PassRecord DEF PassFits
        <4> QED
          BY <3>2, <3>3, <4>1 DEF Marked
      <3>6. Looked(s, i, r) = e
        BY <1>3, <2>4, <3>1, <3>5 DEF Looked
      <3> QED
        BY <3>4, <3>6 DEF PassedTo, Reached
    <2>5. CASE /\ ~(s[i].t - s[i - 1].t > MaxGap)
               /\ ~(s[i].w - r.base > RiseReset /\ RiseKind(s, i, r.base) = "pending")
      <3>1. Looked(s, i, r) = Counted(s, i, r)
        BY <1>3, <2>5 DEF Looked
      <3> QED
        BY <1>3, <3>1, CountedFits
    <2> QED
      BY <2>3, <2>4, <2>5
  <1>4. r.over \in BOOLEAN
    BY PassIs DEF PassedTo, PassFits
  <1> QED
    BY <1>2, <1>3

LEMMA NothingFits ==
    ASSUME NEW a \in Int, NEW w \in Int, NEW r, r = Nothing(w)
    PROVE  PassFits(r, a, a) /\ Closed(r) /\ r.base = w /\ r.over = FALSE
  <1>1. /\ r.time = 0 /\ r.change = 0 /\ r.intervals = <<>> /\ r.windowTime = 0
        /\ r.windowChange = 0 /\ r.window = <<>> /\ r.base = w /\ r.over = FALSE
    BY DEF Nothing
  <1>2. r \in Passes
    <2>1. <<>> \in Seq(Intervals)
      OBVIOUS
    <2> QED
      BY <2>1 DEF Nothing, Passes
  <1>3. SumsFit(r)
    BY <1>1, SumsOfNone DEF SumsFit
  <1>4. BoundsFit(r, a, a)
    BY <1>1, ConsumptionBounds DEF BoundsFit
  <1>5. Leads(r.intervals \o r.window, a, a)
    <2>1. <<>> \o <<>> = <<>>
      OBVIOUS
    <2>2. PICK x : x = r.intervals \o r.window
      OBVIOUS
    <2>3. x = <<>> /\ DOMAIN x = {} /\ 1..Len(x) - 1 = {}
      BY <1>1, <2>1, <2>2
    <2>4. Leads(x, a, a)
      BY <2>3 DEF Leads
    <2> QED
      BY <2>2, <2>4
  <1> QED
    BY <1>1, <1>2, <1>3, <1>4, <1>5 DEF PassFits, Closed

\* The pass is the function that AverageOf means.
IsPass(pass, s) ==
    pass = [i \in DOMAIN s |-> IF i = 1 THEN Nothing(s[1].w) ELSE Looked(s, i, pass[i - 1])]

LEMMA PassExists ==
    ASSUME NEW s, Series(s), s # <<>>
    PROVE  \E pass : IsPass(pass, s)
  <1> DEFINE N == Len(s)
             S == [n \in 1..N |-> {r \in Passes : PassedTo(s, n, r)}]
             step == [n \in 2..N |-> [r \in S[n - 1] |-> Looked(s, n, r)]]
  <1>0. /\ N \in Nat \ {0} /\ DOMAIN s = 1..N /\ 1 \in 1..N
        /\ \A k \in 1..N : s[k].t \in Int /\ s[k].w \in Int
    <2>1. s # <<>> => Len(s) # 0
      BY DEF Series
    <2> QED
      BY <2>1, SeriesIs
  <1>1. ASSUME NEW r, NEW n \in 1..N, PassedTo(s, n, r) PROVE r \in S[n]
    BY <1>1 DEF PassedTo, PassFits
  <1>2. PICK e : e = Nothing(s[1].w)
    OBVIOUS
  <1>3. e \in S[1]
    <2>0. s[1].t \in Int /\ s[1].w \in Int
      BY <1>0
    <2>1. PassFits(e, s[1].t, s[1].t) /\ Closed(e) /\ e.over = FALSE
      BY ONLY <1>2, <2>0, NothingFits
    <2> QED
      BY <1>0, <1>1, <2>1 DEF PassedTo, Reached
  <1>4. ASSUME NEW n \in 2..N, NEW r \in S[n - 1] PROVE Looked(s, n, r) \in S[n]
    <2>1. n - 1 \in 1..N /\ n \in 1..N /\ n \in 2..Len(s)
      BY <1>0
    <2>2. PassedTo(s, n - 1, r)
      BY <2>1
    <2>3. PassedTo(s, n, Looked(s, n, r))
      BY <2>1, <2>2, LookedFits
    <2> QED
      BY <1>1, <2>1, <2>3
  <1> HIDE DEF S
  <1>5. PICK b \in Nat : b = 1
    OBVIOUS
  <1>6. \A n \in b + 1..N : \A r \in S[n - 1] : step[n][r] \in S[n]
    BY <1>4, <1>5
  <1>7. PICK f : Recursive(f, b, N, e, step) /\ \A n \in b..N : f[n] \in S[n]
    <2> HIDE DEF step, N
    <2>1. e \in S[b] /\ b <= N /\ N \in Nat
      BY <1>0, <1>3, <1>5
    <2> QED
      BY <1>6, <2>1, Recursion
  <1>8. \A n \in 1..N : n # 1 => step[n][f[n - 1]] = Looked(s, n, f[n - 1])
    <2> SUFFICES ASSUME NEW n \in 1..N, n # 1 PROVE step[n][f[n - 1]] = Looked(s, n, f[n - 1])
      OBVIOUS
    <2>1. n \in 2..N /\ n - 1 \in b..N
      BY <1>0, <1>5
    <2> QED
      BY <1>7, <2>1
  <1> HIDE DEF step, N
  <1>9. f = [n \in 1..N |-> IF n = 1 THEN e ELSE Looked(s, n, f[n - 1])]
    <2>1. f = [n \in 1..N |-> IF n = 1 THEN e ELSE step[n][f[n - 1]]]
      BY <1>5, <1>7 DEF Recursive
    <2> QED
      BY <1>8, <2>1
  <1> QED
    BY <1>0, <1>2, <1>9 DEF IsPass

LEMMA PassGoes ==
    ASSUME NEW s, Series(s), s # <<>>, NEW pass, IsPass(pass, s)
    PROVE  /\ \A i \in 1..Len(s) : PassedTo(s, i, pass[i])
           /\ pass[1] = Nothing(s[1].w)
           /\ \A i \in 2..Len(s) : pass[i] = Looked(s, i, pass[i - 1])
  <1> DEFINE N == Len(s)
             S == [n \in 1..N |-> {r \in Passes : PassedTo(s, n, r)}]
  <1>0. /\ N \in Nat \ {0} /\ DOMAIN s = 1..N /\ 1 \in 1..N
        /\ \A k \in 1..N : s[k].t \in Int /\ s[k].w \in Int
    <2>1. s # <<>> => Len(s) # 0
      BY DEF Series
    <2> QED
      BY <2>1, SeriesIs
  <1>1. ASSUME NEW r, NEW n \in 1..N, PassedTo(s, n, r) PROVE r \in S[n]
    BY <1>1 DEF PassedTo, PassFits
  <1>2. pass[1] = Nothing(s[1].w) /\ \A i \in 2..N : pass[i] = Looked(s, i, pass[i - 1])
    <2>1. pass = [i \in 1..N |-> IF i = 1 THEN Nothing(s[1].w) ELSE Looked(s, i, pass[i - 1])]
      BY <1>0 DEF IsPass
    <2>2. \A i \in 2..N : i \in 1..N /\ i # 1
      BY <1>0
    <2> HIDE DEF N
    <2> QED
      BY <1>0, <2>1, <2>2
  <1>3. pass[1] \in S[1]
    <2>1. PICK e : e = pass[1]
      OBVIOUS
    <2>0. s[1].t \in Int /\ s[1].w \in Int /\ e = Nothing(s[1].w)
      BY <1>0, <1>2, <2>1
    <2>2. PassFits(e, s[1].t, s[1].t) /\ Closed(e) /\ e.over = FALSE
      BY ONLY <2>0, NothingFits
    <2> QED
      BY <1>0, <1>1, <2>1, <2>2 DEF PassedTo, Reached
  <1>4. ASSUME NEW n \in 2..N, pass[n - 1] \in S[n - 1] PROVE pass[n] \in S[n]
    <2>1. n - 1 \in 1..N /\ n \in 1..N /\ n \in 2..Len(s)
      BY <1>0
    <2>2. PassedTo(s, n - 1, pass[n - 1])
      BY <1>4, <2>1
    <2>3. PassedTo(s, n, pass[n])
      BY <1>2, <2>1, <2>2, LookedFits
    <2> QED
      BY <1>1, <2>1, <2>3
  <1>5. PICK b \in Nat : b = 1
    OBVIOUS
  <1>6. \A n \in b..N : pass[n] \in S[n]
    <2> HIDE DEF S, N
    <2>1. \A n \in b + 1..N : pass[n - 1] \in S[n - 1] => pass[n] \in S[n]
      BY <1>4, <1>5
    <2>2. pass[b] \in S[b] /\ b <= N /\ N \in Nat
      BY <1>0, <1>3, <1>5
    <2> QED
      BY <2>1, <2>2, Stepwise
  <1>7. ASSUME NEW i \in 1..N PROVE PassedTo(s, i, pass[i])
    <2>1. pass[i] \in S[i]
      BY <1>5, <1>6
    <2> QED
      BY <2>1
  <1> QED
    BY <1>2, <1>7

LEMMA AverageIs ==
    ASSUME NEW s, Series(s), Len(s) >= 2
    PROVE  \E pass : IsPass(pass, s) /\ AverageOf(s) = FinishWindow(pass[Len(s)])
  <1> DEFINE pass == CHOOSE pass : IsPass(pass, s)
  <1>1. s # <<>>
    OBVIOUS
  <1>2. IsPass(pass, s)
    BY <1>1, PassExists
  <1>3. Len(s) \in Nat /\ ~(Len(s) < 2)
    BY SeriesIs
  <1>4. AverageOf(s) = FinishWindow(pass[Len(s)])
    BY <1>3 DEF AverageOf, IsPass
  <1> QED
    BY <1>2, <1>4

\* What is returned: a pass that has come to the end, with no window open.
LEMMA AverageFits ==
    ASSUME NEW s, Series(s), NEW r, r = AverageOf(s)
    PROVE  /\ Closed(r)
           /\ Len(s) >= 2 => PassFits(r, s[1].t, s[Len(s)].t)
           /\ Len(s) < 2 => PassFits(r, 0, 0)
  <1>0. Len(s) \in Nat
    BY SeriesIs
  <1>1. CASE Len(s) < 2
    <2>1. r = Nothing(0)
      BY <1>1 DEF AverageOf
    <2>2. PassFits(r, 0, 0) /\ Closed(r)
      <3>1. PICK z \in Int : z = 0
        OBVIOUS
      <3>2. r = Nothing(z)
        BY <2>1, <3>1
      <3> QED
        BY <3>1, <3>2, NothingFits
    <2> QED
      BY <1>0, <1>1, <2>2
  <1>2. CASE Len(s) >= 2
    <2>1. PICK pass : IsPass(pass, s) /\ r = FinishWindow(pass[Len(s)])
      BY <1>2, AverageIs
    <2>2. s # <<>> /\ 1 \in 1..Len(s) /\ Len(s) \in 1..Len(s)
      BY <1>0, <1>2
    <2>3. PassedTo(s, Len(s), pass[Len(s)])
      BY <2>1, <2>2, PassGoes
    <2>4. PassFits(pass[Len(s)], s[1].t, s[Len(s)].t)
      BY <2>3 DEF PassedTo, Reached
    <2>5. s[1].t \in Int /\ s[Len(s)].t \in Int
      BY <2>2, SeriesIs
    <2>6. PassFits(r, s[1].t, s[Len(s)].t) /\ Closed(r)
      BY <2>1, <2>4, <2>5, FinishFits
    <2> QED
      BY <1>0, <1>2, <2>6
  <1> QED
    BY <1>0, <1>1, <1>2

-----------------------------------------------------------------------------
(* _filter_transient_weights *)

\* y stands for the k-th sample: at its time, with a weight among those of s.
StandsFor(y, s, k) ==
    /\ y \in Points /\ y.t = s[k].t
    /\ \E i, j \in DOMAIN s : s[i].w <= y.w /\ y.w <= s[j].w

\* The sequence x stands for the samples from i on.
Part(x, s, i) ==
    /\ x \in Seq(Points) /\ i + Len(x) <= Len(s) + 1
    /\ \A k \in 1..Len(x) : StandsFor(x[k], s, i + k - 1)

LEMMA PartsJoin ==
    ASSUME NEW s, NEW i \in Nat, NEW x, Part(x, s, i), NEW j, j = i + Len(x), NEW y, Part(y, s, j)
    PROVE  Part(x \o y, s, i) /\ Len(x \o y) = Len(x) + Len(y)
  <1> DEFINE m == Len(x)
             n == Len(y)
             z == x \o y
  <1>1. x \in Seq(Points) /\ y \in Seq(Points)
    BY DEF Part
  <1>2. z \in Seq(Points) /\ m \in Nat /\ n \in Nat /\ Joins(z, x, m, y, n)
    BY <1>1, ConcatIs, ConcatJoins
  <1>3. j + n <= Len(s) + 1 /\ j = i + m
    BY DEF Part
  <1> HIDE DEF z, m, n
  <1>4. ASSUME NEW k \in 1..m + n PROVE StandsFor(z[k], s, i + k - 1)
    <2>1. CASE k \in 1..m
      <3>1. z[k] = x[k]
        BY <1>2, <2>1 DEF Joins
      <3> QED
        BY <2>1, <3>1 DEF Part, m
    <2>2. CASE k \notin 1..m
      <3>1. PICK l \in 1..n : k = m + l
        <4>1. k - m \in 1..n /\ k = m + (k - m)
          BY <1>2, <2>2
        <4> QED
          BY <4>1
      <3>2. z[k] = y[l]
        BY <1>2, <3>1 DEF Joins
      <3>3. StandsFor(y[l], s, j + l - 1)
        BY DEF Part, n
      <3>4. j + l - 1 = i + k - 1
        BY <1>2, <1>3, <3>1
      <3> QED
        BY <3>2, <3>3, <3>4
    <2> QED
      BY <2>1, <2>2
  <1>5. Len(z) = m + n
    BY <1>2 DEF Joins
  <1>6. i + (m + n) <= Len(s) + 1
    <2>1. i + (m + n) = j + n
      BY <1>2, <1>3
    <2> QED
      BY <1>3, <2>1
  <1> QED
    BY <1>2, <1>4, <1>5, <1>6 DEF Part, z, m, n

LEMMA PartOfOne ==
    ASSUME NEW s, Series(s), NEW i \in 1..Len(s)
    PROVE  Part(<<s[i]>>, s, i) /\ Len(<<s[i]>>) = 1
  <1>1. Len(s) \in Nat /\ DOMAIN s = 1..Len(s) /\ s[i] \in Points /\ s[i].w \in Int
    BY SeriesIs
  <1>2. StandsFor(s[i], s, i)
    BY <1>1 DEF StandsFor
  <1>3. <<s[i]>> \in Seq(Points) /\ Len(<<s[i]>>) = 1 /\ <<s[i]>>[1] = s[i]
    BY <1>1
  <1>4. \A k \in 1..1 : k = 1 /\ i + k - 1 = i
    OBVIOUS
  <1> QED
    BY <1>1, <1>2, <1>3, <1>4 DEF Part

\* A fraction of a difference is not beyond it.
LEMMA Fraction ==
    ASSUME NEW y \in Int, NEW x \in Nat, NEW d \in Nat, d > 0, x <= d, NEW q, q = (x * y) \div d
    PROVE  q \in Int /\ ((0 <= q /\ q <= y) \/ (y <= q /\ q <= 0))
  <1>1. x * y \in Int /\ q \in Int
    OBVIOUS
  <1>2. d * q <= x * y /\ x * y < d * q + d
    <2>1. PICK p \in Int : p = x * y
      BY <1>1
    <2>2. q = p \div d
      BY <2>1
    <2>3. d * q <= p /\ p < d * q + d
      BY <2>2
    <2> QED
      BY <2>1, <2>3
  <1>3. CASE y >= 0
    <2>1. 0 <= x * y /\ x * y <= d * y
      BY <1>3
    <2>2. ~(q < 0)
      <3> SUFFICES ASSUME q < 0 PROVE FALSE
        OBVIOUS
      <3>1. q + 1 <= 0
        BY <1>1
      <3>2. d * (q + 1) <= 0 /\ d * (q + 1) = d * q + d
        BY <1>1, <3>1
      <3> QED
        BY <1>1, <1>2, <2>1, <3>2
    <2>3. ~(q > y)
      <3> SUFFICES ASSUME q > y PROVE FALSE
        OBVIOUS
      <3>1. q >= y + 1
        BY <1>1
      <3>2. d * q >= d * (y + 1) /\ d * (y + 1) = d * y + d
        BY <1>1, <3>1
      <3> QED
        BY <1>1, <1>2, <2>1, <3>2
    <2> QED
      BY <1>1, <2>2, <2>3
  <1>4. CASE y < 0
    <2>1. x * y <= 0 /\ d * y <= x * y
      BY <1>4
    <2>2. ~(q > 0)
      <3> SUFFICES ASSUME q > 0 PROVE FALSE
        OBVIOUS
      <3>1. d * q > 0
        BY <1>1
      <3> QED
        BY <1>1, <1>2, <2>1, <3>1
    <2>3. ~(q < y)
      <3> SUFFICES ASSUME q < y PROVE FALSE
        OBVIOUS
      <3>1. q + 1 <= y
        BY <1>1
      <3>2. d * (q + 1) <= d * y /\ d * (q + 1) = d * q + d
        BY <1>1, <3>1
      <3> QED
        BY <1>1, <1>2, <2>1, <3>2
    <2> QED
      BY <1>1, <2>2, <2>3
  <1> QED
    BY <1>3, <1>4

LEMMA InterpolatedIs ==
    ASSUME NEW s, Series(s), NEW i \in 2..Len(s), NEW end \in i + 1..Len(s),
           NEW x, x = Interpolated(s, i, end)
    PROVE  Part(x, s, i) /\ Len(x) = end - i
  <1>1. /\ Len(s) \in Nat /\ DOMAIN s = 1..Len(s)
        /\ \A k \in 1..Len(s) : s[k].t \in Int /\ s[k].w \in Int
        /\ \A k, j \in 1..Len(s) : k < j => s[k].t < s[j].t
    BY SeriesIs
  <1>2. i - 1 \in 1..Len(s) /\ end \in 1..Len(s) /\ i - 1 < end /\ end - i \in Nat
    BY <1>1
  <1> DEFINE a == s[i - 1]
             b == s[end]
             Line(t) == a.w + ((t - a.t) * (b.w - a.w)) \div (b.t - a.t)
  <1>3. a.t \in Int /\ a.w \in Int /\ b.t \in Int /\ b.w \in Int /\ a.t < b.t
    BY <1>1, <1>2
  <1>4. DOMAIN x = 1..end - i
        /\ \A k \in 1..end - i : x[k] = [t |-> s[i + k - 1].t, w |-> Line(s[i + k - 1].t)]
    BY DEF Interpolated
  <1>5. ASSUME NEW k \in 1..end - i PROVE StandsFor(x[k], s, i + k - 1)
    <2> DEFINE t == s[i + k - 1].t
    <2>1. i + k - 1 \in 1..Len(s) /\ i - 1 < i + k - 1 /\ i + k - 1 < end
      BY <1>1
    <2>2. t \in Int /\ a.t < t /\ t < b.t
      BY <1>1, <1>2, <2>1
    <2>3. PICK q : q = ((t - a.t) * (b.w - a.w)) \div (b.t - a.t)
      OBVIOUS
    <2>4. q \in Int /\ ((0 <= q /\ q <= b.w - a.w) \/ (b.w - a.w <= q /\ q <= 0))
      <3> HIDE DEF a, b, t
      <3>1. b.w - a.w \in Int /\ t - a.t \in Nat /\ b.t - a.t \in Nat /\ b.t - a.t > 0
            /\ t - a.t <= b.t - a.t
        BY <1>3, <2>2
      <3> QED
        BY <2>3, <3>1, Fraction
    <2>5. x[k].t = t /\ x[k].w = a.w + q
      BY <1>4, <2>3
    <2>6. x[k] \in Points
      <3>1. x[k] = [t |-> t, w |-> a.w + q]
        BY <1>4, <2>3
      <3> HIDE DEF a, b, t
      <3> QED
        BY <1>3, <2>2, <2>4, <3>1 DEF Points
    <2> HIDE DEF t, Line
    <2>7. (a.w <= x[k].w /\ x[k].w <= b.w) \/ (b.w <= x[k].w /\ x[k].w <= a.w)
      <3>1. \A u, v, p \in Int : (0 <= p /\ p <= v - u) \/ (v - u <= p /\ p <= 0)
                                 => (u <= u + p /\ u + p <= v) \/ (v <= u + p /\ u + p <= u)
        OBVIOUS
      <3> HIDE DEF a, b
      <3> QED
        BY <1>3, <2>4, <2>5, <3>1
    <2> QED
      BY <1>1, <1>2, <2>5, <2>6, <2>7 DEF StandsFor, t
  <1>6. x \in Seq(Points) /\ Len(x) = end - i
    <2>1. \A k \in 1..end - i : x[k] \in Points
      BY <1>5 DEF StandsFor
    <2>2. x = [k \in 1..end - i |-> x[k]]
      BY DEF Interpolated
    <2>3. x \in [1..end - i -> Points]
      BY <2>1, <2>2
    <2> QED
      BY <1>2, <2>3
  <1>7. i + (end - i) <= Len(s) + 1
    BY <1>1, <1>2
  <1> QED
    BY <1>5, <1>6, <1>7 DEF Part

\* The filter's step at the sample i, from what it makes of the samples behind.
FilterStep(from, s, i) ==
    IF i > Len(s) THEN <<>>
    ELSE LET end == IF i > 1 /\ IsExcursion(s, i) THEN Return(s, i) ELSE 0
         IN  IF end = 0 THEN <<s[i]>> \o from[i + 1]
             ELSE Interpolated(s, i, end) \o <<s[end]>> \o from[end + 1]

LEMMA ReturnIs ==
    ASSUME NEW s, Series(s), NEW i \in 2..Len(s), Return(s, i) # 0
    PROVE  Return(s, i) \in i + 1..Len(s)
  <1>1. PICK ends : ends \subseteq i + 1..Len(s) /\ Return(s, i) = IF ends = {} THEN 0 ELSE Least(ends)
    BY DEF Return
  <1>2. ends # {} /\ ends \in SUBSET Nat
    <2>1. i + 1..Len(s) \subseteq Nat
      BY SeriesIs
    <2> QED
      BY <1>1, <2>1
  <1>3. \E m \in ends : \A n \in ends : m <= n
    BY <1>2, LeastExists
  <1>4. Least(ends) \in ends
    BY <1>3 DEF Least
  <1> QED
    BY <1>1, <1>2, <1>4

\* Where the step looks: at one place behind i.
LEMMA FilterLooks ==
    ASSUME NEW s, Series(s), NEW i \in 1..Len(s)
    PROVE  \/ \A from : FilterStep(from, s, i) = <<s[i]>> \o from[i + 1]
           \/ \E end \in i + 1..Len(s) :
                 /\ i > 1
                 /\ \A from : FilterStep(from, s, i) =
                                Interpolated(s, i, end) \o <<s[end]>> \o from[end + 1]
  <1>1. Len(s) \in Nat /\ ~(i > Len(s))
    BY SeriesIs
  <1>2. PICK end : end = IF i > 1 /\ IsExcursion(s, i) THEN Return(s, i) ELSE 0
    OBVIOUS
  <1>3. CASE end = 0
    BY <1>1, <1>2, <1>3 DEF FilterStep
  <1>4. CASE end # 0
    <2>1. i > 1 /\ end = Return(s, i)
      BY <1>2, <1>4
    <2>2. end \in i + 1..Len(s)
      <3>1. i \in 2..Len(s)
        BY <1>1, <2>1
      <3> QED
        BY <1>4, <2>1, <3>1, ReturnIs
    <2>3. \A from : FilterStep(from, s, i) = Interpolated(s, i, end) \o <<s[end]>> \o from[end + 1]
      BY <1>1, <1>2, <1>4 DEF FilterStep
    <2> QED
      BY <2>1, <2>2, <2>3
  <1> QED
    BY <1>3, <1>4

LEMMA PartsJoinHere ==
    ASSUME NEW s, NEW i \in Nat, NEW x, Part(x, s, i), NEW y, Part(y, s, i + Len(x))
    PROVE  Part(x \o y, s, i) /\ Len(x \o y) = Len(x) + Len(y)
  <1>1. PICK j : j = i + Len(x)
    OBVIOUS
  <1> QED
    BY <1>1, PartsJoin

\* x stands for all samples from i on.
Rest(x, s, i) == Part(x, s, i) /\ i + Len(x) = Len(s) + 1

LEMMA FilterStepFits ==
    ASSUME NEW s, Series(s), NEW i \in 1..Len(s) + 1, NEW from,
           \A j \in i + 1..Len(s) + 1 : Rest(from[j], s, j)
    PROVE  Rest(FilterStep(from, s, i), s, i)
  <1>0. Len(s) \in Nat /\ i \in Nat
    BY SeriesIs
  <1>1. CASE i = Len(s) + 1
    <2>1. FilterStep(from, s, i) = <<>>
      BY <1>0, <1>1 DEF FilterStep
    <2>2. <<>> \in Seq(Points) /\ Len(<<>>) = 0 /\ 1..0 = {}
      OBVIOUS
    <2>3. Rest(<<>>, s, i)
      BY <1>0, <1>1, <2>2 DEF Rest, Part
    <2> QED
      BY <2>1, <2>3
  <1>2. CASE i # Len(s) + 1
    <2>0. i \in 1..Len(s)
      BY <1>0, <1>2
    <2>1. CASE \A f : FilterStep(f, s, i) = <<s[i]>> \o f[i + 1]
      <3>1. PICK x, y : x = <<s[i]>> /\ y = from[i + 1]
        OBVIOUS
      <3>2. Part(x, s, i) /\ Len(x) = 1
        BY <2>0, <3>1, PartOfOne
      <3>3. Rest(y, s, i + 1)
        <4>1. i + 1 \in i + 1..Len(s) + 1
          BY <1>0, <2>0
        <4> QED
          BY <3>1, <4>1
      <3>4. PICK j : j = i + Len(x)
        OBVIOUS
      <3>5. j = i + 1 /\ Part(y, s, j)
        BY <3>2, <3>3, <3>4 DEF Rest
      <3>6. Part(x \o y, s, i) /\ Len(x \o y) = Len(x) + Len(y)
        <4>1. i \in Nat
          BY <1>0
        <4>2. Part(y, s, i + Len(x))
          BY <3>4, <3>5
        <4>3. Part(x, s, i)
          BY <3>2
        <4> QED
          BY ONLY <4>3, <4>1, <4>2, PartsJoinHere
      <3>7. i + (1 + Len(y)) = Len(s) + 1
        <4>1. (i + 1) + Len(y) = Len(s) + 1 /\ Len(y) \in Nat
          BY <3>3 DEF Rest, Part
        <4> QED
          BY <1>0, <4>1
      <3>8. FilterStep(from, s, i) = x \o y
        BY <2>1, <3>1
      <3> QED
        BY <3>2, <3>6, <3>7, <3>8 DEF Rest
    <2>2. ASSUME NEW end \in i + 1..Len(s), i > 1,
                 \A f : FilterStep(f, s, i) = Interpolated(s, i, end) \o <<s[end]>> \o f[end + 1]
          PROVE  Rest(FilterStep(from, s, i), s, i)
      <3>1. PICK x, y, z : x = Interpolated(s, i, end) /\ y = <<s[end]>> /\ z = from[end + 1]
        OBVIOUS
      <3>2. Part(x, s, i) /\ Len(x) = end - i
        <4>1. i \in 2..Len(s)
          BY <1>0, <2>0, <2>2
        <4> QED
          BY <3>1, <4>1, InterpolatedIs
      <3>3. Part(y, s, end) /\ Len(y) = 1
        <4>1. end \in 1..Len(s)
          BY <1>0
        <4> QED
          BY <3>1, <4>1, PartOfOne
      <3>4. Rest(z, s, end + 1)
        <4>1. end + 1 \in i + 1..Len(s) + 1
          BY <1>0
        <4> QED
          BY <3>1, <4>1
      <3>5. Part(x \o y, s, i) /\ Len(x \o y) = Len(x) + Len(y)
        <4>1. end = i + Len(x) /\ i \in Nat
          BY <1>0, <3>2
        <4>2. Part(y, s, i + Len(x))
          BY <3>3, <4>1
        <4> QED
          BY ONLY <3>2, <4>1, <4>2, PartsJoinHere
      <3>6. PICK w : w = x \o y
        OBVIOUS
      <3>7. Part(w, s, i) /\ Len(w) = (end - i) + 1
        BY <3>2, <3>3, <3>5, <3>6
      <3>8. Part(w \o z, s, i) /\ Len(w \o z) = Len(w) + Len(z)
        <4>1. end + 1 = i + Len(w)
          BY <1>0, <3>7
        <4>2. Part(z, s, end + 1)
          BY <3>4 DEF Rest
        <4> QED
          BY <1>0, <3>7, <4>1, <4>2, PartsJoin
      <3>9. i + (((end - i) + 1) + Len(z)) = Len(s) + 1
        <4>1. (end + 1) + Len(z) = Len(s) + 1 /\ Len(z) \in Nat
          BY <3>4 DEF Rest, Part
        <4> QED
          BY <1>0, <4>1
      <3>10. FilterStep(from, s, i) = w \o z
        BY <2>2, <3>1, <3>6
      <3> QED
        BY <3>7, <3>8, <3>9, <3>10 DEF Rest
    <2> QED
      BY <2>0, <2>1, <2>2, FilterLooks
  <1> QED
    BY <1>1, <1>2

\* A step looks only at what comes behind.
LEMMA FilterStepAgrees ==
    ASSUME NEW s, Series(s), NEW i \in 1..Len(s) + 1, NEW f, NEW g,
           \A j \in i + 1..Len(s) + 1 : f[j] = g[j]
    PROVE  FilterStep(f, s, i) = FilterStep(g, s, i)
  <1>0. Len(s) \in Nat /\ i \in Nat
    BY SeriesIs
  <1>1. CASE i = Len(s) + 1
    BY <1>0, <1>1 DEF FilterStep
  <1>2. CASE i # Len(s) + 1
    <2>0. i \in 1..Len(s) /\ f[i + 1] = g[i + 1]
      <3>1. i \in 1..Len(s) /\ i + 1 \in i + 1..Len(s) + 1
        BY <1>0, <1>2
      <3> QED
        BY <3>1
    <2>1. CASE \A from : FilterStep(from, s, i) = <<s[i]>> \o from[i + 1]
      BY <2>0, <2>1
    <2>2. ASSUME NEW end \in i + 1..Len(s),
                 \A from : FilterStep(from, s, i) = Interpolated(s, i, end) \o <<s[end]>> \o from[end + 1]
          PROVE  FilterStep(f, s, i) = FilterStep(g, s, i)
      <3>1. end + 1 \in i + 1..Len(s) + 1
        BY <1>0
      <3>2. f[end + 1] = g[end + 1]
        BY <3>1
      <3> QED
        BY <2>2, <3>2
    <2> QED
      BY <2>0, <2>1, <2>2, FilterLooks
  <1> QED
    BY <1>1, <1>2

FilterFrom(from, s) == from = [i \in 1..Len(s) + 1 |-> FilterStep(from, s, i)]

LEMMA FilterExists ==
    ASSUME NEW s, Series(s) PROVE \E from : FilterFrom(from, s)
  <1> DEFINE N == Len(s) + 1
             To(f, k) == [i \in 1..N |-> IF i >= N - k THEN FilterStep(f, s, i) ELSE <<>>]
             T == {k \in Nat : \E f : f = To(f, k)}
  <1>0. Len(s) \in Nat /\ N \in Nat
    BY SeriesIs
  <1>1. 0 \in T
    <2> DEFINE g == [i \in 1..N |-> <<>>]
    <2>1. \A i \in 1..N : i >= N - 0 => FilterStep(g, s, i) = <<>>
      BY <1>0 DEF FilterStep
    <2>2. g = To(g, 0)
      BY <2>1
    <2> HIDE DEF g
    <2> QED
      BY <2>2
  <1>2. ASSUME NEW k \in Nat, k \in T PROVE k + 1 \in T
    <2>1. PICK g : g = To(g, k)
      BY <1>2
    <2> DEFINE h == To(g, k + 1)
    <2>2. ASSUME NEW i \in 1..N, i >= N - k PROVE h[i] = g[i]
      <3>1. i >= N - (k + 1)
        BY <1>0, <2>2
      <3>2. h[i] = FilterStep(g, s, i)
        BY <3>1
      <3>3. g[i] = FilterStep(g, s, i)
        BY <2>1, <2>2
      <3> QED
        BY <3>2, <3>3
    <2> HIDE DEF h
    <2>3. ASSUME NEW i \in 1..N, i >= N - (k + 1) PROVE FilterStep(h, s, i) = FilterStep(g, s, i)
      <3>1. \A j \in i + 1..Len(s) + 1 : h[j] = g[j]
        <4> SUFFICES ASSUME NEW j \in i + 1..Len(s) + 1 PROVE h[j] = g[j]
          OBVIOUS
        <4>1. j \in 1..N /\ j >= N - k
          BY <1>0, <2>3
        <4> QED
          BY <2>2, <4>1
      <3> QED
        BY <3>1, FilterStepAgrees
    <2>4. h = To(h, k + 1)
      BY <2>3 DEF h
    <2> QED
      BY <2>4
  <1>3. N \in T
    <2> HIDE DEF T
    <2> QED
      BY <1>0, <1>1, <1>2, SetInduction
  <1>4. PICK f : f = To(f, N)
    BY <1>3
  <1>5. f = [i \in 1..N |-> FilterStep(f, s, i)]
    <2>1. \A i \in 1..N : i >= N - N
      BY <1>0
    <2> QED
      BY <1>4, <2>1
  <1> QED
    BY <1>5 DEF FilterFrom

LEMMA FilterGoes ==
    ASSUME NEW s, Series(s), NEW from, FilterFrom(from, s)
    PROVE  \A i \in 1..Len(s) + 1 : Rest(from[i], s, i)
  <1> DEFINE N == Len(s) + 1
             T == {k \in Nat : \A i \in 1..N : i >= N - k => Rest(from[i], s, i)}
  <1>0. Len(s) \in Nat /\ N \in Nat
    BY SeriesIs
  <1>1. ASSUME NEW i \in 1..N, \A j \in i + 1..N : Rest(from[j], s, j) PROVE Rest(from[i], s, i)
    <2>1. from[i] = FilterStep(from, s, i)
      BY DEF FilterFrom
    <2> QED
      BY <1>1, <2>1, FilterStepFits
  <1>2. 0 \in T
    <2> SUFFICES ASSUME NEW i \in 1..N, i >= N - 0 PROVE Rest(from[i], s, i)
      OBVIOUS
    <2>1. i + 1..N = {}
      BY <1>0
    <2> QED
      BY <1>1, <2>1
  <1>3. ASSUME NEW k \in Nat, k \in T PROVE k + 1 \in T
    <2> SUFFICES ASSUME NEW i \in 1..N, i >= N - (k + 1) PROVE Rest(from[i], s, i)
      OBVIOUS
    <2>1. \A j \in i + 1..N : j \in 1..N /\ j >= N - k
      BY <1>0
    <2>2. \A j \in i + 1..N : Rest(from[j], s, j)
      BY <1>3, <2>1
    <2> QED
      BY <1>1, <2>2
  <1>4. N \in T
    <2> HIDE DEF T
    <2> QED
      BY <1>0, <1>2, <1>3, SetInduction
  <1>5. \A i \in 1..N : i >= N - N
    BY <1>0
  <1> QED
    BY <1>4, <1>5

\* The filter keeps number and times of the samples and brings in no weight
\* beyond them.
LEMMA FilteredFits ==
    ASSUME NEW s, Series(s), NEW f, f = Filtered(s)
    PROVE  /\ Series(f) /\ Len(f) = Len(s) /\ DOMAIN f = DOMAIN s
           /\ \A i \in DOMAIN s : StandsFor(f[i], s, i)
  <1> DEFINE from == CHOOSE from : FilterFrom(from, s)
  <1>0. Len(s) \in Nat /\ DOMAIN s = 1..Len(s) /\ \A i, j \in 1..Len(s) : i < j => s[i].t < s[j].t
    BY SeriesIs
  <1>1. FilterFrom(from, s)
    BY FilterExists
  <1>2. f = from[1]
    BY DEF Filtered, FilterFrom, FilterStep
  <1>3. Rest(f, s, 1)
    <2>1. 1 \in 1..Len(s) + 1
      BY <1>0
    <2> HIDE DEF from
    <2> QED
      BY <1>1, <1>2, <2>1, FilterGoes
  <1>4. f \in Seq(Points) /\ 1 + Len(f) = Len(s) + 1 /\ \A k \in 1..Len(f) : StandsFor(f[k], s, 1 + k - 1)
    BY <1>3 DEF Rest, Part
  <1>5. Len(f) = Len(s) /\ DOMAIN f = 1..Len(f)
    BY <1>0, <1>4
  <1>6. ASSUME NEW i \in 1..Len(s) PROVE StandsFor(f[i], s, i)
    <2>1. StandsFor(f[i], s, 1 + i - 1) /\ 1 + i - 1 = i
      BY <1>4, <1>5
    <2> QED
      BY <2>1
  <1>7. Sorted(f)
    BY <1>0, <1>5, <1>6 DEF Sorted, StandsFor
  <1> QED
    BY <1>0, <1>4, <1>5, <1>6, <1>7 DEF Series

-----------------------------------------------------------------------------
(* The weights and times of the trail *)

LEMMA MeasuredOf ==
    ASSUME NEW z \in Seq(Measurement), Sorted(z), NEW s, s = Measured(z)
    PROVE  /\ Series(s) /\ \A i \in DOMAIN s : \E k \in DOMAIN z : s[i] = z[k]
           /\ \A i \in DOMAIN s : s[i].w > 0
  <1> DEFINE K == {k \in DOMAIN z : z[k].w > 0}
  <1>0. K \subseteq DOMAIN z
    OBVIOUS
  <1>1. s = At(z, K)
    BY DEF Measured
  <1> HIDE DEF K
  <1>2. s \in Seq(Measurement) /\ Picked(s, z, K, Len(z))
    BY <1>0, <1>1, AtIs
  <1>3. Sorted(s) /\ \A i \in DOMAIN s : \E k \in K \cap DOMAIN z : s[i] = z[k]
    BY <1>0, <1>2, PickedSorted
  <1>4. s \in Seq(Points)
    <2>1. Measurement \subseteq Points
      <3>1. Grams \subseteq Int /\ Nat \subseteq Int
        BY ConsumptionBounds
      <3> QED
        BY <3>1 DEF Measurement, Points
    <2> QED
      BY <1>2, <2>1
  <1> QED
    BY <1>3, <1>4 DEF Series, K

LEMMA MeasuredFits ==
    ASSUME SeriesFit, NEW s, s = Measured(samples)
    PROVE  /\ Series(s) /\ \A i \in DOMAIN s : \E k \in DOMAIN samples : s[i] = samples[k]
           /\ \A i \in DOMAIN s : s[i].w > 0
  <1>1. samples \in Seq(Measurement) /\ Sorted(samples)
    BY DEF SeriesFit
  <1> QED
    BY <1>1, MeasuredOf

\* What is returned adds up.
LEMMA AverageAdds ==
    ASSUME NEW s, Series(s), NEW r, r = AverageOf(s)
    PROVE  AddsUp(r)
  <1>1. Closed(r) /\ \E a, b \in Int : PassFits(r, a, b)
    <2>0. Len(s) \in Nat
      BY SeriesIs
    <2>1. CASE Len(s) >= 2
      <3>1. 1 \in 1..Len(s) /\ Len(s) \in 1..Len(s)
        BY <2>0, <2>1
      <3>2. s[1].t \in Int /\ s[Len(s)].t \in Int
        BY <3>1, SeriesIs
      <3> QED
        BY <2>1, <3>2, AverageFits
    <2>2. CASE Len(s) < 2
      BY <2>2, AverageFits
    <2> QED
      BY <2>0, <2>1, <2>2
  <1>2. PICK a \in Int, b \in Int : PassFits(r, a, b)
    BY <1>1
  <1>3. r \in Passes /\ SumsFit(r) /\ BoundsFit(r, a, b) /\ Leads(r.intervals \o r.window, a, b)
    BY <1>2 DEF PassFits
  <1>4. r.intervals \in Seq(Intervals) /\ r.window = <<>>
    BY <1>1, <1>3, PassIs DEF Closed
  <1>5. Leads(r.intervals, a, b)
    <2>1. r.intervals \o <<>> = r.intervals
      BY <1>4, ConcatNothing
    <2> QED
      BY <1>3, <1>4, <2>1
  <1>6. r.time = Total([k \in DOMAIN r.intervals |-> r.intervals[k].end - r.intervals[k].start], Included(r))
    BY <1>3 DEF SumsFit, TimeOf, Lengths, Counts, Included
  <1>7. r.change = Total([k \in DOMAIN r.intervals |-> r.intervals[k].change], DOMAIN r.intervals)
    BY <1>3 DEF SumsFit, ChangeOf, Changes
  <1>8. \A k \in 1..Len(r.intervals) - 1 : r.intervals[k].end = r.intervals[k + 1].start
    BY <1>5 DEF Leads
  <1>9. r.change <= 0 /\ -r.change <= MaxRate * r.time
    BY <1>3 DEF BoundsFit
  <1> QED
    BY <1>6, <1>7, <1>8, <1>9 DEF AddsUp

\* What consumption_average returns agrees with the intervals it lists: the time
\* and the change are those of the included ones, these follow one another, and
\* no more is consumed than the greatest rate allows (consumption_average.py:144,
\* 180); for any series, however long, and any thresholds.
THEOREM TrailAdds == ConsumptionSpec => []TrailAddsUp
  <1>1. SeriesFit => TrailAddsUp
    <2> SUFFICES ASSUME SeriesFit PROVE TrailAddsUp
      OBVIOUS
    <2>1. PICK s, f, r : s = Measured(samples) /\ f = Filtered(s) /\ r = AverageOf(f)
      OBVIOUS
    <2>2. Series(f)
      BY <2>1, MeasuredFits, FilteredFits
    <2>3. AddsUp(r)
      BY <2>1, <2>2, AverageAdds
    <2> QED
      BY <2>1, <2>3 DEF TrailAddsUp, Whole, Average
  <1> QED
    BY <1>1, SeriesStays, PTL

\* The filter changes no more than weights: it keeps the samples and their times,
\* and brings in no weight beyond those measured (_filter_transient_weights).
THEOREM ConsumptionTypeCorrect == ConsumptionSpec => []ConsumptionTypeOK
  <1>1. SeriesFit => ConsumptionTypeOK
    <2> SUFFICES ASSUME SeriesFit PROVE ConsumptionTypeOK
      OBVIOUS
    <2>1. PICK s, f : s = Measured(samples) /\ f = Filtered(s)
      OBVIOUS
    <2>2. DOMAIN f = DOMAIN s /\ \A i \in DOMAIN s : StandsFor(f[i], s, i)
      BY <2>1, MeasuredFits, FilteredFits
    <2>3. \A i \in DOMAIN s : /\ f[i].t = s[i].t
                              /\ \E j, k \in DOMAIN s : s[j].w <= f[i].w /\ f[i].w <= s[k].w
      BY <2>2 DEF StandsFor
    <2>4. samples \in Seq(Measurement) /\ Len(samples) <= MaxSamples
      BY DEF SeriesFit
    <2> QED
      BY <2>1, <2>2, <2>3, <2>4 DEF ConsumptionTypeOK
  <1> QED
    BY <1>1, SeriesStays, PTL

-----------------------------------------------------------------------------
(* Noise is counted once *)

\* The premises of CountsNoiseOnce.
Noise(s) ==
    /\ \A i, k \in DOMAIN s : i < k => s[k].w - s[i].w <= RiseReset
    /\ \A k \in 2..Len(s) : s[k].t - s[k - 1].t <= MaxGap

\* No more is counted, in the window or before, than the base has fallen.
Falls(s, i, r) ==
    /\ ~r.over
    /\ \E j \in 1..i : r.base = s[j].w
    /\ -(r.change + r.windowChange) <= s[1].w - r.base

LEMMA FinishKeeps ==
    ASSUME NEW r \in Passes, r.windowChange <= 0, NEW e, e = FinishWindow(r)
    PROVE  /\ e \in Passes /\ e.change + e.windowChange >= r.change + r.windowChange
           /\ e.windowChange = 0 /\ e.base = r.base /\ e.over = r.over
  <1>1. r.change \in Int /\ r.windowChange \in Int
    BY PassIs
  <1>2. CASE e = IncludeWindow(r)
    <2>1. /\ e \in Passes /\ e.change = r.change + r.windowChange /\ e.windowChange = 0
          /\ e.base = r.base /\ e.over = r.over
      BY <1>2, IncludedIs
    <2> QED
      BY <1>1, <2>1
  <1>3. CASE e = Reject(r)
    <2>1. /\ e \in Passes /\ e.change = r.change /\ e.windowChange = 0
          /\ e.base = r.base /\ e.over = r.over
      BY <1>3, RejectIs
    <2> QED
      BY <1>1, <2>1
  <1> QED
    BY <1>2, <1>3, FinishIs

LEMMA LookedFalls ==
    ASSUME NEW s, Series(s), Noise(s), NEW i \in 2..Len(s), NEW r, PassedTo(s, i - 1, r),
           Falls(s, i - 1, r)
    PROVE  Falls(s, i, Looked(s, i, r))
  <1>1. /\ Len(s) \in Nat /\ DOMAIN s = 1..Len(s) /\ 1 \in 1..Len(s)
        /\ i \in 1..Len(s) /\ i - 1 \in 1..Len(s)
        /\ \A k \in 1..Len(s) : s[k].t \in Int /\ s[k].w \in Int
        /\ s[i - 1].t < s[i].t
    BY SeriesIs
  <1>2. PassFits(r, s[1].t, s[i - 1].t) /\ ~r.over
    BY DEF PassedTo, Reached, Falls
  <1>3. r \in Passes /\ r.base \in Int /\ r.change \in Int /\ r.windowChange \in Int
    BY <1>2, PassIs DEF PassFits
  <1>4. s[i].w - r.base <= RiseReset
    <2>1. PICK j \in 1..i - 1 : r.base = s[j].w
      BY DEF Falls
    <2>2. j \in DOMAIN s /\ i \in DOMAIN s /\ j < i
      BY <1>1
    <2> QED
      BY <2>1, <2>2 DEF Noise
  <1>5. Looked(s, i, r) = Counted(s, i, r)
    <2>1. ~(s[i].t - s[i - 1].t > MaxGap)
      <3>1. s[i].t - s[i - 1].t <= MaxGap
        BY DEF Noise
      <3>2. s[i].t - s[i - 1].t \in Int /\ MaxGap \in Int
        <4>1. MaxGap \in Nat
          BY ONLY ConsumptionBounds
        <4> QED
          BY <1>1, <4>1
      <3> QED
        BY ONLY <3>1, <3>2
    <2>2. ~(s[i].w - r.base > RiseReset)
      <3>1. s[i].w - r.base \in Int /\ RiseReset \in Int
        <4>1. RiseReset \in Nat
          BY ONLY ConsumptionBounds
        <4> QED
          BY <1>1, <1>3, <4>1
      <3> QED
        BY ONLY <1>4, <3>1
    <2> QED
      BY <1>2, <2>1, <2>2 DEF Looked
  <1>6. PICK v : v = Verdict(s, i, r.base)
    OBVIOUS
  <1>7. /\ v.reason \in Reasons /\ v.change \in Int /\ v.change <= 0 /\ v.base \in Int
        /\ v.base = s[i].w \/ (v.base = r.base /\ v.change = 0)
        /\ v.change \in {0, s[i].w - r.base}
        /\ v.base # r.base => s[i].w - r.base <= 0
    <2>1. s[i].w \in Int /\ s[i].t \in Int /\ s[i - 1].t \in Int /\ r.base \in Int
      BY <1>1, <1>3
    <2>2. /\ v.reason \in Reasons /\ v.change \in Int /\ v.change <= 0 /\ v.base \in Int
          /\ v.base = s[i].w \/ (v.base = r.base /\ v.change = 0)
          /\ v.change \in {0, s[i].w - r.base}
          /\ s[i].w - r.base <= RiseReset /\ v.base # r.base => s[i].w - r.base <= 0
      BY ONLY <1>6, <2>1, VerdictIs
    <2> QED
      BY <1>4, <2>2
  <1>8. PICK e : e = InWindow(r, s[i - 1].t, s[i].t, v)
    OBVIOUS
  <1>9. e \in Passes /\ e.windowChange <= 0 /\ e.base = v.base /\ e.over = r.over
    <2>1. PassFits(e, s[1].t, s[i].t) /\ e.base = v.base /\ e.over = r.over
      BY <1>1, <1>2, <1>7, <1>8, InWindowFits
    <2> QED
      BY <2>1 DEF PassFits, BoundsFit
  <1>10. e.change = r.change /\ e.windowChange = r.windowChange + v.change
    <2>1. r = [time |-> r.time, change |-> r.change, intervals |-> r.intervals,
               windowTime |-> r.windowTime, windowChange |-> r.windowChange, window |-> r.window,
               base |-> r.base, over |-> r.over]
      BY <1>3, PassRecord
    <2> QED
      BY <1>8, <2>1 DEF InWindow
  <1>11. -(e.change + e.windowChange) <= s[1].w - e.base
    <2>1. -(r.change + r.windowChange) <= s[1].w - r.base
      BY DEF Falls
    <2>2. s[i].w \in Int /\ s[1].w \in Int
      BY <1>1
    <2>3. v.change = 0 \/ v.change = s[i].w - r.base
      BY <1>7
    <2>4. -(r.change + (r.windowChange + v.change)) <= s[1].w - v.base
      <3>1. CASE v.base = r.base
        <4>1. v.change = 0
          BY <1>3, <1>7, <2>2, <2>3, <3>1
        <4> QED
          BY <1>3, <2>1, <3>1, <4>1
      <3>2. CASE v.base # r.base
        <4>1. v.base = s[i].w /\ s[i].w - r.base <= 0
          BY <1>7, <3>2
        <4>2. \A c, w, first, base, new, change \in Int :
                /\ -(c + w) <= first - base /\ new - base <= 0
                /\ change = 0 \/ change = new - base
                => -(c + (w + change)) <= first - new
          OBVIOUS
        <4>3. v.change \in Int
          BY <1>7
        <4> QED
          BY ONLY <1>3, <2>1, <2>2, <2>3, <4>1, <4>2, <4>3
      <3> QED
        BY <3>1, <3>2
    <2> QED
      BY <1>9, <1>10, <2>4
  <1>12. \E j \in 1..i : e.base = s[j].w
    <2>1. PICK j \in 1..i - 1 : r.base = s[j].w
      BY DEF Falls
    <2>2. j \in 1..i /\ i \in 1..i
      BY <1>1
    <2> QED
      BY <1>7, <1>9, <2>1, <2>2
  <1>13. PICK f : f = FinishIfFull(e)
    OBVIOUS
  <1>14. f.base = e.base /\ f.over = e.over /\ f \in Passes
         /\ f.change + f.windowChange >= e.change + e.windowChange
    <2>0. e.change \in Int /\ e.windowChange \in Int
      BY <1>9, PassIs
    <2>1. CASE f = e
      BY <1>9, <2>0, <2>1
    <2>2. CASE f = FinishWindow(e)
      BY <1>9, <2>2, FinishKeeps
    <2> QED
      BY <1>13, <2>1, <2>2 DEF FinishIfFull
  <1>15. -(f.change + f.windowChange) <= s[1].w - f.base
    <2>1. /\ e.change \in Int /\ e.windowChange \in Int /\ f.change \in Int /\ f.windowChange \in Int
          /\ e.base \in Int /\ s[1].w \in Int
      BY <1>1, <1>9, <1>14, PassIs
    <2> QED
      BY <1>11, <1>14, <2>1
  <1>16. f = Looked(s, i, r)
    BY <1>5, <1>6, <1>8, <1>13 DEF Counted
  <1> QED
    BY <1>2, <1>9, <1>12, <1>14, <1>15, <1>16 DEF Falls

LEMMA PassFalls ==
    ASSUME NEW s, Series(s), Noise(s), s # <<>>, NEW pass, IsPass(pass, s)
    PROVE  \A i \in 1..Len(s) : Falls(s, i, pass[i])
  <1> DEFINE N == Len(s)
             T == {k \in Nat : k + 1 <= N => Falls(s, k + 1, pass[k + 1])}
  <1>0. N \in Nat \ {0} /\ 1 \in 1..N /\ s[1].w \in Int
    <2>1. s # <<>> => Len(s) # 0
      BY DEF Series
    <2> QED
      BY <2>1, SeriesIs
  <1>1. 0 \in T
    <2>1. pass[1] = Nothing(s[1].w)
      BY PassGoes
    <2>2. PICK r : r = pass[1]
      OBVIOUS
    <2>3. r.over = FALSE /\ r.base = s[1].w /\ r.change = 0 /\ r.windowChange = 0
      BY <2>1, <2>2 DEF Nothing
    <2>4. Falls(s, 1, r)
      <3>1. 1 \in 1..1
        OBVIOUS
      <3> QED
        BY <1>0, <2>3, <3>1 DEF Falls
    <2> QED
      BY <2>2, <2>4
  <1>2. ASSUME NEW k \in Nat, k \in T PROVE k + 1 \in T
    <2> SUFFICES ASSUME (k + 1) + 1 <= N PROVE Falls(s, (k + 1) + 1, pass[(k + 1) + 1])
      OBVIOUS
    <2>1. PICK i : i = (k + 1) + 1
      OBVIOUS
    <2>2. i \in 2..N /\ i - 1 = k + 1 /\ k + 1 <= N /\ i - 1 \in 1..N
      BY <1>0, <2>1
    <2>3. Falls(s, i - 1, pass[i - 1])
      BY <1>2, <2>2
    <2>4. pass[i] = Looked(s, i, pass[i - 1]) /\ PassedTo(s, i - 1, pass[i - 1])
      BY <2>2, PassGoes
    <2>5. Falls(s, i, pass[i])
      BY <2>2, <2>3, <2>4, LookedFalls
    <2> QED
      BY <2>1, <2>5
  <1>3. Nat \subseteq T
    <2> HIDE DEF T
    <2> QED
      BY <1>1, <1>2, SetInduction
  <1> SUFFICES ASSUME NEW i \in 1..N PROVE Falls(s, i, pass[i])
    OBVIOUS
  <1>4. i - 1 \in T /\ (i - 1) + 1 = i /\ i <= N
    BY <1>3
  <1> QED
    BY <1>4

LEMMA NoiseOnce ==
    ASSUME NEW s, Series(s), \A i \in DOMAIN s : s[i].w \in Nat, NEW r, r = AverageOf(s)
    PROVE  CountsNoiseOnce(s, r)
  <1> SUFFICES ASSUME s # <<>>, Noise(s) PROVE -r.change <= s[1].w - Least({s[k].w : k \in DOMAIN s})
    BY DEF CountsNoiseOnce, Noise
  <1> DEFINE W == {s[k].w : k \in DOMAIN s}
             least == Least(W)
  <1>0. Len(s) \in Nat /\ Len(s) # 0 /\ DOMAIN s = 1..Len(s)
    <2>1. Len(s) # 0
      BY DEF Series
    <2> QED
      BY <2>1, SeriesIs
  <1>1. least \in Nat /\ \A k \in DOMAIN s : least <= s[k].w
    <2>1. W \in SUBSET Nat /\ W # {}
      BY <1>0
    <2>2. \E m \in W : \A n \in W : m <= n
      <3> HIDE DEF W
      <3> QED
        BY <2>1, LeastExists
    <2>3. least \in W /\ \A n \in W : least <= n
      <3> HIDE DEF W
      <3> QED
        BY <2>2 DEF Least
    <2> HIDE DEF least
    <2> QED
      BY <2>1, <2>3
  <1> HIDE DEF least
  <1>2. CASE Len(s) < 2
    <2>1. r = Nothing(0)
      BY <1>2 DEF AverageOf
    <2>2. r.change = 0
      BY <2>1 DEF Nothing
    <2>3. least <= s[1].w /\ s[1].w \in Nat
      BY <1>0, <1>1
    <2> QED
      BY <1>1, <2>2, <2>3 DEF least
  <1>3. CASE Len(s) >= 2
    <2>1. PICK pass : IsPass(pass, s) /\ r = FinishWindow(pass[Len(s)])
      BY <1>3, AverageIs
    <2>2. PICK p : p = pass[Len(s)]
      OBVIOUS
    <2>3. Len(s) \in 1..Len(s) /\ 1 \in 1..Len(s)
      BY <1>0
    <2>4. Falls(s, Len(s), p) /\ PassedTo(s, Len(s), p)
      BY <2>1, <2>2, <2>3, PassFalls, PassGoes
    <2>5. p \in Passes /\ p.windowChange <= 0
      BY <2>4 DEF PassedTo, PassFits, BoundsFit
    <2>6. r \in Passes /\ r.change + r.windowChange >= p.change + p.windowChange /\ r.windowChange = 0
      BY <2>1, <2>2, <2>5, FinishKeeps
    <2>7. -(p.change + p.windowChange) <= s[1].w - p.base /\ least <= p.base
      BY <1>0, <1>1, <2>4 DEF Falls
    <2>8. /\ p.change \in Int /\ p.windowChange \in Int /\ r.change \in Int /\ p.base \in Int
          /\ s[1].w \in Nat
      BY <1>0, <2>3, <2>5, <2>6, PassIs
    <2>9. -r.change <= s[1].w - least
      <3>1. \A c, w, d, first, base, m \in Int :
              d + 0 >= c + w /\ -(c + w) <= first - base /\ m <= base => -d <= first - m
        OBVIOUS
      <3>2. r.change + 0 >= p.change + p.windowChange
        BY <2>6
      <3>3. s[1].w \in Int /\ least \in Int
        BY <1>1, <2>8
      <3> QED
        BY ONLY <2>7, <2>8, <3>1, <3>2, <3>3
    <2> QED
      BY <2>9 DEF least
  <1> QED
    BY <1>0, <1>2, <1>3

\* Noise is not counted twice (consumption_average.py:191-192): while no weight is
\* more than the reset above an earlier one and there is no gap, no more is
\* consumed than from the first weight to the least.
THEOREM NoiseCountedOnce == ConsumptionSpec => []NoiseIsCountedOnce
  <1>1. SeriesFit => NoiseIsCountedOnce
    <2> SUFFICES ASSUME SeriesFit PROVE NoiseIsCountedOnce
      OBVIOUS
    <2>1. PICK s, f, r : s = Measured(samples) /\ f = Filtered(s) /\ r = AverageOf(f)
      OBVIOUS
    <2>2. Series(s) /\ Series(f) /\ DOMAIN f = DOMAIN s /\ \A i \in DOMAIN s : StandsFor(f[i], s, i)
      BY <2>1, MeasuredFits, FilteredFits
    <2>3. \A i \in DOMAIN s : s[i].w \in Nat
      <3>1. \A i \in DOMAIN s : s[i].w > 0
        BY <2>1, MeasuredFits
      <3>2. \A i \in DOMAIN s : s[i].w \in Int
        BY <2>2, SeriesIs
      <3> QED
        BY <3>1, <3>2
    <2>4. \A i \in DOMAIN f : f[i].w \in Nat
      <3> SUFFICES ASSUME NEW i \in DOMAIN f PROVE f[i].w \in Nat
        OBVIOUS
      <3>1. PICK j \in DOMAIN s : s[j].w <= f[i].w
        BY <2>2 DEF StandsFor
      <3>2. f[i].w \in Int
        BY <2>2, SeriesIs
      <3> QED
        BY <2>3, <3>1, <3>2
    <2>5. CountsNoiseOnce(f, r)
      BY <2>1, <2>2, <2>4, NoiseOnce
    <2> QED
      BY <2>1, <2>5 DEF NoiseIsCountedOnce, Whole, Average
  <1> QED
    BY <1>1, SeriesStays, PTL

-----------------------------------------------------------------------------
(* The analysis *)

\* The last interval of the list goes on to the end, with so much more change.
Longer(list, n, end, change) ==
    [list EXCEPT ![n].end = end, ![n].change = @ + change]

LEMMA LongerIs ==
    ASSUME NEW list \in Seq(Intervals), NEW n \in Nat, n = Len(list), n > 0,
           NEW end \in Int, NEW change \in Int, NEW x, x = Longer(list, n, end, change)
    PROVE  /\ x \in Seq(Intervals) /\ Len(x) = n /\ x # <<>>
           /\ ChangeOf(x) = ChangeOf(list) + change
           /\ \A k \in 1..n : x[k].start = list[k].start
           /\ \A k \in 1..n : k # n => x[k].end = list[k].end
           /\ x[n].end = end
  <1> DEFINE last == list[n]
             v == [start |-> last.start, end |-> end, included |-> last.included,
                   reason |-> last.reason, change |-> last.change + change]
             front == [k \in 1..n - 1 |-> list[k]]
  <1>1. n \in 1..n /\ DOMAIN list = 1..n /\ \A k \in 1..n : list[k] \in Intervals
    OBVIOUS
  <1>2. last \in Intervals
    BY <1>1
  <1>3. last = [start |-> last.start, end |-> last.end, included |-> last.included,
                reason |-> last.reason, change |-> last.change] /\ last.change \in Int
    BY <1>2 DEF Intervals
  <1>4. v \in Intervals
    BY <1>2 DEF Intervals
  <1>5. front \in Seq(Intervals) /\ Len(front) = n - 1
    <2>1. n - 1 \in Nat
      OBVIOUS
    <2> QED
      BY <1>1, <2>1
  <1>6. x = [k \in 1..n |-> IF k = n THEN v ELSE list[k]]
    <2>1. [[last EXCEPT !.end = end] EXCEPT !.change = @ + change] = v
      <3>1. PICK l : l = last
        OBVIOUS
      <3>2. l = [start |-> l.start, end |-> l.end, included |-> l.included,
                 reason |-> l.reason, change |-> l.change]
        BY <1>3, <3>1
      <3>3. [[l EXCEPT !.end = end] EXCEPT !.change = @ + change]
              = [start |-> l.start, end |-> end, included |-> l.included,
                 reason |-> l.reason, change |-> l.change + change]
        <4>1. PICK m : m = [l EXCEPT !.end = end]
          OBVIOUS
        <4>2. m = [start |-> l.start, end |-> end, included |-> l.included,
                   reason |-> l.reason, change |-> l.change]
          BY ONLY <3>2, <4>1
        <4>3. [m EXCEPT !.change = @ + change]
              = [start |-> l.start, end |-> end, included |-> l.included,
                 reason |-> l.reason, change |-> l.change + change]
          BY ONLY <4>2
        <4> QED
          BY <4>1, <4>3
      <3> QED
        BY <3>1, <3>3
    <2>2. x = [k \in 1..n |-> IF k = n THEN [[last EXCEPT !.end = end] EXCEPT !.change = @ + change]
                              ELSE list[k]]
      BY <1>1 DEF Longer
    <2> QED
      BY <2>1, <2>2
  <1> HIDE DEF v
  <1>7. x = Append(front, v)
    BY <1>5, <1>6
  <1>8. list = Append(front, last)
    BY <1>1, <1>5
  <1>9. ChangeOf(x) = ChangeOf(front) + v.change /\ ChangeOf(list) = ChangeOf(front) + last.change
    <2>1. ChangeOf(Append(front, v)) = ChangeOf(front) + v.change
      BY <1>4, <1>5, SumsOfAppend
    <2>2. ChangeOf(Append(front, last)) = ChangeOf(front) + last.change
      BY <1>2, <1>5, SumsOfAppend
    <2> QED
      BY <1>7, <1>8, <2>1, <2>2
  <1>10. ChangeOf(front) \in Int
    BY <1>5, SumsType
  <1>11. v.start = last.start /\ v.end = end /\ v.change = last.change + change
    BY DEF v
  <1>12. x \in Seq(Intervals) /\ Len(x) = n /\ x # <<>>
    <2>1. x \in [1..n -> Intervals]
      BY <1>1, <1>4, <1>6
    <2> QED
      BY <2>1
  <1>13. ChangeOf(x) = ChangeOf(list) + change
    <2> HIDE DEF last
    <2> QED
      BY <1>3, <1>9, <1>10, <1>11
  <1> QED
    BY <1>1, <1>6, <1>11, <1>12, <1>13

\* The list leads from the one time to the other, with so much change.
Tells(list, a, b, change) ==
    list \in Seq(Intervals) /\ Leads(list, a, b) /\ ChangeOf(list) = change

LEMMA JoinedTells ==
    ASSUME NEW a \in Int, NEW b \in Int, NEW change \in Int, NEW list, Tells(list, a, b, change),
           NEW new \in Intervals, new.start = b, b <= new.end, b = new.end => new.change = 0,
           NEW x, x = Joined(list, new)
    PROVE  Tells(x, a, new.end, change + new.change)
  <1> DEFINE n == Len(list)
             last == list[n]
  <1>0. list \in Seq(Intervals) /\ Leads(list, a, b) /\ ChangeOf(list) = change
    BY DEF Tells
  <1>1. new.end \in Int /\ new.change \in Int /\ new.start \in Int
    BY DEF Intervals
  <1>2. n \in Nat /\ (list = <<>> <=> n = 0) /\ DOMAIN list = 1..n
    BY <1>0
  <1>3. CASE new.end <= new.start
    <2>1. x = list /\ new.end = b /\ new.change = 0
      BY <1>1, <1>3 DEF Joined
    <2>2. change + 0 = change
      OBVIOUS
    <2> QED
      BY <1>0, <2>1, <2>2 DEF Tells
  <1>4. CASE new.start < new.end /\ (x = Append(list, new) \/ list = <<>>)
    <2>1. x = Append(list, new)
      <3>1. CASE list = <<>>
        <4>1. x = <<new>>
          BY <1>1, <1>4, <3>1 DEF Joined
        <4> QED
          BY <3>1, <4>1
      <3> QED
        BY <1>4, <3>1
    <2>2. Leads(Append(list, new), a, new.end)
      BY <1>0, <1>4, LeadsAppend
    <2>3. ChangeOf(Append(list, new)) = ChangeOf(list) + new.change /\ Append(list, new) \in Seq(Intervals)
      BY <1>0, SumsOfAppend
    <2> QED
      BY <1>0, <2>1, <2>2, <2>3 DEF Tells
  <1>5. CASE new.start < new.end /\ list # <<>> /\ last.end = new.start
             /\ x = Longer(list, n, new.end, new.change)
    <2>1. n > 0
      BY <1>2, <1>5
    <2>2. /\ x \in Seq(Intervals) /\ Len(x) = n /\ x # <<>>
          /\ ChangeOf(x) = ChangeOf(list) + new.change
          /\ \A k \in 1..n : x[k].start = list[k].start
          /\ \A k \in 1..n : k # n => x[k].end = list[k].end
          /\ x[n].end = new.end
      <3>1. PICK m \in Nat : m = n
        BY <1>2
      <3>2. list \in Seq(Intervals) /\ m = Len(list) /\ m > 0 /\ x = Longer(list, m, new.end, new.change)
        BY <1>0, <1>5, <2>1, <3>1
      <3>3. /\ x \in Seq(Intervals) /\ Len(x) = m /\ x # <<>>
            /\ ChangeOf(x) = ChangeOf(list) + new.change
            /\ \A k \in 1..m : x[k].start = list[k].start
            /\ \A k \in 1..m : k # m => x[k].end = list[k].end
            /\ x[m].end = new.end
        BY ONLY <1>1, <3>1, <3>2, LongerIs
      <3> QED
        BY <3>1, <3>3
    <2>3. /\ \A k \in 1..n : a <= list[k].start /\ list[k].start < list[k].end /\ list[k].end <= b
          /\ \A k \in 1..n - 1 : list[k].end = list[k + 1].start
          /\ list[1].start = a
      BY <1>0, <1>2, <1>5 DEF Leads
    <2>4. \A k \in 1..n : list[k].start \in Int /\ list[k].end \in Int
      <3>1. \A k \in 1..n : list[k] \in Intervals
        BY <1>0, <1>2
      <3> QED
        BY <3>1 DEF Intervals
    <2>5. \A k \in 1..n : a <= x[k].start /\ x[k].start < x[k].end /\ x[k].end <= new.end
      <3> SUFFICES ASSUME NEW k \in 1..n
                   PROVE a <= x[k].start /\ x[k].start < x[k].end /\ x[k].end <= new.end
        OBVIOUS
      <3>1. a <= list[k].start /\ list[k].start < list[k].end /\ list[k].end <= b
        BY <2>3
      <3>2. x[k].start = list[k].start /\ (x[k].end = list[k].end \/ x[k].end = new.end)
        BY <2>2
      <3>3. list[k].start \in Int /\ list[k].end \in Int /\ b < new.end
        BY <1>5, <2>4
      <3> QED
        BY <1>1, <3>1, <3>2, <3>3
    <2>6. \A k \in 1..n - 1 : x[k].end = x[k + 1].start
      <3> SUFFICES ASSUME NEW k \in 1..n - 1 PROVE x[k].end = x[k + 1].start
        OBVIOUS
      <3>1. k \in 1..n /\ k # n /\ k + 1 \in 1..n
        <4>1. PICK m \in Nat : m = n
          BY <1>2
        <4>2. k \in 1..m - 1
          BY <4>1
        <4>3. k \in 1..m /\ k # m /\ k + 1 \in 1..m
          BY ONLY <4>1, <4>2
        <4> QED
          BY <4>1, <4>3
      <3>2. x[k].end = list[k].end /\ x[k + 1].start = list[k + 1].start
        BY <2>2, <3>1
      <3> QED
        BY <2>3, <3>2
    <2>7. x[1].start = a /\ DOMAIN x = 1..n
      <3>1. 1 \in 1..n
        BY <1>2, <2>1
      <3> QED
        BY <2>2, <2>3, <3>1
    <2>8. Leads(x, a, new.end)
      BY <2>2, <2>5, <2>6, <2>7 DEF Leads
    <2> QED
      BY <1>0, <2>2, <2>8 DEF Tells
  <1>6. \/ new.end <= new.start
        \/ new.start < new.end /\ (x = Append(list, new) \/ list = <<>>)
        \/ new.start < new.end /\ list # <<>> /\ last.end = new.start
           /\ x = Longer(list, n, new.end, new.change)
    BY <1>1 DEF Joined, Longer
  <1> QED
    BY <1>3, <1>4, <1>5, <1>6

LEMMA NoDataIs ==
    ASSUME NEW a \in Int, NEW b \in Int, NEW v, v = NoData(a, b)
    PROVE  v \in Intervals /\ v.start = a /\ v.end = b /\ v.change = 0
  BY DEF NoData, Interval, Intervals, Reasons

FrontOf(x, k) == [j \in 1..k |-> x[j]]

LEMMA FrontGrows ==
    ASSUME NEW x \in Seq(Intervals), NEW k \in 1..Len(x)
    PROVE  /\ FrontOf(x, k - 1) \in Seq(Intervals) /\ x[k] \in Intervals
           /\ ChangeOf(FrontOf(x, k - 1)) \in Int
           /\ ChangeOf(FrontOf(x, k)) = ChangeOf(FrontOf(x, k - 1)) + x[k].change
  <1>1. /\ Len(x) \in Nat /\ \A j \in 1..Len(x) : x[j] \in Intervals
        /\ k - 1 \in Nat /\ k \in Nat /\ k <= Len(x)
    OBVIOUS
  <1>2. FrontOf(x, k - 1) \in Seq(Intervals)
    <2>1. FrontOf(x, k - 1) \in [1..k - 1 -> Intervals]
      BY <1>1 DEF FrontOf
    <2> QED
      BY <1>1, <2>1
  <1>3. FrontOf(x, k) = Append(FrontOf(x, k - 1), x[k])
    BY <1>1 DEF FrontOf
  <1>4. ChangeOf(Append(FrontOf(x, k - 1), x[k])) = ChangeOf(FrontOf(x, k - 1)) + x[k].change
    BY <1>1, <1>2, SumsOfAppend
  <1> QED
    BY <1>1, <1>2, <1>3, <1>4, SumsType

\* Where the list ends after k intervals.
Cursor(x, start, k) == IF k = 0 THEN start ELSE x[k].end
\* The next interval of x in the list.
Listed(x, start, k, list) ==
    Joined(Joined(list, NoData(IF k = 1 THEN start ELSE x[k - 1].end, x[k].start)), x[k])
TellsFront(x, start, k, list) ==
    Tells(list, start, Cursor(x, start, k), ChangeOf(FrontOf(x, k)))

LEMMA ListedTells ==
    ASSUME NEW x \in Seq(Intervals), NEW a \in Int, NEW b \in Int, Leads(x, a, b),
           NEW start \in Int, start <= a, NEW k \in 1..Len(x),
           NEW list, TellsFront(x, start, k - 1, list)
    PROVE  TellsFront(x, start, k, Listed(x, start, k, list))
  <1> DEFINE c == Cursor(x, start, k - 1)
             change == ChangeOf(FrontOf(x, k - 1))
  <1>1. x[k] \in Intervals /\ change \in Int /\ ChangeOf(FrontOf(x, k)) = change + x[k].change
    BY FrontGrows
  <1>2. x[k].start \in Int /\ x[k].end \in Int /\ x[k].change \in Int
    BY <1>1 DEF Intervals
  <1>3. x[k].start < x[k].end
    BY DEF Leads
  <1>4. c \in Int /\ c <= x[k].start
    <2>1. CASE k = 1
      <3>1. c = start /\ x # <<>>
        BY <2>1 DEF Cursor
      <3>2. x[1].start = a
        BY <3>1 DEF Leads
      <3> QED
        BY <2>1, <3>1, <3>2
    <2>2. CASE k # 1
      <3>1. k - 1 \in 1..Len(x) - 1 /\ k - 1 # 0 /\ (k - 1) + 1 = k
        BY <2>2
      <3>2. c = x[k - 1].end
        BY <3>1 DEF Cursor
      <3>3. x[k - 1].end = x[k].start
        <4>1. x[k - 1].end = x[(k - 1) + 1].start
          BY <3>1 DEF Leads
        <4> QED
          BY <3>1, <4>1
      <3> QED
        BY <1>2, <3>2, <3>3
    <2> QED
      BY <2>1, <2>2
  <1>5. c = IF k = 1 THEN start ELSE x[k - 1].end
    BY DEF Cursor
  <1>6. Tells(list, start, c, change)
    BY DEF TellsFront
  <1>7. PICK v : v = NoData(c, x[k].start)
    OBVIOUS
  <1>8. v \in Intervals /\ v.start = c /\ v.end = x[k].start /\ v.change = 0
    BY <1>2, <1>4, <1>7, NoDataIs
  <1>9. PICK y : y = Joined(list, v)
    OBVIOUS
  <1>10. Tells(y, start, x[k].start, change)
    <2> HIDE DEF c, change
    <2>1. Tells(y, start, v.end, change + v.change)
      BY <1>1, <1>4, <1>6, <1>8, <1>9, JoinedTells
    <2>2. change + v.change = change
      BY <1>1, <1>8
    <2> QED
      BY <1>8, <2>1, <2>2
  <1>11. PICK z : z = Joined(y, x[k])
    OBVIOUS
  <1>12. Tells(z, start, x[k].end, change + x[k].change)
    <2> HIDE DEF change
    <2>1. PICK u \in Intervals : u = x[k]
      BY <1>1
    <2>2. PICK d \in Int : d = x[k].start
      BY <1>2
    <2>3. Tells(y, start, d, change) /\ u.start = d /\ d <= u.end /\ ~(d = u.end) /\ z = Joined(y, u)
      BY <1>2, <1>3, <1>10, <1>11, <2>1, <2>2
    <2>4. Tells(z, start, u.end, change + u.change)
      BY ONLY <1>1, <2>3, JoinedTells, start \in Int
    <2> QED
      BY <2>1, <2>4
  <1>13. z = Listed(x, start, k, list)
    BY <1>5, <1>7, <1>9, <1>11 DEF Listed
  <1>14. Cursor(x, start, k) = x[k].end
    BY DEF Cursor
  <1> QED
    BY <1>1, <1>12, <1>13, <1>14 DEF TellsFront

IsList(f, x, start) ==
    f = [k \in 0..Len(x) |-> IF k = 0 THEN <<>> ELSE Listed(x, start, k, f[k - 1])]

LEMMA AnalysisIs ==
    ASSUME NEW r, NEW start, NEW end
    PROVE  LET f == CHOOSE f : IsList(f, r.intervals, start)
               n == Len(r.intervals)
           IN  Analysis(r, start, end) =
                 Joined(f[n], NoData(IF n = 0 THEN start ELSE r.intervals[n].end, end))
  BY DEF Analysis, IsList, Listed

LEMMA AnalysisTells ==
    ASSUME NEW r, NEW x \in Seq(Intervals), x = r.intervals,
           NEW a \in Int, NEW b \in Int, Leads(x, a, b),
           NEW start \in Int, start <= a, NEW end \in Int, b <= end, start <= end
    PROVE  Tells(Analysis(r, start, end), start, end, ChangeOf(x))
  <1> DEFINE N == Len(x)
             S == [k \in 0..N |-> {list \in Seq(Intervals) : TellsFront(x, start, k, list)}]
             step == [k \in 1..N |-> [list \in S[k - 1] |-> Listed(x, start, k, list)]]
  <1>0. N \in Nat /\ DOMAIN x = 1..N /\ (x = <<>> <=> N = 0)
    OBVIOUS
  <1>1. <<>> \in S[0]
    <2>1. <<>> \in Seq(Intervals) /\ 0 \in 0..N
      BY <1>0
    <2>2. FrontOf(x, 0) = <<>>
      BY DEF FrontOf
    <2>3. Leads(<<>>, start, start)
      BY DEF Leads
    <2>4. Cursor(x, start, 0) = start
      BY DEF Cursor
    <2>5. TellsFront(x, start, 0, <<>>)
      BY <2>1, <2>2, <2>3, <2>4 DEF TellsFront, Tells
    <2> QED
      BY <2>1, <2>5
  <1>2. ASSUME NEW k \in 1..N, NEW list \in S[k - 1] PROVE Listed(x, start, k, list) \in S[k]
    <2>1. k - 1 \in 0..N /\ k \in 0..N
      BY <1>0
    <2>2. TellsFront(x, start, k - 1, list)
      BY <2>1
    <2>3. TellsFront(x, start, k, Listed(x, start, k, list))
      BY <2>2, ListedTells
    <2>4. Listed(x, start, k, list) \in Seq(Intervals)
      BY <2>3 DEF TellsFront, Tells
    <2> QED
      BY <2>1, <2>3, <2>4
  <1> HIDE DEF S
  <1>3. \E f : IsList(f, x, start)
    <2>0. PICK z \in Nat : z = 0
      OBVIOUS
    <2>1. \A k \in z + 1..N : \A list \in S[k - 1] : step[k][list] \in S[k]
      BY <1>2, <2>0
    <2>2. PICK f : /\ f = [k \in 0..N |-> IF k = 0 THEN <<>> ELSE step[k][f[k - 1]]]
                   /\ \A k \in 0..N : f[k] \in S[k]
      <3> HIDE DEF step, N
      <3>1. \E f : /\ f = [k \in z..N |-> IF k = z THEN <<>> ELSE step[k][f[k - 1]]]
                   /\ \A k \in z..N : f[k] \in S[k]
        <4>1. PICK e : e = <<>>
          OBVIOUS
        <4>2. e \in S[z] /\ z <= N /\ N \in Nat
          BY <1>0, <1>1, <2>0, <4>1
        <4>3. \E f : Recursive(f, z, N, e, step) /\ \A k \in z..N : f[k] \in S[k]
          BY <2>1, <4>2, Recursion
        <4> QED
          BY <4>1, <4>3 DEF Recursive
      <3> QED
        BY <2>0, <3>1
    <2>3. \A k \in 0..N : k # 0 => step[k][f[k - 1]] = Listed(x, start, k, f[k - 1])
      <3> SUFFICES ASSUME NEW k \in 0..N, k # 0
                   PROVE step[k][f[k - 1]] = Listed(x, start, k, f[k - 1])
        OBVIOUS
      <3>1. k \in 1..N /\ k - 1 \in 0..N
        BY <1>0
      <3> QED
        BY <2>2, <3>1
    <2> HIDE DEF step
    <2>4. IsList(f, x, start)
      BY <2>2, <2>3 DEF IsList
    <2> QED
      BY <2>4
  <1> DEFINE g == CHOOSE f : IsList(f, x, start)
  <1>4. IsList(g, x, start)
    BY <1>3
  <1>5. Analysis(r, start, end) = Joined(g[N], NoData(Cursor(x, start, N), end))
    <2>1. Analysis(r, start, end) = Joined(g[N], NoData(IF N = 0 THEN start ELSE x[N].end, end))
      BY AnalysisIs
    <2> QED
      BY <2>1 DEF Cursor
  <1> HIDE DEF g
  <1>6. g[N] \in S[N]
    <2>0. PICK z \in Nat : z = 0
      OBVIOUS
    <2>1. ASSUME NEW k \in z + 1..N, g[k - 1] \in S[k - 1] PROVE g[k] \in S[k]
      <3>1. k \in 1..N /\ k \in 0..N /\ k # 0
        BY <1>0, <2>0
      <3>2. g[k] = Listed(x, start, k, g[k - 1])
        BY <1>4, <3>1 DEF IsList
      <3> QED
        BY <1>2, <2>1, <3>1, <3>2
    <2>2. g[0] \in S[0]
      BY <1>0, <1>1, <1>4 DEF IsList
    <2>3. N \in 0..N
      BY <1>0
    <2> HIDE DEF N
    <2>4. \A k \in z..N : g[k] \in S[k]
      <3>1. g[z] \in S[z] /\ z <= N /\ N \in Nat
        BY <1>0, <2>0, <2>2
      <3> QED
        BY <2>1, <3>1, Stepwise
    <2> QED
      BY <2>0, <2>3, <2>4
  <1>7. FrontOf(x, N) = x
    BY DEF FrontOf
  <1>8. Tells(g[N], start, Cursor(x, start, N), ChangeOf(x))
    BY <1>0, <1>6, <1>7 DEF S, TellsFront
  <1>9. Cursor(x, start, N) \in Int /\ Cursor(x, start, N) <= end /\ ChangeOf(x) \in Int
    <2>1. CASE N = 0
      BY <2>1, SumsType DEF Cursor
    <2>2. CASE N # 0
      <3>1. x[N].end = b /\ Cursor(x, start, N) = x[N].end
        BY <1>0, <2>2 DEF Leads, Cursor
      <3> QED
        BY <3>1, SumsType
    <2> QED
      BY <2>1, <2>2
  <1>10. PICK c \in Int : c = Cursor(x, start, N)
    BY <1>9
  <1>11. PICK v : v = NoData(c, end)
    OBVIOUS
  <1>12. v \in Intervals /\ v.start = c /\ v.end = end /\ v.change = 0
    BY <1>11, NoDataIs
  <1>13. PICK list : list = g[N]
    OBVIOUS
  <1>14. PICK change \in Int : change = ChangeOf(x)
    BY <1>9
  <1>15. PICK y : y = Joined(list, v)
    OBVIOUS
  <1>16. Tells(y, start, v.end, change + v.change)
    <2>1. Tells(list, start, c, change) /\ c <= v.end
      BY <1>8, <1>9, <1>10, <1>12, <1>13, <1>14
    <2> QED
      BY <1>12, <1>15, <2>1, JoinedTells
  <1>17. Tells(y, start, end, change)
    <2>1. change + v.change = change
      BY <1>12
    <2> QED
      BY <1>12, <1>16, <2>1
  <1>18. y = Analysis(r, start, end)
    BY <1>5, <1>10, <1>11, <1>13, <1>15
  <1> QED
    BY <1>14, <1>17, <1>18

LEMMA AnalysisOf ==
    ASSUME NEW s, Series(s), NEW clock \in Int, 0 <= clock,
           \A i \in DOMAIN s : 0 <= s[i].t /\ s[i].t <= clock,
           NEW r, r = AverageOf(s), NEW x, x = Analysis(r, 0, clock + 1)
    PROVE  Covers(x, 0, clock + 1) /\ ShowsChange(x, r)
  <1>1. Closed(r) /\ \E a, b \in Int : PassFits(r, a, b) /\ 0 <= a /\ b <= clock
    <2>0. Len(s) \in Nat /\ DOMAIN s = 1..Len(s)
      BY SeriesIs
    <2>1. CASE Len(s) >= 2
      <3>1. 1 \in 1..Len(s) /\ Len(s) \in 1..Len(s)
        BY <2>0, <2>1
      <3>2. s[1].t \in Int /\ s[Len(s)].t \in Int
        BY <3>1, SeriesIs
      <3>3. 0 <= s[1].t /\ s[Len(s)].t <= clock
        BY <2>0, <3>1
      <3> QED
        BY <2>1, <3>2, <3>3, AverageFits
    <2>2. CASE Len(s) < 2
      <3>1. PassFits(r, 0, 0) /\ Closed(r)
        BY <2>2, AverageFits
      <3>2. 0 \in Int /\ 0 <= 0
        OBVIOUS
      <3> QED
        BY <3>1, <3>2
    <2> QED
      BY <2>0, <2>1, <2>2
  <1>2. PICK a \in Int, b \in Int : PassFits(r, a, b) /\ 0 <= a /\ b <= clock
    BY <1>1
  <1>3. r \in Passes /\ SumsFit(r) /\ Leads(r.intervals \o r.window, a, b)
    BY <1>2 DEF PassFits
  <1>4. r.intervals \in Seq(Intervals) /\ r.window = <<>>
    BY <1>1, <1>3, PassIs DEF Closed
  <1>5. PICK y \in Seq(Intervals) : y = r.intervals
    BY <1>4
  <1>6. Leads(y, a, b)
    <2>1. r.intervals \o <<>> = r.intervals
      BY <1>4, ConcatNothing
    <2> QED
      BY <1>3, <1>4, <1>5, <2>1
  <1>7. PICK start \in Int, end \in Int : start = 0 /\ end = clock + 1
    OBVIOUS
  <1>8. Tells(Analysis(r, start, end), start, end, ChangeOf(y))
    <2>1. start <= a /\ b <= end /\ start <= end
      BY <1>2, <1>7
    <2> QED
      BY <1>5, <1>6, <2>1, AnalysisTells
  <1>9. x \in Seq(Intervals) /\ Leads(x, 0, clock + 1) /\ ChangeOf(x) = ChangeOf(y)
    BY <1>7, <1>8 DEF Tells
  <1>10. x # <<>>
    <2>1. x = <<>> => 0 = clock + 1
      BY <1>9 DEF Leads
    <2> QED
      BY <2>1
  <1>11. Covers(x, 0, clock + 1)
    BY <1>9, <1>10 DEF Leads, Covers
  <1>12. r.change = ChangeOf(x)
    BY <1>3, <1>5, <1>9 DEF SumsFit
  <1> QED
    BY <1>11, <1>12 DEF ShowsChange, ChangeOf, Changes

\* The analysis of a period leaves no time out and shows none twice, and what it
\* shows adds up to what was consumed (consumption_diagnostics).
THEOREM AnalysisCovers == ConsumptionSpec => []AnalysisCoversPeriod
  <1>1. SeriesFit => AnalysisCoversPeriod
    <2> SUFFICES ASSUME SeriesFit PROVE AnalysisCoversPeriod
      OBVIOUS
    <2>1. PICK s, f, r, x : /\ s = Measured(samples) /\ f = Filtered(s) /\ r = AverageOf(f)
                            /\ x = Analysis(r, 0, Now + 1)
      OBVIOUS
    <2>2. /\ Series(f) /\ DOMAIN f = DOMAIN s /\ \A i \in DOMAIN s : StandsFor(f[i], s, i)
          /\ \A i \in DOMAIN s : \E k \in DOMAIN samples : s[i] = samples[k]
      BY <2>1, MeasuredFits, FilteredFits
    <2>3. Now \in Nat /\ \A k \in DOMAIN samples : samples[k].t \in Nat /\ samples[k].t <= Now
      BY NowIs
    <2>4. \A i \in DOMAIN f : 0 <= f[i].t /\ f[i].t <= Now
      <3> SUFFICES ASSUME NEW i \in DOMAIN f PROVE 0 <= f[i].t /\ f[i].t <= Now
        OBVIOUS
      <3>1. f[i].t = s[i].t
        BY <2>2 DEF StandsFor
      <3>2. PICK k \in DOMAIN samples : s[i] = samples[k]
        BY <2>2
      <3> QED
        BY <2>3, <3>1, <3>2
    <2>5. Covers(x, 0, Now + 1) /\ ShowsChange(x, r)
      <3>1. PICK clock \in Int : clock = Now
        BY <2>3
      <3> QED
        BY <2>1, <2>2, <2>3, <2>4, <3>1, AnalysisOf
    <2> QED
      BY <2>1, <2>5 DEF AnalysisCoversPeriod, Whole, Average
  <1> QED
    BY <1>1, SeriesStays, PTL

-----------------------------------------------------------------------------
(* A day and its halves *)

LEMMA TotalIsNatural ==
    ASSUME NEW S, IsFiniteSet(S), NEW f, \A x \in S : f[x] \in Nat
    PROVE  Total(f, S) \in Nat
  <1>1. PICK g : Sums(g, f, S) /\ Total(f, S) = g[S]
    BY TotalSums
  <1> DEFINE Q == {T \in SUBSET S : g[T] \in Nat}
  <1>2. ASSUME NEW T \in SUBSET S, \A x \in T : T \ {x} \in Q PROVE T \in Q
    <2> DEFINE x == CHOOSE x \in T : TRUE
    <2>0. g[T] = SumStep(g, f, T)
      BY <1>1 DEF Sums
    <2>1. CASE T = {}
      BY <2>0, <2>1 DEF SumStep
    <2>2. CASE T # {}
      <3>1. x \in T
        BY <2>2
      <3>2. g[T] = f[x] + g[T \ {x}]
        BY <2>0, <2>2 DEF SumStep
      <3> HIDE DEF x
      <3>3. f[x] \in Nat /\ g[T \ {x}] \in Nat
        BY <1>2, <3>1
      <3> QED
        BY <3>2, <3>3
    <2> QED
      BY <2>1, <2>2
  <1>3. SUBSET S \subseteq Q
    <2> HIDE DEF Q
    <2> QED
      BY <1>2, SubsetInduction
  <1> QED
    BY <1>1, <1>3

LEMMA TotalOfTwo ==
    ASSUME NEW f, f[1] \in Int, f[2] \in Int PROVE Total(f, {1, 2}) = f[1] + f[2]
  <1>1. Total(f, {1}) = f[1]
    BY TotalOfOne
  <1>2. IsFiniteSet({1})
    BY FS_Singleton
  <1>3. PICK x : x = 2
    OBVIOUS
  <1>4. Total(f, {1} \cup {x}) = f[x] + Total(f, {1})
    <2>1. x \notin {1} /\ f[x] \in Int /\ \A y \in {1} : f[y] \in Int
      BY <1>3
    <2> QED
      BY <1>2, <2>1, TotalAdds
  <1>5. {1} \cup {x} = {1, 2}
    BY <1>3
  <1> QED
    BY <1>1, <1>3, <1>4, <1>5

\* The rates c1 / t1 and c2 / t2, weighted by R1 and R2: between the two.
LEMMA Mediant ==
    ASSUME NEW c1 \in Int, NEW c2 \in Int, NEW t1 \in Nat, NEW t2 \in Nat,
           NEW R1 \in Nat, NEW R2 \in Nat, c1 * t2 <= c2 * t1,
           NEW C, C = c1 * R1 * t2 + c2 * R2 * t1, NEW T, T = (t1 * t2) * (R1 + R2)
    PROVE  c1 * T <= C * t1 /\ C * t2 <= c2 * T
  <1>1. PICK d \in Nat : d = c2 * t1 - c1 * t2
    OBVIOUS
  <1>2. C * t1 - c1 * T = (R2 * t1) * d
    BY <1>1
  <1>3. c2 * T - C * t2 = (R1 * t2) * d
    BY <1>1
  <1>4. (R2 * t1) * d \in Nat /\ (R1 * t2) * d \in Nat
    OBVIOUS
  <1>5. c1 * T \in Int /\ C * t1 \in Int /\ c2 * T \in Int /\ C * t2 \in Int
    OBVIOUS
  <1> QED
    BY ONLY <1>2, <1>3, <1>4, <1>5

\* A result that counts no more time than there is from a to b.
Within(r, a, b) ==
    /\ r.time \in Nat /\ r.change \in Int /\ r.time <= b - a
    /\ Represented(r) \in Nat /\ r.time <= Represented(r)

LEMMA RepresentedIs ==
    ASSUME NEW r \in Passes, NEW a \in Int, NEW b \in Int, Leads(r.intervals, a, b), r.time \in Nat
    PROVE  Represented(r) \in Nat /\ r.time <= Represented(r)
  <1> DEFINE lengths == [k \in DOMAIN r.intervals |-> r.intervals[k].end - r.intervals[k].start]
  <1>1. /\ r.intervals \in Seq(Intervals) /\ Len(r.intervals) \in Nat
        /\ DOMAIN r.intervals = 1..Len(r.intervals)
        /\ \A k \in 1..Len(r.intervals) : r.intervals[k] \in Intervals
    BY PassIs
  <1>2. \A k \in DOMAIN r.intervals : r.intervals[k].end \in Int /\ r.intervals[k].start \in Int
    BY <1>1 DEF Intervals
  <1>3. \A k \in DOMAIN r.intervals : r.intervals[k].start < r.intervals[k].end
    BY DEF Leads
  <1>4. \A k \in Gaps(r) : lengths[k] \in Nat
    BY <1>2, <1>3 DEF Gaps
  <1>5. IsFiniteSet(Gaps(r))
    <2>1. Gaps(r) \in SUBSET (1..Len(r.intervals))
      BY <1>1 DEF Gaps
    <2> QED
      BY <1>1, <2>1, IntervalFinite
  <1>6. Represented(r) = r.time + Total(lengths, Gaps(r))
    BY DEF Represented
  <1> HIDE DEF lengths
  <1>7. Total(lengths, Gaps(r)) \in Nat
    BY <1>4, <1>5, TotalIsNatural
  <1> QED
    BY <1>6, <1>7

LEMMA AverageOfPart ==
    ASSUME NEW z \in Seq(Measurement), Sorted(z), NEW a \in Int, NEW b \in Int, a <= b,
           \A i \in DOMAIN z : a <= z[i].t /\ z[i].t <= b, NEW r, r = Average(z)
    PROVE  Within(r, a, b)
  <1>1. PICK s, f : s = Measured(z) /\ f = Filtered(s) /\ r = AverageOf(f)
    BY DEF Average
  <1>2. Series(s) /\ \A i \in DOMAIN s : \E k \in DOMAIN z : s[i] = z[k]
    BY <1>1, MeasuredOf
  <1>3. Series(f) /\ DOMAIN f = DOMAIN s /\ \A i \in DOMAIN s : StandsFor(f[i], s, i)
    BY <1>1, <1>2, FilteredFits
  <1>4. \A i \in DOMAIN f : a <= f[i].t /\ f[i].t <= b
    <2> SUFFICES ASSUME NEW i \in DOMAIN f PROVE a <= f[i].t /\ f[i].t <= b
      OBVIOUS
    <2>1. f[i].t = s[i].t
      BY <1>3 DEF StandsFor
    <2>2. PICK k \in DOMAIN z : s[i] = z[k]
      BY <1>2, <1>3
    <2> QED
      BY <2>1, <2>2
  <1>5. Closed(r) /\ \E c, d \in Int : PassFits(r, c, d) /\ d - c <= b - a
    <2>0. Len(f) \in Nat /\ DOMAIN f = 1..Len(f)
      BY <1>3, SeriesIs
    <2>1. CASE Len(f) >= 2
      <3>1. 1 \in 1..Len(f) /\ Len(f) \in 1..Len(f)
        BY <2>0, <2>1
      <3>2. f[1].t \in Int /\ f[Len(f)].t \in Int
        BY <1>3, <3>1, SeriesIs
      <3>3. a <= f[1].t /\ f[Len(f)].t <= b
        BY <1>4, <2>0, <3>1
      <3>4. f[Len(f)].t - f[1].t <= b - a
        BY <3>2, <3>3
      <3>5. PassFits(r, f[1].t, f[Len(f)].t) /\ Closed(r)
        BY <1>1, <1>3, <2>1, AverageFits
      <3> QED
        BY <3>2, <3>4, <3>5
    <2>2. CASE Len(f) < 2
      <3>1. PassFits(r, 0, 0) /\ Closed(r)
        BY <1>1, <1>3, <2>2, AverageFits
      <3>2. 0 \in Int /\ 0 - 0 <= b - a
        OBVIOUS
      <3> QED
        BY <3>1, <3>2
    <2> QED
      BY <2>0, <2>1, <2>2
  <1>6. PICK c \in Int, d \in Int : PassFits(r, c, d) /\ d - c <= b - a
    BY <1>5
  <1>7. r \in Passes /\ BoundsFit(r, c, d) /\ Leads(r.intervals \o r.window, c, d)
    BY <1>6 DEF PassFits
  <1>8. r.intervals \in Seq(Intervals) /\ r.window = <<>> /\ r.time \in Int /\ r.change \in Int
        /\ r.windowTime = 0
    BY <1>5, <1>7, PassIs DEF Closed
  <1>9. Leads(r.intervals, c, d)
    <2>1. r.intervals \o <<>> = r.intervals
      BY <1>8, ConcatNothing
    <2> QED
      BY <1>7, <1>8, <2>1
  <1>10. r.time \in Nat /\ r.time <= b - a
    <2>1. r.time >= 0 /\ r.time + 0 <= d - c
      BY <1>7, <1>8 DEF BoundsFit
    <2> QED
      BY <1>6, <1>8, <2>1
  <1>11. Represented(r) \in Nat /\ r.time <= Represented(r)
    BY <1>7, <1>9, <1>10, RepresentedIs
  <1> QED
    BY <1>8, <1>10, <1>11 DEF Within

LEMMA HalfIs ==
    ASSUME SeriesFit, NEW h \in Int, NEW clock \in Int, NEW x, x = Half(h, clock)
    PROVE  /\ x \in Seq(Measurement) /\ Sorted(x)
           /\ \A i \in DOMAIN x : Start(h) <= x[i].t /\ x[i].t <= Lesser(End(h), clock)
  <1>0. samples \in Seq(Measurement) /\ Sorted(samples)
    BY DEF SeriesFit
  <1> DEFINE K == {k \in DOMAIN samples : samples[k].t >= Start(h)}
             y == From(samples, Start(h))
             b == Lesser(End(h), clock)
             M == {k \in DOMAIN y : y[k].t <= b}
  <1>1. y = At(samples, K) /\ K \subseteq DOMAIN samples /\ \A k \in K : samples[k].t >= Start(h)
    BY DEF From
  <1>2. x = At(y, M) /\ M \subseteq DOMAIN y /\ \A k \in M : y[k].t <= b
    BY DEF Half, Until
  <1> HIDE DEF K, y, b, M
  <1>3. y \in Seq(Measurement) /\ Picked(y, samples, K, Len(samples))
    BY <1>0, <1>1, AtIs
  <1>4. Sorted(y) /\ \A i \in DOMAIN y : \E k \in K \cap DOMAIN samples : y[i] = samples[k]
    BY <1>0, <1>3, PickedSorted
  <1>5. x \in Seq(Measurement) /\ Picked(x, y, M, Len(y))
    BY <1>2, <1>3, AtIs
  <1>6. Sorted(x) /\ \A i \in DOMAIN x : \E k \in M \cap DOMAIN y : x[i] = y[k]
    BY <1>3, <1>4, <1>5, PickedSorted
  <1>7. \A k \in DOMAIN samples : samples[k].t \in Int
    <2>1. \A k \in DOMAIN samples : samples[k] \in Measurement
      BY <1>0
    <2> QED
      BY <2>1 DEF Measurement
  <1>8. Start(h) \in Int
    BY ConsumptionBounds DEF Start
  <1>9. \A i \in DOMAIN x : Start(h) <= x[i].t /\ x[i].t <= b
    <2> SUFFICES ASSUME NEW i \in DOMAIN x PROVE Start(h) <= x[i].t /\ x[i].t <= b
      OBVIOUS
    <2>1. PICK k \in M \cap DOMAIN y : x[i] = y[k]
      BY <1>6
    <2>2. PICK m \in K \cap DOMAIN samples : y[k] = samples[m]
      BY <1>4, <2>1
    <2>3. samples[m].t >= Start(h) /\ samples[m].t \in Int /\ y[k].t <= b
      BY <1>1, <1>2, <1>7, <2>1, <2>2
    <2> QED
      BY <1>8, <2>1, <2>2, <2>3
  <1> QED
    BY <1>5, <1>6, <1>9 DEF b

\* The halves of the day, the later first, and what follows of a day that is on.
Halves(today, clock) ==
    IF Start(2 * today + 1) <= clock THEN <<2 * today + 1, 2 * today>> ELSE <<2 * today>>

LEMMA DayIs ==
    ASSUME SeriesFit, NEW today \in Nat, Start(2 * today) <= Now, Now < Start(2 * today + 2),
           NEW r, r = DayOf(today, Now)
    PROVE  LET begin == Start(2 * today)  noon == Start(2 * today + 1) IN
           /\ begin \in Int /\ noon \in Int /\ begin <= noon
           /\ \/ DOMAIN r = {1} /\ Within(r[1], begin, Now)
              \/ noon <= Now /\ DOMAIN r = {1, 2} /\ Within(r[1], noon, Now) /\ Within(r[2], begin, noon)
  <1> DEFINE begin == Start(2 * today)
             noon == Start(2 * today + 1)
             halves == Halves(today, Now)
  <1>0. Now \in Nat
    BY NowIs
  <1>1. /\ begin \in Int /\ noon \in Int /\ begin <= noon /\ End(2 * today) = noon
        /\ End(2 * today + 1) = Start(2 * today + 2)
    <2>1. HalfDay \in Nat
      BY ONLY ConsumptionBounds
    <2>2. 2 * today + 1 + 1 = 2 * today + 2
      OBVIOUS
    <2>3. 2 * today * HalfDay <= (2 * today + 1) * HalfDay
      BY <2>1
    <2> QED
      BY <2>1, <2>2, <2>3 DEF Start, End
  <1>2. r = [k \in DOMAIN halves |-> Average(Half(halves[k], Now))]
    BY DEF DayOf, Halves
  <1>3. ASSUME NEW h \in Int, NEW a \in Int, a = Start(h), NEW b \in Int, a <= b,
               b = Lesser(End(h), Now)
        PROVE  Within(Average(Half(h, Now)), a, b)
    <2>1. PICK z : z = Half(h, Now)
      OBVIOUS
    <2>2. /\ z \in Seq(Measurement) /\ Sorted(z)
          /\ \A i \in DOMAIN z : a <= z[i].t /\ z[i].t <= b
      <3>1. PICK clock \in Int : clock = Now
        BY <1>0
      <3>2. z = Half(h, clock)
        BY <2>1, <3>1
      <3>3. /\ z \in Seq(Measurement) /\ Sorted(z)
            /\ \A i \in DOMAIN z : Start(h) <= z[i].t /\ z[i].t <= Lesser(End(h), clock)
        BY <3>2, HalfIs
      <3> QED
        BY <1>3, <3>1, <3>3
    <2> QED
      BY <1>3, <2>1, <2>2, AverageOfPart
  <1>4. CASE noon <= Now
    <2>1. halves = <<2 * today + 1, 2 * today>>
      BY <1>4 DEF Halves
    <2>2. DOMAIN r = {1, 2} /\ r[1] = Average(Half(2 * today + 1, Now)) /\ r[2] = Average(Half(2 * today, Now))
      <3>1. DOMAIN halves = {1, 2} /\ halves[1] = 2 * today + 1 /\ halves[2] = 2 * today
        BY <2>1
      <3> QED
        BY <1>2, <3>1
    <2>3. Lesser(End(2 * today + 1), Now) = Now /\ Lesser(End(2 * today), Now) = noon
      <3>1. Now < End(2 * today + 1)
        BY <1>1
      <3>2. Start(2 * today + 2) \in Int
        BY ConsumptionBounds DEF Start
      <3> QED
        BY <1>0, <1>1, <1>4, <3>1, <3>2 DEF Lesser
    <2>4. Within(Average(Half(2 * today + 1, Now)), noon, Now)
      <3>1. PICK h \in Int : h = 2 * today + 1
        OBVIOUS
      <3>2. Now \in Int
        BY <1>0
      <3> QED
        BY <1>1, <1>3, <1>4, <2>3, <3>1, <3>2
    <2>5. Within(Average(Half(2 * today, Now)), begin, noon)
      <3>1. PICK h \in Int : h = 2 * today
        OBVIOUS
      <3> QED
        BY <1>1, <1>3, <2>3, <3>1
    <2> QED
      BY <1>1, <1>4, <2>2, <2>4, <2>5
  <1>5. CASE ~(noon <= Now)
    <2>1. halves = <<2 * today>>
      BY <1>5 DEF Halves
    <2>2. DOMAIN r = {1} /\ r[1] = Average(Half(2 * today, Now))
      <3>1. DOMAIN halves = {1} /\ halves[1] = 2 * today
        BY <2>1
      <3> QED
        BY <1>2, <3>1
    <2>3. Lesser(End(2 * today), Now) = Now
      BY <1>0, <1>1, <1>5 DEF Lesser
    <2>4. Within(Average(Half(2 * today, Now)), begin, Now)
      <3>1. PICK h \in Int : h = 2 * today
        OBVIOUS
      <3>2. Now \in Int
        BY <1>0
      <3> QED
        BY <1>1, <1>3, <2>3, <3>1, <3>2
    <2> QED
      BY <1>1, <2>2, <2>4
  <1> QED
    BY <1>4, <1>5

\* A result alone: its rate is the day's.
LEMMA CombinedOfOne ==
    ASSUME NEW r, NEW i, Usable(r) = {i}, i \in {1, 2}, NEW a, NEW b, Within(r[i], a, b)
    PROVE  LET c == CombinedAverage(r) IN r[i].change * c[2] = c[1] * r[i].time /\ c[1] \in Int
  <1> DEFINE R == Represented(r[i])
             t == r[i].time
             d == r[i].change
  <1>1. t \in Nat /\ d \in Int /\ R \in Nat
    BY DEF Within
  <1>2. PICK scaled : scaled = [k \in {i} |-> r[k].change * Represented(r[k]) *
                          (IF {i} \ {k} = {} THEN 1 ELSE r[CHOOSE j \in {i} \ {k} : TRUE].time)]
    OBVIOUS
  <1>3. PICK times, shares : /\ times = [k \in {i} |-> r[k].time]
                             /\ shares = [k \in {i} |-> Represented(r[k])]
    OBVIOUS
  <1>4. CombinedAverage(r) = <<Total(scaled, {i}), Total(times, {i}) * Total(shares, {i})>>
    <2>1. {i} # {1, 2}
      OBVIOUS
    <2> QED
      BY <1>2, <1>3, <2>1 DEF CombinedAverage
  <1>5. scaled[i] = d * R /\ times[i] = t /\ shares[i] = R
    <2>1. {i} \ {i} = {} /\ i \in {i}
      OBVIOUS
    <2>2. scaled[i] = d * R * 1
      BY <1>2, <2>1
    <2> QED
      BY <1>1, <1>3, <2>1, <2>2
  <1> HIDE DEF R, t, d
  <1>6. Total(scaled, {i}) = d * R /\ Total(times, {i}) = t /\ Total(shares, {i}) = R
    <2>1. scaled[i] \in Int /\ times[i] \in Int /\ shares[i] \in Int
      BY <1>1, <1>5
    <2> QED
      BY <1>5, <2>1, TotalOfOne
  <1>7. d * (t * R) = (d * R) * t /\ d * R \in Int
    BY <1>1
  <1> QED
    BY <1>4, <1>6, <1>7 DEF d, t

LEMMA CombinedOfTwo ==
    ASSUME NEW r, Usable(r) = {1, 2}, NEW a, NEW b, NEW e, NEW f,
           Within(r[1], a, b), Within(r[2], e, f)
    PROVE  CombinedAverage(r) = << r[1].change * Represented(r[1]) * r[2].time
                                     + r[2].change * Represented(r[2]) * r[1].time,
                                   (r[1].time * r[2].time) * (Represented(r[1]) + Represented(r[2])) >>
  <1>1. /\ r[1].time \in Nat /\ r[1].change \in Int /\ Represented(r[1]) \in Nat
        /\ r[2].time \in Nat /\ r[2].change \in Int /\ Represented(r[2]) \in Nat
    BY DEF Within
  <1>2. PICK scaled : scaled = [k \in {1, 2} |-> r[k].change * Represented(r[k]) *
                   (IF {1, 2} \ {k} = {} THEN 1 ELSE r[CHOOSE j \in {1, 2} \ {k} : TRUE].time)]
    OBVIOUS
  <1>3. PICK shares : shares = [k \in {1, 2} |-> Represented(r[k])]
    OBVIOUS
  <1>4. CombinedAverage(r) = <<Total(scaled, {1, 2}), (r[1].time * r[2].time) * Total(shares, {1, 2})>>
    BY <1>2, <1>3 DEF CombinedAverage
  <1>5. /\ scaled[1] = r[1].change * Represented(r[1]) * r[2].time
        /\ scaled[2] = r[2].change * Represented(r[2]) * r[1].time
    <2>1. {1, 2} \ {1} # {} /\ {1, 2} \ {2} # {}
      OBVIOUS
    <2>2. (CHOOSE j \in {1, 2} \ {1} : TRUE) = 2 /\ (CHOOSE j \in {1, 2} \ {2} : TRUE) = 1
      <3>1. {1, 2} \ {1} = {2} /\ {1, 2} \ {2} = {1}
        OBVIOUS
      <3>2. (CHOOSE j \in {2} : TRUE) = 2 /\ (CHOOSE j \in {1} : TRUE) = 1
        OBVIOUS
      <3> QED
        BY <3>1, <3>2
    <2> QED
      BY <1>2, <2>1, <2>2
  <1>6. shares[1] = Represented(r[1]) /\ shares[2] = Represented(r[2])
    BY <1>3
  <1>7. scaled[1] \in Int /\ scaled[2] \in Int /\ shares[1] \in Int /\ shares[2] \in Int
    BY <1>1, <1>5, <1>6
  <1>8. Total(scaled, {1, 2}) = scaled[1] + scaled[2] /\ Total(shares, {1, 2}) = shares[1] + shares[2]
    BY <1>7, TotalOfTwo
  <1> QED
    BY <1>4, <1>5, <1>6, <1>8

\* The mean of two lies between them, whichever is the greater.
LEMMA BetweenTwo ==
    ASSUME NEW r, Usable(r) = {1, 2}, NEW a, NEW b, NEW e, NEW f,
           Within(r[1], a, b), Within(r[2], e, f), NEW c, c = CombinedAverage(r)
    PROVE  /\ \E i \in {1, 2} : r[i].change * c[2] <= c[1] * r[i].time
           /\ \E i \in {1, 2} : c[1] * r[i].time <= r[i].change * c[2]
  <1>1. PICK t1 \in Nat, t2 \in Nat, d1 \in Int, d2 \in Int, R1 \in Nat, R2 \in Nat :
          /\ r[1].time = t1 /\ r[2].time = t2 /\ r[1].change = d1 /\ r[2].change = d2
          /\ Represented(r[1]) = R1 /\ Represented(r[2]) = R2
    BY DEF Within
  <1>2. PICK C, T : C = d1 * R1 * t2 + d2 * R2 * t1 /\ T = (t1 * t2) * (R1 + R2)
    OBVIOUS
  <1>3. c[1] = C /\ c[2] = T
    <2>1. CombinedAverage(r) = << r[1].change * Represented(r[1]) * r[2].time
                                     + r[2].change * Represented(r[2]) * r[1].time,
                                   (r[1].time * r[2].time) * (Represented(r[1]) + Represented(r[2])) >>
      BY CombinedOfTwo
    <2>2. c = <<C, T>>
      BY <1>1, <1>2, <2>1
    <2> QED
      BY ONLY <2>2
  <1>4. C \in Int /\ T \in Int /\ d1 * t2 \in Int /\ d2 * t1 \in Int
    BY <1>2
  <1>5. CASE d1 * t2 <= d2 * t1
    <2>1. d1 * T <= C * t1 /\ C * t2 <= d2 * T
      BY <1>2, <1>5, Mediant
    <2> QED
      BY <1>1, <1>3, <2>1
  <1>6. CASE d2 * t1 <= d1 * t2
    <2>1. C = d2 * R2 * t1 + d1 * R1 * t2 /\ T = (t2 * t1) * (R2 + R1)
      <3>1. d1 * R1 * t2 \in Int /\ d2 * R2 * t1 \in Int
        OBVIOUS
      <3>2. d1 * R1 * t2 + d2 * R2 * t1 = d2 * R2 * t1 + d1 * R1 * t2
        BY <3>1
      <3>3. (t1 * t2) * (R1 + R2) = (t2 * t1) * (R2 + R1)
        OBVIOUS
      <3> QED
        BY <1>2, <3>2, <3>3
    <2>2. d2 * T <= C * t2 /\ C * t1 <= d1 * T
      BY <1>6, <2>1, Mediant
    <2> QED
      BY <1>1, <1>3, <2>2
  <1> QED
    BY <1>4, <1>5, <1>6

LEMMA OneBetween ==
    ASSUME NEW r, NEW i, Usable(r) = {i}, i \in {1, 2}, NEW a, NEW b, Within(r[i], a, b),
           NEW c, c = CombinedAverage(r)
    PROVE  r[i].change * c[2] <= c[1] * r[i].time /\ c[1] * r[i].time <= r[i].change * c[2]
  <1>1. r[i].change * c[2] = c[1] * r[i].time /\ c[1] \in Int /\ r[i].time \in Int
    BY CombinedOfOne DEF Within
  <1> QED
    BY <1>1

LEMMA DayBetween ==
    ASSUME NEW r, NEW begin \in Int, NEW noon \in Int, begin <= noon, NEW clock \in Int,
           \/ DOMAIN r = {1} /\ Within(r[1], begin, clock)
           \/ noon <= clock /\ DOMAIN r = {1, 2} /\ Within(r[1], noon, clock) /\ Within(r[2], begin, noon),
           NEW c, c = CombinedAverage(r), NEW time, time = clock - begin
    PROVE  BetweenHalves(r, c, time)
  <1>1. Usable(r) # {} => /\ \E i \in Usable(r) : r[i].change * c[2] <= c[1] * r[i].time
                          /\ \E i \in Usable(r) : c[1] * r[i].time <= r[i].change * c[2]
    <2>0. Usable(r) \subseteq DOMAIN r
      BY DEF Usable
    <2>1. CASE \E i \in {1, 2} : Usable(r) = {i}
      <3>1. PICK i \in {1, 2} : Usable(r) = {i}
        BY <2>1
      <3>2. \E x, y : Within(r[i], x, y)
        BY <2>0, <3>1
      <3> QED
        BY <3>1, <3>2, OneBetween
    <2>2. CASE Usable(r) = {1, 2}
      <3>1. Within(r[1], noon, clock) /\ Within(r[2], begin, noon)
        BY <2>0, <2>2
      <3> QED
        BY <2>2, <3>1, BetweenTwo
    <2>3. Usable(r) \in SUBSET {1, 2}
      BY <2>0
    <2> QED
      BY <2>1, <2>2, <2>3
  <1>2. Total([i \in DOMAIN r |-> r[i].time], DOMAIN r) <= time
    <2>1. PICK times : times = [i \in DOMAIN r |-> r[i].time]
      OBVIOUS
    <2>2. CASE DOMAIN r = {1} /\ Within(r[1], begin, clock)
      <3>1. times[1] = r[1].time /\ r[1].time \in Int /\ r[1].time <= time
        BY <2>1, <2>2 DEF Within
      <3>2. Total(times, {1}) = times[1]
        BY <3>1, TotalOfOne
      <3> QED
        BY <2>1, <2>2, <3>1, <3>2
    <2>3. CASE /\ DOMAIN r = {1, 2}
               /\ Within(r[1], noon, clock) /\ Within(r[2], begin, noon)
      <3>1. times[1] = r[1].time /\ times[2] = r[2].time
        BY <2>1, <2>3
      <3>2. /\ r[1].time \in Int /\ r[1].time <= clock - noon
            /\ r[2].time \in Int /\ r[2].time <= noon - begin
        BY <2>3 DEF Within
      <3>3. Total(times, {1, 2}) = times[1] + times[2]
        BY <3>1, <3>2, TotalOfTwo
      <3> QED
        BY <2>1, <2>3, <3>1, <3>2, <3>3
    <2> QED
      BY <2>2, <2>3
  <1> QED
    BY <1>1, <1>2 DEF BetweenHalves

\* A day's rate lies between those of its halves, and their common sample at
\* 20:00 makes no time count twice (combine_average_results, water_consumption_periods).
THEOREM DayBetweenHalves == ConsumptionSpec => []DayIsBetweenHalves
  <1>1. SeriesFit => DayIsBetweenHalves
    <2> SUFFICES ASSUME SeriesFit PROVE DayIsBetweenHalves
      OBVIOUS
    <2> DEFINE today == Now \div (2 * HalfDay)
               r == DayOf(today, Now)
               time == Now - Lesser(Start(2 * today), Now)
    <2>1. Now \in Nat /\ HalfDay \in Nat /\ HalfDay > 0
      <3>1. HalfDay \in Nat \ {0}
        BY ONLY ConsumptionBounds
      <3> QED
        BY <3>1, NowIs
    <2>2. /\ today \in Nat /\ today * (2 * HalfDay) <= Now
          /\ Now < (today + 1) * (2 * HalfDay)
      BY <2>1, QuotientIs
    <2> HIDE DEF today
    <2>3. Start(2 * today) <= Now /\ Now < Start(2 * today + 2)
      <3>1. (2 * today) * HalfDay = today * (2 * HalfDay)
        BY <2>1, <2>2
      <3>2. (2 * today + 2) * HalfDay = (today + 1) * (2 * HalfDay)
        BY <2>1, <2>2
      <3> QED
        BY <2>2, <3>1, <3>2 DEF Start
    <2>4. PICK begin, noon : begin = Start(2 * today) /\ noon = Start(2 * today + 1)
      OBVIOUS
    <2>5. /\ begin \in Int /\ noon \in Int /\ begin <= noon
          /\ \/ DOMAIN r = {1} /\ Within(r[1], begin, Now)
             \/ noon <= Now /\ DOMAIN r = {1, 2} /\ Within(r[1], noon, Now) /\ Within(r[2], begin, noon)
      BY <2>2, <2>3, <2>4, DayIs
    <2>6. time = Now - begin
      BY <2>1, <2>3, <2>4, <2>5 DEF Lesser
    <2>7. PICK clock \in Int : clock = Now
      BY <2>1
    <2>8. BetweenHalves(r, CombinedAverage(r), time)
      <3> HIDE DEF r, time
      <3>1. PICK c : c = CombinedAverage(r)
        OBVIOUS
      <3>2. time = clock - begin
        BY <2>6, <2>7
      <3> QED
        BY <2>5, <2>7, <3>1, <3>2, DayBetween
    <2> QED
      BY <2>8 DEF DayIsBetweenHalves, today
  <1> QED
    BY <1>1, SeriesStays, PTL
=============================================================================
