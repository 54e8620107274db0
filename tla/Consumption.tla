------------------------------ MODULE Consumption ------------------------------
(***************************************************************************)
(* How much water a plant consumes, computed from its weights: pure        *)
(* functions of the samples Prometheus has, checked over every short       *)
(* series.  A sample is [t, w].  Times are in sampling intervals; weights  *)
(* are in a unit so fine that the divisions of the interpolation are       *)
(* exact.  A rate is a pair <<change, time>> and is compared by            *)
(* multiplication.                                                         *)
(***************************************************************************)
EXTENDS Integers, Sequences, FiniteSets

CONSTANTS
    Grams, Steps,       \* bounds: the weights measured, the times between them
    MaxSamples,         \* bound: samples in a series
    RiseReset,          \* WEIGHT_INCREASE_RESET_G
    TransientMax,       \* TRANSIENT_WEIGHT_MAX_G
    Tolerance,          \* TRANSIENT_WEIGHT_RETURN_TOLERANCE_G
    MaxRate,            \* MAX_VALID_CONSUMPTION_RATE_G_PER_HOUR, per unit of time
    Adjacent,           \* MAX_FILTER_SAMPLE_INTERVAL_SEC
    TransientWindow,    \* TRANSIENT_WEIGHT_WINDOW_SEC
    RateWindow,         \* CONSUMPTION_RATE_WINDOW_SEC; an hour
    MaxGap,             \* MAX_VALID_CONSUMPTION_GAP_SEC
    Radius, Growth,     \* weight_at: the first radius, its factor
    HalfDay,            \* units of time in half a day
    MedianDays,         \* consumption_median_days
    ListedDays          \* WATER_CONSUMPTION_HISTORY_DAYS

ASSUME ConsumptionAssumption ==
    /\ {Grams, Steps} \subseteq SUBSET Nat /\ 0 \notin Steps
    /\ {MaxSamples, RiseReset, TransientMax, Tolerance, MaxRate, Adjacent, TransientWindow,
        RateWindow, MaxGap, Radius, HalfDay, MedianDays, ListedDays} \subseteq Nat \ {0}
    /\ Growth \in Nat /\ Growth > 1 /\ RiseReset <= TransientMax

VARIABLE samples        \* the series of one device, in the order of time

consumptionVars == samples

Measurement == [t : Nat, w : Grams]
ConsumptionInit == samples = <<>>

\* Prometheus scrapes a weight.
Measure ==
    /\ Len(samples) < MaxSamples
    /\ \E step \in Steps, w \in Grams :
          samples' = Append(samples, [t |-> step + (IF samples = <<>> THEN 0
                                                    ELSE samples[Len(samples)].t), w |-> w])

ConsumptionSpec == ConsumptionInit /\ [][Measure]_consumptionVars

-----------------------------------------------------------------------------

Least(S) == CHOOSE m \in S : \A n \in S : m <= n
Greater(m, n) == IF m > n THEN m ELSE n
Lesser(m, n) == IF m < n THEN m ELSE n
Distance(m, n) == Greater(m - n, n - m)

\* The samples at the places K.
At(s, K) ==
    LET upto[n \in 0..Len(s)] == IF n = 0 THEN <<>>
                                 ELSE IF n \in K THEN Append(upto[n - 1], s[n]) ELSE upto[n - 1]
    IN  upto[Len(s)]
Measured(s) == At(s, {k \in DOMAIN s : s[k].w > 0})
From(s, start) == At(s, {k \in DOMAIN s : s[k].t >= start})
Until(s, end) == At(s, {k \in DOMAIN s : s[k].t <= end})

\* Is the weight w back at the weight before, after the time dt?
IsBack(w, before, dt) ==
    -(MaxRate * dt) - Tolerance <= w - before /\ w - before <= Tolerance

-----------------------------------------------------------------------------
(* _filter_transient_weights *)

IsExcursion(s, i) ==
    LET rise == Distance(s[i].w, s[i - 1].w) IN
    /\ s[i].t - s[i - 1].t <= Adjacent
    /\ RiseReset < rise /\ rise <= TransientMax

\* The sample that ends the excursion of sample i, or 0.
Return(s, i) ==
    LET before == s[i - 1]
        Reached(k) == s[k].t - s[i].t <= TransientWindow /\ s[k].t - s[k - 1].t <= Adjacent
        Back(k) == IsBack(s[k].w, before.w, s[k].t - before.t)
        Small(k) == Distance(s[k].w, before.w) <= TransientMax + MaxRate * (s[k].t - before.t)
        ends == {k \in i + 1..Len(s) : Reached(k) /\ Back(k)
                                       /\ \A j \in i + 1..k - 1 : Reached(j) /\ Small(j)}
    IN  IF ends = {} THEN 0 ELSE Least(ends)

\* The line from the sample before i to the sample that ends the excursion.
Interpolated(s, i, end) ==
    [k \in 1..end - i |->
       LET a == s[i - 1]  b == s[end]  t == s[i + k - 1].t
       IN  [t |-> t, w |-> a.w + ((t - a.t) * (b.w - a.w)) \div (b.t - a.t)]]

Filtered(s) ==
    LET from[i \in 1..Len(s) + 1] ==
            IF i > Len(s) THEN <<>>
            ELSE LET end == IF i > 1 /\ IsExcursion(s, i) THEN Return(s, i) ELSE 0
                 IN  IF end = 0 THEN <<s[i]>> \o from[i + 1]
                     ELSE Interpolated(s, i, end) \o <<s[end]>> \o from[end + 1]
    IN  from[1]

-----------------------------------------------------------------------------
(* calculate_average_consumption *)

\* _baseline_rise_kind: by the first sample after i that tells.
RiseKind(s, i, base) ==
    LET Broken(k) == \/ s[k].t - s[i].t > TransientWindow
                     \/ s[k].t - s[k - 1].t > Adjacent
                     \/ s[k].w - base > TransientMax
        Back(k) == IsBack(s[k].w, base, s[k].t - s[i].t)
        telling == {k \in i + 1..Len(s) : Broken(k) \/ Back(k) \/ s[k].t - s[i].t >= TransientWindow}
    IN  IF s[i].w - base > TransientMax \/ s[i].t - s[i - 1].t > Adjacent THEN "persistent"
        ELSE IF telling = {} THEN "pending"
        ELSE IF ~Broken(Least(telling)) /\ Back(Least(telling)) THEN "transient" ELSE "persistent"

Interval(start, end, included, reason, change) ==
    [start |-> start, end |-> end, included |-> included, reason |-> reason, change |-> change]

\* The pass: what is counted, the window that is open, the base, whether it broke off.
Nothing(base) == [time |-> 0, change |-> 0, intervals |-> <<>>, windowTime |-> 0,
                  windowChange |-> 0, window |-> <<>>, base |-> base, over |-> FALSE]

\* Mutant: the window's time is counted before its rate is looked at.
FinishCountingTime(r) ==
    LET included == -r.windowChange <= MaxRate * r.windowTime
    IN  [r EXCEPT !.time = @ + r.windowTime, !.change = IF included THEN @ + r.windowChange ELSE @,
                  !.intervals = @ \o [k \in DOMAIN r.window |->
                     IF included THEN r.window[k]
                     ELSE [r.window[k] EXCEPT !.included = FALSE, !.reason = "rate_limit", !.change = 0]],
                  !.windowTime = 0, !.windowChange = 0, !.window = <<>>]

IncludeWindow(r) ==
    [r EXCEPT !.time = @ + r.windowTime, !.change = @ + r.windowChange, !.intervals = @ \o r.window,
              !.windowTime = 0, !.windowChange = 0, !.window = <<>>]

\* finish_window
FinishWindow(r) ==
    IF -r.windowChange <= MaxRate * r.windowTime THEN IncludeWindow(r)
    ELSE [r EXCEPT !.intervals = @ \o [k \in DOMAIN r.window |->
                      [r.window[k] EXCEPT !.included = FALSE, !.reason = "rate_limit", !.change = 0]],
                   !.windowTime = 0, !.windowChange = 0, !.window = <<>>]

\* What one sample says: the reason, the change that counts, the new base.
\* Mutant: every rise moves the base.
VerdictOfNoise(s, i, base) ==
    LET difference == s[i].w - base  dt == s[i].t - s[i - 1].t
    IN  IF difference < -(MaxRate * Greater(RateWindow, dt))
        THEN [reason |-> "abrupt_drop", change |-> 0, base |-> s[i].w]
        ELSE [reason |-> "consumption", change |-> Lesser(difference, 0), base |-> s[i].w]
Verdict(s, i, base) ==
    LET difference == s[i].w - base  dt == s[i].t - s[i - 1].t
    IN  IF difference < -(MaxRate * Greater(RateWindow, dt))
        THEN [reason |-> "abrupt_drop", change |-> 0, base |-> s[i].w]
        ELSE IF difference <= 0
        THEN [reason |-> "consumption", change |-> difference, base |-> s[i].w]
        ELSE IF difference <= RiseReset
        THEN [reason |-> "consumption", change |-> 0, base |-> base]
        ELSE IF RiseKind(s, i, base) = "transient"
        THEN [reason |-> "transient_weight_increase", change |-> 0, base |-> base]
        ELSE [reason |-> "weight_increase", change |-> 0, base |-> s[i].w]

\* The interval between the times counts in the window, which may be full.
InWindow(r, start, end, v) ==
    [r EXCEPT !.windowTime = @ + (end - start), !.windowChange = @ + v.change, !.base = v.base,
              !.window = Append(@, Interval(start, end, TRUE, v.reason, v.change))]
FinishIfFull(r) == IF r.windowTime >= RateWindow THEN FinishWindow(r) ELSE r
Counted(s, i, r) ==
    FinishIfFull(InWindow(r, s[i - 1].t, s[i].t, Verdict(s, i, r.base)))

Skipped(r, start, end, reason) ==
    [FinishWindow(r) EXCEPT !.intervals = Append(@, Interval(start, end, FALSE, reason, 0))]

\* One sample after the first, in the pass so far.
Looked(s, i, r) ==
    IF r.over THEN r
    ELSE IF s[i].t - s[i - 1].t > MaxGap
    THEN [Skipped(r, s[i - 1].t, s[i].t, "gap") EXCEPT !.base = s[i].w]
    ELSE IF s[i].w - r.base > RiseReset /\ RiseKind(s, i, r.base) = "pending"
    THEN [Skipped(r, s[i - 1].t, s[Len(s)].t, "pending_weight_increase") EXCEPT !.over = TRUE]
    ELSE Counted(s, i, r)

AverageOf(s) ==
    LET pass[i \in DOMAIN s] == IF i = 1 THEN Nothing(s[1].w) ELSE Looked(s, i, pass[i - 1])
    IN  IF Len(s) < 2 THEN Nothing(0) ELSE FinishWindow(pass[Len(s)])

Average(series) == AverageOf(Filtered(Measured(series)))

-----------------------------------------------------------------------------
(* combine_average_results, of day and night *)

Usable(results) == {i \in DOMAIN results : results[i].time > 0}
Total(f, S) == LET sum[T \in SUBSET S] ==
                       IF T = {} THEN 0 ELSE LET x == CHOOSE x \in T : TRUE IN f[x] + sum[T \ {x}]
               IN  sum[S]
Gaps(r) == {k \in DOMAIN r.intervals : ~r.intervals[k].included /\ r.intervals[k].reason = "gap"}
Represented(r) ==
    r.time + Total([k \in DOMAIN r.intervals |-> r.intervals[k].end - r.intervals[k].start], Gaps(r))

\* The rates, weighted by the time they represent: <<change, time>>.
\* Mutant: divided by the time that was counted.
CombinedByCounted(results) ==
    LET use == Usable(results)
        Scale(i) == IF use \ {i} = {} THEN 1 ELSE results[CHOOSE j \in use \ {i} : TRUE].time
        scaled == [i \in use |-> results[i].change * Represented(results[i]) * Scale(i)]
        all == IF use = {1, 2} THEN results[1].time * results[2].time
               ELSE Total([i \in use |-> results[i].time], use)
    IN  <<Total(scaled, use), all * Total([i \in use |-> results[i].time], use)>>
CombinedAverage(results) ==
    LET use == Usable(results)
        Scale(i) == IF use \ {i} = {} THEN 1 ELSE results[CHOOSE j \in use \ {i} : TRUE].time
        scaled == [i \in use |-> results[i].change * Represented(results[i]) * Scale(i)]
        all == IF use = {1, 2} THEN results[1].time * results[2].time
               ELSE Total([i \in use |-> results[i].time], use)
    IN  <<Total(scaled, use), all * Total([i \in use |-> Represented(results[i])], use)>>

-----------------------------------------------------------------------------
(* consumption_diagnostics *)

\* Intervals that are alike become one.
Joined(list, new) ==
    LET last == list[Len(list)] IN
    IF new.end <= new.start THEN list
    ELSE IF list = <<>> THEN <<new>>
    ELSE IF last.end = new.start /\ last.included = new.included /\ last.reason = new.reason
    THEN [list EXCEPT ![Len(list)].end = new.end, ![Len(list)].change = @ + new.change]
    ELSE Append(list, new)

NoData(start, end) == Interval(start, end, FALSE, "no_data", 0)

\* Mutant: what comes after the last measurement is left out.
AnalysisToLast(r, start, end) ==
    LET to[k \in 0..Len(r.intervals)] ==
            IF k = 0 THEN <<>>
            ELSE LET cursor == IF k = 1 THEN start ELSE r.intervals[k - 1].end
                 IN  Joined(Joined(to[k - 1], NoData(cursor, r.intervals[k].start)), r.intervals[k])
    IN  to[Len(r.intervals)]
Analysis(r, start, end) ==
    LET to[k \in 0..Len(r.intervals)] ==
            IF k = 0 THEN <<>>
            ELSE LET cursor == IF k = 1 THEN start ELSE r.intervals[k - 1].end
                 IN  Joined(Joined(to[k - 1], NoData(cursor, r.intervals[k].start)), r.intervals[k])
        n == Len(r.intervals)
    IN  Joined(to[n], NoData(IF n = 0 THEN start ELSE r.intervals[n].end, end))

-----------------------------------------------------------------------------
(* PrometheusClient.weight_at *)

Nearer(a, b, at) ==
    Distance(a.t, at) < Distance(b.t, at) \/ (Distance(a.t, at) = Distance(b.t, at) /\ a.t <= b.t)

\* Within a radius that grows until a sample is found; none at last is <<>>.
\* Mutant: the radius only grows backwards.
WeightAtBefore(at, now) ==
    LET try[radius \in Nat \ {0}] ==
            LET In(x) == x.t >= at - radius /\ x.t <= Lesser(now, at + Radius)
                found == {x \in {samples[k] : k \in DOMAIN samples} : In(x)}
            IN  IF found # {}
                THEN <<CHOOSE a \in found : \A x \in found : Nearer(a, x, at)>>
                ELSE IF at <= radius /\ now <= at + radius THEN <<>>
                ELSE try[Growth * radius]
    IN  try[Radius]
WeightAt(at, now) ==
    LET try[radius \in Nat \ {0}] ==
            LET In(x) == x.t >= at - radius /\ x.t <= Lesser(now, at + radius)
                found == {x \in {samples[k] : k \in DOMAIN samples} : In(x)}
            IN  IF found # {}
                THEN <<CHOOSE a \in found : \A x \in found : Nearer(a, x, at)>>
                ELSE IF at <= radius /\ now <= at + radius THEN <<>>
                ELSE try[Growth * radius]
    IN  try[Radius]

-----------------------------------------------------------------------------
(* project_water_consumption: a day begins at 8:00 with its half "day".  The *)
(* half h is the time from h * HalfDay to (h + 1) * HalfDay.                 *)

\* Mutant: as many days as the median takes.
DaysReadMedian == Greater(ListedDays, MedianDays)
DaysRead == Greater(ListedDays, MedianDays + 2)

\* water_consumption_periods: the halves of the days read, today's the last.
Periods(now) ==
    LET today == now \div (2 * HalfDay) IN 2 * (today - DaysRead + 1)..2 * today + 1

Start(h) == h * HalfDay
End(h) == (h + 1) * HalfDay
Completed(now) == {h \in Periods(now) : End(h) <= now}

\* The half that is compared, and the halves of its name it is compared with.
LatestCompleted(now) == CHOOSE h \in Completed(now) : \A k \in Completed(now) : k <= h
Previous(now) ==
    LET latest == LatestCompleted(now)
    IN  {h \in Completed(now) : /\ h % 2 = latest % 2 /\ h < latest
                                /\ End(latest) - 2 * HalfDay * MedianDays <= End(h)}

\* The samples of a half are those of one snapshot, both ends included.
Half(h, now) == Until(From(samples, Start(h)), Lesser(End(h), now))

DayOf(today, now) ==
    LET halves == IF Start(2 * today + 1) <= now THEN <<2 * today + 1, 2 * today>> ELSE <<2 * today>>
    IN  [k \in DOMAIN halves |-> Average(Half(halves[k], now))]

-----------------------------------------------------------------------------
(* Properties, of every series. *)

\* Types; and the filter neither adds, drops nor moves a sample, and brings in
\* no weight beyond those measured.
ConsumptionTypeOK ==
    /\ samples \in Seq(Measurement) /\ Len(samples) <= MaxSamples
    /\ LET s == Measured(samples)  f == Filtered(s) IN
       /\ DOMAIN f = DOMAIN s
       /\ \A i \in DOMAIN s : /\ f[i].t = s[i].t
                              /\ \E j, k \in DOMAIN s : s[j].w <= f[i].w /\ f[i].w <= s[k].w

Whole == Average(samples)
Included(r) == {k \in DOMAIN r.intervals : r.intervals[k].included}
Now == IF samples = <<>> THEN 0 ELSE samples[Len(samples)].t

AddsUp(r) ==
    /\ r.time = Total([k \in DOMAIN r.intervals |-> r.intervals[k].end - r.intervals[k].start], Included(r))
    /\ r.change = Total([k \in DOMAIN r.intervals |-> r.intervals[k].change], DOMAIN r.intervals)
    /\ \A k \in 1..Len(r.intervals) - 1 : r.intervals[k].end = r.intervals[k + 1].start
    /\ r.change <= 0 /\ -r.change <= MaxRate * r.time

\* The rate agrees with its audit trail: the time and the change counted are
\* those of the intervals shown as included, and these follow one another; and
\* no more is consumed than the greatest rate allows in that time, however
\* falls, gaps and rises alternate (consumption_average.py:144-145,180).
TrailAddsUp == AddsUp(Whole)

\* Of the samples s, filtered, with the result r.
CountsNoiseOnce(s, r) ==
    (/\ s # <<>>
     /\ \A i, k \in DOMAIN s : i < k => s[k].w - s[i].w <= RiseReset
     /\ \A k \in 2..Len(s) : s[k].t - s[k - 1].t <= MaxGap)
    => -r.change <= s[1].w - Least({s[k].w : k \in DOMAIN s})

\* consumption_average.py:191-192: small noise is "not counted twice".  While no
\* weight is more than the reset above one before it and there is no gap, no
\* more is consumed than from the first weight to the least.
NoiseIsCountedOnce == CountsNoiseOnce(Filtered(Measured(samples)), Whole)

Covers(a, start, end) ==
    /\ a # <<>> /\ a[1].start = start /\ a[Len(a)].end = end
    /\ \A k \in 1..Len(a) - 1 : a[k].end = a[k + 1].start
ShowsChange(a, r) == r.change = Total([k \in DOMAIN a |-> a[k].change], DOMAIN a)

\* The analysis of a period leaves no time out and shows none twice, and
\* shows what was consumed.
AnalysisCoversPeriod ==
    \E r \in {Whole} : \E a \in {Analysis(r, 0, Now + 1)} : Covers(a, 0, Now + 1) /\ ShowsChange(a, r)

\* The day's rate c of the results r, for so much time.
BetweenHalves(r, c, time) ==
    /\ Usable(r) # {} =>
         /\ \E i \in Usable(r) : r[i].change * c[2] <= c[1] * r[i].time
         /\ \E i \in Usable(r) : c[1] * r[i].time <= r[i].change * c[2]
    /\ Total([i \in DOMAIN r |-> r[i].time], DOMAIN r) <= time

\* A day's rate lies between those of its halves, and their common sample at
\* 20:00 makes no time count twice.
DayIsBetweenHalves ==
    LET today == Now \div (2 * HalfDay) IN
    \E r \in {DayOf(today, Now)} :
       BetweenHalves(r, CombinedAverage(r), Now - Lesser(Start(2 * today), Now))

\* The weight at a time is that of the nearest sample of all, whatever radius
\* finds it first.
NearestIsFound ==
    \A at \in 0..Now :
       LET found == WeightAt(at, Now) IN
       IF samples = <<>> THEN found = <<>>
       ELSE found # <<>> /\ \A k \in DOMAIN samples : Nearer(found[1], samples[k], at)

\* The days read suffice for the median: each of the days it takes is there
\* with the half that is compared, at whatever time of day it is asked.
MedianIsRead == Cardinality(Previous(Now)) = MedianDays
=============================================================================
