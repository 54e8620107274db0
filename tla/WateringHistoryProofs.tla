------------------------- MODULE WateringHistoryProofs ------------------------
(***************************************************************************)
(* The waterings of a plant for any series of weights, any window and      *)
(* thresholds, and any number of scans at once.                            *)
(* A lemma on sets (SetInduction) stands for induction over numbers: by it *)
(* what detect_watering_events returns is a rise (DetectedIs). The         *)
(* invariant of the interleaved scans (HistoryInv) says that every row is  *)
(* of a rise and so is all that a scan has at hand (RowsFit, ScanFits),    *)
(* that a scan remembers no deleted peak without its row (DeletedFits),    *)
(* and that what the worker has found is at hand or shown by a row         *)
(* (CollectedFits).                                                        *)
(***************************************************************************)
EXTENDS WateringHistory, FiniteSetTheorems, TLAPS

-----------------------------------------------------------------------------
(* Induction on a set of natural numbers *)

LEMMA SetInduction ==
    ASSUME NEW S, 0 \in S, \A n \in Nat : n \in S => n + 1 \in S
    PROVE  Nat \subseteq S
  <1> SUFFICES ASSUME NEW b \in Nat, b \notin S PROVE FALSE
    OBVIOUS
  <1> DEFINE T == {x \in Nat : x <= b /\ x \notin S}
             f == [x \in T |-> x - 1]
  <1>1. IsFiniteSet(T)
    <2>1. T \in SUBSET Nat /\ \A s \in T : s <= b
      OBVIOUS
    <2> QED
      BY <2>1, FS_BoundedSetOfNaturals
  <1>2. \A x \in T : x - 1 \in T \ {b}
    OBVIOUS
  <1>3. f \in Injection(T, T \ {b})
    BY <1>2 DEF Injection, IsInjective
  <1>4. IsFiniteSet(T \ {b}) /\ Cardinality(T \ {b}) = Cardinality(T) - 1
    <2>1. b \in T
      OBVIOUS
    <2> HIDE DEF T
    <2> QED
      BY <1>1, <2>1, FS_RemoveElement
  <1>5. Cardinality(T) <= Cardinality(T \ {b})
    BY <1>3, <1>4, FS_Injection
  <1>6. Cardinality(T) \in Nat
    BY <1>1, FS_CardinalityType
  <1> QED
    BY <1>4, <1>5, <1>6

LEMMA LeastExists ==
    ASSUME NEW S \in SUBSET Nat, S # {}
    PROVE  \E m \in S : \A n \in S : m <= n
  <1> SUFFICES ASSUME ~\E m \in S : \A n \in S : m <= n PROVE FALSE
    OBVIOUS
  <1> DEFINE T == {n \in Nat : \A m \in S : n <= m}
  <1>1. 0 \in T
    OBVIOUS
  <1>2. ASSUME NEW n \in Nat, n \in T PROVE n + 1 \in T
    <2>1. n \notin S
      BY <1>2
    <2>2. ASSUME NEW m \in S PROVE n + 1 <= m
      BY <1>2, <2>1
    <2> QED
      BY <2>2
  <1>3. Nat \subseteq T
    <2> HIDE DEF T
    <2> QED
      BY <1>1, <1>2, SetInduction
  <1>4. PICK m \in S : TRUE
    OBVIOUS
  <1>5. m + 1 \in T
    BY <1>3
  <1> QED
    BY <1>5

LEMMA GreatestExists ==
    ASSUME NEW S \in SUBSET Nat, S # {}, NEW b \in Nat, \A n \in S : n <= b
    PROVE  \E m \in S : \A n \in S : n <= m
  <1> DEFINE T == {b - n : n \in S}
  <1>1. T \in SUBSET Nat /\ T # {}
    <2>1. \A n \in S : n \in Nat /\ b - n \in Nat
      OBVIOUS
    <2> QED
      BY <2>1
  <1>2. PICK k \in T : \A l \in T : k <= l
    <2> HIDE DEF T
    <2> QED
      BY <1>1, LeastExists
  <1>3. PICK m \in S : k = b - m
    OBVIOUS
  <1>4. ASSUME NEW n \in S PROVE n <= m
    <2>1. b - m <= b - n
      BY <1>2, <1>3
    <2>2. m \in Nat /\ n \in Nat
      OBVIOUS
    <2> QED
      BY <2>1, <2>2
  <1> QED
    BY <1>4

-----------------------------------------------------------------------------
(* detect_watering_events *)

LEMMA HistoryBounds ==
    /\ MaxTime \in Nat \ {0} /\ Window \in Nat \ {0} /\ Overlap \in Nat /\ Threshold \in Nat \ {0}
    /\ Weights \subseteq Nat /\ Time \subseteq Nat /\ 1 \in Time /\ Worker \in Scanners
  BY HistoryAssumption DEF Time

LEMMA LatestIs ==
    ASSUME NEW S \in SUBSET Time, S # {}
    PROVE  Latest(S) \in S /\ \A u \in S : u <= Latest(S)
  <1>1. S \in SUBSET Nat /\ \A n \in S : n <= MaxTime
    BY HistoryBounds DEF Time
  <1>2. \E t \in S : \A u \in S : u <= t
    BY <1>1, GreatestExists, HistoryBounds
  <1> QED
    BY <1>2 DEF Latest

LEMMA HeaviestExists ==
    ASSUME weight \in [Time -> Weights], NEW S \in SUBSET Time, S # {}
    PROVE  \E t \in S : \A u \in S : weight[u] <= weight[t]
  <1> DEFINE Upto(n) == {t \in S : t <= n}
             T == {n \in Nat : Upto(n) # {} => \E t \in Upto(n) : \A u \in Upto(n) : weight[u] <= weight[t]}
  <1>0. \A t \in S : t \in Nat /\ t >= 1 /\ t <= MaxTime /\ weight[t] \in Nat
    <2> SUFFICES ASSUME NEW t \in S PROVE t \in Nat /\ t >= 1 /\ t <= MaxTime /\ weight[t] \in Nat
      OBVIOUS
    <2>1. t \in Time
      OBVIOUS
    <2>2. weight[t] \in Weights
      BY <2>1
    <2>3. weight[t] \in Nat
      BY <2>2, HistoryBounds
    <2>4. t \in Nat /\ t >= 1 /\ t <= MaxTime
      BY <2>1, HistoryBounds DEF Time
    <2> QED
      BY <2>3, <2>4
  <1>1. 0 \in T
    <2>1. Upto(0) = {}
      BY <1>0
    <2> QED
      BY <2>1
  <1>2. ASSUME NEW n \in Nat, n \in T PROVE n + 1 \in T
    <2>1. Upto(n + 1) = Upto(n) \cup (S \cap {n + 1})
      BY <1>0
    <2>2. CASE n + 1 \notin S
      <3>1. Upto(n + 1) = Upto(n)
        BY <2>1, <2>2
      <3> QED
        BY <1>2, <3>1
    <2>3. CASE n + 1 \in S
      <3>1. Upto(n + 1) = Upto(n) \cup {n + 1}
        BY <2>1, <2>3
      <3>2. CASE Upto(n) = {}
        BY <1>0, <2>3, <3>1, <3>2
      <3>3. CASE Upto(n) # {}
        <4>1. PICK t \in Upto(n) : \A u \in Upto(n) : weight[u] <= weight[t]
          BY <1>2, <3>3
        <4>2. weight[t] \in Nat /\ weight[n + 1] \in Nat /\ \A u \in Upto(n) : weight[u] \in Nat
          BY <1>0, <2>3
        <4>3. CASE weight[n + 1] <= weight[t]
          BY <3>1, <4>1, <4>3
        <4>4. CASE weight[t] <= weight[n + 1]
          <5>1. \A u \in Upto(n + 1) : weight[u] <= weight[n + 1]
            <6> HIDE DEF Upto
            <6> QED
              BY <3>1, <4>1, <4>2, <4>4
          <5> QED
            BY <3>1, <5>1
        <4> QED
          BY <4>2, <4>3, <4>4
      <3> QED
        BY <3>2, <3>3
    <2> QED
      BY <2>2, <2>3
  <1>3. MaxTime \in T
    <2> HIDE DEF T
    <2> QED
      BY <1>1, <1>2, SetInduction, HistoryBounds
  <1>4. Upto(MaxTime) = S
    BY <1>0
  <1> QED
    BY <1>3, <1>4

LEMMA PeakIs ==
    ASSUME weight \in [Time -> Weights], NEW S \in SUBSET Time, S # {}
    PROVE  Peak(S) \in S /\ \A u \in S : weight[u] <= weight[Peak(S)]
  <1> DEFINE H == {t \in S : \A u \in S : weight[u] <= weight[t]}
  <1>1. H # {} /\ H \in SUBSET Time
    BY HeaviestExists
  <1>2. Latest(H) \in H
    BY <1>1, LatestIs
  <1> QED
    BY <1>2 DEF Peak

\* A rise by at least the threshold to a weight that was not exceeded since its
\* start, up to a time.
Rise(e, last) ==
    /\ e \in Event /\ e.start < e.peak /\ e.peak <= last
    /\ weight[e.start] > 0 /\ Amount(e.start, e.peak) >= Threshold
    /\ \A u \in Time : e.start < u /\ u <= e.peak => weight[u] <= weight[e.peak]

\* One step of the detection, with what it has detected from there on.
DetectStep(g, first, last, t) ==
    IF t > last THEN {}
    ELSE LET before == Present(first, t - 1)
             low    == Latest(before)
             peak   == Peak(Present(t, IF t + Window < last THEN t + Window ELSE last))
         IN  IF weight[t] = 0 \/ before = {} THEN g[t + 1]
             ELSE IF weight[t] <= weight[low] THEN g[t + 1]
             ELSE (IF IsWatering(low, peak)
                   THEN {[start |-> low, peak |-> peak]} ELSE {})
                  \cup g[t + Window + 1]

Times == 1..(MaxTime + Window + 2)

\* There is a function that detects.
LEMMA DetectionExists ==
    ASSUME NEW first \in Int, NEW last \in Time
    PROVE  \E g : g = [t \in Times |-> DetectStep(g, first, last, t)]
  <1> DEFINE N == MaxTime + Window + 2
             To(g, n) == [t \in Times |-> IF t > N - n THEN DetectStep(g, first, last, t) ELSE {}]
             T == {n \in Nat : \E g : g = To(g, n)}
  <1>0. /\ Times = 1..N /\ N \in Nat /\ Window \in Nat /\ last \in Nat
        /\ \A t \in Times : t \in Nat /\ t <= N
        /\ \A t \in Times : t <= last => t + 1 \in Times /\ t + Window + 1 \in Times
    BY HistoryBounds DEF Times, Time
  <1>1. 0 \in T
    <2>1. \A t \in Times : ~(t > N - 0)
      BY <1>0
    <2>2. \A g : To(g, 0) = [t \in Times |-> {}]
      BY <2>1
    <2> QED
      BY <2>2
  <1>2. ASSUME NEW n \in Nat, n \in T PROVE n + 1 \in T
    <2>1. PICK g : g = To(g, n)
      BY <1>2
    <2> DEFINE h == To(g, n + 1)
    <2>2. ASSUME NEW t \in Times, t > N - n PROVE h[t] = g[t]
      <3>1. t > N - (n + 1)
        BY <1>0, <2>2
      <3>2. h[t] = DetectStep(g, first, last, t)
        BY <3>1
      <3>3. g[t] = DetectStep(g, first, last, t)
        BY <2>1, <2>2
      <3> QED
        BY <3>2, <3>3
    <2> HIDE DEF h
    <2>3. ASSUME NEW t \in Times, t > N - (n + 1)
          PROVE  DetectStep(h, first, last, t) = DetectStep(g, first, last, t)
      <3>1. CASE t > last
        BY <3>1 DEF DetectStep
      <3>2. CASE ~(t > last)
        <4>1. t + 1 \in Times /\ t + Window + 1 \in Times /\ t + 1 > N - n /\ t + Window + 1 > N - n
          BY <1>0, <2>3, <3>2
        <4>2. h[t + 1] = g[t + 1] /\ h[t + Window + 1] = g[t + Window + 1]
          BY <2>2, <4>1
        <4> QED
          BY <4>2 DEF DetectStep
      <3> QED
        BY <3>1, <3>2
    <2>4. h = To(h, n + 1)
      BY <2>3 DEF h
    <2> QED
      BY <2>4
  <1>3. N \in T
    <2> HIDE DEF T, N
    <2> QED
      BY <1>0, <1>1, <1>2, SetInduction
  <1>4. \A t \in Times : t > N - N
    BY <1>0
  <1>5. PICK g : g = To(g, N)
    BY <1>3
  <1>6. g = [t \in Times |-> DetectStep(g, first, last, t)]
    BY <1>4, <1>5
  <1> QED
    BY <1>6

LEMMA StepDetects ==
    ASSUME weight \in [Time -> Weights], NEW first \in Int, NEW last \in Time, NEW g, NEW t \in Times,
           t <= last => \A e \in g[t + 1] \cup g[t + Window + 1] : Rise(e, last)
    PROVE  \A e \in DetectStep(g, first, last, t) : Rise(e, last)
  <1> DEFINE before == Present(first, t - 1)
             low    == Latest(before)
             end    == IF t + Window < last THEN t + Window ELSE last
             peak   == Peak(Present(t, end))
  <1>0. t \in Nat /\ t >= 1 /\ last \in Nat /\ last <= MaxTime /\ Window \in Nat /\ MaxTime \in Nat
    BY HistoryBounds DEF Time, Times
  <1>1. CASE t > last \/ weight[t] = 0 \/ before = {} \/ weight[t] <= weight[low]
    BY <1>0, <1>1 DEF DetectStep
  <1>2. CASE t <= last /\ weight[t] # 0 /\ before # {} /\ ~(weight[t] <= weight[low])
    <2>1. t \in Time /\ end \in Nat /\ t <= end /\ end <= last
      BY <1>0, <1>2 DEF Time
    <2>2. weight[t] \in Nat /\ weight[t] > 0 /\ \A u \in Time : u \in Nat /\ weight[u] \in Nat
      <3>1. \A u \in Time : weight[u] \in Weights
        OBVIOUS
      <3>2. \A u \in Time : u \in Nat /\ weight[u] \in Nat
        BY <3>1, HistoryBounds
      <3> QED
        BY <1>2, <2>1, <3>2
    <2>3. before \in SUBSET Time
      BY DEF Present
    <2>4. low \in before /\ \A u \in before : u <= low
      BY <1>2, <2>3, LatestIs
    <2>5. low \in Time /\ low <= t - 1 /\ first <= low /\ weight[low] > 0
      BY <1>0, <2>4 DEF Present, Time
    <2>6. t \in Present(t, end) /\ Present(t, end) \in SUBSET Time
      BY <2>1, <2>2 DEF Present
    <2>7. peak \in Present(t, end) /\ \A u \in Present(t, end) : weight[u] <= weight[peak]
      BY <2>6, PeakIs
    <2>8. peak \in Time /\ t <= peak /\ peak <= end
      BY <1>0, <2>1, <2>7 DEF Present, Time
    <2> HIDE DEF end, peak, low, before
    <2>9. ASSUME NEW u \in Time, low < u, u <= peak PROVE weight[u] <= weight[peak]
      <3>1. CASE weight[u] = 0
        BY <2>2, <2>8, <3>1
      <3>2. CASE weight[u] # 0 /\ u <= t - 1
        <4>1. u \in before
          BY <1>0, <2>2, <2>5, <2>9, <3>2 DEF before, Present
        <4> QED
          BY <2>2, <2>4, <2>5, <2>9, <4>1
      <3>3. CASE weight[u] # 0 /\ ~(u <= t - 1)
        <4>1. u \in Present(t, end)
          BY <1>0, <2>1, <2>2, <2>8, <2>9, <3>3 DEF Present
        <4> QED
          BY <2>7, <4>1
      <3> QED
        BY <3>1, <3>2, <3>3
    <2>10. IsWatering(low, peak) => Rise([start |-> low, peak |-> peak], last)
      <3>1. low < peak /\ peak <= last
        BY <1>0, <2>1, <2>2, <2>5, <2>8
      <3> QED
        BY <2>5, <2>8, <2>9, <3>1 DEF Rise, IsWatering, Event
    <2>11. DetectStep(g, first, last, t)
             \subseteq (IF IsWatering(low, peak) THEN {[start |-> low, peak |-> peak]} ELSE {})
                       \cup g[t + 1] \cup g[t + Window + 1]
      BY <1>2 DEF DetectStep, low, before, peak, end
    <2> QED
      BY <1>2, <2>10, <2>11
  <1> QED
    BY <1>0, <1>1, <1>2

\* What is detected was a rise, up to the last sample that was looked at.
LEMMA DetectedIs ==
    ASSUME weight \in [Time -> Weights], NEW first \in Int, NEW last \in Time, first <= last
    PROVE  \A e \in Detected(first, last) : Rise(e, last)
  <1> DEFINE g == CHOOSE g : g = [t \in Times |-> DetectStep(g, first, last, t)]
             N == MaxTime + Window + 2
             T == {n \in Nat : \A t \in Times : t > N - n => \A e \in g[t] : Rise(e, last)}
  <1>0. /\ Times = 1..N /\ N \in Nat /\ Window \in Nat /\ last \in Nat /\ 1 \in Times
        /\ \A t \in Times : t \in Nat /\ t <= N
        /\ \A t \in Times : t <= last => t + 1 \in Times /\ t + Window + 1 \in Times
        /\ \A t \in Time : t \in Times
    BY HistoryBounds DEF Times, Time
  <1>1. g = [t \in Times |-> DetectStep(g, first, last, t)]
    BY DetectionExists
  <1>2. Detected(first, last) = g[IF first < 1 THEN 1 ELSE first]
    BY DEF Detected, DetectStep, Times
  <1> HIDE DEF g
  <1>3. 0 \in T
    BY <1>0
  <1>4. ASSUME NEW n \in Nat, n \in T PROVE n + 1 \in T
    <2> SUFFICES ASSUME NEW t \in Times, t > N - (n + 1) PROVE \A e \in g[t] : Rise(e, last)
      OBVIOUS
    <2>1. ASSUME t <= last
          PROVE  \A e \in g[t + 1] \cup g[t + Window + 1] : Rise(e, last)
      <3>1. t + 1 \in Times /\ t + Window + 1 \in Times /\ t + 1 > N - n /\ t + Window + 1 > N - n
        BY <1>0, <2>1
      <3> QED
        BY <1>4, <3>1
    <2>2. \A e \in DetectStep(g, first, last, t) : Rise(e, last)
      <3> HIDE DEF N, T
      <3> QED
        BY <2>1, StepDetects
    <2> QED
      BY <1>1, <2>2
  <1>5. N \in T
    <2> HIDE DEF T, N
    <2> QED
      BY <1>0, <1>3, <1>4, SetInduction
  <1>6. ASSUME NEW t \in Times PROVE \A e \in g[t] : Rise(e, last)
    BY <1>0, <1>5
  <1>7. (IF first < 1 THEN 1 ELSE first) \in Times
    BY <1>0, HistoryBounds DEF Time
  <1> QED
    BY <1>2, <1>6, <1>7

-----------------------------------------------------------------------------
(* The history *)

ScanStates == [pc : {"idle", "above", "duplicates", "read", "write", "end", "failed"},
               events : SUBSET Event, found : 0..MaxTime, peak : Time, deleted : SUBSET Time]
EventRows == [id : 0..MaxTime, peak : Time, invalid : BOOLEAN]

HistoryTypes ==
    /\ weight \in [Time -> Weights] /\ now \in Time
    /\ rows \in [Time -> EventRows] /\ scan \in [Scanners -> ScanStates]
    /\ op \in [status : Statuses \cup {"none"}, queued : BOOLEAN]
    /\ collected \subseteq Event

\* Every row is of a rise, and so is all that a scan has at hand.
RowsFit == \A t \in Starts : Rise([start |-> t, peak |-> rows[t].peak], now)

\* What the SELECTs of a scan found: a row with the event's start, or one with
\* its peak; no row, then no row that is deleted either.
ScanFits(s) ==
    /\ \A e \in scan[s].events : Rise(e, now)
    /\ scan[s].pc \in {"idle", "end"} => scan[s].events = {}
    /\ scan[s].pc = "write" =>
          /\ scan[s].events # {}
          /\ scan[s].found \in {0, NextEvent(s).start} \/ scan[s].peak = NextEvent(s).peak
          /\ scan[s].found = 0 => NextEvent(s).peak \notin scan[s].deleted

DeletedFits(s) ==
    \A p \in scan[s].deleted : \E t \in Starts : rows[t].invalid /\ rows[t].peak = p

\* What the worker has found is at hand or shown by a row: so is the event that
\* is not to be written, by the row that was read for it.
Collecting == scan[Worker].pc \in {"above", "duplicates", "read", "write", "end"}
AtHandOrShown ==
    op.status = "success" \/ Collecting =>
       \A e \in collected : e \in scan[Worker].events \/ \E t \in Starts : Shows(t, e)
FoundShows ==
    scan[Worker].pc = "write" /\ scan[Worker].found # 0 /\ NextEvent(Worker) \in collected
    => scan[Worker].found \in Starts /\ Shows(scan[Worker].found, NextEvent(Worker))
CollectedFits ==
    /\ op.status = "success" => scan[Worker].pc = "idle"
    /\ AtHandOrShown /\ FoundShows

HistoryInv ==
    /\ HistoryTypes /\ RowsFit
    /\ \A s \in Scanners : ScanFits(s) /\ DeletedFits(s)
    /\ CollectedFits

LEMMA NextIs ==
    ASSUME NEW s \in Scanners, scan[s].events \in SUBSET Event, scan[s].events # {}
    PROVE  NextEvent(s) \in scan[s].events
  <1> DEFINE S == {e.start : e \in scan[s].events}
  <1>1. S \in SUBSET Nat /\ S # {}
    BY HistoryBounds DEF Event
  <1>2. PICK m \in S : \A n \in S : m <= n
    <2> HIDE DEF S
    <2> QED
      BY <1>1, LeastExists
  <1>3. PICK e \in scan[s].events : m = e.start
    OBVIOUS
  <1>4. \A f \in scan[s].events : e.start <= f.start
    BY <1>2, <1>3
  <1> QED
    BY <1>4 DEF NextEvent

LEMMA NextStays ==
    ASSUME NEW s, scan'[s].events = scan[s].events
    PROVE  NextEvent(s)' = NextEvent(s)
BY DEF NextEvent

LEMMA MatchIs ==
    ASSUME HistoryTypes, NEW e \in Event
    PROVE  /\ Match(e) = 0 \/ Match(e) \in Starts
           /\ Match(e) = 0 => \A t \in Starts : t # e.start /\ rows[t].peak # e.peak
           /\ Match(e) \notin {0, e.start} => rows[Match(e)].peak = e.peak
  <1> DEFINE same == {t \in Starts : rows[t].peak = e.peak}
  <1>1. CASE e.start \in Starts
    <2>1. Match(e) = e.start
      BY <1>1 DEF Match
    <2>2. e.start # 0
      BY <1>1, HistoryBounds DEF Starts, Time
    <2> QED
      BY <1>1, <2>1, <2>2
  <1>2. CASE e.start \notin Starts /\ same = {}
    <2>1. Match(e) = 0
      BY <1>2 DEF Match
    <2> QED
      BY <1>2, <2>1
  <1>3. CASE e.start \notin Starts /\ same # {}
    <2> DEFINE S == {rows[t].id : t \in same}
    <2>1. S \in SUBSET Nat /\ S # {}
      <3>1. \A t \in same : rows[t] \in EventRows
        BY DEF HistoryTypes, Starts
      <3>2. \A t \in same : rows[t].id \in Nat
        BY <3>1, HistoryBounds DEF EventRows
      <3> QED
        BY <1>3, <3>2
    <2>2. PICK m \in S : \A n \in S : m <= n
      <3> HIDE DEF S
      <3> QED
        BY <2>1, LeastExists
    <2>3. \E t \in same : \A u \in same : rows[t].id <= rows[u].id
      BY <2>2
    <2>4. Match(e) = CHOOSE t \in same : \A u \in same : rows[t].id <= rows[u].id
      BY <1>3 DEF Match
    <2> HIDE DEF same
    <2>5. Match(e) \in same
      BY <2>3, <2>4
    <2>6. Match(e) \in Starts /\ rows[Match(e)].peak = e.peak /\ Match(e) # 0
      BY <2>5, HistoryBounds DEF same, Starts, Time
    <2> QED
      BY <2>6
  <1> QED
    BY <1>1, <1>2, <1>3

\* A scan begins with events that are rises, all of them in its range.
LEMMA QueryFinds ==
    ASSUME HistoryTypes, NEW s \in Scanners, Query(s, NoScan)
    PROVE  \E new \in ScanStates :
              /\ new.pc = "above" /\ \A e \in new.events : Rise(e, now)
              /\ new.deleted = {rows[t].peak : t \in Starts \ Valid}
              /\ scan' = [scan EXCEPT ![s] = new]
  <1> DEFINE ds == {rows[t].peak : t \in Starts \ Valid}
             es(first) == {e \in Detected(first - Overlap, now) : e.peak >= first}
             new(first) == [NoScan EXCEPT !.pc = "above", !.deleted = ds, !.events = es(first)]
  <1>1. PICK first \in 1..now : scan' = [scan EXCEPT ![s] = new(first)]
    BY DEF Query, Step
  <1>2. now \in Time /\ now \in Nat /\ first - Overlap \in Int /\ first - Overlap <= now
        /\ weight \in [Time -> Weights]
    BY HistoryBounds DEF HistoryTypes
  <1>3. \A e \in Detected(first - Overlap, now) : Rise(e, now)
    BY <1>2, DetectedIs
  <1>4. es(first) \in SUBSET Event /\ \A e \in es(first) : Rise(e, now)
    BY <1>3 DEF Rise
  <1>5. ds \in SUBSET Time
    BY DEF HistoryTypes, Starts, EventRows
  <1>6. 0 \in 0..MaxTime /\ 1 \in Time
    BY HistoryBounds
  <1> HIDE DEF es, ds
  <1>7. new(first).pc = "above" /\ new(first).events = es(first) /\ new(first).deleted = ds
    BY DEF NoScan
  <1>8. new(first) \in ScanStates
    BY <1>4, <1>5, <1>6 DEF NoScan, ScanStates
  <1> HIDE DEF new
  <1> QED
    BY <1>1, <1>4, <1>7, <1>8 DEF ds

\* A rise is one at any later time.
LEMMA RiseStays ==
    ASSUME NEW e, Rise(e, now), weight' = weight, now \in Nat, now' \in Nat, now <= now'
    PROVE  Rise(e, now)'
  <1>1. e.peak \in Nat /\ e.peak <= now'
    <2>1. e.peak \in Time /\ e.peak <= now
      BY DEF Rise, Event
    <2>2. e.peak \in Nat
      BY <2>1, HistoryBounds
    <2> QED
      BY <2>1, <2>2
  <1>2. Rise(e, now')
    BY <1>1 DEF Rise
  <1> QED
    BY <1>2 DEF Rise, Amount

LEMMA ScanFitsStay ==
    ASSUME NEW s, ScanFits(s), weight' = weight, now \in Nat, now' \in Nat, now <= now',
           scan'[s].pc = scan[s].pc, scan'[s].events = scan[s].events, scan'[s].found = scan[s].found,
           scan'[s].peak = scan[s].peak, scan'[s].deleted \subseteq scan[s].deleted
    PROVE  ScanFits(s)'
  <1>1. NextEvent(s)' = NextEvent(s)
    BY NextStays
  <1>2. \A e \in scan'[s].events : Rise(e, now)'
    BY RiseStays DEF ScanFits
  <1> QED
    BY <1>1, <1>2 DEF ScanFits

LEMMA TimeSteps ==
    ASSUME HistoryTypes PROVE now \in Nat /\ now <= now
BY HistoryBounds DEF HistoryTypes

\* The rows stay where they are, with their peaks; some are marked invalid.
Marks ==
    /\ weight' = weight
    /\ rows' \in [Time -> EventRows]
    /\ \A t \in Time : /\ rows'[t].id = rows[t].id /\ rows'[t].peak = rows[t].peak
                       /\ rows[t].invalid => rows'[t].invalid

LEMMA MarkedFit ==
    ASSUME HistoryInv, Marks, now' \in Nat, now <= now'
    PROVE  /\ RowsFit' /\ Starts' = Starts
           /\ \A s \in Scanners : scan'[s].deleted \subseteq scan[s].deleted => DeletedFits(s)'
  <1>1. Starts' = Starts
    BY DEF Starts, Marks
  <1>2. RowsFit'
    <2> SUFFICES ASSUME NEW t \in Starts
                 PROVE  Rise([start |-> t, peak |-> rows[t].peak], now)'
      BY <1>1 DEF RowsFit
    <2>1. Rise([start |-> t, peak |-> rows[t].peak], now) /\ rows'[t].peak = rows[t].peak
      BY DEF HistoryInv, RowsFit, Marks, Starts
    <2>2. now \in Nat /\ weight' = weight
      BY TimeSteps DEF HistoryInv, Marks
    <2>3. \A f : Rise(f, now) => Rise(f, now)'
      BY <2>2, RiseStays
    <2>4. PICK e : e = [start |-> t, peak |-> rows'[t].peak]
      OBVIOUS
    <2>5. Rise(e, now)'
      BY <2>1, <2>3, <2>4
    <2> QED
      BY <2>4, <2>5 DEF Rise
  <1>3. ASSUME NEW s \in Scanners, scan'[s].deleted \subseteq scan[s].deleted PROVE DeletedFits(s)'
    <2>1. DeletedFits(s)
      BY DEF HistoryInv
    <2>2. \A t \in Starts : t \in Time
      BY DEF Starts
    <2> QED
      BY <1>1, <1>3, <2>1, <2>2 DEF DeletedFits, Marks
  <1> QED
    BY <1>1, <1>2, <1>3

\* The worker goes on in its scan, if it has one, and the rows show what they did.
WorkerKeeps ==
    /\ scan'[Worker].events = scan[Worker].events /\ scan'[Worker].found = scan[Worker].found
    /\ \/ scan'[Worker].pc = scan[Worker].pc
       \/ scan[Worker].pc \in {"above", "duplicates"} /\ scan'[Worker].pc \in {"duplicates", "read"}

LEMMA CollectedKept ==
    ASSUME HistoryInv, WorkerKeeps, collected' \subseteq collected,
           op'.status = "success" => op.status = "success",
           \A t \in Starts : \A f \in collected' : Shows(t, f) => t \in Starts' /\ Shows(t, f)'
    PROVE  CollectedFits'
  <1>1. NextEvent(Worker)' = NextEvent(Worker)
    BY NextStays DEF WorkerKeeps
  <1>2. (op'.status = "success" \/ Collecting') => (op.status = "success" \/ Collecting)
    BY DEF WorkerKeeps, Collecting
  <1>3. AtHandOrShown'
    <2> SUFFICES ASSUME op'.status = "success" \/ Collecting', NEW f \in collected'
                 PROVE  f \in scan'[Worker].events \/ \E t \in Starts' : Shows(t, f)'
      BY DEF AtHandOrShown
    <2>1. f \in scan[Worker].events \/ \E t \in Starts : Shows(t, f)
      BY <1>2 DEF HistoryInv, CollectedFits, AtHandOrShown
    <2> QED
      BY <2>1 DEF WorkerKeeps
  <1>4. FoundShows'
    <2> SUFFICES ASSUME scan'[Worker].pc = "write", scan'[Worker].found # 0,
                        NextEvent(Worker)' \in collected'
                 PROVE  scan'[Worker].found \in Starts' /\ Shows(scan[Worker].found, NextEvent(Worker))'
      BY DEF FoundShows, WorkerKeeps
    <2>1. scan[Worker].pc = "write" /\ scan[Worker].found # 0 /\ NextEvent(Worker) \in collected'
      BY <1>1 DEF WorkerKeeps
    <2>2. scan[Worker].found \in Starts /\ Shows(scan[Worker].found, NextEvent(Worker))
      BY <2>1 DEF HistoryInv, CollectedFits, FoundShows
    <2>3. ASSUME NEW t, t = scan[Worker].found, NEW f, f = NextEvent(Worker)
          PROVE  scan'[Worker].found \in Starts' /\ Shows(scan[Worker].found, NextEvent(Worker))'
      <3>1. t \in Starts' /\ Shows(t, f)'
        BY <2>1, <2>2, <2>3
      <3>2. scan'[Worker].found = t /\ NextEvent(Worker)' = f
        BY <1>1, <2>3 DEF WorkerKeeps
      <3> QED
        BY <3>1, <3>2 DEF Shows
    <2> QED
      BY <2>3
  <1>5. op'.status = "success" => scan'[Worker].pc = "idle"
    BY DEF HistoryInv, CollectedFits, WorkerKeeps
  <1> QED
    BY <1>3, <1>4, <1>5 DEF CollectedFits

LEMMA CollectedStay ==
    ASSUME HistoryInv, WorkerKeeps, collected' = collected, op'.status = "success" => op.status = "success",
           Starts' = Starts, \A t \in Starts : rows'[t].peak = rows[t].peak
    PROVE  CollectedFits'
  <1>1. \A t \in Starts : \A f \in collected' : Shows(t, f) => t \in Starts' /\ Shows(t, f)'
    BY DEF Shows
  <1> QED
    BY <1>1, CollectedKept

\* Time passes, or the operation gets another status, and no scan goes on.
LEMMA NoScanStep ==
    ASSUME HistoryInv, Sample \/ Enqueue \/ Cancel \/ PopUnscanned
    PROVE  HistoryInv'
  <1>1. HistoryTypes /\ UNCHANGED <<weight, rows, scan, collected>>
    BY DEF HistoryInv, Sample, Enqueue, Cancel, PopUnscanned
  <1>2. now' \in Time /\ now' \in Nat /\ now \in Nat /\ now <= now'
    <2>1. now \in Time
      BY DEF HistoryInv, HistoryTypes
    <2>2. CASE Sample
      BY <2>1, <2>2, HistoryBounds DEF Sample, Time
    <2>3. CASE Enqueue \/ Cancel \/ PopUnscanned
      BY <2>1, <2>3, HistoryBounds DEF Time, Enqueue, Cancel, PopUnscanned
    <2> QED
      BY <2>2, <2>3
  <1>3. op' \in [status : Statuses \cup {"none"}, queued : BOOLEAN]
        /\ (op'.status = "success" => op.status = "success")
    <2>1. /\ op \in [status : Statuses \cup {"none"}, queued : BOOLEAN]
          /\ {"queued", "cancelled", "timeout"} \subseteq Statuses
      <3>1. {"queued", "cancelled", "timeout"} \subseteq Statuses
        BY DEF Statuses, OpenStatuses, TerminalStatuses
      <3> QED
        BY <1>1, <3>1 DEF HistoryTypes
    <2>2. CASE Sample
      BY <2>1, <2>2 DEF Sample
    <2>3. CASE Enqueue
      BY <2>1, <2>3 DEF Enqueue
    <2>4. CASE Cancel
      <3>1. op' = [op EXCEPT !.status = "cancelled"]
        BY <2>4 DEF Cancel
      <3> QED
        BY <2>1, <3>1
    <2>5. CASE PopUnscanned
      <3>1. op' = [status |-> IF op.status \in TerminalStatuses THEN op.status ELSE "timeout", queued |-> FALSE]
        BY <2>5 DEF PopUnscanned
      <3> QED
        BY <2>1, <3>1
    <2> QED
      BY <2>2, <2>3, <2>4, <2>5
  <1>4. HistoryTypes'
    BY <1>1, <1>2, <1>3 DEF HistoryTypes
  <1>5. Marks
    BY <1>1 DEF Marks, HistoryTypes
  <1>6. RowsFit' /\ Starts' = Starts /\ \A s \in Scanners : DeletedFits(s)'
    BY <1>1, <1>2, <1>5, MarkedFit
  <1>7. \A s \in Scanners : ScanFits(s)'
    BY <1>1, <1>2, ScanFitsStay DEF HistoryInv
  <1>8. CollectedFits'
    <2>1. WorkerKeeps
      BY <1>1 DEF WorkerKeeps
    <2> QED
      BY <1>1, <1>3, <1>6, <2>1, CollectedStay
  <1> QED
    BY <1>4, <1>6, <1>7, <1>8 DEF HistoryInv

\* Rows are marked, by a scan or by a user.
LEMMA MarkStep ==
    ASSUME HistoryInv, (\E s \in Scanners : InvalidateAbove(s) \/ InvalidateDuplicates(s))
                       \/ \E t \in Time : Invalidate(t)
    PROVE  HistoryInv'
  <1>0. /\ HistoryTypes /\ UNCHANGED <<weight, now, op, collected>> /\ now \in Nat /\ now <= now
        /\ rows \in [Time -> EventRows] /\ \A t \in Time : rows[t] \in EventRows
    BY TimeSteps DEF HistoryInv, HistoryTypes, InvalidateAbove, InvalidateDuplicates, Invalidate
  <1>1. Marks
    <2>1. \A t \in Time : [rows[t] EXCEPT !.invalid = TRUE] \in EventRows
      <3>1. \A r \in EventRows : [r EXCEPT !.invalid = TRUE] \in EventRows
        BY DEF EventRows
      <3> QED
        BY <1>0, <3>1
    <2>2. CASE \E s \in Scanners : InvalidateAbove(s)
      BY <1>0, <2>1, <2>2 DEF InvalidateAbove, Marks, EventRows
    <2>3. CASE \E s \in Scanners : InvalidateDuplicates(s)
      BY <1>0, <2>1, <2>3 DEF InvalidateDuplicates, Marks, EventRows
    <2>4. CASE \E t \in Time : Invalidate(t)
      <3>1. PICK u \in Time : rows' = [rows EXCEPT ![u].invalid = TRUE]
        BY <2>4 DEF Invalidate
      <3>2. \A t \in Time : rows'[t] = IF t = u THEN [rows[t] EXCEPT !.invalid = TRUE] ELSE rows[t]
        BY <1>0, <3>1
      <3>3. rows' \in [Time -> EventRows]
        BY <1>0, <2>1, <3>1
      <3> QED
        BY <1>0, <3>2, <3>3 DEF Marks, EventRows
    <2> QED
      BY <2>2, <2>3, <2>4
  <1>2. \A s \in Scanners :
           /\ scan'[s] \in ScanStates
           /\ scan'[s].events = scan[s].events /\ scan'[s].found = scan[s].found
           /\ scan'[s].peak = scan[s].peak /\ scan'[s].deleted = scan[s].deleted
           /\ \/ scan'[s].pc = scan[s].pc
              \/ scan[s].pc \in {"above", "duplicates"} /\ scan'[s].pc \in {"duplicates", "read"}
    <2>1. \A s \in Scanners : scan[s] \in ScanStates
      BY <1>0 DEF HistoryTypes
    <2>2. CASE \E t \in Time : Invalidate(t)
      BY <2>1, <2>2 DEF Invalidate
    <2>3. CASE \E s \in Scanners : InvalidateAbove(s) \/ InvalidateDuplicates(s)
      <3>1. PICK s \in Scanners : \E pc \in {"duplicates", "read"} :
               scan[s].pc \in {"above", "duplicates"} /\ scan' = [scan EXCEPT ![s] = [scan[s] EXCEPT !.pc = pc]]
        BY <2>3 DEF InvalidateAbove, InvalidateDuplicates, Step
      <3>2. PICK pc \in {"duplicates", "read"} :
               scan[s].pc \in {"above", "duplicates"} /\ scan' = [scan EXCEPT ![s] = [scan[s] EXCEPT !.pc = pc]]
        BY <3>1
      <3>3. \A r \in Scanners : scan'[r] = IF r = s THEN [scan[s] EXCEPT !.pc = pc] ELSE scan[r]
        BY <1>0, <3>2 DEF HistoryTypes
      <3>4. [scan[s] EXCEPT !.pc = pc] \in ScanStates
        BY <2>1 DEF ScanStates
      <3> QED
        BY <2>1, <3>2, <3>3, <3>4 DEF ScanStates
    <2> QED
      BY <2>2, <2>3
  <1>3. scan' \in [Scanners -> ScanStates]
    <2>1. \E f : scan' = [s \in Scanners |-> f[s]]
      <3>1. CASE \E t \in Time : Invalidate(t)
        BY <1>0, <3>1 DEF Invalidate, HistoryTypes
      <3>2. CASE \E s \in Scanners : InvalidateAbove(s) \/ InvalidateDuplicates(s)
        <4>1. PICK s \in Scanners : \E new : scan' = [scan EXCEPT ![s] = new]
          BY <3>2 DEF InvalidateAbove, InvalidateDuplicates, Step
        <4>2. scan' = [r \in Scanners |-> scan'[r]]
          BY <1>0, <4>1 DEF HistoryTypes
        <4> QED
          BY <4>2
      <3> QED
        BY <3>1, <3>2
    <2> QED
      BY <1>2, <2>1
  <1>4. HistoryTypes'
    BY <1>0, <1>1, <1>3 DEF HistoryTypes, Marks
  <1>5. RowsFit' /\ Starts' = Starts /\ \A s \in Scanners : DeletedFits(s)'
    BY <1>0, <1>1, <1>2, MarkedFit
  <1>6. ASSUME NEW s \in Scanners PROVE ScanFits(s)'
    <2>1. ScanFits(s)
      BY DEF HistoryInv
    <2>2. CASE scan'[s].pc = scan[s].pc
      BY <1>0, <1>2, <2>1, <2>2, ScanFitsStay
    <2>3. CASE scan'[s].pc \in {"duplicates", "read"}
      <3>1. \A e \in scan'[s].events : Rise(e, now)'
        BY <1>0, <1>2, <2>1, RiseStays DEF ScanFits
      <3> QED
        BY <2>3, <3>1 DEF ScanFits
    <2> QED
      BY <1>2, <2>2, <2>3
  <1>7. CollectedFits'
    <2>1. WorkerKeeps
      BY <1>2, HistoryBounds DEF WorkerKeeps
    <2>2. \A t \in Starts : rows'[t].peak = rows[t].peak
      BY <1>1 DEF Marks, Starts
    <2> QED
      BY <1>0, <1>5, <2>1, <2>2, CollectedStay
  <1> QED
    BY <1>4, <1>5, <1>6, <1>7 DEF HistoryInv

\* What is shown when a scan begins, ends or gives up: it alone moves.
LEMMA ScanMoves ==
    ASSUME HistoryInv, NEW s \in Scanners, NEW new \in ScanStates,
           scan' = [scan EXCEPT ![s] = new], UNCHANGED <<weight, now, rows>>,
           op' \in [status : Statuses \cup {"none"}, queued : BOOLEAN], collected' \subseteq Event,
           ScanFits(s)', DeletedFits(s)', CollectedFits'
    PROVE  HistoryInv'
  <1>1. HistoryTypes'
    BY DEF HistoryInv, HistoryTypes
  <1>2. now \in Nat /\ now <= now /\ Marks
    BY TimeSteps DEF HistoryInv, HistoryTypes, Marks
  <1>3. RowsFit' /\ \A r \in Scanners : scan'[r].deleted \subseteq scan[r].deleted => DeletedFits(r)'
    BY <1>2, MarkedFit
  <1>4. ASSUME NEW r \in Scanners, r # s PROVE ScanFits(r)' /\ DeletedFits(r)'
    <2>1. scan'[r] = scan[r]
      BY <1>4 DEF HistoryInv, HistoryTypes
    <2>2. ScanFits(r)'
      BY <1>2, <2>1, ScanFitsStay DEF HistoryInv
    <2> QED
      BY <1>3, <2>1, <2>2
  <1> QED
    BY <1>1, <1>3, <1>4 DEF HistoryInv

LEMMA IdleIs == NoScan \in ScanStates /\ NoScan.pc = "idle" /\ NoScan.events = {} /\ NoScan.deleted = {}
BY HistoryBounds DEF NoScan, ScanStates

LEMMA QueryStep ==
    ASSUME HistoryInv, Collect \/ \E s \in Scanners : Sync(s)
    PROVE  HistoryInv'
  <1>0. HistoryTypes
    BY DEF HistoryInv
  <1>1. PICK s \in Scanners : /\ Query(s, NoScan) /\ UNCHANGED <<weight, now, rows>>
                              /\ \/ s # Worker /\ UNCHANGED <<op, collected>>
                                 \/ s = Worker /\ Collect
    BY HistoryBounds DEF Collect, Sync
  <1>2. PICK new \in ScanStates : /\ new.pc = "above" /\ \A e \in new.events : Rise(e, now)
                                  /\ new.deleted = {rows[t].peak : t \in Starts \ Valid}
                                  /\ scan' = [scan EXCEPT ![s] = new]
    BY <1>0, <1>1, QueryFinds
  <1>3. scan'[s] = new /\ \A r \in Scanners : r # s => scan'[r] = scan[r]
    BY <1>0, <1>2 DEF HistoryTypes
  <1>4. ScanFits(s)'
    <2>1. now \in Nat /\ now' = now /\ now <= now /\ weight' = weight
      BY <1>0, <1>1, TimeSteps
    <2>2. \A e \in scan'[s].events : Rise(e, now)'
      BY <1>2, <1>3, <2>1, RiseStays
    <2> QED
      BY <1>2, <1>3, <2>2 DEF ScanFits
  <1>5. DeletedFits(s)'
    <2>1. \A p \in new.deleted : \E t \in Starts : rows[t].invalid /\ rows[t].peak = p
      BY <1>2 DEF Valid
    <2> QED
      BY <1>1, <1>3, <2>1 DEF DeletedFits, Starts
  <1>6. op' \in [status : Statuses \cup {"none"}, queued : BOOLEAN] /\ collected' \subseteq Event
        /\ CollectedFits'
    <2>1. CASE s # Worker
      <3>1. WorkerKeeps
        BY <1>3, <2>1, HistoryBounds DEF WorkerKeeps
      <3>2. Starts' = Starts /\ \A t \in Starts : rows'[t].peak = rows[t].peak
        BY <1>1 DEF Starts
      <3>3. UNCHANGED <<op, collected>>
        BY <1>1, <2>1
      <3> QED
        BY <1>0, <3>1, <3>2, <3>3, CollectedStay DEF HistoryTypes
    <2>2. CASE s = Worker /\ Collect
      <3>1. op' = [op EXCEPT !.status = "running"] /\ collected' = scan'[Worker].events
        BY <2>2 DEF Collect
      <3>2. op \in [status : Statuses \cup {"none"}, queued : BOOLEAN] /\ "running" \in Statuses
        BY <1>0 DEF HistoryTypes, Statuses, OpenStatuses
      <3>3. op' \in [status : Statuses \cup {"none"}, queued : BOOLEAN] /\ op'.status = "running"
        BY <3>1, <3>2
      <3>4. collected' \subseteq Event
        BY <1>3, <2>2, <3>1 DEF ScanStates
      <3>5. CollectedFits'
        BY <1>2, <1>3, <2>2, <3>1, <3>3 DEF CollectedFits, AtHandOrShown, FoundShows
      <3> QED
        BY <3>3, <3>4, <3>5
    <2> QED
      BY <1>1, <2>1, <2>2
  <1> QED
    BY <1>1, <1>2, <1>4, <1>5, <1>6, ScanMoves

LEMMA EndStep ==
    ASSUME HistoryInv, Collected \/ WorkerCrash \/ \E s \in Scanners : SyncEnds(s)
    PROVE  HistoryInv'
  <1>0. HistoryTypes /\ op \in [status : Statuses \cup {"none"}, queued : BOOLEAN] /\ collected \subseteq Event
    BY DEF HistoryInv, HistoryTypes
  <1>1. PICK s \in Scanners :
           /\ scan' = [scan EXCEPT ![s] = NoScan] /\ UNCHANGED <<weight, now, rows, collected>>
           /\ \/ s # Worker /\ UNCHANGED op
              \/ s = Worker /\ (Collected \/ WorkerCrash)
    BY HistoryBounds DEF Collected, WorkerCrash, SyncEnds, Step
  <1>2. scan'[s] = NoScan /\ \A r \in Scanners : r # s => scan'[r] = scan[r]
    BY <1>0, <1>1 DEF HistoryTypes
  <1>3. ScanFits(s)' /\ DeletedFits(s)'
    BY <1>2, IdleIs DEF ScanFits, DeletedFits
  <1>4. op' \in [status : Statuses \cup {"none"}, queued : BOOLEAN] /\ CollectedFits'
    <2>1. CASE s # Worker
      <3>1. WorkerKeeps
        BY <1>2, <2>1, HistoryBounds DEF WorkerKeeps
      <3>2. Starts' = Starts /\ \A t \in Starts : rows'[t].peak = rows[t].peak
        BY <1>1 DEF Starts
      <3>3. UNCHANGED <<op, collected>>
        BY <1>1, <2>1
      <3> QED
        BY <1>0, <3>1, <3>2, <3>3, CollectedStay
    <2>2. CASE s = Worker /\ (Collected \/ WorkerCrash)
      <3>1. scan[Worker].pc # "idle" /\ op.status # "success"
        <4>1. scan[Worker].pc # "idle"
          BY <2>2 DEF Collected, WorkerCrash
        <4> QED
          BY <4>1 DEF HistoryInv, CollectedFits
      <3>2. /\ op' \in [status : Statuses \cup {"none"}, queued : BOOLEAN]
            /\ op'.status = "success" => scan[Worker].pc = "end"
        <4>1. CASE WorkerCrash
          BY <1>0, <3>1, <4>1 DEF WorkerCrash
        <4>2. CASE Collected
          <5>1. PICK result \in IF scan[Worker].pc = "failed" THEN {"error"} ELSE {"success", "timeout"} :
                   op' = [status |-> IF op.status \in TerminalStatuses THEN op.status ELSE result, queued |-> FALSE]
            BY <4>2 DEF Collected
          <5>2. result \in Statuses
            BY DEF Statuses, TerminalStatuses
          <5>3. result = "success" => scan[Worker].pc = "end"
            BY <4>2 DEF Collected
          <5> QED
            BY <1>0, <3>1, <5>1, <5>2, <5>3
        <4> QED
          BY <2>2, <4>1, <4>2
      <3>3. scan'[Worker] = NoScan
        BY <1>2, <2>2
      <3>4. AtHandOrShown'
        <4> SUFFICES ASSUME op'.status = "success", NEW e \in collected
                     PROVE  \E t \in Starts : Shows(t, e)'
          BY <1>1, <3>3, IdleIs DEF AtHandOrShown, Collecting, Starts
        <4>1. scan[Worker].pc = "end" /\ scan[Worker].events = {}
          BY <3>2, HistoryBounds DEF HistoryInv, ScanFits
        <4>2. \E t \in Starts : Shows(t, e)
          BY <4>1 DEF HistoryInv, CollectedFits, AtHandOrShown, Collecting
        <4> QED
          BY <1>1, <4>2 DEF Shows
      <3> QED
        BY <3>2, <3>3, <3>4, IdleIs DEF CollectedFits, FoundShows
    <2> QED
      BY <1>1, <2>1, <2>2
  <1> QED
    BY <1>0, <1>1, <1>3, <1>4, IdleIs, ScanMoves

LEMMA DropStep ==
    ASSUME HistoryInv, HardDrop
    PROVE  HistoryInv'
  <1>0. /\ HistoryTypes /\ UNCHANGED <<weight, now, op>> /\ now \in Nat /\ now <= now
        /\ rows' = [t \in Time |-> NoRow] /\ collected' = {}
        /\ scan' = [s \in Scanners |-> [scan[s] EXCEPT !.deleted = {}]]
    BY TimeSteps DEF HistoryInv, HardDrop
  <1>1. Starts' = {}
    BY <1>0 DEF Starts, NoRow
  <1>2. \A s \in Scanners :
           /\ scan'[s] \in ScanStates /\ scan'[s].deleted = {}
           /\ scan'[s].events = scan[s].events /\ scan'[s].found = scan[s].found
           /\ scan'[s].peak = scan[s].peak /\ scan'[s].pc = scan[s].pc
    <2>1. \A s \in Scanners : scan'[s] = [scan[s] EXCEPT !.deleted = {}] /\ scan[s] \in ScanStates
      BY <1>0 DEF HistoryTypes
    <2> QED
      BY <2>1 DEF ScanStates
  <1>3. HistoryTypes'
    <2>1. NoRow \in EventRows
      BY HistoryBounds DEF NoRow, EventRows
    <2>2. scan' \in [Scanners -> ScanStates] /\ rows' \in [Time -> EventRows]
      BY <1>0, <1>2, <2>1
    <2> QED
      BY <1>0, <2>2 DEF HistoryTypes
  <1>4. \A s \in Scanners : ScanFits(s)'
    BY <1>0, <1>2, ScanFitsStay DEF HistoryInv
  <1>5. RowsFit' /\ \A s \in Scanners : DeletedFits(s)'
    BY <1>1, <1>2 DEF RowsFit, DeletedFits
  <1>6. CollectedFits'
    BY <1>0, <1>2, HistoryBounds DEF HistoryInv, CollectedFits, AtHandOrShown, FoundShows
  <1> QED
    BY <1>3, <1>4, <1>5, <1>6 DEF HistoryInv

\* What a rise shows, and the row of one.
LEMMA RiseIs ==
    ASSUME HistoryInv
    PROVE  /\ \A e : Rise(e, now) => /\ e \in Event /\ e.start \in Time /\ e.peak \in Time
                                     /\ e.start \in Nat /\ e.peak \in Nat
                                     /\ e.start # 0 /\ e.start < e.peak /\ e.peak <= now
           /\ \A t \in Starts : /\ t \in Time /\ rows[t].peak \in Time /\ t \in Nat /\ rows[t].peak \in Nat
                                /\ t < rows[t].peak
                                /\ \A u \in Time : t < u /\ u <= rows[t].peak => weight[u] <= weight[rows[t].peak]
  <1>1. \A e : Rise(e, now) => /\ e \in Event /\ e.start \in Time /\ e.peak \in Time
                               /\ e.start \in Nat /\ e.peak \in Nat
                               /\ e.start # 0 /\ e.start < e.peak /\ e.peak <= now
    <2> SUFFICES ASSUME NEW e, Rise(e, now)
                 PROVE  /\ e \in Event /\ e.start \in Time /\ e.peak \in Time
                        /\ e.start \in Nat /\ e.peak \in Nat
                        /\ e.start # 0 /\ e.start < e.peak /\ e.peak <= now
      OBVIOUS
    <2>1. e \in Event /\ e.start \in Time /\ e.peak \in Time /\ e.start < e.peak /\ e.peak <= now
      BY DEF Rise, Event
    <2> QED
      BY <2>1, HistoryBounds DEF Time
  <1>2. ASSUME NEW t \in Starts
        PROVE  /\ t \in Time /\ rows[t].peak \in Time /\ t \in Nat /\ rows[t].peak \in Nat
               /\ t < rows[t].peak
               /\ \A u \in Time : t < u /\ u <= rows[t].peak => weight[u] <= weight[rows[t].peak]
    <2>1. PICK e : e = [start |-> t, peak |-> rows[t].peak]
      OBVIOUS
    <2>2. Rise(e, now) /\ e.start = t /\ e.peak = rows[t].peak
      BY <2>1 DEF HistoryInv, RowsFit
    <2> QED
      BY <1>1, <2>2 DEF Rise
  <1> QED
    BY <1>1, <1>2

LEMMA ReadEventsStep ==
    ASSUME HistoryInv, NEW s \in Scanners, ReadRow(s)
    PROVE  HistoryInv'
  <1>0. /\ HistoryTypes /\ op \in [status : Statuses \cup {"none"}, queued : BOOLEAN] /\ collected \subseteq Event
        /\ UNCHANGED <<weight, now, rows, op, collected>> /\ scan[s].pc = "read" /\ scan[s] \in ScanStates
        /\ scan[s].events \in SUBSET Event
    BY DEF HistoryInv, HistoryTypes, ReadRow, ScanStates
  <1>1. Starts' = Starts /\ \A t \in Starts : rows'[t].peak = rows[t].peak
    BY <1>0 DEF Starts
  <1>2. now \in Nat /\ now' = now /\ now <= now /\ weight' = weight
    BY <1>0, TimeSteps
  <1>3. CASE scan[s].events = {}
    <2> DEFINE new == [scan[s] EXCEPT !.pc = "end"]
    <2>1. scan' = [scan EXCEPT ![s] = new]
      BY <1>3 DEF ReadRow, Step
    <2>2. new \in ScanStates /\ new.pc = "end" /\ new.events = {} /\ new.deleted = scan[s].deleted
          /\ new.found = scan[s].found
      BY <1>0, <1>3 DEF ScanStates
    <2> HIDE DEF new
    <2>3. scan'[s] = new /\ \A r \in Scanners : r # s => scan'[r] = scan[r]
      BY <1>0, <2>1 DEF HistoryTypes
    <2>4. ScanFits(s)'
      BY <2>2, <2>3 DEF ScanFits
    <2>5. DeletedFits(s)'
      BY <1>0, <1>1, <2>2, <2>3 DEF DeletedFits, HistoryInv
    <2>6. CollectedFits'
      <3>1. CASE s # Worker
        <4>1. WorkerKeeps
          BY <2>3, <3>1, HistoryBounds DEF WorkerKeeps
        <4> QED
          BY <1>0, <1>1, <4>1, CollectedStay
      <3>2. CASE s = Worker
        <4>1. op'.status # "success"
          BY <1>0, <3>2 DEF HistoryInv, CollectedFits
        <4>2. AtHandOrShown'
          <5>1. \A e \in collected : \E t \in Starts : Shows(t, e)
            BY <1>0, <1>3, <3>2 DEF HistoryInv, CollectedFits, AtHandOrShown, Collecting
          <5> QED
            BY <1>0, <1>1, <5>1 DEF AtHandOrShown, Shows
        <4> QED
          BY <2>2, <2>3, <3>2, <4>1, <4>2 DEF CollectedFits, FoundShows
      <3> QED
        BY <3>1, <3>2
    <2> QED
      BY <1>0, <2>1, <2>2, <2>4, <2>5, <2>6, ScanMoves
  <1>4. CASE scan[s].events # {}
    <2> DEFINE e   == NextEvent(s)
               row == Match(e)
               peak == IF row = e.start /\ ~rows[row].invalid THEN rows[row].peak ELSE e.peak
               new == [scan[s] EXCEPT !.pc = "write", !.found = row, !.peak = peak]
    <2>1. scan' = [scan EXCEPT ![s] = new]
      BY <1>4 DEF ReadRow, Step
    <2>2. e \in scan[s].events /\ Rise(e, now) /\ e \in Event
      <3>1. e \in scan[s].events
        BY <1>0, <1>4, NextIs
      <3> QED
        BY <1>0, <3>1 DEF HistoryInv, ScanFits
    <2>3. /\ row = 0 \/ row \in Starts
          /\ row = 0 => \A t \in Starts : t # e.start /\ rows[t].peak # e.peak
          /\ row \notin {0, e.start} => rows[row].peak = e.peak
      BY <1>0, <2>2, MatchIs
    <2>4. /\ e.start \in Time /\ e.peak \in Time /\ e.start \in Nat /\ e.peak \in Nat /\ e.start # 0
          /\ e.start < e.peak
      BY <2>2, RiseIs
    <2>5. row \in 0..MaxTime /\ peak \in Time
      <3>1. row \in Starts => row \in Time /\ rows[row].peak \in Time
        BY RiseIs
      <3>2. row = e.start => row \in Starts
        BY <2>3, <2>4
      <3> QED
        BY <2>3, <2>4, <3>1, <3>2, HistoryBounds DEF Time
    <2>6. row # 0 => row \in Starts /\ Shows(row, e)
      <3> SUFFICES ASSUME row # 0 PROVE row \in Starts /\ Shows(row, e)
        OBVIOUS
      <3>1. row \in Starts /\ row < rows[row].peak /\ row \in Nat /\ rows[row].peak \in Nat
        BY <2>3, RiseIs
      <3>2. CASE row = e.start
        BY <2>4, <3>1, <3>2 DEF Shows
      <3>3. CASE row # e.start
        BY <2>3, <2>4, <3>1, <3>3 DEF Shows
      <3> QED
        BY <3>2, <3>3
    <2>7. row = e.start \/ peak = e.peak
      OBVIOUS
    <2> HIDE DEF row, e, peak
    <2>8. /\ new \in ScanStates /\ new.pc = "write" /\ new.events = scan[s].events /\ new.found = row
          /\ new.peak = peak /\ new.deleted = scan[s].deleted
      BY <1>0, <2>5 DEF ScanStates
    <2> HIDE DEF new
    <2>9. scan'[s] = new /\ \A r \in Scanners : r # s => scan'[r] = scan[r]
      BY <1>0, <2>1 DEF HistoryTypes
    <2>10. NextEvent(s)' = e
      BY <2>8, <2>9, NextStays DEF e
    <2>11. ScanFits(s)'
      <3>1. row = 0 => e.peak \notin scan[s].deleted
        BY <2>3 DEF HistoryInv, DeletedFits
      <3>2. \A f \in scan'[s].events : Rise(f, now)'
        BY <1>2, <2>8, <2>9, RiseStays DEF HistoryInv, ScanFits
      <3> QED
        BY <1>4, <2>7, <2>8, <2>9, <2>10, <3>1, <3>2 DEF ScanFits
    <2>12. DeletedFits(s)'
      BY <1>0, <1>1, <2>8, <2>9 DEF DeletedFits, HistoryInv
    <2>13. CollectedFits'
      <3>1. CASE s # Worker
        <4>1. WorkerKeeps
          BY <2>9, <3>1, HistoryBounds DEF WorkerKeeps
        <4> QED
          BY <1>0, <1>1, <4>1, CollectedStay
      <3>2. CASE s = Worker
        <4>1. op'.status # "success"
          BY <1>0, <3>2 DEF HistoryInv, CollectedFits
        <4>2. AtHandOrShown'
          <5>1. \A f \in collected : f \in scan[s].events \/ \E t \in Starts : Shows(t, f)
            BY <1>0, <3>2 DEF HistoryInv, CollectedFits, AtHandOrShown, Collecting
          <5> QED
            BY <1>0, <1>1, <2>8, <2>9, <3>2, <5>1 DEF AtHandOrShown, Shows
        <4>3. FoundShows'
          BY <1>0, <1>1, <2>6, <2>8, <2>9, <2>10, <3>2 DEF FoundShows, Shows
        <4> QED
          BY <4>1, <4>2, <4>3 DEF CollectedFits
      <3> QED
        BY <3>1, <3>2
    <2> QED
      BY <1>0, <2>1, <2>8, <2>11, <2>12, <2>13, ScanMoves
  <1> QED
    BY <1>3, <1>4

\* What a scan has at hand when it writes.
LEMMA WriteIs ==
    ASSUME HistoryInv, NEW s \in Scanners, scan[s].pc = "write"
    PROVE  LET e == NextEvent(s) IN
           /\ e \in scan[s].events /\ Rise(e, now) /\ e \in Event
           /\ e.start \in Time /\ e.peak \in Time /\ e.start \in Nat /\ e.peak \in Nat
           /\ e.start # 0 /\ e.start < e.peak
           /\ scan[s] \in ScanStates
           /\ After(s) \in ScanStates /\ After(s).pc = "read" /\ After(s).events = scan[s].events \ {e}
           /\ After(s).deleted = scan[s].deleted
           /\ s = Worker => op.status # "success"
  <1> DEFINE e == NextEvent(s)
  <1>1. scan[s] \in ScanStates /\ scan[s].events # {} /\ scan[s].events \in SUBSET Event
        /\ scan[s].deleted \in SUBSET Time
    BY DEF HistoryInv, HistoryTypes, ScanFits, ScanStates
  <1>2. e \in scan[s].events
    BY <1>1, NextIs
  <1>3. Rise(e, now)
    BY <1>2 DEF HistoryInv, ScanFits
  <1>4. /\ After(s) \in ScanStates /\ After(s).pc = "read" /\ After(s).events = scan[s].events \ {e}
        /\ After(s).deleted = scan[s].deleted
    <2> HIDE DEF e
    <2> DEFINE es == scan[s].events \ {e}
               ds == scan[s].deleted
    <2>1. es \in SUBSET Event /\ ds \in SUBSET Time /\ NoScan \in ScanStates
      BY <1>1, IdleIs
    <2>2. After(s) = [NoScan EXCEPT !.pc = "read", !.events = es, !.deleted = ds]
      BY DEF After, e
    <2> HIDE DEF es, ds
    <2>3. After(s) \in ScanStates /\ After(s).pc = "read" /\ After(s).events = es /\ After(s).deleted = ds
      BY <2>1, <2>2 DEF ScanStates
    <2> QED
      BY <2>3 DEF es, ds
  <1>5. s = Worker => op.status # "success"
    BY DEF HistoryInv, CollectedFits
  <1> HIDE DEF e
  <1>6. /\ e \in Event /\ e.start \in Time /\ e.peak \in Time /\ e.start \in Nat /\ e.peak \in Nat
        /\ e.start # 0 /\ e.start < e.peak
    BY <1>3, RiseIs
  <1> QED
    BY <1>1, <1>2, <1>3, <1>4, <1>5, <1>6 DEF e

\* The write fails.
LEMMA FailStep ==
    ASSUME HistoryInv, NEW s \in Scanners, scan[s].pc = "write", Failed(s), UNCHANGED <<weight, now, op>>
    PROVE  HistoryInv'
  <1>0. HistoryTypes /\ op \in [status : Statuses \cup {"none"}, queued : BOOLEAN] /\ collected \subseteq Event
        /\ UNCHANGED <<rows, collected>>
    BY DEF HistoryInv, HistoryTypes, Failed
  <1> DEFINE new == [NoScan EXCEPT !.pc = "failed"]
  <1>1. scan' = [scan EXCEPT ![s] = new]
    BY DEF Failed, Step
  <1>2. new \in ScanStates /\ new.pc = "failed" /\ new.events = {} /\ new.deleted = {}
    BY IdleIs DEF ScanStates
  <1> HIDE DEF new
  <1>3. scan'[s] = new /\ \A r \in Scanners : r # s => scan'[r] = scan[r]
    BY <1>0, <1>1 DEF HistoryTypes
  <1>4. ScanFits(s)' /\ DeletedFits(s)'
    BY <1>2, <1>3 DEF ScanFits, DeletedFits
  <1>5. CollectedFits'
    <2>1. CASE s # Worker
      <3>1. WorkerKeeps
        BY <1>3, <2>1, HistoryBounds DEF WorkerKeeps
      <3>2. Starts' = Starts /\ \A t \in Starts : rows'[t].peak = rows[t].peak
        BY <1>0 DEF Starts
      <3> QED
        BY <1>0, <3>1, <3>2, CollectedStay
    <2>2. CASE s = Worker
      <3>1. op'.status # "success"
        BY <2>2, WriteIs
      <3> QED
        BY <1>2, <1>3, <2>2, <3>1 DEF CollectedFits, AtHandOrShown, FoundShows, Collecting
    <2> QED
      BY <2>1, <2>2
  <1> QED
    BY <1>0, <1>1, <1>2, <1>4, <1>5, ScanMoves

\* The event is dealt with: it has a row, and every row shows what it did.
LEMMA CollectedAfter ==
    ASSUME HistoryInv, NEW s \in Scanners, scan[s].pc = "write",
           UNCHANGED op, collected' \subseteq collected,
           \A r \in Scanners : r # s => /\ scan'[r].pc = scan[r].pc /\ scan'[r].events = scan[r].events
                                        /\ scan'[r].found = scan[r].found,
           scan'[s].pc = "read", scan'[s].events = scan[s].events \ {NextEvent(s)},
           \A t \in Starts : \A f \in collected' : Shows(t, f) => t \in Starts' /\ Shows(t, f)',
           NextEvent(s) \in collected' => \E t \in Starts' : \E f : f = NextEvent(s) /\ Shows(t, f)'
    PROVE  CollectedFits'
  <1>1. CASE s # Worker
    <2>1. WorkerKeeps
      BY <1>1, HistoryBounds DEF WorkerKeeps
    <2> QED
      BY <2>1, CollectedKept
  <1>2. CASE s = Worker
    <2>1. op'.status # "success"
      BY <1>2, WriteIs
    <2>2. AtHandOrShown'
      <3> SUFFICES ASSUME NEW f \in collected'
                   PROVE  f \in scan'[Worker].events \/ \E t \in Starts' : Shows(t, f)'
        BY DEF AtHandOrShown
      <3>1. f \in scan[Worker].events \/ \E t \in Starts : Shows(t, f)
        BY <1>2 DEF HistoryInv, CollectedFits, AtHandOrShown, Collecting
      <3>2. CASE f = NextEvent(s)
        BY <3>2
      <3>3. CASE f # NextEvent(s)
        BY <1>2, <3>1, <3>3
      <3> QED
        BY <3>2, <3>3
    <2> QED
      BY <1>2, <2>1, <2>2 DEF CollectedFits, FoundShows
  <1> QED
    BY <1>1, <1>2

\* The row is not to be written.
LEMMA SkipStep ==
    ASSUME HistoryInv, NEW s \in Scanners, scan[s].pc = "write", scan[s].found # 0,
           Stored(s), UNCHANGED <<rows, weight, now, op>>
    PROVE  HistoryInv'
  <1>0. /\ HistoryTypes /\ op \in [status : Statuses \cup {"none"}, queued : BOOLEAN] /\ collected \subseteq Event
        /\ UNCHANGED collected /\ scan' = [scan EXCEPT ![s] = After(s)]
    BY DEF HistoryInv, HistoryTypes, Stored, Step
  <1>1. /\ After(s) \in ScanStates /\ After(s).pc = "read" /\ After(s).events = scan[s].events \ {NextEvent(s)}
        /\ After(s).deleted = scan[s].deleted
    BY WriteIs
  <1>2. scan'[s] = After(s) /\ \A r \in Scanners : r # s => scan'[r] = scan[r]
    BY <1>0 DEF HistoryTypes
  <1>3. Starts' = Starts /\ \A t \in Starts : rows'[t].peak = rows[t].peak
    BY DEF Starts
  <1>4. now \in Nat /\ now' = now /\ now <= now /\ weight' = weight
    BY <1>0, TimeSteps
  <1>5. ScanFits(s)'
    <2>1. \A e \in scan'[s].events : Rise(e, now)'
      BY <1>1, <1>2, <1>4, RiseStays DEF HistoryInv, ScanFits
    <2> QED
      BY <1>1, <1>2, <2>1 DEF ScanFits
  <1>6. DeletedFits(s)'
    BY <1>1, <1>2, <1>3 DEF DeletedFits, HistoryInv
  <1>7. CollectedFits'
    <2>1. CASE s # Worker
      <3>1. WorkerKeeps
        BY <1>2, <2>1, HistoryBounds DEF WorkerKeeps
      <3> QED
        BY <1>0, <1>3, <3>1, CollectedStay
    <2>2. CASE s = Worker
      <3>1. \A t \in Starts : \A f : Shows(t, f) => Shows(t, f)'
        BY <1>3 DEF Shows
      <3>2. NextEvent(s) \in collected => \E t \in Starts : \E f : f = NextEvent(s) /\ Shows(t, f)
        BY <2>2 DEF HistoryInv, CollectedFits, FoundShows
      <3>3. NextEvent(s) \in collected' => \E t \in Starts' : \E f : f = NextEvent(s) /\ Shows(t, f)'
        BY <1>0, <1>3, <3>1, <3>2
      <3>4. \A t \in Starts : \A f \in collected' : Shows(t, f) => t \in Starts' /\ Shows(t, f)'
        BY <1>3, <3>1
      <3> QED
        BY <1>0, <1>1, <1>2, <3>3, <3>4, CollectedAfter
    <2> QED
      BY <2>1, <2>2
  <1> QED
    BY <1>0, <1>1, <1>5, <1>6, <1>7, ScanMoves

\* Every scan but this one stays where it was, and this one reads on.
LEMMA ScansAfter ==
    ASSUME HistoryInv, NEW s \in Scanners, scan[s].pc = "write", UNCHANGED <<weight, now>>,
           \A r \in Scanners : r # s => /\ scan'[r].pc = scan[r].pc /\ scan'[r].events = scan[r].events
                                        /\ scan'[r].found = scan[r].found /\ scan'[r].peak = scan[r].peak
                                        /\ scan'[r].deleted \subseteq scan[r].deleted,
           scan'[s].pc = "read", scan'[s].events = scan[s].events \ {NextEvent(s)}
    PROVE  \A r \in Scanners : ScanFits(r)'
  <1>1. now \in Nat /\ now' = now /\ now <= now /\ weight' = weight
    BY TimeSteps DEF HistoryInv
  <1>2. ASSUME NEW r \in Scanners, r # s PROVE ScanFits(r)'
    BY <1>1, <1>2, ScanFitsStay DEF HistoryInv
  <1>3. ScanFits(s)'
    <2>1. \A e \in scan'[s].events : Rise(e, now)'
      BY <1>1, RiseStays DEF HistoryInv, ScanFits
    <2> QED
      BY <2>1 DEF ScanFits
  <1> QED
    BY <1>2, <1>3

\* The event gets a row.
LEMMA NewStep ==
    ASSUME HistoryInv, NEW s \in Scanners, scan[s].pc = "write", NextEvent(s).start \notin Starts,
           rows' = [rows EXCEPT ![NextEvent(s).start] = NewRow(NextEvent(s))],
           Stored(s), UNCHANGED <<weight, now, op>>
    PROVE  HistoryInv'
  <1> DEFINE e == NextEvent(s)
  <1>0. /\ HistoryTypes /\ UNCHANGED collected /\ scan' = [scan EXCEPT ![s] = After(s)]
        /\ collected \subseteq Event
    BY DEF HistoryInv, HistoryTypes, Stored, Step
  <1>1. /\ After(s) \in ScanStates /\ After(s).pc = "read" /\ After(s).events = scan[s].events \ {e}
        /\ After(s).deleted = scan[s].deleted
        /\ Rise(e, now) /\ e.start \in Time /\ e.peak \in Time /\ e.start < e.peak
    BY WriteIs
  <1> HIDE DEF e
  <1>2. NewRow(e) \in EventRows /\ NewRow(e).id # 0 /\ NewRow(e).peak = e.peak
    <2>1. Cardinality(Starts) \in Nat /\ Cardinality(Starts) + 1 <= MaxTime
      <3>1. IsFiniteSet(Time) /\ Cardinality(Time) = MaxTime
        BY HistoryBounds, FS_Interval DEF Time
      <3>2. Starts \subseteq Time /\ Starts # Time
        BY <1>1 DEF Starts, e
      <3>3. Cardinality(Starts) < Cardinality(Time) /\ IsFiniteSet(Starts)
        <4>1. /\ IsFiniteSet(Starts) /\ Cardinality(Starts) <= Cardinality(Time)
              /\ Cardinality(Time) # Cardinality(Starts)
          BY <3>1, <3>2, FS_Subset
        <4>2. Cardinality(Starts) \in Nat
          BY <4>1, FS_CardinalityType
        <4> QED
          BY <3>1, <4>1, <4>2, HistoryBounds
      <3>4. Cardinality(Starts) \in Nat
        BY <3>3, FS_CardinalityType
      <3> QED
        BY <3>1, <3>3, <3>4, HistoryBounds
    <2>2. Cardinality(Starts) + 1 \in 0..MaxTime /\ Cardinality(Starts) + 1 # 0
      BY <2>1, HistoryBounds
    <2> QED
      BY <1>1, <2>2 DEF NewRow, NoRow, EventRows
  <1>3. /\ rows' \in [Time -> EventRows] /\ rows'[e.start] = NewRow(e)
        /\ \A t \in Time : t # e.start => rows'[t] = rows[t]
    BY <1>0, <1>1, <1>2 DEF HistoryTypes, e
  <1>4. Starts' = Starts \cup {e.start} /\ \A t \in Starts : rows'[t] = rows[t] /\ t \in Starts'
    BY <1>1, <1>2, <1>3 DEF Starts, e
  <1>5. scan'[s] = After(s) /\ \A r \in Scanners : r # s => scan'[r] = scan[r]
    BY <1>0 DEF HistoryTypes
  <1>6. HistoryTypes'
    <2>1. scan' \in [Scanners -> ScanStates]
      BY <1>0, <1>1 DEF HistoryTypes
    <2> QED
      BY <1>0, <1>3, <2>1 DEF HistoryTypes
  <1>7. RowsFit'
    <2> SUFFICES ASSUME NEW t \in Starts'
                 PROVE  Rise([start |-> t, peak |-> rows[t].peak], now)'
      BY DEF RowsFit
    <2>1. PICK f : f = [start |-> t, peak |-> rows'[t].peak]
      OBVIOUS
    <2>2. Rise(f, now)
      <3>1. CASE t \in Starts
        BY <1>4, <2>1, <3>1 DEF HistoryInv, RowsFit
      <3>2. CASE t = e.start
        <4>1. f = e
          <5>1. e \in Event
            BY <1>1 DEF Rise
          <5>2. f = [start |-> e.start, peak |-> e.peak]
            BY <1>2, <1>3, <2>1, <3>2
          <5> QED
            BY <5>1, <5>2 DEF Event
        <4> QED
          BY <1>1, <4>1
      <3> QED
        BY <1>4, <3>1, <3>2
    <2> QED
      BY <2>1, <2>2 DEF Rise, Amount
  <1>8. \A r \in Scanners : ScanFits(r)'
    BY <1>1, <1>5, ScansAfter DEF e
  <1>9. ASSUME NEW r \in Scanners PROVE DeletedFits(r)'
    <2>1. scan'[r].deleted = scan[r].deleted
      BY <1>1, <1>5
    <2> QED
      BY <1>4, <2>1 DEF DeletedFits, HistoryInv
  <1>10. CollectedFits'
    <2>1. \A t \in Starts : \A f \in collected' : Shows(t, f) => t \in Starts' /\ Shows(t, f)'
      BY <1>4 DEF Shows
    <2>2. \E t \in Starts' : \E f : f = NextEvent(s) /\ Shows(t, f)'
      <3>1. PICK t \in Starts' : t = e.start
        BY <1>4
      <3>2. PICK f : f = e
        OBVIOUS
      <3>3. Shows(t, f)'
        BY <1>1, <1>2, <1>3, <3>1, <3>2 DEF Shows
      <3> QED
        BY <3>2, <3>3 DEF e
    <2> QED
      BY <1>0, <1>1, <1>5, <2>1, <2>2, CollectedAfter DEF e
  <1> QED
    BY <1>6, <1>7, <1>8, <1>9, <1>10 DEF HistoryInv

\* The event's row grows to its peak.
LEMMA GrowStep ==
    ASSUME HistoryInv, NEW s \in Scanners, scan[s].pc = "write", scan[s].found \in Starts,
           Amount(scan[s].found, scan[s].peak) < Amount(scan[s].found, NextEvent(s).peak),
           Grow(s, scan[s].found, [rows[scan[s].found] EXCEPT !.peak = NextEvent(s).peak]),
           UNCHANGED <<weight, now, op>>
    PROVE  HistoryInv'
  <1> DEFINE e == NextEvent(s)
             row == scan[s].found
             new == [rows[row] EXCEPT !.peak = e.peak]
             moved == IF rows[row].invalid THEN {rows[row].peak} ELSE {}
             scanned == [scan EXCEPT ![s] = After(s)]
  <1>0. /\ HistoryTypes /\ weight \in [Time -> Weights] /\ collected \subseteq Event
        /\ rows \in [Time -> EventRows] /\ scan \in [Scanners -> ScanStates]
    BY DEF HistoryInv, HistoryTypes
  <1>1. /\ After(s) \in ScanStates /\ After(s).pc = "read" /\ After(s).events = scan[s].events \ {e}
        /\ After(s).deleted = scan[s].deleted
        /\ Rise(e, now) /\ e.start \in Time /\ e.peak \in Time /\ e.start < e.peak
        /\ e.start \in Nat /\ e.peak \in Nat /\ scan[s] \in ScanStates
    BY WriteIs
  <1>2. /\ rows' = [rows EXCEPT ![row] = new]
        /\ scan' = [r \in Scanners |-> [scanned[r] EXCEPT !.deleted = @ \ moved]]
        /\ collected' = IF rows[row].peak = scan[s].peak THEN collected
                        ELSE {f \in collected : ~Shows(row, f)}
    BY DEF Grow
  <1>3. weight[e.start] \in Nat /\ weight[e.peak] \in Nat /\ weight[scan[s].peak] \in Nat
    <2>1. scan[s].peak \in Time
      BY <1>1 DEF ScanStates
    <2>2. \A t \in Time : weight[t] \in Nat
      BY <1>0, HistoryBounds
    <2> QED
      BY <1>1, <2>1, <2>2
  <1>4. row \in Time /\ weight[row] \in Nat /\ rows[row] \in EventRows /\ row # 0
    <2>1. row \in Time
      BY DEF Starts
    <2> QED
      BY <1>0, <2>1, HistoryBounds DEF Time
  <1>5. weight[scan[s].peak] < weight[e.peak]
    BY <1>3, <1>4 DEF Amount
  <1>6. row = e.start
    <2>1. row \in {0, e.start} \/ scan[s].peak = e.peak
      BY DEF HistoryInv, ScanFits
    <2> QED
      BY <1>3, <1>4, <1>5, <2>1
  <1> HIDE DEF e, row
  <1>7. new \in EventRows /\ new.peak = e.peak /\ new.id = rows[row].id /\ new.invalid = rows[row].invalid
    BY <1>1, <1>4 DEF EventRows
  <1> HIDE DEF new
  <1>8. rows' \in [Time -> EventRows] /\ rows'[row] = new /\ \A t \in Time : t # row => rows'[t] = rows[t]
    BY <1>0, <1>2, <1>4, <1>7
  <1>9. Starts' = Starts /\ \A t \in Starts : t # row => rows'[t] = rows[t]
    BY <1>7, <1>8 DEF Starts
  <1>10. \A r \in Scanners :
            /\ scan'[r] \in ScanStates /\ scan'[r].deleted = scan[r].deleted \ moved
            /\ r # s => /\ scan'[r].pc = scan[r].pc /\ scan'[r].events = scan[r].events
                        /\ scan'[r].found = scan[r].found /\ scan'[r].peak = scan[r].peak
            /\ r = s => scan'[r].pc = "read" /\ scan'[r].events = scan[s].events \ {e}
    <2> SUFFICES ASSUME NEW r \in Scanners
                 PROVE  /\ scan'[r] \in ScanStates /\ scan'[r].deleted = scan[r].deleted \ moved
                        /\ r # s => /\ scan'[r].pc = scan[r].pc /\ scan'[r].events = scan[r].events
                                    /\ scan'[r].found = scan[r].found /\ scan'[r].peak = scan[r].peak
                        /\ r = s => scan'[r].pc = "read" /\ scan'[r].events = scan[s].events \ {e}
      OBVIOUS
    <2>1. scanned[r] = IF r = s THEN After(s) ELSE scan[r]
      BY <1>0
    <2>2. scanned[r] \in ScanStates /\ scanned[r].deleted = scan[r].deleted
      BY <1>0, <1>1, <2>1
    <2> HIDE DEF scanned, moved
    <2>3. scan'[r] = [scanned[r] EXCEPT !.deleted = scanned[r].deleted \ moved]
      BY <1>2
    <2>4. /\ scan'[r] \in ScanStates /\ scan'[r].deleted = scan[r].deleted \ moved
          /\ scan'[r].pc = scanned[r].pc /\ scan'[r].events = scanned[r].events
          /\ scan'[r].found = scanned[r].found /\ scan'[r].peak = scanned[r].peak
      BY <2>2, <2>3 DEF ScanStates
    <2> QED
      BY <1>1, <2>1, <2>4
  <1>11. HistoryTypes'
    <2>1. scan' \in [Scanners -> ScanStates]
      <3> HIDE DEF scanned, moved
      <3> QED
        BY <1>2, <1>10
    <2>2. collected' \subseteq Event
      BY <1>0, <1>2
    <2> QED
      BY <1>0, <1>8, <2>1, <2>2 DEF HistoryTypes
  <1>12. RowsFit'
    <2> SUFFICES ASSUME NEW t \in Starts'
                 PROVE  Rise([start |-> t, peak |-> rows[t].peak], now)'
      BY DEF RowsFit
    <2>1. PICK f : f = [start |-> t, peak |-> rows'[t].peak]
      OBVIOUS
    <2>2. Rise(f, now)
      <3>1. CASE t # row
        BY <1>9, <2>1, <3>1 DEF HistoryInv, RowsFit
      <3>2. CASE t = row
        <4>1. f = e
          <5>1. e \in Event
            BY <1>1 DEF Rise
          <5>2. f = [start |-> e.start, peak |-> e.peak]
            BY <1>6, <1>7, <1>8, <2>1, <3>2
          <5> QED
            BY <5>1, <5>2 DEF Event
        <4> QED
          BY <1>1, <4>1
      <3> QED
        BY <3>1, <3>2
    <2> QED
      BY <2>1, <2>2 DEF Rise, Amount
  <1>13. \A r \in Scanners : ScanFits(r)'
    BY <1>10, ScansAfter DEF e
  <1>14. ASSUME NEW r \in Scanners PROVE DeletedFits(r)'
    <2> SUFFICES ASSUME NEW p \in scan'[r].deleted
                 PROVE  \E t \in Starts' : rows'[t].invalid /\ rows'[t].peak = p
      BY DEF DeletedFits
    <2>1. p \in scan[r].deleted /\ p \notin moved
      BY <1>10
    <2>2. PICK t \in Starts : rows[t].invalid /\ rows[t].peak = p
      BY <2>1 DEF HistoryInv, DeletedFits
    <2>3. t # row
      BY <2>1, <2>2
    <2> QED
      BY <1>9, <2>2, <2>3
  <1>15. CollectedFits'
    <2>1. ASSUME NEW t \in Starts, NEW f \in collected', Shows(t, f)
          PROVE  t \in Starts' /\ Shows(t, f)'
      <3>1. CASE t # row
        BY <1>9, <2>1, <3>1 DEF Shows
      <3>2. CASE t = row
        <4>1. rows[row].peak = scan[s].peak
          BY <1>2, <2>1, <3>2
        <4>2. /\ rows[row].peak \in Nat
              /\ \A u \in Time : row < u /\ u <= rows[row].peak => weight[u] <= weight[rows[row].peak]
          BY <3>2, RiseIs
        <4>3. ~(e.peak <= rows[row].peak)
          BY <1>1, <1>3, <1>5, <1>6, <4>1, <4>2
        <4>4. f.start \in Nat
          <5>1. f \in Event
            BY <1>0, <1>2
          <5> QED
            BY <5>1, HistoryBounds DEF Event
        <4> QED
          BY <1>1, <1>7, <1>8, <1>9, <2>1, <3>2, <4>2, <4>3, <4>4 DEF Shows
      <3> QED
        BY <3>1, <3>2
    <2>2. \E t \in Starts' : \E f : f = NextEvent(s) /\ Shows(t, f)'
      <3>1. PICK t \in Starts' : t = row
        BY <1>9 DEF row
      <3>2. PICK f : f = e
        OBVIOUS
      <3>3. Shows(t, f)'
        BY <1>1, <1>6, <1>7, <1>8, <3>1, <3>2 DEF Shows
      <3> QED
        BY <3>2, <3>3 DEF e
    <2>3. collected' \subseteq collected
      BY <1>2
    <2> QED
      BY <1>10, <2>1, <2>2, <2>3, CollectedAfter DEF e
  <1> QED
    BY <1>11, <1>12, <1>13, <1>14, <1>15 DEF HistoryInv

LEMMA WriteEventsStep ==
    ASSUME HistoryInv, NEW s \in Scanners, WriteRow(s)
    PROVE  HistoryInv'
  <1>0. scan[s].pc = "write" /\ UNCHANGED <<weight, now, op>>
    BY DEF WriteRow
  <1>1. CASE scan[s].found = 0
    <2>1. \/ Failed(s)
          \/ /\ NextEvent(s).start \notin Starts /\ Stored(s)
             /\ rows' = [rows EXCEPT ![NextEvent(s).start] = NewRow(NextEvent(s))]
      BY <1>1 DEF WriteRow
    <2> QED
      BY <1>0, <2>1, FailStep, NewStep
  <1>2. CASE scan[s].found # 0
    <2>1. \/ Failed(s)
          \/ /\ scan[s].found \in Starts
             /\ Amount(scan[s].found, scan[s].peak) < Amount(scan[s].found, NextEvent(s).peak)
             /\ Grow(s, scan[s].found, [rows[scan[s].found] EXCEPT !.peak = NextEvent(s).peak])
          \/ UNCHANGED rows /\ Stored(s)
      BY <1>2 DEF WriteRow
    <2> QED
      BY <1>0, <1>2, <2>1, FailStep, GrowStep, SkipStep
  <1> QED
    BY <1>1, <1>2

LEMMA HistorySafe == HistorySpec => []HistoryInv
  <1>1. HistoryInit => HistoryInv
    <2> SUFFICES ASSUME HistoryInit PROVE HistoryInv
      OBVIOUS
    <2>1. Starts = {}
      BY DEF HistoryInit, Starts, NoRow
    <2>2. HistoryTypes
      <3>1. NoRow \in EventRows
        BY HistoryBounds DEF NoRow, EventRows
      <3> QED
        BY <3>1, IdleIs, HistoryBounds DEF HistoryInit, HistoryTypes
    <2>3. \A s \in Scanners : ScanFits(s) /\ DeletedFits(s)
      BY IdleIs DEF HistoryInit, ScanFits, DeletedFits
    <2>4. CollectedFits
      BY IdleIs, HistoryBounds DEF HistoryInit, CollectedFits, AtHandOrShown, FoundShows
    <2> QED
      BY <2>1, <2>2, <2>3, <2>4 DEF HistoryInv, RowsFit
  <1>2. HistoryInv /\ [HistoryNext]_historyVars => HistoryInv'
    <2> SUFFICES ASSUME HistoryInv, [HistoryNext]_historyVars PROVE HistoryInv'
      OBVIOUS
    <2>1. CASE UNCHANGED historyVars
      <3>1. UNCHANGED <<weight, now, rows, scan, op, collected>>
        BY <2>1 DEF historyVars
      <3>2. Starts' = Starts /\ \A s : NextEvent(s)' = NextEvent(s)
        BY <3>1 DEF Starts, NextEvent
      <3> QED
        BY <3>1, <3>2
           DEF HistoryInv, HistoryTypes, RowsFit, Rise, Amount, ScanFits, DeletedFits, CollectedFits,
               AtHandOrShown, FoundShows, Collecting, Shows
    <2>2. CASE Sample \/ Enqueue \/ Cancel \/ PopUnscanned
      BY <2>2, NoScanStep
    <2>3. CASE HardDrop
      BY <2>3, DropStep
    <2>4. CASE Collect \/ \E s \in Scanners : Sync(s)
      BY <2>4, QueryStep
    <2>5. CASE Collected \/ WorkerCrash \/ \E s \in Scanners : SyncEnds(s)
      BY <2>5, EndStep
    <2>6. CASE \/ \E s \in Scanners : InvalidateAbove(s) \/ InvalidateDuplicates(s)
               \/ \E t \in Time : Invalidate(t)
      BY <2>6, MarkStep
    <2>7. CASE \E s \in Scanners : ReadRow(s) \/ WriteRow(s)
      BY <2>7, ReadEventsStep, WriteEventsStep
    <2> QED
      BY <2>1, <2>2, <2>3, <2>4, <2>5, <2>6, <2>7 DEF HistoryNext, Scan
  <1> QED
    BY <1>1, <1>2, PTL DEF HistorySpec

\* What the tables and the scans hold, and that every row is of a rise that was
\* measured, by at least the threshold: detect_watering_events and
\* upsert_detected, in any interleaving.
THEOREM HistoryTypeCorrect == HistorySpec => []HistoryTypeOK
  <1>1. HistoryInv => HistoryTypeOK
    <2> SUFFICES ASSUME HistoryInv PROVE HistoryTypeOK
      OBVIOUS
    <2>1. ASSUME NEW t \in Starts
          PROVE  0 < weight[t] /\ t < rows[t].peak /\ rows[t].peak <= now
                 /\ Amount(t, rows[t].peak) >= Threshold
      <3>1. PICK e : e = [start |-> t, peak |-> rows[t].peak]
        OBVIOUS
      <3>2. Rise(e, now) /\ e.start = t /\ e.peak = rows[t].peak
        BY <3>1 DEF HistoryInv, RowsFit
      <3> QED
        BY <3>2 DEF Rise
    <2> QED
      BY <2>1 DEF HistoryTypeOK, HistoryInv, HistoryTypes, EventRows, ScanStates
  <1> QED
    BY <1>1, HistorySafe, PTL

\* A collection that ends in success (statistics_collection) has a row for all
\* that it found, whatever other scans and the users did meanwhile.
THEOREM CollectionStored == HistorySpec => []CollectionIsStored
  <1>1. HistoryInv => CollectionIsStored
    <2> SUFFICES ASSUME HistoryInv, op.status = "success", NEW e \in collected
                 PROVE  \E t \in Starts : Shows(t, e)
      BY DEF CollectionIsStored
    <2>1. scan[Worker].events = {}
      BY HistoryBounds DEF HistoryInv, CollectedFits, ScanFits
    <2> QED
      BY <2>1 DEF HistoryInv, CollectedFits, AtHandOrShown
  <1> QED
    BY <1>1, HistorySafe, PTL

\* A watering that a user deleted stays deleted, although the scans that find
\* it again, or have it at hand, go on: upsert_detected leaves the column alone.
THEOREM DeletedStays == HistorySpec => DeletedStaysDeleted
  <1>1. HistoryInv /\ [HistoryNext]_historyVars
        => [\A t \in Starts : rows[t].invalid => rows'[t].id = 0 \/ rows'[t].invalid]_historyVars
    <2> SUFFICES ASSUME HistoryInv, HistoryNext, NEW t \in Starts, rows[t].invalid
                 PROVE  rows'[t].id = 0 \/ rows'[t].invalid
      OBVIOUS
    <2>0. t \in Time /\ rows \in [Time -> EventRows]
      BY DEF Starts, HistoryInv, HistoryTypes
    <2>1. CASE UNCHANGED rows
      BY <2>1
    <2>2. CASE HardDrop
      BY <2>0, <2>2 DEF HardDrop, NoRow
    <2>3. CASE \E s \in Scanners : InvalidateAbove(s) \/ InvalidateDuplicates(s)
      <3>1. rows'[t] = rows[t] \/ t \in Valid
        BY <2>0, <2>3 DEF InvalidateAbove, InvalidateDuplicates
      <3> QED
        BY <3>1 DEF Valid
    <2>4. CASE \E u \in Time : Invalidate(u)
      <3>1. PICK u \in Time : u \in Valid /\ rows' = [rows EXCEPT ![u].invalid = TRUE]
        BY <2>4 DEF Invalidate
      <3>2. u # t
        BY <3>1 DEF Valid
      <3> QED
        BY <2>0, <3>1, <3>2
    <2>5. ASSUME NEW s \in Scanners, WriteRow(s) PROVE rows'[t].id = 0 \/ rows'[t].invalid
      <3>1. \/ UNCHANGED rows
            \/ /\ NextEvent(s).start \notin Starts
               /\ rows' = [rows EXCEPT ![NextEvent(s).start] = NewRow(NextEvent(s))]
            \/ rows' = [rows EXCEPT ![scan[s].found] = [rows[scan[s].found] EXCEPT !.peak = NextEvent(s).peak]]
        BY <2>5 DEF WriteRow, Failed, Grow
      <3>2. CASE /\ NextEvent(s).start \notin Starts
                 /\ rows' = [rows EXCEPT ![NextEvent(s).start] = NewRow(NextEvent(s))]
        BY <2>0, <3>2
      <3>3. CASE rows' = [rows EXCEPT ![scan[s].found] = [rows[scan[s].found] EXCEPT !.peak = NextEvent(s).peak]]
        <4>1. CASE scan[s].found = t
          <5>1. rows'[t] = [rows[t] EXCEPT !.peak = NextEvent(s).peak] /\ rows[t] \in EventRows
            BY <2>0, <3>3, <4>1
          <5> QED
            BY <5>1 DEF EventRows
        <4>2. CASE scan[s].found # t
          BY <2>0, <3>3, <4>2
        <4> QED
          BY <4>1, <4>2
      <3> QED
        BY <3>1, <3>2, <3>3
    <2>6. Sample \/ Enqueue \/ Cancel \/ PopUnscanned \/ Collect \/ Collected \/ WorkerCrash
          \/ (\E s \in Scanners : ReadRow(s) \/ Sync(s) \/ SyncEnds(s)) => UNCHANGED rows
      BY DEF Sample, Enqueue, Cancel, PopUnscanned, Collect, Collected, WorkerCrash, ReadRow, Sync, SyncEnds
    <2> QED
      BY <2>1, <2>2, <2>3, <2>4, <2>5, <2>6 DEF HistoryNext, Scan
  <1> QED
    BY <1>1, HistorySafe, PTL DEF HistorySpec, DeletedStaysDeleted

\* ... nor does a scan that begins after the deletion store it once more under
\* another start: upsert_detected looks for a row with the peak, deleted or not.
THEOREM DeletedNotRepeated == HistorySpec => DeletedIsNotRepeated
  <1>1. HistoryInv /\ [HistoryNext]_historyVars
        => [\A s \in Scanners, t \in Time :
              scan[s].pc = "write" /\ scan'[s] # scan[s] /\ rows[t].id = 0 /\ rows'[t].id # 0
              => rows'[t].peak \notin scan[s].deleted]_historyVars
    <2> SUFFICES ASSUME HistoryInv, HistoryNext, NEW s \in Scanners, NEW t \in Time,
                        scan[s].pc = "write", scan'[s] # scan[s], rows[t].id = 0, rows'[t].id # 0
                 PROVE  rows'[t].peak \notin scan[s].deleted
      OBVIOUS
    <2>0. /\ rows \in [Time -> EventRows] /\ scan \in [Scanners -> ScanStates] /\ rows' # rows
          /\ t \notin Starts
      BY DEF HistoryInv, HistoryTypes, Starts
    <2>1. ~HardDrop
      BY DEF HardDrop, NoRow
    <2>2. ~ \E r \in Scanners : InvalidateAbove(r) \/ InvalidateDuplicates(r)
      BY <2>0 DEF InvalidateAbove, InvalidateDuplicates, Valid
    <2>3. ~ \E u \in Time : Invalidate(u)
      <3> SUFFICES ASSUME NEW u \in Time, Invalidate(u) PROVE FALSE
        OBVIOUS
      <3>1. u \in Starts /\ rows' = [rows EXCEPT ![u].invalid = TRUE]
        BY DEF Invalidate, Valid
      <3> QED
        BY <2>0, <3>1
    <2>4. Sample \/ Enqueue \/ Cancel \/ PopUnscanned \/ Collect \/ Collected \/ WorkerCrash
          \/ (\E r \in Scanners : ReadRow(r) \/ Sync(r) \/ SyncEnds(r)) => UNCHANGED rows
      BY DEF Sample, Enqueue, Cancel, PopUnscanned, Collect, Collected, WorkerCrash, ReadRow, Sync, SyncEnds
    <2>5. PICK r \in Scanners : WriteRow(r)
      BY <2>0, <2>1, <2>2, <2>3, <2>4 DEF HistoryNext, Scan
    <2>6. /\ scan[r].found = 0 /\ Stored(r) /\ scan[r].pc = "write"
          /\ rows' = [rows EXCEPT ![NextEvent(r).start] = NewRow(NextEvent(r))]
      <3>1. \/ UNCHANGED rows
            \/ /\ scan[r].found = 0 /\ Stored(r)
               /\ rows' = [rows EXCEPT ![NextEvent(r).start] = NewRow(NextEvent(r))]
            \/ /\ scan[r].found \in Starts
               /\ rows' = [rows EXCEPT ![scan[r].found] = [rows[scan[r].found] EXCEPT !.peak = NextEvent(r).peak]]
        BY <2>5 DEF WriteRow, Failed, Grow
      <3>2. CASE /\ scan[r].found \in Starts
                 /\ rows' = [rows EXCEPT ![scan[r].found] = [rows[scan[r].found] EXCEPT !.peak = NextEvent(r).peak]]
        BY <2>0, <3>2
      <3>3. scan[r].pc = "write"
        BY <2>5 DEF WriteRow
      <3> QED
        BY <2>0, <3>1, <3>2, <3>3
    <2>7. s = r
      BY <2>0, <2>6 DEF Stored, Step
    <2>8. t = NextEvent(r).start
      BY <2>0, <2>6
    <2>9. rows'[t].peak = NextEvent(r).peak
      <3>1. rows'[t] = NewRow(NextEvent(r))
        BY <2>0, <2>6, <2>8
      <3>2. NoRow = [id |-> 0, peak |-> 1, invalid |-> FALSE]
        BY DEF NoRow
      <3> QED
        BY <3>1, <3>2 DEF NewRow
    <2> QED
      BY <2>6, <2>7, <2>9 DEF HistoryInv, ScanFits
  <1> QED
    BY <1>1, HistorySafe, PTL DEF HistorySpec, DeletedIsNotRepeated
=============================================================================
