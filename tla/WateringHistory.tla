---------------------------- MODULE WateringHistory ----------------------------
(***************************************************************************)
(* The waterings of one plant, detected in its weights.  Weights come in   *)
(* with time; the worker's operation statistics_collection and the CLI's   *)
(* sync scan them over some range, each SELECT and each transaction of a   *)
(* scan a step of its own; users delete what is listed.                    *)
(* Time is the number of the sampling interval, and a row's event_start_at *)
(* and occurred_at are such times: at most one row has a start.            *)
(***************************************************************************)
EXTENDS Integers, FiniteSets, OperationStatus

CONSTANTS
    MaxTime,        \* bound: sampling intervals
    Weights,        \* weights in a series; 0 is a missing sample
    Window,         \* window_sec, in intervals
    Overlap,        \* what a scan reads before its range, in intervals
    Threshold,      \* threshold_g
    MaxAmount,      \* max_amount_g
    Worker,         \* the scanner that executes operations
    Scanners        \* ... and those that the CLI starts

ASSUME HistoryAssumption ==
    /\ {MaxTime, Window, Overlap, Threshold, MaxAmount} \subseteq Nat \ {0}
    /\ Threshold < MaxAmount /\ Weights \subseteq Nat
    /\ Worker \in Scanners

VARIABLES
    weight,     \* the series: [Time -> weight], known up to now
    now,
    rows,       \* plant_watering_events: [Time -> the row with that start]
    scan,       \* [Scanners -> next step, events left, the row and the peak as
                \* read; history: the peaks of the rows deleted before it,
                \* less those that such a row has grown from since]
    op,         \* the worker's operation: its status and whether it is queued
    collected   \* history: the events that the worker's last scan has found
                \* and, as far as it stored them, no other scan has written over

historyVars == <<weight, now, rows, scan, op, collected>>

Time == 1..MaxTime
Event == [start : Time, peak : Time]

NoRow == [id |-> 0, peak |-> 1, invalid |-> FALSE]
Starts == {t \in Time : rows[t].id # 0}
Valid == {t \in Starts : ~rows[t].invalid}
NoScan == [pc |-> "idle", events |-> {}, found |-> 0, peak |-> 1, deleted |-> {}]

HistoryInit ==
    /\ weight \in [Time -> Weights] /\ now = 1
    /\ rows = [t \in Time |-> NoRow]
    /\ scan = [s \in Scanners |-> NoScan]
    /\ op = [status |-> "none", queued |-> FALSE]
    /\ collected = {}

-----------------------------------------------------------------------------
(* detect_watering_events *)

Present(first, last) == {t \in first..last \cap Time : weight[t] > 0}
Latest(S) == CHOOSE t \in S : \A u \in S : u <= t

\* The latest of the greatest weights.
Peak(T) == Latest({t \in T : \A u \in T : weight[u] <= weight[t]})
Amount(start, peak) == weight[peak] - weight[start]
IsWatering(start, peak) == Amount(start, peak) >= Threshold

\* From each rise, the peak of the window that begins with it; the next rise is
\* looked for after the window.
Detected(first, last) ==
    LET from[t \in 1..(MaxTime + Window + 2)] ==
            IF t > last THEN {}
            ELSE LET before == Present(first, t - 1)
                     low    == Latest(before)
                     peak   == Peak(Present(t, IF t + Window < last THEN t + Window ELSE last))
                 IN  IF weight[t] = 0 \/ before = {} THEN from[t + 1]
                     ELSE IF weight[t] <= weight[low] THEN from[t + 1]
                     ELSE (IF IsWatering(low, peak)
                           THEN {[start |-> low, peak |-> peak]} ELSE {})
                          \cup from[t + Window + 1]
    IN  from[IF first < 1 THEN 1 ELSE first]

-----------------------------------------------------------------------------
(* scan_device *)

Sample ==
    /\ now < MaxTime
    /\ now' = now + 1
    /\ UNCHANGED <<weight, rows, scan, op, collected>>

Step(s, new) == scan' = [scan EXCEPT ![s] = new]

\* Prometheus is asked for the range and the time before it, as it is now.
Query(s, new) ==
    \E first \in 1..now :
       Step(s, [new EXCEPT !.pc = "above",
                           !.deleted = {rows[t].peak : t \in Starts \ Valid},
                           !.events = {e \in Detected(first - Overlap, now) : e.peak >= first}])

\* invalidate_above_amount
InvalidateAbove(s) ==
    /\ scan[s].pc = "above"
    /\ rows' = [t \in Time |-> IF t \in Valid /\ Amount(t, rows[t].peak) > MaxAmount
                               THEN [rows[t] EXCEPT !.invalid = TRUE] ELSE rows[t]]
    /\ Step(s, [scan[s] EXCEPT !.pc = "duplicates"])
    /\ UNCHANGED <<weight, now, op, collected>>

\* invalidate_exact_duplicates: all but the oldest row of those alike.
InvalidateDuplicates(s) ==
    /\ scan[s].pc = "duplicates"
    /\ rows' = [t \in Time |->
                  IF t \in Valid /\ \E u \in Starts : /\ rows[u].id < rows[t].id
                                                      /\ rows[u].peak = rows[t].peak
                                                      /\ weight[u] = weight[t]
                  THEN [rows[t] EXCEPT !.invalid = TRUE] ELSE rows[t]]
    /\ Step(s, [scan[s] EXCEPT !.pc = "read"])
    /\ UNCHANGED <<weight, now, op, collected>>

\* The next event, in the order of the starts.
NextEvent(s) == CHOOSE e \in scan[s].events : \A f \in scan[s].events : e.start <= f.start

\* Mutant: rows that are deleted are not looked at.
MatchValid(e) ==
    LET same == {t \in Valid : rows[t].peak = e.peak}
    IN  IF e.start \in Valid THEN e.start
        ELSE IF same = {} THEN 0 ELSE CHOOSE t \in same : \A u \in same : rows[t].id <= rows[u].id

\* The row with the event's start, else one with its time and weight, else 0.
Match(e) ==
    LET same == {t \in Starts : rows[t].peak = e.peak}
    IN  IF e.start \in Starts THEN e.start
        ELSE IF same = {} THEN 0 ELSE CHOOSE t \in same : \A u \in same : rows[t].id <= rows[u].id

\* upsert_detected: the SELECTs.
ReadRow(s) ==
    /\ scan[s].pc = "read"
    /\ IF scan[s].events = {} THEN Step(s, [scan[s] EXCEPT !.pc = "end"])
       ELSE LET e == NextEvent(s)  row == Match(e) IN
            Step(s, [scan[s] EXCEPT
                       !.pc = "write", !.found = row,
                       \* the peak as read: the row's, if it is not to grow
                       !.peak = IF row = e.start /\ ~rows[row].invalid THEN rows[row].peak ELSE e.peak])
    /\ UNCHANGED <<weight, now, rows, op, collected>>

After(s) == [NoScan EXCEPT !.pc = "read", !.events = scan[s].events \ {NextEvent(s)},
                           !.deleted = scan[s].deleted]
Stored(s) == Step(s, After(s)) /\ UNCHANGED collected
Failed(s) == Step(s, [NoScan EXCEPT !.pc = "failed"]) /\ UNCHANGED <<rows, collected>>

NewRow(e) == [NoRow EXCEPT !.id = Cardinality(Starts) + 1, !.peak = e.peak]

\* The row overlaps the event in time.
Shows(t, e) == t < e.peak /\ e.start < rows[t].peak

\* The row becomes new.  Another scan may have written it since it was read.
Grow(s, row, new) ==
    LET scanned == [scan EXCEPT ![s] = After(s)]
        moved == IF rows[row].invalid THEN {rows[row].peak} ELSE {}
    IN  /\ rows' = [rows EXCEPT ![row] = new]
        /\ scan' = [r \in Scanners |-> [scanned[r] EXCEPT !.deleted = @ \ moved]]
        /\ collected' = IF rows[row].peak = scan[s].peak THEN collected
                        ELSE {f \in collected : ~Shows(row, f)}

\* Mutant: a row that grows is valid again.
WriteRevives(s) ==
    LET e == NextEvent(s)  row == scan[s].found IN
    /\ scan[s].pc = "write"
    /\ IF row = 0
       THEN IF e.start \in Starts THEN Failed(s)
            ELSE rows' = [rows EXCEPT ![e.start] = NewRow(e)] /\ Stored(s)
       ELSE IF Amount(row, scan[s].peak) < Amount(row, e.peak)
            THEN IF row \notin Starts THEN Failed(s)
                 ELSE Grow(s, row, [rows[row] EXCEPT !.peak = e.peak, !.invalid = FALSE])
            ELSE UNCHANGED rows /\ Stored(s)
    /\ UNCHANGED <<weight, now, op>>

\* ... and the write: a new row, unless its start was taken meanwhile
\* (IntegrityError), or the columns of a peak that has grown, as read, unless
\* the row is gone (StaleDataError).  The column invalid is left alone.
WriteRow(s) ==
    LET e == NextEvent(s)  row == scan[s].found IN
    /\ scan[s].pc = "write"
    /\ IF row = 0
       THEN IF e.start \in Starts THEN Failed(s)
            ELSE rows' = [rows EXCEPT ![e.start] = NewRow(e)] /\ Stored(s)
       ELSE IF Amount(row, scan[s].peak) < Amount(row, e.peak)
            THEN IF row \notin Starts THEN Failed(s)
                 ELSE Grow(s, row, [rows[row] EXCEPT !.peak = e.peak])
            ELSE UNCHANGED rows /\ Stored(s)
    /\ UNCHANGED <<weight, now, op>>

-----------------------------------------------------------------------------
(* The CLI: sync_detected_watering_history, hard_drop. *)

Sync(s) ==
    /\ s # Worker /\ scan[s].pc = "idle"
    /\ Query(s, NoScan)
    /\ UNCHANGED <<weight, now, rows, op, collected>>

SyncEnds(s) ==
    /\ s # Worker /\ scan[s].pc \in {"end", "failed"}
    /\ Step(s, NoScan)
    /\ UNCHANGED <<weight, now, rows, op, collected>>

HardDrop ==
    /\ Starts # {}
    /\ rows' = [t \in Time |-> NoRow] /\ collected' = {}
    /\ scan' = [s \in Scanners |-> [scan[s] EXCEPT !.deleted = {}]]
    /\ UNCHANGED <<weight, now, op>>

-----------------------------------------------------------------------------
(* The API: delete-watering-history-item. *)

Invalidate(t) ==
    /\ t \in Valid
    /\ rows' = [rows EXCEPT ![t].invalid = TRUE]
    /\ UNCHANGED <<weight, now, scan, op, collected>>

-----------------------------------------------------------------------------
(* The worker: _collect_statistics. *)

\* queue_statistics_collection, by the scheduler or from a card.
Enqueue ==
    /\ ~op.queued
    /\ op' = [status |-> "queued", queued |-> TRUE]
    /\ UNCHANGED <<weight, now, rows, scan, collected>>

\* A card's cancel-operation.
Cancel ==
    /\ op.queued /\ op.status \notin TerminalStatuses
    /\ op' = [op EXCEPT !.status = "cancelled"]
    /\ UNCHANGED <<weight, now, rows, scan, collected>>

\* The operation is over, or its deadline: the command is popped.
PopUnscanned ==
    /\ op.queued /\ scan[Worker].pc = "idle"
    /\ op' = [status |-> IF op.status \in TerminalStatuses THEN op.status ELSE "timeout", queued |-> FALSE]
    /\ UNCHANGED <<weight, now, rows, scan, collected>>

Collect ==
    /\ op.queued /\ op.status \notin TerminalStatuses /\ scan[Worker].pc = "idle"
    /\ op' = [op EXCEPT !.status = "running"]
    /\ Query(Worker, NoScan)
    /\ collected' = scan'[Worker].events
    /\ UNCHANGED <<weight, now, rows>>

\* Mutant: what a scan that failed has stored passes for all of it.
CollectedAnyway ==
    /\ scan[Worker].pc \in {"end", "failed"}
    /\ op' = [status |-> IF op.status \in TerminalStatuses THEN op.status ELSE "success", queued |-> FALSE]
    /\ Step(Worker, NoScan)
    /\ UNCHANGED <<weight, now, rows, collected>>

\* The result, unless it was cancelled; success may come too late.
Collected ==
    /\ scan[Worker].pc \in {"end", "failed"}
    /\ \E result \in IF scan[Worker].pc = "failed" THEN {"error"} ELSE {"success", "timeout"} :
          op' = [status |-> IF op.status \in TerminalStatuses THEN op.status ELSE result, queued |-> FALSE]
    /\ Step(Worker, NoScan)
    /\ UNCHANGED <<weight, now, rows, collected>>

\* The worker dies; its command stays and is executed again.
WorkerCrash ==
    /\ scan[Worker].pc # "idle"
    /\ Step(Worker, NoScan)
    /\ UNCHANGED <<weight, now, rows, op, collected>>

-----------------------------------------------------------------------------

Scan(s) == InvalidateAbove(s) \/ InvalidateDuplicates(s) \/ ReadRow(s) \/ WriteRow(s)

HistoryNext ==
    \/ Sample \/ HardDrop \/ Enqueue \/ Cancel \/ PopUnscanned \/ Collect \/ Collected \/ WorkerCrash
    \/ \E s \in Scanners : Scan(s) \/ Sync(s) \/ SyncEnds(s)
    \/ \E t \in Time : Invalidate(t)

HistorySpec == HistoryInit /\ [][HistoryNext]_historyVars

-----------------------------------------------------------------------------
(* Properties. *)

\* Types; and the rows are of rises that were measured, by at least the threshold.
HistoryTypeOK ==
    /\ weight \in [Time -> Weights] /\ now \in Time
    /\ rows \in [Time -> [id : 0..MaxTime, peak : Time, invalid : BOOLEAN]]
    /\ scan \in [Scanners -> [pc : {"idle", "above", "duplicates", "read", "write", "end", "failed"},
                              events : SUBSET Event, found : 0..MaxTime, peak : Time,
                              deleted : SUBSET Time]]
    /\ op \in [status : Statuses \cup {"none"}, queued : BOOLEAN]
    /\ collected \subseteq Event
    /\ \A t \in Starts : 0 < weight[t] /\ t < rows[t].peak /\ rows[t].peak <= now
                         /\ Amount(t, rows[t].peak) >= Threshold

\* README.md:75-79: a watering that a user deleted stays deleted, although the
\* scans that find it again, or have it at hand, go on.
DeletedStaysDeleted ==
    [][\A t \in Starts : rows[t].invalid => rows'[t].id = 0 \/ rows'[t].invalid]_historyVars

\* ... nor does a scan that begins after the deletion store it once more under
\* another start, although other scans go on: no row is made for the peak of a
\* deleted row, unless that row has grown meanwhile.
DeletedIsNotRepeated ==
    [][\A s \in Scanners, t \in Time :
          scan[s].pc = "write" /\ scan'[s] # scan[s] /\ rows[t].id = 0 /\ rows'[t].id # 0
          => rows'[t].peak \notin scan[s].deleted]_historyVars

\* A collection that ends in success has a row for all it found, deleted or
\* not, whatever other scans and the users did meanwhile; unless a scan wrote
\* over a row that another had written since it was read.
CollectionIsStored ==
    op.status = "success" => \A e \in collected : \E t \in Starts : Shows(t, e)

\* README.md:45: "Larger jumps are retained as invalid anomalies and are not
\* returned to the app": so after a scan that ended in success, when none is at
\* work.  (It is not so: a scan looks for them before it stores its own.)
AnomaliesAreInvalid ==
    op.status = "success" /\ (\A s \in Scanners : scan[s].pc = "idle")
    => \A t \in Valid : Amount(t, rows[t].peak) <= MaxAmount
=============================================================================
