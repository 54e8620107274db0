-------------------------- MODULE OperationLogProofs --------------------------
(***************************************************************************)
(* Proofs about OperationLog, for any sets of operations and writers.      *)
(***************************************************************************)
EXTENDS OperationLog, TLAPS

LogInv == LogTypeOK /\ CallsFollowReads

USE LogAssumption

\* Only calls that will commit have a step to take.
LEMMA CallFields ==
    ASSUME LogTypeOK, NEW w \in Writers
    PROVE  /\ calls[w].ops \subseteq Ops
           /\ calls[w].status \in Statuses
           /\ calls[w].late \subseteq Ops
           /\ calls[w].step \in {"idle", "commit", "confirm"}
           /\ calls[w].step # "idle" => calls[w] \in Call
           /\ calls[w].step = "idle" => calls[w] = NoCall
  BY DEF LogTypeOK, Call, NoCall, Statuses, OpenStatuses, TerminalStatuses

LEMMA RecordedIsStatus ==
    ASSUME NEW o \in Ops, NEW word \in EventWords
    PROVE  Recorded(o, word) \in Statuses
  BY DEF Recorded, EventWords, Statuses, OpenStatuses, TerminalStatuses

\* The two parts of Visible that the proofs need.
LEMMA VisibleOutcome ==
    ASSUME NEW o \in Ops, ack[o] = "none"
    PROVE  Visible(o) = IF outcome[o] = "none" THEN row[o] ELSE outcome[o]
  BY DEF Visible

LEMMA InitInv == LogInit => LogInv
  <1> SUFFICES ASSUME LogInit PROVE LogInv
    OBVIOUS
  <1>1. LogTypeOK
    BY DEF LogInit, LogTypeOK, NoCall, Statuses, OpenStatuses, TerminalStatuses
  <1>2. CallsFollowReads
    BY DEF LogInit, CallsFollowReads, NoCall, OpenStatuses, TerminalStatuses
  <1> QED
    BY <1>1, <1>2 DEF LogInv

\* A call of a writer that was idle begins, over rows that are open.
LEMMA BeginInv ==
    ASSUME LogInv, NEW w \in Writers, NEW S \in SUBSET Ops, NEW status \in Statuses,
           \A o \in S : row[o] # "absent",
           \A o \in S \ LegacyOps : row[o] \in OpenStatuses,
           calls' = [calls EXCEPT ![w] =
               [ops |-> S, status |-> status, late |-> {}, step |-> "commit"]],
           UNCHANGED <<row, outcome, ack, confirmed>>,
           stale' \subseteq Ops
    PROVE  LogInv'
  <1>1. LogTypeOK'
    BY DEF LogInv, LogTypeOK, Call
  <1>2. CallsFollowReads'
    <2>1. ASSUME NEW v \in Writers
          PROVE  /\ calls'[v].late \subseteq calls'[v].ops
                 /\ \A o \in calls'[v].ops : row'[o] # "absent"
                 /\ \A o \in calls'[v].late : outcome'[o] # "none"
                 /\ calls'[v].step = "commit" =>
                      \A o \in calls'[v].ops \ (calls'[v].late \cup LegacyOps) :
                        row'[o] \in OpenStatuses
      BY DEF LogInv, LogTypeOK, CallsFollowReads
    <2> QED
      BY <2>1 DEF LogInv, CallsFollowReads
  <1> QED
    BY <1>1, <1>2 DEF LogInv

\* Calls end without writing a row.
LEMMA EndInv ==
    ASSUME LogInv, NEW W \in SUBSET Writers,
           calls' = [w \in Writers |-> IF w \in W THEN NoCall ELSE calls[w]],
           UNCHANGED <<row, outcome, ack>>,
           stale' \subseteq Ops, confirmed' \subseteq Ops
    PROVE  LogInv'
  <1>1. LogTypeOK'
    BY DEF LogInv, LogTypeOK
  <1>2. CallsFollowReads'
    <2>1. ASSUME NEW v \in Writers
          PROVE  /\ calls'[v].late \subseteq calls'[v].ops
                 /\ \A o \in calls'[v].ops : row'[o] # "absent"
                 /\ \A o \in calls'[v].late : outcome'[o] # "none"
                 /\ calls'[v].step = "commit" =>
                      \A o \in calls'[v].ops \ (calls'[v].late \cup LegacyOps) :
                        row'[o] \in OpenStatuses
      BY DEF LogInv, LogTypeOK, CallsFollowReads, NoCall
    <2> QED
      BY <2>1 DEF LogInv, CallsFollowReads
  <1> QED
    BY <1>1, <1>2 DEF LogInv

\* Rows of misread acknowledgements aside, only ack changes, and not for the
\* operations the invariant speaks of.
LEMMA BuryInv ==
    ASSUME LogInv, NEW S, BuryAck(S),
           UNCHANGED <<row, outcome, calls, confirmed>>,
           stale' \subseteq Ops
    PROVE  LogInv'
  <1>1. LogTypeOK'
    BY DEF LogInv, LogTypeOK, BuryAck
  <1>2. CallsFollowReads'
    BY DEF LogInv, LogTypeOK, CallsFollowReads, BuryAck
  <1> QED
    BY <1>1, <1>2 DEF LogInv

\* The transaction: rows are written, others that read them become late.
LEMMA CommitInv ==
    ASSUME LogInv, NEW w \in Writers, EventCommit(w)
    PROVE  LogInv'
  <1> DEFINE call == calls[w]
             closes == call.status \in TerminalStatuses
             others == IF closes THEN Overtake(w, call.ops) ELSE calls
  <1>0. /\ call \in Call
        /\ call.step = "commit"
        /\ call.ops \subseteq Ops
        /\ call.late \subseteq call.ops
        /\ call.status \in Statuses
    BY CallFields DEF LogInv, EventCommit, CallsFollowReads, Call
  <1>1. PICK older \in SUBSET call.late :
          outcome' = [o \in Ops |-> IF closes /\ o \in call.ops \ older
                                    THEN call.status ELSE outcome[o]]
    BY DEF EventCommit
  <1>2. row' = [o \in Ops |-> IF o \in call.ops THEN call.status ELSE row[o]]
    BY DEF EventCommit
  <1>3. ack' = [o \in Ops |-> IF o \in call.ops /\ call.status = "error" /\ ack[o] = "latest"
                              THEN "buried" ELSE ack[o]]
    BY DEF EventCommit
  <1>4. /\ calls' = [others EXCEPT ![w] = AfterCommit(w)]
        /\ stale' = stale
        /\ confirmed' = confirmed
    BY DEF EventCommit
  <1>5. /\ others \in [Writers -> Call \cup {NoCall}]
        /\ \A v \in Writers \ {w} :
             /\ others[v].ops = calls[v].ops
             /\ others[v].step = calls[v].step
             /\ others[v].late \subseteq calls[v].late \cup call.ops
             /\ others[v].late \subseteq calls[v].ops
             /\ calls[v].step = "commit" /\ closes =>
                  others[v].late = calls[v].late \cup (call.ops \cap calls[v].ops)
             /\ ~(calls[v].step = "commit" /\ closes) => others[v].late = calls[v].late
    BY <1>0 DEF Overtake, LogInv, LogTypeOK, Call, NoCall, CallsFollowReads
  <1>6. /\ AfterCommit(w) \in Call \cup {NoCall}
        /\ AfterCommit(w).step # "commit"
        /\ AfterCommit(w).ops \subseteq call.ops
        /\ AfterCommit(w).late \subseteq call.late
        /\ AfterCommit(w).late \subseteq AfterCommit(w).ops
    BY <1>0 DEF AfterCommit, Call, NoCall
  <1>7. \A o \in Ops : outcome[o] # "none" => outcome'[o] # "none"
    BY <1>0, <1>1 DEF TerminalStatuses, LogInv, LogTypeOK
  <1>8. closes => \A o \in call.ops : outcome'[o] # "none"
    <2>1. \A o \in call.late : outcome[o] # "none"
      BY DEF LogInv, CallsFollowReads
    <2> QED
      BY <1>0, <1>1, <1>7, <2>1 DEF TerminalStatuses
  <1>9. LogTypeOK'
    <2>1. row' \in [Ops -> Statuses \cup {"absent"}]
      BY <1>0, <1>2 DEF LogInv, LogTypeOK
    <2>2. outcome' \in [Ops -> TerminalStatuses \cup {"none"}]
      BY <1>0, <1>1 DEF LogInv, LogTypeOK
    <2>3. ack' \in [Ops -> {"none", "latest", "buried"}]
      BY <1>0, <1>3 DEF LogInv, LogTypeOK
    <2>4. calls' \in [Writers -> Call \cup {NoCall}]
      BY <1>4, <1>5, <1>6
    <2> QED
      BY <2>1, <2>2, <2>3, <2>4, <1>4 DEF LogInv, LogTypeOK
  <1>10. CallsFollowReads'
    <2>1. \A o \in Ops : row[o] # "absent" => row'[o] # "absent"
      BY <1>0, <1>2 DEF Statuses, OpenStatuses, TerminalStatuses
    <2>2. ASSUME NEW v \in Writers
          PROVE  /\ calls'[v].late \subseteq calls'[v].ops
                 /\ \A o \in calls'[v].ops : row'[o] # "absent"
                 /\ \A o \in calls'[v].late : outcome'[o] # "none"
                 /\ calls'[v].step = "commit" =>
                      \A o \in calls'[v].ops \ (calls'[v].late \cup LegacyOps) :
                        row'[o] \in OpenStatuses
      <3>1. CASE v = w
        <4>1. calls'[v] = AfterCommit(w)
          BY <3>1, <1>4, <1>5
        <4>2. /\ \A o \in call.ops : row[o] # "absent"
              /\ \A o \in call.late : outcome[o] # "none"
          BY DEF LogInv, CallsFollowReads
        <4> QED
          BY <4>1, <4>2, <1>0, <1>6, <1>7, <2>1
      <3>2. CASE v # w
        <4>1. calls'[v] = others[v]
          BY <3>2, <1>4, <1>5
        <4>2. /\ calls[v].late \subseteq calls[v].ops
              /\ \A o \in calls[v].ops : row[o] # "absent"
              /\ \A o \in calls[v].late : outcome[o] # "none"
              /\ calls[v].step = "commit" =>
                   \A o \in calls[v].ops \ (calls[v].late \cup LegacyOps) :
                     row[o] \in OpenStatuses
              /\ calls[v].ops \subseteq Ops
          BY CallFields DEF LogInv, CallsFollowReads
        <4>3. \A o \in calls'[v].late : outcome'[o] # "none"
          BY <4>1, <4>2, <3>2, <1>5, <1>7, <1>8
        <4>4. calls'[v].step = "commit" =>
                \A o \in calls'[v].ops \ (calls'[v].late \cup LegacyOps) :
                  row'[o] \in OpenStatuses
          BY <4>1, <4>2, <3>2, <1>0, <1>2, <1>5 DEF Statuses
        <4> QED
          BY <4>1, <4>2, <4>3, <4>4, <3>2, <1>5, <2>1
      <3> QED
        BY <3>1, <3>2
    <2>3. \A o \in Ops : row'[o] \in TerminalStatuses => outcome'[o] # "none"
      BY <1>0, <1>2, <1>7, <1>8 DEF LogInv, CallsFollowReads
    <2>4. \A o \in Ops : row'[o] = "absent" => outcome'[o] = "none"
      <3>1. \A o \in call.ops : row'[o] # "absent"
        BY <1>0, <1>2 DEF Statuses, OpenStatuses, TerminalStatuses
      <3> QED
        BY <3>1, <1>1, <1>2 DEF LogInv, CallsFollowReads
    <2>5. \A o \in Ops \ LegacyOps : ack'[o] = "none"
      BY <1>3 DEF LogInv, CallsFollowReads
    <2> QED
      BY <2>2, <2>3, <2>4, <2>5 DEF CallsFollowReads
  <1> QED
    BY <1>9, <1>10 DEF LogInv

\* event() begins a call, or adds an event that changes no operation.
LEMMA ReadInv ==
    ASSUME LogInv, NEW w \in Writers, NEW o \in Ops, NEW word \in EventWords,
           EventRead(w, o, word), stale' \subseteq Ops
    PROVE  LogInv'
  <1> DEFINE status == Recorded(o, word)
  <1>1. status \in Statuses
    BY RecordedIsStatus
  <1>2. CASE Refused(o, status)
    BY <1>2, BuryInv DEF EventRead
  <1>3. CASE ~Refused(o, status)
    <2>1. /\ calls' = [calls EXCEPT ![w] =
                [ops |-> {o}, status |-> status, late |-> {}, step |-> "commit"]]
          /\ UNCHANGED <<row, outcome, ack, confirmed>>
          /\ row[o] # "absent"
      BY <1>3 DEF EventRead
    <2>2. row[o] \in TerminalStatuses => row[o] = "error" /\ ack[o] = "latest"
      BY <1>3 DEF Refused, Misclassified
    <2>3. o \notin LegacyOps => row[o] \in OpenStatuses
      BY <2>1, <2>2 DEF LogInv, LogTypeOK, CallsFollowReads, Statuses
    <2> DEFINE S == {o}
    <2>4. /\ S \in SUBSET Ops
          /\ \A x \in S : row[x] # "absent"
          /\ \A x \in S \ LegacyOps : row[x] \in OpenStatuses
      BY <2>1, <2>3
    <2> HIDE DEF S, status
    <2> QED
      BY <1>1, <2>1, <2>4, BeginInv DEF S, status
  <1> QED
    BY <1>2, <1>3

LEMMA CreateInv ==
    ASSUME LogInv, NEW o \in Ops, Create(o)
    PROVE  LogInv'
  <1>1. LogTypeOK'
    BY DEF LogInv, LogTypeOK, Create, Statuses, OpenStatuses
  <1>2. \A x \in Ops : row'[x] = IF x = o THEN "queued" ELSE row[x]
    BY DEF LogInv, LogTypeOK, Create
  <1>3. CallsFollowReads'
    BY <1>2, CallFields DEF LogInv, CallsFollowReads, Create, OpenStatuses, TerminalStatuses
  <1> QED
    BY <1>1, <1>3 DEF LogInv

LEMMA CancelReadInv ==
    ASSUME LogInv, NEW w \in Writers, NEW S \in SUBSET Ops,
           CancelRead(w, S), UNCHANGED stale
    PROVE  LogInv'
  <1> DEFINE T == S \cap NonTerminal
  <1>1. /\ T \in SUBSET Ops
        /\ \A o \in T : row[o] # "absent"
        /\ \A o \in T \ LegacyOps : row[o] \in OpenStatuses
    BY DEF NonTerminal, OpenStatuses
  <1>2. /\ calls' = [calls EXCEPT ![w] =
              [ops |-> T, status |-> "cancelled", late |-> {}, step |-> "commit"]]
        /\ UNCHANGED <<row, outcome, ack, confirmed>>
    BY DEF CancelRead
  <1>3. /\ "cancelled" \in Statuses
        /\ stale' \subseteq Ops
    BY DEF Statuses, TerminalStatuses, LogInv, LogTypeOK
  <1> HIDE DEF T
  <1> QED
    BY <1>1, <1>2, <1>3, BeginInv

\* Every step keeps the invariant.
LEMMA NextInv == LogInv /\ [LogNext]_logVars => LogInv'
  <1> SUFFICES ASSUME LogInv, [LogNext]_logVars PROVE LogInv'
    OBVIOUS
  <1>1. ASSUME NEW o \in Ops, Create(o) PROVE LogInv'
    BY <1>1, CreateInv
  <1>2. ASSUME NEW o \in Ops, Trace(o) PROVE LogInv'
    BY <1>2, BuryInv DEF Trace, LogInv, LogTypeOK
  <1>3. ASSUME NEW o \in Ops, StaleTimeout(o) PROVE LogInv'
    <2>1. "timeout" \in EventWords
      BY DEF EventWords, Statuses, TerminalStatuses
    <2>2. stale' \subseteq Ops
      BY <1>3 DEF StaleTimeout, LogInv, LogTypeOK
    <2> QED
      BY <1>3, <2>1, <2>2, ReadInv DEF StaleTimeout
  <1>4. ASSUME StaleSelect PROVE LogInv'
    <2>1. stale' \subseteq Ops
      BY <1>4 DEF StaleSelect, Overdue
    <2> QED
      BY <1>4, <2>1 DEF StaleSelect, LogInv, LogTypeOK, CallsFollowReads
  <1>5. ASSUME NEW w \in Writers, NEW o \in Ops, NEW word \in MayRecord[w],
               EventRead(w, o, word), UNCHANGED stale
        PROVE  LogInv'
    <2>1. word \in EventWords
      BY <1>5
    <2> QED
      BY <1>5, <2>1, ReadInv DEF LogInv, LogTypeOK
  <1>6. ASSUME NEW w \in Writers, NEW S \in {WateringStarts, Ops},
               CancelRead(w, S), UNCHANGED stale
        PROVE  LogInv'
    <2>1. S \in SUBSET Ops
      BY DEF WateringStarts
    <2> QED
      BY <1>6, <2>1, CancelReadInv
  <1>7. ASSUME NEW w \in Writers, EventCommit(w) PROVE LogInv'
    BY <1>7, CommitInv
  <1>8. ASSUME NEW w \in Writers, Confirm(w) PROVE LogInv'
    <2>1. confirmed' \subseteq Ops
      BY <1>8, CallFields DEF Confirm, LogInv, LogTypeOK
    <2>2. calls' = [v \in Writers |-> IF v \in {w} THEN NoCall ELSE calls[v]]
      BY <1>8 DEF Confirm, LogInv, LogTypeOK
    <2>3. stale' \subseteq Ops /\ UNCHANGED <<row, outcome, ack>>
      BY <1>8 DEF Confirm, LogInv, LogTypeOK
    <2>4. {w} \in SUBSET Writers
      OBVIOUS
    <2> QED
      BY <2>1, <2>2, <2>3, <2>4, EndInv
  <1>9. ASSUME NEW W \in SUBSET Writers, Abort(W) PROVE LogInv'
    BY <1>9, EndInv DEF Abort, LogInv, LogTypeOK
  <1>10. CASE UNCHANGED logVars
    BY <1>10 DEF logVars, LogInv, LogTypeOK, CallsFollowReads
  <1> QED
    BY <1>1, <1>2, <1>3, <1>4, <1>5, <1>6, <1>7, <1>8, <1>9, <1>10 DEF LogNext

\* The invariant, for the temporal theorems.
LEMMA LogInvariant == LogSpec => []LogInv
  BY InitInv, NextInv, PTL DEF LogSpec

\* Type correctness of the operation log (repositories.py, OperationLog).
THEOREM LogTypeCorrect == LogSpec => []LogTypeOK
  <1>1. LogInv => LogTypeOK
    BY DEF LogInv
  <1> QED
    BY <1>1, LogInvariant, PTL

\* A write of event() or of a bulk cancel reopens a closed operation only if
\* it was overtaken, and a closed row always has a terminal event.
THEOREM LogSafe == LogSpec => []CallsFollowReads
  <1>1. LogInv => CallsFollowReads
    BY DEF LogInv
  <1> QED
    BY <1>1, LogInvariant, PTL

-----------------------------------------------------------------------------
(* What steps may do. *)

\* The terminal event of an operation is never taken away.
LEMMA OutcomeStays ==
    ASSUME LogInv, [LogNext]_logVars, NEW o \in Ops, outcome[o] # "none"
    PROVE  outcome'[o] # "none"
  <1>1. ASSUME NEW w \in Writers, EventCommit(w) PROVE outcome'[o] # "none"
    BY <1>1, CallFields DEF EventCommit, LogInv, TerminalStatuses
  <1>2. CASE UNCHANGED outcome
    BY <1>2
  <1> QED
    BY <1>1, <1>2 DEF LogNext, logVars, Create, Trace, StaleTimeout, StaleSelect,
                      EventRead, CancelRead, Confirm, Abort

\* Without a misread acknowledgement the API shows the last terminal event,
\* and while there is none, the row, which is then not terminal.
LEMMA VisibleIs ==
    ASSUME LogInv, NEW o \in Ops \ LegacyOps
    PROVE  /\ outcome[o] # "none" => Visible(o) = outcome[o]
           /\ outcome[o] = "none" => Visible(o) = row[o] /\ row[o] \notin TerminalStatuses
           /\ Visible(o) \in TerminalStatuses <=> outcome[o] # "none"
  <1>1. ack[o] = "none"
    BY DEF LogInv, CallsFollowReads
  <1> QED
    BY <1>1 DEF Visible, LogInv, LogTypeOK, CallsFollowReads

\* A closed operation is never shown as open again, for any operations and
\* any number of writers (repositories.py, detail_from_operation).
THEOREM ClosedIsFinal == LogSpec => ClosedStaysClosed
  <1> DEFINE Step == \A o \in Ops \ LegacyOps :
               Visible(o) \in TerminalStatuses => Visible(o)' \in TerminalStatuses
  <1>1. LogInv /\ LogInv' /\ [LogNext]_logVars => [Step]_logVars
    <2> SUFFICES ASSUME LogInv, LogInv', [LogNext]_logVars,
                        NEW o \in Ops \ LegacyOps, Visible(o) \in TerminalStatuses
                 PROVE  Visible(o)' \in TerminalStatuses
      OBVIOUS
    <2>1. outcome[o] # "none"
      BY VisibleIs
    <2>2. outcome'[o] # "none"
      BY <2>1, OutcomeStays
    <2>3. Visible(o)' = outcome'[o]
      BY <2>2 DEF Visible, LogInv, CallsFollowReads
    <2> QED
      BY <2>2, <2>3 DEF LogInv, LogTypeOK
  <1> QED
    BY <1>1, LogInvariant, PTL DEF LogSpec, ClosedStaysClosed

\* A closed row changes only by the commit of a call that was overtaken: the
\* guards of event() and the bulk cancels stop all others.
THEOREM ReopenedByLateCalls == LogSpec => OnlyLateCallsReopen
  <1> DEFINE Step == \A o \in Ops \ LegacyOps :
               row[o] \in TerminalStatuses /\ row'[o] # row[o]
                 => \E w \in Writers : o \in calls[w].late
  <1>1. LogInv /\ [LogNext]_logVars => [Step]_logVars
    <2> SUFFICES ASSUME LogInv, [LogNext]_logVars, NEW o \in Ops \ LegacyOps,
                        row[o] \in TerminalStatuses, row'[o] # row[o]
                 PROVE  \E w \in Writers : o \in calls[w].late
      OBVIOUS
    <2>1. ASSUME NEW x \in Ops, Create(x) PROVE row'[o] = row[o]
      BY <2>1 DEF Create, LogInv, LogTypeOK, TerminalStatuses
    <2>2. PICK w \in Writers : EventCommit(w)
      BY <2>1 DEF LogNext, logVars, Trace, StaleTimeout, StaleSelect,
                  EventRead, CancelRead, Confirm, Abort
    <2>3. o \in calls[w].ops /\ calls[w].step = "commit"
      BY <2>2 DEF EventCommit, LogInv, LogTypeOK
    <2>4. row[o] \notin OpenStatuses
      BY DEF OpenStatuses, TerminalStatuses
    <2>5. o \in calls[w].late
      BY <2>3, <2>4 DEF LogInv, CallsFollowReads
    <2> QED
      BY <2>5
  <1> QED
    BY <1>1, LogInvariant, PTL DEF LogSpec, OnlyLateCallsReopen

-----------------------------------------------------------------------------
(* The log implements the lifecycle. *)

\* What a commit shows is a record of the abstract lifecycle, for the
\* operations that no later terminal event hides.
LEMMA CommitRecords ==
    ASSUME LegacyOps = {}, LogInv, LogInv', NEW w \in Writers, EventCommit(w)
    PROVE  \E S \in SUBSET Ops, status \in Statuses : Lifecycle!Record(S, status)
  <1> DEFINE call == calls[w]
             closes == call.status \in TerminalStatuses
  <1>1. PICK older \in SUBSET call.late :
          outcome' = [o \in Ops |-> IF closes /\ o \in call.ops \ older
                                    THEN call.status ELSE outcome[o]]
    BY DEF EventCommit
  <1>2. row' = [o \in Ops |-> IF o \in call.ops THEN call.status ELSE row[o]]
    BY DEF EventCommit
  <1> DEFINE S == IF closes THEN call.ops \ older ELSE call.ops
  <1>3. /\ call.ops \in SUBSET Ops
        /\ S \in SUBSET Ops
        /\ call.status \in Statuses
        /\ older \subseteq call.ops
        /\ \A o \in older : outcome[o] # "none"
        /\ \A o \in call.ops : row[o] # "absent"
    BY CallFields DEF LogInv, CallsFollowReads
  <1>4. ASSUME NEW o \in Ops
        PROVE  /\ Visible(o) = IF outcome[o] = "none" THEN row[o] ELSE outcome[o]
               /\ Visible(o)' = IF outcome'[o] = "none" THEN row'[o] ELSE outcome'[o]
               /\ Visible(o) \in TerminalStatuses <=> outcome[o] # "none"
    BY DEF Visible, LogInv, LogTypeOK, CallsFollowReads
  <1>5. ASSUME NEW o \in Ops, o \in S
        PROVE  /\ Visible(o) # "absent"
               /\ Visible(o) \notin TerminalStatuses => Visible(o) \in OpenStatuses
    BY <1>3, <1>4, <1>5 DEF LogInv, LogTypeOK, Statuses, TerminalStatuses
  <1>6. ASSUME NEW o \in Ops
        PROVE  Visible(o)' = IF o \in S /\ (closes \/ Visible(o) \in OpenStatuses)
                             THEN call.status ELSE Visible(o)
    <2>1. CASE closes /\ o \in S
      BY <2>1, <1>1, <1>3, <1>4 DEF TerminalStatuses
    <2>2. CASE closes /\ o \notin S
      BY <2>2, <1>1, <1>2, <1>3, <1>4
    <2>3. CASE ~closes /\ o \in S
      BY <2>3, <1>1, <1>2, <1>4, <1>5 DEF OpenStatuses, TerminalStatuses
    <2>4. CASE ~closes /\ o \notin S
      BY <2>4, <1>1, <1>2, <1>4
    <2> QED
      BY <2>1, <2>2, <2>3, <2>4
  <1>7. Lifecycle!Record(S, call.status)
    BY <1>3, <1>5, <1>6 DEF Lifecycle!Record, Lifecycle!TerminalStatuses,
                            Lifecycle!OpenStatuses, TerminalStatuses, OpenStatuses
  <1> QED
    BY <1>3, <1>7

\* Every step of the log is a step of the lifecycle or shows nothing new.
LEMMA LogStepRefines ==
    ASSUME LegacyOps = {}, LogInv, LogInv', [LogNext]_logVars
    PROVE  Lifecycle!Next \/ UNCHANGED [o \in Ops |-> Visible(o)]
  <1>1. ASSUME NEW o \in Ops, Create(o) PROVE Lifecycle!Next
    <2>1. /\ row[o] = "absent" /\ outcome[o] = "none"
          /\ \A x \in Ops : row'[x] = IF x = o THEN "queued" ELSE row[x]
          /\ outcome' = outcome /\ ack' = ack
      BY <1>1 DEF Create, LogInv, LogTypeOK, CallsFollowReads
    <2>2. Lifecycle!Appear(o)
      BY <2>1 DEF Lifecycle!Appear, Visible
    <2> QED
      BY <2>2 DEF Lifecycle!Next
  <1>2. ASSUME NEW w \in Writers, EventCommit(w) PROVE Lifecycle!Next
    BY <1>2, CommitRecords DEF Lifecycle!Next, Lifecycle!Statuses, Statuses,
       Lifecycle!OpenStatuses, Lifecycle!TerminalStatuses, OpenStatuses, TerminalStatuses
  <1>3. CASE UNCHANGED <<row, outcome>>
    BY <1>3 DEF Visible, LogInv, CallsFollowReads
  <1> QED
    BY <1>1, <1>2, <1>3 DEF LogNext, logVars, Trace, StaleTimeout, StaleSelect,
                            EventRead, CancelRead, Confirm, Abort

\* The operation log implements the lifecycle clients rely on, when no
\* acknowledgement was misread as an error.
THEOREM LogImplementsLifecycle ==
    ASSUME LegacyOps = {}
    PROVE  LogSpec => LifecycleSpec
  <1>1. LogInit => Lifecycle!Init
    BY DEF LogInit, Lifecycle!Init, Visible
  <1>2. LogInv /\ LogInv' /\ [LogNext]_logVars
          => [Lifecycle!Next]_([o \in Ops |-> Visible(o)])
    BY LogStepRefines
  <1> QED
    BY <1>1, <1>2, LogInvariant, PTL DEF LogSpec, LifecycleSpec, Lifecycle!Spec
=============================================================================
