----------------------------- MODULE OperationLog -----------------------------
(***************************************************************************)
(* class OperationLog of smart_watering/domain/repositories.py: the tables *)
(* "operations" and "operation_events", shared through SQLite by the       *)
(* worker, the supervisor's stale check, the callback node, the public API *)
(* and the CLI, for the operations of one device.                          *)
(*                                                                         *)
(* event() reads the row and later writes it.  The read runs in autocommit *)
(* mode and takes no lock, so writes of other processes fit in between:    *)
(* each call is a Read step, a Commit step (one transaction) and, for a    *)
(* configuration that succeeded, a Confirm step (transactions of its own). *)
(*                                                                         *)
(* Of the events table the model keeps what detail_from_operation derives  *)
(* from it: the last terminal status event, and whether an error event     *)
(* that is a misclassified acknowledgement exists or is the latest error.  *)
(***************************************************************************)
EXTENDS OperationStatus

CONSTANTS
    Ops,            \* operations of the device
    Type,           \* operation_type of each
    Writers,        \* threads and processes that use the log
    Supervisor,     \* the one that runs timeout_stale_controller_results
    MayRecord,      \* the statuses each writer passes to event()
    LegacyOps       \* operations whose acknowledgement an older callback
                    \* node recorded as an error

\* The type of an operation, as far as the log treats it differently.
Types == {"watering_start", "watering_stop", "config", "statistics_collection", "other"}

\* "not_active" stands for an error with the detail "watering_not_active".
EventWords == Statuses \cup {"not_active"}

ASSUME LogAssumption ==
    /\ Type \in [Ops -> Types]
    /\ Supervisor \in Writers
    /\ MayRecord \in [Writers -> SUBSET EventWords]
    /\ LegacyOps \subseteq Ops

VARIABLES
    row,        \* operations.status, "absent" before create()
    outcome,    \* status of the last terminal status event, or "none"
    ack,        \* error event with an acknowledgement's detail: "none",
                \* "latest" (of the error events) or "buried" under others
    calls,      \* the call each writer is inside of
    stale,      \* ids the stale check has selected and not yet timed out
    confirmed   \* config operations whose payload reached the registry

logVars == <<row, outcome, ack, calls, stale, confirmed>>

\* A call: the operations it will write, the status, those of them that a
\* terminal status was committed for since the read, and its next step.
Call == [ops : SUBSET Ops, status : Statuses, late : SUBSET Ops,
         step : {"commit", "confirm"}]

NoCall == [ops |-> {}, status |-> "queued", late |-> {}, step |-> "idle"]

Idle(w) == calls[w].step = "idle"

LogTypeOK ==
    /\ row \in [Ops -> Statuses \cup {"absent"}]
    /\ outcome \in [Ops -> TerminalStatuses \cup {"none"}]
    /\ ack \in [Ops -> {"none", "latest", "buried"}]
    /\ calls \in [Writers -> Call \cup {NoCall}]
    /\ stale \subseteq Ops
    /\ confirmed \subseteq Ops

LogInit ==
    /\ row = [o \in Ops |-> IF o \in LegacyOps THEN "error" ELSE "absent"]
    /\ outcome = [o \in Ops |-> IF o \in LegacyOps THEN "error" ELSE "none"]
    /\ ack = [o \in Ops |-> IF o \in LegacyOps THEN "latest" ELSE "none"]
    /\ calls = [w \in Writers |-> NoCall]
    /\ stale = {}
    /\ confirmed = {}

-----------------------------------------------------------------------------
(* What readers see. *)

\* Mutant: the API shows the row alone.
VisibleFromRow(o) == row[o]

\* The status the API shows: the last terminal event wins over the row.
Visible(o) ==
    IF outcome[o] = "none" THEN row[o]
    ELSE IF outcome[o] = "error" /\ ack[o] # "none" THEN "accepted"
    ELSE outcome[o]

\* Operations the queries by row status call non-terminal.
NonTerminal == {o \in Ops : row[o] \in OpenStatuses}

WateringStarts == {o \in Ops : Type[o] = "watering_start"}

IsCancelled(o) == row[o] = "cancelled"

-----------------------------------------------------------------------------
(* event() *)

\* "watering is not active" is what a stop wants.
Recorded(o, word) ==
    IF word # "not_active" THEN word
    ELSE IF Type[o] = "watering_stop" THEN "success"
    ELSE "error"

\* The row is an error only because an acknowledgement was misread.
Misclassified(o) == row[o] = "error" /\ ack[o] = "latest"

\* The two early returns: the row is terminal, or the status would go back.
Refused(o, status) ==
    \/ row[o] \in TerminalStatuses /\ ~Misclassified(o)
    \/ Rank[status] < Rank[row[o]]

\* An event is added that copies the row's status: if that is "error", the
\* acknowledgement is no longer the latest error event.
BuryAck(S) == ack' = [o \in Ops |-> IF o \in S /\ row[o] = "error" /\ ack[o] = "latest"
                                    THEN "buried" ELSE ack[o]]

\* trace_event without a status of its own.
Trace(o) ==
    /\ row[o] # "absent"
    /\ BuryAck({o})
    /\ UNCHANGED <<row, outcome, calls, stale, confirmed>>

\* The session reads the row.  A refused call only adds its "ignored" event.
EventRead(w, o, word) ==
    LET status == Recorded(o, word) IN
    /\ Idle(w)
    /\ row[o] # "absent"
    /\ IF Refused(o, status)
       THEN BuryAck({o}) /\ UNCHANGED calls
       ELSE /\ calls' = [calls EXCEPT ![w] =
                  [ops |-> {o}, status |-> status, late |-> {}, step |-> "commit"]]
            /\ UNCHANGED ack
    /\ UNCHANGED <<row, outcome, confirmed>>

\* cancel_active_watering_starts and cancel_non_terminal select their rows.
CancelRead(w, S) ==
    /\ Idle(w)
    /\ S \cap NonTerminal # {}
    /\ calls' = [calls EXCEPT ![w] =
           [ops |-> S \cap NonTerminal, status |-> "cancelled", late |-> {}, step |-> "commit"]]
    /\ UNCHANGED <<row, outcome, ack, confirmed>>

\* Calls of others that read before this terminal status are now late.
Overtake(w, S) ==
    [v \in Writers |-> IF v = w \/ calls[v].step # "commit" THEN calls[v]
                       ELSE [calls[v] EXCEPT !.late = @ \cup (S \cap calls[v].ops)]]

\* Mutants: the registry is updated by any result of a config, or never.
AfterCommitAnyResult(w) ==
    IF \E o \in calls[w].ops : Type[o] = "config"
    THEN [calls[w] EXCEPT !.step = "confirm"] ELSE NoCall
AfterCommitUnconfirmed(w) == NoCall
AfterCommit(w) ==
    LET call == calls[w] IN
    IF call.status = "success" /\ \E o \in call.ops : Type[o] = "config"
    THEN [call EXCEPT !.step = "confirm"]
    ELSE NoCall

\* UPDATE operations and INSERT operation_events in one transaction.  Events
\* are ordered by a created_at taken before the read: the event of a late
\* call may sort before (older) or after the one that overtook it.
EventCommit(w) ==
    LET call == calls[w]
        closes == call.status \in TerminalStatuses
    IN
    /\ call.step = "commit"
    /\ row' = [o \in Ops |-> IF o \in call.ops THEN call.status ELSE row[o]]
    /\ \E older \in SUBSET call.late :
         outcome' = [o \in Ops |-> IF closes /\ o \in call.ops \ older
                                   THEN call.status ELSE outcome[o]]
    /\ ack' = [o \in Ops |-> IF o \in call.ops /\ call.status = "error" /\ ack[o] = "latest"
                             THEN "buried" ELSE ack[o]]
    /\ calls' = [(IF closes THEN Overtake(w, call.ops) ELSE calls) EXCEPT ![w] = AfterCommit(w)]
    /\ UNCHANGED <<stale, confirmed>>

\* apply_confirmed_config and confirm_watering_settings, after the commit.
Confirm(w) ==
    /\ calls[w].step = "confirm"
    /\ confirmed' = confirmed \cup calls[w].ops
    /\ calls' = [calls EXCEPT ![w] = NoCall]
    /\ UNCHANGED <<row, outcome, ack, stale>>

\* The process of the writers W dies, or their session rolls back and the
\* exception ends them: their calls and selections are forgotten.
Abort(W) ==
    /\ (\E w \in W : ~Idle(w)) \/ (Supervisor \in W /\ stale # {})
    /\ calls' = [w \in Writers |-> IF w \in W THEN NoCall ELSE calls[w]]
    /\ stale' = IF Supervisor \in W THEN {} ELSE stale
    /\ UNCHANGED <<row, outcome, ack, confirmed>>

-----------------------------------------------------------------------------
(* The other operations of the log. *)

\* create()
Create(o) ==
    /\ row[o] = "absent"
    /\ row' = [row EXCEPT ![o] = "queued"]
    /\ UNCHANGED <<outcome, ack, calls, stale, confirmed>>

\* Mutant: only accepted operations are timed out.
OverdueAccepted == {o \in Ops : row[o] = "accepted"}

\* Rows that wait for a controller's result; how long is left open.
Overdue == {o \in Ops : row[o] \in {"accepted", "running"}
                        /\ Type[o] # "statistics_collection"}

\* timeout_stale_controller_results: the ids are selected ...
StaleSelect ==
    /\ stale = {}
    /\ Idle(Supervisor)
    /\ stale' \in (SUBSET Overdue) \ {{}}
    /\ UNCHANGED <<row, outcome, ack, calls, confirmed>>

\* ... and then timed out, one event() at a time.
StaleTimeout(o) ==
    /\ o \in stale
    /\ EventRead(Supervisor, o, "timeout")
    /\ stale' = stale \ {o}

LogNext ==
    \/ \E o \in Ops : Create(o) \/ Trace(o) \/ StaleTimeout(o)
    \/ StaleSelect
    \/ \E w \in Writers :
         \/ \E o \in Ops, word \in MayRecord[w] : EventRead(w, o, word) /\ UNCHANGED stale
         \/ \E S \in {WateringStarts, Ops} :
              "cancelled" \in MayRecord[w] /\ CancelRead(w, S) /\ UNCHANGED stale
         \/ EventCommit(w)
         \/ Confirm(w)
    \/ \E W \in SUBSET Writers : Abort(W)

LogSpec == LogInit /\ [][LogNext]_logVars

-----------------------------------------------------------------------------
(* Properties. *)

\* Between a read and its commit: the rows a call will write exist; a row that
\* was overtaken has an outcome; the others are still open, so that writing
\* them reopens nothing.  And a terminal row always has a terminal event.
CallsFollowReads ==
    /\ \A w \in Writers :
         /\ calls[w].late \subseteq calls[w].ops
         /\ \A o \in calls[w].ops : row[o] # "absent"
         /\ \A o \in calls[w].late : outcome[o] # "none"
         /\ calls[w].step = "commit" =>
              \A o \in calls[w].ops \ (calls[w].late \cup LegacyOps) : row[o] \in OpenStatuses
    /\ \A o \in Ops : row[o] \in TerminalStatuses => outcome[o] # "none"
    /\ \A o \in Ops : row[o] = "absent" => outcome[o] = "none"
    /\ \A o \in Ops \ LegacyOps : ack[o] = "none"

\* Once the API shows a terminal status it never again shows an open one,
\* although late commits do take the row itself back (repositories.py,
\* detail_from_operation: the terminal event is authoritative).
ClosedStaysClosed ==
    [][\A o \in Ops \ LegacyOps :
         Visible(o) \in TerminalStatuses => Visible(o)' \in TerminalStatuses]_logVars

\* A terminal row is only ever overwritten by a call that read it before it
\* became terminal: the guards of event() and of the bulk cancels stop every
\* call that reads afterwards.
OnlyLateCallsReopen ==
    [][\A o \in Ops \ LegacyOps :
         row[o] \in TerminalStatuses /\ row'[o] # row[o]
           => \E w \in Writers : o \in calls[w].late]_logVars

\* An operation shown as accepted because its acknowledgement was misread can
\* still be finished: event() would take a success for it.
MisreadAckCanFinish ==
    \A o \in LegacyOps :
        row[o] = "error" /\ Visible(o) = "accepted" => ~Refused(o, "success")

\* The log implements the lifecycle clients rely on.
Lifecycle == INSTANCE OperationLifecycle WITH seen <- [o \in Ops |-> Visible(o)]
LifecycleSpec == Lifecycle!Spec
=============================================================================
