--------------------------- MODULE OperationStatus ---------------------------
(***************************************************************************)
(* The vocabulary of smart_watering/domain/foundation.py: the statuses of  *)
(* an operation, the order the code gives them, and the words a controller *)
(* or the callback node uses for them.                                     *)
(***************************************************************************)
EXTENDS Naturals

OpenStatuses == {"queued", "sending", "accepted", "running"}

TerminalStatuses == {"success", "error", "timeout", "cancelled"}

Statuses == OpenStatuses \cup TerminalStatuses

\* OP_STATUS_RANK: progress may only go up; all terminal statuses are equal.
Rank == [s \in Statuses |->
           CASE s = "queued"   -> 0
             [] s = "sending"  -> 1
             [] s = "accepted" -> 2
             [] s = "running"  -> 3
             [] OTHER          -> 4]

\* The status words the firmware puts into a callback.
CallbackWords == {"received", "started", "success", "error"}

\* normalize_operation_status, for the words the firmware sends.
NormalizeStatus(word) ==
    CASE word = "received" -> "accepted"
      [] word = "started"  -> "running"
      [] word = "success"  -> "success"
      [] OTHER             -> "error"
=============================================================================
