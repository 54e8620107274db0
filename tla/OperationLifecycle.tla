-------------------------- MODULE OperationLifecycle --------------------------
(***************************************************************************)
(* What a client of the backend may rely on about operations: an operation *)
(* appears as queued, shows some progress, and once it shows a terminal    *)
(* status it never again shows an open one.  (It may still trade one       *)
(* terminal status for another: two terminal records can race.)            *)
(***************************************************************************)
EXTENDS OperationStatus

CONSTANTS Ops

VARIABLE seen   \* what the API shows of every operation

Init == seen = [o \in Ops |-> "absent"]

\* New operations become visible.
Appear(o) ==
    /\ seen[o] = "absent"
    /\ seen' = [seen EXCEPT ![o] = "queued"]

\* A status is recorded for some existing operations: a terminal one shows,
\* an open one shows only where nothing terminal does.
Record(S, status) ==
    /\ \A o \in S : seen[o] # "absent"
    /\ seen' = [o \in Ops |->
                  IF o \in S /\ (status \in TerminalStatuses \/ seen[o] \in OpenStatuses)
                  THEN status
                  ELSE seen[o]]

Next ==
    \/ \E o \in Ops : Appear(o)
    \/ \E S \in SUBSET Ops, status \in Statuses : Record(S, status)

Spec == Init /\ [][Next]_seen
=============================================================================
