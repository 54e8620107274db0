------------------------- MODULE MCDeliveryScenarios -------------------------
(* The delivery under two kinds of requests.  In a behaviour the clients     *)
(* make those of one scenario: a fill and the stop that cancels it, or the   *)
(* same thing asked for twice, cancelled and cleared.  The operations of the *)
(* other scenario stay absent.                                               *)
EXTENDS MCCommandDelivery

VARIABLE scenario

\* The two equal commands may change places: Key is used for comparing alone.
MCSymmetry == Permutations({other, other2})

ScenarioOps == IF scenario = "stop" THEN {start, stop} ELSE {other, other2}

ScenarioRequests(c) ==
    CASE scenario = "stop" /\ c = client      -> {"fill", "stop"}
      [] scenario = "requests" /\ c = client  -> {"ask", "cancel"}
      [] scenario = "requests" /\ c = client2 -> {"clear"}
      [] OTHER                                -> {}

\* What an idle client begins belongs to the scenario: it cancels, clears or
\* has the operations of a request to create.
Belongs(c) ==
    clients[c] = IdleClient =>
        \/ clients'[c] = IdleClient /\ calls'[c] \in {calls[c], NoCall}
        \/ clients'[c] = IdleClient /\ "cancel" \in ScenarioRequests(c)
        \/ /\ "clear" \in ScenarioRequests(c)
           /\ \A task \in ToSet(clients'[c].agenda) : task.do # "enqueue"
        \/ \E r \in ScenarioRequests(c), o \in ScenarioOps :
              clients'[c].agenda \in Agendas(r, o)

ScenarioInit == Init /\ scenario \in {"stop", "requests"}

ScenarioNext == Next /\ (\A c \in Clients : Belongs(c)) /\ UNCHANGED scenario

ScenarioSpec == ScenarioInit /\ [][ScenarioNext]_<<vars, scenario>>
=============================================================================
