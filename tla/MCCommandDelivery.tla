-------------------------- MODULE MCCommandDelivery --------------------------
(* Small instances of the delivery: the operations, the clients, what they   *)
(* may request and the numbers of faults are chosen in each .cfg.            *)
EXTENDS CommandDelivery

CONSTANTS requests1, requests2,   \* what the two clients may request
          start, start2, stop, config, config2, other, other2,
          worker_, callback, client, client2, supervisor

MCType == [o \in Ops |-> CASE o \in {start, start2}   -> "watering_start"
                           [] o = stop               -> "watering_stop"
                           [] o \in {config, config2} -> "config"
                           [] o \in {other, other2}   -> "other"]

\* Both starts ask for the same amount, both others for the same thing.
MCKey == [o \in Ops |-> CASE o = start2 -> start [] o = other2 -> other [] OTHER -> o]

MCMayRecord ==
    [w \in Writers |->
       CASE w = worker_     -> {"sending", "accepted", "success", "error", "timeout"}
         [] w = callback    -> {"accepted", "running", "success", "error"}
         [] w \in Clients   -> {"cancelled"}
         [] OTHER           -> {}]

MCMayRequest == [c \in Clients |-> IF c = client THEN requests1 ELSE requests2]

\* The delivery after an earlier config that timed out: a fill confirms it.
UnconfirmedInit ==
    /\ row = [o \in Ops |-> IF o = config THEN "timeout" ELSE "absent"]
    /\ outcome = [o \in Ops |-> IF o = config THEN "timeout" ELSE "none"]
    /\ ack = [o \in Ops |-> "none"]
    /\ calls = [w \in Writers |-> NoCall]
    /\ stale = {} /\ confirmed = {}
    /\ queue = <<>> /\ deadline = [o \in Ops |-> "unset"]
    /\ worker = NoWorker /\ clients = [c \in Clients |-> IdleClient]
    /\ device = IdleDevice /\ net = {} /\ begins = [o \in Ops |-> 0]
    /\ reached = {} /\ faults = [answers |-> 0, crashes |-> 0]

UnconfirmedSpec == UnconfirmedInit /\ [][Next]_vars
=============================================================================
