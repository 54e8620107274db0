---------------------------- MODULE MCOperationLog ----------------------------
(* Small instances of the operation log: the operations and the writers of a *)
(* run are chosen in its .cfg.                                               *)
EXTENDS OperationLog, TLC

CONSTANTS start, stop, config, worker, callback, client, supervisor

MCType == [o \in Ops |-> CASE o = start  -> "watering_start"
                           [] o = stop   -> "watering_stop"
                           [] o = config -> "config"]

\* What BackgroundWorker, CallbackService and the card's cancel action pass.
MCMayRecord ==
    [w \in Writers |->
       CASE w = worker     -> {"sending", "accepted", "error", "timeout"}
         [] w = callback   -> {"accepted", "running", "success", "error", "not_active"}
         [] w = client     -> {"cancelled"}
         [] w = supervisor -> {}]
=============================================================================
