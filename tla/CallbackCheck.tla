----------------------------- MODULE CallbackCheck -----------------------------
(***************************************************************************)
(* The CLI's callback check: it asks one device after the other, again and *)
(* again, for a configuration that changes nothing, and looks after each   *)
(* for a callback of any device it has asked.  The callback node notes     *)
(* that a callback came in and records its result in a transaction of its  *)
(* own; when the time is over the CLI closes the probes that are open.     *)
(***************************************************************************)
EXTENDS Naturals, FiniteSets

CONSTANTS
    Probed,     \* the devices of the registry
    NoDevice

ASSUME CheckAssumption == Probed # {} /\ NoDevice \notin Probed

VARIABLES
    check,      \* the CLI: next step, the device at hand, those of this pass
    status,     \* [Probed -> status of the probe's operation, "none" before]
    sent,       \* callbacks on their way
    received,   \* probes with an event callback.received
    handling,   \* the device whose callback the callback node has at hand
    over,       \* callback_check_timeout_sec is over
    verdict

checkVars == <<check, status, sent, received, handling, over, verdict>>

Terminal == {"success", "error", "timeout"}
Probes == {d \in Probed : status[d] # "none"}

\* Types; and a callback is only ever of a probe that has its operation.
CheckTypeOK ==
    /\ check \in [pc : {"idle", "look", "ask", "create", "post", "accept", "poll", "close", "settle", "done"},
                  device : Probed \cup {NoDevice}, left : SUBSET Probed]
    /\ status \in [Probed -> {"none", "created", "accepted"} \cup Terminal]
    /\ sent \subseteq Probes /\ received \subseteq Probes
    /\ handling \in Probes \cup {NoDevice}
    /\ over \in BOOLEAN /\ verdict \in {"none", "success", "timeout"}

CheckInit ==
    /\ check = [pc |-> "idle", device |-> NoDevice, left |-> Probed]
    /\ status = [d \in Probed |-> "none"]
    /\ sent = {} /\ received = {} /\ handling = NoDevice
    /\ over = FALSE /\ verdict = "none"

\* OperationLog.event leaves a closed operation as it is.
Event(d, new) ==
    status' = IF status[d] \in Terminal THEN status ELSE [status EXCEPT ![d] = new]

At(pc) == check.pc = pc
Go(pc) == check' = [check EXCEPT !.pc = pc]

-----------------------------------------------------------------------------
(* interactive_check_callback *)

Start ==
    /\ At("idle")
    /\ Go("look")
    /\ UNCHANGED <<status, sent, received, handling, over, verdict>>

\* The next device of the pass, or of a new one; or the time is over.
Look ==
    /\ At("look")
    /\ IF over THEN check' = [pc |-> "close", device |-> NoDevice, left |-> Probes]
       ELSE \E d \in check.left :
              check' = [pc |-> "ask", device |-> d,
                        left |-> IF check.left = {d} THEN Probed ELSE check.left \ {d}]
    /\ UNCHANGED <<status, sent, received, handling, over, verdict>>

\* GET /watering; without a good answer in time the device is passed over.
Ask ==
    /\ At("ask")
    /\ Go("create") \/ Go("poll")
    /\ UNCHANGED <<status, sent, received, handling, over, verdict>>

\* The operation of the device's probe, one for all passes.
Create ==
    /\ At("create")
    /\ Go("post")
    /\ status' = [status EXCEPT ![check.device] = IF @ = "none" THEN "created" ELSE @]
    /\ UNCHANGED <<sent, received, handling, over, verdict>>

\* POST /config: it or its answer may get lost, and so may the callback.
Post ==
    /\ At("post")
    /\ \/ Go("poll") /\ UNCHANGED sent
       \/ Go("poll") /\ sent' = sent \cup {check.device}
       \/ Go("accept") /\ UNCHANGED sent
       \/ Go("accept") /\ sent' = sent \cup {check.device}
    /\ UNCHANGED <<status, received, handling, over, verdict>>

Accept ==
    /\ At("accept")
    /\ Event(check.device, "accepted")
    /\ Go("poll")
    /\ UNCHANGED <<sent, received, handling, over, verdict>>

\* Mutant: a probe that was accepted passes for one that was called back.
FoundAccepted == \E d \in Probes : status[d] # "created"

\* _first_received_callback
Found == received # {}

Poll ==
    /\ At("poll")
    /\ IF Found THEN Go("done") /\ verdict' = "success"
       ELSE Go("look") /\ UNCHANGED verdict
    /\ UNCHANGED <<status, sent, received, handling, over>>

\* The time is over: the probes are looked at ...
Close ==
    /\ At("close")
    /\ IF check.left = {} THEN Go("done") /\ verdict' = "timeout"
       ELSE /\ \E d \in check.left :
                 check' = [pc |-> IF status[d] \in Terminal THEN "close" ELSE "settle",
                           device |-> d, left |-> check.left \ {d}]
            /\ UNCHANGED verdict
    /\ UNCHANGED <<status, sent, received, handling, over>>

\* ... and those that were open get the event, which may come too late.
CloseProbe ==
    /\ At("settle")
    /\ Event(check.device, "timeout")
    /\ Go("close")
    /\ UNCHANGED <<sent, received, handling, over, verdict>>

TimeIsOver ==
    /\ ~over /\ ~At("idle")
    /\ over' = TRUE
    /\ UNCHANGED <<check, status, sent, received, handling, verdict>>

-----------------------------------------------------------------------------
(* CallbackService.record *)

Trace ==
    /\ handling = NoDevice
    /\ \E d \in sent : /\ sent' = sent \ {d}
                       /\ received' = received \cup {d}
                       /\ handling' = d
    /\ UNCHANGED <<check, status, over, verdict>>

RecordCallback ==
    /\ handling # NoDevice
    /\ \E result \in {"success", "error"} : Event(handling, result)
    /\ handling' = NoDevice
    /\ UNCHANGED <<check, sent, received, over, verdict>>

-----------------------------------------------------------------------------

\* Mutant: nothing is done when the time is over.
CLIStepsNoClose == Start \/ Look \/ Ask \/ Create \/ Post \/ Accept \/ Poll \/ CloseProbe

CLISteps == Start \/ Look \/ Ask \/ Create \/ Post \/ Accept \/ Poll \/ Close \/ CloseProbe

CheckNext == CLISteps \/ TimeIsOver \/ Trace \/ RecordCallback

CheckSpec == CheckInit /\ [][CheckNext]_checkVars

-----------------------------------------------------------------------------
(* Properties. *)

\* The verdict is true of the log: SUCCESS means that a probe was called back,
\* TIMEOUT leaves no probe open, whatever callback races it (cli.py:871-890).
VerdictIsTrue ==
    /\ verdict = "success" => received # {}
    /\ verdict = "timeout" => \A d \in Probes : status[d] \in Terminal

\* A probe that a callback has closed is not closed again as timed out, nor
\* opened again by the next pass.
ProbesStayClosed ==
    [][\A d \in Probed : status[d] \in Terminal => status'[d] = status[d]]_checkVars

\* The check ends, although each pass may ask every device anew.
CheckEnds == check.pc # "idle" ~> verdict # "none"
=============================================================================
