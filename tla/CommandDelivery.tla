---------------------------- MODULE CommandDelivery ----------------------------
(***************************************************************************)
(* How a command travels from a request to a tank and back:                *)
(*   clients (public API workers, CLI) store an operation and a queue row; *)
(*   the supervisor runs one worker thread for the device, which sends the *)
(*   head of the queue over HTTP, retries, requeues and pops it;           *)
(*   the device executes it and posts callbacks, which the callback node   *)
(*   records in any order, or which are lost;                              *)
(*   the supervisor times out operations without a result.                 *)
(* All of them share the operation log (module OperationLog) and the table *)
(* command_queue through SQLite, and each statement below that reads in    *)
(* one transaction and writes in another is two steps.                     *)
(*                                                                         *)
(* One tank; operations of type "config" stand for all retried commands    *)
(* but the start, "other" for all that are attempted once.  A queue row is *)
(* named by its operation: requeueing gives it a new id, so the ids that   *)
(* clients have selected no longer name it.                                *)
(***************************************************************************)
EXTENDS OperationLog, SequencesExt

CONSTANTS
    Clients, Worker, Callback,   \* the writers, besides Supervisor
    Key,                         \* device, path, method and payload of an operation
    MayRequest,                  \* kinds of requests each client makes
    NoOp,
    MaxLostAnswers,              \* bound: answers lost after the device acted
    MaxCrashes                   \* bound: crashes of backend processes

ASSUME DeliveryAssumption ==
    /\ Writers = Clients \cup {Worker, Callback, Supervisor}
    /\ Worker # Callback /\ Worker # Supervisor /\ Callback # Supervisor
    /\ Clients \cap {Worker, Callback, Supervisor} = {}
    /\ {"sending", "accepted", "success", "error", "timeout"} \subseteq MayRecord[Worker]
    /\ {"accepted", "running", "success", "error"} \subseteq MayRecord[Callback]
    /\ \A c \in Clients : "cancelled" \in MayRecord[c]
    /\ NoOp \notin Ops
    /\ LegacyOps = {}
    /\ DOMAIN Key = Ops
    /\ MayRequest \in [Clients -> SUBSET {"fill", "stop", "ask", "cancel", "clear"}]
    /\ MaxLostAnswers \in Nat /\ MaxCrashes \in Nat

VARIABLES
    queue,      \* command_queue by id, as operations
    deadline,   \* started_at of the row: unset, within or past the retry window
    worker,     \* the worker thread: next step and active command
    clients,    \* what each client still has to do for its request
    device,     \* the controller: operation that is watering, pump, stop flag
    net,        \* callbacks on their way: <<operation, word>>
    begins,     \* how often the device began watering for an operation
    reached,    \* operations that reached the device
    faults      \* lost answers and crashes so far

deliveryVars == <<queue, deadline, worker, clients, device, net, begins, reached, faults>>
vars == <<logVars, deliveryVars>>

Task == [do : {"enqueue"}, op : Ops] \cup [do : {"cancel", "drop"}, ops : SUBSET Ops]
Enqueue(o) == [do |-> "enqueue", op |-> o]
CancelTask(S) == [do |-> "cancel", ops |-> S]
DropTask(S) == [do |-> "drop", ops |-> S]

\* The rows of q that are not in S, in their order.
Without(q, S) ==
    LET kept == {i \in DOMAIN q : q[i] \notin S}
        place == [i \in kept |-> Cardinality({j \in kept : j <= i})]
    IN [k \in 1..Cardinality(kept) |-> q[CHOOSE i \in kept : place[i] = k]]

IdleClient == [agenda |-> <<>>, pc |-> "next", ids |-> {}]
NoWorker == [pc |-> "off", op |-> NoOp]
IdleDevice == [op |-> NoOp, pumping |-> FALSE, stop |-> FALSE]

Pending == ToSet(queue)
First(o) == queue # <<>> /\ Head(queue) = o

DeliveryTypeOK ==
    /\ LogTypeOK
    /\ queue \in Seq(Ops) /\ IsInjective(queue)
    /\ deadline \in [Ops -> {"unset", "running", "passed"}]
    /\ worker \in [pc : {"off", "peek", "pick", "check", "send", "ok", "refused", "none",
                         "requeue", "move", "pop"},
                   op : Ops \cup {NoOp}]
    /\ \A c \in Clients :
         /\ clients[c].agenda \in Seq(Task)
         /\ clients[c].pc \in {"next", "create", "select", "insert", "delete"}
         /\ clients[c].ids \subseteq Ops
    /\ device \in [op : Ops \cup {NoOp}, pumping : BOOLEAN, stop : BOOLEAN]
    /\ net \subseteq Ops \X CallbackWords
    /\ begins \in [Ops -> Nat] /\ reached \subseteq Ops
    /\ faults \in [answers : 0..MaxLostAnswers, crashes : 0..MaxCrashes]

Init ==
    /\ LogInit
    /\ queue = <<>>
    /\ deadline = [o \in Ops |-> "unset"]
    /\ worker = NoWorker
    /\ clients = [c \in Clients |-> IdleClient]
    /\ device = IdleDevice
    /\ net = {} /\ begins = [o \in Ops |-> 0] /\ reached = {}
    /\ faults = [answers |-> 0, crashes |-> 0]

\* A step of the delivery that leaves the operation log alone.
LogUnchanged == UNCHANGED logVars

\* The log call that w is inside of goes on.
CallStep(w) == (EventCommit(w) \/ Confirm(w)) /\ UNCHANGED deliveryVars

-----------------------------------------------------------------------------
(* Clients: BackendService (application/service.py) and the cards. *)

\* An operation no request has used yet.
Fresh(o) ==
    /\ row[o] = "absent"
    /\ \A c \in Clients : Enqueue(o) \notin ToSet(clients[c].agenda)

Configs == {o \in Ops : Type[o] = "config"}

\* queue_device_config_if_not_confirmed: the latest config (by the time of its
\* last update, which is left open) is confirmed again unless it succeeded.
\* Without an unused operation left the instance ends here.
ConfirmConfig ==
    LET stored == {k \in Configs : row[k] # "absent"}
        again == {<<Enqueue(f)>> : f \in {g \in Configs : Fresh(g)}}
    IN IF stored = {} THEN {<<>>}
       ELSE UNION {IF Visible(k) = "success" \/ again = {} THEN {<<>>} ELSE again
                   : k \in stored}

\* What the request r for the operation o makes a client do.
Agendas(r, o) ==
    CASE r = "fill" /\ Type[o] = "watering_start" ->
           {Append(first, Enqueue(o)) : first \in ConfirmConfig}
      [] r = "stop" /\ Type[o] = "watering_stop" ->
           {<<Enqueue(o), CancelTask(WateringStarts), DropTask(WateringStarts)>>}
      [] r = "ask" /\ Type[o] \in {"config", "other"} -> {<<Enqueue(o)>>}
      [] OTHER -> {}

Ready(c) == Idle(c) /\ clients[c].agenda # <<>>

ClientStep(c, new) ==
    /\ clients' = [clients EXCEPT ![c] = new]
    /\ UNCHANGED <<worker, device, net, begins, reached, faults>>

Goto(c, pc) == [clients[c] EXCEPT !.pc = pc]
TaskDone(c) == [agenda |-> Tail(clients[c].agenda), pc |-> "next", ids |-> {}]

\* queue_fill (which returns an open start instead), queue_stop, and the
\* requests that only enqueue.
Request(c, r, o) ==
    /\ Idle(c) /\ clients[c] = IdleClient
    /\ Fresh(o)
    /\ r = "fill" => WateringStarts \cap NonTerminal = {}
    /\ \E agenda \in Agendas(r, o) : ClientStep(c, [IdleClient EXCEPT !.agenda = agenda])
    /\ LogUnchanged /\ UNCHANGED <<queue, deadline>>

\* Mutant: the rows are cancelled before the queue is dropped.
RequestClearCancelFirst(c) ==
    /\ "clear" \in MayRequest[c]
    /\ Idle(c) /\ clients[c] = IdleClient
    /\ NonTerminal # {}
    /\ ClientStep(c, [IdleClient EXCEPT !.agenda = <<CancelTask(Ops), DropTask(Ops)>>])
    /\ LogUnchanged /\ UNCHANGED <<queue, deadline>>

\* clear_device_queue
RequestClear(c) ==
    /\ "clear" \in MayRequest[c]
    /\ Idle(c) /\ clients[c] = IdleClient
    /\ NonTerminal # {}
    /\ ClientStep(c, [IdleClient EXCEPT !.agenda = <<DropTask(Ops), CancelTask(Ops)>>])
    /\ LogUnchanged /\ UNCHANGED <<queue, deadline>>

\* The card action cancel-operation, on an operation listed as active.
CancelOperation(c, o) ==
    /\ "cancel" \in MayRequest[c]
    /\ clients[c] = IdleClient
    /\ o \in NonTerminal
    /\ EventRead(c, o, "cancelled") /\ UNCHANGED stale
    /\ UNCHANGED deliveryVars

\* Mutant: the operation id stays part of the compared payload.
DuplicatesWithId(o) == {p \in Pending : p = o}

\* Queue rows with the same device, path, method and payload.
Duplicates(o) == {p \in Pending : Key[p] = Key[o]}

\* _enqueue: find_duplicate ends the request, if there is one.
FindDuplicate(c) ==
    /\ Ready(c) /\ clients[c].pc = "next"
    /\ Head(clients[c].agenda).do = "enqueue"
    /\ ClientStep(c, IF Duplicates(Head(clients[c].agenda).op) # {}
                     THEN TaskDone(c) ELSE Goto(c, "create"))
    /\ LogUnchanged /\ UNCHANGED <<queue, deadline>>

\* _enqueue: the operation is created.
CreateOperation(c) ==
    /\ Ready(c) /\ clients[c].pc = "create"
    /\ Create(Head(clients[c].agenda).op)
    /\ ClientStep(c, Goto(c, "select"))
    /\ UNCHANGED <<queue, deadline>>

\* Mutant: the operation that came second is not cancelled.
SelectDuplicatesSilently(c) ==
    /\ Ready(c) /\ clients[c].pc = "select"
    /\ LogUnchanged
    /\ ClientStep(c, IF Duplicates(Head(clients[c].agenda).op) # {} THEN TaskDone(c)
                     ELSE Goto(c, "insert"))
    /\ UNCHANGED <<queue, deadline>>

\* enqueue: the duplicates are selected again; the new operation is cancelled
\* if one has appeared meanwhile ...
SelectDuplicates(c) ==
    LET o == Head(clients[c].agenda).op IN
    /\ Ready(c) /\ clients[c].pc = "select"
    /\ IF Duplicates(o) # {}
       THEN EventRead(c, o, "cancelled") /\ UNCHANGED stale /\ ClientStep(c, TaskDone(c))
       ELSE LogUnchanged /\ ClientStep(c, Goto(c, "insert"))
    /\ UNCHANGED <<queue, deadline>>

\* ... otherwise its row is inserted.
Insert(c) ==
    /\ Ready(c) /\ clients[c].pc = "insert"
    /\ queue' = Append(queue, Head(clients[c].agenda).op)
    /\ ClientStep(c, TaskDone(c))
    /\ LogUnchanged /\ UNCHANGED deadline

\* cancel_active_watering_starts, cancel_non_terminal
CancelRows(c) ==
    LET task == Head(clients[c].agenda) IN
    /\ Ready(c) /\ task.do = "cancel"
    /\ IF task.ops \cap NonTerminal = {} THEN LogUnchanged
       ELSE CancelRead(c, task.ops) /\ UNCHANGED stale
    /\ ClientStep(c, TaskDone(c))
    /\ UNCHANGED <<queue, deadline>>

\* drop_pending_watering_start, drop_device: the ids are selected ...
SelectDrop(c) ==
    LET task == Head(clients[c].agenda) IN
    /\ Ready(c) /\ clients[c].pc = "next" /\ task.do = "drop"
    /\ ClientStep(c, IF task.ops \cap Pending = {} THEN TaskDone(c)
                     ELSE [Goto(c, "delete") EXCEPT !.ids = task.ops \cap Pending])
    /\ LogUnchanged /\ UNCHANGED <<queue, deadline>>

\* ... and deleted.
DeleteDrop(c) ==
    /\ Ready(c) /\ clients[c].pc = "delete"
    /\ queue' = Without(queue, clients[c].ids)
    /\ ClientStep(c, TaskDone(c))
    /\ LogUnchanged /\ UNCHANGED deadline

\* One request at a time, up to its end.
ClientProgress(c) ==
    \/ FindDuplicate(c) \/ CreateOperation(c) \/ SelectDuplicates(c) \/ Insert(c)
    \/ CancelRows(c) \/ SelectDrop(c) \/ DeleteDrop(c)
    \/ CallStep(c)

-----------------------------------------------------------------------------
(* The worker thread of the device: BackgroundWorker.run_until_empty. *)

Retryable(o) == Type[o] \in {"watering_start", "config"}   \* RETRYABLE_COMMANDS

WorkerStep(pc, op) ==
    /\ worker' = [pc |-> pc, op |-> op]
    /\ UNCHANGED <<clients, faults>>

At(pc) == worker.pc = pc /\ Idle(Worker)

UnchangedDevice == UNCHANGED <<device, net, begins, reached>>

\* DeviceWorkerSupervisor.start_pending_workers, after its stale check.
StartWorker ==
    /\ At("off") /\ queue # <<>>
    /\ stale = {} /\ Idle(Supervisor)
    /\ WorkerStep("peek", NoOp)
    /\ LogUnchanged /\ UnchangedDevice /\ UNCHANGED <<queue, deadline>>

\* The head of the queue is, or becomes, the active command: mark_started, and
\* SENDING is recorded if no worker has marked it before.
Peek ==
    /\ At("peek")
    /\ \/ queue = <<>> /\ WorkerStep("off", NoOp) /\ UNCHANGED deadline
       \/ \E o \in Ops :
            /\ First(o)
            /\ deadline' = [deadline EXCEPT ![o] = IF @ = "unset" THEN "running" ELSE @]
            /\ WorkerStep(IF deadline[o] = "unset" THEN "pick" ELSE "check", o)
    /\ LogUnchanged /\ UnchangedDevice /\ UNCHANGED queue

Pick ==
    /\ At("pick")
    /\ EventRead(Worker, worker.op, "sending") /\ UNCHANGED stale
    /\ WorkerStep("check", worker.op)
    /\ UnchangedDevice /\ UNCHANGED <<queue, deadline>>

\* The last look at the operation before the request.
Check ==
    /\ At("check")
    /\ WorkerStep(IF IsCancelled(worker.op) THEN "pop" ELSE "send", worker.op)
    /\ LogUnchanged /\ UnchangedDevice /\ UNCHANGED <<queue, deadline>>

-----------------------------------------------------------------------------
(* The device's request handlers (firmware/main/web.c). *)

\* watering_post_handler: accepted ...
BeginWatering(o) ==
    /\ Type[o] = "watering_start" /\ device.op = NoOp
    /\ device' = [IdleDevice EXCEPT !.op = o]
    /\ begins' = [begins EXCEPT ![o] = @ + 1]
    /\ net' = net \cup {<<o, "received">>}

\* ... or not: already active (no callback), or the start failed.
RefuseStart(o) ==
    /\ Type[o] = "watering_start"
    /\ net' = IF device.op # NoOp THEN net ELSE net \cup {<<o, "error">>}
    /\ UNCHANGED <<device, begins>>

\* watering_stop_post_handler; its callback is queued before its answer.
TakeStop(o) ==
    /\ Type[o] = "watering_stop"
    /\ device' = IF device.op # NoOp THEN [device EXCEPT !.stop = TRUE] ELSE device
    /\ net' = net \cup {<<o, "success">>}
    /\ UNCHANGED begins

\* A controller that answers 409 watering_not_active, as the worker expects.
RefuseStop(o) ==
    /\ Type[o] = "watering_stop" /\ device.op = NoOp
    /\ UNCHANGED <<device, net, begins>>

\* The other handlers report their result by callback, then answer.
ApplyOther(o, word) ==
    /\ Type[o] \in {"config", "other"}
    /\ net' = net \cup {<<o, word>>}
    /\ UNCHANGED <<device, begins>>

\* The answer is "ok" or an HTTP error status.
Handle(o, answer) ==
    \/ answer = "ok" /\ (BeginWatering(o) \/ TakeStop(o) \/ ApplyOther(o, "success"))
    \/ answer = "refused" /\ (RefuseStart(o) \/ RefuseStop(o) \/ ApplyOther(o, "error"))

\* The HTTP request: handled and answered; handled, but the answer is lost (a
\* retryable error, or a disconnect that kills the thread); or not handled.
Send ==
    /\ At("send")
    /\ \/ \E answer \in {"ok", "refused"} :
            /\ Handle(worker.op, answer)
            /\ reached' = reached \cup {worker.op}
            /\ \/ WorkerStep(answer, worker.op)
               \/ /\ faults.answers < MaxLostAnswers
                  /\ faults' = [faults EXCEPT !.answers = @ + 1]
                  /\ worker' \in {[pc |-> "none", op |-> worker.op], NoWorker}
                  /\ UNCHANGED clients
       \/ WorkerStep("none", worker.op) /\ UnchangedDevice
    /\ LogUnchanged /\ UNCHANGED <<queue, deadline>>

-----------------------------------------------------------------------------
(* What the worker makes of the answer. *)

\* Mutant: an accepted command is not popped.
AcceptUnpopped ==
    /\ At("ok")
    /\ EventRead(Worker, worker.op, "accepted") /\ UNCHANGED stale
    /\ WorkerStep("peek", worker.op)
    /\ UnchangedDevice /\ UNCHANGED <<queue, deadline>>

Accept ==
    /\ At("ok")
    /\ EventRead(Worker, worker.op, "accepted") /\ UNCHANGED stale
    /\ WorkerStep("pop", worker.op)
    /\ UnchangedDevice /\ UNCHANGED <<queue, deadline>>

\* Mutant: any failure of a stop counts as "not active".
VerdictAnyStop(o, answer) ==
    CASE Type[o] = "watering_stop"                        -> "success"
      [] answer = "refused" /\ ~Retryable(o)              -> "error"
      [] answer = "none" /\ ~Retryable(o)                 -> "timeout"
      [] answer = "refused" /\ Type[o] = "watering_start" -> "error"
      [] deadline[o] = "passed"                           -> "timeout"
      [] OTHER                                            -> "retry"

\* The branches of the except clause, in order.
Verdict(o, answer) ==
    CASE answer = "refused" /\ Type[o] = "watering_stop"  -> "success"
      [] answer = "refused" /\ ~Retryable(o)              -> "error"
      [] answer = "none" /\ ~Retryable(o)                 -> "timeout"
      [] answer = "refused" /\ Type[o] = "watering_start" -> "error"
      [] deadline[o] = "passed"                           -> "timeout"
      [] OTHER                                            -> "retry"

GiveUp ==
    /\ At("refused") \/ At("none")
    /\ Verdict(worker.op, worker.pc) # "retry"
    /\ EventRead(Worker, worker.op, Verdict(worker.op, worker.pc)) /\ UNCHANGED stale
    /\ WorkerStep("pop", worker.op)
    /\ UnchangedDevice /\ UNCHANGED <<queue, deadline>>

\* Mutant: a command that may be retried is popped without a verdict.
RetryPops ==
    /\ At("refused") \/ At("none")
    /\ Verdict(worker.op, worker.pc) = "retry"
    /\ WorkerStep("pop", worker.op)
    /\ LogUnchanged /\ UnchangedDevice /\ UNCHANGED <<queue, deadline>>

Retry ==
    /\ At("refused") \/ At("none")
    /\ Verdict(worker.op, worker.pc) = "retry"
    /\ WorkerStep(IF IsCancelled(worker.op) THEN "pop" ELSE "requeue", worker.op)
    /\ LogUnchanged /\ UnchangedDevice /\ UNCHANGED <<queue, deadline>>

\* move_to_tail_if_other: selects; without another row the thread sleeps and
\* the command stays active ...
MoveSelect ==
    /\ At("requeue")
    /\ WorkerStep(IF worker.op \in Pending /\ Pending \ {worker.op} # {} THEN "move" ELSE "peek",
                  worker.op)
    /\ LogUnchanged /\ UnchangedDevice /\ UNCHANGED <<queue, deadline>>

\* Mutant: the old row stays.
MoveCopies ==
    /\ At("move")
    /\ queue' = Append(queue, worker.op)
    /\ worker' = [pc |-> "peek", op |-> NoOp]
    /\ clients' = [c \in Clients |-> [clients[c] EXCEPT !.ids = @ \ {worker.op}]]
    /\ LogUnchanged /\ UnchangedDevice /\ UNCHANGED <<deadline, faults>>

\* Mutant: the new row has no started_at.
MoveRestarts ==
    /\ At("move")
    /\ queue' = Append(Without(queue, {worker.op}), worker.op)
    /\ deadline' = [deadline EXCEPT ![worker.op] = "unset"]
    /\ worker' = [pc |-> "peek", op |-> NoOp]
    /\ clients' = [c \in Clients |-> [clients[c] EXCEPT !.ids = @ \ {worker.op}]]
    /\ LogUnchanged /\ UnchangedDevice /\ UNCHANGED faults

\* ... otherwise the row, deleted meanwhile or not, is replaced by a new one.
MoveCommit ==
    /\ At("move")
    /\ queue' = Append(Without(queue, {worker.op}), worker.op)
    /\ worker' = [pc |-> "peek", op |-> NoOp]
    /\ clients' = [c \in Clients |-> [clients[c] EXCEPT !.ids = @ \ {worker.op}]]
    /\ LogUnchanged /\ UnchangedDevice /\ UNCHANGED <<deadline, faults>>

Pop ==
    /\ At("pop")
    /\ queue' = Without(queue, {worker.op})
    /\ deadline' = [deadline EXCEPT ![worker.op] = "unset"]
    /\ WorkerStep("peek", NoOp)
    /\ LogUnchanged /\ UnchangedDevice

WorkerProgress ==
    \/ Peek \/ Pick \/ Check \/ Send \/ Accept \/ GiveUp \/ Retry \/ MoveSelect \/ MoveCommit \/ Pop
    \/ CallStep(Worker)

\* max_wait_sec after started_at; only retried commands look at it.
Tick(o) ==
    /\ Retryable(o) /\ deadline[o] = "running"
    /\ deadline' = [deadline EXCEPT ![o] = "passed"]
    /\ LogUnchanged /\ UnchangedDevice /\ UNCHANGED <<queue, worker, clients, faults>>

\* timeout_stale_controller_results
StaleCheck ==
    \/ (StaleSelect \/ \E o \in Ops : StaleTimeout(o)) /\ UNCHANGED deliveryVars
    \/ CallStep(Supervisor)

-----------------------------------------------------------------------------
(* The device's watering task (watering.c) and the callbacks. *)

PumpOn ==
    /\ device.op # NoOp /\ ~device.pumping
    /\ device' = [device EXCEPT !.pumping = TRUE]
    /\ net' = net \cup {<<device.op, "started">>}
    /\ LogUnchanged
    /\ UNCHANGED <<queue, deadline, worker, clients, begins, reached, faults>>

\* The task ends by itself, or because of the stop; if both come together its
\* own result, even an error, may win.
FinishWatering ==
    /\ device.op # NoOp
    /\ device' = IdleDevice
    /\ \E word \in {"success", "error"} : net' = net \cup {<<device.op, word>>}
    /\ LogUnchanged
    /\ UNCHANGED <<queue, deadline, worker, clients, begins, reached, faults>>

\* CallbackService.record; without misread acknowledgements its trace changes
\* nothing.  The callback node serves one callback at a time.  A callback that
\* is lost (callback_task does not repeat it) is one never delivered.
Deliver(o, word) ==
    /\ <<o, word>> \in net
    /\ EventRead(Callback, o, NormalizeStatus(word)) /\ UNCHANGED stale
    /\ net' = net \ {<<o, word>>}
    /\ UNCHANGED <<queue, deadline, worker, clients, device, begins, reached, faults>>

-----------------------------------------------------------------------------
(* Crashes of the backend's processes. *)

Crash(W) ==
    /\ faults.crashes < MaxCrashes
    /\ faults' = [faults EXCEPT !.crashes = @ + 1]
    /\ \/ Abort(W)
       \/ /\ \A w \in W : Idle(w)
          /\ Supervisor \in W => stale = {}
          /\ LogUnchanged
    /\ UNCHANGED <<queue, deadline>> /\ UnchangedDevice

ClientCrash(c) ==
    /\ clients[c] # IdleClient
    /\ Crash({c})
    /\ clients' = [clients EXCEPT ![c] = IdleClient]
    /\ UNCHANGED worker

\* The worker node: the supervisor and the thread are one process.
WorkerCrash ==
    /\ worker # NoWorker \/ ~Idle(Supervisor) \/ stale # {}
    /\ Crash({Worker, Supervisor})
    /\ worker' = NoWorker
    /\ UNCHANGED clients

CallbackCrash ==
    /\ ~Idle(Callback)
    /\ Crash({Callback})
    /\ UNCHANGED <<worker, clients>>

-----------------------------------------------------------------------------

Next ==
    \/ \E c \in Clients :
         \/ \E o \in Ops, r \in MayRequest[c] : Request(c, r, o)
         \/ \E o \in Ops : CancelOperation(c, o)
         \/ RequestClear(c)
         \/ ClientProgress(c)
         \/ ClientCrash(c)
    \/ StartWorker \/ WorkerProgress \/ WorkerCrash
    \/ StaleCheck
    \/ PumpOn \/ FinishWatering
    \/ CallStep(Callback) \/ CallbackCrash
    \/ \E o \in Ops : Tick(o)
    \/ \E o \in Ops, word \in CallbackWords : Deliver(o, word)

Spec == Init /\ [][Next]_vars

\* Threads and transactions make progress, time passes, the supervisor's loop
\* runs.  Nothing is assumed of the device, the network or the clients' users.
Fairness ==
    /\ \A c \in Clients : WF_vars(ClientProgress(c))
    /\ WF_vars(StartWorker)
    /\ WF_vars(WorkerProgress)
    /\ WF_vars(StaleCheck)
    /\ WF_vars(CallStep(Callback))
    /\ \A o \in Ops : WF_vars(Tick(o))

FairSpec == Spec /\ Fairness

-----------------------------------------------------------------------------
(* Properties.  That the operation log keeps its own specification in this   *)
(* environment is the property LogSpec.                                      *)

\* The device begins watering for an operation once; again only after an
\* answer was lost or a process died (workers.py pops a command only after
\* its result is recorded, so that either repeats the request).
StartsOnce == \A o \in Ops : begins[o] <= 1 + faults.answers + faults.crashes

\* The device is the tank that WateringFirmware implements, whatever the
\* backend sends, twice or late.
Tank == INSTANCE TankDevice WITH Starts <- WateringStarts, NoStart <- NoOp, op <- device.op,
                                 pump <- device.pumping, stop <- device.stop
TankSpec == Tank!Spec

\* No operation is shown as accepted, running or successful that has not
\* reached the device.
StatusIsEarned ==
    \A o \in Ops : Visible(o) \in {"accepted", "running", "success"} => o \in reached

\* Only settings that reached the controller get into the registry
\* (smart_watering/README.md: after the controller confirms with success).
ConfirmedWereApplied == confirmed \subseteq reached

\* The worker takes a command off the queue only when the log says what became
\* of it, whatever the clients and the callbacks did meanwhile.
PopsAreRecorded ==
    [][\A o \in Ops : o \in Pending /\ worker = [pc |-> "pop", op |-> o] /\ worker' # worker
                        /\ ~(o \in Pending')
         => row[o] \notin {"queued", "sending"}]_vars

\* Somebody will still see to the operation: it is in the queue, a worker or a
\* client is at it, or a request under way will cancel it.
AtHand(o) ==
    \/ o \in Pending
    \/ worker.op = o
    \/ \E w \in Writers : o \in calls[w].ops
    \/ \E c \in Clients : \E task \in ToSet(clients[c].agenda) :
         IF task.do = "enqueue" THEN task.op = o ELSE task.do = "cancel" /\ o \in task.ops

\* smart_watering/README.md on "queued": the command is stored and waiting.
QueuedMeansStored == \A o \in Ops : row[o] = "queued" => AtHand(o)

\* smart_watering/README.md: duplicate queued commands are deduplicated.
NoDuplicateQueued == \A o, p \in Pending : Key[o] = Key[p] => o = p

\* smart_watering/README.md: a stop that is delivered requests pump stop.  Once
\* the stops have succeeded no cancelled start is watering on.
StopHolds ==
    LET stops == {t \in Ops : Type[t] = "watering_stop"} IN
    \A o \in Ops :
      /\ device.op = o /\ Visible(o) = "cancelled"
      /\ \E t \in stops : row[t] = "success"
      /\ \A t \in stops : row[t] \in {"absent", "success"}
      => device.stop

\* Every command leaves the queue: it is sent, given up, or dropped.
QueueDrains == \A o \in Ops : o \in Pending ~> o \notin Pending

\* An operation the device accepted gets a result, though callbacks are lost.
AcceptedGetsResult ==
    \A o \in Ops : Visible(o) \in {"accepted", "running"} ~> Visible(o) \in TerminalStatuses

\* A config shown as successful gets into the registry, which is written after
\* the status is committed (while no process dies in between).
SuccessIsConfirmed == \A o \in Configs : row[o] = "success" ~> o \in confirmed
=============================================================================
