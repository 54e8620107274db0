------------------------ MODULE CommandDeliveryProofs ------------------------
(***************************************************************************)
(* The delivery uses the operation log as its specification allows, so     *)
(* what OperationLogProofs proves of the log holds of the whole system.    *)
(* Then the inductive invariant of the delivery itself, DeliveryInv, and   *)
(* what follows from it; then, under assumptions on what the clients       *)
(* request, that queued operations are kept and queued once.               *)
(***************************************************************************)
EXTENDS CommandDelivery, OperationLogProofs, FiniteSetTheorems, SequenceTheorems

USE LogAssumption, DeliveryAssumption

\* The tasks the requests consist of.
RequestTasks == [do : {"enqueue"}, op : Ops]
                \cup [do : {"cancel", "drop"}, ops : {WateringStarts, Ops}]

ClientState == [agenda : Seq(RequestTasks), ids : SUBSET Ops,
                pc : {"next", "create", "select", "insert", "delete"}]

\* A client creates and inserts operations only for an enqueue task.
WellFormed(state) ==
    /\ state \in ClientState
    /\ state.pc \in {"create", "select", "insert"} =>
         state.agenda # <<>> /\ Head(state.agenda).do = "enqueue"

\* The worker and the clients only ever deal with operations.
ActorsInv ==
    /\ worker.pc \notin {"off", "peek"} => worker.op \in Ops
    /\ clients \in [Clients -> ClientState]
    /\ \A c \in Clients : WellFormed(clients[c])

LEMMA WritersAre ==
    /\ Clients \subseteq Writers
    /\ Worker \in Writers /\ Callback \in Writers /\ Supervisor \in Writers
  OBVIOUS

\* What the first task of an agenda names.
LEMMA HeadTask ==
    ASSUME ActorsInv, NEW c \in Clients, clients[c].agenda # <<>>
    PROVE  /\ Head(clients[c].agenda) \in RequestTasks
           /\ Tail(clients[c].agenda) \in Seq(RequestTasks)
           /\ Head(clients[c].agenda).do = "enqueue" => Head(clients[c].agenda).op \in Ops
           /\ Head(clients[c].agenda).do # "enqueue" =>
                Head(clients[c].agenda).ops \in {WateringStarts, Ops}
  <1>1. clients[c].agenda \in Seq(RequestTasks)
    BY DEF ActorsInv, ClientState
  <1>2. Head(clients[c].agenda) \in RequestTasks /\ Tail(clients[c].agenda) \in Seq(RequestTasks)
    BY <1>1
  <1> QED
    BY <1>2 DEF RequestTasks

LEMMA AgendasAreTasks ==
    ASSUME NEW r, NEW o \in Ops, NEW agenda \in Agendas(r, o)
    PROVE  agenda \in Seq(RequestTasks)
  <1>1. \A p \in Ops : Enqueue(p) \in RequestTasks
    BY DEF Enqueue, RequestTasks
  <1>2. \A first \in ConfirmConfig : first \in Seq(RequestTasks)
    <2>1. \A first \in ConfirmConfig : first = <<>> \/ \E f \in Ops : first = <<Enqueue(f)>>
      BY DEF ConfirmConfig, Configs
    <2>2. \A t \in RequestTasks : <<t>> \in Seq(RequestTasks)
      OBVIOUS
    <2>3. <<>> \in Seq(RequestTasks)
      OBVIOUS
    <2> QED
      BY <1>1, <2>1, <2>2, <2>3
  <1>3. CASE agenda \in {Append(first, Enqueue(o)) : first \in ConfirmConfig}
    BY <1>1, <1>2, <1>3
  <1>4. CASE agenda = <<Enqueue(o), CancelTask(WateringStarts), DropTask(WateringStarts)>>
    <2>1. /\ CancelTask(WateringStarts) \in RequestTasks
          /\ DropTask(WateringStarts) \in RequestTasks
      BY DEF CancelTask, DropTask, RequestTasks
    <2> QED
      BY <1>1, <1>4, <2>1
  <1>5. CASE agenda = <<Enqueue(o)>>
    BY <1>1, <1>5
  <1> QED
    BY <1>3, <1>4, <1>5 DEF Agendas

-----------------------------------------------------------------------------
(* The invariant. *)

LEMMA ActorsInit == Init => ActorsInv
  <1> SUFFICES ASSUME Init PROVE ActorsInv
    OBVIOUS
  <1>1. IdleClient \in ClientState /\ WellFormed(IdleClient)
    BY DEF IdleClient, ClientState, WellFormed
  <1> QED
    BY <1>1 DEF Init, ActorsInv, NoWorker

\* A client's step leaves a well-formed client.
LEMMA ClientStepInv ==
    ASSUME ActorsInv, NEW c \in Clients, NEW new, WellFormed(new), ClientStep(c, new)
    PROVE  ActorsInv'
  BY DEF ActorsInv, ClientStep, WellFormed

LEMMA MovesWellFormed ==
    ASSUME ActorsInv, NEW c \in Clients, clients[c].agenda # <<>>
    PROVE  /\ WellFormed(TaskDone(c))
           /\ \A pc \in {"create", "select", "insert"} :
                Head(clients[c].agenda).do = "enqueue" => WellFormed(Goto(c, pc))
           /\ \A S \in SUBSET Ops : WellFormed([Goto(c, "delete") EXCEPT !.ids = S])
  <1>1. clients[c] \in ClientState
    BY DEF ActorsInv
  <1>2. WellFormed(TaskDone(c))
    BY HeadTask DEF TaskDone, WellFormed, ClientState
  <1>3. ASSUME NEW pc \in {"create", "select", "insert"},
               Head(clients[c].agenda).do = "enqueue"
        PROVE  WellFormed(Goto(c, pc))
    BY <1>1, <1>3 DEF Goto, WellFormed, ClientState
  <1>4. ASSUME NEW S \in SUBSET Ops PROVE WellFormed([Goto(c, "delete") EXCEPT !.ids = S])
    BY <1>1 DEF Goto, WellFormed, ClientState
  <1> QED
    BY <1>2, <1>3, <1>4

LEMMA RequestInv ==
    ASSUME ActorsInv, NEW c \in Clients, NEW r, NEW o \in Ops,
           Request(c, r, o) \/ RequestClear(c)
    PROVE  ActorsInv'
  <1>1. ASSUME NEW agenda \in Seq(RequestTasks), ClientStep(c, [IdleClient EXCEPT !.agenda = agenda])
        PROVE  ActorsInv'
    <2>1. WellFormed([IdleClient EXCEPT !.agenda = agenda])
      BY DEF WellFormed, IdleClient, ClientState
    <2> QED
      BY <1>1, <2>1, ClientStepInv
  <1>2. CASE Request(c, r, o)
    BY <1>1, <1>2, AgendasAreTasks DEF Request
  <1>3. CASE RequestClear(c)
    <2>1. DropTask(Ops) \in RequestTasks /\ CancelTask(Ops) \in RequestTasks
      BY DEF DropTask, CancelTask, RequestTasks
    <2>2. <<DropTask(Ops), CancelTask(Ops)>> \in Seq(RequestTasks)
      BY <2>1
    <2> QED
      BY <1>1, <1>3, <2>2 DEF RequestClear
  <1> QED
    BY <1>2, <1>3

LEMMA ClientProgressInv ==
    ASSUME ActorsInv, NEW c \in Clients, ClientProgress(c)
    PROVE  ActorsInv'
  <1> DEFINE head == Head(clients[c].agenda)
  <1>1. clients[c] \in ClientState /\ WellFormed(clients[c])
    BY DEF ActorsInv
  <1>2. ASSUME NEW new, WellFormed(new), ClientStep(c, new) PROVE ActorsInv'
    BY <1>2, ClientStepInv
  <1>3. CASE FindDuplicate(c)
    BY <1>2, <1>3, MovesWellFormed DEF FindDuplicate, Ready
  <1>4. CASE CreateOperation(c)
    BY <1>1, <1>2, <1>4, MovesWellFormed DEF CreateOperation, Ready, WellFormed
  <1>5. CASE SelectDuplicates(c)
    BY <1>1, <1>2, <1>5, MovesWellFormed DEF SelectDuplicates, Ready, WellFormed
  <1>6. CASE Insert(c)
    BY <1>2, <1>6, MovesWellFormed DEF Insert, Ready
  <1>7. CASE CancelRows(c)
    BY <1>2, <1>7, MovesWellFormed DEF CancelRows, Ready
  <1>8. CASE SelectDrop(c)
    <2>1. head.ops \cap Pending \in SUBSET Ops
      BY <1>8, HeadTask DEF SelectDrop, Ready, WateringStarts
    <2> QED
      BY <1>2, <1>8, <2>1, MovesWellFormed DEF SelectDrop, Ready
  <1>9. CASE DeleteDrop(c)
    BY <1>2, <1>9, MovesWellFormed DEF DeleteDrop, Ready
  <1>10. CASE CallStep(c)
    BY <1>10 DEF CallStep, deliveryVars, ActorsInv
  <1> QED
    BY <1>3, <1>4, <1>5, <1>6, <1>7, <1>8, <1>9, <1>10 DEF ClientProgress

\* The thread's steps: except by peeking it does not change its command.
LEMMA WorkerProgressInv ==
    ASSUME ActorsInv, WorkerProgress \/ StartWorker
    PROVE  ActorsInv'
  <1>1. ASSUME NEW pc, NEW o \in Ops \cup {NoOp}, WorkerStep(pc, o),
               pc \notin {"off", "peek"} => o \in Ops
        PROVE  ActorsInv'
    BY <1>1 DEF WorkerStep, ActorsInv
  <1>2. At("pick") \/ At("check") \/ At("send") \/ At("ok") \/ At("refused") \/ At("none")
          \/ At("requeue") \/ At("move") \/ At("pop") => worker.op \in Ops
    BY DEF At, ActorsInv
  <1>3. CASE StartWorker
    BY <1>1, <1>3 DEF StartWorker
  <1>4. CASE Peek
    BY <1>1, <1>4 DEF Peek
  <1>5. CASE Pick \/ Check \/ Accept \/ GiveUp \/ Retry \/ MoveSelect \/ Pop
    BY <1>1, <1>2, <1>5 DEF Pick, Check, Accept, GiveUp, Retry, MoveSelect, Pop
  <1>6. CASE Send
    BY <1>1, <1>2, <1>6 DEF Send, NoWorker, ActorsInv
  <1>7. CASE MoveCommit
    BY <1>7 DEF MoveCommit, ActorsInv, WellFormed, ClientState
  <1>8. CASE CallStep(Worker)
    BY <1>8 DEF CallStep, deliveryVars, ActorsInv
  <1> QED
    BY <1>3, <1>4, <1>5, <1>6, <1>7, <1>8 DEF WorkerProgress

\* The other actions leave the clients and the thread, or stop one of them.
LEMMA ActorsNext == ActorsInv /\ [Next]_vars => ActorsInv'
  <1> SUFFICES ASSUME ActorsInv, [Next]_vars PROVE ActorsInv'
    OBVIOUS
  <1>1. ASSUME UNCHANGED <<worker, clients>> PROVE ActorsInv'
    BY <1>1 DEF ActorsInv
  <1>2. ASSUME NEW c \in Clients, NEW o \in Ops, NEW r \in MayRequest[c], Request(c, r, o)
        PROVE  ActorsInv'
    BY <1>2, RequestInv
  <1>3. ASSUME NEW c \in Clients, NEW o \in Ops, CancelOperation(c, o) PROVE ActorsInv'
    BY <1>1, <1>3 DEF CancelOperation, deliveryVars
  <1>4. ASSUME NEW c \in Clients, RequestClear(c) PROVE ActorsInv'
    <2>1. PICK o \in Ops : row[o] \in OpenStatuses
      BY <1>4 DEF RequestClear, NonTerminal
    <2> QED
      BY <1>4, <2>1, RequestInv
  <1>5. ASSUME NEW c \in Clients, ClientProgress(c) PROVE ActorsInv'
    BY <1>5, ClientProgressInv
  <1>6. ASSUME NEW c \in Clients, ClientCrash(c) PROVE ActorsInv'
    <2>1. WellFormed(IdleClient)
      BY DEF WellFormed, IdleClient, ClientState
    <2> QED
      BY <1>6, <2>1 DEF ClientCrash, ActorsInv, WellFormed
  <1>7. CASE StartWorker \/ WorkerProgress
    BY <1>7, WorkerProgressInv
  <1>8. CASE WorkerCrash
    BY <1>8 DEF WorkerCrash, NoWorker, ActorsInv
  <1>9. CASE StaleCheck \/ CallStep(Callback)
    BY <1>1, <1>9 DEF StaleCheck, CallStep, deliveryVars
  <1>10. CASE PumpOn \/ FinishWatering \/ CallbackCrash
    BY <1>1, <1>10 DEF PumpOn, FinishWatering, CallbackCrash
  <1>11. ASSUME NEW o \in Ops, Tick(o) PROVE ActorsInv'
    BY <1>1, <1>11 DEF Tick
  <1>12. ASSUME NEW o \in Ops, NEW word \in CallbackWords, Deliver(o, word) PROVE ActorsInv'
    BY <1>1, <1>12 DEF Deliver
  <1>13. CASE UNCHANGED vars
    BY <1>1, <1>13 DEF vars, deliveryVars
  <1> QED
    BY <1>2, <1>3, <1>4, <1>5, <1>6, <1>7, <1>8, <1>9, <1>10, <1>11, <1>12, <1>13 DEF Next

-----------------------------------------------------------------------------
(* Every step of the delivery is a step of the log, or leaves it alone. *)

\* A call of event() with a status the writer may record.
LEMMA RecordIsLogStep ==
    ASSUME NEW w \in Writers, NEW o \in Ops, NEW word \in MayRecord[w],
           EventRead(w, o, word), UNCHANGED stale
    PROVE  LogNext
  BY DEF LogNext

LEMMA CancelIsLogStep ==
    ASSUME NEW w \in Writers, NEW S \in {WateringStarts, Ops}, "cancelled" \in MayRecord[w],
           CancelRead(w, S), UNCHANGED stale
    PROVE  LogNext
  BY DEF LogNext

LEMMA CallStepIsLogStep ==
    ASSUME NEW w \in Writers, CallStep(w)
    PROVE  LogNext
  BY DEF CallStep, LogNext

LEMMA CrashIsLogStep ==
    ASSUME NEW W \in SUBSET Writers, Crash(W)
    PROVE  [LogNext]_logVars
  BY DEF Crash, LogUnchanged, LogNext

LEMMA ClientIsLogStep ==
    ASSUME ActorsInv, NEW c \in Clients, ClientProgress(c)
    PROVE  [LogNext]_logVars
  <1>1. c \in Writers /\ "cancelled" \in MayRecord[c]
    OBVIOUS
  <1>2. CASE FindDuplicate(c) \/ Insert(c) \/ SelectDrop(c) \/ DeleteDrop(c)
    BY <1>2 DEF FindDuplicate, Insert, SelectDrop, DeleteDrop, LogUnchanged
  <1>3. ASSUME clients[c].pc \in {"create", "select"}, Ready(c)
        PROVE  Head(clients[c].agenda).op \in Ops
    BY <1>3, HeadTask DEF ActorsInv, WellFormed, Ready
  <1>4. CASE CreateOperation(c)
    BY <1>3, <1>4 DEF CreateOperation, LogNext
  <1>5. CASE SelectDuplicates(c)
    BY <1>1, <1>3, <1>5, RecordIsLogStep DEF SelectDuplicates, LogUnchanged
  <1>6. CASE CancelRows(c)
    <2>1. Head(clients[c].agenda).ops \in {WateringStarts, Ops}
      BY <1>6, HeadTask DEF CancelRows, Ready
    <2> QED
      BY <1>1, <1>6, <2>1, CancelIsLogStep DEF CancelRows, LogUnchanged
  <1>7. CASE CallStep(c)
    BY <1>1, <1>7, CallStepIsLogStep
  <1> QED
    BY <1>2, <1>4, <1>5, <1>6, <1>7 DEF ClientProgress

LEMMA WorkerIsLogStep ==
    ASSUME ActorsInv, WorkerProgress \/ StartWorker
    PROVE  [LogNext]_logVars
  <1>1. CASE StartWorker \/ Peek \/ Check \/ Send \/ Retry \/ MoveSelect \/ MoveCommit \/ Pop
    BY <1>1 DEF StartWorker, Peek, Check, Send, Retry, MoveSelect, MoveCommit, Pop, LogUnchanged
  <1>2. At("pick") \/ At("ok") \/ At("refused") \/ At("none") => worker.op \in Ops
    BY DEF At, ActorsInv
  <1>3. CASE Pick
    BY <1>2, <1>3, RecordIsLogStep DEF Pick
  <1>4. CASE Accept
    BY <1>2, <1>4, RecordIsLogStep DEF Accept
  <1>5. CASE GiveUp
    <2>1. Verdict(worker.op, worker.pc) \in {"success", "error", "timeout", "retry"}
      BY DEF Verdict
    <2>2. Verdict(worker.op, worker.pc) \in MayRecord[Worker]
      BY <1>5, <2>1 DEF GiveUp
    <2> QED
      BY <1>2, <1>5, <2>2, RecordIsLogStep DEF GiveUp
  <1>6. CASE CallStep(Worker)
    BY <1>6, CallStepIsLogStep
  <1> QED
    BY <1>1, <1>3, <1>4, <1>5, <1>6 DEF WorkerProgress

LEMMA StepIsLogStep == ActorsInv /\ [Next]_vars => [LogNext]_logVars
  <1> SUFFICES ASSUME ActorsInv, [Next]_vars PROVE [LogNext]_logVars
    OBVIOUS
  <1>1. ASSUME NEW c \in Clients, NEW o \in Ops, NEW r \in MayRequest[c],
               Request(c, r, o)
        PROVE  UNCHANGED logVars
    BY <1>1 DEF Request, LogUnchanged
  <1>2. ASSUME NEW c \in Clients, RequestClear(c) PROVE UNCHANGED logVars
    BY <1>2 DEF RequestClear, LogUnchanged
  <1>3. ASSUME NEW c \in Clients, NEW o \in Ops, CancelOperation(c, o) PROVE LogNext
    BY <1>3, RecordIsLogStep DEF CancelOperation
  <1>4. ASSUME NEW c \in Clients, ClientProgress(c) PROVE [LogNext]_logVars
    BY <1>4, ClientIsLogStep
  <1>5. ASSUME NEW c \in Clients, ClientCrash(c) PROVE [LogNext]_logVars
    <2>1. {c} \in SUBSET Writers
      OBVIOUS
    <2> QED
      BY <1>5, <2>1, CrashIsLogStep DEF ClientCrash
  <1>6. CASE StartWorker \/ WorkerProgress
    BY <1>6, WorkerIsLogStep
  <1>7. CASE WorkerCrash \/ CallbackCrash
    <2>1. {Worker, Supervisor} \in SUBSET Writers /\ {Callback} \in SUBSET Writers
      OBVIOUS
    <2> QED
      BY <1>7, <2>1, CrashIsLogStep DEF WorkerCrash, CallbackCrash
  <1>8. CASE StaleCheck
    BY <1>8, CallStepIsLogStep DEF StaleCheck, LogNext
  <1>9. CASE CallStep(Callback)
    BY <1>9, CallStepIsLogStep
  <1>10. CASE PumpOn \/ FinishWatering
    BY <1>10 DEF PumpOn, FinishWatering, LogUnchanged
  <1>11. ASSUME NEW o \in Ops, Tick(o) PROVE UNCHANGED logVars
    BY <1>11 DEF Tick, LogUnchanged
  <1>12. ASSUME NEW o \in Ops, NEW word \in CallbackWords, Deliver(o, word) PROVE LogNext
    <2>1. NormalizeStatus(word) \in MayRecord[Callback]
      BY <1>12 DEF NormalizeStatus, CallbackWords
    <2> QED
      BY <1>12, <2>1, RecordIsLogStep DEF Deliver
  <1>13. CASE UNCHANGED vars
    BY <1>13 DEF vars
  <1> QED
    BY <1>1, <1>2, <1>3, <1>4, <1>5, <1>6, <1>7, <1>8, <1>9, <1>10, <1>11, <1>12, <1>13 DEF Next

-----------------------------------------------------------------------------
(* What the queue holds after a row is removed or added. *)

\* Without removes the rows in R, and nothing else.
LEMMA WithoutIs ==
    ASSUME NEW S, NEW q \in Seq(S), IsInjective(q), NEW R
    PROVE  /\ Without(q, R) \in Seq(S)
           /\ IsInjective(Without(q, R))
           /\ ToSet(Without(q, R)) = ToSet(q) \ R
  <1> DEFINE kept == {i \in DOMAIN q : q[i] \notin R}
             upTo(i) == {j \in kept : j <= i}
             place == [i \in kept |-> Cardinality(upTo(i))]
             n == Cardinality(kept)
             at(k) == CHOOSE i \in kept : place[i] = k
             w == [k \in 1..n |-> q[at(k)]]
  <1>0. Without(q, R) = w
    BY DEF Without
  <1>1. kept \subseteq 1..Len(q) /\ Len(q) \in Nat
    OBVIOUS
  <1>2. IsFiniteSet(kept) /\ n \in Nat
    <2>1. IsFiniteSet(1..Len(q))
      BY <1>1, FS_Interval
    <2>2. IsFiniteSet(kept)
      BY <1>1, <2>1, FS_Subset
    <2> QED
      BY <2>2, FS_CardinalityType
  <1>3. ASSUME NEW i \in kept
        PROVE  IsFiniteSet(upTo(i)) /\ place[i] \in 1..n
    <2>1. upTo(i) \in SUBSET kept /\ i \in upTo(i)
      BY <1>1
    <2>2. IsFiniteSet(upTo(i)) /\ Cardinality(upTo(i)) <= n
      BY <1>2, <2>1, FS_Subset
    <2>3. Cardinality(upTo(i)) \in Nat /\ Cardinality(upTo(i)) # 0
      BY <2>1, <2>2, FS_CardinalityType, FS_EmptySet
    <2> QED
      BY <1>2, <2>2, <2>3
  <1>4. ASSUME NEW i \in kept, NEW j \in kept, i < j
        PROVE  place[i] # place[j]
    <2>1. upTo(i) \in SUBSET upTo(j) /\ j \in upTo(j) /\ j \notin upTo(i)
      BY <1>1, <1>4
    <2>2. IsFiniteSet(upTo(j))
      BY <1>3
    <2>3. Cardinality(upTo(i)) # Cardinality(upTo(j))
      BY <2>1, <2>2, FS_Subset
    <2> QED
      BY <2>3
  <1>5. place \in Injection(kept, 1..n)
    <2>1. \A i, j \in kept : place[i] = place[j] => i = j
      BY <1>1, <1>4
    <2>2. place \in [kept -> 1..n]
      BY <1>3
    <2> HIDE DEF place
    <2> QED
      BY <2>1, <2>2 DEF Injection, IsInjective
  <1>6. place \in Surjection(kept, 1..n)
    <2>1. IsFiniteSet(1..n) /\ Cardinality(1..n) = n
      BY <1>2, FS_Interval
    <2> QED
      BY <1>5, <2>1, FS_Injection
  <1>7. \A k \in 1..n : at(k) \in kept /\ place[at(k)] = k
    BY <1>6 DEF Surjection
  <1>8. \A i \in kept : place[i] \in 1..n /\ at(place[i]) = i
    <2>1. \A i, j \in kept : place[i] = place[j] => i = j
      BY <1>1, <1>4
    <2> QED
      BY <1>3, <1>7, <2>1
  <1> HIDE DEF place, at, n
  <1>9. w \in Seq(S)
    BY <1>1, <1>2, <1>7
  <1>10. IsInjective(w)
    <2> SUFFICES ASSUME NEW k \in 1..n, NEW l \in 1..n, q[at(k)] = q[at(l)] PROVE k = l
      BY DEF IsInjective
    <2>1. at(k) = at(l)
      BY <1>7 DEF IsInjective
    <2> QED
      BY <1>7, <2>1
  <1>11. ToSet(w) = ToSet(q) \ R
    <2>1. \A x \in ToSet(w) : x \in ToSet(q) \ R
      BY <1>7 DEF ToSet
    <2>2. ASSUME NEW x \in ToSet(q) \ R PROVE x \in ToSet(w)
      <3>1. PICK i \in kept : q[i] = x
        BY DEF ToSet
      <3> QED
        BY <1>8, <3>1 DEF ToSet
    <2> QED
      BY <2>1, <2>2
  <1> QED
    BY <1>0, <1>9, <1>10, <1>11

\* Append adds one row at the tail.
LEMMA AppendIs ==
    ASSUME NEW S, NEW q \in Seq(S), NEW x \in S
    PROVE  /\ Append(q, x) \in Seq(S)
           /\ ToSet(Append(q, x)) = ToSet(q) \cup {x}
           /\ IsInjective(q) /\ x \notin ToSet(q) => IsInjective(Append(q, x))
  <1>1. /\ Append(q, x) \in Seq(S) /\ Len(Append(q, x)) = Len(q) + 1
        /\ \A i \in 1..Len(q) : Append(q, x)[i] = q[i]
        /\ Append(q, x)[Len(q) + 1] = x
    OBVIOUS
  <1>2. Len(q) \in Nat /\ DOMAIN q = 1..Len(q) /\ DOMAIN Append(q, x) = 1..(Len(q) + 1)
    BY <1>1
  <1>3. ToSet(Append(q, x)) = ToSet(q) \cup {x}
    BY <1>1, <1>2 DEF ToSet
  <1>4. ASSUME IsInjective(q), x \notin ToSet(q) PROVE IsInjective(Append(q, x))
    BY <1>1, <1>2, <1>4 DEF IsInjective, ToSet
  <1> QED
    BY <1>1, <1>3, <1>4

-----------------------------------------------------------------------------
(* The inductive invariant. *)

\* What the variables besides the log and the clients range over.
DeliveryTypes ==
    /\ queue \in Seq(Ops) /\ IsInjective(queue)
    /\ deadline \in [Ops -> {"unset", "running", "passed"}]
    /\ worker \in [pc : {"off", "peek", "pick", "check", "send", "ok", "refused", "none",
                         "requeue", "move", "pop"},
                   op : Ops \cup {NoOp}]
    /\ device \in [op : Ops \cup {NoOp}, pumping : BOOLEAN, stop : BOOLEAN]
    /\ net \subseteq Ops \X CallbackWords
    /\ begins \in [Ops -> Nat] /\ reached \subseteq Ops
    /\ faults \in [answers : 0..MaxLostAnswers, crashes : 0..MaxCrashes]

\* The i-th task of the client is to enqueue the operation.
Holds(c, i, o) == i \in DOMAIN clients[c].agenda /\ clients[c].agenda[i] = Enqueue(o)

\* Others than the clients have seen the operation.
Seen(o) == o \in Pending \/ worker.op = o \/ begins[o] # 0

\* An operation that a client still has to enqueue is that of one task of one
\* client, and nobody else has seen it.
OwnersInv ==
    /\ \A o \in Ops : Seen(o) => row[o] # "absent"
    /\ \A c \in Clients :
         clients[c].pc \in {"select", "insert"} => row[Head(clients[c].agenda).op] # "absent"
    /\ \A o \in Ops, c \in Clients : \A i \in DOMAIN clients[c].agenda :
         Holds(c, i, o) =>
           /\ ~Seen(o)
           /\ row[o] = "absent" \/ (i = 1 /\ clients[c].pc \in {"select", "insert"})
           /\ \A d \in Clients : \A j \in DOMAIN clients[d].agenda :
                Holds(d, j, o) => d = c /\ j = i

\* The worker may still send the operation.
Again(o) ==
    \/ o \in Pending /\ ~(worker.op = o /\ worker.pc \in {"ok", "pop"})
    \/ worker.op = o /\ worker.pc \notin {"off", "peek", "ok", "pop"}

Failures == faults.answers + faults.crashes

\* A watering that began without a fault is not begun again.
StartsInv == \A o \in Ops : begins[o] <= Failures + IF Again(o) THEN 0 ELSE 1

Earned == {"accepted", "running", "success"}

\* Whoever is about to record that the device has the operation knows it: the
\* log and its callers ...
EarnedLog ==
    /\ \A o \in Ops : row[o] \in Earned \/ outcome[o] \in Earned => o \in reached
    /\ \A w \in Writers : calls[w].status \in Earned => calls[w].ops \subseteq reached
    /\ \A w \in Writers : calls[w].step = "confirm" => calls[w].status = "success"
    /\ confirmed \subseteq reached

\* ... and the worker, the callbacks and the device.
EarnedWorld ==
    /\ worker.pc \in {"ok", "refused"} => worker.op \in reached
    /\ \A o \in Ops, word \in CallbackWords : <<o, word>> \in net => o \in reached
    /\ device.op # NoOp => device.op \in reached

\* Only the worker records "sending", and it does not pop a command before its
\* call that says what became of it has committed.
PopsInv ==
    /\ \A v \in Writers :
         ~Idle(v) => calls[v].status # "queued" /\ (v # Worker => calls[v].status # "sending")
    /\ ~Idle(Worker) =>
         /\ calls[Worker].ops = {worker.op} /\ worker.pc \in {"check", "pop"}
         /\ calls[Worker].status = "sending" => worker.pc = "check"
    /\ worker.pc = "pop" /\ calls[Worker].step # "commit" =>
         row[worker.op] \notin {"queued", "sending"}

DeliveryInv ==
    /\ LogInv /\ ActorsInv /\ DeliveryTypes /\ OwnersInv
    /\ StartsInv /\ EarnedLog /\ EarnedWorld /\ PopsInv

LEMMA DeliveryInit == Init => DeliveryInv
  <1> SUFFICES ASSUME Init PROVE DeliveryInv
    OBVIOUS
  <1>1. LogInv /\ ActorsInv
    BY ActorsInit, InitInv DEF Init
  <1>2. Pending = {} /\ IsInjective(queue) /\ queue \in Seq(Ops)
    BY DEF Init, Pending, ToSet, IsInjective
  <1>3. DeliveryTypes
    BY <1>2 DEF Init, DeliveryTypes, NoWorker, IdleDevice
  <1>4. OwnersInv
    BY <1>2 DEF Init, OwnersInv, Seen, NoWorker, IdleClient, Holds
  <1>5. StartsInv
    BY <1>2 DEF Init, StartsInv, Failures, Again
  <1>6. EarnedLog /\ EarnedWorld
    BY DEF Init, LogInit, EarnedLog, EarnedWorld, Earned, NoWorker, IdleDevice, NoCall
  <1>7. PopsInv
    BY DEF Init, LogInit, PopsInv, NoWorker, NoCall, Idle
  <1> QED
    BY <1>1, <1>3, <1>4, <1>5, <1>6, <1>7 DEF DeliveryInv

-----------------------------------------------------------------------------
(* What the calls of the log change. *)

\* event() reads: it returns early, or the call begins.
ReadMoves(w, o, word) ==
    /\ UNCHANGED <<row, outcome, confirmed>>
    /\ Idle(w) /\ row[o] # "absent"
    /\ \A v \in Writers \ {w} : calls'[v] = calls[v]
    /\ \/ Refused(o, word) /\ calls'[w] = calls[w]
       \/ calls'[w] = [ops |-> {o}, status |-> word, late |-> {}, step |-> "commit"]

LEMMA ReadEffect ==
    ASSUME LogInv, NEW w \in Writers, NEW o \in Ops, NEW word \in Statuses,
           EventRead(w, o, word)
    PROVE  ReadMoves(w, o, word)
  <1>1. Recorded(o, word) = word
    BY DEF Recorded, Statuses, OpenStatuses, TerminalStatuses
  <1>2. DOMAIN calls = Writers
    BY DEF LogInv, LogTypeOK
  <1> QED
    BY <1>1, <1>2 DEF EventRead, ReadMoves

\* A call goes on: it writes its rows, or ends in the registry.
CallMoves(w) ==
    /\ calls[w] \in Call
    /\ \A o \in Ops :
         /\ \/ row'[o] = row[o]
            \/ o \in calls[w].ops /\ row'[o] = calls[w].status
         /\ \/ outcome'[o] = outcome[o]
            \/ o \in calls[w].ops /\ outcome'[o] = calls[w].status
         /\ row'[o] = "absent" <=> row[o] = "absent"
         /\ calls[w].step = "commit" /\ o \in calls[w].ops => row'[o] = calls[w].status
    /\ \A v \in Writers \ {w} :
         /\ calls'[v].ops = calls[v].ops
         /\ calls'[v].status = calls[v].status
         /\ calls'[v].step = calls[v].step
    /\ \/ calls'[w] = NoCall
       \/ /\ calls[w].step = "commit" /\ calls[w].status = "success"
          /\ calls'[w] = [calls[w] EXCEPT !.step = "confirm"]
    /\ \/ confirmed' = confirmed
       \/ calls[w].step = "confirm" /\ confirmed' = confirmed \cup calls[w].ops

LEMMA CallEffect ==
    ASSUME LogInv, NEW w \in Writers, EventCommit(w) \/ Confirm(w)
    PROVE  CallMoves(w)
  <1>0. calls[w] \in Call
    BY CallFields DEF LogInv, EventCommit, Confirm
  <1>1. CASE Confirm(w)
    BY <1>0, <1>1 DEF Confirm, LogInv, LogTypeOK, CallMoves, Call
  <1>2. CASE EventCommit(w)
    <2> DEFINE call == calls[w]
               closes == call.status \in TerminalStatuses
               others == IF closes THEN Overtake(w, call.ops) ELSE calls
    <2>1. /\ call.step = "commit" /\ call.ops \subseteq Ops /\ call.status \in Statuses
          /\ \A o \in call.ops : row[o] # "absent"
      BY <1>2, CallFields DEF EventCommit, LogInv, CallsFollowReads
    <2>2. row' = [o \in Ops |-> IF o \in call.ops THEN call.status ELSE row[o]]
      BY <1>2 DEF EventCommit
    <2>3. \E older \in SUBSET call.late :
            outcome' = [o \in Ops |-> IF closes /\ o \in call.ops \ older
                                      THEN call.status ELSE outcome[o]]
      BY <1>2 DEF EventCommit
    <2>4. calls' = [others EXCEPT ![w] = AfterCommit(w)] /\ confirmed' = confirmed
      BY <1>2 DEF EventCommit
    <2>5. \A v \in Writers : calls[v] \in Call \cup {NoCall}
      BY DEF LogInv, LogTypeOK
    <2>6. /\ DOMAIN others = Writers
          /\ \A v \in Writers \ {w} : /\ others[v].ops = calls[v].ops
                                      /\ others[v].status = calls[v].status
                                      /\ others[v].step = calls[v].step
      BY <2>5 DEF Overtake, Call, NoCall, LogInv, LogTypeOK
    <2>7. /\ calls'[w] = AfterCommit(w)
          /\ \A v \in Writers \ {w} : calls'[v] = others[v]
      BY <2>4, <2>6
    <2>8. \A o \in Ops : row'[o] = "absent" <=> row[o] = "absent"
      BY <2>1, <2>2 DEF Statuses, OpenStatuses, TerminalStatuses
    <2> HIDE DEF others
    <2> QED
      BY <1>0, <2>1, <2>2, <2>3, <2>4, <2>6, <2>7, <2>8 DEF AfterCommit, CallMoves
  <1> QED
    BY <1>1, <1>2

\* A crash ends the calls of the process and writes nothing.
CrashMoves(W) ==
    /\ UNCHANGED <<row, outcome, confirmed, queue, deadline, device, net, begins, reached>>
    /\ \A w \in Writers : calls'[w] = IF w \in W THEN NoCall ELSE calls[w]
    /\ faults.crashes < MaxCrashes
    /\ faults' = [faults EXCEPT !.crashes = @ + 1]

LEMMA CrashEffect ==
    ASSUME LogInv, NEW W \in SUBSET Writers, Crash(W)
    PROVE  CrashMoves(W)
  <1>1. \A w \in W : Idle(w) => calls[w] = NoCall
    BY CallFields DEF LogInv, Idle
  <1> QED
    BY <1>1 DEF Crash, Abort, LogUnchanged, logVars, UnchangedDevice, CrashMoves

-----------------------------------------------------------------------------
(* That the device has the operation is known before it is recorded. *)

LEMMA EarnedQuiet ==
    ASSUME EarnedLog, UNCHANGED <<row, outcome, calls, confirmed>>, reached \subseteq reached'
    PROVE  EarnedLog'
  BY DEF EarnedLog

LEMMA EarnedRead ==
    ASSUME LogInv, EarnedLog, NEW w \in Writers, NEW o \in Ops, NEW word \in Statuses,
           EventRead(w, o, word), word \in Earned => o \in reached, reached' = reached
    PROVE  EarnedLog'
  <1>1. ReadMoves(w, o, word)
    BY ReadEffect
  <1>2. \A v \in Writers :
          \/ calls'[v] = calls[v]
          \/ calls'[v].ops = {o} /\ calls'[v].status = word /\ calls'[v].step = "commit"
    BY <1>1 DEF ReadMoves
  <1> QED
    BY <1>1, <1>2 DEF EarnedLog, ReadMoves

LEMMA EarnedCancel ==
    ASSUME LogInv, EarnedLog, NEW w \in Writers, NEW S, CancelRead(w, S), reached' = reached
    PROVE  EarnedLog'
  BY DEF EarnedLog, CancelRead, LogInv, LogTypeOK, Earned

LEMMA EarnedCall ==
    ASSUME LogInv, EarnedLog, NEW w \in Writers, CallStep(w)
    PROVE  EarnedLog'
  <1>1. CallMoves(w)
    BY CallEffect DEF CallStep
  <1>2. reached' = reached
    BY DEF CallStep, deliveryVars
  <1>3. \A o \in Ops : row'[o] \in Earned \/ outcome'[o] \in Earned => o \in reached
    BY <1>1 DEF CallMoves, EarnedLog
  <1>4. \A v \in Writers : /\ calls'[v].status \in Earned => calls'[v].ops \subseteq reached
                           /\ calls'[v].step = "confirm" => calls'[v].status = "success"
    <2>1. ASSUME NEW v \in Writers \ {w}
          PROVE  /\ calls'[v].status \in Earned => calls'[v].ops \subseteq reached
                 /\ calls'[v].step = "confirm" => calls'[v].status = "success"
      BY <1>1 DEF CallMoves, EarnedLog
    <2>2. CASE calls'[w] = NoCall
      BY <2>1, <2>2 DEF NoCall, Earned
    <2>3. CASE calls[w].status = "success" /\ calls'[w] = [calls[w] EXCEPT !.step = "confirm"]
      <3>1. calls'[w].status = "success" /\ calls'[w].ops = calls[w].ops
        BY <1>1, <2>3 DEF CallMoves, Call
      <3>2. calls[w].ops \subseteq reached
        BY <2>3 DEF EarnedLog, Earned
      <3> QED
        BY <2>1, <3>1, <3>2
    <2> QED
      BY <1>1, <2>2, <2>3 DEF CallMoves
  <1>5. confirmed' \subseteq reached
    <2>1. calls[w].step = "confirm" => calls[w].ops \subseteq reached
      BY DEF EarnedLog, Earned
    <2> QED
      BY <1>1, <2>1 DEF CallMoves, EarnedLog
  <1> QED
    BY <1>2, <1>3, <1>4, <1>5 DEF EarnedLog

LEMMA EarnedCrash ==
    ASSUME LogInv, EarnedLog, NEW W \in SUBSET Writers, Crash(W)
    PROVE  EarnedLog'
  <1>1. CrashMoves(W)
    BY CrashEffect
  <1> QED
    BY <1>1 DEF EarnedLog, CrashMoves, NoCall, Earned

LEMMA EarnedCreate ==
    ASSUME LogInv, EarnedLog, NEW o \in Ops, Create(o), reached' = reached
    PROVE  EarnedLog'
  BY DEF EarnedLog, Create, Earned, LogInv, LogTypeOK

-----------------------------------------------------------------------------
(* What is popped has been recorded. *)

\* Steps that touch neither the log nor the worker.
LEMMA PopsQuiet ==
    ASSUME PopsInv, UNCHANGED <<row, calls, worker>>
    PROVE  PopsInv'
  BY DEF PopsInv, Idle

\* A call of another process begins.
LEMMA PopsRead ==
    ASSUME LogInv, PopsInv, NEW w \in Writers \ {Worker}, NEW o \in Ops,
           NEW word \in Statuses \ {"queued", "sending"},
           EventRead(w, o, word), worker' = worker
    PROVE  PopsInv'
  <1>1. ReadMoves(w, o, word)
    BY ReadEffect
  <1> QED
    BY <1>1 DEF PopsInv, Idle, ReadMoves

LEMMA PopsCancel ==
    ASSUME LogInv, PopsInv, NEW w \in Writers \ {Worker}, NEW S, CancelRead(w, S),
           worker' = worker
    PROVE  PopsInv'
  <1>1. /\ \A v \in Writers \ {w} : calls'[v] = calls[v]
        /\ calls'[w].status = "cancelled" /\ row' = row
    BY DEF CancelRead, LogInv, LogTypeOK
  <1> QED
    BY <1>1 DEF PopsInv, Idle

\* Nobody's commit takes a row back to "queued", and only the worker's, before
\* it sends the command, to "sending".
LEMMA PopsCall ==
    ASSUME LogInv, ActorsInv, PopsInv, NEW w \in Writers, CallStep(w)
    PROVE  PopsInv'
  <1>1. CallMoves(w)
    BY CallEffect DEF CallStep
  <1>2. worker' = worker
    BY DEF CallStep, deliveryVars
  <1>3. ~Idle(w)
    BY <1>1 DEF CallMoves, Call, Idle
  <1>4. ASSUME NEW v \in Writers, calls'[v].step # "idle"
        PROVE  ~Idle(v) /\ calls'[v].ops = calls[v].ops /\ calls'[v].status = calls[v].status
    <2>1. CASE v # w
      BY <1>1, <1>4, <2>1 DEF CallMoves, Idle
    <2>2. CASE v = w
      <3>1. calls'[w] = [calls[w] EXCEPT !.step = "confirm"]
        BY <1>1, <1>4, <2>2 DEF CallMoves, NoCall
      <3>2. calls[w] \in Call
        BY <1>1 DEF CallMoves
      <3> QED
        BY <1>3, <2>2, <3>1, <3>2 DEF Call
    <2> QED
      BY <2>1, <2>2
  <1>5. ASSUME worker.pc = "pop", calls'[Worker].step # "commit"
        PROVE  row'[worker.op] \notin {"queued", "sending"}
    <2>1. worker.op \in Ops
      BY <1>5 DEF ActorsInv
    <2>2. calls[w].status \notin {"queued", "sending"}
      BY <1>3, <1>5 DEF PopsInv
    <2>3. CASE calls[Worker].step = "commit"
      <3>1. w = Worker
        BY <1>1, <1>5, <2>3 DEF CallMoves
      <3>2. calls[w].ops = {worker.op}
        BY <1>3, <3>1 DEF PopsInv
      <3> QED
        BY <1>1, <2>1, <2>2, <2>3, <3>1, <3>2 DEF CallMoves
    <2>4. CASE calls[Worker].step # "commit"
      BY <1>1, <1>5, <2>1, <2>2, <2>4 DEF CallMoves, PopsInv
    <2> QED
      BY <2>3, <2>4
  <1> QED
    BY <1>2, <1>4, <1>5 DEF PopsInv, Idle

LEMMA PopsCrash ==
    ASSUME LogInv, PopsInv, NEW W \in SUBSET Writers, Crash(W),
           worker' = IF Worker \in W THEN NoWorker ELSE worker
    PROVE  PopsInv'
  <1>1. CrashMoves(W)
    BY CrashEffect
  <1> QED
    BY <1>1 DEF PopsInv, Idle, NoCall, NoWorker, CrashMoves

-----------------------------------------------------------------------------
(* An operation under way belongs to one request. *)

SameRows == \A o \in Ops : row'[o] = "absent" <=> row[o] = "absent"

\* Steps that leave the agendas, and show nobody an operation that is new.
LEMMA OwnersQuiet ==
    ASSUME OwnersInv, SameRows, \A o \in Ops : Seen(o)' => Seen(o),
           DOMAIN clients' = DOMAIN clients,
           \A c \in Clients : /\ clients'[c].agenda = clients[c].agenda
                              /\ clients'[c].pc = clients[c].pc,
           ActorsInv
    PROVE  OwnersInv'
  <1>1. ASSUME NEW c \in Clients, clients[c].pc \in {"select", "insert"}
        PROVE  row'[Head(clients[c].agenda).op] # "absent"
    <2>1. Head(clients[c].agenda).op \in Ops
      BY <1>1, HeadTask DEF ActorsInv, WellFormed
    <2> QED
      BY <1>1, <2>1 DEF OwnersInv, SameRows
  <1> QED
    BY <1>1 DEF OwnersInv, SameRows, Holds

\* A client is done with its first task, having shown at most its operation.
LEMMA OwnersDone ==
    ASSUME ActorsInv, OwnersInv, SameRows, NEW c \in Clients, clients[c].agenda # <<>>,
           clients' = [clients EXCEPT ![c] = TaskDone(c)],
           \A o \in Ops : Seen(o)' =>
              Seen(o) \/ (Holds(c, 1, o) /\ clients[c].pc = "insert")
    PROVE  OwnersInv'
  <1>1. clients[c].agenda \in Seq(RequestTasks)
    BY DEF ActorsInv, ClientState
  <1> DEFINE agenda == clients[c].agenda
  <1>2. /\ clients'[c].agenda = Tail(agenda) /\ clients'[c].pc = "next"
        /\ \A d \in Clients \ {c} : clients'[d] = clients[d]
    BY DEF TaskDone, ActorsInv
  <1>3. /\ DOMAIN Tail(agenda) = 1..(Len(agenda) - 1) /\ DOMAIN agenda = 1..Len(agenda)
        /\ Len(agenda) \in Nat \ {0}
        /\ \A i \in 1..(Len(agenda) - 1) : Tail(agenda)[i] = agenda[i + 1]
    BY <1>1
  <1>4. ASSUME NEW d \in Clients, NEW o \in Ops, NEW i \in DOMAIN clients'[d].agenda,
               Holds(d, i, o)'
        PROVE  \/ d # c /\ Holds(d, i, o)
               \/ d = c /\ i + 1 \in DOMAIN agenda /\ Holds(c, i + 1, o) /\ i \in Nat \ {0}
    <2>1. CASE d # c
      BY <1>2, <1>4, <2>1 DEF Holds
    <2>2. CASE d = c
      <3>1. i \in 1..(Len(agenda) - 1) /\ Tail(agenda)[i] = Enqueue(o)
        BY <1>2, <1>3, <1>4, <2>2 DEF Holds
      <3>2. i + 1 \in 1..Len(agenda) /\ agenda[i + 1] = Enqueue(o)
        BY <1>3, <3>1
      <3> QED
        BY <1>3, <2>2, <3>1, <3>2 DEF Holds
    <2> QED
      BY <2>1, <2>2
  <1>5. \A o \in Ops : Holds(c, 1, o) => Head(agenda) = Enqueue(o) /\ Head(agenda).op = o
    BY <1>1 DEF Holds, Enqueue
  <1>6. \A o \in Ops : Seen(o)' => row'[o] # "absent"
    BY <1>5 DEF OwnersInv, SameRows
  <1>7. ASSUME NEW d \in Clients, clients'[d].pc \in {"select", "insert"}
        PROVE  row'[Head(clients'[d].agenda).op] # "absent"
    <2>1. d # c /\ clients'[d] = clients[d]
      BY <1>2, <1>7
    <2>2. Head(clients[d].agenda).op \in Ops
      BY <1>7, <2>1, HeadTask DEF ActorsInv, WellFormed
    <2> QED
      BY <1>7, <2>1, <2>2 DEF OwnersInv, SameRows
  <1>8. ASSUME NEW o \in Ops, NEW d \in Clients, NEW i \in DOMAIN clients'[d].agenda,
               Holds(d, i, o)'
        PROVE  /\ ~Seen(o)'
               /\ row'[o] = "absent" \/ (i = 1 /\ clients'[d].pc \in {"select", "insert"})
               /\ \A e \in Clients : \A j \in DOMAIN clients'[e].agenda :
                    Holds(e, j, o)' => e = d /\ j = i
    <2>1. ~Holds(c, 1, o)
      BY <1>3, <1>4, <1>8 DEF OwnersInv, Holds
    <2>2. ~Seen(o)'
      BY <1>4, <1>8, <2>1 DEF OwnersInv, Holds
    <2>3. row'[o] = "absent" \/ (i = 1 /\ clients'[d].pc \in {"select", "insert"})
      <3>1. CASE d # c
        BY <1>2, <1>4, <1>8, <3>1 DEF OwnersInv, SameRows
      <3>2. CASE d = c
        <4>1. i + 1 \in DOMAIN agenda /\ Holds(c, i + 1, o) /\ i + 1 # 1
          BY <1>4, <1>8, <3>2
        <4> QED
          BY <4>1 DEF OwnersInv, SameRows
      <3> QED
        BY <3>1, <3>2
    <2>4. ASSUME NEW e \in Clients, NEW j \in DOMAIN clients'[e].agenda, Holds(e, j, o)'
          PROVE  e = d /\ j = i
      BY <1>3, <1>4, <1>8, <2>4 DEF OwnersInv, Holds
    <2> QED
      BY <2>2, <2>3, <2>4
  <1> QED
    BY <1>6, <1>7, <1>8 DEF OwnersInv

\* A client goes to another step of its task.
LEMMA OwnersGoto ==
    ASSUME ActorsInv, OwnersInv, SameRows, \A o \in Ops : Seen(o)' => Seen(o),
           NEW c \in Clients, NEW new, clients' = [clients EXCEPT ![c] = new],
           new.agenda = clients[c].agenda,
           new.pc \in {"select", "insert"} <=> clients[c].pc \in {"select", "insert"}
    PROVE  OwnersInv'
  <1>1. \A d \in Clients :
          /\ clients'[d].agenda = clients[d].agenda
          /\ clients'[d].pc \in {"select", "insert"} <=> clients[d].pc \in {"select", "insert"}
    BY DEF ActorsInv
  <1>2. ASSUME NEW d \in Clients, clients[d].pc \in {"select", "insert"}
        PROVE  row'[Head(clients[d].agenda).op] # "absent"
    <2>1. Head(clients[d].agenda).op \in Ops
      BY <1>2, HeadTask DEF ActorsInv, WellFormed
    <2> QED
      BY <1>2, <2>1 DEF OwnersInv, SameRows
  <1> QED
    BY <1>1, <1>2 DEF OwnersInv, SameRows, Holds

LEMMA HeadHolds ==
    ASSUME ActorsInv, NEW c \in Clients, clients[c].agenda # <<>>,
           Head(clients[c].agenda).do = "enqueue"
    PROVE  Holds(c, 1, Head(clients[c].agenda).op)
  <1>1. clients[c].agenda \in Seq(RequestTasks)
    BY DEF ActorsInv, ClientState
  <1>2. Head(clients[c].agenda) = Enqueue(Head(clients[c].agenda).op)
    BY <1>1, HeadTask DEF RequestTasks, Enqueue
  <1> QED
    BY <1>1, <1>2 DEF Holds

\* The client's operation is created.
LEMMA OwnersCreate ==
    ASSUME LogInv, ActorsInv, OwnersInv, NEW c \in Clients, CreateOperation(c)
    PROVE  OwnersInv'
  <1> DEFINE o == Head(clients[c].agenda).op
  <1>1. /\ clients[c].agenda # <<>> /\ Head(clients[c].agenda).do = "enqueue"
        /\ clients[c] \in ClientState /\ clients[c].pc = "create"
    BY DEF CreateOperation, Ready, ActorsInv, WellFormed
  <1>2. o \in Ops /\ row[o] = "absent" /\ row' = [row EXCEPT ![o] = "queued"]
    BY <1>1, HeadTask DEF CreateOperation, Create
  <1>3. /\ clients' = [clients EXCEPT ![c] = Goto(c, "select")]
        /\ UNCHANGED <<queue, worker, begins>>
    BY DEF CreateOperation, ClientStep
  <1>4. /\ clients'[c].agenda = clients[c].agenda /\ clients'[c].pc = "select"
        /\ \A d \in Clients \ {c} : clients'[d] = clients[d]
    BY <1>1, <1>3 DEF Goto, ClientState, ActorsInv
  <1>5. \A p \in Ops : row'[p] = IF p = o THEN "queued" ELSE row[p]
    BY <1>2 DEF LogInv, LogTypeOK
  <1>6. Holds(c, 1, o)
    BY <1>1, HeadHolds
  <1>7. \A p \in Ops : Seen(p)' <=> Seen(p)
    BY <1>3 DEF Seen, Pending
  <1>8. \A p \in Ops, d \in Clients : \A i \in DOMAIN clients[d].agenda :
          /\ Holds(d, i, p)' <=> Holds(d, i, p)
          /\ DOMAIN clients'[d].agenda = DOMAIN clients[d].agenda
    BY <1>4 DEF Holds
  <1>9. ASSUME NEW d \in Clients, clients'[d].pc \in {"select", "insert"}
        PROVE  row'[Head(clients'[d].agenda).op] # "absent"
    <2>1. CASE d = c
      BY <1>2, <1>4, <1>5, <2>1
    <2>2. CASE d # c
      <3>1. Head(clients[d].agenda).op \in Ops
        BY <1>4, <1>9, <2>2, HeadTask DEF ActorsInv, WellFormed
      <3> QED
        BY <1>4, <1>5, <1>9, <2>2, <3>1 DEF OwnersInv
    <2> QED
      BY <2>1, <2>2
  <1>10. ASSUME NEW p \in Ops, NEW d \in Clients, NEW i \in DOMAIN clients'[d].agenda,
                Holds(d, i, p)'
         PROVE  row'[p] = "absent" \/ (i = 1 /\ clients'[d].pc \in {"select", "insert"})
    <2>1. Holds(d, i, p)
      BY <1>4, <1>10 DEF Holds
    <2>2. i \in DOMAIN clients[d].agenda /\ 1 \in DOMAIN clients[c].agenda
      BY <1>6, <2>1 DEF Holds
    <2>3. CASE p = o
      <3>1. d = c /\ i = 1
        BY <1>6, <2>1, <2>2, <2>3 DEF OwnersInv
      <3> QED
        BY <1>4, <3>1
    <2>4. CASE p # o /\ d = c
      BY <1>1, <1>5, <2>1, <2>2, <2>4 DEF OwnersInv
    <2>5. CASE p # o /\ d # c
      BY <1>4, <1>5, <2>1, <2>2, <2>5 DEF OwnersInv
    <2> QED
      BY <2>3, <2>4, <2>5
  <1>11. \A p \in Ops : Seen(p)' => row'[p] # "absent"
    BY <1>5, <1>7 DEF OwnersInv
  <1>12. ASSUME NEW p \in Ops, NEW d \in Clients, NEW i \in DOMAIN clients'[d].agenda,
                Holds(d, i, p)'
         PROVE  /\ ~Seen(p)'
                /\ \A e \in Clients : \A j \in DOMAIN clients'[e].agenda :
                     Holds(e, j, p)' => e = d /\ j = i
    <2>1. \A e \in Clients : clients'[e].agenda = clients[e].agenda
      BY <1>4
    <2>2. Holds(d, i, p) /\ i \in DOMAIN clients[d].agenda
      BY <1>12, <2>1 DEF Holds
    <2>3. \A e \in Clients : \A j \in DOMAIN clients'[e].agenda :
            Holds(e, j, p)' => j \in DOMAIN clients[e].agenda /\ Holds(e, j, p)
      BY <2>1 DEF Holds
    <2> QED
      BY <1>7, <2>2, <2>3 DEF OwnersInv
  <1> QED
    BY <1>9, <1>10, <1>11, <1>12 DEF OwnersInv

LEMMA AppendToOne ==
    ASSUME NEW x, NEW y
    PROVE  Append(<<x>>, y) = <<x, y>>
  <1> DEFINE S == {x, y}
             both == <<x, y>>
             longer == Append(<<x>>, y)
  <1>1. <<x>> \in Seq(S) /\ y \in S
    OBVIOUS
  <1>2. Len(longer) = 2 /\ longer[1] = x /\ longer[2] = y /\ longer \in Seq(S)
    BY <1>1
  <1>3. Len(both) = 2 /\ both[1] = x /\ both[2] = y /\ both \in Seq(S)
    OBVIOUS
  <1> HIDE DEF S, longer, both
  <1>4. \A i \in 1..2 : longer[i] = both[i]
    BY <1>2, <1>3
  <1>5. longer = both
    BY <1>2, <1>3, <1>4, SeqEqual
  <1> QED
    BY <1>5 DEF longer, both

\* What a request has to enqueue is unused, and each operation once.
LEMMA AgendasAreFresh ==
    ASSUME NEW r, NEW o \in Ops, Fresh(o), NEW agenda \in Agendas(r, o), NEW p \in Ops,
           NEW i \in DOMAIN agenda, agenda[i] = Enqueue(p)
    PROVE  /\ Fresh(p)
           /\ \A j \in DOMAIN agenda : agenda[j] = Enqueue(p) => j = i
  <1>1. \A q \in Ops : Enqueue(p) = Enqueue(q) => p = q
    BY DEF Enqueue
  <1>2. \A S : Enqueue(p) # CancelTask(S) /\ Enqueue(p) # DropTask(S)
    BY DEF Enqueue, CancelTask, DropTask
  <1>3. \A first \in ConfirmConfig :
          first = <<>> \/ \E f \in Ops : first = <<Enqueue(f)>> /\ Fresh(f) /\ Type[f] = "config"
    BY DEF ConfirmConfig, Configs
  <1>4. CASE Type[o] = "watering_start" /\ agenda \in {Append(first, Enqueue(o)) : first \in ConfirmConfig}
    <2>1. PICK first \in ConfirmConfig : agenda = Append(first, Enqueue(o))
      BY <1>4
    <2>2. CASE first = <<>>
      <3>1. agenda = <<Enqueue(o)>>
        BY <2>1, <2>2
      <3> QED
        BY <1>1, <3>1
    <2>3. ASSUME NEW f \in Ops, first = <<Enqueue(f)>>, Fresh(f), Type[f] = "config"
          PROVE  /\ Fresh(p)
                 /\ \A j \in DOMAIN agenda : agenda[j] = Enqueue(p) => j = i
      <3>1. agenda = <<Enqueue(f), Enqueue(o)>>
        BY <2>1, <2>3, AppendToOne
      <3>2. Enqueue(f) # Enqueue(o)
        <4>1. f # o
          BY <1>4, <2>3
        <4> QED
          BY <4>1 DEF Enqueue
      <3> QED
        BY <1>1, <2>3, <3>1, <3>2
    <2> QED
      BY <1>3, <2>2, <2>3
  <1>5. CASE agenda = <<Enqueue(o), CancelTask(WateringStarts), DropTask(WateringStarts)>>
    BY <1>1, <1>2, <1>5
  <1>6. CASE agenda = <<Enqueue(o)>>
    BY <1>1, <1>6
  <1> QED
    BY <1>4, <1>5, <1>6 DEF Agendas

\* Every task that enqueues has an unused operation, and no two the same.
NewTasks(agenda) ==
    \A p \in Ops : \A i \in DOMAIN agenda :
       agenda[i] = Enqueue(p) =>
         Fresh(p) /\ \A j \in DOMAIN agenda : agenda[j] = Enqueue(p) => j = i

\* A client begins a request, or its process dies and the request is gone.
LEMMA OwnersNew ==
    ASSUME ActorsInv, OwnersInv, SameRows, \A o \in Ops : Seen(o)' => Seen(o),
           NEW c \in Clients, NEW agenda,
           clients' = [clients EXCEPT ![c] = [IdleClient EXCEPT !.agenda = agenda]],
           NewTasks(agenda)
    PROVE  OwnersInv'
  <1>1. /\ clients'[c].agenda = agenda /\ clients'[c].pc = "next"
        /\ \A d \in Clients \ {c} : clients'[d] = clients[d]
    BY DEF ActorsInv, IdleClient
  <1>2. ASSUME NEW d \in Clients, clients'[d].pc \in {"select", "insert"}
        PROVE  row'[Head(clients'[d].agenda).op] # "absent"
    <2>1. d # c
      BY <1>1, <1>2
    <2>2. Head(clients[d].agenda).op \in Ops
      BY <1>1, <1>2, <2>1, HeadTask DEF ActorsInv, WellFormed
    <2> QED
      BY <1>1, <1>2, <2>1, <2>2 DEF OwnersInv, SameRows
  <1>3. \A p \in Ops, d \in Clients : \A i \in DOMAIN clients[d].agenda :
          Fresh(p) => row[p] = "absent" /\ ~Seen(p) /\ ~Holds(d, i, p)
    <2>1. ASSUME NEW p \in Ops, NEW d \in Clients, NEW i \in DOMAIN clients[d].agenda,
                 Holds(d, i, p)
          PROVE  ~Fresh(p)
      BY <2>1 DEF Holds, Fresh, ToSet
    <2> QED
      BY <2>1 DEF Fresh, OwnersInv
  <1>4. \A p \in Ops : Seen(p)' => row'[p] # "absent"
    BY DEF OwnersInv, SameRows
  <1>5. ASSUME NEW p \in Ops, NEW d \in Clients, NEW i \in DOMAIN clients'[d].agenda,
               Holds(d, i, p)'
        PROVE  /\ ~Seen(p)'
               /\ row'[p] = "absent" \/ (i = 1 /\ clients'[d].pc \in {"select", "insert"})
               /\ \A e \in Clients : \A j \in DOMAIN clients'[e].agenda :
                    Holds(e, j, p)' => e = d /\ j = i
    <2>1. CASE d = c
      <3>1. i \in DOMAIN agenda /\ agenda[i] = Enqueue(p)
        BY <1>1, <1>5, <2>1 DEF Holds
      <3>2. Fresh(p) /\ \A j \in DOMAIN agenda : agenda[j] = Enqueue(p) => j = i
        BY <3>1 DEF NewTasks
      <3>3. row'[p] = "absent" /\ ~Seen(p)'
        BY <3>2 DEF Fresh, OwnersInv, SameRows
      <3>4. ASSUME NEW e \in Clients, NEW j \in DOMAIN clients'[e].agenda, Holds(e, j, p)'
            PROVE  e = d /\ j = i
        <4>1. CASE e = c
          BY <1>1, <2>1, <3>2, <3>4, <4>1 DEF Holds
        <4>2. CASE e # c
          BY <1>1, <1>3, <3>2, <3>4, <4>2 DEF Holds
        <4> QED
          BY <4>1, <4>2
      <3> QED
        BY <3>3, <3>4
    <2>2. CASE d # c
      <3>1. Holds(d, i, p) /\ i \in DOMAIN clients[d].agenda
        BY <1>1, <1>5, <2>2 DEF Holds
      <3>2. /\ ~Seen(p)
            /\ row[p] = "absent" \/ (i = 1 /\ clients[d].pc \in {"select", "insert"})
        BY <3>1 DEF OwnersInv
      <3>3. ASSUME NEW e \in Clients, NEW j \in DOMAIN clients'[e].agenda, Holds(e, j, p)'
            PROVE  e = d /\ j = i
        <4>1. CASE e = c
          <5>1. j \in DOMAIN agenda /\ agenda[j] = Enqueue(p)
            BY <1>1, <3>3, <4>1 DEF Holds
          <5> QED
            BY <1>3, <3>1, <5>1 DEF NewTasks
        <4>2. CASE e # c
          <5>1. j \in DOMAIN clients[e].agenda /\ Holds(e, j, p)
            BY <1>1, <3>3, <4>2 DEF Holds
          <5> QED
            BY <3>1, <5>1 DEF OwnersInv
        <4> QED
          BY <4>1, <4>2
      <3> QED
        BY <1>1, <2>2, <3>2, <3>3 DEF SameRows
    <2> QED
      BY <2>1, <2>2
  <1> QED
    BY <1>2, <1>4, <1>5 DEF OwnersInv

-----------------------------------------------------------------------------
(* The steps of the clients. *)

\* Nothing that the worker could send appears again after it was begun.
LEMMA StartsQuiet ==
    ASSUME DeliveryTypes, DeliveryTypes', StartsInv, begins' = begins,
           \/ Failures' = Failures + 1
           \/ /\ Failures' = Failures
              /\ \A o \in Ops : Again(o)' => Again(o) \/ begins[o] = 0
    PROVE  StartsInv'
  <1>1. \A o \in Ops : begins[o] \in Nat
    BY DEF DeliveryTypes
  <1>2. Failures \in Nat
    BY DEF DeliveryTypes, Failures
  <1> QED
    BY <1>1, <1>2 DEF StartsInv

\* A step of a client: the rest of the world sees at most the queue change.
LEMMA ClientWorld ==
    ASSUME DeliveryInv, UNCHANGED <<worker, device, net, begins, reached, faults, deadline>>,
           queue' \in Seq(Ops), IsInjective(queue'),
           \A o \in Ops : o \in Pending' => o \in Pending \/ begins[o] = 0
    PROVE  DeliveryTypes' /\ StartsInv' /\ EarnedWorld'
  <1>1. DeliveryTypes'
    BY DEF DeliveryTypes, DeliveryInv
  <1>2. StartsInv'
    <2>1. \A o \in Ops : Again(o)' => Again(o) \/ begins[o] = 0
      BY DEF Again
    <2>2. Failures' = Failures
      BY DEF Failures
    <2> QED
      BY <1>1, <2>1, <2>2, StartsQuiet DEF DeliveryInv
  <1>3. EarnedWorld'
    BY DEF EarnedWorld, DeliveryInv
  <1> QED
    BY <1>1, <1>2, <1>3

\* What the lemmas about each part show of a step.
StepInv ==
    DeliveryTypes' /\ OwnersInv' /\ StartsInv' /\ EarnedLog' /\ EarnedWorld' /\ PopsInv'

\* The queue loses rows at most.
LEMMA ShorterWorld ==
    ASSUME DeliveryInv, UNCHANGED <<worker, device, net, begins, reached, faults, deadline>>,
           queue' = queue \/ \E R : queue' = Without(queue, R)
    PROVE  /\ DeliveryTypes' /\ StartsInv' /\ EarnedWorld'
           /\ \A o \in Ops : Seen(o)' => Seen(o)
  <1>1. queue \in Seq(Ops) /\ IsInjective(queue)
    BY DEF DeliveryInv, DeliveryTypes
  <1>2. queue' \in Seq(Ops) /\ IsInjective(queue') /\ ToSet(queue') \subseteq ToSet(queue)
    BY <1>1, WithoutIs
  <1>3. DeliveryTypes' /\ StartsInv' /\ EarnedWorld'
    BY <1>2, ClientWorld DEF Pending
  <1> QED
    BY <1>2, <1>3 DEF Seen, Pending

LEMMA QuietLog ==
    ASSUME LogUnchanged
    PROVE  UNCHANGED <<row, outcome, calls, confirmed>> /\ SameRows
  BY DEF LogUnchanged, logVars, SameRows

LEMMA ReadKeepsRows ==
    ASSUME LogInv, NEW w \in Writers, NEW o \in Ops, NEW word \in Statuses, EventRead(w, o, word)
    PROVE  SameRows
  BY ReadEffect DEF ReadMoves, SameRows

LEMMA ClientRequest ==
    ASSUME DeliveryInv, NEW c \in Clients, NEW r, NEW o \in Ops,
           Request(c, r, o) \/ RequestClear(c)
    PROVE  StepInv
  <1>1. PICK agenda :
          ClientStep(c, [IdleClient EXCEPT !.agenda = agenda]) /\ NewTasks(agenda)
    <2>1. CASE Request(c, r, o)
      <3>1. PICK agenda \in Agendas(r, o) : ClientStep(c, [IdleClient EXCEPT !.agenda = agenda])
        BY <2>1 DEF Request
      <3>2. Fresh(o)
        BY <2>1 DEF Request
      <3>3. NewTasks(agenda)
        BY <3>2, AgendasAreFresh DEF NewTasks
      <3> QED
        BY <3>1, <3>3
    <2>2. CASE RequestClear(c)
      <3> DEFINE agenda == <<DropTask(Ops), CancelTask(Ops)>>
      <3>1. \A p \in Ops : Enqueue(p) # DropTask(Ops) /\ Enqueue(p) # CancelTask(Ops)
        BY DEF Enqueue, DropTask, CancelTask
      <3>2. NewTasks(agenda)
        BY <3>1 DEF NewTasks
      <3>3. ClientStep(c, [IdleClient EXCEPT !.agenda = agenda])
        BY <2>2 DEF RequestClear
      <3> HIDE DEF agenda
      <3> QED
        BY <3>2, <3>3
    <2> QED
      BY <2>1, <2>2
  <1>2. LogUnchanged /\ UNCHANGED <<queue, deadline>>
    BY DEF Request, RequestClear
  <1>3. UNCHANGED <<worker, device, net, begins, reached, faults>>
    BY <1>1 DEF ClientStep
  <1>4. /\ DeliveryTypes' /\ StartsInv' /\ EarnedWorld'
        /\ \A p \in Ops : Seen(p)' => Seen(p)
    BY <1>2, <1>3, ShorterWorld
  <1>5. OwnersInv'
    BY <1>1, <1>2, <1>4, OwnersNew, QuietLog DEF ClientStep, DeliveryInv
  <1>6. EarnedLog' /\ PopsInv'
    BY <1>2, <1>3, QuietLog, EarnedQuiet, PopsQuiet DEF DeliveryInv
  <1> QED
    BY <1>4, <1>5, <1>6 DEF StepInv

LEMMA CancelOperationStep ==
    ASSUME DeliveryInv, NEW c \in Clients, NEW o \in Ops, CancelOperation(c, o)
    PROVE  StepInv
  <1>1. EventRead(c, o, "cancelled") /\ UNCHANGED deliveryVars
    BY DEF CancelOperation
  <1>2. c \in Writers \ {Worker} /\ "cancelled" \in Statuses \ {"queued", "sending"}
    BY DEF Statuses, TerminalStatuses
  <1>3. UNCHANGED <<queue, deadline, worker, clients, device, net, begins, reached, faults>>
    BY <1>1 DEF deliveryVars
  <1>4. SameRows /\ EarnedLog' /\ PopsInv'
    BY <1>1, <1>2, <1>3, ReadKeepsRows, EarnedRead, PopsRead DEF DeliveryInv, Earned
  <1>5. /\ DeliveryTypes' /\ StartsInv' /\ EarnedWorld'
        /\ \A p \in Ops : Seen(p)' => Seen(p)
    BY <1>3, ShorterWorld
  <1>6. OwnersInv'
    BY <1>3, <1>4, <1>5, OwnersQuiet DEF DeliveryInv
  <1> QED
    BY <1>4, <1>5, <1>6 DEF StepInv

LEMMA CallStepStep ==
    ASSUME DeliveryInv, NEW w \in Writers, CallStep(w)
    PROVE  StepInv
  <1>1. UNCHANGED <<queue, deadline, worker, clients, device, net, begins, reached, faults>>
    BY DEF CallStep, deliveryVars
  <1>2. SameRows
    BY CallEffect DEF CallStep, CallMoves, SameRows, DeliveryInv
  <1>3. EarnedLog' /\ PopsInv'
    BY EarnedCall, PopsCall DEF DeliveryInv
  <1>4. /\ DeliveryTypes' /\ StartsInv' /\ EarnedWorld'
        /\ \A p \in Ops : Seen(p)' => Seen(p)
    BY <1>1, ShorterWorld
  <1>5. OwnersInv'
    BY <1>1, <1>2, <1>4, OwnersQuiet DEF DeliveryInv
  <1> QED
    BY <1>3, <1>4, <1>5 DEF StepInv

LEMMA ClientStepStep ==
    ASSUME DeliveryInv, NEW c \in Clients, ClientProgress(c)
    PROVE  StepInv
  <1> DEFINE task == Head(clients[c].agenda)
  <1>0. /\ LogInv /\ ActorsInv /\ DeliveryTypes /\ OwnersInv
        /\ StartsInv /\ EarnedLog /\ EarnedWorld /\ PopsInv
        /\ queue \in Seq(Ops) /\ IsInjective(queue)
        /\ c \in Writers \ {Worker}
        /\ clients[c] \in ClientState /\ WellFormed(clients[c])
    BY DEF DeliveryInv, DeliveryTypes, ActorsInv
  \* Steps that leave the log alone, and of the queue at least what is seen.
  <1>1. ASSUME LogUnchanged, UNCHANGED <<worker, device, net, begins, reached, faults, deadline>>,
               queue' = queue \/ \E R : queue' = Without(queue, R),
               clients[c].agenda # <<>>, clients' = [clients EXCEPT ![c] = TaskDone(c)]
        PROVE  StepInv
    <2>1. EarnedLog' /\ PopsInv' /\ SameRows
      BY <1>0, <1>1, QuietLog, EarnedQuiet, PopsQuiet
    <2>2. /\ DeliveryTypes' /\ StartsInv' /\ EarnedWorld'
          /\ \A o \in Ops : Seen(o)' => Seen(o)
      BY <1>1, ShorterWorld
    <2>3. OwnersInv'
      BY <1>0, <1>1, <2>1, <2>2, OwnersDone
    <2> QED
      BY <2>1, <2>2, <2>3 DEF StepInv
  <1>2. ASSUME LogUnchanged, UNCHANGED <<worker, device, net, begins, reached, faults, deadline, queue>>,
               NEW new, clients' = [clients EXCEPT ![c] = new],
               new.agenda = clients[c].agenda,
               new.pc \in {"select", "insert"} <=> clients[c].pc \in {"select", "insert"}
        PROVE  StepInv
    <2>1. EarnedLog' /\ PopsInv' /\ SameRows
      BY <1>0, <1>2, QuietLog, EarnedQuiet, PopsQuiet
    <2>2. /\ DeliveryTypes' /\ StartsInv' /\ EarnedWorld'
          /\ \A o \in Ops : Seen(o)' => Seen(o)
      BY <1>2, ShorterWorld
    <2>3. OwnersInv'
      BY <1>0, <1>2, <2>1, <2>2, OwnersGoto
    <2> QED
      BY <2>1, <2>2, <2>3 DEF StepInv
  <1>3. \A pc : /\ Goto(c, pc).agenda = clients[c].agenda /\ Goto(c, pc).pc = pc
                /\ \A S : /\ [Goto(c, pc) EXCEPT !.ids = S].agenda = clients[c].agenda
                          /\ [Goto(c, pc) EXCEPT !.ids = S].pc = pc
    BY <1>0 DEF Goto, ClientState
  <1>4. CASE FindDuplicate(c)
    <2>1. /\ clients[c].agenda # <<>> /\ clients[c].pc = "next" /\ LogUnchanged
          /\ UNCHANGED <<queue, deadline, worker, device, net, begins, reached, faults>>
      BY <1>4 DEF FindDuplicate, Ready, ClientStep
    <2>2. CASE clients' = [clients EXCEPT ![c] = TaskDone(c)]
      BY <1>1, <2>1, <2>2
    <2>3. CASE clients' = [clients EXCEPT ![c] = Goto(c, "create")]
      <3> DEFINE new == Goto(c, "create")
      <3>1. new.agenda = clients[c].agenda /\ new.pc = "create"
        BY <1>3
      <3> HIDE DEF new
      <3>2. clients' = [clients EXCEPT ![c] = new]
        BY <2>3 DEF new
      <3> QED
        BY <1>2, <2>1, <3>1, <3>2
    <2> QED
      BY <1>4, <2>2, <2>3 DEF FindDuplicate, ClientStep
  <1>5. CASE CreateOperation(c)
    <2>1. /\ UNCHANGED <<queue, deadline, worker, device, net, begins, reached, faults>>
          /\ task \in RequestTasks /\ task.op \in Ops /\ Create(task.op)
      BY <1>0, <1>5, HeadTask DEF CreateOperation, ClientStep, Ready, WellFormed
    <2>2. DeliveryTypes' /\ StartsInv' /\ EarnedWorld'
      BY <2>1, ShorterWorld
    <2>3. EarnedLog'
      BY <1>0, <2>1, EarnedCreate
    <2>4. OwnersInv'
      BY <1>0, <1>5, OwnersCreate
    <2>5. PopsInv'
      <3>1. /\ row' = [row EXCEPT ![task.op] = "queued"] /\ row[task.op] = "absent"
            /\ calls' = calls
        BY <2>1 DEF Create
      <3>2. worker.pc = "pop" => worker.op \in Ops /\ row[worker.op] # "absent"
        BY <1>0 DEF ActorsInv, OwnersInv, Seen
      <3>3. worker.pc = "pop" => row'[worker.op] = row[worker.op]
        BY <1>0, <3>1, <3>2 DEF LogInv, LogTypeOK
      <3> QED
        BY <1>0, <2>1, <3>1, <3>3 DEF PopsInv, Idle
    <2> QED
      BY <2>2, <2>3, <2>4, <2>5 DEF StepInv
  <1>6. CASE SelectDuplicates(c)
    <2>1. clients[c].agenda # <<>> /\ task.op \in Ops
      BY <1>0, <1>6, HeadTask DEF SelectDuplicates, Ready, WellFormed
    <2>2. CASE Duplicates(task.op) = {}
      BY <1>2, <1>3, <1>6, <2>2 DEF SelectDuplicates, ClientStep
    <2>3. CASE Duplicates(task.op) # {}
      <3>1. /\ EventRead(c, task.op, "cancelled")
            /\ clients' = [clients EXCEPT ![c] = TaskDone(c)]
            /\ UNCHANGED <<queue, deadline, worker, device, net, begins, reached, faults>>
        BY <1>6, <2>3 DEF SelectDuplicates, ClientStep
      <3>2. "cancelled" \in Statuses \ {"queued", "sending"} /\ "cancelled" \notin Earned
        BY DEF Statuses, TerminalStatuses, Earned
      <3>3. EarnedLog' /\ PopsInv' /\ SameRows
        BY <1>0, <2>1, <3>1, <3>2, EarnedRead, PopsRead, ReadKeepsRows
      <3>4. /\ DeliveryTypes' /\ StartsInv' /\ EarnedWorld'
            /\ \A o \in Ops : Seen(o)' => Seen(o)
        BY <3>1, ShorterWorld
      <3>5. OwnersInv'
        BY <1>0, <2>1, <3>1, <3>3, <3>4, OwnersDone
      <3> QED
        BY <3>3, <3>4, <3>5 DEF StepInv
    <2> QED
      BY <2>2, <2>3
  <1>7. CASE Insert(c)
    <2>1. /\ clients[c].agenda # <<>> /\ clients[c].pc = "insert"
          /\ LogUnchanged /\ clients' = [clients EXCEPT ![c] = TaskDone(c)]
          /\ UNCHANGED <<deadline, worker, device, net, begins, reached, faults>>
          /\ queue' = Append(queue, task.op)
      BY <1>7 DEF Insert, Ready, ClientStep
    <2>2. task.do = "enqueue" /\ task.op \in Ops /\ Holds(c, 1, task.op)
      BY <1>0, <2>1, HeadTask, HeadHolds DEF WellFormed
    <2>3. ~Seen(task.op)
      BY <1>0, <2>2 DEF OwnersInv, Holds
    <2>4. /\ queue' \in Seq(Ops) /\ IsInjective(queue')
          /\ ToSet(queue') = ToSet(queue) \cup {task.op}
      BY <1>0, <2>1, <2>2, <2>3, AppendIs DEF Seen, Pending
    <2>5. DeliveryTypes' /\ StartsInv' /\ EarnedWorld'
      BY <2>1, <2>3, <2>4, ClientWorld DEF Pending, Seen
    <2>6. EarnedLog' /\ PopsInv' /\ SameRows
      BY <1>0, <2>1, QuietLog, EarnedQuiet, PopsQuiet
    <2>7. \A o \in Ops : Seen(o)' => Seen(o) \/ (Holds(c, 1, o) /\ clients[c].pc = "insert")
      BY <2>1, <2>2, <2>4 DEF Seen, Pending
    <2>8. OwnersInv'
      BY <1>0, <2>1, <2>6, <2>7, OwnersDone
    <2> QED
      BY <2>5, <2>6, <2>8 DEF StepInv
  <1>8. CASE CancelRows(c)
    <2>1. /\ clients[c].agenda # <<>> /\ clients' = [clients EXCEPT ![c] = TaskDone(c)]
          /\ UNCHANGED <<queue, deadline, worker, device, net, begins, reached, faults>>
      BY <1>8 DEF CancelRows, Ready, ClientStep
    <2>2. CASE LogUnchanged
      BY <1>1, <2>1, <2>2
    <2>3. CASE CancelRead(c, task.ops)
      <3>1. SameRows
        BY <2>3 DEF CancelRead, SameRows
      <3>2. EarnedLog' /\ PopsInv'
        BY <1>0, <2>1, <2>3, EarnedCancel, PopsCancel
      <3>3. /\ DeliveryTypes' /\ StartsInv' /\ EarnedWorld'
            /\ \A o \in Ops : Seen(o)' => Seen(o)
        BY <2>1, ShorterWorld
      <3>4. OwnersInv'
        BY <1>0, <2>1, <3>1, <3>3, OwnersDone
      <3> QED
        BY <3>2, <3>3, <3>4 DEF StepInv
    <2> QED
      BY <1>8, <2>2, <2>3 DEF CancelRows
  <1>9. CASE SelectDrop(c)
    <2>1. /\ clients[c].agenda # <<>> /\ clients[c].pc = "next" /\ LogUnchanged
          /\ UNCHANGED <<queue, deadline, worker, device, net, begins, reached, faults>>
      BY <1>9 DEF SelectDrop, Ready, ClientStep
    <2>2. CASE clients' = [clients EXCEPT ![c] = TaskDone(c)]
      BY <1>1, <2>1, <2>2
    <2>3. CASE clients' = [clients EXCEPT ![c] =
                  [Goto(c, "delete") EXCEPT !.ids = task.ops \cap Pending]]
      <3> DEFINE new == [Goto(c, "delete") EXCEPT !.ids = task.ops \cap Pending]
      <3>1. new.agenda = clients[c].agenda /\ new.pc = "delete"
        BY <1>3
      <3>2. clients' = [clients EXCEPT ![c] = new]
        BY <2>3
      <3> HIDE DEF new
      <3> QED
        BY <1>2, <2>1, <3>1, <3>2
    <2> QED
      BY <1>9, <2>2, <2>3 DEF SelectDrop, ClientStep
  <1>10. CASE DeleteDrop(c)
    BY <1>1, <1>10 DEF DeleteDrop, Ready, ClientStep
  <1>11. CASE CallStep(c)
    BY <1>11, CallStepStep
  <1> QED
    BY <1>4, <1>5, <1>6, <1>7, <1>8, <1>9, <1>10, <1>11 DEF ClientProgress

-----------------------------------------------------------------------------
(* The steps of the worker. *)

WorkerPlaces == {"off", "peek", "pick", "check", "send", "ok", "refused", "none",
                 "requeue", "move", "pop"}

\* The worker goes on without a request, showing nobody a new operation.
LEMMA WorkerWorld ==
    ASSUME DeliveryInv, SameRows, UNCHANGED <<faults, device, net, begins, reached>>,
           DOMAIN clients' = DOMAIN clients,
           \A c \in Clients : /\ clients'[c].agenda = clients[c].agenda
                              /\ clients'[c].pc = clients[c].pc,
           queue' \in Seq(Ops), IsInjective(queue'),
           deadline' \in [Ops -> {"unset", "running", "passed"}],
           NEW pc \in WorkerPlaces \ {"ok", "refused"}, NEW op \in Ops \cup {NoOp},
           worker' = [pc |-> pc, op |-> op],
           \A o \in Ops : Seen(o)' => Seen(o),
           \A o \in Ops : Again(o)' => Again(o)
    PROVE  DeliveryTypes' /\ OwnersInv' /\ StartsInv' /\ EarnedWorld'
  <1>1. DeliveryTypes'
    BY DEF DeliveryInv, DeliveryTypes, WorkerPlaces
  <1>2. OwnersInv'
    BY OwnersQuiet DEF DeliveryInv
  <1>3. StartsInv'
    <2>1. Failures' = Failures
      BY DEF Failures
    <2> QED
      BY <1>1, <2>1, StartsQuiet DEF DeliveryInv
  <1>4. EarnedWorld'
    BY DEF DeliveryInv, EarnedWorld
  <1> QED
    BY <1>1, <1>2, <1>3, <1>4

\* The same for a step that changes neither the queue nor the clients.
LEMMA WorkerMoves ==
    ASSUME DeliveryInv, SameRows, UNCHANGED <<queue, clients, faults, device, net, begins, reached>>,
           deadline' \in [Ops -> {"unset", "running", "passed"}],
           NEW pc \in WorkerPlaces \ {"ok", "refused"}, NEW op \in Ops \cup {NoOp},
           worker' = [pc |-> pc, op |-> op],
           op \in Ops => op = worker.op \/ op \in Pending,
           pc \in {"off", "peek", "pop"} \/ op \in Pending \/ (op = worker.op /\ Again(op)),
           worker.pc \in {"ok", "pop"} => pc = "pop" /\ op = worker.op
    PROVE  DeliveryTypes' /\ OwnersInv' /\ StartsInv' /\ EarnedWorld'
  <1>1. queue' \in Seq(Ops) /\ IsInjective(queue') /\ Pending' = Pending
    BY DEF DeliveryInv, DeliveryTypes, Pending
  <1>2. \A o \in Ops : Seen(o)' => Seen(o)
    BY <1>1 DEF Seen
  <1>3. \A o \in Ops : Again(o)' => Again(o)
    BY <1>1 DEF Again, WorkerPlaces
  <1> QED
    BY <1>1, <1>2, <1>3, WorkerWorld

\* What the worker records after the answer is not a step back.
LEMMA VerdictStays ==
    ASSUME LogInv, NEW o \in Ops, NEW word \in {"accepted", "success", "error", "timeout"},
           Refused(o, word), row[o] # "absent"
    PROVE  row[o] \notin {"queued", "sending"}
  <1>1. row[o] \in Statuses
    BY DEF LogInv, LogTypeOK
  <1>2. Rank["queued"] = 0 /\ Rank["sending"] = 1 /\ Rank[word] \in {2, 4}
    BY DEF Rank, Statuses, OpenStatuses, TerminalStatuses
  <1> QED
    BY <1>1, <1>2 DEF Refused, TerminalStatuses

\* The worker records what became of its command.
LEMMA WorkerRecords ==
    ASSUME DeliveryInv, NEW word \in {"accepted", "success", "error", "timeout"},
           EventRead(Worker, worker.op, word), worker.op \in Ops,
           worker.pc \in {"ok", "refused", "none"}, WorkerStep("pop", worker.op),
           UnchangedDevice, UNCHANGED <<queue, deadline>>,
           word \in Earned => worker.op \in reached
    PROVE  StepInv
  <1>1. ReadMoves(Worker, worker.op, word)
    BY ReadEffect DEF DeliveryInv, Statuses, OpenStatuses, TerminalStatuses
  <1>2. /\ UNCHANGED <<queue, deadline, clients, faults, device, net, begins, reached>>
        /\ worker' = [pc |-> "pop", op |-> worker.op]
    BY DEF WorkerStep, UnchangedDevice
  <1>3. SameRows
    BY <1>1 DEF ReadMoves, SameRows
  <1>4. DeliveryTypes' /\ OwnersInv' /\ StartsInv' /\ EarnedWorld'
    <2>1. deadline' \in [Ops -> {"unset", "running", "passed"}]
      BY <1>2 DEF DeliveryInv, DeliveryTypes
    <2>2. "pop" \in WorkerPlaces \ {"ok", "refused"}
      BY DEF WorkerPlaces
    <2> QED
      BY <1>2, <1>3, <2>1, <2>2, WorkerMoves
  <1>5. EarnedLog'
    BY <1>2, EarnedRead DEF DeliveryInv, Statuses, OpenStatuses, TerminalStatuses
  <1>6. PopsInv'
    <2>1. PopsInv /\ LogInv
      BY DEF DeliveryInv
    <2>2. row' = row /\ row[worker.op] # "absent" /\ Idle(Worker)
      BY <1>1 DEF ReadMoves
    <2>3. \A v \in Writers \ {Worker} : calls'[v] = calls[v]
      BY <1>1 DEF ReadMoves
    <2>4. CASE calls'[Worker] = [ops |-> {worker.op}, status |-> word, late |-> {}, step |-> "commit"]
      BY <1>2, <2>1, <2>3, <2>4 DEF PopsInv, Idle
    <2>5. CASE Refused(worker.op, word) /\ calls'[Worker] = calls[Worker]
      <3>1. row[worker.op] \notin {"queued", "sending"}
        BY <2>1, <2>2, <2>5, VerdictStays
      <3> QED
        BY <1>2, <2>1, <2>2, <2>3, <2>5, <3>1 DEF PopsInv, Idle
    <2> QED
      BY <1>1, <2>4, <2>5 DEF ReadMoves
  <1> QED
    BY <1>4, <1>5, <1>6 DEF StepInv

\* Steps of the worker that leave the log alone.
LEMMA WorkerLog ==
    ASSUME DeliveryInv, LogUnchanged, reached \subseteq reached', At(worker.pc),
           worker'.pc = "pop" => row[worker'.op] \notin {"queued", "sending"}
    PROVE  EarnedLog' /\ PopsInv' /\ SameRows
  <1>1. EarnedLog' /\ SameRows /\ UNCHANGED <<row, calls>>
    BY QuietLog, EarnedQuiet DEF DeliveryInv
  <1>2. PopsInv'
    BY <1>1 DEF DeliveryInv, PopsInv, Idle, At
  <1> QED
    BY <1>1, <1>2

\* What the device's handlers change.
LEMMA HandleEffect ==
    ASSUME DeliveryTypes, NEW o \in Ops, NEW answer \in {"ok", "refused"}, Handle(o, answer)
    PROVE  /\ device' \in [op : Ops \cup {NoOp}, pumping : BOOLEAN, stop : BOOLEAN]
           /\ device'.op \in {device.op, o}
           /\ \A m \in net' : m \in net \/ \E word \in CallbackWords : m = <<o, word>>
           /\ begins' \in [Ops -> Nat]
           /\ \A p \in Ops : \/ begins'[p] = begins[p]
                             \/ p = o /\ answer = "ok" /\ begins'[p] = begins[p] + 1
  <1>1. {"received", "success", "error"} \subseteq CallbackWords
    BY DEF CallbackWords
  <1>2. CASE BeginWatering(o) /\ answer = "ok"
    <2>1. /\ device' = [IdleDevice EXCEPT !.op = o]
          /\ begins' = [begins EXCEPT ![o] = @ + 1] /\ begins \in [Ops -> Nat]
          /\ net' = net \cup {<<o, "received">>}
      BY <1>2 DEF BeginWatering, DeliveryTypes
    <2>2. /\ device' \in [op : Ops \cup {NoOp}, pumping : BOOLEAN, stop : BOOLEAN]
          /\ device'.op = o
      BY <2>1 DEF IdleDevice
    <2>3. /\ begins' \in [Ops -> Nat]
          /\ \A p \in Ops : begins'[p] = begins[p] \/ (p = o /\ begins'[p] = begins[p] + 1)
      BY <2>1
    <2>4. \A m \in net' : m \in net \/ \E word \in CallbackWords : m = <<o, word>>
      BY <1>1, <2>1
    <2> QED
      BY <1>2, <2>2, <2>3, <2>4
  <1>3. CASE RefuseStart(o) \/ RefuseStop(o)
    BY <1>1, <1>3 DEF RefuseStart, RefuseStop, DeliveryTypes
  <1>4. CASE TakeStop(o)
    BY <1>1, <1>4 DEF TakeStop, DeliveryTypes
  <1>5. CASE ApplyOther(o, "success") \/ ApplyOther(o, "error")
    BY <1>1, <1>5 DEF ApplyOther, DeliveryTypes
  <1> QED
    BY <1>2, <1>3, <1>4, <1>5 DEF Handle

\* The request: the device may have acted, whatever the worker learns of it.
LEMMA SendStep ==
    ASSUME DeliveryInv, Send
    PROVE  StepInv
  <1> DEFINE o == worker.op
  <1>1. /\ At("send") /\ o \in Ops /\ LogUnchanged /\ UNCHANGED <<queue, deadline, clients>>
        /\ worker' \in {[pc |-> pc, op |-> o] : pc \in {"ok", "refused", "none"}} \cup {NoWorker}
        /\ reached \subseteq reached'
    BY DEF Send, At, DeliveryInv, ActorsInv, WorkerStep, UnchangedDevice
  <1>2. worker'.pc # "pop" /\ At(worker.pc)
    BY <1>1 DEF NoWorker, At
  <1>3. EarnedLog' /\ PopsInv' /\ SameRows
    BY <1>1, <1>2, WorkerLog
  <1>4. ASSUME WorkerStep("none", o), UnchangedDevice PROVE StepInv
    <2>1. /\ UNCHANGED <<faults, device, net, begins, reached>>
          /\ worker' = [pc |-> "none", op |-> o]
          /\ deadline' \in [Ops -> {"unset", "running", "passed"}]
      BY <1>1, <1>4 DEF WorkerStep, UnchangedDevice, DeliveryInv, DeliveryTypes
    <2>2. Again(o) /\ "none" \in WorkerPlaces \ {"ok", "refused"}
      BY <1>1 DEF Again, At, WorkerPlaces
    <2>3. DeliveryTypes' /\ OwnersInv' /\ StartsInv' /\ EarnedWorld'
      BY <1>1, <1>3, <2>1, <2>2, WorkerMoves DEF At
    <2> QED
      BY <1>3, <2>3 DEF StepInv
  <1>5. ASSUME NEW answer \in {"ok", "refused"}, Handle(o, answer), reached' = reached \cup {o},
               \/ worker' = [pc |-> answer, op |-> o] /\ faults' = faults
               \/ /\ faults.answers < MaxLostAnswers
                  /\ faults' = [faults EXCEPT !.answers = @ + 1]
                  /\ worker' \in {[pc |-> "none", op |-> o], NoWorker}
        PROVE  StepInv
    <2>1. DeliveryTypes /\ StartsInv /\ EarnedWorld /\ OwnersInv /\ ActorsInv
      BY DEF DeliveryInv
    <2>2. /\ device' \in [op : Ops \cup {NoOp}, pumping : BOOLEAN, stop : BOOLEAN]
          /\ device'.op \in {device.op, o}
          /\ \A m \in net' : m \in net \/ \E word \in CallbackWords : m = <<o, word>>
          /\ begins' \in [Ops -> Nat]
          /\ \A p \in Ops : \/ begins'[p] = begins[p]
                            \/ p = o /\ answer = "ok" /\ begins'[p] = begins[p] + 1
      BY <1>1, <1>5, <2>1, HandleEffect
    <2>3. DeliveryTypes'
      <3>1. faults' \in [answers : 0..MaxLostAnswers, crashes : 0..MaxCrashes]
        BY <1>5, <2>1 DEF DeliveryTypes
      <3>2. net' \subseteq Ops \X CallbackWords
        BY <1>1, <2>1, <2>2 DEF DeliveryTypes
      <3>3. worker' \in [pc : WorkerPlaces, op : Ops \cup {NoOp}]
        BY <1>1 DEF WorkerPlaces, NoWorker
      <3>4. queue' \in Seq(Ops) /\ IsInjective(queue') /\ reached' \subseteq Ops
        BY <1>1, <1>5, <2>1 DEF DeliveryTypes
      <3>5. deadline' \in [Ops -> {"unset", "running", "passed"}]
        BY <1>1, <2>1 DEF DeliveryTypes
      <3> QED
        BY <2>2, <3>1, <3>2, <3>3, <3>4, <3>5 DEF DeliveryTypes, WorkerPlaces
    <2>4. \A p \in Ops : Seen(p)' => Seen(p)
      <3>1. \A p \in Ops : worker'.op = p => p = o
        BY <1>1 DEF NoWorker
      <3>2. \A p \in Ops : begins'[p] # 0 => begins[p] # 0 \/ p = o
        BY <2>2
      <3> QED
        BY <1>1, <3>1, <3>2 DEF Seen, Pending
    <2>5. OwnersInv'
      BY <1>1, <1>3, <2>1, <2>4, OwnersQuiet
    <2>6. EarnedWorld'
      <3>1. worker'.pc \in {"ok", "refused"} => worker'.op \in reached'
        BY <1>1, <1>5 DEF NoWorker
      <3>2. ASSUME NEW p \in Ops, NEW word \in CallbackWords, <<p, word>> \in net'
            PROVE  p \in reached'
        BY <1>5, <2>1, <2>2, <3>2 DEF EarnedWorld
      <3>3. device'.op # NoOp => device'.op \in reached'
        BY <1>5, <2>1, <2>2 DEF EarnedWorld
      <3> QED
        BY <3>1, <3>2, <3>3 DEF EarnedWorld
    <2>7. /\ Failures \in Nat /\ begins[o] <= Failures
          /\ \A p \in Ops : begins[p] \in Nat /\ begins[p] <= Failures + IF Again(p) THEN 0 ELSE 1
      <3>1. Failures \in Nat /\ \A p \in Ops : begins[p] \in Nat
        BY <2>1 DEF DeliveryTypes, Failures
      <3>2. Again(o)
        BY <1>1 DEF Again, At
      <3> QED
        BY <1>1, <2>1, <3>1, <3>2 DEF StartsInv
    <2>8. StartsInv'
      <3>1. CASE Failures' = Failures + 1
        <4>1. \A p \in Ops : begins'[p] <= Failures + 1
          BY <1>1, <2>2, <2>7
        <4> QED
          BY <2>2, <2>7, <3>1, <4>1 DEF StartsInv
      <3>2. CASE Failures' = Failures /\ worker' = [pc |-> answer, op |-> o]
        <4>1. \A p \in Ops : Again(p)' => Again(p)
          BY <1>1, <3>2 DEF Again, Pending, At
        <4>2. answer = "ok" => ~Again(o)'
          BY <3>2 DEF Again
        <4>3. ASSUME NEW p \in Ops PROVE begins'[p] <= Failures + IF Again(p)' THEN 0 ELSE 1
          <5>1. CASE begins'[p] = begins[p]
            BY <2>7, <4>1, <5>1
          <5>2. CASE p = o /\ answer = "ok" /\ begins'[p] = begins[p] + 1
            <6>1. begins'[p] <= Failures + 1 /\ Failures \in Nat
              BY <2>7, <5>2
            <6>2. ~Again(p)'
              BY <3>2, <5>2 DEF Again
            <6> QED
              BY <6>1, <6>2
          <5> QED
            BY <2>2, <5>1, <5>2
        <4> QED
          BY <3>2, <4>3 DEF StartsInv
      <3>3. Failures' = Failures + 1 \/ (Failures' = Failures /\ worker' = [pc |-> answer, op |-> o])
        <4>1. CASE faults' = faults
          BY <1>5, <2>1, <4>1 DEF Failures, DeliveryTypes
        <4>2. CASE faults' = [faults EXCEPT !.answers = @ + 1]
          <5>1. faults.answers \in Nat /\ faults.crashes \in Nat
            BY <2>1 DEF DeliveryTypes
          <5>2. faults'.answers = faults.answers + 1 /\ faults'.crashes = faults.crashes
            BY <2>1, <4>2 DEF DeliveryTypes
          <5> QED
            BY <5>1, <5>2 DEF Failures
        <4> QED
          BY <1>5, <4>1, <4>2
      <3> QED
        BY <3>1, <3>2, <3>3
    <2> QED
      BY <1>3, <2>3, <2>5, <2>6, <2>8 DEF StepInv
  <1>6. \/ WorkerStep("none", o) /\ UnchangedDevice
        \/ \E answer \in {"ok", "refused"} :
             /\ Handle(o, answer) /\ reached' = reached \cup {o}
             /\ \/ worker' = [pc |-> answer, op |-> o] /\ faults' = faults
                \/ /\ faults.answers < MaxLostAnswers
                   /\ faults' = [faults EXCEPT !.answers = @ + 1]
                   /\ worker' \in {[pc |-> "none", op |-> o], NoWorker}
    BY DEF Send, WorkerStep
  <1> QED
    BY <1>4, <1>5, <1>6

LEMMA WorkerStepStep ==
    ASSUME DeliveryInv, StartWorker \/ WorkerProgress
    PROVE  StepInv
  <1> DEFINE o == worker.op
  <1>0. /\ LogInv /\ ActorsInv /\ DeliveryTypes /\ PopsInv /\ EarnedLog /\ EarnedWorld
        /\ queue \in Seq(Ops) /\ IsInjective(queue)
        /\ worker.pc \notin {"off", "peek"} => o \in Ops
        /\ deadline \in [Ops -> {"unset", "running", "passed"}]
    BY DEF DeliveryInv, DeliveryTypes, ActorsInv
  \* Steps that leave the log, the queue and the clients alone.
  <1>1. ASSUME NEW pc \in WorkerPlaces \ {"ok", "refused"}, NEW op \in Ops \cup {NoOp},
               LogUnchanged, UnchangedDevice, queue' = queue, WorkerStep(pc, op),
               deadline' \in [Ops -> {"unset", "running", "passed"}],
               At(worker.pc), worker.pc \notin {"ok", "pop"},
               op \in Ops => op = worker.op \/ op \in Pending,
               pc \in {"off", "peek", "pop"} \/ op \in Pending \/ (op = worker.op /\ Again(op)),
               pc = "pop" => row[op] \notin {"queued", "sending"}
        PROVE  StepInv
    <2>1. /\ UNCHANGED <<queue, clients, faults, device, net, begins, reached>>
          /\ worker' = [pc |-> pc, op |-> op]
      BY <1>1 DEF WorkerStep, UnchangedDevice
    <2>2. EarnedLog' /\ PopsInv' /\ SameRows
      BY <1>1, <2>1, WorkerLog
    <2>3. DeliveryTypes' /\ OwnersInv' /\ StartsInv' /\ EarnedWorld'
      BY <1>1, <2>1, <2>2, WorkerMoves
    <2> QED
      BY <2>2, <2>3 DEF StepInv
  \* Steps that change the queue.
  <1>2. ASSUME LogUnchanged, UnchangedDevice, UNCHANGED faults, At(worker.pc),
               worker' = [pc |-> "peek", op |-> NoOp],
               DOMAIN clients' = DOMAIN clients,
               \A c \in Clients : /\ clients'[c].agenda = clients[c].agenda
                                  /\ clients'[c].pc = clients[c].pc,
               queue' \in Seq(Ops), IsInjective(queue'),
               deadline' \in [Ops -> {"unset", "running", "passed"}],
               \A p \in Ops : p \in Pending' => Seen(p) /\ Again(p)
        PROVE  StepInv
    <2>1. UNCHANGED <<faults, device, net, begins, reached>>
      BY <1>2 DEF UnchangedDevice
    <2>2. EarnedLog' /\ PopsInv' /\ SameRows
      BY <1>2, <2>1, WorkerLog
    <2>3. \A p \in Ops : /\ Seen(p)' => Seen(p)
                         /\ Again(p)' => Again(p)
      BY <1>2, <2>1 DEF Seen, Again
    <2>4. "peek" \in WorkerPlaces \ {"ok", "refused"}
      BY DEF WorkerPlaces
    <2>5. DeliveryTypes' /\ OwnersInv' /\ StartsInv' /\ EarnedWorld'
      BY <1>2, <2>1, <2>2, <2>3, <2>4, WorkerWorld
    <2> QED
      BY <2>2, <2>5 DEF StepInv
  <1>3. {"off", "peek", "pick", "check", "send", "requeue", "move", "pop"}
           \subseteq WorkerPlaces \ {"ok", "refused"}
    BY DEF WorkerPlaces
  <1>4. CASE StartWorker
    <2>1. /\ At(worker.pc) /\ worker.pc = "off" /\ LogUnchanged /\ UnchangedDevice
          /\ UNCHANGED <<queue, deadline>> /\ WorkerStep("peek", NoOp)
      BY <1>4 DEF StartWorker, At
    <2> QED
      BY <1>0, <1>1, <1>3, <2>1
  <1>5. CASE Peek
    <2>1. /\ At(worker.pc) /\ worker.pc = "peek" /\ LogUnchanged /\ UnchangedDevice
          /\ queue' = queue
      BY <1>5 DEF Peek, At
    <2>2. CASE WorkerStep("off", NoOp) /\ UNCHANGED deadline
      BY <1>0, <1>1, <1>3, <2>1, <2>2
    <2>3. ASSUME NEW p \in Ops, First(p),
                 deadline' = [deadline EXCEPT ![p] = IF @ = "unset" THEN "running" ELSE @],
                 WorkerStep(IF deadline[p] = "unset" THEN "pick" ELSE "check", p)
          PROVE  StepInv
      <3>1. p \in Pending
        BY <1>0, <2>3 DEF First, Pending, ToSet
      <3>2. deadline' \in [Ops -> {"unset", "running", "passed"}]
        BY <1>0, <2>3
      <3>3. PICK pc \in {"pick", "check"} : WorkerStep(pc, p)
        BY <2>3
      <3> QED
        BY <1>1, <1>3, <2>1, <3>1, <3>2, <3>3
    <2> QED
      BY <1>5, <2>2, <2>3 DEF Peek
  <1>6. CASE Pick
    <2>1. /\ EventRead(Worker, o, "sending") /\ o \in Ops /\ worker.pc = "pick"
          /\ worker' = [pc |-> "check", op |-> o]
          /\ UNCHANGED <<queue, deadline, clients, faults, device, net, begins, reached>>
      BY <1>0, <1>6 DEF Pick, At, WorkerStep, UnchangedDevice
    <2>2. "sending" \in Statuses /\ "sending" \notin Earned
      BY DEF Statuses, OpenStatuses, Earned
    <2>3. ReadMoves(Worker, o, "sending") /\ SameRows /\ EarnedLog'
      BY <1>0, <2>1, <2>2, ReadEffect, ReadKeepsRows, EarnedRead
    <2>4. PopsInv'
      <3>1. \A v \in Writers \ {Worker} : calls'[v] = calls[v]
        BY <2>3 DEF ReadMoves
      <3>2. \/ calls'[Worker].step = "idle"
            \/ /\ calls'[Worker].ops = {o}
               /\ calls'[Worker].status = "sending" /\ calls'[Worker].step = "commit"
        BY <2>3 DEF ReadMoves, Idle
      <3> QED
        BY <1>0, <2>1, <3>1, <3>2 DEF PopsInv, Idle
    <2>5. DeliveryTypes' /\ OwnersInv' /\ StartsInv' /\ EarnedWorld'
      <3>1. Again(o)
        BY <2>1 DEF Again
      <3>2. deadline' \in [Ops -> {"unset", "running", "passed"}]
        BY <1>0, <2>1
      <3> QED
        BY <1>3, <2>1, <2>3, <3>1, <3>2, WorkerMoves
    <2> QED
      BY <2>3, <2>4, <2>5 DEF StepInv
  <1>7. CASE Check \/ Retry \/ MoveSelect
    <2>1. /\ At(worker.pc) /\ LogUnchanged /\ UnchangedDevice /\ UNCHANGED <<queue, deadline>>
          /\ worker.pc \in {"check", "refused", "none", "requeue"} /\ o \in Ops /\ Again(o)
      BY <1>0, <1>7 DEF Check, Retry, MoveSelect, At, Again
    <2>2. \/ WorkerStep("pop", o) /\ row[o] = "cancelled"
          \/ \E pc \in {"send", "requeue", "move", "peek"} : WorkerStep(pc, o)
      BY <1>7 DEF Check, Retry, MoveSelect, IsCancelled
    <2> QED
      BY <1>0, <1>1, <1>3, <2>1, <2>2
  <1>8. CASE Send
    BY <1>8, SendStep
  <1>9. CASE Accept
    <2>1. /\ EventRead(Worker, o, "accepted") /\ o \in Ops /\ worker.pc = "ok"
          /\ WorkerStep("pop", o) /\ UnchangedDevice /\ UNCHANGED <<queue, deadline>>
      BY <1>0, <1>9 DEF Accept, At
    <2>2. o \in reached
      BY <1>0, <2>1 DEF EarnedWorld
    <2> QED
      BY <2>1, <2>2, WorkerRecords
  <1>10. CASE GiveUp
    <2> DEFINE word == Verdict(o, worker.pc)
    <2>1. /\ EventRead(Worker, o, word) /\ o \in Ops /\ worker.pc \in {"refused", "none"}
          /\ WorkerStep("pop", o) /\ UnchangedDevice /\ UNCHANGED <<queue, deadline>>
          /\ word # "retry"
      BY <1>0, <1>10 DEF GiveUp, At
    <2>2. word \in {"accepted", "success", "error", "timeout"}
      BY <2>1 DEF Verdict
    <2>3. word \in Earned => o \in reached
      <3>1. word \in Earned => worker.pc = "refused"
        BY DEF Verdict, Earned
      <3> QED
        BY <1>0, <3>1 DEF EarnedWorld
    <2> HIDE DEF word
    <2> QED
      BY <2>1, <2>2, <2>3, WorkerRecords
  <1>11. CASE MoveCommit
    <2>1. /\ At(worker.pc) /\ worker.pc = "move" /\ o \in Ops
          /\ LogUnchanged /\ UnchangedDevice /\ UNCHANGED <<deadline, faults>>
          /\ worker' = [pc |-> "peek", op |-> NoOp]
          /\ queue' = Append(Without(queue, {o}), o)
          /\ clients' = [c \in Clients |-> [clients[c] EXCEPT !.ids = @ \ {o}]]
      BY <1>0, <1>11 DEF MoveCommit, At
    <2>2. /\ DOMAIN clients' = DOMAIN clients
          /\ \A c \in Clients : /\ clients'[c].agenda = clients[c].agenda
                                /\ clients'[c].pc = clients[c].pc
      BY <1>0, <2>1 DEF ActorsInv, ClientState
    <2>3. /\ Without(queue, {o}) \in Seq(Ops) /\ IsInjective(Without(queue, {o}))
          /\ ToSet(Without(queue, {o})) = Pending \ {o}
      BY <1>0, WithoutIs DEF Pending
    <2>4. queue' \in Seq(Ops) /\ IsInjective(queue') /\ Pending' = (Pending \ {o}) \cup {o}
      <3> DEFINE rest == Without(queue, {o})
      <3>1. rest \in Seq(Ops) /\ IsInjective(rest) /\ o \notin ToSet(rest)
        BY <2>3
      <3>2. queue' = Append(rest, o) /\ o \in Ops
        BY <2>1
      <3> HIDE DEF rest
      <3>3. /\ queue' \in Seq(Ops) /\ IsInjective(queue')
            /\ ToSet(queue') = ToSet(rest) \cup {o}
        BY <3>1, <3>2, AppendIs
      <3> QED
        BY <2>3, <3>3 DEF Pending, rest
    <2>5. \A p \in Ops : p \in Pending' => Seen(p) /\ Again(p)
      BY <2>1, <2>4 DEF Seen, Again
    <2>6. deadline' \in [Ops -> {"unset", "running", "passed"}]
      BY <1>0, <2>1
    <2> QED
      BY <1>2, <2>1, <2>2, <2>4, <2>5, <2>6
  <1>12. CASE Pop
    <2>1. /\ At(worker.pc) /\ worker.pc = "pop" /\ o \in Ops
          /\ LogUnchanged /\ UnchangedDevice /\ UNCHANGED <<clients, faults>>
          /\ worker' = [pc |-> "peek", op |-> NoOp]
          /\ queue' = Without(queue, {o})
          /\ deadline' = [deadline EXCEPT ![o] = "unset"]
      BY <1>0, <1>12 DEF Pop, At, WorkerStep
    <2>2. queue' \in Seq(Ops) /\ IsInjective(queue') /\ Pending' = Pending \ {o}
      BY <1>0, <2>1, WithoutIs DEF Pending
    <2>3. \A p \in Ops : p \in Pending' => Seen(p) /\ Again(p)
      BY <2>2 DEF Seen, Again
    <2>4. deadline' \in [Ops -> {"unset", "running", "passed"}]
      BY <1>0, <2>1
    <2> QED
      BY <1>2, <2>1, <2>2, <2>3, <2>4
  <1>13. CASE CallStep(Worker)
    BY <1>13, CallStepStep
  <1> QED
    BY <1>4, <1>5, <1>6, <1>7, <1>8, <1>9, <1>10, <1>11, <1>12, <1>13 DEF WorkerProgress

-----------------------------------------------------------------------------
(* The other steps. *)

\* A crash of backend processes.
LEMMA CrashStep ==
    ASSUME DeliveryInv, NEW W \in SUBSET Writers, Crash(W),
           worker' = IF Worker \in W THEN NoWorker ELSE worker,
           OwnersInv'
    PROVE  StepInv
  <1>1. CrashMoves(W) /\ LogInv /\ DeliveryTypes
    BY CrashEffect DEF DeliveryInv
  <1>2. EarnedLog' /\ PopsInv'
    BY EarnedCrash, PopsCrash DEF DeliveryInv
  <1>3. DeliveryTypes'
    <2>1. worker' \in [pc : WorkerPlaces, op : Ops \cup {NoOp}]
      BY <1>1 DEF DeliveryTypes, NoWorker, WorkerPlaces
    <2>2. faults' \in [answers : 0..MaxLostAnswers, crashes : 0..MaxCrashes]
      <3>1. /\ faults \in [answers : 0..MaxLostAnswers, crashes : 0..MaxCrashes]
            /\ faults.crashes < MaxCrashes /\ faults' = [faults EXCEPT !.crashes = @ + 1]
        BY <1>1 DEF CrashMoves, DeliveryTypes
      <3>2. faults.crashes + 1 \in 0..MaxCrashes
        BY <3>1
      <3> QED
        BY <3>1, <3>2
    <2> QED
      BY <1>1, <2>1, <2>2 DEF CrashMoves, DeliveryTypes, WorkerPlaces
  <1>4. StartsInv'
    <2>1. Failures' = Failures + 1
      <3>1. faults'.answers = faults.answers /\ faults'.crashes = faults.crashes + 1
        BY <1>1 DEF CrashMoves, DeliveryTypes
      <3>2. faults.answers \in Nat /\ faults.crashes \in Nat
        BY <1>1 DEF DeliveryTypes
      <3> QED
        BY <3>1, <3>2 DEF Failures
    <2> QED
      BY <1>1, <1>3, <2>1, StartsQuiet DEF CrashMoves, DeliveryInv
  <1>5. EarnedWorld'
    BY <1>1 DEF CrashMoves, DeliveryInv, EarnedWorld, NoWorker
  <1> QED
    BY <1>2, <1>3, <1>4, <1>5 DEF StepInv

LEMMA ClientCrashStep ==
    ASSUME DeliveryInv, NEW c \in Clients, ClientCrash(c)
    PROVE  StepInv
  <1>1. /\ {c} \in SUBSET Writers /\ Worker \notin {c} /\ Crash({c})
        /\ clients' = [clients EXCEPT ![c] = IdleClient] /\ worker' = worker
    BY DEF ClientCrash
  <1>2. CrashMoves({c})
    BY <1>1, CrashEffect DEF DeliveryInv
  <1>3. SameRows /\ \A o \in Ops : Seen(o)' => Seen(o)
    BY <1>1, <1>2 DEF CrashMoves, SameRows, Seen, Pending
  <1>4. NewTasks(<<>>)
    BY DEF NewTasks
  <1>5. IdleClient = [IdleClient EXCEPT !.agenda = <<>>]
    BY DEF IdleClient
  <1>6. OwnersInv'
    BY <1>1, <1>3, <1>4, <1>5, OwnersNew DEF DeliveryInv
  <1> QED
    BY <1>1, <1>6, CrashStep

LEMMA BackendCrashStep ==
    ASSUME DeliveryInv, WorkerCrash \/ CallbackCrash
    PROVE  StepInv
  <1>1. PICK W \in SUBSET {Worker, Supervisor, Callback} :
          /\ Crash(W) /\ UNCHANGED clients
          /\ worker' = IF Worker \in W THEN NoWorker ELSE worker
    BY DEF WorkerCrash, CallbackCrash
  <1>2. W \in SUBSET Writers
    OBVIOUS
  <1>3. CrashMoves(W)
    BY <1>1, <1>2, CrashEffect DEF DeliveryInv
  <1>4. SameRows /\ \A o \in Ops : Seen(o)' => Seen(o)
    BY <1>1, <1>3 DEF CrashMoves, SameRows, Seen, Pending, NoWorker
  <1>5. OwnersInv'
    BY <1>1, <1>4, OwnersQuiet DEF DeliveryInv
  <1> QED
    BY <1>1, <1>2, <1>5, CrashStep

\* Steps that leave the worker, the clients and the queue alone, and begin at
\* most the call of another writer.
LEMMA WorldStep ==
    ASSUME DeliveryInv,
           UNCHANGED <<queue, worker, clients, begins, reached, faults>>,
           deadline' \in [Ops -> {"unset", "running", "passed"}],
           device' \in [op : Ops \cup {NoOp}, pumping : BOOLEAN, stop : BOOLEAN],
           device'.op \in {device.op, NoOp},
           \A m \in net' : m \in net \/
             (device.op # NoOp /\ \E word \in CallbackWords : m = <<device.op, word>>),
           \/ LogUnchanged
           \/ \E w \in Writers \ {Worker}, o \in Ops,
                 word \in Statuses \ {"queued", "sending"} :
                EventRead(w, o, word) /\ (word \in Earned => o \in reached)
    PROVE  StepInv
  <1>0. LogInv /\ DeliveryTypes /\ EarnedWorld /\ EarnedLog /\ PopsInv /\ OwnersInv /\ ActorsInv
    BY DEF DeliveryInv
  <1>1. EarnedLog' /\ PopsInv' /\ SameRows
    <2>1. CASE LogUnchanged
      BY <1>0, <2>1, QuietLog, EarnedQuiet, PopsQuiet
    <2>2. ASSUME NEW w \in Writers \ {Worker}, NEW o \in Ops,
                 NEW word \in Statuses \ {"queued", "sending"},
                 EventRead(w, o, word), word \in Earned => o \in reached
          PROVE  EarnedLog' /\ PopsInv' /\ SameRows
      BY <1>0, <2>2, EarnedRead, PopsRead, ReadKeepsRows
    <2> QED
      BY <2>1, <2>2
  <1>2. DeliveryTypes'
    <2>1. net' \subseteq Ops \X CallbackWords
      <3>1. device.op \in Ops \cup {NoOp} /\ net \subseteq Ops \X CallbackWords
        BY <1>0 DEF DeliveryTypes
      <3> QED
        BY <3>1
    <2> QED
      BY <1>0, <2>1 DEF DeliveryTypes
  <1>3. Pending' = Pending /\ Failures' = Failures
    BY DEF Pending, Failures
  <1>4. OwnersInv'
    <2>1. \A o \in Ops : Seen(o)' => Seen(o)
      BY <1>3 DEF Seen
    <2> QED
      BY <1>0, <1>1, <2>1, OwnersQuiet
  <1>5. StartsInv'
    BY <1>0, <1>2, <1>3, StartsQuiet DEF Again, DeliveryInv
  <1>6. EarnedWorld'
    <2>1. ASSUME NEW p \in Ops, NEW word \in CallbackWords, <<p, word>> \in net'
          PROVE  p \in reached
      BY <1>0, <2>1 DEF EarnedWorld
    <2>2. device'.op # NoOp => device'.op \in reached
      BY <1>0 DEF EarnedWorld
    <2>3. worker.pc \in {"ok", "refused"} => worker.op \in reached
      BY <1>0 DEF EarnedWorld
    <2> QED
      BY <2>1, <2>2, <2>3 DEF EarnedWorld
  <1> QED
    BY <1>1, <1>2, <1>4, <1>5, <1>6 DEF StepInv

LEMMA DeviceSteps ==
    ASSUME DeliveryInv, PumpOn \/ FinishWatering
    PROVE  StepInv
  <1>1. DeliveryTypes /\ {"started", "success", "error"} \subseteq CallbackWords
    BY DEF DeliveryInv, CallbackWords
  <1>2. /\ UNCHANGED <<queue, deadline, worker, clients, begins, reached, faults>>
        /\ LogUnchanged /\ device.op # NoOp
    BY DEF PumpOn, FinishWatering
  <1>3. deadline' \in [Ops -> {"unset", "running", "passed"}]
    BY <1>1, <1>2 DEF DeliveryTypes
  <1>4. CASE PumpOn
    <2>1. /\ device' \in [op : Ops \cup {NoOp}, pumping : BOOLEAN, stop : BOOLEAN]
          /\ device'.op = device.op
      BY <1>1, <1>4 DEF PumpOn, DeliveryTypes
    <2>2. \A m \in net' : m \in net \/ m = <<device.op, "started">>
      BY <1>4 DEF PumpOn
    <2> QED
      BY <1>1, <1>2, <1>3, <2>1, <2>2, WorldStep
  <1>5. CASE FinishWatering
    <2>1. /\ device' \in [op : Ops \cup {NoOp}, pumping : BOOLEAN, stop : BOOLEAN]
          /\ device'.op = NoOp
      BY <1>5 DEF FinishWatering, IdleDevice
    <2>2. \A m \in net' : m \in net \/ \E word \in {"success", "error"} : m = <<device.op, word>>
      BY <1>5 DEF FinishWatering
    <2> QED
      BY <1>1, <1>2, <1>3, <2>1, <2>2, WorldStep
  <1> QED
    BY <1>4, <1>5

LEMMA DeliverStep ==
    ASSUME DeliveryInv, NEW o \in Ops, NEW word \in CallbackWords, Deliver(o, word)
    PROVE  StepInv
  <1>1. /\ EventRead(Callback, o, NormalizeStatus(word))
        /\ UNCHANGED <<queue, deadline, worker, clients, device, begins, reached, faults>>
        /\ net' \subseteq net /\ o \in reached
    BY DEF Deliver, DeliveryInv, EarnedWorld
  <1>2. NormalizeStatus(word) \in Statuses \ {"queued", "sending"}
    BY DEF NormalizeStatus, Statuses, OpenStatuses, TerminalStatuses
  <1>3. /\ deadline' \in [Ops -> {"unset", "running", "passed"}]
        /\ device' \in [op : Ops \cup {NoOp}, pumping : BOOLEAN, stop : BOOLEAN]
        /\ device'.op = device.op
    BY <1>1 DEF DeliveryInv, DeliveryTypes
  <1>4. Callback \in Writers \ {Worker}
    OBVIOUS
  <1> QED
    BY <1>1, <1>2, <1>3, <1>4, WorldStep

LEMMA StaleCheckStep ==
    ASSUME DeliveryInv, StaleCheck
    PROVE  StepInv
  <1>1. CASE CallStep(Supervisor)
    BY <1>1, CallStepStep
  <1>2. CASE StaleSelect /\ UNCHANGED deliveryVars
    <2>1. /\ UNCHANGED <<row, outcome, calls, confirmed>>
          /\ UNCHANGED <<queue, deadline, worker, clients, device, net, begins, reached, faults>>
      BY <1>2 DEF StaleSelect, deliveryVars
    <2>2. EarnedLog' /\ PopsInv' /\ SameRows
      BY <2>1, EarnedQuiet, PopsQuiet DEF DeliveryInv, SameRows
    <2>3. /\ DeliveryTypes' /\ StartsInv' /\ EarnedWorld'
          /\ \A o \in Ops : Seen(o)' => Seen(o)
      BY <2>1, ShorterWorld
    <2>4. OwnersInv'
      BY <2>1, <2>2, <2>3, OwnersQuiet DEF DeliveryInv
    <2> QED
      BY <2>2, <2>3, <2>4 DEF StepInv
  <1>3. ASSUME NEW o \in Ops, StaleTimeout(o), UNCHANGED deliveryVars PROVE StepInv
    <2>1. /\ EventRead(Supervisor, o, "timeout")
          /\ UNCHANGED <<queue, deadline, worker, clients, device, net, begins, reached, faults>>
      BY <1>3 DEF StaleTimeout, deliveryVars
    <2>2. "timeout" \in Statuses \ {"queued", "sending"} /\ "timeout" \notin Earned
      BY DEF Statuses, TerminalStatuses, Earned
    <2>3. /\ deadline' \in [Ops -> {"unset", "running", "passed"}]
          /\ device' \in [op : Ops \cup {NoOp}, pumping : BOOLEAN, stop : BOOLEAN]
          /\ device'.op = device.op
      BY <2>1 DEF DeliveryInv, DeliveryTypes
    <2>4. Supervisor \in Writers \ {Worker}
      OBVIOUS
    <2> QED
      BY <2>1, <2>2, <2>3, <2>4, WorldStep
  <1> QED
    BY <1>1, <1>2, <1>3 DEF StaleCheck

LEMMA TickStep ==
    ASSUME DeliveryInv, NEW o \in Ops, Tick(o)
    PROVE  StepInv
  <1>1. /\ LogUnchanged
        /\ UNCHANGED <<queue, worker, clients, device, net, begins, reached, faults>>
        /\ deadline' = [deadline EXCEPT ![o] = "passed"]
    BY DEF Tick, UnchangedDevice
  <1>2. /\ deadline' \in [Ops -> {"unset", "running", "passed"}]
        /\ device' \in [op : Ops \cup {NoOp}, pumping : BOOLEAN, stop : BOOLEAN]
    BY <1>1 DEF DeliveryInv, DeliveryTypes
  <1> QED
    BY <1>1, <1>2, WorldStep

LEMMA DeliveryStep == DeliveryInv /\ [Next]_vars => DeliveryInv'
  <1> SUFFICES ASSUME DeliveryInv, [Next]_vars PROVE DeliveryInv'
    OBVIOUS
  <1>1. LogInv' /\ ActorsInv'
    BY ActorsNext, StepIsLogStep, NextInv DEF DeliveryInv
  <1>2. StepInv
    <2>1. ASSUME NEW c \in Clients, NEW o \in Ops, NEW r \in MayRequest[c], Request(c, r, o)
          PROVE  StepInv
      BY <2>1, ClientRequest
    <2>2. ASSUME NEW c \in Clients, NEW o \in Ops, CancelOperation(c, o) PROVE StepInv
      BY <2>2, CancelOperationStep
    <2>3. ASSUME NEW c \in Clients, RequestClear(c) PROVE StepInv
      <3>1. PICK o \in Ops : row[o] \in OpenStatuses
        BY <2>3 DEF RequestClear, NonTerminal
      <3> QED
        BY <2>3, <3>1, ClientRequest
    <2>4. ASSUME NEW c \in Clients, ClientProgress(c) PROVE StepInv
      BY <2>4, ClientStepStep
    <2>5. ASSUME NEW c \in Clients, ClientCrash(c) PROVE StepInv
      BY <2>5, ClientCrashStep
    <2>6. CASE StartWorker \/ WorkerProgress
      BY <2>6, WorkerStepStep
    <2>7. CASE WorkerCrash \/ CallbackCrash
      BY <2>7, BackendCrashStep
    <2>8. CASE StaleCheck
      BY <2>8, StaleCheckStep
    <2>9. CASE PumpOn \/ FinishWatering
      BY <2>9, DeviceSteps
    <2>10. CASE CallStep(Callback)
      BY <2>10, CallStepStep
    <2>11. ASSUME NEW o \in Ops, Tick(o) PROVE StepInv
      BY <2>11, TickStep
    <2>12. ASSUME NEW o \in Ops, NEW word \in CallbackWords, Deliver(o, word) PROVE StepInv
      BY <2>12, DeliverStep
    <2>13. CASE UNCHANGED vars
      <3>1. /\ LogUnchanged
            /\ UNCHANGED <<queue, deadline, worker, clients, device, net, begins, reached, faults>>
        BY <2>13 DEF vars, deliveryVars, LogUnchanged
      <3>2. /\ deadline' \in [Ops -> {"unset", "running", "passed"}]
            /\ device' \in [op : Ops \cup {NoOp}, pumping : BOOLEAN, stop : BOOLEAN]
        BY <3>1 DEF DeliveryInv, DeliveryTypes
      <3> QED
        BY <3>1, <3>2, WorldStep
    <2> QED
      BY <2>1, <2>2, <2>3, <2>4, <2>5, <2>6, <2>7, <2>8, <2>9, <2>10, <2>11, <2>12, <2>13
      DEF Next
  <1> QED
    BY <1>1, <1>2 DEF DeliveryInv, StepInv

LEMMA DeliveryInvariant == Spec => []DeliveryInv
  BY DeliveryInit, DeliveryStep, PTL DEF Spec

-----------------------------------------------------------------------------
(* A queued operation is not forgotten. *)

\* Starts are requested by nobody but the client that stops them.
OneStops == \A c, d \in Clients :
              "stop" \in MayRequest[c] /\ "fill" \in MayRequest[d] => c = d

\* What keeps a queued operation: its row, a call about to close it, the client
\* that is enqueueing it, or a request that will cancel it.
Committing(w, o) == calls[w].step = "commit" /\ o \in calls[w].ops
Creating(c, o) == Holds(c, 1, o) /\ clients[c].pc \in {"select", "insert"}
Cancels(c, o) == \E i \in DOMAIN clients[c].agenda :
                    clients[c].agenda[i].do = "cancel" /\ o \in clients[c].agenda[i].ops
Kept(o) == \/ o \in Pending
           \/ \E w \in Writers : Committing(w, o)
           \/ \E c \in Clients : Creating(c, o) \/ Cancels(c, o)

\* A request drops rows and cancels all operations afterwards, or it is a stop,
\* which cancels the starts and then drops theirs.
DropsFit(agenda, requests) ==
    /\ \A i \in DOMAIN agenda : agenda[i].do = "drop" =>
         i = Len(agenda) \/ (i = 1 /\ Len(agenda) = 2 /\ agenda[2] = CancelTask(Ops))
    /\ Len(agenda) > 0 /\ agenda[Len(agenda)].do = "drop" =>
         /\ agenda[Len(agenda)] = DropTask(WateringStarts) /\ "stop" \in requests
         /\ Len(agenda) > 1 => agenda[Len(agenda) - 1] = CancelTask(WateringStarts)
    /\ \A i \in DOMAIN agenda, o \in WateringStarts : agenda[i] = Enqueue(o) => "fill" \in requests

\* The last task of a stop.
OnlyDrop(agenda) == Len(agenda) = 1 /\ agenda[1].do = "drop"

AgendasInv ==
    \A c \in Clients :
      /\ DropsFit(clients[c].agenda, MayRequest[c])
      /\ clients[c].pc = "delete" =>
           /\ clients[c].agenda # <<>> /\ Head(clients[c].agenda).do = "drop"
           /\ clients[c].ids \subseteq Head(clients[c].agenda).ops

\* When a stop comes to its drop, no start is queued that it has not cancelled.
DropsInv ==
    \A c \in Clients, o \in WateringStarts :
      OnlyDrop(clients[c].agenda) /\ row[o] = "queued" => Committing(c, o)

KeptInv == \A o \in Ops : row[o] = "queued" => Kept(o)

StoredInv == AgendasInv /\ DropsInv /\ KeptInv

LEMMA TailIs ==
    ASSUME NEW S, NEW a \in Seq(S), a # <<>>
    PROVE  /\ Len(a) \in Nat \ {0} /\ DOMAIN a = 1..Len(a) /\ Head(a) = a[1]
           /\ Tail(a) \in Seq(S) /\ Len(Tail(a)) = Len(a) - 1 /\ DOMAIN Tail(a) = 1..(Len(a) - 1)
           /\ \A i \in 1..(Len(a) - 1) : Tail(a)[i] = a[i + 1]
  OBVIOUS

LEMMA TailFits ==
    ASSUME NEW a \in Seq(RequestTasks), a # <<>>, NEW R, DropsFit(a, R)
    PROVE  DropsFit(Tail(a), R)
  <1> DEFINE t == Tail(a)
  <1>1. /\ Len(a) \in Nat \ {0} /\ DOMAIN a = 1..Len(a)
        /\ Len(t) = Len(a) - 1 /\ DOMAIN t = 1..(Len(a) - 1)
        /\ \A i \in 1..(Len(a) - 1) : t[i] = a[i + 1]
    BY TailIs
  <1> HIDE DEF t
  <1>2. ASSUME NEW i \in DOMAIN t, t[i].do = "drop" PROVE i = Len(t)
    <2>1. i + 1 \in DOMAIN a /\ a[i + 1].do = "drop" /\ i + 1 # 1
      BY <1>1, <1>2
    <2> QED
      BY <1>1, <2>1 DEF DropsFit
  <1>3. ASSUME Len(t) > 0, t[Len(t)].do = "drop"
        PROVE  /\ t[Len(t)] = DropTask(WateringStarts) /\ "stop" \in R
               /\ Len(t) > 1 => t[Len(t) - 1] = CancelTask(WateringStarts)
    <2>1. t[Len(t)] = a[Len(a)] /\ Len(a) > 1
      BY <1>1, <1>3
    <2>2. Len(t) > 1 => t[Len(t) - 1] = a[Len(a) - 1]
      BY <1>1
    <2> QED
      BY <1>1, <1>3, <2>1, <2>2 DEF DropsFit
  <1>4. ASSUME NEW i \in DOMAIN t, NEW o \in WateringStarts, t[i] = Enqueue(o) PROVE "fill" \in R
    <2>1. i + 1 \in DOMAIN a /\ a[i + 1] = Enqueue(o)
      BY <1>1, <1>4
    <2> QED
      BY <2>1 DEF DropsFit
  <1>5. DropsFit(t, R)
    BY <1>2, <1>3, <1>4 DEF DropsFit
  <1> QED
    BY <1>5 DEF t

LEMMA RequestFits ==
    ASSUME NEW c \in Clients, NEW r \in MayRequest[c], NEW o \in Ops, NEW agenda \in Agendas(r, o)
    PROVE  DropsFit(agenda, MayRequest[c]) /\ ~OnlyDrop(agenda)
  <1>1. \A p \in Ops : Enqueue(p).do = "enqueue" /\ \A q \in Ops : Enqueue(p) = Enqueue(q) => p = q
    BY DEF Enqueue
  <1>2. \A first \in ConfirmConfig :
          first = <<>> \/ \E f \in Ops : first = <<Enqueue(f)>>
    BY DEF ConfirmConfig, Configs
  <1>3. CASE r = "fill" /\ agenda \in {Append(first, Enqueue(o)) : first \in ConfirmConfig}
    <2>1. agenda = <<Enqueue(o)>> \/ \E f \in Ops : agenda = <<Enqueue(f), Enqueue(o)>>
      <3>1. PICK first \in ConfirmConfig : agenda = Append(first, Enqueue(o))
        BY <1>3
      <3>2. CASE first = <<>>
        BY <3>1, <3>2
      <3>3. ASSUME NEW f \in Ops, first = <<Enqueue(f)>>
            PROVE  agenda = <<Enqueue(f), Enqueue(o)>>
        BY <3>1, <3>3, AppendToOne
      <3> QED
        BY <1>2, <3>2, <3>3
    <2>2. CASE agenda = <<Enqueue(o)>>
      BY <1>1, <1>3, <2>2 DEF DropsFit, OnlyDrop
    <2>3. ASSUME NEW f \in Ops, agenda = <<Enqueue(f), Enqueue(o)>>
          PROVE  DropsFit(agenda, MayRequest[c]) /\ ~OnlyDrop(agenda)
      BY <1>1, <1>3, <2>3 DEF DropsFit, OnlyDrop
    <2> QED
      BY <2>1, <2>2, <2>3
  <1>4. CASE /\ r = "stop" /\ Type[o] = "watering_stop"
             /\ agenda = <<Enqueue(o), CancelTask(WateringStarts), DropTask(WateringStarts)>>
    <2> DEFINE a1 == Enqueue(o)
               a2 == CancelTask(WateringStarts)
               a3 == DropTask(WateringStarts)
    <2>1. /\ a1.do = "enqueue" /\ a2.do = "cancel" /\ a3.do = "drop"
          /\ \A p \in WateringStarts : a1 # Enqueue(p) /\ a2 # Enqueue(p) /\ a3 # Enqueue(p)
      <3>1. \A p \in WateringStarts : p \in Ops /\ p # o
        BY <1>4 DEF WateringStarts
      <3> QED
        BY <1>1, <3>1 DEF CancelTask, DropTask, Enqueue
    <2>2. agenda = <<a1, a2, a3>>
      BY <1>4
    <2>3. /\ Len(agenda) = 3 /\ DOMAIN agenda = 1..3
          /\ agenda[1] = a1 /\ agenda[2] = a2 /\ agenda[3] = a3
      BY <2>2
    <2>4. a2 = CancelTask(WateringStarts) /\ a3 = DropTask(WateringStarts)
      OBVIOUS
    <2> HIDE DEF a1, a2, a3
    <2> QED
      BY <1>4, <2>1, <2>3, <2>4 DEF DropsFit, OnlyDrop
  <1>5. CASE r = "ask" /\ Type[o] \in {"config", "other"} /\ agenda = <<Enqueue(o)>>
    <2>1. \A p \in WateringStarts : p \in Ops /\ p # o
      BY <1>5 DEF WateringStarts
    <2> QED
      BY <1>1, <1>5, <2>1 DEF DropsFit, OnlyDrop
  <1> QED
    BY <1>3, <1>4, <1>5 DEF Agendas

LEMMA ClearFits ==
    ASSUME NEW R
    PROVE  /\ DropsFit(<<DropTask(Ops), CancelTask(Ops)>>, R)
           /\ ~OnlyDrop(<<DropTask(Ops), CancelTask(Ops)>>)
           /\ DropsFit(<<>>, R)
  <1> DEFINE a1 == DropTask(Ops)
             a2 == CancelTask(Ops)
             agenda == <<a1, a2>>
  <1>1. a2.do = "cancel" /\ a2 = CancelTask(Ops) /\ \A p : a1 # Enqueue(p) /\ a2 # Enqueue(p)
    BY DEF CancelTask, DropTask, Enqueue
  <1>2. Len(agenda) = 2 /\ DOMAIN agenda = 1..2 /\ agenda[1] = a1 /\ agenda[2] = a2
    OBVIOUS
  <1> HIDE DEF a1, a2, agenda
  <1>3. DropsFit(agenda, R) /\ ~OnlyDrop(agenda)
    BY <1>1, <1>2 DEF DropsFit, OnlyDrop
  <1>4. DropsFit(<<>>, R)
    BY DEF DropsFit
  <1> QED
    BY <1>3, <1>4 DEF agenda, a1, a2

\* Steps that leave the agendas alone and lose nothing that is still queued.
LEMMA KeptQuiet ==
    ASSUME DeliveryInv, StoredInv,
           \A c \in Clients : /\ clients'[c].agenda = clients[c].agenda
                              /\ clients'[c].pc = clients[c].pc
                              /\ clients'[c].ids \subseteq clients[c].ids,
           \A o \in Ops : row'[o] = "queued" =>
              /\ row[o] = "queued"
              /\ o \in Pending => o \in Pending'
              /\ \A w \in Writers : Committing(w, o) => Committing(w, o)'
    PROVE  StoredInv'
  <1>1. AgendasInv'
    BY DEF StoredInv, AgendasInv
  <1>2. DropsInv'
    BY DEF StoredInv, DropsInv, WateringStarts
  <1>3. ASSUME NEW o \in Ops, row'[o] = "queued" PROVE Kept(o)'
    <2>1. Kept(o)
      BY <1>3 DEF StoredInv, KeptInv
    <2>2. \A c \in Clients : /\ Creating(c, o) => Creating(c, o)'
                             /\ Cancels(c, o) => Cancels(c, o)'
      BY DEF Creating, Cancels, Holds
    <2> QED
      BY <1>3, <2>1, <2>2 DEF Kept
  <1> QED
    BY <1>1, <1>2, <1>3 DEF StoredInv, KeptInv

\* A client is done with a task: what it was enqueueing is queued or about to
\* be cancelled, and so is what it was to cancel.
LEMMA KeptDone ==
    ASSUME DeliveryInv, StoredInv, NEW c \in Clients, clients[c].agenda # <<>>,
           clients' = [clients EXCEPT ![c] = TaskDone(c)],
           \A o \in Ops : row'[o] = "queued" =>
              /\ row[o] = "queued"
              /\ \A w \in Writers : Committing(w, o) => Committing(w, o)'
              /\ o \in Pending => o \in Pending' \/ Cancels(c, o)'
              /\ Creating(c, o) => o \in Pending' \/ Committing(c, o)'
              /\ LET task == Head(clients[c].agenda)
                 IN task.do = "cancel" /\ o \in task.ops => Committing(c, o)'
    PROVE  StoredInv'
  <1> DEFINE a == clients[c].agenda
             t == Tail(a)
  <1>0. /\ a \in Seq(RequestTasks) /\ ActorsInv /\ c \in Writers
        /\ AgendasInv /\ DropsInv /\ KeptInv
    BY DEF DeliveryInv, ActorsInv, ClientState, StoredInv
  <1>1. /\ Len(a) \in Nat \ {0} /\ DOMAIN a = 1..Len(a) /\ Head(a) = a[1]
        /\ Len(t) = Len(a) - 1 /\ DOMAIN t = 1..(Len(a) - 1)
        /\ \A i \in 1..(Len(a) - 1) : t[i] = a[i + 1]
    BY <1>0, TailIs
  <1>2. /\ clients'[c].agenda = t /\ clients'[c].pc = "next"
        /\ \A d \in Clients \ {c} : clients'[d] = clients[d]
    BY <1>0 DEF TaskDone, ActorsInv
  <1> HIDE DEF t
  <1>3. DropsFit(t, MayRequest[c])
    BY <1>0, TailFits DEF AgendasInv, t
  <1>4. AgendasInv'
    <2>1. ASSUME NEW d \in Clients \ {c}
          PROVE  /\ DropsFit(clients'[d].agenda, MayRequest[d])
                 /\ clients'[d].pc = "delete" =>
                      /\ clients'[d].agenda # <<>> /\ Head(clients'[d].agenda).do = "drop"
                      /\ clients'[d].ids \subseteq Head(clients'[d].agenda).ops
      BY <1>0, <1>2 DEF AgendasInv
    <2> QED
      BY <1>2, <1>3, <2>1 DEF AgendasInv
  <1>5. ASSUME NEW d \in Clients, NEW o \in WateringStarts,
               OnlyDrop(clients'[d].agenda), row'[o] = "queued"
        PROVE  Committing(d, o)'
    <2>0. o \in Ops /\ row[o] = "queued" /\ d \in Writers
      BY <1>5 DEF WateringStarts
    <2>1. CASE d = c
      <3>1. Len(a) = 2 /\ a[2].do = "drop"
        <4>1. Len(t) = 1 /\ t[1].do = "drop"
          BY <1>2, <1>5, <2>1 DEF OnlyDrop
        <4> DEFINE n == Len(a)
        <4>2. n \in Nat /\ Len(t) = n - 1
          BY <1>1
        <4> HIDE DEF n
        <4>3. n = 2
          <5>1. n - 1 = 1
            BY <4>1, <4>2
          <5> QED
            BY <4>2, <5>1
        <4>4. t[1] = a[1 + 1]
          BY <1>1, <4>3 DEF n
        <4> QED
          BY <4>1, <4>3, <4>4 DEF n
      <3>2. a[1] = CancelTask(WateringStarts)
        BY <1>0, <3>1 DEF AgendasInv, DropsFit
      <3>3. Head(a).do = "cancel" /\ o \in Head(a).ops
        BY <1>1, <3>2 DEF CancelTask
      <3> QED
        BY <1>5, <2>0, <2>1, <3>3
    <2>2. CASE d # c
      <3>1. Committing(d, o)
        BY <1>0, <1>2, <1>5, <2>0, <2>2 DEF DropsInv
      <3> QED
        BY <1>5, <2>0, <3>1
    <2> QED
      BY <2>1, <2>2
  <1>6. ASSUME NEW o \in Ops, row'[o] = "queued" PROVE Kept(o)'
    <2>1. Kept(o)
      BY <1>0, <1>6 DEF KeptInv
    <2>2. ASSUME NEW d \in Clients \ {c}
          PROVE  /\ Creating(d, o) => Creating(d, o)'
                 /\ Cancels(d, o) => Cancels(d, o)'
      BY <1>2 DEF Creating, Cancels, Holds
    <2>3. ASSUME Cancels(c, o)
          PROVE  Cancels(c, o)' \/ Committing(c, o)'
      <3>1. PICK i \in DOMAIN a : a[i].do = "cancel" /\ o \in a[i].ops
        BY <2>3 DEF Cancels
      <3>2. CASE i = 1
        BY <1>1, <1>6, <3>1, <3>2
      <3>3. CASE i # 1
        <4>1. i - 1 \in DOMAIN t /\ t[i - 1] = a[i]
          BY <1>1, <3>3
        <4> QED
          BY <1>2, <3>1, <4>1 DEF Cancels
      <3> QED
        BY <3>2, <3>3
    <2>4. o \in Pending => Kept(o)'
      BY <1>6 DEF Kept
    <2>5. (\E w \in Writers : Committing(w, o)) => Kept(o)'
      BY <1>6 DEF Kept
    <2>6. Creating(c, o) => Kept(o)'
      BY <1>0, <1>6 DEF Kept
    <2>7. Cancels(c, o) => Kept(o)'
      BY <1>0, <2>3 DEF Kept
    <2>8. (\E d \in Clients \ {c} : Creating(d, o) \/ Cancels(d, o)) => Kept(o)'
      BY <2>2 DEF Kept
    <2> QED
      BY <2>1, <2>4, <2>5, <2>6, <2>7, <2>8 DEF Kept
  <1> QED
    BY <1>4, <1>5, <1>6 DEF StoredInv, DropsInv, KeptInv

\* A client goes on with its task.
LEMMA KeptGoto ==
    ASSUME DeliveryInv, StoredInv, NEW c \in Clients, NEW new,
           clients' = [clients EXCEPT ![c] = new], new.agenda = clients[c].agenda,
           clients[c].pc \in {"select", "insert"} => new.pc \in {"select", "insert"},
           new.pc = "delete" => /\ clients[c].agenda # <<>> /\ Head(clients[c].agenda).do = "drop"
                                /\ new.ids \subseteq Head(clients[c].agenda).ops,
           UNCHANGED <<row, calls, queue>>
    PROVE  StoredInv'
  <1>1. /\ clients'[c] = new /\ \A d \in Clients \ {c} : clients'[d] = clients[d]
        /\ \A d \in Clients : clients'[d].agenda = clients[d].agenda
    BY DEF DeliveryInv, ActorsInv
  <1>2. AgendasInv'
    BY <1>1 DEF StoredInv, AgendasInv
  <1>3. DropsInv'
    BY <1>1 DEF StoredInv, DropsInv, Committing
  <1>4. ASSUME NEW o \in Ops, row'[o] = "queued" PROVE Kept(o)'
    <2>1. Kept(o)
      BY <1>4 DEF StoredInv, KeptInv
    <2>2. \A d \in Clients : /\ Creating(d, o) => Creating(d, o)'
                             /\ Cancels(d, o) => Cancels(d, o)'
      BY <1>1 DEF Creating, Cancels, Holds
    <2>3. \A w \in Writers : Committing(w, o) => Committing(w, o)'
      BY DEF Committing
    <2> QED
      BY <2>1, <2>2, <2>3 DEF Kept, Pending
  <1> QED
    BY <1>2, <1>3, <1>4 DEF StoredInv, KeptInv

\* The client's operation is created; it is not a start if another client is
\* about to drop starts.
LEMMA KeptCreate ==
    ASSUME OneStops, DeliveryInv, StoredInv, NEW c \in Clients, CreateOperation(c)
    PROVE  StoredInv'
  <1> DEFINE o == Head(clients[c].agenda).op
             new == Goto(c, "select")
  <1>1. /\ clients[c].agenda # <<>> /\ Head(clients[c].agenda).do = "enqueue"
        /\ clients[c] \in ClientState /\ clients[c].pc = "create" /\ ActorsInv /\ LogInv
    BY DEF CreateOperation, Ready, ActorsInv, WellFormed, DeliveryInv
  <1>2. o \in Ops /\ Holds(c, 1, o) /\ Head(clients[c].agenda) = clients[c].agenda[1]
    BY <1>1, HeadTask, HeadHolds, TailIs DEF ClientState
  <1>3. /\ \A p \in Ops : row'[p] = IF p = o THEN "queued" ELSE row[p]
        /\ calls' = calls /\ queue' = queue /\ clients' = [clients EXCEPT ![c] = new]
    BY <1>1, <1>2 DEF CreateOperation, Create, ClientStep, LogInv, LogTypeOK
  <1>4. new.agenda = clients[c].agenda /\ new.pc = "select"
    BY <1>1 DEF Goto, ClientState
  <1> HIDE DEF new
  <1>5. /\ clients'[c] = new /\ \A d \in Clients \ {c} : clients'[d] = clients[d]
        /\ \A d \in Clients : clients'[d].agenda = clients[d].agenda
    BY <1>1, <1>3, <1>4 DEF ActorsInv
  <1>6. AgendasInv'
    BY <1>4, <1>5 DEF StoredInv, AgendasInv
  <1>7. ASSUME NEW d \in Clients, NEW p \in WateringStarts,
               OnlyDrop(clients'[d].agenda), row'[p] = "queued"
        PROVE  Committing(d, p)'
    <2>0. p \in Ops
      BY DEF WateringStarts
    <2>1. CASE p = o
      <3>1. "fill" \in MayRequest[c]
        BY <1>2, <1>7, <2>1 DEF StoredInv, AgendasInv, DropsFit, Holds
      <3>2. "stop" \in MayRequest[d] /\ clients[d].agenda[1].do = "drop"
        BY <1>5, <1>7 DEF OnlyDrop, StoredInv, AgendasInv, DropsFit
      <3>3. d = c
        BY <3>1, <3>2 DEF OneStops
      <3> QED
        BY <1>1, <1>2, <3>2, <3>3
    <2>2. CASE p # o
      BY <1>3, <1>5, <1>7, <2>0, <2>2 DEF StoredInv, DropsInv, Committing
    <2> QED
      BY <2>1, <2>2
  <1>8. ASSUME NEW p \in Ops, row'[p] = "queued" PROVE Kept(p)'
    <2>1. CASE p = o
      <3>1. Creating(c, p)'
        BY <1>2, <1>4, <1>5, <2>1 DEF Creating, Holds
      <3> QED
        BY <3>1 DEF Kept
    <2>2. CASE p # o
      <3>1. Kept(p)
        BY <1>3, <1>8, <2>2 DEF StoredInv, KeptInv
      <3>2. \A d \in Clients : /\ Creating(d, p) => Creating(d, p)'
                               /\ Cancels(d, p) => Cancels(d, p)'
        BY <1>4, <1>5 DEF Creating, Cancels, Holds
      <3>3. \A w \in Writers : Committing(w, p) => Committing(w, p)'
        BY <1>3 DEF Committing
      <3> QED
        BY <1>3, <3>1, <3>2, <3>3 DEF Kept, Pending
    <2> QED
      BY <2>1, <2>2
  <1> QED
    BY <1>6, <1>7, <1>8 DEF StoredInv, DropsInv, KeptInv

\* A request begins.
LEMMA KeptRequest ==
    ASSUME DeliveryInv, StoredInv, NEW c \in Clients, NEW agenda,
           clients[c] = IdleClient,
           clients' = [clients EXCEPT ![c] = [IdleClient EXCEPT !.agenda = agenda]],
           DropsFit(agenda, MayRequest[c]), ~OnlyDrop(agenda),
           UNCHANGED <<row, calls, queue>>
    PROVE  StoredInv'
  <1>1. /\ clients'[c].agenda = agenda /\ clients'[c].pc = "next"
        /\ \A d \in Clients \ {c} : clients'[d] = clients[d]
        /\ clients[c].agenda = <<>> /\ clients[c].pc = "next"
    BY DEF DeliveryInv, ActorsInv, IdleClient
  <1>2. AgendasInv'
    <2>1. ASSUME NEW d \in Clients \ {c}
          PROVE  /\ DropsFit(clients'[d].agenda, MayRequest[d])
                 /\ clients'[d].pc = "delete" =>
                      /\ clients'[d].agenda # <<>> /\ Head(clients'[d].agenda).do = "drop"
                      /\ clients'[d].ids \subseteq Head(clients'[d].agenda).ops
      BY <1>1 DEF StoredInv, AgendasInv
    <2> QED
      BY <1>1, <2>1 DEF AgendasInv
  <1>3. DropsInv'
    BY <1>1 DEF StoredInv, DropsInv, Committing
  <1>4. ASSUME NEW o \in Ops, row'[o] = "queued" PROVE Kept(o)'
    <2>1. Kept(o)
      BY <1>4 DEF StoredInv, KeptInv
    <2>2. ~Creating(c, o) /\ ~Cancels(c, o)
      BY <1>1 DEF Creating, Cancels
    <2>3. \A d \in Clients \ {c} : /\ Creating(d, o) => Creating(d, o)'
                                   /\ Cancels(d, o) => Cancels(d, o)'
      BY <1>1 DEF Creating, Cancels, Holds
    <2>4. \A w \in Writers : Committing(w, o) => Committing(w, o)'
      BY DEF Committing
    <2> QED
      BY <2>1, <2>2, <2>3, <2>4 DEF Kept, Pending
  <1> QED
    BY <1>2, <1>3, <1>4 DEF StoredInv, KeptInv

\* A call begins, and no agenda changes: nothing that was kept is lost.
LEMMA KeptRead ==
    ASSUME DeliveryInv, StoredInv, NEW w \in Writers, NEW o \in Ops, NEW word \in Statuses,
           EventRead(w, o, word), UNCHANGED <<clients, queue>>
    PROVE  StoredInv'
  <1>1. ReadMoves(w, o, word)
    BY ReadEffect DEF DeliveryInv
  <1>2. \A v \in Writers, p \in Ops : Committing(v, p) => Committing(v, p)'
    BY <1>1 DEF ReadMoves, Committing, Idle
  <1> QED
    BY <1>1, <1>2, KeptQuiet DEF ReadMoves, Pending

\* A call is written: its rows are no longer queued.
LEMMA KeptCall ==
    ASSUME DeliveryInv, StoredInv, NEW w \in Writers, CallStep(w)
    PROVE  StoredInv'
  <1>1. CallMoves(w) /\ UNCHANGED <<clients, queue>>
    BY CallEffect DEF CallStep, deliveryVars, DeliveryInv
  <1>2. calls[w].status # "queued"
    BY <1>1 DEF CallMoves, Call, DeliveryInv, PopsInv, Idle
  <1>3. ASSUME NEW o \in Ops, row'[o] = "queued"
        PROVE  /\ row[o] = "queued"
               /\ \A v \in Writers : Committing(v, o) => Committing(v, o)'
    <2>1. row[o] = "queued" /\ ~Committing(w, o)
      BY <1>1, <1>2, <1>3 DEF CallMoves, Committing
    <2> QED
      BY <1>1, <2>1 DEF CallMoves, Committing
  <1> QED
    BY <1>1, <1>3, KeptQuiet DEF Pending

LEMMA KeptClient ==
    ASSUME OneStops, DeliveryInv, StoredInv, NEW c \in Clients, ClientProgress(c)
    PROVE  StoredInv'
  <1> DEFINE task == Head(clients[c].agenda)
  <1>0. /\ LogInv /\ ActorsInv /\ OwnersInv /\ c \in Writers
        /\ clients[c] \in ClientState /\ WellFormed(clients[c])
        /\ AgendasInv /\ DropsInv
    BY DEF DeliveryInv, ActorsInv, StoredInv
  <1>1. clients[c].agenda # <<>> => clients[c].agenda[1] = task
    BY <1>0, TailIs DEF ClientState
  <1>2. ASSUME NEW o \in Ops, Creating(c, o), clients[c].agenda # <<>>
        PROVE  /\ clients[c].pc \in {"select", "insert"} /\ task.do = "enqueue" /\ task.op = o
    BY <1>1, <1>2 DEF Creating, Holds, Enqueue
  <1>3. \A pc : /\ Goto(c, pc).agenda = clients[c].agenda /\ Goto(c, pc).pc = pc
                /\ \A S : /\ [Goto(c, pc) EXCEPT !.ids = S].agenda = clients[c].agenda
                          /\ [Goto(c, pc) EXCEPT !.ids = S].pc = pc
                          /\ [Goto(c, pc) EXCEPT !.ids = S].ids = S
    BY <1>0 DEF Goto, ClientState
  <1>4. LogUnchanged =>
          /\ UNCHANGED <<row, calls>>
          /\ \A o \in Ops, w \in Writers : Committing(w, o) => Committing(w, o)'
    BY DEF LogUnchanged, logVars, Committing
  <1>5. CASE FindDuplicate(c)
    <2>1. /\ clients[c].agenda # <<>> /\ clients[c].pc = "next" /\ task.do = "enqueue"
          /\ UNCHANGED <<row, calls, queue>> /\ LogUnchanged
      BY <1>4, <1>5 DEF FindDuplicate, Ready
    <2>2. CASE clients' = [clients EXCEPT ![c] = TaskDone(c)]
      BY <1>2, <1>4, <2>1, <2>2, KeptDone DEF Pending
    <2>3. CASE clients' = [clients EXCEPT ![c] = Goto(c, "create")]
      <3> DEFINE new == Goto(c, "create")
      <3>1. new.agenda = clients[c].agenda /\ new.pc = "create"
        BY <1>3
      <3>2. clients' = [clients EXCEPT ![c] = new]
        BY <2>3
      <3> HIDE DEF new
      <3> QED
        BY <2>1, <3>1, <3>2, KeptGoto
    <2> QED
      BY <1>5, <2>2, <2>3 DEF FindDuplicate, ClientStep
  <1>6. CASE CreateOperation(c)
    BY <1>6, KeptCreate
  <1>7. CASE SelectDuplicates(c)
    <2>1. /\ clients[c].agenda # <<>> /\ clients[c].pc = "select" /\ queue' = queue
          /\ task.do = "enqueue" /\ task.op \in Ops
      BY <1>0, <1>7, HeadTask DEF SelectDuplicates, Ready, WellFormed
    <2>2. CASE LogUnchanged /\ clients' = [clients EXCEPT ![c] = Goto(c, "insert")]
      <3> DEFINE new == Goto(c, "insert")
      <3>1. new.agenda = clients[c].agenda /\ new.pc = "insert"
        BY <1>3
      <3>2. clients' = [clients EXCEPT ![c] = new]
        BY <2>2
      <3> HIDE DEF new
      <3> QED
        BY <1>4, <2>1, <2>2, <3>1, <3>2, KeptGoto
    <2>3. CASE EventRead(c, task.op, "cancelled") /\ clients' = [clients EXCEPT ![c] = TaskDone(c)]
      <3>1. "cancelled" \in Statuses
        BY DEF Statuses, TerminalStatuses
      <3>2. ReadMoves(c, task.op, "cancelled")
        BY <1>0, <2>1, <2>3, <3>1, ReadEffect
      <3>3. ASSUME NEW o \in Ops, row'[o] = "queued"
            PROVE  /\ row[o] = "queued"
                   /\ \A w \in Writers : Committing(w, o) => Committing(w, o)'
                   /\ Creating(c, o) => Committing(c, o)'
        <4>1. row[o] = "queued" /\ \A w \in Writers : Committing(w, o) => Committing(w, o)'
          BY <3>2, <3>3 DEF ReadMoves, Committing, Idle
        <4>2. ASSUME Creating(c, o) PROVE Committing(c, o)'
          <5>1. task.op = o
            BY <1>2, <2>1, <4>2
          <5>2. ~Refused(o, "cancelled")
            BY <4>1 DEF Refused, Rank, Statuses, OpenStatuses, TerminalStatuses
          <5> QED
            BY <3>2, <5>1, <5>2 DEF ReadMoves, Committing
        <4> QED
          BY <4>1, <4>2
      <3> QED
        BY <2>1, <2>3, <3>3, KeptDone DEF Pending
    <2> QED
      BY <1>7, <2>2, <2>3 DEF SelectDuplicates, ClientStep
  <1>8. CASE Insert(c)
    <2>1. /\ clients[c].agenda # <<>> /\ clients[c].pc = "insert" /\ LogUnchanged
          /\ clients' = [clients EXCEPT ![c] = TaskDone(c)]
          /\ queue' = Append(queue, task.op)
      BY <1>8 DEF Insert, Ready, ClientStep
    <2>2. task.do = "enqueue" /\ task.op \in Ops
      BY <1>0, <2>1, HeadTask DEF WellFormed
    <2>3. Pending' = Pending \cup {task.op}
      BY <2>1, <2>2, AppendIs DEF Pending, DeliveryInv, DeliveryTypes
    <2> QED
      BY <1>2, <1>4, <2>1, <2>2, <2>3, KeptDone
  <1>9. CASE CancelRows(c)
    <2>1. /\ clients[c].agenda # <<>> /\ task.do = "cancel" /\ queue' = queue
          /\ clients' = [clients EXCEPT ![c] = TaskDone(c)]
          /\ \A o \in Ops : ~Creating(c, o)
      BY <1>2, <1>9 DEF CancelRows, Ready, ClientStep
    <2>2. \A o \in Ops : row[o] = "queued" /\ o \in task.ops => o \in task.ops \cap NonTerminal
      BY DEF NonTerminal, OpenStatuses
    <2>3. CASE task.ops \cap NonTerminal = {} /\ LogUnchanged
      BY <1>4, <2>1, <2>2, <2>3, KeptDone DEF Pending
    <2>4. CASE CancelRead(c, task.ops)
      <3>1. /\ row' = row /\ Idle(c)
            /\ \A v \in Writers \ {c} : calls'[v] = calls[v]
            /\ calls'[c].ops = task.ops \cap NonTerminal /\ calls'[c].step = "commit"
        BY <1>0, <2>4 DEF CancelRead, LogInv, LogTypeOK
      <3>2. \A o \in Ops : row'[o] = "queued" =>
              /\ row[o] = "queued"
              /\ \A w \in Writers : Committing(w, o) => Committing(w, o)'
              /\ o \in task.ops => Committing(c, o)'
        BY <2>2, <3>1 DEF Committing, Idle
      <3> QED
        BY <2>1, <3>2, KeptDone DEF Pending
    <2> QED
      BY <1>9, <2>3, <2>4 DEF CancelRows
  <1>10. CASE SelectDrop(c)
    <2>1. /\ clients[c].agenda # <<>> /\ clients[c].pc = "next" /\ task.do = "drop"
          /\ UNCHANGED <<row, calls, queue>> /\ LogUnchanged
      BY <1>4, <1>10 DEF SelectDrop, Ready
    <2>2. CASE clients' = [clients EXCEPT ![c] = TaskDone(c)]
      BY <1>2, <1>4, <2>1, <2>2, KeptDone DEF Pending
    <2>3. CASE clients' = [clients EXCEPT ![c] =
                  [Goto(c, "delete") EXCEPT !.ids = task.ops \cap Pending]]
      <3> DEFINE new == [Goto(c, "delete") EXCEPT !.ids = task.ops \cap Pending]
      <3>1. new.agenda = clients[c].agenda /\ new.pc = "delete" /\ new.ids \subseteq task.ops
        BY <1>3
      <3>2. clients' = [clients EXCEPT ![c] = new]
        BY <2>3
      <3> HIDE DEF new
      <3> QED
        BY <2>1, <3>1, <3>2, KeptGoto
    <2> QED
      BY <1>10, <2>2, <2>3 DEF SelectDrop, ClientStep
  <1>11. CASE DeleteDrop(c)
    <2>1. /\ clients[c].agenda # <<>> /\ clients[c].pc = "delete" /\ LogUnchanged /\ Idle(c)
          /\ clients' = [clients EXCEPT ![c] = TaskDone(c)]
          /\ queue' = Without(queue, clients[c].ids)
      BY <1>11 DEF DeleteDrop, Ready, ClientStep
    <2>2. Pending' = Pending \ clients[c].ids
      BY <2>1, WithoutIs DEF Pending, DeliveryInv, DeliveryTypes
    <2>3. task.do = "drop" /\ clients[c].ids \subseteq task.ops
      BY <1>0, <2>1 DEF AgendasInv
    <2>4. ASSUME NEW o \in Ops, row[o] = "queued", o \in clients[c].ids
          PROVE  Cancels(c, o)'
      <3> DEFINE a == clients[c].agenda
      <3>1. /\ a \in Seq(RequestTasks) /\ Len(a) \in Nat \ {0} /\ DOMAIN a = 1..Len(a)
            /\ a[1].do = "drop" /\ DropsFit(a, MayRequest[c])
            /\ clients'[c].agenda = Tail(a)
        BY <1>0, <1>1, <2>1, <2>3, TailIs DEF ClientState, AgendasInv, TaskDone, ActorsInv
      <3>2. CASE Len(a) = 1
        <4>1. a[1] = DropTask(WateringStarts) /\ OnlyDrop(a)
          BY <3>1, <3>2 DEF DropsFit, OnlyDrop
        <4>2. o \in WateringStarts
          BY <1>1, <2>1, <2>3, <2>4, <4>1 DEF DropTask
        <4>3. Committing(c, o)
          BY <1>0, <2>4, <4>1, <4>2 DEF DropsInv
        <4> QED
          BY <2>1, <4>3 DEF Committing, Idle
      <3>3. CASE Len(a) = 2 /\ a[2] = CancelTask(Ops)
        <4>1. 1 \in DOMAIN Tail(a) /\ Tail(a)[1] = a[2]
          BY <3>1, <3>3, TailIs
        <4>2. Tail(a)[1].do = "cancel" /\ o \in Tail(a)[1].ops
          BY <3>3, <4>1 DEF CancelTask
        <4> HIDE DEF a
        <4> QED
          BY <3>1, <4>1, <4>2 DEF Cancels
      <3>4. Len(a) = 1 \/ (Len(a) = 2 /\ a[2] = CancelTask(Ops))
        <4> HIDE DEF a
        <4> QED
          BY <3>1 DEF DropsFit
      <3> QED
        BY <3>2, <3>3, <3>4
    <2> QED
      BY <1>2, <1>4, <2>1, <2>2, <2>3, <2>4, KeptDone
  <1>12. CASE CallStep(c)
    BY <1>0, <1>12, KeptCall
  <1> QED
    BY <1>5, <1>6, <1>7, <1>8, <1>9, <1>10, <1>11, <1>12 DEF ClientProgress

LEMMA KeptWorker ==
    ASSUME DeliveryInv, StoredInv, StartWorker \/ WorkerProgress
    PROVE  StoredInv'
  <1>0. /\ queue \in Seq(Ops) /\ IsInjective(queue) /\ ActorsInv /\ PopsInv
        /\ worker.pc \notin {"off", "peek"} => worker.op \in Ops
    BY DEF DeliveryInv, DeliveryTypes, ActorsInv
  <1>1. ASSUME LogUnchanged,
               \A c \in Clients : /\ clients'[c].agenda = clients[c].agenda
                                  /\ clients'[c].pc = clients[c].pc
                                  /\ clients'[c].ids \subseteq clients[c].ids,
               \A o \in Ops : row[o] = "queued" /\ o \in Pending => o \in Pending'
        PROVE  StoredInv'
    <2>1. /\ UNCHANGED <<row, calls>>
          /\ \A w \in Writers, o \in Ops : Committing(w, o) => Committing(w, o)'
      BY <1>1 DEF LogUnchanged, logVars, Committing
    <2> QED
      BY <1>1, <2>1, KeptQuiet
  <1>2. CASE LogUnchanged /\ UNCHANGED <<queue, clients>>
    BY <1>1, <1>2 DEF Pending
  <1>3. ASSUME NEW word \in Statuses, worker.op \in Ops,
               EventRead(Worker, worker.op, word), UNCHANGED <<queue, clients>>
        PROVE  StoredInv'
    BY <1>3, KeptRead
  <1>4. CASE StartWorker \/ Peek \/ Check \/ Send \/ Retry \/ MoveSelect
    BY <1>2, <1>4 DEF StartWorker, Peek, Check, Send, Retry, MoveSelect, WorkerStep
  <1>5. CASE Pick
    <2>1. "sending" \in Statuses
      BY DEF Statuses, OpenStatuses
    <2> QED
      BY <1>0, <1>3, <1>5, <2>1 DEF Pick, WorkerStep, At
  <1>6. CASE Accept
    <2>1. "accepted" \in Statuses
      BY DEF Statuses, OpenStatuses
    <2> QED
      BY <1>0, <1>3, <1>6, <2>1 DEF Accept, WorkerStep, At
  <1>7. CASE GiveUp
    <2> DEFINE word == Verdict(worker.op, worker.pc)
    <2>1. /\ EventRead(Worker, worker.op, word) /\ worker.op \in Ops /\ word # "retry"
          /\ UNCHANGED <<queue, clients>>
      BY <1>0, <1>7 DEF GiveUp, At, WorkerStep
    <2>2. word \in Statuses
      BY <2>1 DEF Verdict, Statuses, TerminalStatuses
    <2> HIDE DEF word
    <2> QED
      BY <1>3, <2>1, <2>2
  <1>8. CASE MoveCommit
    <2>1. /\ worker.op \in Ops /\ LogUnchanged
          /\ queue' = Append(Without(queue, {worker.op}), worker.op)
          /\ clients' = [c \in Clients |-> [clients[c] EXCEPT !.ids = @ \ {worker.op}]]
      BY <1>0, <1>8 DEF MoveCommit, At
    <2> DEFINE rest == Without(queue, {worker.op})
    <2>2. rest \in Seq(Ops) /\ ToSet(rest) = Pending \ {worker.op}
      BY <1>0, WithoutIs DEF Pending
    <2> HIDE DEF rest
    <2>3. Pending' = (Pending \ {worker.op}) \cup {worker.op}
      <3>1. queue' = Append(rest, worker.op)
        BY <2>1 DEF rest
      <3> QED
        <4>1. ToSet(Append(rest, worker.op)) = ToSet(rest) \cup {worker.op}
          BY <2>1, <2>2, AppendIs
        <4> QED
          BY <2>2, <3>1, <4>1 DEF Pending
    <2>4. \A c \in Clients : /\ clients'[c].agenda = clients[c].agenda
                             /\ clients'[c].pc = clients[c].pc
                             /\ clients'[c].ids \subseteq clients[c].ids
      BY <1>0, <2>1 DEF ActorsInv, ClientState
    <2> QED
      BY <1>1, <2>1, <2>3, <2>4
  <1>9. CASE Pop
    <2>1. /\ worker.op \in Ops /\ LogUnchanged /\ Idle(Worker) /\ worker.pc = "pop"
          /\ queue' = Without(queue, {worker.op}) /\ clients' = clients
      BY <1>0, <1>9 DEF Pop, At, WorkerStep
    <2>2. Pending' = Pending \ {worker.op}
      BY <1>0, <2>1, WithoutIs DEF Pending
    <2>3. row[worker.op] # "queued"
      BY <1>0, <2>1 DEF PopsInv, Idle
    <2> QED
      BY <1>1, <2>1, <2>2, <2>3
  <1>10. CASE CallStep(Worker)
    BY <1>10, KeptCall
  <1> QED
    BY <1>4, <1>5, <1>6, <1>7, <1>8, <1>9, <1>10 DEF WorkerProgress

\* Until a process dies.
LEMMA KeptStep ==
    ASSUME OneStops, DeliveryInv, StoredInv, [Next]_vars, faults'.crashes = 0
    PROVE  StoredInv'
  <1>1. CASE LogUnchanged /\ UNCHANGED <<queue, clients>>
    <2>1. /\ UNCHANGED <<row, calls>>
          /\ \A w \in Writers, o \in Ops : Committing(w, o) => Committing(w, o)'
      BY <1>1 DEF LogUnchanged, logVars, Committing
    <2> QED
      BY <1>1, <2>1, KeptQuiet DEF Pending
  <1>2. ASSUME NEW c \in Clients, NEW o \in Ops, NEW r \in MayRequest[c], Request(c, r, o)
        PROVE  StoredInv'
    <2>1. PICK agenda \in Agendas(r, o) : ClientStep(c, [IdleClient EXCEPT !.agenda = agenda])
      BY <1>2 DEF Request
    <2>2. DropsFit(agenda, MayRequest[c]) /\ ~OnlyDrop(agenda)
      BY RequestFits
    <2>3. clients[c] = IdleClient /\ UNCHANGED <<row, calls, queue>>
      BY <1>2 DEF Request, LogUnchanged, logVars
    <2> QED
      BY <2>1, <2>2, <2>3, KeptRequest DEF ClientStep
  <1>3. ASSUME NEW c \in Clients, RequestClear(c) PROVE StoredInv'
    <2> DEFINE agenda == <<DropTask(Ops), CancelTask(Ops)>>
    <2>1. DropsFit(agenda, MayRequest[c]) /\ ~OnlyDrop(agenda)
      BY ClearFits
    <2>2. /\ clients' = [clients EXCEPT ![c] = [IdleClient EXCEPT !.agenda = agenda]]
          /\ clients[c] = IdleClient /\ UNCHANGED <<row, calls, queue>>
      BY <1>3 DEF RequestClear, LogUnchanged, logVars, ClientStep
    <2> HIDE DEF agenda
    <2> QED
      BY <2>1, <2>2, KeptRequest
  <1>4. ASSUME NEW w \in Writers, NEW o \in Ops, NEW word \in Statuses,
               EventRead(w, o, word), UNCHANGED <<clients, queue>>
        PROVE  StoredInv'
    BY <1>4, KeptRead
  <1>5. ASSUME NEW c \in Clients, NEW o \in Ops, CancelOperation(c, o) PROVE StoredInv'
    <2>1. c \in Writers /\ "cancelled" \in Statuses
      BY DEF Statuses, TerminalStatuses
    <2> QED
      BY <1>4, <1>5, <2>1 DEF CancelOperation, deliveryVars
  <1>6. ASSUME NEW c \in Clients, ClientProgress(c) PROVE StoredInv'
    BY <1>6, KeptClient
  <1>7. CASE StartWorker \/ WorkerProgress
    BY <1>7, KeptWorker
  <1>8. ASSUME NEW W, Crash(W) PROVE FALSE
    <2>1. faults.crashes \in Nat /\ faults'.crashes = faults.crashes + 1
      BY <1>8 DEF Crash, DeliveryInv, DeliveryTypes
    <2> QED
      BY <2>1
  <1>9. CASE StaleCheck
    <2>1. CASE CallStep(Supervisor)
      BY <2>1, KeptCall
    <2>2. CASE StaleSelect /\ UNCHANGED deliveryVars
      <3>1. UNCHANGED <<row, calls, clients, queue>>
        BY <2>2 DEF StaleSelect, deliveryVars
      <3>2. \A w \in Writers, o \in Ops : Committing(w, o) => Committing(w, o)'
        BY <3>1 DEF Committing
      <3> QED
        BY <3>1, <3>2, KeptQuiet DEF Pending
    <2>3. ASSUME NEW o \in Ops, StaleTimeout(o), UNCHANGED deliveryVars PROVE StoredInv'
      <3>1. "timeout" \in Statuses
        BY DEF Statuses, TerminalStatuses
      <3> QED
        BY <1>4, <2>3, <3>1 DEF StaleTimeout, deliveryVars
    <2> QED
      BY <1>9, <2>1, <2>2, <2>3 DEF StaleCheck
  <1>10. CASE PumpOn \/ FinishWatering
    BY <1>1, <1>10 DEF PumpOn, FinishWatering
  <1>11. CASE CallStep(Callback)
    BY <1>11, KeptCall
  <1>12. ASSUME NEW o \in Ops, Tick(o) PROVE StoredInv'
    BY <1>1, <1>12 DEF Tick
  <1>13. ASSUME NEW o \in Ops, NEW word \in CallbackWords, Deliver(o, word) PROVE StoredInv'
    <2>1. NormalizeStatus(word) \in Statuses
      BY DEF NormalizeStatus, Statuses, OpenStatuses, TerminalStatuses
    <2> QED
      BY <1>4, <1>13, <2>1 DEF Deliver
  <1>14. CASE UNCHANGED vars
    BY <1>1, <1>14 DEF vars, deliveryVars, LogUnchanged
  <1> QED
    BY <1>2, <1>3, <1>5, <1>6, <1>7, <1>8, <1>9, <1>10, <1>11, <1>12, <1>13, <1>14
    DEF Next, ClientCrash, WorkerCrash, CallbackCrash

LEMMA CrashesGrow ==
    ASSUME DeliveryInv, [Next]_vars, faults'.crashes = 0
    PROVE  faults.crashes = 0
  <1>1. faults.crashes \in Nat
    BY DEF DeliveryInv, DeliveryTypes
  <1>2. \/ faults' = faults
        \/ faults' = [faults EXCEPT !.answers = @ + 1]
        \/ faults' = [faults EXCEPT !.crashes = @ + 1]
    <2>1. \A c \in Clients : ClientProgress(c) => faults' = faults
      BY DEF ClientProgress, FindDuplicate, CreateOperation, SelectDuplicates, Insert,
             CancelRows, SelectDrop, DeleteDrop, CallStep, ClientStep, deliveryVars
    <2>2. StartWorker \/ WorkerProgress =>
            \/ faults' = faults
            \/ faults' = [faults EXCEPT !.answers = @ + 1]
      BY DEF StartWorker, WorkerProgress, Peek, Pick, Check, Send, Accept, GiveUp, Retry,
             MoveSelect, MoveCommit, Pop, WorkerStep, CallStep, deliveryVars
    <2> QED
      BY <2>1, <2>2
      DEF Next, vars, deliveryVars, Request, CancelOperation, RequestClear, ClientStep, Crash,
          ClientCrash, WorkerCrash, CallbackCrash, StaleCheck, CallStep, PumpOn,
          FinishWatering, Tick, Deliver
  <1> QED
    BY <1>1, <1>2 DEF DeliveryInv, DeliveryTypes

LEMMA StoredInit == Init => StoredInv
  <1> SUFFICES ASSUME Init PROVE StoredInv
    OBVIOUS
  <1>1. \A c \in Clients : clients[c].agenda = <<>> /\ clients[c].pc = "next"
    BY DEF Init, IdleClient
  <1>2. \A o \in Ops : row[o] = "absent"
    BY DEF Init, LogInit
  <1>3. ~OnlyDrop(<<>>)
    BY DEF OnlyDrop
  <1> QED
    BY <1>1, <1>2, <1>3, ClearFits DEF StoredInv, AgendasInv, DropsInv, KeptInv, WateringStarts

-----------------------------------------------------------------------------
(* Equal commands are queued once. *)

Asks(c) == MayRequest[c] \cap {"fill", "stop", "ask"} # {}
Drops(c, o) == "clear" \in MayRequest[c] \/ ("stop" \in MayRequest[c] /\ o \in WateringStarts)

\* No other operation is the same command.
Alone(o) == \A p \in Ops : Key[p] = Key[o] => p = o

\* One client makes the requests that enqueue, and what is moved to the tail
\* again has no equal that could come in while its row is dropped.
OneAsks == \A c, d \in Clients : Asks(c) /\ Asks(d) => c = d
DropsSpareRetries == \A c \in Clients, o \in Ops : Drops(c, o) /\ Retryable(o) => Alone(o)

KindsFit(agenda, c) ==
    \A i \in DOMAIN agenda : /\ agenda[i].do = "enqueue" => Asks(c)
                             /\ agenda[i].do = "drop" => \A o \in agenda[i].ops : Drops(c, o)

\* Between the second look for duplicates and the insertion none comes in; a
\* row that is about to be moved is in the queue, or has no equal.
OnceInv ==
    /\ NoDuplicateQueued
    /\ \A c \in Clients : KindsFit(clients[c].agenda, c)
    /\ \A c \in Clients : clients[c].pc = "delete" => \A o \in clients[c].ids : Drops(c, o)
    /\ \A c \in Clients : clients[c].pc = "insert" =>
         \A p \in Pending : Key[p] # Key[Head(clients[c].agenda).op]
    /\ worker.pc \in {"requeue", "move"} => Retryable(worker.op)
    /\ worker.pc = "move" => worker.op \in Pending \/ Alone(worker.op)

\* A client that is about to insert was so before; the rest fits.
SameInsert(c) ==
    /\ KindsFit(clients'[c].agenda, c)
    /\ clients'[c].pc = "insert" =>
         clients[c].pc = "insert" /\ clients'[c].agenda = clients[c].agenda
    /\ clients'[c].pc = "delete" => \A o \in clients'[c].ids : Drops(c, o)

\* Nothing is enqueued.
LEMMA OnceQuiet ==
    ASSUME OnceInv, \A p \in Pending' : p \in Pending,
           \A c \in Clients : SameInsert(c),
           worker'.pc \in {"requeue", "move"} => Retryable(worker'.op),
           worker'.pc = "move" => worker'.op \in Pending' \/ Alone(worker'.op)
    PROVE  OnceInv'
  BY DEF OnceInv, NoDuplicateQueued, SameInsert

LEMMA TailKinds ==
    ASSUME NEW a \in Seq(RequestTasks), a # <<>>, NEW c, KindsFit(a, c)
    PROVE  KindsFit(Tail(a), c)
  <1>1. \A i \in DOMAIN Tail(a) : i + 1 \in DOMAIN a /\ Tail(a)[i] = a[i + 1]
    BY TailIs
  <1> QED
    BY <1>1 DEF KindsFit

LEMMA RequestKinds ==
    ASSUME NEW c \in Clients, NEW r \in MayRequest[c], NEW o \in Ops, NEW agenda \in Agendas(r, o)
    PROVE  KindsFit(agenda, c)
  <1>1. \A p \in Ops : Enqueue(p).do = "enqueue"
    BY DEF Enqueue
  <1>2. CASE r \in {"fill", "ask"}
    <2>1. Asks(c)
      BY <1>2 DEF Asks
    <2>2. agenda = <<Enqueue(o)>> \/ \E f \in Ops : agenda = <<Enqueue(f), Enqueue(o)>>
      <3>1. CASE agenda = <<Enqueue(o)>>
        BY <3>1
      <3>2. ASSUME NEW first \in ConfirmConfig, agenda = Append(first, Enqueue(o))
            PROVE  agenda = <<Enqueue(o)>> \/ \E f \in Ops : agenda = <<Enqueue(f), Enqueue(o)>>
        <4>1. first = <<>> \/ \E f \in Ops : first = <<Enqueue(f)>>
          BY DEF ConfirmConfig, Configs
        <4>2. CASE first = <<>>
          <5>1. agenda = <<Enqueue(o)>>
            BY <3>2, <4>2
          <5> QED
            BY <5>1
        <4>3. ASSUME NEW f \in Ops, first = <<Enqueue(f)>>
              PROVE  agenda = <<Enqueue(f), Enqueue(o)>>
          BY <3>2, <4>3, AppendToOne
        <4> QED
          BY <4>1, <4>2, <4>3
      <3> QED
        BY <1>2, <3>1, <3>2 DEF Agendas
    <2>3. CASE agenda = <<Enqueue(o)>>
      BY <1>1, <2>1, <2>3 DEF KindsFit
    <2>4. ASSUME NEW f \in Ops, agenda = <<Enqueue(f), Enqueue(o)>>
          PROVE  KindsFit(agenda, c)
      BY <1>1, <2>1, <2>4 DEF KindsFit
    <2> QED
      BY <2>2, <2>3, <2>4
  <1>3. CASE r = "stop"
    <2>1. agenda = <<Enqueue(o), CancelTask(WateringStarts), DropTask(WateringStarts)>>
      BY <1>3 DEF Agendas
    <2>2. /\ Enqueue(o).do = "enqueue" /\ CancelTask(WateringStarts).do = "cancel"
          /\ DropTask(WateringStarts).do = "drop" /\ DropTask(WateringStarts).ops = WateringStarts
      BY DEF Enqueue, CancelTask, DropTask
    <2>3. Asks(c) /\ \A p \in WateringStarts : Drops(c, p)
      BY <1>3 DEF Asks, Drops
    <2> QED
      BY <2>1, <2>2, <2>3 DEF KindsFit
  <1>4. CASE r \notin {"fill", "ask", "stop"}
    BY <1>4 DEF Agendas
  <1> QED
    BY <1>2, <1>3, <1>4

LEMMA OnceClient ==
    ASSUME OneAsks, DropsSpareRetries, DeliveryInv, OnceInv, NEW c \in Clients, ClientProgress(c)
    PROVE  OnceInv'
  <1> DEFINE task == Head(clients[c].agenda)
  <1>0. /\ ActorsInv /\ OwnersInv /\ clients[c] \in ClientState /\ WellFormed(clients[c])
        /\ queue \in Seq(Ops) /\ IsInjective(queue)
    BY DEF DeliveryInv, ActorsInv, DeliveryTypes
  <1>1. clients[c].agenda # <<>> =>
          /\ task = clients[c].agenda[1] /\ 1 \in DOMAIN clients[c].agenda
          /\ task.do = "enqueue" => Asks(c)
          /\ task.do = "drop" => \A o \in task.ops : Drops(c, o)
    BY <1>0, TailIs DEF ClientState, OnceInv, KindsFit
  <1>2. ASSUME NEW new, clients' = [clients EXCEPT ![c] = new]
        PROVE  clients'[c] = new /\ \A d \in Clients \ {c} : clients'[d] = clients[d]
    BY <1>0, <1>2 DEF ActorsInv
  <1>3. /\ TaskDone(c).agenda = Tail(clients[c].agenda) /\ TaskDone(c).pc = "next"
        /\ clients[c].agenda # <<>> => KindsFit(Tail(clients[c].agenda), c)
    BY <1>0, TailKinds DEF TaskDone, ClientState, OnceInv
  \* The row of what is about to be moved is not dropped if it has an equal.
  <1>4. ASSUME clients[c].agenda # <<>>, clients' = [clients EXCEPT ![c] = TaskDone(c)],
               worker' = worker,
               \/ queue' = queue
               \/ clients[c].pc = "delete" /\ queue' = Without(queue, clients[c].ids)
        PROVE  OnceInv'
    <2>1. \A p \in Pending' : p \in Pending
      BY <1>0, <1>4, WithoutIs DEF Pending
    <2>2. worker.pc = "move" => worker.op \in Pending' \/ Alone(worker.op)
      <3>1. CASE queue' = queue
        BY <3>1 DEF OnceInv, Pending
      <3>2. CASE clients[c].pc = "delete" /\ queue' = Without(queue, clients[c].ids)
        <4>1. Pending' = Pending \ clients[c].ids
          BY <1>0, <3>2, WithoutIs DEF Pending
        <4>2. CASE worker.op \in clients[c].ids
          BY <1>0, <3>2, <4>2 DEF DropsSpareRetries, OnceInv, ActorsInv
        <4>3. CASE worker.op \notin clients[c].ids
          BY <4>1, <4>3 DEF OnceInv
        <4> QED
          BY <4>2, <4>3
      <3> QED
        BY <1>4, <3>1, <3>2
    <2>3. \A d \in Clients : SameInsert(d)
      BY <1>2, <1>3, <1>4 DEF OnceInv, SameInsert
    <2> QED
      BY <1>4, <2>1, <2>2, <2>3, OnceQuiet DEF OnceInv
  <1>5. ASSUME NEW new, clients' = [clients EXCEPT ![c] = new], new.agenda = clients[c].agenda,
               new.pc # "insert", new.pc = "delete" => \A o \in new.ids : Drops(c, o),
               UNCHANGED <<worker, queue>>
        PROVE  OnceInv'
    <2>1. \A d \in Clients : SameInsert(d)
      BY <1>2, <1>5 DEF OnceInv, SameInsert
    <2> QED
      BY <1>5, <2>1, OnceQuiet DEF OnceInv, Pending
  <1>6. \A pc : /\ Goto(c, pc).agenda = clients[c].agenda /\ Goto(c, pc).pc = pc
                /\ \A S : /\ [Goto(c, pc) EXCEPT !.ids = S].agenda = clients[c].agenda
                          /\ [Goto(c, pc) EXCEPT !.ids = S].pc = pc
                          /\ [Goto(c, pc) EXCEPT !.ids = S].ids = S
    BY <1>0 DEF Goto, ClientState
  <1>7. ASSUME NEW pc, pc \notin {"insert", "delete"}, clients' = [clients EXCEPT ![c] = Goto(c, pc)],
               UNCHANGED <<worker, queue>>
        PROVE  OnceInv'
    <2> DEFINE new == Goto(c, pc)
    <2>1. new.agenda = clients[c].agenda /\ new.pc \notin {"insert", "delete"} /\ clients' = [clients EXCEPT ![c] = new]
      BY <1>6, <1>7
    <2> HIDE DEF new
    <2> QED
      BY <1>5, <1>7, <2>1
  <1>8. CASE FindDuplicate(c) \/ CreateOperation(c)
    BY <1>4, <1>7, <1>8 DEF FindDuplicate, CreateOperation, Ready, ClientStep
  <1>9. CASE SelectDuplicates(c)
    <2>1. clients[c].agenda # <<>> /\ UNCHANGED <<worker, queue>> /\ task.do = "enqueue"
      BY <1>0, <1>9 DEF SelectDuplicates, Ready, ClientStep, WellFormed
    <2>2. CASE clients' = [clients EXCEPT ![c] = TaskDone(c)]
      BY <1>4, <2>1, <2>2
    <2>3. CASE Duplicates(task.op) = {} /\ clients' = [clients EXCEPT ![c] = Goto(c, "insert")]
      <3> DEFINE new == Goto(c, "insert")
      <3>1. new.agenda = clients[c].agenda
        BY <1>6
      <3>2. clients'[c] = new /\ \A d \in Clients \ {c} : clients'[d] = clients[d]
        BY <1>2, <2>3
      <3> HIDE DEF new
      <3>3. \A d \in Clients : clients'[d].agenda = clients[d].agenda
        BY <3>1, <3>2
      <3>4. \A p \in Pending : Key[p] # Key[task.op]
        BY <2>3 DEF Duplicates
      <3>5. Pending' = Pending
        BY <2>1 DEF Pending
      <3>6. new.pc = "insert"
          BY <1>6 DEF new
      <3> QED
        BY <2>1, <3>2, <3>3, <3>4, <3>5, <3>6 DEF OnceInv, NoDuplicateQueued
    <2> QED
      BY <1>9, <2>2, <2>3 DEF SelectDuplicates, ClientStep
  <1>10. CASE Insert(c)
    <2>1. /\ clients[c].agenda # <<>> /\ clients[c].pc = "insert" /\ worker' = worker
          /\ clients' = [clients EXCEPT ![c] = TaskDone(c)]
          /\ queue' = Append(queue, task.op)
      BY <1>10 DEF Insert, Ready, ClientStep
    <2>2. task.do = "enqueue" /\ task.op \in Ops /\ Asks(c)
      BY <1>0, <1>1, <2>1, HeadTask DEF WellFormed
    <2>3. Pending' = Pending \cup {task.op}
      BY <1>0, <2>1, <2>2, AppendIs DEF Pending
    <2>4. \A p \in Pending : Key[p] # Key[task.op]
      BY <2>1 DEF OnceInv
    <2>5. NoDuplicateQueued'
      BY <2>3, <2>4 DEF NoDuplicateQueued, OnceInv
    <2>6. ASSUME NEW d \in Clients, clients'[d].pc = "insert" PROVE FALSE
      <3>1. d # c /\ clients[d].pc = "insert"
        BY <1>2, <1>3, <2>1, <2>6
      <3>2. /\ clients[d].agenda # <<>> /\ Head(clients[d].agenda).do = "enqueue"
            /\ clients[d].agenda \in Seq(RequestTasks)
        BY <1>0, <3>1 DEF ActorsInv, WellFormed, ClientState
      <3>3. Head(clients[d].agenda) = clients[d].agenda[1] /\ 1 \in DOMAIN clients[d].agenda
        BY <3>2, TailIs
      <3>4. Asks(d)
        BY <3>2, <3>3 DEF OnceInv, KindsFit
      <3> QED
        BY <2>2, <3>1, <3>4 DEF OneAsks
    <2>7. \A d \in Clients : KindsFit(clients'[d].agenda, d)
      BY <1>2, <1>3, <2>1 DEF OnceInv
    <2>8. \A d \in Clients : clients'[d].pc = "delete" => \A o \in clients'[d].ids : Drops(d, o)
      BY <1>2, <1>3, <2>1 DEF OnceInv
    <2> QED
      BY <2>1, <2>3, <2>5, <2>6, <2>7, <2>8 DEF OnceInv
  <1>11. CASE CancelRows(c)
    BY <1>4, <1>11 DEF CancelRows, Ready, ClientStep
  <1>12. CASE SelectDrop(c)
    <2>1. clients[c].agenda # <<>> /\ UNCHANGED <<worker, queue>>
      BY <1>12 DEF SelectDrop, Ready, ClientStep
    <2>2. CASE clients' = [clients EXCEPT ![c] = TaskDone(c)]
      BY <1>4, <2>1, <2>2
    <2>3. CASE clients' = [clients EXCEPT ![c] =
                  [Goto(c, "delete") EXCEPT !.ids = task.ops \cap Pending]]
      <3> DEFINE new == [Goto(c, "delete") EXCEPT !.ids = task.ops \cap Pending]
      <3>1. new.agenda = clients[c].agenda /\ new.pc = "delete" /\ new.ids = task.ops \cap Pending
        BY <1>6
      <3>2. clients' = [clients EXCEPT ![c] = new]
        BY <2>3
      <3>3. \A o \in new.ids : Drops(c, o)
        BY <1>1, <1>12, <2>1, <3>1 DEF SelectDrop
      <3> HIDE DEF new
      <3> QED
        BY <1>5, <2>1, <3>1, <3>2, <3>3
    <2> QED
      BY <1>12, <2>2, <2>3 DEF SelectDrop, ClientStep
  <1>13. CASE DeleteDrop(c)
    BY <1>4, <1>13 DEF DeleteDrop, Ready, ClientStep
  <1>14. CASE CallStep(c)
    <2>1. UNCHANGED <<clients, worker, queue>>
      BY <1>14 DEF CallStep, deliveryVars
    <2>2. \A d \in Clients : SameInsert(d)
      BY <2>1 DEF SameInsert, OnceInv
    <2> QED
      BY <2>1, <2>2, OnceQuiet DEF OnceInv, Pending
  <1> QED
    BY <1>8, <1>9, <1>10, <1>11, <1>12, <1>13, <1>14 DEF ClientProgress

\* Steps that leave the clients and the queue alone.
LEMMA OnceStill ==
    ASSUME OnceInv, UNCHANGED <<clients, queue>>,
           worker'.pc \in {"requeue", "move"} => Retryable(worker'.op),
           worker'.pc = "move" => worker'.op \in Pending \/ Alone(worker'.op)
    PROVE  OnceInv'
  <1>1. \A d \in Clients : SameInsert(d)
    BY DEF SameInsert, OnceInv
  <1> QED
    BY <1>1, OnceQuiet DEF Pending

LEMMA OnceWorker ==
    ASSUME DeliveryInv, OnceInv, StartWorker \/ WorkerProgress
    PROVE  OnceInv'
  <1>0. /\ queue \in Seq(Ops) /\ IsInjective(queue) /\ ActorsInv /\ OwnersInv
        /\ worker.pc \notin {"off", "peek"} => worker.op \in Ops
    BY DEF DeliveryInv, DeliveryTypes, ActorsInv
  <1>1. CASE UNCHANGED <<clients, queue>> /\ worker'.pc \notin {"requeue", "move"}
    BY <1>1, OnceStill
  <1>2. CASE StartWorker \/ Peek \/ Pick \/ Check \/ Accept \/ GiveUp
    <2>1. UNCHANGED <<clients, queue>> /\ worker'.pc \notin {"requeue", "move"}
      BY <1>2 DEF StartWorker, Peek, Pick, Check, Accept, GiveUp, WorkerStep
    <2> QED
      BY <1>1, <2>1
  <1>3. CASE Send
    <2>1. UNCHANGED <<clients, queue>> /\ worker'.pc \notin {"requeue", "move"}
      BY <1>3 DEF Send, WorkerStep, NoWorker
    <2> QED
      BY <1>1, <2>1
  <1>4. CASE Retry
    <2>1. UNCHANGED <<clients, queue>> /\ worker'.op = worker.op /\ worker'.pc # "move"
      BY <1>4 DEF Retry, WorkerStep
    <2>2. Retryable(worker.op)
      BY <1>4 DEF Retry, Verdict, At
    <2> QED
      BY <2>1, <2>2, OnceStill
  <1>5. CASE MoveSelect
    <2>1. /\ UNCHANGED <<clients, queue>> /\ worker'.op = worker.op
          /\ worker'.pc = "move" => worker.op \in Pending
          /\ worker.pc = "requeue"
      BY <1>5 DEF MoveSelect, WorkerStep, At
    <2> QED
      BY <2>1, OnceStill DEF OnceInv
  <1>6. CASE MoveCommit
    <2>1. /\ worker.op \in Ops /\ worker.pc = "move" /\ worker'.pc = "peek"
          /\ queue' = Append(Without(queue, {worker.op}), worker.op)
          /\ clients' = [c \in Clients |-> [clients[c] EXCEPT !.ids = @ \ {worker.op}]]
      BY <1>0, <1>6 DEF MoveCommit, At
    <2> DEFINE rest == Without(queue, {worker.op})
    <2>2. rest \in Seq(Ops) /\ ToSet(rest) = Pending \ {worker.op}
      BY <1>0, WithoutIs DEF Pending
    <2>3. queue' = Append(rest, worker.op)
      BY <2>1
    <2> HIDE DEF rest
    <2>4. Pending' = Pending \cup {worker.op}
      <3>1. ToSet(Append(rest, worker.op)) = ToSet(rest) \cup {worker.op}
        BY <2>1, <2>2, AppendIs
      <3> QED
        BY <2>2, <2>3, <3>1 DEF Pending
    <2>5. \A c \in Clients : /\ clients'[c].agenda = clients[c].agenda
                             /\ clients'[c].pc = clients[c].pc
                             /\ clients'[c].ids \subseteq clients[c].ids
      BY <1>0, <2>1 DEF ActorsInv, ClientState
    <2>6. CASE worker.op \in Pending
      <3>1. \A c \in Clients : SameInsert(c)
        BY <2>5 DEF SameInsert, OnceInv
      <3> QED
        BY <2>1, <2>4, <2>6, <3>1, OnceQuiet
    <2>7. CASE Alone(worker.op)
      <3>1. Pending \subseteq Ops
        BY <1>0 DEF Pending, ToSet
      <3>2. NoDuplicateQueued'
        BY <2>1, <2>4, <2>7, <3>1 DEF NoDuplicateQueued, OnceInv, Alone
      <3>3. ASSUME NEW c \in Clients, clients'[c].pc = "insert"
            PROVE  \A p \in Pending' : Key[p] # Key[Head(clients'[c].agenda).op]
        <4> DEFINE a == clients[c].agenda
                   h == Head(a).op
        <4>1. clients[c].pc = "insert" /\ clients'[c].agenda = a
          BY <2>5, <3>3
        <4>2. a # <<>> /\ Head(a).do = "enqueue" /\ a \in Seq(RequestTasks)
          BY <1>0, <4>1 DEF ActorsInv, WellFormed, ClientState
        <4>3. Head(a) = a[1] /\ 1 \in DOMAIN a /\ h \in Ops /\ a[1] = Enqueue(h)
          <5>1. Head(a) = a[1] /\ 1 \in DOMAIN a /\ Head(a) \in RequestTasks
            BY <4>2, TailIs
          <5> QED
            BY <4>2, <5>1 DEF RequestTasks, Enqueue
        <4>4. ~Seen(h)
          BY <1>0, <4>3 DEF OwnersInv, Holds
        <4>5. h # worker.op
          BY <4>4 DEF Seen
        <4>6. Key[worker.op] # Key[h]
          BY <2>7, <4>3, <4>5 DEF Alone
        <4>7. \A p \in Pending : Key[p] # Key[h]
          BY <4>1 DEF OnceInv
        <4> QED
          BY <2>4, <4>1, <4>6, <4>7
      <3> QED
        BY <2>1, <2>5, <3>2, <3>3 DEF OnceInv
    <2> QED
      BY <2>1, <2>6, <2>7 DEF OnceInv
  <1>7. CASE Pop
    <2>1. queue' = Without(queue, {worker.op}) /\ clients' = clients /\ worker'.pc = "peek"
      BY <1>7 DEF Pop, WorkerStep
    <2>2. Pending' = Pending \ {worker.op}
      BY <1>0, <2>1, WithoutIs DEF Pending
    <2>3. \A c \in Clients : SameInsert(c)
      BY <2>1 DEF SameInsert, OnceInv
    <2> QED
      BY <2>1, <2>2, <2>3, OnceQuiet
  <1>8. CASE CallStep(Worker)
    <2>1. UNCHANGED <<clients, worker, queue>>
      BY <1>8 DEF CallStep, deliveryVars
    <2> QED
      BY <2>1, OnceStill DEF OnceInv
  <1> QED
    BY <1>2, <1>3, <1>4, <1>5, <1>6, <1>7, <1>8 DEF WorkerProgress

\* A client begins a request or dies.
LEMMA OnceRequest ==
    ASSUME DeliveryInv, OnceInv, NEW c \in Clients, NEW agenda, KindsFit(agenda, c),
           clients' = [clients EXCEPT ![c] = [IdleClient EXCEPT !.agenda = agenda]],
           UNCHANGED <<worker, queue>>
    PROVE  OnceInv'
  <1>1. /\ clients'[c].agenda = agenda /\ clients'[c].pc = "next"
        /\ \A d \in Clients \ {c} : clients'[d] = clients[d]
    BY DEF DeliveryInv, ActorsInv, IdleClient
  <1>2. \A d \in Clients : SameInsert(d)
    BY <1>1 DEF SameInsert, OnceInv
  <1> QED
    BY <1>2, OnceQuiet DEF OnceInv, Pending

LEMMA OnceStep ==
    ASSUME OneAsks, DropsSpareRetries, DeliveryInv, OnceInv, [Next]_vars
    PROVE  OnceInv'
  <1>1. CASE UNCHANGED <<clients, worker, queue>>
    BY <1>1, OnceStill DEF OnceInv
  <1>2. ASSUME NEW c \in Clients, NEW o \in Ops, NEW r \in MayRequest[c], Request(c, r, o)
        PROVE  OnceInv'
    <2>1. PICK agenda \in Agendas(r, o) : ClientStep(c, [IdleClient EXCEPT !.agenda = agenda])
      BY <1>2 DEF Request
    <2>2. KindsFit(agenda, c)
      BY RequestKinds
    <2> QED
      BY <1>2, <2>1, <2>2, OnceRequest DEF ClientStep, Request
  <1>3. ASSUME NEW c \in Clients, RequestClear(c) PROVE OnceInv'
    <2> DEFINE agenda == <<DropTask(Ops), CancelTask(Ops)>>
    <2>1. \A o \in Ops : Drops(c, o)
      BY <1>3 DEF RequestClear, Drops
    <2>2. KindsFit(agenda, c)
      BY <2>1 DEF KindsFit, DropTask, CancelTask
    <2>3. /\ clients' = [clients EXCEPT ![c] = [IdleClient EXCEPT !.agenda = agenda]]
          /\ UNCHANGED <<worker, queue>>
      BY <1>3 DEF RequestClear, ClientStep
    <2> HIDE DEF agenda
    <2> QED
      BY <2>2, <2>3, OnceRequest
  <1>4. ASSUME NEW c \in Clients, ClientProgress(c) PROVE OnceInv'
    BY <1>4, OnceClient
  <1>5. ASSUME NEW c \in Clients, ClientCrash(c) PROVE OnceInv'
    <2>1. [IdleClient EXCEPT !.agenda = <<>>] = IdleClient
      BY DEF IdleClient
    <2>2. clients' = [clients EXCEPT ![c] = IdleClient] /\ UNCHANGED <<worker, queue>>
      BY <1>5 DEF ClientCrash, Crash
    <2>3. KindsFit(<<>>, c)
      BY DEF KindsFit
    <2> QED
      BY <2>1, <2>2, <2>3, OnceRequest
  <1>6. CASE StartWorker \/ WorkerProgress
    BY <1>6, OnceWorker
  <1>7. CASE WorkerCrash
    BY <1>7, OnceStill DEF WorkerCrash, Crash, NoWorker
  <1>8. CASE \/ \E c \in Clients, o \in Ops : CancelOperation(c, o)
             \/ StaleCheck \/ CallStep(Callback) \/ CallbackCrash \/ UNCHANGED vars
    BY <1>1, <1>8 DEF CancelOperation, StaleCheck, CallStep, deliveryVars, CallbackCrash, Crash, vars
  <1>9. CASE \/ PumpOn \/ FinishWatering \/ (\E o \in Ops : Tick(o))
             \/ \E o \in Ops, word \in CallbackWords : Deliver(o, word)
    BY <1>1, <1>9 DEF PumpOn, FinishWatering, Tick, Deliver
  <1> QED
    BY <1>2, <1>3, <1>4, <1>5, <1>6, <1>7, <1>8, <1>9 DEF Next

LEMMA OnceInit == Init => OnceInv
  <1> SUFFICES ASSUME Init PROVE OnceInv
    OBVIOUS
  <1>1. \A c \in Clients : clients[c].agenda = <<>> /\ clients[c].pc = "next"
    BY DEF Init, IdleClient
  <1>2. Pending = {}
    BY DEF Init, Pending, ToSet
  <1> QED
    BY <1>1, <1>2 DEF Init, OnceInv, NoDuplicateQueued, KindsFit, NoWorker

-----------------------------------------------------------------------------
(* The theorems. *)

\* Clients, the worker, the callback node and the supervisor together change
\* the operation log only by the calls of class OperationLog, whatever crashes.
THEOREM DeliveryUsesLog == Spec => LogSpec
  <1>1. Init => LogInit
    BY DEF Init
  <1>2. ActorsInv /\ [Next]_vars => ActorsInv' /\ [LogNext]_logVars
    BY ActorsNext, StepIsLogStep
  <1> QED
    BY <1>1, <1>2, ActorsInit, PTL DEF Spec, LogSpec

\* What a client has been shown as finished is never shown as unfinished again
\* (detail_from_operation), in the whole system and for any number of clients,
\* operations, crashes and lost answers.
THEOREM DeliveryClosedIsFinal == Spec => ClosedStaysClosed
  BY DeliveryUsesLog, ClosedIsFinal, PTL

\* The operations of the whole system follow the lifecycle.
THEOREM DeliveryImplementsLifecycle == Spec => LifecycleSpec
  BY DeliveryUsesLog, LogImplementsLifecycle, PTL

\* No reader is shown an acknowledgement that was misread.
LEMMA VisibleRow ==
    ASSUME LogInv, NEW o \in Ops
    PROVE  Visible(o) \in {row[o], outcome[o]}
  BY VisibleIs DEF LogInv

\* Type correctness of the delivery.
THEOREM DeliveryTypeCorrect == Spec => []DeliveryTypeOK
  <1>1. DeliveryInv => DeliveryTypeOK
    <2> SUFFICES ASSUME DeliveryInv PROVE DeliveryTypeOK
      OBVIOUS
    <2>1. RequestTasks \subseteq Task
      BY DEF RequestTasks, Task, WateringStarts
    <2>2. \A c \in Clients : clients[c].agenda \in Seq(Task)
      <3>1. \A c \in Clients : clients[c].agenda \in Seq(RequestTasks)
        BY DEF DeliveryInv, ActorsInv, ClientState
      <3> QED
        BY <2>1, <3>1
    <2>3. \A c \in Clients :
             /\ clients[c].pc \in {"next", "create", "select", "insert", "delete"}
             /\ clients[c].ids \subseteq Ops
      BY DEF DeliveryInv, ActorsInv, ClientState
    <2> QED
      BY <2>2, <2>3 DEF DeliveryInv, LogInv, DeliveryTypes, DeliveryTypeOK
  <1> QED
    BY <1>1, DeliveryInvariant, PTL

\* No reader is shown an operation as accepted, running or successful that has
\* not reached the device (workers.py, callbacks.py), for any number of
\* clients and operations, whatever crashes and whatever is lost.
THEOREM StatusIsAlwaysEarned == Spec => []StatusIsEarned
  <1>1. DeliveryInv => StatusIsEarned
    BY VisibleRow DEF DeliveryInv, EarnedLog, Earned, StatusIsEarned
  <1> QED
    BY <1>1, DeliveryInvariant, PTL

\* The registry takes only settings that reached the controller.
THEOREM ConfirmedAlwaysApplied == Spec => []ConfirmedWereApplied
  <1>1. DeliveryInv => ConfirmedWereApplied
    BY DEF DeliveryInv, EarnedLog, ConfirmedWereApplied
  <1> QED
    BY <1>1, DeliveryInvariant, PTL

\* A watering begins again only after an answer was lost or a process died.
THEOREM WateringStartsOnce == Spec => []StartsOnce
  <1>1. DeliveryInv => StartsOnce
    <2> SUFFICES ASSUME DeliveryInv, NEW o \in Ops
                 PROVE  begins[o] <= 1 + faults.answers + faults.crashes
      BY DEF StartsOnce
    <2>1. begins[o] \in Nat /\ faults.answers \in Nat /\ faults.crashes \in Nat
      BY DEF DeliveryInv, DeliveryTypes
    <2>2. begins[o] <= (faults.answers + faults.crashes) + IF Again(o) THEN 0 ELSE 1
      BY DEF DeliveryInv, StartsInv, Failures
    <2> QED
      BY <2>1, <2>2
  <1> QED
    BY <1>1, DeliveryInvariant, PTL

\* What can happen to the device.
LEMMA DeviceMoves ==
    ASSUME DeliveryInv, Next
    PROVE  \/ UNCHANGED device \/ PumpOn \/ FinishWatering
           \/ \E o \in Ops : BeginWatering(o) \/ TakeStop(o)
  <1>1. CASE Send
    <2>1. worker.op \in Ops
      BY <1>1 DEF Send, At, DeliveryInv, ActorsInv
    <2> QED
      BY <1>1, <2>1 DEF Send, UnchangedDevice, Handle, RefuseStart, RefuseStop, ApplyOther
  <1>2. CASE StartWorker \/ (WorkerProgress /\ ~Send)
    BY <1>2 DEF StartWorker, WorkerProgress, Peek, Pick, Check, Accept, GiveUp, Retry, MoveSelect,
       MoveCommit, Pop, CallStep, UnchangedDevice, deliveryVars
  <1>3. \A W : Crash(W) => UNCHANGED device
    BY DEF Crash, UnchangedDevice
  <1>4. \A c \in Clients : ClientProgress(c) => UNCHANGED device
    BY DEF ClientProgress, FindDuplicate, CreateOperation, SelectDuplicates, Insert,
       CancelRows, SelectDrop, DeleteDrop, CallStep, ClientStep, deliveryVars
  <1>5. \A c \in Clients : \A o \in Ops :
          CancelOperation(c, o) \/ RequestClear(c) \/ ClientCrash(c) \/ (\E r : Request(c, r, o))
          => UNCHANGED device
    BY <1>3 DEF CancelOperation, RequestClear, ClientCrash, Request, ClientStep, deliveryVars
  <1>6. \A c \in Clients : RequestClear(c) \/ ClientCrash(c) => UNCHANGED device
    BY <1>3 DEF RequestClear, ClientCrash, ClientStep
  <1>7. WorkerCrash \/ CallbackCrash \/ StaleCheck \/ CallStep(Callback) => UNCHANGED device
    BY <1>3 DEF WorkerCrash, CallbackCrash, StaleCheck, CallStep, deliveryVars
  <1>8. \A o \in Ops : Tick(o) \/ (\E word : Deliver(o, word)) => UNCHANGED device
    BY DEF Tick, Deliver, UnchangedDevice
  <1> QED
    BY <1>1, <1>2, <1>4, <1>5, <1>6, <1>7, <1>8 DEF Next

\* The device is the tank that the controller's tasks implement, whatever the
\* backend sends, sends again or sends too late (web.c, watering.c).
THEOREM DeliveryImplementsTank == Spec => TankSpec
  <1> DEFINE Rests == device.op = NoOp => device = IdleDevice
  <1>1. Init => Rests /\ Tank!Init
    BY DEF Init, Tank!Init, IdleDevice
  <1>2. DeliveryInv /\ Rests /\ [Next]_vars => Rests' /\ [Tank!Next]_(Tank!deviceVars)
    <2> SUFFICES ASSUME DeliveryInv, Rests, [Next]_vars
                 PROVE  Rests' /\ [Tank!Next]_(Tank!deviceVars)
      OBVIOUS
    <2>0. device \in [op : Ops \cup {NoOp}, pumping : BOOLEAN, stop : BOOLEAN]
      BY DEF DeliveryInv, DeliveryTypes
    <2>1. CASE UNCHANGED device
      BY <2>1 DEF Tank!deviceVars
    <2>2. CASE PumpOn
      <3>1. Rests' /\ Tank!PumpOn
        BY <2>0, <2>2 DEF PumpOn, Tank!PumpOn
      <3> QED
        BY <3>1 DEF Tank!Next
    <2>3. CASE FinishWatering
      <3>1. Rests' /\ Tank!End
        BY <2>0, <2>3 DEF FinishWatering, IdleDevice, Tank!End
      <3> QED
        BY <3>1 DEF Tank!Next
    <2>4. ASSUME NEW o \in Ops, BeginWatering(o) PROVE Rests' /\ [Tank!Next]_(Tank!deviceVars)
      <3>1. device = IdleDevice /\ o \in WateringStarts /\ o # NoOp
        BY <2>4 DEF BeginWatering, WateringStarts
      <3>2. device' = [op |-> o, pumping |-> FALSE, stop |-> FALSE]
        BY <2>4 DEF BeginWatering, IdleDevice
      <3>3. Rests' /\ Tank!Accept(o)
        BY ONLY <3>1, <3>2 DEF IdleDevice, Tank!Accept
      <3> QED
        BY <3>1, <3>3 DEF Tank!Next
    <2>5. ASSUME NEW o \in Ops, TakeStop(o) PROVE Rests' /\ [Tank!Next]_(Tank!deviceVars)
      <3>1. CASE device.op = NoOp
        BY <2>1, <2>5, <3>1 DEF TakeStop
      <3>2. CASE device.op # NoOp
        <4>1. Rests' /\ Tank!RequestStop
          BY <2>0, <2>5, <3>2 DEF TakeStop, Tank!RequestStop
        <4> QED
          BY <4>1 DEF Tank!Next
      <3> QED
        BY <3>1, <3>2
    <2> QED
      BY <2>1, <2>2, <2>3, <2>4, <2>5, DeviceMoves DEF vars, deliveryVars
  <1> HIDE DEF Rests
  <1> QED
    BY <1>1, <1>2, DeliveryInvariant, PTL DEF Spec, TankSpec, Tank!Spec

\* The worker takes a command off the queue only when the log has said more of
\* it than that it is being sent (run_until_empty).
THEOREM PopsAreAlwaysRecorded == Spec => PopsAreRecorded
  <1> DEFINE Step == \A o \in Ops :
               o \in Pending /\ worker = [pc |-> "pop", op |-> o] /\ worker' # worker
                 /\ ~(o \in Pending')
               => row[o] \notin {"queued", "sending"}
  <1>1. DeliveryInv /\ [Next]_vars => [Step]_vars
    <2> SUFFICES ASSUME DeliveryInv, Next, NEW o \in Ops, o \in Pending,
                        worker = [pc |-> "pop", op |-> o], worker' # worker, o \notin Pending'
                 PROVE  row[o] \notin {"queued", "sending"}
      BY DEF vars, deliveryVars
    <2>1. Idle(Worker) => row[o] \notin {"queued", "sending"}
      BY DEF DeliveryInv, PopsInv, Idle
    <2>2. worker.pc = "pop" /\ worker.op = o
      OBVIOUS
    <2>3. CASE StartWorker \/ WorkerProgress
      <3>1. CASE CallStep(Worker)
        BY <3>1 DEF CallStep, deliveryVars
      <3>2. CASE Pop
        BY <2>1, <3>2 DEF Pop, At
      <3> QED
        BY <2>2, <2>3, <3>1, <3>2 DEF StartWorker, WorkerProgress, Peek, Pick, Check, Send,
           Accept, GiveUp, Retry, MoveSelect, MoveCommit, At
    <2>4. ASSUME NEW W, Crash(W) PROVE Pending' = Pending
      BY <2>4 DEF Crash, Pending
    <2>5. CASE UNCHANGED worker \/ UNCHANGED queue
      BY <2>5 DEF Pending
    <2>6. \A c \in Clients : ClientProgress(c) => UNCHANGED worker
      BY DEF ClientProgress, FindDuplicate, CreateOperation, SelectDuplicates, Insert,
             CancelRows, SelectDrop, DeleteDrop, CallStep, ClientStep, deliveryVars
    <2> QED
      BY <2>3, <2>4, <2>5, <2>6 DEF Next, Request, CancelOperation, RequestClear, ClientCrash,
         WorkerCrash, StaleCheck, PumpOn, FinishWatering, CallStep, CallbackCrash, Tick, Deliver,
         ClientStep, deliveryVars
  <1> QED
    BY <1>1, DeliveryInvariant, PTL DEF Spec, PopsAreRecorded

\* Until a process dies, an operation shown as queued is in the queue, or
\* somebody is at it, if the client that stops is the one that fills: whatever
\* the worker, the callbacks and the other requests do (service.py, queue_stop
\* and clear_device_queue; smart_watering/README.md on "queued").
THEOREM QueuedIsStored ==
    ASSUME OneStops
    PROVE  Spec => [](faults.crashes = 0 => QueuedMeansStored)
  <1>1. DeliveryInv /\ StoredInv => QueuedMeansStored
    <2> SUFFICES ASSUME StoredInv, NEW o \in Ops, row[o] = "queued" PROVE AtHand(o)
      BY DEF QueuedMeansStored
    <2>1. Kept(o)
      BY DEF StoredInv, KeptInv
    <2>2. ASSUME NEW c \in Clients, Creating(c, o) \/ Cancels(c, o)
          PROVE  \E task \in ToSet(clients[c].agenda) :
                   IF task.do = "enqueue" THEN task.op = o
                   ELSE task.do = "cancel" /\ o \in task.ops
      <3>1. CASE Creating(c, o)
        BY <3>1 DEF Creating, Holds, Enqueue, ToSet
      <3>2. CASE Cancels(c, o)
        BY <3>2 DEF Cancels, ToSet
      <3> QED
        BY <2>2, <3>1, <3>2
    <2> QED
      BY <2>1, <2>2 DEF Kept, AtHand, Committing
  <1>2. Init => (faults.crashes = 0 => StoredInv)
    BY StoredInit
  <1>3. /\ DeliveryInv /\ (faults.crashes = 0 => StoredInv) /\ [Next]_vars
        => (faults.crashes = 0 => StoredInv)'
    BY KeptStep, CrashesGrow
  <1> QED
    BY <1>1, <1>2, <1>3, DeliveryInvariant, PTL DEF Spec

\* Equal commands are queued once, whatever is moved, dropped or lost
\* meanwhile, if one client asks (repositories.py: enqueue looks for duplicates
\* in a transaction of its own) and what is retried is not dropped while an
\* equal command can come in (move_to_tail_if_other inserts the row again).
THEOREM QueuedOnce ==
    ASSUME OneAsks, DropsSpareRetries
    PROVE  Spec => []NoDuplicateQueued
  <1>1. OnceInv => NoDuplicateQueued
    BY DEF OnceInv
  <1>2. DeliveryInv /\ OnceInv /\ [Next]_vars => OnceInv'
    BY OnceStep
  <1> QED
    BY <1>1, <1>2, OnceInit, DeliveryInvariant, PTL DEF Spec
=============================================================================
