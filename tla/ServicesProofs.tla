---------------------------- MODULE ServicesProofs ----------------------------
(***************************************************************************)
(* What the public API, the CLI and the supervisor's presence loop do.     *)
(* IdempotentRequests: RunsOnce and AnswersOwnRequest for any number of    *)
(* clients, keys, bodies, failures, crashes and purges. They follow from   *)
(* one invariant: a key has one execution at a time, for which its record  *)
(* is pending (OneExecution), an answer in a record is to the record's own *)
(* body (RecordsAnswer), and before an execution changes something the key *)
(* has had no more runs than failures and removals (RunsLeft).             *)
(* CallbackCheck, for any number of devices: its verdict is true of the    *)
(* log, and no probe is closed twice. While the CLI closes the probes none *)
(* is added, so those it has not come to yet are the only open ones        *)
(* (Closing); the device at hand has its probe from Create on (AtHand).    *)
(* DevicePresence, for any number of devices: never more than Concurrency  *)
(* probes run, since no device has two (PresenceInv).                      *)
(* At the end: the components of MCServices, DeviceState among them, run   *)
(* there as their own specifications say.                                  *)
(***************************************************************************)
EXTENDS MCServices, CardProofs, FiniteSetTheorems, TLAPS

Executes(c) == request[c].pc \in Executing

OneExecution ==
    \A c \in Clients : Executes(c) =>
       /\ Row(c) = [body |-> Body(c), answer |-> "pending"]
       /\ \A d \in Clients : Executes(d) /\ Scope(d) = Scope(c) => d = c

RecordsAnswer ==
    \A s \in Scopes : record[s].answer \in {"none", "pending", record[s].body}

RunsLeft ==
    /\ \A s \in Scopes : record[s].body = "none" => runs[s] <= again[s]
    /\ \A c \in Clients : request[c].pc \in {"authenticate", "execute"} =>
          runs[Scope(c)] <= again[Scope(c)]

RequestsInv ==
    /\ RequestsTypeOK /\ OneExecution /\ RecordsAnswer
    /\ RunsLeft /\ RunsOnce /\ AnswersOwnRequest

-----------------------------------------------------------------------------

LEMMA Words == "none" \notin Bodies /\ "pending" \notin Bodies /\ "conflict" \notin Bodies
BY RequestsAssumption

LEMMA FaultBounds == MaxFailures \in Nat /\ MaxCrashes \in Nat /\ MaxPurges \in Nat
BY RequestsAssumption

LEMMA InitRequests == RequestsInit => RequestsInv
<1> SUFFICES ASSUME RequestsInit PROVE RequestsInv
    OBVIOUS
<1> USE RequestsAssumption DEF RequestsInit
<1>1. RequestsTypeOK
    BY DEF RequestsTypeOK, NoRecord, Executing
<1>2. OneExecution
    BY DEF OneExecution, Executes, Executing
<1>3. RecordsAnswer /\ RunsLeft /\ RunsOnce
    BY DEF RecordsAnswer, RunsLeft, RunsOnce, NoRecord
<1>4. AnswersOwnRequest
    BY DEF AnswersOwnRequest
<1> QED
    BY <1>1, <1>2, <1>3, <1>4 DEF RequestsInv

-----------------------------------------------------------------------------
(* The types. *)

RequestTypes ==
    request \in [Clients -> [pc : {"new", "send", "respond", "answered"} \cup Executing,
                             scope : Scopes, body : Bodies,
                             answer : Bodies \cup {"none", "conflict"}]]

RecordTypes ==
    /\ record \in [Scopes -> [body : Bodies \cup {"none"}, answer : Bodies \cup {"none", "pending"}]]
    /\ \A s \in Scopes : record[s].body = "none" <=> record[s].answer = "none"

LEMMA GotoTypes ==
    ASSUME RequestTypes, NEW c \in Clients,
           NEW pc \in {"new", "send", "respond", "answered"} \cup Executing,
           NEW answer \in Bodies \cup {"none", "conflict"},
           \/ request' = [request EXCEPT ![c].pc = pc]
           \/ request' = [request EXCEPT ![c].pc = pc, ![c].answer = answer]
    PROVE  RequestTypes'
<1>1. PICK new \in [pc : {"new", "send", "respond", "answered"} \cup Executing,
                    scope : Scopes, body : Bodies, answer : Bodies \cup {"none", "conflict"}] :
         request' = [request EXCEPT ![c] = new]
  <2>1. CASE request' = [request EXCEPT ![c].pc = pc]
    <3>1. request' = [request EXCEPT ![c] = [@ EXCEPT !.pc = pc]]
        BY <2>1 DEF RequestTypes
    <3>2. [request[c] EXCEPT !.pc = pc]
             \in [pc : {"new", "send", "respond", "answered"} \cup Executing,
                  scope : Scopes, body : Bodies, answer : Bodies \cup {"none", "conflict"}]
        BY DEF RequestTypes
    <3> QED
        BY <3>1, <3>2
  <2>2. CASE request' = [request EXCEPT ![c].pc = pc, ![c].answer = answer]
    <3>1. request' = [request EXCEPT ![c] = [@ EXCEPT !.pc = pc, !.answer = answer]]
        BY <2>2 DEF RequestTypes
    <3>2. [request[c] EXCEPT !.pc = pc, !.answer = answer]
             \in [pc : {"new", "send", "respond", "answered"} \cup Executing,
                  scope : Scopes, body : Bodies, answer : Bodies \cup {"none", "conflict"}]
        BY DEF RequestTypes
    <3> QED
        BY <3>1, <3>2
  <2> QED
      BY <2>1, <2>2
<1> QED
    BY <1>1 DEF RequestTypes

LEMMA TypeMiddleware ==
    ASSUME RequestsTypeOK, RecordsAnswer, NEW c \in Clients, Middleware(c)
    PROVE  RequestsTypeOK'
<1> USE Words DEF Goto, AnswerWith
<1>0. RequestTypes /\ RecordTypes /\ {"authenticate"} \subseteq Executing
    BY DEF RequestsTypeOK, RequestTypes, RecordTypes, Executing
<1>1. CASE Begin(c)
  <2>1. RequestTypes'
      BY <1>0, <1>1, GotoTypes DEF Begin
  <2>2. RecordTypes'
      BY <1>0, <1>1 DEF Begin, NoRecord, RequestTypes, RecordTypes, Scope, Body, Row
  <2> QED
      BY <1>1, <2>1, <2>2 DEF Begin, RequestsTypeOK, RequestTypes, RecordTypes
<1>2. CASE Conflict(c)
  <2>1. RequestTypes'
      BY <1>0, <1>2, GotoTypes DEF Conflict
  <2> QED
      BY <1>2, <2>1 DEF Conflict, RequestsTypeOK, RequestTypes
<1>3. CASE Pending(c)
  <2>1. RequestTypes'
      BY <1>0, <1>3, GotoTypes DEF Pending
  <2> QED
      BY <1>3, <2>1 DEF Pending, RequestsTypeOK, RequestTypes
<1>4. CASE Replay(c)
  <2>1. Row(c).answer \in Bodies
      BY <1>0, <1>4 DEF Replay, RecordsAnswer, RequestTypes, RecordTypes, Scope, Body, Row
  <2>2. RequestTypes'
      BY <1>0, <1>4, <2>1, GotoTypes DEF Replay
  <2> QED
      BY <1>4, <2>2 DEF Replay, RequestsTypeOK, RequestTypes
<1> QED
    BY <1>1, <1>2, <1>3, <1>4 DEF Middleware

LEMMA TypeApplication ==
    ASSUME RequestsTypeOK, OneExecution, NEW c \in Clients, Application(c)
    PROVE  RequestsTypeOK'
<1> USE Words, RequestsAssumption DEF Goto, AnswerWith
<1>0. RequestTypes /\ RecordTypes /\ {"execute", "store", "drop"} \subseteq Executing
    BY DEF RequestsTypeOK, RequestTypes, RecordTypes, Executing
<1>1. CASE Authenticate(c)
  <2>1. RequestTypes'
      BY <1>0, <1>1, GotoTypes DEF Authenticate
  <2> QED
      BY <1>1, <2>1 DEF Authenticate, RequestsTypeOK, RequestTypes
<1>2. CASE Execute(c)
  <2> USE DEF RequestsTypeOK, Scope
  <2>1. runs' \in [Scopes -> Nat]
      BY <1>2 DEF Execute
  <2>2. faults' \in [failures : 0..MaxFailures, crashes : 0..MaxCrashes, purges : 0..MaxPurges]
      BY <1>2 DEF Execute
  <2>3. RequestTypes'
      BY <1>0, <1>2, GotoTypes DEF Execute
  <2> QED
      BY <1>2, <2>1, <2>2, <2>3 DEF Execute, RequestTypes
<1>3. CASE Store(c)
  <2>0. Executes(c)
      BY <1>3 DEF Store, Executes, Executing
  <2>1. Row(c).body = Body(c)
      BY <2>0 DEF OneExecution
  <2> USE DEF RequestsTypeOK, Scope, Body, Row
  <2>2. record' \in [Scopes -> [body : Bodies \cup {"none"}, answer : Bodies \cup {"none", "pending"}]]
      BY <1>3 DEF Store
  <2>3. \A s \in Scopes : record'[s].body = "none" <=> record'[s].answer = "none"
      BY <1>3, <2>1 DEF Store
  <2>4. RequestTypes'
      BY <1>0, <1>3, GotoTypes DEF Store, RequestTypes
  <2> QED
      BY <1>3, <2>2, <2>3, <2>4 DEF Store, RequestTypes
<1>4. CASE Drop(c)
  <2>1. RequestTypes'
      BY <1>0, <1>4, GotoTypes DEF Drop
  <2>2. RecordTypes' /\ again' \in [Scopes -> Nat]
      BY <1>0, <1>4 DEF Drop, NoRecord, RecordTypes, RequestTypes, RequestsTypeOK, Scope
  <2> QED
      BY <1>4, <2>1, <2>2 DEF Drop, RequestsTypeOK, RequestTypes, RecordTypes
<1> QED
    BY <1>1, <1>2, <1>3, <1>4 DEF Application

LEMMA TypeWorld ==
    ASSUME RequestsTypeOK,
           \/ \E c \in Clients : Deliver(c) \/ Lose(c)
           \/ Crash
           \/ \E s \in Scopes : PurgeAnswered(s) \/ PurgePending(s)
    PROVE  RequestsTypeOK'
<1> USE Words, RequestsAssumption DEF RequestsTypeOK, Goto
<1>0. RequestTypes
    BY DEF RequestTypes
<1>1. ASSUME NEW c \in Clients, Deliver(c) PROVE RequestsTypeOK'
  <2>1. RequestTypes'
      BY <1>0, <1>1, GotoTypes DEF Deliver
  <2> QED
      BY <1>1, <2>1 DEF Deliver, RequestTypes
<1>2. ASSUME NEW c \in Clients, Lose(c) PROVE RequestsTypeOK'
  <2>1. RequestTypes'
      BY <1>0, <1>2, GotoTypes DEF Lose
  <2> QED
      BY <1>2, <2>1 DEF Lose, RequestTypes
<1>3. CASE Crash
  <2>1. faults' \in [failures : 0..MaxFailures, crashes : 0..MaxCrashes, purges : 0..MaxPurges]
    <3>1. faults \in [failures : 0..MaxFailures, crashes : 0..MaxCrashes, purges : 0..MaxPurges]
        OBVIOUS
    <3>2. faults' = [faults EXCEPT !.crashes = @ + 1] /\ faults.crashes < MaxCrashes
        BY <1>3 DEF Crash
    <3> HIDE DEF RequestsTypeOK
    <3>3. faults.crashes + 1 \in 0..MaxCrashes
        BY <3>1, <3>2, FaultBounds
    <3> QED
        BY <3>1, <3>2, <3>3
  <2>2. \A c \in Clients :
           [request[c] EXCEPT !.pc = "send", !.answer = "none"]
              \in [pc : {"new", "send", "respond", "answered"} \cup Executing,
                   scope : Scopes, body : Bodies, answer : Bodies \cup {"none", "conflict"}]
    <3> TAKE c \in Clients
    <3>1. request[c] \in [pc : {"new", "send", "respond", "answered"} \cup Executing,
                          scope : Scopes, body : Bodies, answer : Bodies \cup {"none", "conflict"}]
        OBVIOUS
    <3> HIDE DEF RequestsTypeOK
    <3> QED
        BY <3>1
  <2>3. RequestTypes'
      BY <1>3, <2>2 DEF Crash, RequestTypes
  <2> QED
      BY <1>3, <2>1, <2>3 DEF Crash, RequestTypes
<1>4. ASSUME NEW s \in Scopes, RemoveRecord(s)
      PROVE  /\ record' \in [Scopes -> [body : Bodies \cup {"none"}, answer : Bodies \cup {"none", "pending"}]]
             /\ again' \in [Scopes -> Nat]
             /\ \A t \in Scopes : record'[t].body = "none" <=> record'[t].answer = "none"
    BY <1>4 DEF RemoveRecord, NoRecord
<1>5. ASSUME NEW s \in Scopes, PurgeAnswered(s) PROVE RequestsTypeOK'
  <2>1. faults' \in [failures : 0..MaxFailures, crashes : 0..MaxCrashes, purges : 0..MaxPurges]
      BY <1>5, FaultBounds DEF PurgeAnswered
  <2> QED
      BY <1>4, <1>5, <2>1 DEF PurgeAnswered, RemoveRecord
<1>6. ASSUME NEW s \in Scopes, PurgePending(s) PROVE RequestsTypeOK'
    BY <1>4, <1>6 DEF PurgePending, RemoveRecord
<1> QED
    BY <1>1, <1>2, <1>3, <1>5, <1>6

LEMMA TypeStep ==
    ASSUME RequestsInv, RequestsNext
    PROVE  RequestsTypeOK'
BY TypeMiddleware, TypeApplication, TypeWorld DEF RequestsInv, RequestsNext

-----------------------------------------------------------------------------
(* What the records say of the executions. *)

\* A request that is executed has its record pending.
LEMMA ExecutionPending ==
    ASSUME RequestsInv, NEW c \in Clients, Executes(c)
    PROVE  Row(c) = [body |-> Body(c), answer |-> "pending"]
BY DEF RequestsInv, OneExecution

\* No step of the middleware but the first begins an execution.
LEMMA SafeMiddleware ==
    ASSUME RequestsInv, NEW c \in Clients, Middleware(c)
    PROVE  OneExecution' /\ RecordsAnswer' /\ RunsLeft' /\ RunsOnce' /\ AnswersOwnRequest'
<1>a. \A d \in Clients : Executes(d) /\ Scope(d) = Scope(c) => record[Scope(c)].answer = "pending"
  <2> TAKE d \in Clients
  <2> HAVE Executes(d) /\ Scope(d) = Scope(c)
  <2>1. Row(d) = [body |-> Body(d), answer |-> "pending"]
      BY ExecutionPending
  <2> QED
      BY <2>1 DEF Row
<1> USE Words DEF RequestsInv, Goto, AnswerWith, Executes, Executing, Scope, Body, Row
<1>0. /\ record \in [Scopes -> [body : Bodies \cup {"none"}, answer : Bodies \cup {"none", "pending"}]]
      /\ \A d \in Clients : request[d].scope \in Scopes /\ request[d].body \in Bodies
      /\ \A s \in Scopes : runs[s] \in Nat /\ again[s] \in Nat
      /\ DOMAIN request = Clients
      /\ \A s \in Scopes : record[s].body = "none" <=> record[s].answer = "none"
    BY DEF RequestsTypeOK
<1>1. CASE Begin(c)
  <2> USE <1>1, <1>0 DEF Begin, NoRecord
  <2>1. ~\E d \in Clients : Executes(d) /\ Scope(d) = Scope(c)
      BY <1>a
  <2>2. OneExecution'
      BY <2>1 DEF OneExecution
  <2>3. RecordsAnswer' /\ RunsOnce'
      BY DEF RecordsAnswer, RunsOnce
  <2>4. RunsLeft'
      BY DEF RunsLeft
  <2>5. AnswersOwnRequest'
      BY DEF AnswersOwnRequest
  <2> QED
      BY <2>2, <2>3, <2>4, <2>5
<1>2. ASSUME NEW pc \in {"send", "respond"}, NEW answer \in {request[c].answer, "conflict", Body(c)},
             request' = [request EXCEPT ![c].pc = pc, ![c].answer = answer] \/
             request' = [request EXCEPT ![c].pc = pc],
             UNCHANGED <<record, runs, again>>
      PROVE  OneExecution' /\ RecordsAnswer' /\ RunsLeft' /\ RunsOnce' /\ AnswersOwnRequest'
  <2> USE <1>2, <1>0
  <2>0. /\ \A d \in Clients : Scope(d)' = Scope(d) /\ Body(d)' = Body(d)
        /\ \A d \in Clients \ {c} : request'[d] = request[d]
        /\ request'[c].pc = pc /\ request'[c].answer \in {request[c].answer, answer}
    <3>1. CASE request' = [request EXCEPT ![c].pc = pc, ![c].answer = answer]
        BY <3>1
    <3>2. CASE request' = [request EXCEPT ![c].pc = pc]
        BY <3>2
    <3> QED
        BY <3>1, <3>2
  <2>1. OneExecution'
      BY <2>0 DEF OneExecution
  <2>2. RecordsAnswer' /\ RunsOnce'
      BY DEF RecordsAnswer, RunsOnce
  <2>3. RunsLeft'
      BY <2>0 DEF RunsLeft
  <2>4. AnswersOwnRequest'
      BY <2>0 DEF AnswersOwnRequest
  <2> QED
      BY <2>1, <2>2, <2>3, <2>4
<1>3. CASE Conflict(c)
    BY <1>2, <1>3 DEF Conflict
<1>4. CASE Pending(c)
    BY <1>2, <1>4 DEF Pending
<1>5. CASE Replay(c)
  <2>1. Row(c).answer = Body(c)
      BY <1>0, <1>5 DEF Replay, RecordsAnswer, NoRecord
  <2> QED
      BY <1>2, <1>5, <2>1 DEF Replay
<1> QED
    BY <1>1, <1>3, <1>4, <1>5 DEF Middleware

\* An execution goes on or ends; it changes something at most once.
LEMMA SafeApplication ==
    ASSUME RequestsInv, NEW c \in Clients, Application(c)
    PROVE  OneExecution' /\ RecordsAnswer' /\ RunsLeft' /\ RunsOnce' /\ AnswersOwnRequest'
<1>a. Executes(c)
    BY DEF Application, Authenticate, Execute, Store, Drop, Executes, Executing
<1>b. Row(c) = [body |-> Body(c), answer |-> "pending"]
    BY <1>a, ExecutionPending
<1>c. \A d \in Clients : Executes(d) /\ Scope(d) = Scope(c) => d = c
    BY <1>a DEF RequestsInv, OneExecution
<1>d. /\ record \in [Scopes -> [body : Bodies \cup {"none"}, answer : Bodies \cup {"none", "pending"}]]
      /\ \A d \in Clients : Scope(d) \in Scopes /\ Body(d) \in Bodies
      /\ runs \in [Scopes -> Nat] /\ again \in [Scopes -> Nat]
      /\ DOMAIN request = Clients
    BY DEF RequestsInv, RequestsTypeOK, Scope, Body
<1>e. OneExecution /\ RecordsAnswer /\ RunsLeft /\ RunsOnce /\ AnswersOwnRequest
    BY DEF RequestsInv
<1> USE Words
\* What the steps of an execution have in common.
<1>1. ASSUME NEW pc \in {"execute", "store", "drop", "respond", "send"},
             \/ request' = [request EXCEPT ![c].pc = pc]
             \/ request' = [request EXCEPT ![c].pc = pc, ![c].answer = Body(c)]
      PROVE  /\ \A d \in Clients : Scope(d)' = Scope(d) /\ Body(d)' = Body(d)
             /\ \A d \in Clients \ {c} : request'[d] = request[d]
             /\ request'[c].pc = pc
             /\ AnswersOwnRequest'
  <2>1. CASE request' = [request EXCEPT ![c].pc = pc]
      BY <1>d, <1>e, <2>1 DEF AnswersOwnRequest, Scope, Body
  <2>2. CASE request' = [request EXCEPT ![c].pc = pc, ![c].answer = Body(c)]
      BY <1>d, <1>e, <2>2 DEF AnswersOwnRequest, Scope, Body
  <2> QED
      BY <1>1, <2>1, <2>2
<1>2. CASE Authenticate(c)
  <2>1. PICK pc \in {"execute", "store"} : request' = [request EXCEPT ![c].pc = pc]
      BY <1>2 DEF Authenticate, Goto
  <2>2. request[c].pc = "authenticate" /\ UNCHANGED <<record, runs, again>>
      BY <1>2 DEF Authenticate
  <2>3. OneExecution'
    <3>1. \A d \in Clients : Executes(d)' => Executes(d)
        BY <1>1, <1>a, <2>1 DEF Executes
    <3>2. \A d \in Clients : Row(d)' = Row(d)
        BY <1>1, <2>1, <2>2 DEF Row
    <3> QED
        BY <1>1, <1>e, <2>1, <3>1, <3>2 DEF OneExecution
  <2>4. RunsLeft'
      BY <1>1, <1>e, <2>1, <2>2 DEF RunsLeft
  <2> QED
      BY <1>1, <1>e, <2>1, <2>2, <2>3, <2>4 DEF RecordsAnswer, RunsOnce
<1>3. CASE Execute(c)
  <2>1. PICK pc \in {"store", "drop"} : request' = [request EXCEPT ![c].pc = pc]
      BY <1>3 DEF Execute, Goto
  <2>2. request[c].pc = "execute" /\ UNCHANGED <<record, again>>
      BY <1>3 DEF Execute
  <2>3. runs' \in {runs, [runs EXCEPT ![Scope(c)] = @ + 1]}
      BY <1>3 DEF Execute
  <2>4. OneExecution'
    <3>1. \A d \in Clients : Executes(d)' => Executes(d)
        BY <1>1, <1>a, <2>1 DEF Executes
    <3>2. \A d \in Clients : Row(d)' = Row(d)
        BY <1>1, <2>1, <2>2 DEF Row
    <3> QED
        BY <1>1, <1>e, <2>1, <3>1, <3>2 DEF OneExecution
  <2>5. RunsOnce'
      BY <1>d, <1>e, <2>2, <2>3 DEF RunsOnce, RunsLeft
  <2>6. RunsLeft'
    <3>1. \A s \in Scopes : record[s].body = "none" => s # Scope(c)
        BY <1>b, <1>d DEF Row
    <3>2. \A d \in Clients \ {c} : request[d].pc \in {"authenticate", "execute"} => Scope(d) # Scope(c)
        BY <1>c DEF Executes, Executing
    <3>3. \A s \in Scopes \ {Scope(c)} : runs'[s] = runs[s]
        BY <1>d, <2>3
    <3>4. \A s \in Scopes : record'[s].body = "none" => runs'[s] <= again'[s]
        BY <1>e, <2>2, <3>1, <3>3 DEF RunsLeft
    <3>5. ASSUME NEW d \in Clients, request'[d].pc \in {"authenticate", "execute"}
          PROVE  runs'[Scope(d)'] <= again'[Scope(d)']
      <4>1. d # c /\ request[d].pc \in {"authenticate", "execute"} /\ Scope(d)' = Scope(d)
          BY <1>1, <2>1, <3>5
      <4>2. runs[Scope(d)] <= again[Scope(d)] /\ Scope(d) \in Scopes \ {Scope(c)}
          BY <1>d, <1>e, <3>2, <4>1 DEF RunsLeft
      <4> QED
          BY <2>2, <3>3, <4>1, <4>2
    <3> QED
        BY <3>4, <3>5 DEF RunsLeft
  <2> QED
      BY <1>1, <1>e, <2>1, <2>2, <2>4, <2>5, <2>6 DEF RecordsAnswer
<1>4. CASE Store(c)
  <2>1. request' = [request EXCEPT ![c].pc = "respond", ![c].answer = Body(c)]
      BY <1>4 DEF Store, AnswerWith
  <2>2. /\ record' = [record EXCEPT ![Scope(c)].answer = Body(c)]
        /\ UNCHANGED <<runs, again>>
      BY <1>4, <1>b DEF Store, NoRecord
  <2>3. OneExecution'
    <3>1. \A d \in Clients : Executes(d)' => d # c /\ Executes(d) /\ Scope(d) # Scope(c)
        BY <1>1, <1>c, <2>1 DEF Executes, Executing
    <3>2. \A d \in Clients : Executes(d)' => Row(d)' = Row(d)
        BY <1>1, <1>d, <2>1, <2>2, <3>1 DEF Row
    <3> QED
        BY <1>1, <1>e, <2>1, <3>1, <3>2 DEF OneExecution
  <2>4. RecordsAnswer'
      BY <1>b, <1>d, <1>e, <2>2 DEF RecordsAnswer, Row
  <2>5. RunsLeft' /\ RunsOnce'
    <3>1. \A s \in Scopes : record'[s].body = record[s].body
        BY <1>d, <2>2
    <3> QED
        BY <1>1, <1>d, <1>e, <2>1, <2>2, <3>1 DEF RunsLeft, RunsOnce
  <2> QED
      BY <1>1, <2>1, <2>3, <2>4, <2>5
<1>5. CASE Drop(c)
  <2>1. request' = [request EXCEPT ![c].pc = "send"]
      BY <1>5 DEF Drop, Goto
  <2>2. /\ record' = [record EXCEPT ![Scope(c)] = NoRecord]
        /\ again' = [again EXCEPT ![Scope(c)] = @ + 1] /\ UNCHANGED runs
      BY <1>5 DEF Drop
  <2>3. OneExecution'
    <3>1. \A d \in Clients : Executes(d)' => d # c /\ Executes(d) /\ Scope(d) # Scope(c)
        BY <1>1, <1>c, <2>1 DEF Executes, Executing
    <3>2. \A d \in Clients : Executes(d)' => Row(d)' = Row(d)
        BY <1>1, <1>d, <2>1, <2>2, <3>1 DEF Row
    <3> QED
        BY <1>1, <1>e, <2>1, <3>1, <3>2 DEF OneExecution
  <2>4. RecordsAnswer'
      BY <1>d, <1>e, <2>2 DEF RecordsAnswer, NoRecord
  <2>5. RunsOnce'
      BY <1>d, <1>e, <2>2 DEF RunsOnce
  <2>6. RunsLeft'
    <3>1. \A s \in Scopes : again'[s] >= again[s]
        BY <1>d, <2>2
    <3>2. runs[Scope(c)] <= again'[Scope(c)]
        BY <1>d, <1>e, <2>2 DEF RunsOnce
    <3> QED
        BY <1>1, <1>d, <1>e, <2>1, <2>2, <3>1, <3>2 DEF RunsLeft
  <2> QED
      BY <1>1, <2>1, <2>3, <2>4, <2>5, <2>6
<1> QED
    BY <1>2, <1>3, <1>4, <1>5 DEF Application

\* What happens outside the middleware ends executions, or removes a record
\* that nothing is executed for.
LEMMA SafeWorld ==
    ASSUME RequestsInv,
           \/ \E c \in Clients : Deliver(c) \/ Lose(c)
           \/ Crash
           \/ \E s \in Scopes : PurgeAnswered(s) \/ PurgePending(s)
    PROVE  OneExecution' /\ RecordsAnswer' /\ RunsLeft' /\ RunsOnce' /\ AnswersOwnRequest'
<1>a. OneExecution /\ RecordsAnswer /\ RunsLeft /\ RunsOnce /\ AnswersOwnRequest
    BY DEF RequestsInv
<1>b. /\ record \in [Scopes -> [body : Bodies \cup {"none"}, answer : Bodies \cup {"none", "pending"}]]
      /\ \A d \in Clients : Scope(d) \in Scopes /\ Body(d) \in Bodies
      /\ runs \in [Scopes -> Nat] /\ again \in [Scopes -> Nat]
      /\ DOMAIN request = Clients
    BY DEF RequestsInv, RequestsTypeOK, Scope, Body
<1> DEFINE Quiet ==
       /\ \A d \in Clients : /\ Scope(d)' = Scope(d) /\ Body(d)' = Body(d)
                             /\ Executes(d)' => Executes(d) /\ request'[d].pc = request[d].pc
                             /\ request'[d].answer \in {request[d].answer, "none"}
       /\ UNCHANGED <<record, runs, again>>
<1>1. ASSUME Quiet
      PROVE  OneExecution' /\ RecordsAnswer' /\ RunsLeft' /\ RunsOnce' /\ AnswersOwnRequest'
  <2>1. OneExecution'
      BY <1>1, <1>a DEF OneExecution, Row
  <2>2. RunsLeft'
      BY <1>1, <1>a DEF RunsLeft, Executes, Executing
  <2>3. AnswersOwnRequest'
      BY <1>1, <1>a DEF AnswersOwnRequest
  <2> QED
      BY <1>1, <1>a, <2>1, <2>2, <2>3 DEF RecordsAnswer, RunsOnce
<1>2. ASSUME NEW c \in Clients, Deliver(c) PROVE Quiet
    BY <1>2, <1>b DEF Deliver, Goto, Scope, Body, Executes, Executing
<1>3. ASSUME NEW c \in Clients, Lose(c) PROVE Quiet
    BY <1>3, <1>b DEF Lose, Scope, Body, Executes, Executing
<1>4. ASSUME Crash PROVE Quiet
  <2>1. ASSUME NEW d \in Clients
        PROVE  \/ request'[d] = request[d] /\ request'[d].pc \notin Executing
               \/ request'[d] = [request[d] EXCEPT !.pc = "send", !.answer = "none"]
      BY <1>4 DEF Crash
  <2>2. ASSUME NEW d \in Clients
        PROVE  /\ Scope(d)' = Scope(d) /\ Body(d)' = Body(d)
               /\ Executes(d)' => Executes(d) /\ request'[d].pc = request[d].pc
               /\ request'[d].answer \in {request[d].answer, "none"}
    <3>1. CASE request'[d] = request[d] /\ request'[d].pc \notin Executing
        BY <3>1 DEF Scope, Body, Executes
    <3>2. CASE request'[d] = [request[d] EXCEPT !.pc = "send", !.answer = "none"]
      <4>1. request[d] \in [pc : {"new", "send", "respond", "answered"} \cup Executing,
                            scope : Scopes, body : Bodies, answer : Bodies \cup {"none", "conflict"}]
          BY DEF RequestsInv, RequestsTypeOK
      <4>2. /\ request'[d].pc = "send" /\ request'[d].answer = "none"
            /\ request'[d].scope = request[d].scope /\ request'[d].body = request[d].body
          BY <3>2, <4>1
      <4> QED
          BY <4>2 DEF Scope, Body, Executes, Executing
    <3> QED
        BY <2>1, <3>1, <3>2
  <2> QED
      BY <1>4, <2>2 DEF Crash
<1>5. ASSUME NEW s \in Scopes, RemoveRecord(s)
      PROVE  OneExecution' /\ RecordsAnswer' /\ RunsLeft' /\ RunsOnce' /\ AnswersOwnRequest'
  <2>1. /\ record' = [record EXCEPT ![s] = NoRecord]
        /\ again' = [again EXCEPT ![s] = @ + 1] /\ UNCHANGED <<request, runs>>
        /\ \A c \in Clients : ~Executes(c)
      BY <1>5 DEF RemoveRecord, Executes
  <2>2. OneExecution' /\ AnswersOwnRequest'
      BY <1>a, <2>1 DEF OneExecution, Executes, AnswersOwnRequest, Body
  <2>3. RecordsAnswer'
      BY <1>a, <1>b, <2>1 DEF RecordsAnswer, NoRecord
  <2>4. RunsOnce'
      BY <1>a, <1>b, <2>1 DEF RunsOnce
  <2>5. RunsLeft'
    <3>1. \A c \in Clients : request'[c].pc \notin {"authenticate", "execute"}
        BY <2>1 DEF Executes, Executing
    <3>2. runs[s] <= again'[s]
        BY <1>a, <1>b, <2>1 DEF RunsOnce
    <3>3. \A t \in Scopes \ {s} : again'[t] = again[t] /\ record'[t] = record[t]
        BY <1>b, <2>1
    <3> QED
        BY <1>a, <2>1, <3>1, <3>2, <3>3 DEF RunsLeft
  <2> QED
      BY <2>2, <2>3, <2>4, <2>5
<1> QED
    BY <1>1, <1>2, <1>3, <1>4, <1>5 DEF PurgeAnswered, PurgePending

LEMMA RequestsStep == RequestsInv /\ [RequestsNext]_requestVars => RequestsInv'
<1>1. ASSUME RequestsInv, RequestsNext PROVE RequestsInv'
    BY <1>1, TypeStep, SafeMiddleware, SafeApplication, SafeWorld DEF RequestsInv, RequestsNext
<1>2. ASSUME RequestsInv, UNCHANGED requestVars PROVE RequestsInv'
    BY <1>2 DEF requestVars, RequestsInv, RequestsTypeOK, OneExecution, RecordsAnswer, RunsLeft,
                RunsOnce, AnswersOwnRequest, Executes, Row, Body, Scope
<1> QED
    BY <1>1, <1>2

THEOREM RequestsSafe == RequestsSpec => []RequestsInv
BY InitRequests, RequestsStep, PTL DEF RequestsSpec

-----------------------------------------------------------------------------

\* The types, and that a record has a body and an answer, or neither.
THEOREM RequestsTypeCorrect == RequestsSpec => []RequestsTypeOK
<1>1. RequestsInv => RequestsTypeOK
    BY DEF RequestsInv
<1> QED
    BY <1>1, RequestsSafe, PTL

\* A key is executed once, but for failures and records that were removed,
\* however many clients repeat however many requests.
THEOREM ExecutedOnce == RequestsSpec => []RunsOnce
<1>1. RequestsInv => RunsOnce
    BY DEF RequestsInv
<1> QED
    BY <1>1, RequestsSafe, PTL

\* No client gets the answer to a request that another sent with its key.
THEOREM AnsweredItself == RequestsSpec => []AnswersOwnRequest
<1>1. RequestsInv => AnswersOwnRequest
    BY DEF RequestsInv
<1> QED
    BY <1>1, RequestsSafe, PTL

-----------------------------------------------------------------------------
(* The callback check *)

Open == {d \in Probes : status[d] \notin Terminal}

Closing ==
    /\ check.pc = "close" => Open \subseteq check.left
    /\ check.pc = "settle" => Open \subseteq check.left \cup {check.device}
    /\ verdict # "none" => check.pc = "done"

AtHand ==
    /\ check.pc \in {"ask", "create"} => check.device \in Probed
    /\ check.pc \in {"post", "accept", "settle"} => check.device \in Probes
    /\ check.pc \in {"close", "settle"} => check.left \subseteq Probes

CheckInv == CheckTypeOK /\ AtHand /\ Closing /\ VerdictIsTrue

-----------------------------------------------------------------------------

LEMMA InitCheck == CheckInit => CheckInv
<1> SUFFICES ASSUME CheckInit PROVE CheckInv
    OBVIOUS
<1>1. CheckTypeOK
    BY DEF CheckInit, CheckTypeOK, Probes, Terminal
<1> QED
    BY <1>1 DEF CheckInit, CheckInv, AtHand, Closing, VerdictIsTrue

\* An event leaves closed probes as they are and opens none.
LEMMA EventStep ==
    ASSUME CheckTypeOK, NEW d \in Probes, NEW new \in {"accepted"} \cup Terminal, Event(d, new)
    PROVE  /\ status' \in [Probed -> {"none", "created", "accepted"} \cup Terminal]
           /\ Probes' = Probes
           /\ \A e \in Probed : status[e] \in Terminal => status'[e] = status[e]
           /\ Open' \subseteq Open
           /\ new \in Terminal => d \notin Open'
<1> USE DEF CheckTypeOK, Event, Probes, Open
<1>1. CASE status[d] \in Terminal
    BY <1>1
<1>2. CASE status[d] \notin Terminal
  <2>1. status' = [status EXCEPT ![d] = new] /\ d \in Probed /\ new # "none"
      BY <1>2 DEF Terminal
  <2> QED
      BY <1>2, <2>1
<1> QED
    BY <1>1, <1>2

\* The steps of the CLI that leave the log alone.
LEMMA QuietStep ==
    ASSUME CheckInv, Start \/ Look \/ Ask \/ Post \/ Poll \/ Close \/ TimeIsOver
    PROVE  CheckInv'
<1> USE DEF CheckInv, CheckTypeOK, AtHand, Closing, VerdictIsTrue, At, Go, Open
<1>1. CASE Start
    BY <1>1 DEF Start, Probes
<1>2. CASE Look
  <2>1. CASE over
      BY <1>2, <2>1 DEF Look, Probes
  <2>2. CASE ~over
      BY <1>2, <2>2 DEF Look, Probes
  <2> QED
      BY <2>1, <2>2
<1>3. CASE Ask
    BY <1>3 DEF Ask, Probes
<1>4. CASE Post
    BY <1>4 DEF Post, Probes
<1>5. CASE Poll
    BY <1>5 DEF Poll, Found, Probes
<1>6. CASE Close
  <2>1. CASE check.left = {}
      BY <1>6, <2>1 DEF Close, Probes
  <2>2. CASE check.left # {}
      BY <1>6, <2>2 DEF Close, Probes
  <2> QED
      BY <2>1, <2>2
<1>7. CASE TimeIsOver
    BY <1>7 DEF TimeIsOver, Probes
<1> QED
    BY <1>1, <1>2, <1>3, <1>4, <1>5, <1>6, <1>7

LEMMA LogStep ==
    ASSUME CheckInv, Create \/ Accept \/ CloseProbe \/ Trace \/ RecordCallback
    PROVE  CheckInv'
<1> USE DEF CheckInv, At, Go
<1>1. CASE Create
  <2>1. /\ CheckTypeOK'
        /\ Probes \subseteq Probes' /\ check.device \in Probes'
      BY <1>1 DEF Create, CheckTypeOK, AtHand, Probes
  <2> QED
      BY <1>1, <2>1 DEF Create, CheckTypeOK, AtHand, Closing, VerdictIsTrue
\* What an event into the log leaves true, whatever goes on beside it.
<1>a. ASSUME NEW d \in Probes, NEW new \in {"accepted"} \cup Terminal, Event(d, new),
             UNCHANGED <<sent, received, over, verdict>>,
             check' = check \/ (At("accept") /\ Go("poll")) \/
                 (At("settle") /\ Go("close") /\ d = check.device /\ new \in Terminal),
             handling' \in {handling, NoDevice}
      PROVE  CheckInv'
  <2>1. /\ status' \in [Probed -> {"none", "created", "accepted"} \cup Terminal]
        /\ Probes' = Probes /\ Open' \subseteq Open
        /\ new \in Terminal => d \notin Open'
      BY <1>a, EventStep
  <2>2. /\ check' \in [pc : {"idle", "look", "ask", "create", "post", "accept", "poll", "close", "settle", "done"},
                       device : Probed \cup {NoDevice}, left : SUBSET Probed]
        /\ check'.left = check.left /\ check'.device = check.device
        /\ \/ check'.pc = check.pc
           \/ check'.pc = "poll"
           \/ check.pc = "settle" /\ check'.pc = "close" /\ d = check.device /\ new \in Terminal
      BY <1>a DEF CheckTypeOK
  <2>3. CheckTypeOK'
      BY <1>a, <2>1, <2>2 DEF CheckTypeOK
  <2>4. AtHand'
      BY <2>1, <2>2 DEF AtHand
  <2>5. Closing'
      BY <1>a, <2>1, <2>2 DEF Closing
  <2>6. VerdictIsTrue'
    <3>1. VerdictIsTrue <=> /\ verdict = "success" => received # {}
                            /\ verdict = "timeout" => Open = {}
        BY DEF VerdictIsTrue, Open
    <3>2. (VerdictIsTrue <=> /\ verdict = "success" => received # {}
                             /\ verdict = "timeout" => Open = {})'
        BY DEF VerdictIsTrue, Open
    <3> QED
        BY <1>a, <2>1, <3>1, <3>2
  <2> QED
      BY <2>3, <2>4, <2>5, <2>6
<1>2. CASE Accept
  <2>1. check.device \in Probes /\ Event(check.device, "accepted")
      BY <1>2 DEF Accept, AtHand
  <2> QED
      BY <1>2, <1>a, <2>1 DEF Accept
<1>3. CASE CloseProbe
  <2>1. check.device \in Probes /\ Event(check.device, "timeout") /\ "timeout" \in Terminal
      BY <1>3 DEF CloseProbe, AtHand, Terminal
  <2> QED
      BY <1>3, <1>a, <2>1 DEF CloseProbe
<1>4. CASE Trace
    BY <1>4 DEF Trace, CheckTypeOK, AtHand, Closing, VerdictIsTrue, Probes, Open
<1>5. CASE RecordCallback
  <2>1. PICK result \in {"success", "error"} : Event(handling, result)
      BY <1>5 DEF RecordCallback
  <2>2. handling \in Probes /\ result \in Terminal
      BY <1>5 DEF RecordCallback, CheckTypeOK, Terminal
  <2> QED
      BY <1>5, <1>a, <2>1, <2>2 DEF RecordCallback
<1> QED
    BY <1>1, <1>2, <1>3, <1>4, <1>5

LEMMA CheckStep == CheckInv /\ [CheckNext]_checkVars => CheckInv'
<1>1. ASSUME CheckInv, CheckNext PROVE CheckInv'
    BY <1>1, QuietStep, LogStep DEF CheckNext, CLISteps
<1>2. ASSUME CheckInv, UNCHANGED checkVars PROVE CheckInv'
    BY <1>2 DEF checkVars, CheckInv, CheckTypeOK, AtHand, Closing, VerdictIsTrue, Probes, Open
<1> QED
    BY <1>1, <1>2

THEOREM CheckSafe == CheckSpec => []CheckInv
BY InitCheck, CheckStep, PTL DEF CheckSpec

-----------------------------------------------------------------------------

\* The types, and that callbacks are only ever of probes with an operation.
THEOREM CheckTypeCorrect == CheckSpec => []CheckTypeOK
<1>1. CheckInv => CheckTypeOK
    BY DEF CheckInv
<1> QED
    BY <1>1, CheckSafe, PTL

\* The verdict is true of the log, for any number of devices that are asked
\* any number of times, and whatever callback races the end of the check.
THEOREM VerdictTrue == CheckSpec => []VerdictIsTrue
<1>1. CheckInv => VerdictIsTrue
    BY DEF CheckInv
<1> QED
    BY <1>1, CheckSafe, PTL

\* A probe that is closed stays as it is.
THEOREM ClosedProbesStay == CheckSpec => ProbesStayClosed
<1> DEFINE Stay == \A d \in Probed : status[d] \in Terminal => status'[d] = status[d]
<1>1. CheckInv /\ [CheckNext]_checkVars => [Stay]_checkVars
  <2> SUFFICES ASSUME CheckInv, CheckNext PROVE Stay
      OBVIOUS
  <2>1. CASE Create
      BY <2>1 DEF Create, Terminal, CheckInv, CheckTypeOK
  <2>2. ASSUME NEW d, NEW new, Event(d, new) PROVE Stay
      BY <2>2 DEF Event, CheckInv, CheckTypeOK
  <2>3. CASE UNCHANGED status
      BY <2>3
  <2> QED
      BY <2>1, <2>2, <2>3
         DEF CheckNext, CLISteps, Start, Look, Ask, Post, Accept, Poll, Close, CloseProbe,
             TimeIsOver, Trace, RecordCallback
<1> QED
    BY <1>1, CheckSafe, PTL DEF CheckSpec, ProbesStayClosed

-----------------------------------------------------------------------------
(* The presence of devices *)

\* No device has two probes, and none that waits has one.
PresenceInv ==
    /\ PresenceTypeOK /\ IsFiniteSet(probes) /\ IsFiniteSet(Probing)
    /\ \A p, q \in probes : p[1] = q[1] => p = q

LEMMA FirstIs == \A d, b : <<d, b>>[1] = d
  OBVIOUS

LEMMA BeginProbe ==
    ASSUME PresenceInv, NEW d \in Devices, Probe(d)
    PROVE  PresenceInv'
  <1> DEFINE p == <<d, d \in reachable>>
  <1>0. /\ d \in waiting /\ Cardinality(probes) < Concurrency
        /\ waiting' = waiting \ {d} /\ probes' = probes \cup {p}
        /\ UNCHANGED <<registered, reachable, online, answered>>
        /\ PresenceTypeOK /\ IsFiniteSet(probes) /\ IsFiniteSet(Probing)
        /\ d \notin Probing
    BY DEF Probe, PresenceInv, PresenceTypeOK
  <1>1. p \in Result /\ p[1] = d
    <2>1. PICK b \in BOOLEAN : p = <<d, b>>
      <3>1. (d \in reachable) = TRUE \/ (d \in reachable) = FALSE
        OBVIOUS
      <3> QED
        BY <3>1
    <2> HIDE DEF p
    <2> QED
      BY <2>1, FirstIs DEF Result
  <1> HIDE DEF p
  <1>2. Probing' = Probing \cup {d}
    BY <1>0, <1>1 DEF Probing
  <1>3. p \notin probes
    BY <1>0, <1>1 DEF Probing
  <1>4. /\ IsFiniteSet(probes') /\ Cardinality(probes') = Cardinality(probes) + 1
        /\ IsFiniteSet(Probing') /\ Cardinality(Probing') = Cardinality(Probing) + 1
    BY <1>0, <1>2, <1>3, FS_AddElement
  <1>5. Cardinality(probes) \in Nat /\ Cardinality(Probing) = Cardinality(probes)
    BY <1>0, FS_CardinalityType DEF PresenceTypeOK
  <1>6. Cardinality(probes') <= Concurrency /\ Cardinality(probes') = Cardinality(Probing')
    BY <1>0, <1>4, <1>5, PresenceAssumption
  <1>7. \A q, r \in probes' : q[1] = r[1] => q = r
    <2>1. \A q \in probes : q[1] # d
      BY <1>0 DEF Probing
    <2> QED
      BY <1>0, <1>1, <2>1 DEF PresenceInv
  <1> QED
    BY <1>0, <1>1, <1>2, <1>4, <1>6, <1>7 DEF PresenceInv, PresenceTypeOK

LEMMA RecordProbe ==
    ASSUME PresenceInv, NEW d \in Devices, Record(d)
    PROVE  PresenceInv'
  <1>1. PICK answer \in BOOLEAN :
           /\ <<d, answer>> \in probes
           /\ probes' = probes \ {<<d, answer>>}
           /\ online' \in SUBSET (online \cup {d})
           /\ UNCHANGED <<registered, reachable, waiting, answered>>
    BY DEF Record
  <1>2. PICK p : p = <<d, answer>> /\ p[1] = d
    BY FirstIs
  <1>3. /\ PresenceTypeOK /\ IsFiniteSet(probes) /\ IsFiniteSet(Probing)
        /\ \A q, r \in probes : q[1] = r[1] => q = r
    BY DEF PresenceInv
  <1>4. d \in Probing /\ Probing' = Probing \ {d}
    BY <1>1, <1>2, <1>3 DEF Probing
  <1>5. /\ IsFiniteSet(probes') /\ Cardinality(probes') = Cardinality(probes) - 1
        /\ IsFiniteSet(Probing') /\ Cardinality(Probing') = Cardinality(Probing) - 1
    BY <1>1, <1>3, <1>4, FS_RemoveElement
  <1>6. Cardinality(probes) \in Nat /\ Cardinality(Probing) = Cardinality(probes)
        /\ Cardinality(probes) <= Concurrency
    BY <1>3, FS_CardinalityType DEF PresenceTypeOK
  <1>7. Cardinality(probes') <= Concurrency /\ Cardinality(probes') = Cardinality(Probing')
    BY <1>5, <1>6, PresenceAssumption
  <1> QED
    BY <1>1, <1>3, <1>4, <1>5, <1>7 DEF PresenceInv, PresenceTypeOK

\* DevicePresenceMonitor holds no more probes than its semaphore admits, no
\* device has two, and none that waits its turn has one.
THEOREM PresenceTypeCorrect == PresenceSpec => []PresenceTypeOK
  <1>1. PresenceInit => PresenceInv
    <2> SUFFICES ASSUME PresenceInit PROVE PresenceInv
      OBVIOUS
    <2>1. probes = {} /\ Probing = {}
      BY DEF PresenceInit, Probing
    <2>2. IsFiniteSet({}) /\ Cardinality({}) = 0
      BY FS_EmptySet
    <2> QED
      BY <2>1, <2>2, PresenceAssumption DEF PresenceInit, PresenceInv, PresenceTypeOK
  <1>2. PresenceInv /\ [PresenceNext]_presenceVars => PresenceInv'
    <2> SUFFICES ASSUME PresenceInv, [PresenceNext]_presenceVars PROVE PresenceInv'
      OBVIOUS
    <2>1. CASE UNCHANGED probes
      <3>1. Probing' = Probing
        BY <2>1 DEF Probing
      <3>2. CASE UNCHANGED presenceVars
        BY <3>1, <3>2 DEF presenceVars, PresenceInv, PresenceTypeOK
      <3>3. CASE BeginCycle
        <4>1. Probing = {}
          BY <3>3 DEF BeginCycle, CycleOver, Probing
        <4> QED
          BY <2>1, <3>1, <3>3, <4>1 DEF BeginCycle, PresenceInv, PresenceTypeOK
      <3>4. ASSUME NEW d \in Devices, RegisterOrRemove(d) \/ WakeOrSleep(d) \/ Refreshed(d) \/ MarkOnline(d)
            PROVE  PresenceInv'
        BY <3>1, <3>4
           DEF RegisterOrRemove, WakeOrSleep, Refreshed, MarkOnline, PresenceInv, PresenceTypeOK
      <3>5. CASE Restart
        <4>1. probes = {}
          BY <2>1, <3>5 DEF Restart
        <4> QED
          BY <2>1, <3>1, <3>5 DEF Restart, PresenceInv, PresenceTypeOK
      <3>6. ASSUME NEW d \in Devices, Probe(d) PROVE PresenceInv'
        BY <3>6, BeginProbe
      <3>7. ASSUME NEW d \in Devices, Record(d) PROVE PresenceInv'
        BY <3>7, RecordProbe
      <3> QED
        BY <3>2, <3>3, <3>4, <3>5, <3>6, <3>7 DEF PresenceNext
    <2>2. CASE Restart
      <3>1. probes' = {} /\ Probing' = {} /\ waiting' = {} /\ online' = {} /\ answered' = {}
            /\ UNCHANGED <<registered, reachable>>
        BY <2>2 DEF Restart, Probing
      <3>2. IsFiniteSet({}) /\ Cardinality({}) = 0
        BY FS_EmptySet
      <3> QED
        BY <3>1, <3>2, PresenceAssumption DEF PresenceInv, PresenceTypeOK
    <2>3. ASSUME NEW d \in Devices, Probe(d) \/ Record(d) PROVE PresenceInv'
      BY <2>3, BeginProbe, RecordProbe
    <2>4. BeginCycle \/ (\E d \in Devices : RegisterOrRemove(d) \/ WakeOrSleep(d) \/ Refreshed(d) \/ MarkOnline(d))
          => UNCHANGED probes
      BY DEF BeginCycle, RegisterOrRemove, WakeOrSleep, Refreshed, MarkOnline
    <2> QED
      BY <2>1, <2>2, <2>3, <2>4 DEF PresenceNext, presenceVars
  <1>3. PresenceInv => PresenceTypeOK
    BY DEF PresenceInv
  <1> QED
    BY <1>1, <1>2, <1>3, PTL DEF PresenceSpec

-----------------------------------------------------------------------------
(* In MCServices one of the components runs and the others rest, so each of *)
(* them runs as its own specification says, and keeps its own invariants.   *)

\* A step of the four is a step of one of them, and the others stutter.
LEMMA ServicesTakeTurns ==
  ASSUME [ServicesNext]_servicesVars
  PROVE  /\ [StateNext]_stateVars /\ [PresenceNext]_presenceVars
         /\ [RequestsNext]_requestVars /\ [CheckNext]_checkVars
BY DEF ServicesNext, servicesVars

\* MCServices: what it runs of device_state, the supervisor's presence loop, the
\* idempotency of public requests and the CLI's callback check is each of the
\* four components, with nothing added to what it may do.
THEOREM ServicesRunComponents ==
    ServicesSpec => StateSpec /\ PresenceSpec /\ RequestsSpec /\ CheckSpec
<1>1. ServicesInit => StateInit /\ PresenceInit /\ RequestsInit /\ CheckInit
  BY DEF ServicesInit
<1>2. [ServicesNext]_servicesVars => /\ [StateNext]_stateVars /\ [PresenceNext]_presenceVars
                                    /\ [RequestsNext]_requestVars /\ [CheckNext]_checkVars
  BY ServicesTakeTurns
<1> QED
  BY <1>1, <1>2, PTL DEF ServicesSpec, StateSpec, PresenceSpec, RequestsSpec, CheckSpec

\* ServicesTypeOK: the types and bounds of the four components hold together in
\* every state of MCServices, for any devices, clients, fetchers and bounds.
THEOREM ServicesTypeCorrect == ServicesSpec => []ServicesTypeOK
<1>1. StateTypeOK /\ PresenceTypeOK /\ RequestsTypeOK /\ CheckTypeOK => ServicesTypeOK
  BY DEF ServicesTypeOK
<1> QED
  BY <1>1, ServicesRunComponents, StateTypeCorrect, PresenceTypeCorrect,
     RequestsTypeCorrect, CheckTypeCorrect, PTL
=============================================================================
