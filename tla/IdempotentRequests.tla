--------------------------- MODULE IdempotentRequests --------------------------
(***************************************************************************)
(* Requests that change a device and carry an idempotency key.             *)
(* IdempotencyMiddleware writes a pending record before the request is     *)
(* authenticated and executed, and the answer after it; the same request   *)
(* repeated meanwhile or later finds the record.  Clients repeat what was  *)
(* not answered, answers get lost, executions fail, and the process may    *)
(* die at any point, whereupon a record is left pending for a day.         *)
(***************************************************************************)
EXTENDS Naturals, FiniteSets

CONSTANTS
    Scopes,         \* pairs of an Authorization header and an idempotency key
    Bodies,         \* what a request asks for: method, path and body
    Clients,        \* each has one request, which it repeats until it is answered
    MaxFailures,    \* bounds: executions that end with 5xx or an exception,
    MaxCrashes,     \* deaths of the process,
    MaxPurges       \* answered records that are a day old

ASSUME RequestsAssumption ==
    /\ {MaxFailures, MaxCrashes, MaxPurges} \subseteq Nat
    /\ Bodies \cap {"none", "pending", "conflict"} = {}
    /\ Scopes # {} /\ Bodies # {}

VARIABLES
    record,     \* [Scopes -> the row of idempotency_records: body and answer]
    request,    \* [Clients -> next step, scope, body, answer]
    runs,       \* history: [Scopes -> executions that changed something]
    again,      \* history: [Scopes -> failures and removals of the record]
    faults      \* the bounded events so far

requestVars == <<record, request, runs, again, faults>>

NoRecord == [body |-> "none", answer |-> "none"]
Executing == {"authenticate", "execute", "store", "drop"}

\* Types; and a record has a body and an answer, or neither.
\* An answer below 500 is named by the body of the request that it answers.
RequestsTypeOK ==
    /\ record \in [Scopes -> [body : Bodies \cup {"none"}, answer : Bodies \cup {"none", "pending"}]]
    /\ request \in [Clients -> [pc : {"new", "send", "respond", "answered"} \cup Executing,
                                scope : Scopes, body : Bodies,
                                answer : Bodies \cup {"none", "conflict"}]]
    /\ runs \in [Scopes -> Nat] /\ again \in [Scopes -> Nat]
    /\ faults \in [failures : 0..MaxFailures, crashes : 0..MaxCrashes, purges : 0..MaxPurges]
    /\ \A s \in Scopes : record[s].body = "none" <=> record[s].answer = "none"

RequestsInit ==
    /\ record = [s \in Scopes |-> NoRecord]
    /\ request \in [Clients -> [pc : {"new"}, scope : Scopes, body : Bodies, answer : {"none"}]]
    /\ runs = [s \in Scopes |-> 0] /\ again = [s \in Scopes |-> 0]
    /\ faults = [failures |-> 0, crashes |-> 0, purges |-> 0]

Scope(c) == request[c].scope
Body(c) == request[c].body
Row(c) == record[Scope(c)]
Goto(c, pc) == request' = [request EXCEPT ![c].pc = pc]
AnswerWith(c, answer) == request' = [request EXCEPT ![c].pc = "respond", ![c].answer = answer]

-----------------------------------------------------------------------------
(* __call__ up to the execution: one step, under the lock. *)

Sending(c) == request[c].pc \in {"new", "send"}

\* state "new"
Begin(c) ==
    /\ Sending(c) /\ Row(c) = NoRecord
    /\ record' = [record EXCEPT ![Scope(c)] = [body |-> Body(c), answer |-> "pending"]]
    /\ Goto(c, "authenticate")
    /\ UNCHANGED <<runs, again, faults>>

\* state "conflict": the key was used for another request.
Conflict(c) ==
    /\ Sending(c) /\ Row(c) # NoRecord /\ Row(c).body # Body(c)
    /\ AnswerWith(c, "conflict")
    /\ UNCHANGED <<record, runs, again, faults>>

\* Mutant: a pending record is taken for one that a crash has left.
TakeOver(c) ==
    /\ Sending(c) /\ Row(c) = [body |-> Body(c), answer |-> "pending"]
    /\ Goto(c, "authenticate")
    /\ UNCHANGED <<record, runs, again, faults>>

\* state "pending": 409, and the client will repeat it.
Pending(c) ==
    /\ Sending(c) /\ Row(c) = [body |-> Body(c), answer |-> "pending"]
    /\ Goto(c, "send")
    /\ UNCHANGED <<record, runs, again, faults>>

\* state "replay"
Replay(c) ==
    /\ Sending(c) /\ Row(c) = [body |-> Body(c), answer |-> Row(c).answer]
    /\ Row(c).answer # "pending"
    /\ AnswerWith(c, Row(c).answer)
    /\ UNCHANGED <<record, runs, again, faults>>

-----------------------------------------------------------------------------
(* The application below the middleware. *)

\* authenticated_session; its 401 is an answer like another.
Authenticate(c) ==
    /\ request[c].pc = "authenticate"
    /\ Goto(c, "execute") \/ Goto(c, "store")
    /\ UNCHANGED <<record, runs, again, faults>>

\* execute_action does it, or refuses it with a 4xx; or it fails, perhaps half
\* way: an operation may be queued when the card cannot be made.
Execute(c) ==
    /\ request[c].pc = "execute"
    /\ runs' \in {runs, [runs EXCEPT ![Scope(c)] = @ + 1]}
    /\ \/ Goto(c, "store") /\ UNCHANGED faults
       \/ /\ faults.failures < MaxFailures
          /\ faults' = [faults EXCEPT !.failures = @ + 1]
          /\ Goto(c, "drop")
    /\ UNCHANGED <<record, again>>

-----------------------------------------------------------------------------
(* __call__ after the execution. *)

\* Status below 500: the answer is kept in the record, if that is still there.
Store(c) ==
    /\ request[c].pc = "store"
    /\ record' = IF Row(c) = NoRecord THEN record
                 ELSE [record EXCEPT ![Scope(c)].answer = Body(c)]
    /\ AnswerWith(c, Body(c))
    /\ UNCHANGED <<runs, again, faults>>

\* _delete: the client may repeat what failed.
Drop(c) ==
    /\ request[c].pc = "drop"
    /\ record' = [record EXCEPT ![Scope(c)] = NoRecord]
    /\ again' = [again EXCEPT ![Scope(c)] = @ + 1]
    /\ Goto(c, "send")
    /\ UNCHANGED <<runs, faults>>

\* The answer reaches the client, or gets lost.
Deliver(c) ==
    /\ request[c].pc = "respond"
    /\ Goto(c, "answered")
    /\ UNCHANGED <<record, runs, again, faults>>

Lose(c) ==
    /\ request[c].pc = "respond"
    /\ request' = [request EXCEPT ![c].pc = "send", ![c].answer = "none"]
    /\ UNCHANGED <<record, runs, again, faults>>

\* The process dies, and with it what it was executing.
Crash ==
    /\ faults.crashes < MaxCrashes
    /\ faults' = [faults EXCEPT !.crashes = @ + 1]
    /\ request' = [c \in Clients |-> IF request[c].pc \in Executing \cup {"respond"}
                                     THEN [request[c] EXCEPT !.pc = "send", !.answer = "none"]
                                     ELSE request[c]]
    /\ UNCHANGED <<record, runs, again>>

RemoveRecord(s) ==
    /\ \A c \in Clients : request[c].pc \notin Executing
    /\ record' = [record EXCEPT ![s] = NoRecord]
    /\ again' = [again EXCEPT ![s] = @ + 1]
    /\ UNCHANGED <<request, runs>>

\* The next request removes the records a day old; none is executed for a day.
PurgeAnswered(s) ==
    /\ record[s].answer \in Bodies /\ faults.purges < MaxPurges
    /\ faults' = [faults EXCEPT !.purges = @ + 1]
    /\ RemoveRecord(s)

PurgePending(s) == record[s].answer = "pending" /\ RemoveRecord(s) /\ UNCHANGED faults

-----------------------------------------------------------------------------

Middleware(c) == Begin(c) \/ Conflict(c) \/ Pending(c) \/ Replay(c)
Application(c) == Authenticate(c) \/ Execute(c) \/ Store(c) \/ Drop(c)

RequestsNext ==
    \/ \E c \in Clients : Middleware(c) \/ Application(c) \/ Deliver(c) \/ Lose(c)
    \/ Crash
    \/ \E s \in Scopes : PurgeAnswered(s) \/ PurgePending(s)

RequestsSpec == RequestsInit /\ [][RequestsNext]_requestVars

-----------------------------------------------------------------------------
(* Properties. *)

\* A request is executed once, however often and whenever it is repeated, while
\* it is executed or after a crash, but for one that failed or is a day old
\* (idempotency.py:64-95).
RunsOnce == \A s \in Scopes : runs[s] <= 1 + again[s]

\* A repeated request gets the answer to itself, of no other sent with its key.
AnswersOwnRequest ==
    \A c \in Clients : request[c].answer \in {"none", "conflict", Body(c)}

\* A client that repeats its request is answered in the end, whatever failed,
\* got lost or was left pending by a crash.
AnsweredEventually ==
    \A c \in Clients : request[c].pc # "new" ~> request[c].pc = "answered"
=============================================================================
