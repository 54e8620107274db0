---------------------------- MODULE DevicePresence -----------------------------
(***************************************************************************)
(* Who is reachable, as the API process shows it: DevicePresenceMonitor    *)
(* lists the devices, probes them side by side, at most Concurrency at a   *)
(* time, records each result in DevicePresenceRegistry, and begins again   *)
(* when all have been recorded.  A request refresh-card that a device has  *)
(* answered marks it as online too, whatever the monitor found meanwhile.  *)
(***************************************************************************)
EXTENDS Naturals, FiniteSets

CONSTANTS
    Devices,
    Concurrency     \* probes at a time

ASSUME PresenceAssumption == Concurrency \in Nat \ {0}

VARIABLES
    registered,   \* the devices of the registry
    reachable,    \* the devices that answer
    online,       \* the devices that DevicePresenceRegistry shows as online
    waiting,      \* of the monitor's cycle: devices whose probe waits its turn
    probes,       \* ... and the probes whose result is not yet recorded
    answered      \* devices that answered a refresh which has not marked them

presenceVars == <<registered, reachable, online, waiting, probes, answered>>

\* No device has two probes: a result is a pair of the device and what it did.
Result == Devices \X BOOLEAN
Probing == {p[1] : p \in probes}

PresenceTypeOK ==
    /\ registered \subseteq Devices /\ reachable \subseteq Devices
    /\ online \subseteq Devices /\ answered \subseteq Devices
    /\ probes \subseteq Result
    /\ waiting \subseteq Devices \ Probing
    /\ Cardinality(probes) = Cardinality(Probing)
    /\ Cardinality(probes) <= Concurrency

PresenceInit ==
    /\ registered = {} /\ reachable = {} /\ online = {}
    /\ waiting = {} /\ probes = {} /\ answered = {}

\* The registry, and the devices themselves.
RegisterOrRemove(d) ==
    /\ registered' \in {registered \cup {d}, registered \ {d}}
    /\ UNCHANGED <<reachable, online, waiting, probes, answered>>

WakeOrSleep(d) ==
    /\ reachable' \in {reachable \cup {d}, reachable \ {d}}
    /\ UNCHANGED <<registered, online, waiting, probes, answered>>

-----------------------------------------------------------------------------
(* The monitor: run and _probe_device. *)

CycleOver == waiting = {} /\ probes = {}

\* Mutant: a cycle begins before the last one has been recorded.
BeginEarly ==
    /\ waiting = {}
    /\ waiting' = registered
    /\ UNCHANGED <<registered, reachable, online, probes, answered>>

BeginCycle ==
    /\ CycleOver
    /\ waiting' = registered
    /\ UNCHANGED <<registered, reachable, online, probes, answered>>

\* GET /healthz inside the semaphore.
Probe(d) ==
    /\ d \in waiting /\ Cardinality(probes) < Concurrency
    /\ waiting' = waiting \ {d}
    /\ probes' = probes \cup {<<d, d \in reachable>>}
    /\ UNCHANGED <<registered, reachable, online, answered>>

\* Mutant: a failed probe leaves the last state.
RecordSuccess(d) ==
    \E answer \in BOOLEAN :
       /\ <<d, answer>> \in probes
       /\ probes' = probes \ {<<d, answer>>}
       /\ online' = IF answer THEN online \cup {d} ELSE online
       /\ UNCHANGED <<registered, reachable, waiting, answered>>

\* mark_online or mark_offline
Record(d) ==
    \E answer \in BOOLEAN :
       /\ <<d, answer>> \in probes
       /\ probes' = probes \ {<<d, answer>>}
       /\ online' = IF answer THEN online \cup {d} ELSE online \ {d}
       /\ UNCHANGED <<registered, reachable, waiting, answered>>

\* The API process restarts: the registry was its own.
Restart ==
    /\ online' = {} /\ waiting' = {} /\ probes' = {} /\ answered' = {}
    /\ UNCHANGED <<registered, reachable>>

-----------------------------------------------------------------------------
(* refresh-card: execute_action, around request_device_status_snapshot. *)

Refreshed(d) ==
    /\ d \in registered \cap reachable
    /\ answered' = answered \cup {d}
    /\ UNCHANGED <<registered, reachable, online, waiting, probes>>

MarkOnline(d) ==
    /\ d \in answered
    /\ answered' = answered \ {d}
    /\ online' = online \cup {d}
    /\ UNCHANGED <<registered, reachable, waiting, probes>>

PresenceNext ==
    \/ BeginCycle \/ Restart
    \/ \E d \in Devices : \/ RegisterOrRemove(d) \/ WakeOrSleep(d)
                          \/ Probe(d) \/ Record(d) \/ Refreshed(d) \/ MarkOnline(d)

PresenceSpec == PresenceInit /\ [][PresenceNext]_presenceVars

\* What is shown follows a registered device once it stays reachable, or
\* unreachable, although other probes share the semaphore, refresh-card marks
\* devices late and the process may restart now and then (presence.py:81-108).
PresenceFollows ==
    \A d \in Devices :
       /\ <>[](d \in registered \cap reachable) => <>[](d \in online) \/ []<><<Restart>>_presenceVars
       /\ <>[](d \in registered \ reachable) => <>[](d \notin online)
=============================================================================
