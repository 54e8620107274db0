------------------------------ MODULE DeviceState ------------------------------
(***************************************************************************)
(* One device's settings as the backend knows them:                        *)
(*   the controller takes a configuration and posts a callback, which the  *)
(*   callback node commits as a success; the confirmed values reach the    *)
(*   registry in a transaction of their own;                               *)
(*   the snapshotter and refresh-card fetch /watering, save the answer in  *)
(*   device_snapshots, then write its settings to the registry;            *)
(*   card requests read the snapshot, then the confirmed patches newer     *)
(*   than it, then DeviceRuntimeState, the cache of their combination.     *)
(* Nothing holds a lock across these steps.                                *)
(*                                                                         *)
(* One setting stands for all.  A value of it is named by its version: the *)
(* number of configurations the controller had taken when it was set.  The *)
(* time stamps that the code compares are named by the last confirmation   *)
(* stamped before them: callbacks are posted, received and stamped in the  *)
(* order of their versions.                                                *)
(***************************************************************************)
EXTENDS Naturals, Sequences, FiniteSets

CONSTANTS
    MaxVersion,     \* bound: configurations the controller takes
    Fetchers,       \* the snapshotter and the requests refresh-card
    Snapshotter,    \* the fetcher that repeats
    Readers         \* requests for cards and blocks

ASSUME StateAssumption == MaxVersion \in Nat /\ Snapshotter \in Fetchers

VARIABLES
    mcu,        \* version of the setting in the controller
    callbacks,  \* successes posted and not yet received, oldest first
    node,       \* the callback node: next step and version at hand
    stamped,    \* the last version whose confirmation got a time stamp
    done,       \* versions whose operation is committed as successful
    stored,     \* the row of device_snapshots: value and time stamp
    settings,   \* the row of device_watering_settings
    fetch,      \* what each fetcher holds
    cache,      \* DeviceRuntimeState: revision (snapshot, last patch) and value
    read,       \* what each reader holds
    raced,      \* history: versions stamped while an older answer was unstamped
    settled     \* history: versions written to the registry that no fetch overlapped

snapshots == <<stored, settings>>
stateVars == <<mcu, callbacks, node, stamped, done, snapshots, fetch, cache,
               read, raced, settled>>

Version == 0..MaxVersion
Snapshot == [value : Version, after : Version]   \* after: stamped before received_at
First == [value |-> 0, after |-> 0]

Greatest(S) == CHOOSE v \in S \cup {0} : \A w \in S : w <= v

\* The last confirmed patch newer than a snapshot, 0 if there is none.
LastPatch(s) == Greatest({v \in done : v > s.after})
Combined(s, last) == IF last = 0 THEN s.value ELSE last

NoFetch == [pc |-> "idle", value |-> 0, after |-> 0]
NoRead == [pc |-> "idle", snap |-> First, last |-> 0, result |-> 0, floor |-> 0]

\* Types; what is stored and confirmed was once in the controller, and
\* confirmations are stamped in the order of their versions.
StateTypeOK ==
    /\ mcu \in Version
    /\ callbacks \in Seq(Version)
    /\ node \in [pc : {"idle", "commit", "registry"}, version : Version]
    /\ stamped \in Version /\ done \subseteq Version
    /\ stored \in Snapshot /\ settings \in Version
    /\ fetch \in [Fetchers -> [pc : {"idle", "stamp", "save", "confirm"},
                               value : Version, after : Version]]
    /\ cache \in [snap : Snapshot, last : Version, value : Version]
    /\ read \in [Readers -> [pc : {"idle", "patches", "cache", "recover", "done"},
                             snap : Snapshot, last : Version,
                             result : Version, floor : Version]]
    /\ raced \subseteq Version /\ settled \subseteq Version
    /\ \A v \in done \cup {stored.value, stored.after, settings, stamped} : v <= mcu
    /\ \A v \in done : v <= stamped

\* A device that was discovered: its first snapshot and settings are stored.
StateInit ==
    /\ mcu = 0 /\ callbacks = <<>>
    /\ node = [pc |-> "idle", version |-> 0]
    /\ stamped = 0 /\ done = {}
    /\ stored = First /\ settings = 0
    /\ fetch = [f \in Fetchers |-> NoFetch]
    /\ cache = [snap |-> First, last |-> 0, value |-> 0]
    /\ read = [r \in Readers |-> NoRead]
    /\ raced = {} /\ settled = {}

-----------------------------------------------------------------------------
(* The controller, as the backend meets it. *)

\* A configuration arrives and is applied; its callback may get lost.
Apply ==
    /\ mcu < MaxVersion
    /\ mcu' = mcu + 1
    /\ callbacks' \in {callbacks, Append(callbacks, mcu')}
    /\ UNCHANGED <<node, stamped, done, snapshots, fetch, cache, read, raced, settled>>

-----------------------------------------------------------------------------
(* The callback node: OperationLog.event, one callback at a time. *)

\* event: the time stamp, before the transaction.
Receive ==
    /\ node.pc = "idle" /\ callbacks # <<>>
    /\ node' = [pc |-> "commit", version |-> Head(callbacks)]
    /\ callbacks' = Tail(callbacks)
    /\ stamped' = Head(callbacks)
    /\ raced' = IF \E f \in Fetchers : fetch[f].pc = "stamp" /\ fetch[f].value < Head(callbacks)
                THEN raced \cup {Head(callbacks)} ELSE raced
    /\ UNCHANGED <<mcu, done, snapshots, fetch, cache, read, settled>>

Commit ==
    /\ node.pc = "commit"
    /\ done' = done \cup {node.version}
    /\ node' = [node EXCEPT !.pc = "registry"]
    /\ UNCHANGED <<mcu, callbacks, stamped, snapshots, fetch, cache, read, raced, settled>>

Settle ==
    settled' = IF \A f \in Fetchers : fetch[f].pc = "idle" \/ fetch[f].value >= node.version
               THEN settled \cup {node.version} ELSE settled

\* Mutant: settings that are already known are left alone.
ConfirmKeepsKnown ==
    /\ node.pc = "registry"
    /\ settings' = IF settings = 0 THEN node.version ELSE settings
    /\ node' = [node EXCEPT !.pc = "idle"]
    /\ Settle
    /\ UNCHANGED <<mcu, callbacks, stamped, done, stored, fetch, cache, read, raced>>

\* confirm_watering_settings of the callback's operation.
ConfirmOperation ==
    /\ node.pc = "registry"
    /\ settings' = node.version
    /\ node' = [node EXCEPT !.pc = "idle"]
    /\ Settle
    /\ UNCHANGED <<mcu, callbacks, stamped, done, stored, fetch, cache, read, raced>>

\* The callback node dies with a callback at hand, which is not posted again.
NodeCrash ==
    /\ node.pc # "idle"
    /\ node' = [node EXCEPT !.pc = "idle"]
    /\ UNCHANGED <<mcu, callbacks, stamped, done, snapshots, fetch, cache, read,
                   raced, settled>>

-----------------------------------------------------------------------------
(* request_device_status_snapshot: the snapshotter, and refresh-card. *)

\* GET /watering is answered; when it is not, for the controller sleeps or is
\* gone, nothing changes.
Fetch(f) ==
    /\ fetch[f].pc = "idle"
    /\ fetch' = [fetch EXCEPT ![f] = [pc |-> "stamp", value |-> mcu, after |-> 0]]
    /\ UNCHANGED <<mcu, callbacks, node, stamped, done, snapshots, cache, read,
                   raced, settled>>

\* DeviceSnapshotStore.save: the time stamp, before the transaction ...
Stamp(f) ==
    /\ fetch[f].pc = "stamp"
    /\ fetch' = [fetch EXCEPT ![f].pc = "save", ![f].after = stamped]
    /\ UNCHANGED <<mcu, callbacks, node, stamped, done, snapshots, cache, read,
                   raced, settled>>

\* ... which replaces the row, be it older or newer.
Save(f) ==
    /\ fetch[f].pc = "save"
    /\ stored' = [value |-> fetch[f].value, after |-> fetch[f].after]
    /\ fetch' = [fetch EXCEPT ![f] = [NoFetch EXCEPT !.pc = "confirm", !.value = fetch[f].value]]
    /\ UNCHANGED <<mcu, callbacks, node, stamped, done, settings, cache, read,
                   raced, settled>>

\* Mutant: a snapshot only fills in settings that are not known.
ConfirmFetchedOnce(f) ==
    /\ fetch[f].pc = "confirm"
    /\ settings' = IF settings = 0 THEN fetch[f].value ELSE settings
    /\ fetch' = [fetch EXCEPT ![f] = NoFetch]
    /\ UNCHANGED <<mcu, callbacks, node, stamped, done, stored, cache, read,
                   raced, settled>>

\* confirm_watering_settings of the answer.
ConfirmFetched(f) ==
    /\ fetch[f].pc = "confirm"
    /\ settings' = fetch[f].value
    /\ fetch' = [fetch EXCEPT ![f] = NoFetch]
    /\ UNCHANGED <<mcu, callbacks, node, stamped, done, stored, cache, read,
                   raced, settled>>

-----------------------------------------------------------------------------
(* project_snapshot_device_state: a request for a card or a block. *)

ReadStep(r, new) ==
    /\ read' = [read EXCEPT ![r] = new]
    /\ UNCHANGED <<mcu, callbacks, node, stamped, done, snapshots, fetch, raced, settled>>

\* latest; floor remembers what had been confirmed by then.
ReadSnapshot(r) ==
    /\ read[r].pc = "idle"
    /\ ReadStep(r, [NoRead EXCEPT !.pc = "patches", !.snap = stored,
                                  !.floor = Greatest(done \ raced)])
    /\ UNCHANGED cache

\* confirmed_snapshot_patches_since
ReadPatches(r) ==
    /\ read[r].pc = "patches"
    /\ ReadStep(r, [read[r] EXCEPT !.pc = "cache", !.last = LastPatch(read[r].snap)])
    /\ UNCHANGED cache

Answer(r, value) ==
    [NoRead EXCEPT !.pc = "done", !.result = value, !.floor = read[r].floor]

\* Mutant: the revision is the snapshot's time stamp alone.
HitsBySnapshot(r) == cache.snap = read[r].snap

\* The revision: received_at and the last patch's operation id.
Hits(r) == cache.snap = read[r].snap /\ cache.last = read[r].last

\* DeviceRuntimeState.read
ReadCache(r) ==
    /\ read[r].pc = "cache"
    /\ ReadStep(r, IF Hits(r) THEN Answer(r, cache.value)
                   ELSE [read[r] EXCEPT !.pc = "recover"])
    /\ UNCHANGED cache

\* ... and update_from_snapshot, after apply_callback_patches.
Recover(r) ==
    LET value == Combined(read[r].snap, read[r].last) IN
    /\ read[r].pc = "recover"
    /\ cache' = [snap |-> read[r].snap, last |-> read[r].last, value |-> value]
    /\ ReadStep(r, Answer(r, value))

Respond(r) ==
    /\ read[r].pc = "done"
    /\ ReadStep(r, NoRead)
    /\ UNCHANGED cache

-----------------------------------------------------------------------------

FetchProgress(f) == Stamp(f) \/ Save(f) \/ ConfirmFetched(f)
NodeProgress == Receive \/ Commit \/ ConfirmOperation

StateNext ==
    \/ Apply
    \/ NodeProgress \/ NodeCrash
    \/ \E f \in Fetchers : Fetch(f) \/ FetchProgress(f)
    \/ \E r \in Readers : \/ ReadSnapshot(r) \/ ReadPatches(r) \/ ReadCache(r)
                          \/ Recover(r) \/ Respond(r)

StateSpec == StateInit /\ [][StateNext]_stateVars

-----------------------------------------------------------------------------
(* Properties. *)

\* A card never shows an older setting than one confirmed before the request
\* read the snapshot, whatever the cache held and whichever snapshot, patch or
\* other request came in between (service.py:36-63, 139-166); except a
\* confirmation stamped between an older answer and that answer's own stamp.
ReadsAreCurrent ==
    \A r \in Readers : read[r].pc = "done" => read[r].result >= read[r].floor

\* A confirmed setting stays in the registry, unless an older answer was being
\* handled when it was written (service.py:271-279 writes what it fetched).
ConfirmedIsSettled == \A v \in settled : settings >= v

\* What a lost callback, a crash or a race left behind is repaired by the next
\* snapshots, if the controller can be reached again and again.
Repaired == Combined(stored, LastPatch(stored)) = mcu /\ settings = mcu
SnapshotsRepair == []<><<Fetch(Snapshotter)>>_stateVars => <>[]Repaired
=============================================================================
