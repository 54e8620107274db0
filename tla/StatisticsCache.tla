---------------------------- MODULE StatisticsCache ----------------------------
(***************************************************************************)
(* The statistics of one plant as its cards show them: kept for a while,   *)
(* loaded again by the first request after that, under the device's lock.  *)
(* A load takes time: Prometheus answers at some point of it.              *)
(***************************************************************************)
EXTENDS Integers

CONSTANTS
    Cards,          \* concurrent requests for the card or a block of it
    Ttl,            \* the 300 seconds a snapshot is kept
    MaxClock        \* bound: time

ASSUME StatisticsAssumption == {Ttl, MaxClock} \subseteq Nat \ {0}

VARIABLES
    clock,      \* time.monotonic()
    cached,     \* _project_statistics_cache: until when it is kept; the time of the
                \* snapshot shown, 0 if none
    lock,       \* _statistics_locks: held?
    card,       \* [Cards -> next step; when it looked; the time of its answer]
    begun       \* history: when the last load began, -Ttl if none has

statisticsVars == <<clock, cached, lock, card, begun>>

Clock == 0..MaxClock
NoRequest == [pc |-> "idle", now |-> 0, at |-> 0]

\* Types.
StatisticsTypeOK ==
    /\ clock \in Clock /\ lock \in BOOLEAN /\ begun \in Clock \cup {-Ttl}
    /\ cached \in [until : 0..MaxClock + Ttl, at : Clock]
    /\ card \in [Cards -> [pc : {"idle", "ask", "query", "store"}, now : Clock, at : Clock]]
    /\ lock <=> \E c \in Cards : card[c].pc \in {"query", "store"}

StatisticsInit ==
    /\ clock = 1 /\ lock = FALSE /\ begun = -Ttl
    /\ cached = [until |-> 0, at |-> 0]
    /\ card = [c \in Cards |-> NoRequest]

Tick ==
    /\ clock < MaxClock
    /\ clock' = clock + 1
    /\ UNCHANGED <<cached, lock, card, begun>>

AskStatistics(c) ==
    /\ card[c].pc = "idle"
    /\ card' = [card EXCEPT ![c].pc = "ask"]
    /\ UNCHANGED <<clock, cached, lock, begun>>

\* A card that looks shows what is kept, or begins to load.
LookAt(c) ==
    IF cached.until > clock
    THEN card' = [card EXCEPT ![c] = NoRequest] /\ UNCHANGED <<lock, begun>>
    ELSE /\ card' = [card EXCEPT ![c] = [pc |-> "query", now |-> clock, at |-> 0]]
         /\ lock' = TRUE /\ begun' = clock

\* Mutant: without the lock.
LookUnlocked(c) ==
    /\ card[c].pc = "ask"
    /\ LookAt(c)
    /\ UNCHANGED <<clock, cached>>

\* _project_statistics: with the lock.
LookLocked(c) ==
    /\ card[c].pc = "ask" /\ ~lock
    /\ LookAt(c)
    /\ UNCHANGED <<clock, cached>>

\* project_water_consumption: the snapshot is of now, or there is none.
QueryHistory(c) ==
    /\ card[c].pc = "query"
    /\ \E at \in {0, clock} : card' = [card EXCEPT ![c].pc = "store", ![c].at = at]
    /\ UNCHANGED <<clock, cached, lock, begun>>

\* What was loaded, or else what was kept, is kept for Ttl from the look on.
Keep(c) ==
    /\ card[c].pc = "store"
    /\ cached' = [until |-> card[c].now + Ttl, at |-> IF card[c].at = 0 THEN cached.at ELSE card[c].at]
    /\ lock' = FALSE
    /\ card' = [card EXCEPT ![c] = NoRequest]
    /\ UNCHANGED <<clock, begun>>

StatisticsNext == Tick \/ \E c \in Cards : AskStatistics(c) \/ LookLocked(c) \/ QueryHistory(c) \/ Keep(c)

StatisticsSpec == StatisticsInit /\ [][StatisticsNext]_statisticsVars

-----------------------------------------------------------------------------

\* A card never shows an older snapshot than one that was shown before, in
\* whatever order requests begin and end their loads.
SnapshotsGoForward == [][cached'.at >= cached.at]_statisticsVars

\* card_service.py:754: "Concurrent summary/detail requests must share one
\* snapshot fetch": from one fetch to the next at least Ttl passes.
FetchIsShared == [][begun' # begun => begun' - begun >= Ttl]_statisticsVars
=============================================================================
