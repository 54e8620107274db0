------------------------------ MODULE WeightSensor ------------------------------
(***************************************************************************)
(* The filter between the load cell and everything that weighs: the reader *)
(* task passes each raw value to hx711_accept_or_skip_raw (READ_SAMPLES is *)
(* 1), which takes a jump for a new level only when later values confirm   *)
(* it.  Its state is lost in deep sleep.                                   *)
(***************************************************************************)
EXTENDS Integers, Sequences

CONSTANTS
    Raws,           \* bound: raw values of the converter
    MaxRawJump,     \* MAX_RAW_JUMP
    ConfirmCount    \* ANOMALY_CONFIRM_COUNT

ASSUME SensorAssumption ==
    Raws \subseteq Nat /\ MaxRawJump \in Nat /\ ConfirmCount \in Nat /\ ConfirmCount > 1

VARIABLES
    good,       \* last_good_raw, NoRaw if there is none
    candidate,  \* anomaly_candidate_raw, NoRaw if there is none
    count,      \* anomaly_count
    recent      \* history: the raw values read since the boot, the last Enough of them

sensorVars == <<good, candidate, count, recent>>

NoRaw == -1
Enough == 2 * ConfirmCount - 2
Near(a, b) == a - b <= MaxRawJump /\ b - a <= MaxRawJump

\* Types; and what is doubted is no level that is known, and not yet confirmed.
SensorTypeOK ==
    /\ good \in Raws \cup {NoRaw} /\ candidate \in Raws \cup {NoRaw}
    /\ count \in 0..ConfirmCount - 1
    /\ recent \in Seq(Raws) /\ Len(recent) <= Enough
    /\ count = 0 <=> candidate = NoRaw
    /\ count > 0 => good # NoRaw /\ ~Near(candidate, good)

SensorInit == good = NoRaw /\ candidate = NoRaw /\ count = 0 /\ recent = <<>>

-----------------------------------------------------------------------------
(* hx711_accept_or_skip_raw *)

Remember(raw) ==
    LET all == Append(recent, raw)
    IN  recent' = IF Len(all) > Enough THEN Tail(all) ELSE all

Take(raw) == good' = raw /\ candidate' = NoRaw /\ count' = 0
Doubt(raw) == candidate' = raw /\ count' = 1 /\ UNCHANGED good

\* Status "init": the first value after a boot is taken as it is.
TakeFirst(raw) == good = NoRaw /\ Take(raw)

\* Mutant: the doubt of an earlier value stays.
TakeNearDoubting(raw) ==
    /\ good # NoRaw /\ Near(raw, good)
    /\ good' = raw
    /\ UNCHANGED <<candidate, count>>

\* Status "ok"
TakeNear(raw) == good # NoRaw /\ Near(raw, good) /\ Take(raw)

Jump(raw) == good # NoRaw /\ ~Near(raw, good)

\* Mutant: the first value that was doubted stays the candidate.
DoubtFirst(raw) ==
    /\ Jump(raw)
    /\ IF candidate = NoRaw THEN Doubt(raw)
       ELSE ~Near(raw, candidate) /\ count' = 1 /\ UNCHANGED <<good, candidate>>

\* Status "skip": a first candidate, or another one.
DoubtRaw(raw) ==
    /\ Jump(raw)
    /\ candidate = NoRaw \/ ~Near(raw, candidate)
    /\ Doubt(raw)

\* Status "skip", or "accepted new level".
ConfirmLevel(raw) ==
    /\ Jump(raw)
    /\ candidate # NoRaw /\ Near(raw, candidate)
    /\ IF count + 1 >= ConfirmCount THEN Take(raw)
       ELSE count' = count + 1 /\ UNCHANGED <<good, candidate>>

\* A value is read; without one in time nothing changes.
ReadRaw(raw) ==
    /\ TakeFirst(raw) \/ TakeNear(raw) \/ DoubtRaw(raw) \/ ConfirmLevel(raw)
    /\ Remember(raw)

\* Deep sleep or a reset; hx711_init reads some values and drops them.
Boot ==
    /\ good' = NoRaw /\ candidate' = NoRaw /\ count' = 0 /\ recent' = <<>>

SensorNext == Boot \/ \E raw \in Raws : ReadRaw(raw)

SensorSpec == SensorInit /\ [][SensorNext]_sensorVars

-----------------------------------------------------------------------------
(* Properties. *)

Newest(k) == SubSeq(recent', Len(recent') - k + 1, Len(recent'))

\* A level is left only for one that ConfirmCount values in a row have shown,
\* all of them off the old one: spikes between good values never add up.
SpikesAreSkipped ==
    [][good # NoRaw /\ good' # NoRaw /\ ~Near(good', good) =>
          /\ Len(recent') >= ConfirmCount
          /\ \A i \in 1..ConfirmCount : /\ ~Near(Newest(ConfirmCount)[i], good)
                                        /\ Near(Newest(ConfirmCount)[i], Newest(ConfirmCount)[1])]_sensorVars

\* A weight that has changed for good is followed, whatever spikes were doubted
\* before: after Enough values that are near each other, the last one counts.
LevelIsFollowed ==
    (Len(recent) = Enough /\ \A i, j \in 1..Enough : Near(recent[i], recent[j]))
    => good = recent[Enough]
=============================================================================
