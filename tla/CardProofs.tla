------------------------------ MODULE CardProofs ------------------------------
(***************************************************************************)
(* What the cards of the web interface show, for any number of requests at *)
(* once.                                                                   *)
(* DeviceState: a card is never older than what had been confirmed before  *)
(* its request, for any number of configurations, fetchers and readers.    *)
(* The invariant says of every answer, on its way into device_snapshots,   *)
(* stored, read or cached, that its time stamp is honest: whatever was     *)
(* stamped before it is in it, unless its confirmation overtook the answer *)
(* (Fits).                                                                 *)
(* StatisticsCache: for any Ttl and any bound on the time, at most one     *)
(* request loads, and between loads the cache is kept for at least Ttl     *)
(* from the last look on (CacheInv); so nothing that is stored is older    *)
(* than what is shown, and no load begins early.                           *)
(***************************************************************************)
EXTENDS DeviceState, StatisticsCache, SequenceTheorems, WellFoundedInduction, TLAPS

\* Versions whose confirmation has a time stamp and is or may become committed.
Confirmed == done \cup {v \in {node.version} : node.pc = "commit"}

Fits(value, after) ==
    after <= stamped /\ \A w \in Confirmed \ raced : w <= after => w <= value

\* Callbacks are handled in the order of their versions.
InOrder ==
    /\ \A i \in 1..Len(callbacks) : stamped < callbacks[i] /\ callbacks[i] <= mcu
    /\ \A i, j \in 1..Len(callbacks) : i < j => callbacks[i] < callbacks[j]
    /\ node.pc # "idle" => node.version <= stamped

FetchesFit ==
    \A f \in Fetchers :
       /\ fetch[f].value <= mcu
       /\ fetch[f].pc = "stamp" => \A w \in Confirmed \ raced : w <= fetch[f].value
       /\ fetch[f].pc = "save" => Fits(fetch[f].value, fetch[f].after)

\* What the combination of snapshot and patch is good for.
StillCovers(snap, last, floor) ==
    /\ last = 0 \/ last > snap.after
    /\ floor > snap.after => last >= floor

ReadsFit ==
    \A r \in Readers :
       /\ read[r].floor = 0 \/ read[r].floor \in done \ raced
       /\ read[r].pc \in {"patches", "cache", "recover"} =>
             Fits(read[r].snap.value, read[r].snap.after)
       /\ read[r].pc \in {"cache", "recover"} =>
             StillCovers(read[r].snap, read[r].last, read[r].floor)
       /\ read[r].pc = "done" => read[r].result >= read[r].floor

StateInv ==
    /\ StateTypeOK
    /\ InOrder
    /\ FetchesFit
    /\ Fits(stored.value, stored.after)
    /\ ReadsFit
    /\ cache.value = Combined(cache.snap, cache.last)

FetchType == [pc : {"idle", "stamp", "save", "confirm"}, value : Version, after : Version]
ReadType == [pc : {"idle", "patches", "cache", "recover", "done"}, snap : Snapshot,
             last : Version, result : Version, floor : Version]

-----------------------------------------------------------------------------
(* Greatest *)

LEMMA GreatestIs ==
    ASSUME NEW S \in SUBSET Version
    PROVE  Greatest(S) \in S \cup {0} /\ Greatest(S) \in Version
           /\ \A w \in S : w <= Greatest(S)
<1> DEFINE T == {MaxVersion - v : v \in S \cup {0}}
<1>1. Version \subseteq Nat /\ 0 \in Version /\ MaxVersion \in Nat
      /\ \A v \in Version : MaxVersion - v \in Nat
    BY StateAssumption DEF Version
<1>2. T \subseteq Nat /\ T # {}
    BY <1>1
<1> DEFINE R == OpToRel(<, Nat)
<1>0. \A y, x \in Nat : y < x => <<y, x>> \in R
    BY DEF OpToRel
<1>3. PICK x \in T : \A y \in T : ~(<<y, x>> \in R)
    BY <1>2, NatLessThanWellFounded, WFMin, Zenon
<1> HIDE DEF R
<1>4. \A y \in T : x <= y
  <2> SUFFICES ASSUME NEW y \in T PROVE x <= y
      OBVIOUS
  <2>1. x \in Nat /\ y \in Nat
      BY <1>2
  <2>2. ~(y < x)
      BY <1>0, <1>3, <2>1, Zenon
  <2> QED
      BY <2>1, <2>2
<1>5. PICK v \in S \cup {0} : x = MaxVersion - v
    BY <1>3
<1>6. ASSUME NEW w \in S \cup {0} PROVE w <= v
  <2>1. MaxVersion - w \in T
      OBVIOUS
  <2>2. x <= MaxVersion - w
      BY <1>4, <2>1
  <2>3. v \in Nat /\ w \in Nat /\ MaxVersion \in Nat
      BY <1>1
  <2> QED
      BY <1>5, <2>2, <2>3
<1>7. \E g \in S \cup {0} : \A w \in S : w <= g
    BY <1>6
<1>8. Greatest(S) \in S \cup {0} /\ \A w \in S : w <= Greatest(S)
    BY <1>7, Zenon DEF Greatest
<1> QED
    BY <1>1, <1>8

-----------------------------------------------------------------------------

LEMMA StateInitially == StateInit => StateInv
<1> SUFFICES ASSUME StateInit PROVE StateInv
    OBVIOUS
<1>1. 0 \in Version /\ First \in Snapshot /\ callbacks \in Seq(Version) /\ Len(callbacks) = 0
    BY StateAssumption, EmptySeq DEF StateInit, Version, Snapshot, First
<1>2. StateTypeOK
    BY <1>1 DEF StateInit, StateTypeOK, NoFetch, NoRead, First, Snapshot
<1>3. InOrder /\ FetchesFit /\ Fits(stored.value, stored.after) /\ ReadsFit
    BY <1>1 DEF StateInit, InOrder, FetchesFit, Fits, ReadsFit, Confirmed, NoFetch, NoRead, First, Version
<1> QED
    BY <1>2, <1>3 DEF StateInv, StateInit, Combined, First

\* The steps of the readers leave everything else alone.
LEMMA ReadsApart ==
    ASSUME StateInv, NEW r \in Readers, NEW new \in ReadType, ReadStep(r, new),
           cache' \in [snap : Snapshot, last : Version, value : Version],
           cache'.value = Combined(cache'.snap, cache'.last),
           new.floor = 0 \/ new.floor \in done \ raced,
           new.pc \in {"patches", "cache", "recover"} => Fits(new.snap.value, new.snap.after),
           new.pc \in {"cache", "recover"} => StillCovers(new.snap, new.last, new.floor),
           new.pc = "done" => new.result >= new.floor
    PROVE  StateInv'
<1>1. /\ read' = [read EXCEPT ![r] = new]
      /\ UNCHANGED <<mcu, callbacks, node, stamped, done, stored, settings, fetch, raced, settled>>
    BY DEF ReadStep, snapshots
<1>2. StateTypeOK'
    BY <1>1 DEF StateInv, StateTypeOK, ReadType
<1>3. InOrder' /\ FetchesFit' /\ Fits(stored.value, stored.after)'
    BY <1>1 DEF StateInv, InOrder, FetchesFit, Fits, Confirmed
<1>4. ReadsFit'
  <2>1. \A q \in Readers : read'[q] = IF q = r THEN new ELSE read[q]
      BY <1>1 DEF StateInv, StateTypeOK
  <2>2. Confirmed' = Confirmed /\ raced' = raced /\ done' = done /\ stamped' = stamped
      BY <1>1 DEF Confirmed
  <2> QED
      BY <2>1, <2>2 DEF StateInv, ReadsFit, Fits, StillCovers
<1> QED
    BY <1>2, <1>3, <1>4 DEF StateInv

\* An honest time stamp stays honest: what is confirmed later is stamped later.
LEMMA FitsStays ==
    ASSUME NEW value \in Version, NEW after \in Version, Fits(value, after),
           stamped \in Version, stamped' \in Version, Confirmed' \subseteq Version,
           stamped <= stamped',
           \A w \in (Confirmed \ raced)' : w \in Confirmed \ raced \/ w > stamped
    PROVE  Fits(value, after)'
<1>1. after <= stamped'
    BY StateAssumption DEF Fits, Version
<1>2. ASSUME NEW w \in (Confirmed \ raced)', w <= after PROVE w <= value
  <2>1. w \in Nat /\ after \in Nat /\ stamped \in Nat
      BY StateAssumption DEF Version
  <2>2. ~(w > stamped)
      BY <1>2, <2>1 DEF Fits
  <2> QED
      BY <1>2, <2>2 DEF Fits
<1> QED
    BY <1>1, <1>2 DEF Fits

\* Neither do the steps of the others disturb the readers, as long as no honest
\* time stamp becomes a lie.
LEMMA OthersApart ==
    ASSUME StateInv, UNCHANGED <<cache, read>>, StateTypeOK', InOrder', FetchesFit',
           Fits(stored.value, stored.after)', stamped <= stamped',
           done \ raced \subseteq done' \ raced',
           \A w \in (Confirmed \ raced)' : w \in Confirmed \ raced \/ w > stamped
    PROVE  StateInv'
<1>1. stamped \in Version /\ \A r \in Readers : read[r] \in ReadType
    BY DEF StateInv, StateTypeOK, ReadType
<1>2. stamped' \in Version /\ Confirmed' \subseteq Version
    BY DEF StateTypeOK, Confirmed
<1>3. ReadsFit'
  <2> SUFFICES ASSUME NEW r \in Readers
               PROVE  /\ read[r].floor = 0 \/ read[r].floor \in done' \ raced'
                      /\ read[r].pc \in {"patches", "cache", "recover"} =>
                            Fits(read[r].snap.value, read[r].snap.after)'
                      /\ read[r].pc \in {"cache", "recover"} =>
                            StillCovers(read[r].snap, read[r].last, read[r].floor)
                      /\ read[r].pc = "done" => read[r].result >= read[r].floor
      BY DEF ReadsFit, StillCovers
  <2>1. read[r].snap.value \in Version /\ read[r].snap.after \in Version
      BY <1>1 DEF ReadType, Snapshot
  <2> QED
      BY <1>1, <1>2, <2>1, FitsStays DEF StateInv, ReadsFit
<1> QED
    BY <1>3 DEF StateInv

-----------------------------------------------------------------------------
(* The controller and the callback node *)

LEMMA ApplyStep == ASSUME StateInv, Apply PROVE StateInv'
<1>0. StateTypeOK /\ InOrder /\ FetchesFit /\ Fits(stored.value, stored.after)
    BY DEF StateInv
<1>1. /\ mcu < MaxVersion /\ mcu' = mcu + 1
      /\ callbacks' \in {callbacks, Append(callbacks, mcu + 1)}
      /\ UNCHANGED <<node, stamped, done, stored, settings, fetch, cache, read, raced, settled>>
    BY DEF Apply, snapshots
<1>2. mcu \in Nat /\ mcu' \in Version /\ stamped \in Nat /\ stamped <= mcu
  <2>1. mcu \in Version /\ stamped \in Version /\ stamped <= mcu
      BY <1>0 DEF StateTypeOK
  <2> QED
      BY <1>1, <2>1, StateAssumption DEF Version
<1>3. /\ callbacks' \in Seq(Version)
      /\ Len(callbacks') \in {Len(callbacks), Len(callbacks) + 1}
      /\ \A i \in 1..Len(callbacks) : callbacks'[i] = callbacks[i]
      /\ Len(callbacks') # Len(callbacks) => callbacks'[Len(callbacks) + 1] = mcu + 1
  <2>1. callbacks \in Seq(Version) /\ mcu + 1 \in Version
      BY <1>0, <1>1, <1>2 DEF StateTypeOK
  <2>2. CASE callbacks' = callbacks
      BY <2>1, <2>2
  <2>3. CASE callbacks' = Append(callbacks, mcu + 1)
      BY <2>1, <2>3, AppendProperties
  <2> QED
      BY <1>1, <2>2, <2>3
<1>4. /\ Len(callbacks) \in Nat /\ Len(callbacks') \in Nat
      /\ \A i \in 1..Len(callbacks) : callbacks[i] \in Version
      /\ \A i \in 1..Len(callbacks') : callbacks'[i] \in Version
    BY <1>0, <1>3, LenProperties, ElementOfSeq DEF StateTypeOK
<1>5. \A v \in Version : v <= mcu => v <= mcu'
    BY <1>1, <1>2 DEF Version
<1>6. StateTypeOK'
    BY <1>0, <1>1, <1>2, <1>3, <1>5 DEF StateTypeOK, Snapshot
<1>7. InOrder'
  <2>1. ASSUME NEW i \in 1..Len(callbacks')
        PROVE  stamped < callbacks'[i] /\ callbacks'[i] <= mcu'
    <3>1. CASE i \in 1..Len(callbacks)
        BY <1>0, <1>1, <1>2, <1>3, <1>4, <3>1 DEF InOrder, Version
    <3>2. CASE i = Len(callbacks) + 1 /\ Len(callbacks') # Len(callbacks)
        BY <1>1, <1>2, <1>3, <3>2
    <3> QED
        BY <1>3, <1>4, <3>1, <3>2
  <2>2. ASSUME NEW i \in 1..Len(callbacks'), NEW j \in 1..Len(callbacks'), i < j
        PROVE  callbacks'[i] < callbacks'[j]
    <3>1. CASE j \in 1..Len(callbacks)
        BY <1>0, <1>3, <1>4, <2>2, <3>1 DEF InOrder
    <3>2. CASE j = Len(callbacks) + 1 /\ Len(callbacks') # Len(callbacks)
      <4>1. i \in 1..Len(callbacks)
          BY <1>4, <2>2, <3>2
      <4>2. callbacks[i] <= mcu /\ callbacks[i] \in Nat
          BY <1>0, <1>4, <4>1, StateAssumption DEF InOrder, Version
      <4> QED
          BY <1>2, <1>3, <3>2, <4>1, <4>2
    <3> QED
        BY <1>3, <1>4, <3>1, <3>2
  <2> QED
      BY <1>0, <1>1, <2>1, <2>2 DEF InOrder
<1>8. FetchesFit' /\ Fits(stored.value, stored.after)'
    BY <1>0, <1>1, <1>5 DEF FetchesFit, Fits, Confirmed, StateTypeOK
<1>9. (Confirmed \ raced)' = Confirmed \ raced /\ done' \ raced' = done \ raced /\ stamped <= stamped'
    BY <1>1, <1>2 DEF Confirmed
<1> QED
    BY <1>1, <1>6, <1>7, <1>8, <1>9, OthersApart

LEMMA ReceiveStep == ASSUME StateInv, Receive PROVE StateInv'
<1> DEFINE h == callbacks[1]
<1>0. StateTypeOK /\ InOrder /\ FetchesFit /\ Fits(stored.value, stored.after)
    BY DEF StateInv
<1>1. /\ node.pc = "idle" /\ callbacks # <<>> /\ callbacks \in Seq(Version)
      /\ h = Head(callbacks) /\ h \in Version
      /\ callbacks' = Tail(callbacks) /\ callbacks' \in Seq(Version)
      /\ Len(callbacks) \in Nat \ {0} /\ Len(callbacks') = Len(callbacks) - 1
      /\ \A i \in 1..Len(callbacks') : callbacks'[i] = callbacks[i + 1]
    BY <1>0, HeadTailProperties, EmptySeq, LenProperties DEF Receive, StateTypeOK
<1>2. /\ node' = [pc |-> "commit", version |-> h] /\ stamped' = h
      /\ raced' = IF \E f \in Fetchers : fetch[f].pc = "stamp" /\ fetch[f].value < h
                  THEN raced \cup {h} ELSE raced
      /\ UNCHANGED <<mcu, done, stored, settings, fetch, cache, read, settled>>
    BY <1>1 DEF Receive, snapshots
<1>3. /\ \A i \in 1..Len(callbacks) : callbacks[i] \in Nat
      /\ stamped < h /\ h <= mcu /\ stamped \in Nat /\ h \in Nat /\ mcu \in Nat
    BY <1>0, <1>1, ElementOfSeq, StateAssumption DEF InOrder, StateTypeOK, Version
<1>4. StateTypeOK'
  <2>1. \A v \in done \cup {h} : v <= h
      BY <1>0, <1>3, StateAssumption DEF StateTypeOK, Version
  <2> QED
      BY <1>0, <1>1, <1>2, <1>3, <2>1 DEF StateTypeOK
<1>5. InOrder'
  <2>1. ASSUME NEW i \in 1..Len(callbacks')
        PROVE  stamped' < callbacks'[i] /\ callbacks'[i] <= mcu'
    <3>1. i + 1 \in 1..Len(callbacks) /\ 1 \in 1..Len(callbacks) /\ 1 < i + 1
        BY <1>1
    <3> QED
        BY <1>0, <1>1, <1>2, <3>1 DEF InOrder
  <2>2. ASSUME NEW i \in 1..Len(callbacks'), NEW j \in 1..Len(callbacks'), i < j
        PROVE  callbacks'[i] < callbacks'[j]
    <3>1. i + 1 \in 1..Len(callbacks) /\ j + 1 \in 1..Len(callbacks) /\ i + 1 < j + 1
        BY <1>1, <2>2
    <3> QED
        BY <1>0, <1>1, <3>1 DEF InOrder
  <2> QED
      BY <1>2, <1>3, <2>1, <2>2 DEF InOrder
<1>6. Confirmed = done /\ Confirmed' = done \cup {h} /\ h \notin done
    BY <1>0, <1>1, <1>2, <1>3, StateAssumption DEF Confirmed, StateTypeOK, Version
<1>7. stamped \in Version /\ stamped' \in Version /\ Confirmed' \subseteq Version
      /\ stamped <= stamped' /\ done \ raced \subseteq done' \ raced'
      /\ \A w \in (Confirmed \ raced)' : w \in Confirmed \ raced \/ w > stamped
  <2>1. stamped \in Version /\ stamped' \in Version /\ Confirmed' \subseteq Version
        /\ stamped <= stamped'
    <3>1. stamped \in Version /\ done \subseteq Version
        BY <1>0 DEF StateTypeOK
    <3>2. stamped' = h /\ stamped <= h
        BY <1>2, <1>3
    <3> QED
        BY <1>1, <1>6, <3>1, <3>2
  <2>2. raced \subseteq raced' /\ raced' \subseteq raced \cup {h}
      BY <1>2
  <2>3. done \ raced \subseteq done' \ raced'
      BY <1>2, <1>6, <2>2
  <2>4. \A w \in Confirmed' \ raced' : w \in Confirmed \ raced \/ w > stamped
      BY <1>3, <1>6, <2>2
  <2> QED
      BY <2>1, <2>3, <2>4
<1>8. \A value, after \in Version : Fits(value, after) => Fits(value, after)'
    BY <1>7, FitsStays
<1>9. FetchesFit'
  <2> SUFFICES ASSUME NEW f \in Fetchers
               PROVE  /\ fetch[f].value <= mcu
                      /\ fetch[f].pc = "stamp" => \A w \in (Confirmed \ raced)' : w <= fetch[f].value
                      /\ fetch[f].pc = "save" => Fits(fetch[f].value, fetch[f].after)'
      BY <1>2 DEF FetchesFit, Fits
  <2>1. fetch[f].value \in Version /\ fetch[f].after \in Version
      BY <1>0 DEF StateTypeOK
  <2>2. fetch[f].pc = "save" => Fits(fetch[f].value, fetch[f].after)'
      BY <1>0, <1>2, <1>8, <2>1 DEF Fits, FetchesFit
  <2>3. ASSUME fetch[f].pc = "stamp", NEW w \in (Confirmed \ raced)'
        PROVE  w <= fetch[f].value
    <3>1. CASE w = h
      <4>1. ~(fetch[f].value < h)
          BY <1>2, <2>3, <3>1
      <4> QED
          BY <1>3, <2>1, <3>1, <4>1, StateAssumption DEF Version
    <3>2. CASE w # h
        BY <1>0, <1>2, <1>6, <2>3, <3>2 DEF FetchesFit
    <3> QED
        BY <3>1, <3>2
  <2> QED
      BY <1>0, <2>2, <2>3 DEF FetchesFit
<1>10. Fits(stored.value, stored.after)'
  <2>1. stored.value \in Version /\ stored.after \in Version
      BY <1>0 DEF StateTypeOK, Snapshot
  <2>2. stored' = stored
      BY <1>2
  <2> QED
      BY <1>0, <1>8, <2>1, <2>2 DEF Fits
<1> QED
    BY <1>2, <1>4, <1>5, <1>7, <1>9, <1>10, OthersApart

LEMMA NodeStep ==
    ASSUME StateInv, Commit \/ ConfirmOperation \/ NodeCrash
    PROVE  StateInv'
<1>0. StateTypeOK /\ InOrder /\ FetchesFit /\ Fits(stored.value, stored.after)
    BY DEF StateInv
<1>1. /\ node.pc # "idle" /\ node' \in [pc : {"idle", "registry"}, version : Version]
      /\ node'.version = node.version
      /\ done' \in {done, done \cup {v \in {node.version} : node.pc = "commit"}}
      /\ settings' \in {settings, node.version} /\ settled' \in SUBSET Version
      /\ node'.pc = "registry" => node.pc = "commit" /\ node.version \in done'
      /\ UNCHANGED <<mcu, callbacks, stamped, stored, fetch, cache, read, raced>>
    BY <1>0 DEF Commit, ConfirmOperation, NodeCrash, Settle, StateTypeOK, snapshots
<1>2. node.version <= stamped /\ stamped <= mcu
      /\ node.version \in Nat /\ stamped \in Nat /\ mcu \in Nat
    BY <1>0, <1>1, StateAssumption DEF InOrder, StateTypeOK, Version
<1>3. Confirmed' \subseteq Confirmed /\ done \subseteq done' /\ stamped <= stamped'
    BY <1>1, <1>2 DEF Confirmed
<1>4. StateTypeOK'
  <2>1. node.version \in Version /\ node.version <= mcu
      BY <1>0, <1>2 DEF StateTypeOK
  <2>2. done' \subseteq Version /\ settings' \in Version /\ settings' <= mcu
        /\ \A v \in done' : v <= mcu /\ v <= stamped
      BY <1>0, <1>1, <1>2, <2>1 DEF StateTypeOK
  <2> QED
      BY <1>0, <1>1, <2>2 DEF StateTypeOK
<1>5. InOrder'
    BY <1>0, <1>1, <1>2 DEF InOrder
<1>6. FetchesFit' /\ Fits(stored.value, stored.after)'
    BY <1>0, <1>1, <1>3 DEF FetchesFit, Fits
<1> QED
    BY <1>1, <1>3, <1>4, <1>5, <1>6, OthersApart

-----------------------------------------------------------------------------
(* The fetchers *)

LEMMA FetcherStep ==
    ASSUME StateInv, NEW f \in Fetchers, Fetch(f) \/ FetchProgress(f)
    PROVE  StateInv'
<1>0. StateTypeOK /\ InOrder /\ FetchesFit /\ Fits(stored.value, stored.after)
    BY DEF StateInv
<1>1. UNCHANGED <<mcu, callbacks, node, stamped, done, cache, read, raced, settled>>
    BY DEF Fetch, FetchProgress, Stamp, Save, ConfirmFetched
<1>2. /\ mcu \in Version /\ stamped \in Version /\ stamped <= mcu /\ Version \subseteq Nat
      /\ 0 \in Version /\ Confirmed \subseteq Version /\ \A w \in Confirmed : w <= stamped
      /\ \A g \in Fetchers : fetch[g] \in FetchType
  <2>1. mcu \in Version /\ stamped \in Version /\ stamped <= mcu /\ Confirmed \subseteq Version
      BY <1>0 DEF StateTypeOK, Confirmed
  <2>2. Version \subseteq Nat /\ 0 \in Version
      BY StateAssumption DEF Version
  <2>3. \A w \in Confirmed : w <= stamped
      BY <1>0 DEF StateTypeOK, InOrder, Confirmed
  <2>4. \A g \in Fetchers : fetch[g] \in FetchType
      BY <1>0 DEF StateTypeOK, FetchType
  <2> QED
      BY <2>1, <2>2, <2>3, <2>4
<1>3. Confirmed' = Confirmed /\ (\A value, after : Fits(value, after)' <=> Fits(value, after))
    BY <1>1 DEF Confirmed, Fits
<1>4. PICK new \in FetchType :
        /\ fetch' = [fetch EXCEPT ![f] = new]
        /\ new.value <= mcu
        /\ new.pc = "stamp" => \A w \in Confirmed \ raced : w <= new.value
        /\ new.pc = "save" => Fits(new.value, new.after)
        /\ stored' \in {stored, [value |-> fetch[f].value, after |-> fetch[f].after]}
        /\ settings' \in {settings, fetch[f].value}
        /\ stored' # stored => fetch[f].pc = "save"
  <2>1. CASE Fetch(f)
    <3> DEFINE new == [pc |-> "stamp", value |-> mcu, after |-> 0]
    <3>1. new \in FetchType /\ new.value <= mcu
          /\ \A w \in Confirmed \ raced : w <= new.value
      <4>1. new \in FetchType
          BY <1>2 DEF FetchType
      <4>2. mcu \in Nat /\ stamped \in Nat /\ \A w \in Confirmed : w \in Nat /\ w <= stamped
          BY <1>2
      <4>3. \A w \in Confirmed : w <= mcu
          BY <1>2, <4>2
      <4> QED
          BY <4>1, <4>2, <4>3
    <3>2. fetch' = [fetch EXCEPT ![f] = new] /\ UNCHANGED <<stored, settings>>
        BY <2>1 DEF Fetch, snapshots
    <3> QED
        BY <3>1, <3>2
  <2>2. CASE Stamp(f)
    <3> DEFINE new == [fetch[f] EXCEPT !.pc = "save", !.after = stamped]
    <3>1. fetch' = [fetch EXCEPT ![f] = new] /\ UNCHANGED <<stored, settings>>
          /\ fetch[f].pc = "stamp"
        BY <2>2, <1>0 DEF Stamp, snapshots, StateTypeOK
    <3>2. new \in FetchType /\ new.value = fetch[f].value /\ new.after = stamped /\ new.pc = "save"
        BY <1>2 DEF FetchType
    <3>3. Fits(new.value, new.after) /\ new.value <= mcu
        BY <1>0, <1>2, <3>1, <3>2 DEF Fits, FetchesFit
    <3> HIDE DEF new
    <3> QED
        BY <3>1, <3>2, <3>3
  <2>3. CASE Save(f)
    <3> DEFINE new == [NoFetch EXCEPT !.pc = "confirm", !.value = fetch[f].value]
    <3>1. /\ fetch' = [fetch EXCEPT ![f] = new] /\ UNCHANGED settings
          /\ stored' = [value |-> fetch[f].value, after |-> fetch[f].after]
          /\ fetch[f].pc = "save"
        BY <2>3 DEF Save
    <3>2. new \in FetchType /\ new.value = fetch[f].value /\ new.pc = "confirm"
        BY <1>2 DEF FetchType, NoFetch
    <3> HIDE DEF new
    <3> QED
        BY <1>0, <3>1, <3>2 DEF FetchesFit
  <2>4. CASE ConfirmFetched(f)
    <3>1. NoFetch \in FetchType /\ NoFetch.value = 0 /\ NoFetch.pc = "idle"
        BY <1>2 DEF FetchType, NoFetch
    <3>2. fetch' = [fetch EXCEPT ![f] = NoFetch] /\ UNCHANGED stored
          /\ settings' = fetch[f].value
        BY <2>4 DEF ConfirmFetched
    <3>3. NoFetch.value <= mcu
        BY <1>2, <3>1, StateAssumption DEF Version
    <3> QED
        BY <3>1, <3>2, <3>3
  <2> QED
      BY <2>1, <2>2, <2>3, <2>4 DEF FetchProgress
<1>5. \A g \in Fetchers : fetch'[g] = IF g = f THEN new ELSE fetch[g]
    BY <1>0, <1>4 DEF StateTypeOK
<1>6. FetchesFit'
    BY <1>0, <1>1, <1>3, <1>4, <1>5 DEF FetchesFit
<1>7. Fits(stored.value, stored.after)' /\ stored' \in Snapshot
      /\ stored'.value <= mcu /\ stored'.after <= mcu
  <2>1. CASE stored' = stored
      BY <1>0, <1>1, <1>3, <2>1 DEF Fits, StateTypeOK
  <2>2. CASE stored' # stored
    <3>1. stored' = [value |-> fetch[f].value, after |-> fetch[f].after] /\ fetch[f].pc = "save"
        BY <1>4, <2>2
    <3>2. Fits(fetch[f].value, fetch[f].after) /\ fetch[f].value <= mcu /\ fetch[f] \in FetchType
        BY <1>0, <1>2, <3>1 DEF FetchesFit
    <3>3. stored' \in Snapshot /\ stored'.value = fetch[f].value /\ stored'.after = fetch[f].after
        BY <3>1, <3>2 DEF FetchType, Snapshot
    <3>4. fetch[f].after <= mcu
      <4>1. fetch[f].after \in Nat /\ fetch[f].after <= stamped
          BY <1>2, <3>2 DEF Fits, FetchType
      <4>2. stamped \in Nat /\ mcu \in Nat /\ stamped <= mcu
          BY <1>0, <1>2 DEF StateTypeOK
      <4> QED
          BY <4>1, <4>2
    <3>5. Fits(stored.value, stored.after)'
        BY <1>3, <3>2, <3>3 DEF Fits
    <3> QED
        BY <3>2, <3>3, <3>4, <3>5
  <2> QED
      BY <2>1, <2>2
<1>8. StateTypeOK'
  <2>1. settings' \in Version /\ settings' <= mcu
      BY <1>0, <1>2, <1>4 DEF StateTypeOK, FetchesFit, FetchType
  <2>2. fetch' \in [Fetchers -> FetchType]
      BY <1>0, <1>4 DEF StateTypeOK, FetchType
  <2> QED
      BY <1>0, <1>1, <1>7, <2>1, <2>2 DEF StateTypeOK, FetchType
<1>9. InOrder'
    BY <1>0, <1>1 DEF InOrder
<1> QED
    BY <1>1, <1>2, <1>3, <1>6, <1>7, <1>8, <1>9, OthersApart

-----------------------------------------------------------------------------
(* The readers *)

LEMMA ReaderStep ==
    ASSUME StateInv, NEW r \in Readers,
           ReadSnapshot(r) \/ ReadPatches(r) \/ ReadCache(r) \/ Recover(r) \/ Respond(r)
    PROVE  StateInv'
<1>0. /\ StateTypeOK /\ Fits(stored.value, stored.after) /\ ReadsFit
      /\ cache.value = Combined(cache.snap, cache.last)
      /\ read[r] \in ReadType /\ stored \in Snapshot /\ done \subseteq Version
      /\ cache \in [snap : Snapshot, last : Version, value : Version]
    BY DEF StateInv, StateTypeOK, ReadType
<1>1. /\ 0 \in Version /\ Version \subseteq Nat /\ First \in Snapshot
      /\ NoRead \in ReadType /\ NoRead.pc = "idle" /\ NoRead.floor = 0
    BY StateAssumption DEF Version, NoRead, ReadType, First, Snapshot
<1>2. CASE ReadSnapshot(r)
  <2> DEFINE new == [NoRead EXCEPT !.pc = "patches", !.snap = stored,
                                   !.floor = Greatest(done \ raced)]
  <2>1. Greatest(done \ raced) \in (done \ raced) \cup {0} /\ Greatest(done \ raced) \in Version
      BY <1>0, GreatestIs
  <2>2. new \in ReadType /\ new.pc = "patches" /\ new.snap = stored
        /\ new.floor = Greatest(done \ raced)
      BY <1>0, <1>1, <2>1 DEF ReadType
  <2>3. ReadStep(r, new) /\ UNCHANGED cache
      BY <1>2 DEF ReadSnapshot
  <2> HIDE DEF new
  <2> QED
      BY <1>0, <2>1, <2>2, <2>3, ReadsApart
<1>3. CASE ReadPatches(r)
  <2> DEFINE newer == {v \in done : v > read[r].snap.after}
             new == [read[r] EXCEPT !.pc = "cache", !.last = LastPatch(read[r].snap)]
  <2>1. read[r].pc = "patches" /\ ReadStep(r, new) /\ UNCHANGED cache
      BY <1>3 DEF ReadPatches
  <2>2. /\ LastPatch(read[r].snap) \in newer \cup {0} /\ LastPatch(read[r].snap) \in Version
        /\ \A w \in newer : w <= LastPatch(read[r].snap)
      BY <1>0, GreatestIs DEF LastPatch
  <2>3. /\ new \in ReadType /\ new.pc = "cache" /\ new.snap = read[r].snap
        /\ new.last = LastPatch(read[r].snap) /\ new.floor = read[r].floor
      BY <1>0, <2>2 DEF ReadType
  <2> HIDE DEF new
  <2>4. Fits(new.snap.value, new.snap.after) /\ (new.floor = 0 \/ new.floor \in done \ raced)
      BY <1>0, <2>1, <2>3 DEF ReadsFit
  <2>5. StillCovers(new.snap, new.last, new.floor)
    <3>1. new.snap.after \in Nat /\ new.last \in Nat /\ new.floor \in Nat
        BY <1>1, <2>3 DEF ReadType, Snapshot
    <3>2. ASSUME new.floor > new.snap.after PROVE new.last >= new.floor
      <4>1. new.floor \in newer
          BY <2>3, <2>4, <3>1, <3>2
      <4>2. new.floor <= new.last
          BY <2>2, <2>3, <4>1
      <4> QED
          BY <3>1, <4>2
    <3> QED
        BY <2>2, <2>3, <3>2 DEF StillCovers
  <2> QED
      BY <1>0, <2>1, <2>3, <2>4, <2>5, ReadsApart
<1>4. ASSUME read[r].pc \in {"cache", "recover"}
      PROVE  LET value == Combined(read[r].snap, read[r].last)
                 new == Answer(r, value)
             IN  /\ value \in Version /\ new \in ReadType /\ new.pc = "done"
                 /\ new.floor = 0 \/ new.floor \in done \ raced
                 /\ new.result >= new.floor
  <2> DEFINE value == Combined(read[r].snap, read[r].last)
             new == Answer(r, value)
  <2>1. /\ Fits(read[r].snap.value, read[r].snap.after)
        /\ StillCovers(read[r].snap, read[r].last, read[r].floor)
        /\ read[r].floor = 0 \/ read[r].floor \in done \ raced
      BY <1>0, <1>4 DEF ReadsFit
  <2>2. /\ read[r].snap.value \in Version /\ read[r].snap.after \in Version
        /\ read[r].last \in Version /\ read[r].floor \in Version
      BY <1>0 DEF ReadType, Snapshot
  <2>3. value \in Version
      BY <2>2 DEF Combined
  <2>0. /\ read[r].snap.value \in Nat /\ read[r].snap.after \in Nat
        /\ read[r].last \in Nat /\ read[r].floor \in Nat
      BY <1>1, <2>2
  <2>4. value >= read[r].floor
    <3>1. CASE read[r].floor > read[r].snap.after
        BY <2>0, <2>1, <3>1 DEF StillCovers, Combined
    <3>2. CASE read[r].floor <= read[r].snap.after /\ read[r].last = 0
      <4>1. CASE read[r].floor = 0
          BY <2>0, <3>2, <4>1 DEF Combined
      <4>2. CASE read[r].floor \in done \ raced
          BY <2>0, <2>1, <3>2, <4>2 DEF Fits, Confirmed, Combined
      <4> QED
          BY <2>1, <4>1, <4>2
    <3>3. CASE read[r].floor <= read[r].snap.after /\ read[r].last > read[r].snap.after
        BY <2>0, <3>3 DEF Combined
    <3> QED
        BY <2>0, <2>1, <3>1, <3>2, <3>3 DEF StillCovers
  <2>5. new \in ReadType /\ new.pc = "done" /\ new.result = value /\ new.floor = read[r].floor
    <3> HIDE DEF value
    <3> QED
        BY <1>1, <2>2, <2>3 DEF Answer, NoRead, ReadType
  <2> QED
      BY <2>1, <2>3, <2>4, <2>5
<1>5. CASE ReadCache(r) \/ Recover(r)
  <2> DEFINE value == Combined(read[r].snap, read[r].last)
             new == Answer(r, value)
  <2>1. CASE ReadCache(r) /\ ~Hits(r)
    <3> DEFINE again == [read[r] EXCEPT !.pc = "recover"]
    <3>1. read[r].pc = "cache" /\ ReadStep(r, again) /\ UNCHANGED cache
        BY <2>1 DEF ReadCache
    <3>2. /\ again \in ReadType /\ again.pc = "recover" /\ again.snap = read[r].snap
          /\ again.last = read[r].last /\ again.floor = read[r].floor
        BY <1>0 DEF ReadType
    <3> HIDE DEF again
    <3> QED
        BY <1>0, <3>1, <3>2, ReadsApart DEF ReadsFit
  <2>2. CASE Recover(r) \/ (ReadCache(r) /\ Hits(r))
    <3>1. read[r].pc \in {"cache", "recover"}
        BY <2>2 DEF Recover, ReadCache
    <3>2. ReadStep(r, new)
        BY <1>0, <2>2 DEF Recover, ReadCache, Hits
    <3>3. /\ value \in Version /\ new \in ReadType /\ new.pc = "done"
          /\ new.floor = 0 \/ new.floor \in done \ raced
          /\ new.result >= new.floor
        BY <1>4, <3>1
    <3>4. cache' \in {cache, [snap |-> read[r].snap, last |-> read[r].last, value |-> value]}
        BY <2>2 DEF Recover, ReadCache
    <3>5. cache' \in [snap : Snapshot, last : Version, value : Version]
          /\ cache'.value = Combined(cache'.snap, cache'.last)
        BY <1>0, <3>3, <3>4 DEF ReadType
    <3> HIDE DEF new, value
    <3> QED
        BY <3>2, <3>3, <3>5, ReadsApart
  <2> QED
      BY <1>5, <2>1, <2>2
<1>6. CASE Respond(r)
  <2>1. ReadStep(r, NoRead) /\ UNCHANGED cache
      BY <1>6 DEF Respond
  <2> QED
      BY <1>0, <1>1, <2>1, ReadsApart
<1> QED
    BY <1>2, <1>3, <1>5, <1>6

LEMMA StateStep ==
    ASSUME StateInv, [StateNext]_stateVars
    PROVE  StateInv'
<1>1. CASE UNCHANGED stateVars
  <2>1. UNCHANGED <<mcu, callbacks, node, stamped, done, stored, settings, fetch, cache,
                    read, raced, settled>>
      BY <1>1 DEF stateVars, snapshots
  <2>2. StateTypeOK' /\ InOrder' /\ FetchesFit' /\ Fits(stored.value, stored.after)'
      BY <2>1 DEF StateInv, StateTypeOK, InOrder, FetchesFit, Fits, Confirmed
  <2>3. stamped <= stamped'
      BY <2>1, StateAssumption DEF StateInv, StateTypeOK, Version
  <2> QED
      BY <2>1, <2>2, <2>3, OthersApart DEF Confirmed
<1> QED
    BY <1>1, ApplyStep, ReceiveStep, NodeStep, FetcherStep, ReaderStep DEF StateNext, NodeProgress

-----------------------------------------------------------------------------
(* The registry *)

\* What is settled in the registry is not newer than the callback at hand, and
\* no answer under way is older.
SettledInv ==
    \A v \in settled :
      /\ settings >= v
      /\ v <= stamped
      /\ node.pc # "idle" => v <= node.version
      /\ \A f \in Fetchers : fetch[f].pc # "idle" => fetch[f].value >= v

LEMMA SettledStep ==
    ASSUME StateInv, SettledInv, [StateNext]_stateVars
    PROVE  SettledInv'
<1>0. StateTypeOK /\ InOrder
    BY DEF StateInv
<1>1. /\ Version \subseteq Nat /\ mcu \in Nat /\ stamped \in Nat /\ stamped <= mcu
      /\ node.version \in Nat /\ settings \in Nat /\ settled \subseteq Nat
      /\ \A f \in Fetchers : fetch[f].value \in Nat
      /\ fetch = [f \in Fetchers |-> fetch[f]]
  <2>1. Version \subseteq Nat
      BY StateAssumption DEF Version
  <2>2. /\ mcu \in Version /\ stamped \in Version /\ stamped <= mcu /\ node.version \in Version
        /\ settings \in Version /\ settled \subseteq Version
        /\ \A f \in Fetchers : fetch[f].value \in Version
        /\ fetch = [f \in Fetchers |-> fetch[f]]
      BY <1>0 DEF StateTypeOK
  <2> QED
      BY <2>1, <2>2
<1>2. CASE UNCHANGED <<settled, settings, stamped, node, fetch>>
    BY <1>2 DEF SettledInv
<1>3. CASE Apply \/ UNCHANGED stateVars
    BY <1>2, <1>3 DEF Apply, stateVars, snapshots
<1>4. CASE Receive
  <2>1. /\ node' = [pc |-> "commit", version |-> Head(callbacks)]
        /\ stamped' = Head(callbacks) /\ UNCHANGED <<settled, settings, fetch>>
        /\ callbacks # <<>> /\ callbacks \in Seq(Version)
      BY <1>0, <1>4 DEF Receive, StateTypeOK, snapshots
  <2>2. Head(callbacks) \in Nat /\ stamped < Head(callbacks)
    <3>1. 1 \in 1..Len(callbacks) /\ Head(callbacks) = callbacks[1] /\ callbacks[1] \in Version
        BY <2>1
    <3> QED
        BY <1>0, <1>1, <3>1 DEF InOrder
  <2>3. ASSUME NEW v \in settled PROVE v <= Head(callbacks)
      BY <1>1, <2>2 DEF SettledInv
  <2>4. node'.version = Head(callbacks)
      BY <2>1
  <2> QED
      BY <2>1, <2>3, <2>4 DEF SettledInv
<1>5. CASE Commit \/ NodeCrash
  <2>1. /\ UNCHANGED <<settled, settings, stamped, fetch>>
        /\ node.pc # "idle" /\ node'.version = node.version
      BY <1>0, <1>5 DEF Commit, NodeCrash, StateTypeOK, snapshots
  <2> QED
      BY <2>1 DEF SettledInv
<1>6. CASE ConfirmOperation
  <2>1. /\ node.pc = "registry" /\ node'.pc = "idle" /\ settings' = node.version
        /\ UNCHANGED <<stamped, fetch>> /\ node.version <= stamped
      BY <1>0, <1>6 DEF ConfirmOperation, StateTypeOK, InOrder
  <2>2. \A v \in settled : v <= node.version
      BY <2>1 DEF SettledInv
  <2>3. CASE settled' = settled
      BY <1>1, <2>1, <2>2, <2>3 DEF SettledInv
  <2>4. CASE /\ settled' = settled \cup {node.version}
             /\ \A f \in Fetchers : fetch[f].pc = "idle" \/ fetch[f].value >= node.version
      BY <1>1, <2>1, <2>2, <2>4 DEF SettledInv
  <2> QED
      BY <1>6, <2>3, <2>4 DEF ConfirmOperation, Settle
<1>7. ASSUME NEW f \in Fetchers, Fetch(f) PROVE SettledInv'
  <2>1. /\ UNCHANGED <<settled, settings, stamped, node>>
        /\ fetch'[f].value = mcu /\ \A g \in Fetchers \ {f} : fetch'[g] = fetch[g]
      BY <1>1, <1>7 DEF Fetch, snapshots
  <2>2. \A v \in settled : mcu >= v
      BY <1>1 DEF SettledInv
  <2> QED
      BY <2>1, <2>2 DEF SettledInv
<1>8. ASSUME NEW f \in Fetchers, Stamp(f) \/ Save(f) PROVE SettledInv'
  <2>1. /\ UNCHANGED <<settled, settings, stamped, node>> /\ fetch[f].pc # "idle"
      BY <1>8 DEF Stamp, Save, snapshots
  <2>2. fetch'[f].value = fetch[f].value /\ \A g \in Fetchers \ {f} : fetch'[g] = fetch[g]
    <3>1. CASE Stamp(f)
        BY <1>0, <3>1 DEF Stamp, StateTypeOK
    <3>2. CASE Save(f)
        BY <1>1, <3>2 DEF Save, NoFetch
    <3> QED
        BY <1>8, <3>1, <3>2
  <2> QED
      BY <2>1, <2>2 DEF SettledInv
<1>9. ASSUME NEW f \in Fetchers, ConfirmFetched(f) PROVE SettledInv'
  <2>1. /\ UNCHANGED <<settled, stamped, node>> /\ settings' = fetch[f].value
        /\ fetch[f].pc # "idle"
        /\ fetch'[f].pc = "idle" /\ \A g \in Fetchers \ {f} : fetch'[g] = fetch[g]
      BY <1>1, <1>9 DEF ConfirmFetched, NoFetch
  <2> QED
      BY <2>1 DEF SettledInv
<1>10. ASSUME NEW r \in Readers,
              ReadSnapshot(r) \/ ReadPatches(r) \/ ReadCache(r) \/ Recover(r) \/ Respond(r)
       PROVE  SettledInv'
    BY <1>2, <1>10 DEF ReadSnapshot, ReadPatches, ReadCache, Recover, Respond, ReadStep, snapshots
<1> QED
    BY <1>3, <1>4, <1>5, <1>6, <1>7, <1>8, <1>9, <1>10 DEF StateNext, NodeProgress, FetchProgress

-----------------------------------------------------------------------------

\* Every answer under way has an honest time stamp, the cache holds the
\* combination of its revision, and every reader what its floor calls for.
THEOREM StateSafe == StateSpec => []StateInv
BY StateInitially, StateStep, PTL DEF StateSpec

\* What is stored, confirmed or shown was once in the controller, and callbacks
\* are confirmed in the order in which they were posted.
THEOREM StateTypeCorrect == StateSpec => []StateTypeOK
<1>1. StateInv => StateTypeOK
    BY DEF StateInv
<1> QED
    BY <1>1, StateSafe, PTL

\* A card never shows an older setting than one confirmed before its request
\* read the snapshot.
THEOREM CardsAreCurrent == StateSpec => []ReadsAreCurrent
<1>1. StateInv => ReadsAreCurrent
    BY DEF StateInv, ReadsFit, ReadsAreCurrent
<1> QED
    BY <1>1, StateSafe, PTL

\* A confirmed setting stays in the registry, unless an answer that is older
\* than it was being handled when it was written (service.py:271-279), however
\* many fetches, callbacks and crashes of the callback node come later.
THEOREM ConfirmedSettled == StateSpec => []ConfirmedIsSettled
<1>1. StateInit => SettledInv
    BY DEF StateInit, SettledInv
<1>2. StateInv /\ SettledInv /\ [StateNext]_stateVars => SettledInv'
    BY SettledStep
<1>3. SettledInv => ConfirmedIsSettled
    BY DEF SettledInv, ConfirmedIsSettled
<1> QED
    BY <1>1, <1>2, <1>3, StateSafe, PTL DEF StateSpec

-----------------------------------------------------------------------------
(* The statistics cache *)

Loads(c) == card[c].pc \in {"query", "store"}

\* The load that is under way: nobody else's, begun when its card looked, and
\* what it has got is as new as what is shown.
LoadInv ==
    \A c \in Cards : Loads(c) =>
       /\ \A d \in Cards : Loads(d) => d = c
       /\ card[c].now = begun
       /\ card[c].at <= clock
       /\ card[c].pc = "store" /\ card[c].at # 0 => cached.at <= card[c].at

\* No load is under way: what it got is kept for Ttl from its begin on.
CacheInv ==
    /\ StatisticsTypeOK
    /\ LoadInv
    /\ cached.at <= clock
    /\ ~lock => begun + Ttl <= cached.until

-----------------------------------------------------------------------------

LEMMA Bounds == Ttl \in Nat \ {0} /\ MaxClock \in Nat \ {0}
BY StatisticsAssumption

LEMMA InitCache == StatisticsInit => CacheInv
<1> SUFFICES ASSUME StatisticsInit PROVE CacheInv
    OBVIOUS
<1> USE Bounds DEF StatisticsInit, NoRequest, Clock
<1>1. StatisticsTypeOK
  <2>1. ~\E c \in Cards : card[c].pc \in {"query", "store"}
      OBVIOUS
  <2>2. cached \in [until : 0..MaxClock + Ttl, at : 0..MaxClock] /\ 1 \in 0..MaxClock
      OBVIOUS
  <2> QED
      BY <2>1, <2>2 DEF StatisticsTypeOK
<1>2. LoadInv
    BY DEF LoadInv, Loads
<1> QED
    BY <1>1, <1>2 DEF CacheInv

LEMMA LookStep ==
    ASSUME CacheInv, NEW c \in Cards, LookLocked(c)
    PROVE  CacheInv'
<1> USE Bounds DEF CacheInv, StatisticsTypeOK, LookLocked, LookAt, Clock
<1>1. CASE cached.until > clock
    BY <1>1 DEF LoadInv, Loads, NoRequest
<1>2. CASE ~(cached.until > clock)
  <2>1. /\ card' = [card EXCEPT ![c] = [pc |-> "query", now |-> clock, at |-> 0]]
        /\ lock' = TRUE /\ begun' = clock
      BY <1>2
  <2>2. ~\E d \in Cards : Loads(d)
      BY DEF Loads
  <2>3. StatisticsTypeOK'
      BY <2>1
  <2>4. LoadInv'
      BY <2>1, <2>2 DEF LoadInv, Loads
  <2> QED
      BY <2>1, <2>3, <2>4
<1> QED
    BY <1>1, <1>2

LEMMA KeepStep ==
    ASSUME CacheInv, NEW c \in Cards, Keep(c)
    PROVE  CacheInv' /\ cached'.at >= cached.at
<1> USE Bounds DEF CacheInv, StatisticsTypeOK, Keep, Clock
<1>1. Loads(c) /\ card[c].now = begun /\ \A d \in Cards : Loads(d) => d = c
    BY DEF LoadInv, Loads
<1>2. cached'.at >= cached.at /\ cached'.at <= clock' /\ begun' + Ttl <= cached'.until
  <2>1. card[c].at = 0 \/ (cached.at <= card[c].at /\ card[c].at <= clock)
      BY <1>1 DEF LoadInv
  <2>2. cached' = [until |-> begun + Ttl, at |-> IF card[c].at = 0 THEN cached.at ELSE card[c].at]
      BY <1>1
  <2> QED
      BY <2>1, <2>2
<1>3. LoadInv'
    BY <1>1 DEF LoadInv, Loads, NoRequest
<1>4. StatisticsTypeOK'
  <2>1. cached' \in [until : 0..MaxClock + Ttl, at : Clock]
      OBVIOUS
  <2>2. card' = [card EXCEPT ![c] = NoRequest] /\ NoRequest.pc = "idle"
      BY DEF NoRequest
  <2>3. ~\E d \in Cards : card'[d].pc \in {"query", "store"}
      BY <1>1, <2>2 DEF Loads
  <2>4. card' \in [Cards -> [pc : {"idle", "ask", "query", "store"}, now : Clock, at : Clock]]
      BY <2>2 DEF NoRequest
  <2> QED
      BY <2>1, <2>3, <2>4
<1> QED
    BY <1>2, <1>3, <1>4

LEMMA CacheStep == CacheInv /\ StatisticsNext => CacheInv'
<1> SUFFICES ASSUME CacheInv, StatisticsNext PROVE CacheInv'
    OBVIOUS
<1> USE Bounds
<1>1. CASE Tick
  <2> USE <1>1 DEF Tick, CacheInv
  <2>1. StatisticsTypeOK'
      BY DEF StatisticsTypeOK, Clock
  <2>2. LoadInv'
      BY DEF LoadInv, Loads, StatisticsTypeOK, Clock
  <2>3. cached'.at <= clock' /\ (~lock' => begun' + Ttl <= cached'.until)
      BY DEF StatisticsTypeOK, Clock
  <2> QED
      BY <2>1, <2>2, <2>3
<1>2. ASSUME NEW c \in Cards, AskStatistics(c) PROVE CacheInv'
    BY <1>2 DEF AskStatistics, CacheInv, StatisticsTypeOK, LoadInv, Loads, Clock
<1>3. ASSUME NEW c \in Cards, LookLocked(c) PROVE CacheInv'
    BY <1>3, LookStep
<1>4. ASSUME NEW c \in Cards, QueryHistory(c) PROVE CacheInv'
  <2> USE <1>4 DEF QueryHistory, CacheInv
  <2>1. PICK at \in {0, clock} : card' = [card EXCEPT ![c].pc = "store", ![c].at = at]
      OBVIOUS
  <2>2. StatisticsTypeOK'
    <3>1. \A d \in Cards : card'[d].pc \in {"query", "store"} <=> card[d].pc \in {"query", "store"}
        BY <2>1 DEF StatisticsTypeOK
    <3>2. card' \in [Cards -> [pc : {"idle", "ask", "query", "store"}, now : Clock, at : Clock]]
      <4>1. at \in Clock
          BY DEF StatisticsTypeOK, Clock
      <4>2. card' = [card EXCEPT ![c] = [@ EXCEPT !.pc = "store", !.at = at]]
          BY <2>1 DEF StatisticsTypeOK
      <4>3. [card[c] EXCEPT !.pc = "store", !.at = at]
                \in [pc : {"idle", "ask", "query", "store"}, now : Clock, at : Clock]
          BY <4>1 DEF StatisticsTypeOK
      <4> QED
          BY <4>2, <4>3 DEF StatisticsTypeOK
    <3> QED
        BY <3>1, <3>2 DEF StatisticsTypeOK, Clock
  <2>3. LoadInv'
      BY <2>1 DEF LoadInv, Loads, StatisticsTypeOK, Clock
  <2> QED
      BY <2>2, <2>3
<1>5. ASSUME NEW c \in Cards, Keep(c) PROVE CacheInv'
    BY <1>5, KeepStep
<1> QED
    BY <1>1, <1>2, <1>3, <1>4, <1>5 DEF StatisticsNext

LEMMA CacheStutter == CacheInv /\ UNCHANGED statisticsVars => CacheInv'
BY DEF CacheInv, StatisticsTypeOK, LoadInv, Loads, statisticsVars

THEOREM CacheSafe == StatisticsSpec => []CacheInv
BY InitCache, CacheStep, CacheStutter, PTL DEF StatisticsSpec

\* The types, and that the lock is held by exactly the requests that load.
THEOREM StatisticsTypeCorrect == StatisticsSpec => []StatisticsTypeOK
<1>1. CacheInv => StatisticsTypeOK
    BY DEF CacheInv
<1> QED
    BY <1>1, CacheSafe, PTL

-----------------------------------------------------------------------------

\* A card never shows an older snapshot than one that was shown before,
\* although requests begin and end their loads in any order.
THEOREM SnapshotsOnlyAdvance == StatisticsSpec => SnapshotsGoForward
<1>1. CacheInv /\ [StatisticsNext]_statisticsVars => [cached'.at >= cached.at]_statisticsVars
  <2> SUFFICES ASSUME CacheInv, StatisticsNext PROVE cached'.at >= cached.at
      OBVIOUS
  <2>1. ASSUME UNCHANGED cached PROVE cached'.at >= cached.at
      BY <2>1 DEF CacheInv, StatisticsTypeOK, Clock
  <2>2. ASSUME NEW c \in Cards, Keep(c) PROVE cached'.at >= cached.at
      BY <2>2, KeepStep
  <2> QED
      BY <2>1, <2>2 DEF StatisticsNext, Tick, AskStatistics, LookLocked, QueryHistory
<1> QED
    BY <1>1, CacheSafe, PTL DEF StatisticsSpec, SnapshotsGoForward

\* From the begin of one fetch to the next at least Ttl passes, however many
\* cards ask at the same time.
THEOREM OneFetchForAll == StatisticsSpec => FetchIsShared
<1> DEFINE Shared == begun' # begun => begun' - begun >= Ttl
<1>1. CacheInv /\ [StatisticsNext]_statisticsVars => [Shared]_statisticsVars
  <2> SUFFICES ASSUME CacheInv, StatisticsNext, begun' # begun PROVE begun' - begun >= Ttl
      OBVIOUS
  <2>1. PICK c \in Cards : LookLocked(c)
      BY DEF StatisticsNext, Tick, AskStatistics, LookLocked, QueryHistory, Keep
  <2>2. begun' = clock /\ cached.until <= clock /\ begun + Ttl <= cached.until
      BY <2>1, Bounds
         DEF LookLocked, LookAt, CacheInv, StatisticsTypeOK, Clock
  <2> QED
      BY <2>2, Bounds DEF CacheInv, StatisticsTypeOK, Clock
<1> QED
    BY <1>1, CacheSafe, PTL DEF StatisticsSpec, FetchIsShared
=============================================================================
