----------------------------- MODULE RecordsProofs -----------------------------
(***************************************************************************)
(* The components that keep records, side by side as MCRecords has them.   *)
(* Three are small enough to be proved here: the two tables that the CLI   *)
(* and the services write, the devices (DeviceRegistry), for any number of *)
(* devices, names and writers, and the users with their sessions           *)
(* (UserSessions), for any number of logins; and WeightSensor, for all     *)
(* values and counts.  For the devices the invariant says what a writer's  *)
(* reading of the tanks still tells when it commits (TanksFit), for the    *)
(* sessions what a login still relies on (LoginsFit), for the sensor which *)
(* of the last values are counted (DoubtsFit), and how long a level can    *)
(* stay that is not followed (FollowsFit).                                 *)
(* At the end: each of the eight components runs in MCRecords as its own   *)
(* specification says, so their types and bounds hold together.            *)
(***************************************************************************)
EXTENDS MCRecords, OperationLogProofs, CardProofs, ConsumptionProofs, FiniteSetTheorems, TLAPS

AtMostOne == ~staleList => \A i, j \in Tanks : i = j

TanksFit ==
    \A w \in Editors :
       /\ writer[w].pc = "tanks" => writer[w].type = "tank"
       /\ writer[w].pc \in {"insert", "confirm"} /\ writer[w].type = "plant" => writer[w].tanks = {}
       /\ writer[w].pc = "confirm" /\ writer[w].own = "tank" /\ ~staleList =>
             writer[w].tanks \subseteq {writer[w].id}

RegistryInv == RegistryTypeOK /\ AtMostOne /\ TanksFit

WriterSteps == {"idle", "tanks", "insert", "select", "confirm", "rename"}
WriterType == [pc : WriterSteps, id : Ids, name : Names, type : DeviceType, own : DeviceType,
               tanks : SUBSET Ids]

-----------------------------------------------------------------------------

LEMMA NoWriterType == NoWriter \in WriterType /\ NoWriter.pc = "idle"
BY RegistryAssumption DEF NoWriter, WriterType, WriterSteps, DeviceType

LEMMA InitRegistry == RegistryInit => RegistryInv
<1> SUFFICES ASSUME RegistryInit PROVE RegistryInv
    OBVIOUS
<1>1. Rows = {}
    BY DEF RegistryInit, Rows, DeviceType
<1>2. RegistryTypeOK
    BY <1>1, NoWriterType, RegistryAssumption
       DEF RegistryInit, RegistryTypeOK, WriterType, WriterSteps, DeviceType
<1> QED
    BY <1>1, <1>2, NoWriterType
       DEF RegistryInit, RegistryInv, AtMostOne, TanksFit, Tanks

\* A writer that reads, or gives up, leaves the table alone.
LEMMA ReadTable ==
    ASSUME RegistryInv, NEW w \in Editors, UNCHANGED <<kind, name, staleList>>,
           NEW step \in WriterType, writer' = [writer EXCEPT ![w] = step],
           step.pc = "tanks" => step.type = "tank",
           step.pc \in {"insert", "confirm"} /\ step.type = "plant" => step.tanks = {},
           step.pc = "confirm" /\ step.own = "tank" /\ ~staleList => step.tanks \subseteq {step.id}
    PROVE  RegistryInv'
<1>1. RegistryTypeOK'
    BY DEF RegistryInv, RegistryTypeOK, WriterType, WriterSteps, Rows
<1>2. AtMostOne'
    BY DEF RegistryInv, AtMostOne, Tanks, Rows
<1>3. TanksFit'
    BY DEF RegistryInv, TanksFit, RegistryTypeOK
<1> QED
    BY <1>1, <1>2, <1>3 DEF RegistryInv

\* A writer that commits is idle afterwards; it is enough to look at the table.
LEMMA WriteTable ==
    ASSUME RegistryInv, NEW w \in Editors, Finish(w) \/ UNCHANGED writer,
           kind' \in [Ids -> DeviceType \cup {"none", "gone"}], name' \in [Ids -> Names],
           \A i, j \in Rows' : name'[i] = name'[j] => i = j,
           staleList' \in BOOLEAN, staleList => staleList', AtMostOne'
    PROVE  RegistryInv'
<1>1. writer' \in [Editors -> WriterType] /\ TanksFit'
  <2>1. CASE Finish(w)
      BY <2>1, NoWriterType DEF Finish, RegistryInv, RegistryTypeOK, TanksFit, WriterType, WriterSteps
  <2>2. CASE UNCHANGED writer
      BY <2>2 DEF RegistryInv, RegistryTypeOK, TanksFit, WriterType, WriterSteps
  <2> QED
      BY <2>1, <2>2
<1> QED
    BY <1>1 DEF RegistryInv, RegistryTypeOK, WriterType, WriterSteps

\* Demotion makes tanks to plants, and changes nothing else.
LEMMA Demotes ==
    ASSUME RegistryTypeOK, NEW tanks \in SUBSET Rows
    PROVE  /\ Demoted(tanks) \in [Ids -> DeviceType \cup {"none", "gone"}]
           /\ \A i \in Ids : /\ i \in tanks => Demoted(tanks)[i] = "plant"
                             /\ i \notin tanks => Demoted(tanks)[i] = kind[i]
BY DEF Demoted, RegistryTypeOK, DeviceType, Rows

-----------------------------------------------------------------------------

LEMMA InsertStep ==
    ASSUME RegistryInv, NEW w \in Editors, Insert(w)
    PROVE  /\ RegistryInv'
           /\ \A i \in Tanks : kind'[i] = "plant" => \E j \in Ids \ {i} : kind'[j] = "tank"
           /\ \A i \in Rows : name'[i] = name[i]
<1> DEFINE tanks == writer[w].tanks
<1>0. writer[w] \in WriterType /\ RegistryTypeOK /\ AtMostOne /\ TanksFit
    BY DEF RegistryInv, RegistryTypeOK, WriterType, WriterSteps
<1>1. CASE ~(tanks \subseteq Rows /\ writer[w].name \notin Used)
  <2>1. Finish(w) /\ UNCHANGED <<kind, name, staleList>>
      BY <1>1 DEF Insert, RollBack
  <2>2. RegistryInv'
      BY <2>1, NoWriterType, ReadTable DEF Finish
  <2> QED
      BY <2>1, <2>2 DEF Tanks
<1>2. CASE tanks \subseteq Rows /\ writer[w].name \notin Used
  <2>1. PICK k \in Ids :
          /\ kind[k] = "none"
          /\ kind' = [Demoted(tanks) EXCEPT ![k] = writer[w].type]
          /\ name' = [name EXCEPT ![k] = writer[w].name]
          /\ staleList' = (staleList \/ (writer[w].type = "tank" /\ ~(Tanks \subseteq tanks)))
          /\ Finish(w)
      BY <1>2 DEF Insert
  <2>2. k \notin Rows /\ writer[w].type \in DeviceType /\ writer[w].name \in Names
      BY <1>0, <2>1 DEF Rows, DeviceType, WriterType
  <2>3. /\ kind' \in [Ids -> DeviceType \cup {"none", "gone"}]
        /\ kind'[k] = writer[w].type
        /\ \A i \in Ids \ {k} : /\ i \in tanks => kind'[i] = "plant"
                                /\ i \notin tanks => kind'[i] = kind[i]
      BY <1>0, <1>2, <2>1, <2>2, Demotes
  <2>4. name' \in [Ids -> Names] /\ name'[k] = writer[w].name
        /\ \A i \in Ids \ {k} : name'[i] = name[i]
      BY <1>0, <2>1, <2>2 DEF RegistryTypeOK
  <2>5. Rows' = Rows \cup {k}
      BY <1>2, <2>2, <2>3 DEF Rows, DeviceType
  <2>6. \A i, j \in Rows' : name'[i] = name'[j] => i = j
      BY <1>0, <1>2, <2>2, <2>4, <2>5 DEF RegistryTypeOK, Used, Rows
  <2>7. AtMostOne'
    <3>1. CASE writer[w].type = "tank"
      <4>1. ~staleList' => Tanks' = {k}
          BY <2>1, <2>2, <2>3, <2>5, <3>1 DEF Tanks, Rows
      <4> QED
          BY <4>1 DEF AtMostOne
    <3>2. CASE writer[w].type = "plant"
      <4>1. Tanks' \subseteq Tanks /\ (~staleList' => ~staleList)
          BY <2>1, <2>2, <2>3, <2>5, <3>2 DEF Tanks, Rows
      <4> QED
          BY <1>0, <4>1 DEF AtMostOne
    <3> QED
        BY <2>2, <3>1, <3>2 DEF DeviceType
  <2>8. \A i \in Tanks : kind'[i] = "plant" => kind'[k] = "tank" /\ k # i
    <3> SUFFICES ASSUME NEW i \in Tanks, kind'[i] = "plant" PROVE kind'[k] = "tank" /\ k # i
        OBVIOUS
    <3>1. k # i /\ i \in Ids /\ kind[i] = "tank"
        BY <2>2 DEF Tanks, Rows
    <3>2. i \in tanks
        BY <2>3, <3>1
    <3>3. writer[w].type = "tank"
        BY <1>0, <2>2, <3>2 DEF TanksFit, Insert, DeviceType
    <3> QED
        BY <2>3, <3>1, <3>3
  <2>9. staleList' \in BOOLEAN /\ (staleList => staleList')
      BY <1>0, <2>1 DEF RegistryTypeOK
  <2>10. RegistryInv'
      BY <2>1, <2>3, <2>4, <2>6, <2>7, <2>9, WriteTable
  <2> QED
      BY <2>2, <2>4, <2>8, <2>10 DEF Rows, Tanks
<1> QED
    BY <1>1, <1>2

\* What a commit may do to the rows: the clauses of TankIsReplaced and of
\* NamesAreKept.
Replaced ==
    \A i \in Tanks :
       kind'[i] = "plant" =>
          \/ staleList'
          \/ \E j \in Ids \ {i} : kind'[j] = "tank"
          \/ \E w \in Editors : writer[w].pc = "confirm" /\ writer[w].id = i
                                /\ writer[w].type = "plant"

Kept ==
    \A i \in Rows :
       name'[i] # name[i] =>
          \E w \in Editors : writer[w].pc = "rename" /\ writer[w].id = i
                             /\ writer[w].name = name'[i]

LEMMA CommitStep ==
    ASSUME RegistryInv, NEW w \in Editors, CommitConfirm(w)
    PROVE  RegistryInv' /\ Replaced /\ UNCHANGED name
<1> DEFINE i == writer[w].id
           others == writer[w].tanks \ {i}
           type == writer[w].type
<1>0. writer[w] \in WriterType /\ RegistryTypeOK /\ AtMostOne /\ TanksFit
    BY DEF RegistryInv, RegistryTypeOK, WriterType, WriterSteps
<1>1. CASE ~({i} \cup others \subseteq Rows)
  <2>1. Finish(w) /\ UNCHANGED <<kind, name, staleList>>
      BY <1>1 DEF CommitConfirm, RollBack
  <2>2. RegistryInv'
      BY <2>1, NoWriterType, ReadTable DEF Finish
  <2> QED
      BY <2>1, <2>2 DEF Replaced, Tanks
<1>2. CASE {i} \cup others \subseteq Rows
  <2>1. /\ kind' = [Demoted(others) EXCEPT ![i] = IF type = writer[w].own THEN @ ELSE type]
        /\ staleList' = (staleList \/ (type = "tank" /\ ~(Tanks \ {i} \subseteq others)))
        /\ Finish(w) /\ UNCHANGED name
        /\ writer[w].pc = "confirm"
      BY <1>2 DEF CommitConfirm
  <2>2. type \in DeviceType /\ writer[w].own \in DeviceType /\ i \in Rows /\ others \in SUBSET Rows
      BY <1>0, <1>2 DEF WriterType
  <2>3. /\ kind' \in [Ids -> DeviceType \cup {"none", "gone"}]
        /\ kind'[i] = IF type = writer[w].own THEN kind[i] ELSE type
        /\ \A j \in Ids \ {i} : /\ j \in others => kind'[j] = "plant"
                                /\ j \notin others => kind'[j] = kind[j]
    <3> HIDE DEF others, i, type
    <3>1. /\ Demoted(others) \in [Ids -> DeviceType \cup {"none", "gone"}]
          /\ \A j \in Ids : /\ j \in others => Demoted(others)[j] = "plant"
                            /\ j \notin others => Demoted(others)[j] = kind[j]
        BY <1>0, <2>2, Demotes
    <3>2. i \notin others /\ i \in Ids
        BY <2>2 DEF others, Rows
    <3> QED
        BY <2>1, <2>2, <3>1, <3>2
  <2>4. Rows' = Rows
      BY <2>2, <2>3 DEF Rows, DeviceType
  <2>5. \A j, k \in Rows' : name'[j] = name'[k] => j = k
      BY <1>0, <2>1, <2>4 DEF RegistryTypeOK
  <2>6. type = "plant" => others = {}
      BY <1>0, <2>1 DEF TanksFit
  <2>7. AtMostOne'
    <3>1. CASE type = "tank"
      <4>1. ~staleList' => Tanks' \subseteq {i}
          BY <2>1, <2>3, <2>4, <3>1 DEF Tanks, Rows
      <4> QED
          BY <4>1 DEF AtMostOne
    <3>2. CASE type = "plant"
      <4>1. Tanks' \subseteq Tanks /\ (~staleList' => ~staleList)
          BY <2>1, <2>3, <2>4, <2>6, <3>2 DEF Tanks, Rows
      <4> QED
          BY <1>0, <4>1 DEF AtMostOne
    <3> QED
        BY <2>2, <3>1, <3>2 DEF DeviceType
  <2>8. Replaced
    <3> SUFFICES ASSUME NEW k \in Tanks, kind'[k] = "plant", ~staleList'
                 PROVE  \/ kind'[i] = "tank" /\ i # k
                        \/ k = i /\ type = "plant"
        BY <2>1, <2>2 DEF Replaced, Rows
    <3>1. k \in Ids /\ kind[k] = "tank" /\ ~staleList
        BY <2>1 DEF Tanks, Rows
    <3>2. CASE k = i
        BY <2>2, <2>3, <3>1, <3>2 DEF DeviceType
    <3>3. CASE k # i
      <4>1. k \in others /\ type = "tank"
          BY <2>2, <2>3, <2>6, <3>1, <3>3 DEF DeviceType
      <4>2. writer[w].own = "plant"
          BY <1>0, <2>1, <2>2, <3>1, <4>1 DEF TanksFit, DeviceType
      <4> QED
          BY <2>3, <3>3, <4>1, <4>2
    <3> QED
        BY <3>2, <3>3
  <2>9. staleList' \in BOOLEAN /\ (staleList => staleList') /\ name' \in [Ids -> Names]
      BY <1>0, <2>1 DEF RegistryTypeOK
  <2>10. RegistryInv'
      BY <2>1, <2>3, <2>5, <2>7, <2>9, WriteTable
  <2> QED
      BY <2>1, <2>8, <2>10
<1> QED
    BY <1>1, <1>2

\* The reading steps hold what they have read.
LEMMA ReadingStep ==
    ASSUME RegistryInv, NEW w \in Editors,
           AllocateName(w) \/ SelectTanks(w) \/ ConfirmType(w) \/ SelectConfirm(w) \/ CheckName(w)
    PROVE  RegistryInv' /\ UNCHANGED <<kind, name, staleList>>
<1>0. /\ writer[w] \in WriterType /\ RegistryTypeOK /\ AtMostOne /\ TanksFit
      /\ Rows \subseteq Ids /\ Tanks \subseteq Ids /\ NoWriter \in WriterType
      /\ NoWriter.tanks = {} /\ \A i \in Rows : kind[i] \in DeviceType /\ name[i] \in Names
    BY NoWriterType DEF RegistryInv, RegistryTypeOK, WriterType, WriterSteps, Rows, Tanks, NoWriter
<1>1. CASE AllocateName(w)
  <2>1. PICK n \in Names, type \in DeviceType :
          Continue(w, [NoWriter EXCEPT !.pc = IF type = "tank" THEN "tanks" ELSE "insert",
                                       !.name = n, !.type = type])
      BY <1>1 DEF AllocateName
  <2> DEFINE step == [NoWriter EXCEPT !.pc = IF type = "tank" THEN "tanks" ELSE "insert",
                                      !.name = n, !.type = type]
  <2>2. step \in WriterType /\ step.tanks = {} /\ step.pc # "confirm"
        /\ (step.pc = "tanks" => step.type = "tank")
      BY <1>0 DEF WriterType, WriterSteps
  <2> QED
      BY <2>1, <2>2, ReadTable DEF Continue
<1>2. CASE SelectTanks(w)
  <2> DEFINE step == [writer[w] EXCEPT !.pc = "insert",
                                       !.tanks = {i \in Tanks : name[i] # writer[w].name}]
  <2>1. step \in WriterType /\ step.pc # "confirm" /\ Continue(w, step)
      BY <1>0, <1>2 DEF WriterType, WriterSteps, SelectTanks
  <2>2. writer[w].pc = "tanks"
      BY <1>2 DEF SelectTanks
  <2>3. step.type = "tank" /\ step.pc = "insert"
      BY <1>0, <2>2 DEF TanksFit, WriterType
  <2> QED
      BY <2>1, <2>3, ReadTable DEF Continue
<1>3. CASE ConfirmType(w)
  <2>1. PICK i \in Rows, type \in DeviceType :
          Continue(w, [NoWriter EXCEPT !.pc = "select", !.id = i, !.name = name[i],
                                       !.type = type])
      BY <1>3 DEF ConfirmType
  <2> DEFINE step == [NoWriter EXCEPT !.pc = "select", !.id = i, !.name = name[i],
                                      !.type = type]
  <2>2. step \in WriterType /\ step.pc = "select"
      BY <1>0 DEF WriterType, WriterSteps
  <2> QED
      BY <2>1, <2>2, ReadTable DEF Continue
<1>4. CASE SelectConfirm(w)
  <2> DEFINE i == writer[w].id
             tanks == IF writer[w].type = "tank"
                      THEN {j \in Tanks : name[j] # writer[w].name} ELSE {}
             step == [writer[w] EXCEPT !.pc = "confirm", !.own = kind[i], !.tanks = tanks]
  <2>1. CASE i \notin Rows
    <3>1. Finish(w) /\ UNCHANGED <<kind, name, staleList>>
        BY <1>4, <2>1 DEF SelectConfirm, RollBack
    <3> QED
        BY <3>1, NoWriterType, ReadTable DEF Finish
  <2>2. CASE i \in Rows
    <3>1. Continue(w, step) /\ UNCHANGED <<kind, name, staleList>>
        BY <1>4, <2>2 DEF SelectConfirm, Continue
    <3>2. /\ step \in WriterType /\ step.type = writer[w].type /\ step.tanks = tanks
          /\ step.own = kind[i] /\ step.id = i
        BY <1>0, <2>2 DEF WriterType, WriterSteps
    <3>3. (step.type = "plant" => step.tanks = {}) /\ step.pc = "confirm"
        BY <3>2
    <3>4. step.own = "tank" /\ ~staleList => step.tanks \subseteq {step.id}
      <4>1. kind[i] = "tank" /\ ~staleList => Tanks = {i}
          BY <1>0, <2>2 DEF AtMostOne, Tanks
      <4> QED
          BY <3>2, <4>1
    <3> HIDE DEF step
    <3> QED
        BY <3>1, <3>2, <3>3, <3>4, ReadTable DEF Continue
  <2> QED
      BY <2>1, <2>2
<1>5. CASE CheckName(w)
  <2>1. PICK i \in Rows, n \in Names :
          Continue(w, [NoWriter EXCEPT !.pc = "rename", !.id = i, !.name = n])
      BY <1>5 DEF CheckName
  <2> DEFINE step == [NoWriter EXCEPT !.pc = "rename", !.id = i, !.name = n]
  <2>2. step \in WriterType /\ step.pc = "rename"
      BY <1>0 DEF WriterType, WriterSteps
  <2> QED
      BY <2>1, <2>2, ReadTable DEF Continue
<1> QED
    BY <1>1, <1>2, <1>3, <1>4, <1>5

LEMMA RenameStep ==
    ASSUME RegistryInv, NEW w \in Editors, Rename(w)
    PROVE  RegistryInv' /\ UNCHANGED kind /\ Kept
<1>0. writer[w] \in WriterType /\ RegistryTypeOK /\ AtMostOne
    BY DEF RegistryInv, RegistryTypeOK, WriterType, WriterSteps
<1>1. CASE ~(writer[w].id \in Rows /\ writer[w].name \notin Used)
  <2>1. Finish(w) /\ UNCHANGED <<kind, name, staleList>>
      BY <1>1 DEF Rename, RollBack
  <2>2. RegistryInv'
      BY <2>1, NoWriterType, ReadTable DEF Finish
  <2> QED
      BY <2>1, <2>2 DEF Kept, Rows
<1>2. CASE writer[w].id \in Rows /\ writer[w].name \notin Used
  <2>1. /\ name' = [name EXCEPT ![writer[w].id] = writer[w].name]
        /\ Finish(w) /\ UNCHANGED <<kind, staleList>> /\ writer[w].pc = "rename"
      BY <1>2 DEF Rename
  <2>2. writer[w].name \in Names /\ writer[w].id \in Ids
      BY <1>0 DEF WriterType
  <2>3. name' \in [Ids -> Names] /\ name'[writer[w].id] = writer[w].name
        /\ \A i \in Ids \ {writer[w].id} : name'[i] = name[i]
      BY <1>0, <2>1, <2>2 DEF RegistryTypeOK
  <2>4. Rows' = Rows /\ Tanks' = Tanks
      BY <2>1 DEF Rows, Tanks
  <2>5. \A i, j \in Rows' : name'[i] = name'[j] => i = j
      BY <1>0, <1>2, <2>3, <2>4 DEF RegistryTypeOK, Used, Rows
  <2>6. AtMostOne' /\ kind' \in [Ids -> DeviceType \cup {"none", "gone"}]
        /\ staleList' \in BOOLEAN /\ (staleList => staleList')
      BY <1>0, <2>1, <2>4 DEF AtMostOne, RegistryTypeOK
  <2>7. RegistryInv'
      BY <2>1, <2>3, <2>5, <2>6, WriteTable
  <2>8. Kept
      BY <2>1, <2>3 DEF Kept, Rows
  <2> QED
      BY <2>1, <2>7, <2>8
<1> QED
    BY <1>1, <1>2

LEMMA RemoveStep ==
    ASSUME RegistryInv, NEW w \in Editors, Remove(w)
    PROVE  RegistryInv' /\ UNCHANGED name /\ \A i \in Tanks : kind'[i] # "plant"
<1>0. RegistryTypeOK /\ AtMostOne
    BY DEF RegistryInv
<1>1. PICK k \in Rows : kind' = [kind EXCEPT ![k] = "gone"]
    BY DEF Remove
<1>2. UNCHANGED <<name, writer, staleList>>
    BY DEF Remove
<1>3. /\ kind' \in [Ids -> DeviceType \cup {"none", "gone"}]
      /\ \A i \in Ids : kind'[i] = IF i = k THEN "gone" ELSE kind[i]
    BY <1>0, <1>1 DEF RegistryTypeOK, Rows
<1>4. Rows' = Rows \ {k} /\ Tanks' = Tanks \ {k}
    BY <1>3 DEF Rows, Tanks, DeviceType
<1>5. AtMostOne'
    BY <1>0, <1>2, <1>4 DEF AtMostOne
<1>6. name' \in [Ids -> Names] /\ staleList' \in BOOLEAN
      /\ \A i, j \in Rows' : name'[i] = name'[j] => i = j
    BY <1>0, <1>2, <1>4 DEF RegistryTypeOK
<1>7. RegistryInv'
    BY <1>2, <1>3, <1>5, <1>6, WriteTable
<1> QED
    BY <1>2, <1>3, <1>7 DEF Tanks, Rows

LEMMA RegistryStep ==
    ASSUME RegistryInv, [RegistryNext]_registryVars
    PROVE  RegistryInv' /\ (RegistryNext => Replaced /\ Kept)
<1>1. CASE UNCHANGED registryVars
  <2>1. UNCHANGED <<kind, name, writer, staleList>>
      BY <1>1 DEF registryVars
  <2>2. RegistryInv'
      BY <2>1 DEF RegistryInv, RegistryTypeOK, AtMostOne, TanksFit, Rows, Tanks
  <2> QED
      BY <2>1, <2>2 DEF Replaced, Kept, Tanks
<1>2. ASSUME NEW w \in Editors,
             AllocateName(w) \/ SelectTanks(w) \/ ConfirmType(w) \/ SelectConfirm(w) \/ CheckName(w)
      PROVE  RegistryInv' /\ Replaced /\ Kept
    BY <1>2, ReadingStep DEF Replaced, Kept, Tanks
<1>3. ASSUME NEW w \in Editors, Insert(w) PROVE RegistryInv' /\ Replaced /\ Kept
    BY <1>3, InsertStep DEF Replaced, Kept
<1>4. ASSUME NEW w \in Editors, CommitConfirm(w) PROVE RegistryInv' /\ Replaced /\ Kept
    BY <1>4, CommitStep DEF Kept
<1>5. ASSUME NEW w \in Editors, Rename(w) PROVE RegistryInv' /\ Replaced /\ Kept
    BY <1>5, RenameStep DEF Replaced, Tanks
<1>6. ASSUME NEW w \in Editors, Remove(w) PROVE RegistryInv' /\ Replaced /\ Kept
    BY <1>6, RemoveStep DEF Replaced, Kept
<1> QED
    BY <1>1, <1>2, <1>3, <1>4, <1>5, <1>6 DEF RegistryNext

-----------------------------------------------------------------------------

\* The names of the table are unique, at most one row is a tank unless one was
\* made from a stale list, and what a writer has read of the tanks still fits.
THEOREM RegistrySafe == RegistrySpec => []RegistryInv
BY InitRegistry, RegistryStep, PTL DEF RegistrySpec

\* Whatever discoveries, confirmations and renames overlap, no two devices of
\* the table have one name.
THEOREM RegistryTypeCorrect == RegistrySpec => []RegistryTypeOK
<1>1. RegistryInv => RegistryTypeOK
    BY DEF RegistryInv
<1> QED
    BY <1>1, RegistrySafe, PTL

\* At most one tank, unless a list of the tanks was stale when it was used.
THEOREM OneTankOnly == RegistrySpec => []OneTank
<1>1. RegistryInv => OneTank
  <2> SUFFICES ASSUME RegistryInv, ~staleList PROVE Cardinality(Tanks) <= 1
      BY DEF OneTank
  <2>1. \A i, j \in Tanks : i = j
      BY DEF RegistryInv, AtMostOne
  <2>2. CASE Tanks = {}
    <3>1. Cardinality(Tanks) = 0
        BY <2>2, FS_EmptySet, Zenon
    <3> QED
        BY <3>1
  <2>3. CASE Tanks # {}
    <3>1. PICK i \in Tanks : Tanks = {i}
        BY <2>1, <2>3
    <3>2. Cardinality(Tanks) = 1
        BY <3>1, FS_Singleton, Zenon
    <3> QED
        BY <3>2
  <2> QED
      BY <2>2, <2>3
<1> QED
    BY <1>1, RegistrySafe, PTL

\* No step leaves the site without its tank: who demotes it puts another in its
\* place.
THEOREM TankReplaced == RegistrySpec => TankIsReplaced
<1>1. RegistryInv /\ [RegistryNext]_registryVars => [Replaced]_registryVars
    BY RegistryStep
<1>2. RegistrySpec => [][Replaced]_registryVars
    BY <1>1, RegistrySafe, PTL DEF RegistrySpec
<1> QED
    BY <1>2 DEF TankIsReplaced, Replaced

\* Only a rename changes the name of a row, to the name it was asked for.
THEOREM NamesKept == RegistrySpec => NamesAreKept
<1>1. RegistryInv /\ [RegistryNext]_registryVars => [Kept]_registryVars
    BY RegistryStep
<1>2. RegistrySpec => [][Kept]_registryVars
    BY <1>1, RegistrySafe, PTL DEF RegistrySpec
<1> QED
    BY <1>2 DEF NamesAreKept, Kept

-----------------------------------------------------------------------------
(* The users and their sessions: SessionHasUser needs that an id is not used   *)
(* again and that a login creates its session only for a user it has found.   *)

\* The user of a login that is about to create the session is there, or was dropped
\* after create_session_for_user had found it.
LoginsFit == \A l \in Logins \ bereft : login[l].pc = "insert" => login[l].user \in users

SessionsInv == SessionsTypeOK /\ LoginsFit /\ SessionHasUser

LEMMA SessionsInitially == SessionsInit => SessionsInv
BY UsersAssumption DEF SessionsInit, SessionsInv, SessionsTypeOK, LoginsFit, SessionHasUser,
                       Accepted, AnyUser

LEMMA SessionsStep ==
    ASSUME SessionsInv, [SessionsNext]_sessionVars
    PROVE  SessionsInv'
<1> USE DEF SessionsInv, SessionsTypeOK, LoginsFit, SessionHasUser, Accepted
<1>1. CASE UNCHANGED sessionVars
    BY <1>1 DEF sessionVars
<1>2. ASSUME NEW u \in Users, AddUser(u) PROVE SessionsInv'
    BY <1>2 DEF AddUser
<1>3. ASSUME NEW u \in Users, DropUser(u) PROVE SessionsInv'
  <2>1. /\ users' = users \ {u} /\ UNCHANGED <<login, late>>
        /\ session' = [s \in Sessions |->
               IF session[s].user = u /\ session[s].state # "none"
               THEN [session[s] EXCEPT !.state = "dropped"] ELSE session[s]]
        /\ bereft' = bereft \cup {l \in Logins : login[l] = [pc |-> "insert", user |-> u]}
      BY <1>3 DEF DropUser
  <2>2. \A s \in Sessions :
          /\ session'[s] \in [user : Users, state : {"none", "active", "revoked", "expired", "dropped"}]
          /\ session'[s].user = session[s].user
          /\ session'[s].state = IF session[s].user = u /\ session[s].state # "none"
                                 THEN "dropped" ELSE session[s].state
      BY <2>1
  <2>3. SessionsTypeOK'
      BY <2>1, <2>2
  <2>4. LoginsFit'
    <3> SUFFICES ASSUME NEW l \in Logins, l \notin bereft', login[l].pc = "insert"
                 PROVE  login[l].user \in users'
        BY <2>1
    <3>1. l \notin bereft /\ login[l] # [pc |-> "insert", user |-> u]
        BY <2>1
    <3>2. login[l] = [pc |-> login[l].pc, user |-> login[l].user]
        OBVIOUS
    <3> QED
        BY <2>1, <3>1, <3>2
  <2>5. SessionHasUser'
      BY <2>1, <2>2
  <2> QED
      BY <2>3, <2>4, <2>5
<1>4. ASSUME NEW l \in Logins, VerifyPassword(l) \/ EnsureExternalUser(l) \/ CheckUser(l)
      PROVE  SessionsInv'
  <2>1. users \subseteq users' /\ users' \subseteq Users /\ UNCHANGED <<session, bereft, late>>
      BY <1>4 DEF VerifyPassword, EnsureExternalUser, CheckUser
  <2>2. PICK pc \in {"idle", "check", "insert"}, u \in Users :
          SetLogin(l, pc, u) /\ (pc = "insert" => u \in users)
      BY <1>4 DEF VerifyPassword, EnsureExternalUser, CheckUser
  <2>3. /\ login' \in [Logins -> [pc : {"idle", "check", "insert"}, user : Users]]
        /\ \A k \in Logins : login'[k] = IF k = l THEN [pc |-> pc, user |-> u] ELSE login[k]
      BY <2>2 DEF SetLogin
  <2>4. LoginsFit'
      BY <2>1, <2>2, <2>3
  <2> QED
      BY <2>1, <2>3, <2>4
<1>5. ASSUME NEW l \in Logins, InsertSession(l) PROVE SessionsInv'
  <2>1. PICK t \in Sessions :
          /\ login[l].pc = "insert" /\ session[t].state = "none"
          /\ session' = [session EXCEPT ![t] = [user |-> login[l].user, state |-> "active"]]
          /\ SetLogin(l, "idle", login[l].user)
          /\ late' = IF l \in bereft /\ login[l].user \notin users THEN late \cup {t} ELSE late
          /\ bereft' = bereft \ {l}
          /\ UNCHANGED users
      BY <1>5 DEF InsertSession
  <2>2. login[l].user \in Users /\ (l \notin bereft => login[l].user \in users)
      BY <2>1
  <2>3. /\ \A s \in Sessions : session'[s] = IF s = t THEN [user |-> login[l].user, state |-> "active"]
                                             ELSE session[s]
        /\ \A k \in Logins : login'[k] = IF k = l THEN [pc |-> "idle", user |-> login[l].user]
                                         ELSE login[k]
      BY <2>1 DEF SetLogin
  <2>4. SessionsTypeOK'
      BY <2>1, <2>2, <2>3 DEF SetLogin
  <2>5. LoginsFit'
      BY <2>1, <2>3
  <2>6. SessionHasUser'
      BY <2>1, <2>2, <2>3
  <2> QED
      BY <2>4, <2>5, <2>6
<1>6. ASSUME NEW t \in Sessions, Logout(t) \/ Expire(t) PROVE SessionsInv'
  <2>1. PICK state \in {"revoked", "expired"} :
          /\ session' = [session EXCEPT ![t].state = state]
          /\ UNCHANGED <<users, login, bereft, late>>
      BY <1>6 DEF Logout, Expire
  <2>2. \A s \in Sessions :
          /\ session'[s].user = session[s].user
          /\ session'[s].state = IF s = t THEN state ELSE session[s].state
      BY <2>1
  <2>3. SessionsTypeOK'
      BY <2>1, <2>2
  <2>4. LoginsFit' /\ SessionHasUser'
      BY <2>1, <2>2
  <2> QED
      BY <2>3, <2>4
<1> QED
    BY <1>1, <1>2, <1>3, <1>4, <1>5, <1>6 DEF SessionsNext

\* The rows of users, sessions and logins are well formed for any number of them.
THEOREM SessionsTypeCorrect == SessionsSpec => []SessionsTypeOK
<1>1. SessionsInv => SessionsTypeOK
    BY DEF SessionsInv
<1> QED
    BY <1>1, SessionsInitially, SessionsStep, PTL DEF SessionsSpec

\* A session that is accepted has a user, unless the user was dropped between
\* the last two transactions of its login.
THEOREM SessionsHaveUsers == SessionsSpec => []SessionHasUser
<1>1. SessionsInv => SessionHasUser
    BY DEF SessionsInv
<1> QED
    BY <1>1, SessionsInitially, SessionsStep, PTL DEF SessionsSpec

-----------------------------------------------------------------------------
(* The weight sensor *)

\* The value read i reads ago.
Back(i) == recent[Len(recent) - i]

\* The values that are counted are the last ones: they began with the
\* candidate, are near it and off the level.
DoubtsFit ==
    /\ count <= Len(recent)
    /\ count > 0 => Back(count - 1) = candidate
    /\ \A i \in 0..count - 1 : ~Near(Back(i), good) /\ Near(Back(i), candidate)

Steady(k) == \A i, j \in 0..k - 1 : Near(Back(i), Back(j))

\* Of values that are near each other the last is the level, or a doubt began
\* before them, or it began among the first ConfirmCount - 1 of them.
FollowsFit ==
    \A k \in 1..Len(recent) : Steady(k) =>
       \/ good = Back(0)
       \/ count > 0 /\ (count <= k => k - count <= ConfirmCount - 2)

SensorInv == SensorTypeOK /\ DoubtsFit /\ FollowsFit

LEMMA SensorBounds ==
    /\ Raws \subseteq Nat /\ NoRaw \notin Raws /\ MaxRawJump \in Nat
    /\ ConfirmCount \in Nat /\ ConfirmCount >= 2 /\ Enough \in Nat
    /\ Enough = 2 * ConfirmCount - 2 /\ Enough >= ConfirmCount
BY SensorAssumption DEF NoRaw, Enough

\* What is remembered of the reads after one more.
LEMMA Remembered ==
    ASSUME SensorTypeOK, NEW raw \in Raws, Remember(raw)
    PROVE  /\ recent' \in Seq(Raws) /\ Len(recent') \in Nat /\ Len(recent) \in Nat
           /\ Len(recent') <= Enough /\ Len(recent') >= 1
           /\ Len(recent') = Len(recent) + 1 \/ (Len(recent') = Enough /\ Len(recent) = Enough)
           /\ Back(0)' = raw
           /\ \A i \in 1..Len(recent') - 1 : Back(i)' = Back(i - 1) /\ i - 1 \in 0..Len(recent) - 1
           /\ \A i \in 0..Len(recent) - 1 : Back(i) \in Raws
  <1> DEFINE n == Len(recent)
             all == Append(recent, raw)
  <1>1. recent \in Seq(Raws) /\ n \in Nat /\ n <= Enough /\ Enough \in Nat /\ Enough >= 2
    BY SensorBounds DEF SensorTypeOK
  <1>2. /\ all \in Seq(Raws) /\ Len(all) = n + 1 /\ all[n + 1] = raw
        /\ \A i \in 1..n : all[i] = recent[i]
    BY <1>1
  <1>3. \A i \in 0..n - 1 : Back(i) \in Raws
    <2> SUFFICES ASSUME NEW i \in 0..n - 1 PROVE recent[n - i] \in Raws
      BY DEF Back
    <2>1. n - i \in 1..n
      BY <1>1
    <2> QED
      BY <1>1, <2>1
  <1>4. CASE Len(all) <= Enough
    <2>1. recent' = all
      BY <1>1, <1>2, <1>4 DEF Remember
    <2>2. Len(recent') = n + 1 /\ recent'[n + 1] = raw
      BY <1>2, <2>1
    <2>3. \A i \in 1..n : n + 1 - i \in 1..n /\ recent'[n + 1 - i] = recent[n - (i - 1)]
      <3> SUFFICES ASSUME NEW i \in 1..n
                   PROVE  n + 1 - i \in 1..n /\ recent'[n + 1 - i] = recent[n - (i - 1)]
        OBVIOUS
      <3>1. n + 1 - i \in 1..n /\ n + 1 - i = n - (i - 1)
        BY <1>1
      <3> QED
        BY <1>2, <2>1, <3>1
    <2>4. Back(0)' = raw
      BY <1>1, <2>2 DEF Back
    <2>5. \A i \in 1..n : Back(i)' = Back(i - 1) /\ i - 1 \in 0..n - 1
      BY <1>1, <2>2, <2>3 DEF Back
    <2>6. recent' \in Seq(Raws)
      BY <1>2, <2>1
    <2>7. Len(recent') - 1 = n /\ Len(recent') \in Nat /\ Len(recent') >= 1 /\ Len(recent') <= Enough
      BY <1>1, <1>2, <1>4, <2>2
    <2> QED
      BY <1>1, <1>3, <2>2, <2>4, <2>5, <2>6, <2>7
  <1>5. CASE Len(all) > Enough
    <2>1. recent' = Tail(all) /\ n = Enough
      BY <1>1, <1>2, <1>5 DEF Remember
    <2>2. recent' \in Seq(Raws) /\ Len(recent') = n /\ \A i \in 1..n : recent'[i] = all[i + 1]
      BY <1>1, <1>2, <2>1
    <2>3. n \in 1..n /\ n >= 2
      BY <1>1, <2>1
    <2>4. Back(0)' = raw
      BY <1>1, <1>2, <2>2, <2>3 DEF Back
    <2>5. \A i \in 1..n - 1 : Back(i)' = Back(i - 1) /\ i - 1 \in 0..n - 1
      <3> SUFFICES ASSUME NEW i \in 1..n - 1
                   PROVE  Back(i)' = Back(i - 1) /\ i - 1 \in 0..n - 1
        OBVIOUS
      <3>1. n - i \in 1..n /\ n - i + 1 \in 1..n /\ n - i + 1 = n - (i - 1) /\ i - 1 \in 0..n - 1
        BY <1>1
      <3>2. recent'[n - i] = recent[n - i + 1]
        BY <1>2, <2>2, <3>1
      <3> QED
        BY <2>2, <3>1, <3>2 DEF Back
    <2> QED
      BY <1>1, <1>3, <2>1, <2>2, <2>3, <2>4, <2>5
  <1> QED
    BY <1>1, <1>2, <1>4, <1>5

LEMMA NearIs ==
    /\ \A a \in Raws : Near(a, a)
    /\ \A a, b \in Raws : Near(a, b) => Near(b, a)
BY SensorBounds DEF Near

LEMMA SensorRead ==
    ASSUME SensorInv, NEW raw \in Raws, ReadRaw(raw)
    PROVE  SensorInv'
  <1> DEFINE n == Len(recent)
             m == Len(recent')
  <1>0. /\ SensorTypeOK /\ DoubtsFit /\ FollowsFit /\ Remember(raw)
        /\ count \in Nat /\ count <= ConfirmCount - 1
    BY SensorBounds DEF SensorInv, SensorTypeOK, ReadRaw
  <1>1. /\ recent' \in Seq(Raws) /\ n \in Nat /\ m \in Nat /\ m <= Enough /\ m >= 1
        /\ m = n + 1 \/ (m = Enough /\ n = Enough)
        /\ Back(0)' = raw
        /\ \A i \in 1..m - 1 : Back(i)' = Back(i - 1) /\ i - 1 \in 0..n - 1
        /\ \A i \in 0..n - 1 : Back(i) \in Raws
    BY <1>0, Remembered
  <1> HIDE DEF n, m
  <1>2. \A i \in 0..m - 1 : Back(i)' \in Raws
    <2> SUFFICES ASSUME NEW i \in 0..m - 1 PROVE Back(i)' \in Raws
      OBVIOUS
    <2>1. CASE i = 0
      BY <1>1, <2>1
    <2>2. CASE i # 0
      <3>1. i \in 1..m - 1
        BY <1>1, <2>2
      <3> QED
        BY <1>1, <3>1
    <2> QED
      BY <2>1, <2>2
  <1>3. CASE TakeFirst(raw) \/ TakeNear(raw) \/ (ConfirmLevel(raw) /\ count + 1 >= ConfirmCount)
    <2>1. good' = raw /\ candidate' = NoRaw /\ count' = 0
      BY <1>3 DEF TakeFirst, TakeNear, ConfirmLevel, Take
    <2>2. SensorTypeOK'
      BY <1>1, <2>1, SensorBounds DEF SensorTypeOK, m
    <2>3. DoubtsFit'
      BY <1>1, <2>1 DEF DoubtsFit, m
    <2>4. FollowsFit'
      BY <1>1, <2>1 DEF FollowsFit
    <2> QED
      BY <2>2, <2>3, <2>4 DEF SensorInv
  <1>4. CASE DoubtRaw(raw)
    <2>1. /\ good' = good /\ candidate' = raw /\ count' = 1
          /\ good # NoRaw /\ ~Near(raw, good) /\ (candidate = NoRaw \/ ~Near(raw, candidate))
      BY <1>4 DEF DoubtRaw, Doubt, Jump
    <2>2. SensorTypeOK'
      BY <1>0, <1>1, <2>1, SensorBounds DEF SensorTypeOK, m
    <2>3. DoubtsFit'
      <3>1. 0..count' - 1 = {0}
        BY <2>1
      <3>2. Near(raw, raw) /\ count' <= m
        BY <1>1, <2>1, NearIs
      <3>3. Back(count - 1)' = candidate'
        <4>1. count' - 1 = 0
          BY <2>1
        <4> QED
          BY <1>1, <2>1, <4>1 DEF Back
      <3> QED
        BY <1>1, <2>1, <3>1, <3>2, <3>3 DEF DoubtsFit, m
    <2>4. ASSUME NEW k \in 1..m, Steady(k)'
          PROVE  k - 1 <= ConfirmCount - 2
      <3>1. CASE k = 1
        BY <3>1, SensorBounds
      <3>2. CASE k # 1
        <4> DEFINE l == k - 1
        <4>1. l \in 1..n /\ l \in 1..m - 1 /\ k = l + 1
          BY <1>1, <3>2
        <4>2. \A i \in 0..l - 1 : i + 1 \in 1..m - 1 /\ i + 1 \in 0..k - 1 /\ Back(i) = Back(i + 1)'
          <5> SUFFICES ASSUME NEW i \in 0..l - 1
                       PROVE  i + 1 \in 1..m - 1 /\ i + 1 \in 0..k - 1 /\ Back(i) = Back(i + 1)'
            OBVIOUS
          <5>1. i + 1 \in 1..m - 1 /\ i + 1 \in 0..k - 1 /\ (i + 1) - 1 = i
            BY <1>1, <4>1
          <5> QED
            BY <1>1, <5>1
        <4>3. Steady(l)
          BY <2>4, <4>2 DEF Steady
        <4>4. \A i \in 0..l - 1 : Near(raw, Back(i))
          <5>1. 0 \in 0..k - 1
            BY <1>1
          <5> QED
            BY <1>1, <2>4, <4>2, <5>1 DEF Steady
        <4>5. good # Back(0)
          BY <2>1, <4>1, <4>4
        <4>6. count > 0
          BY <1>0, <4>1, <4>3, <4>5 DEF FollowsFit, n
        <4>7. count > l
          <5> SUFFICES ASSUME count <= l PROVE FALSE
            BY <1>0, <4>1
          <5>1. count - 1 \in 0..l - 1
            BY <1>0, <4>1, <4>6
          <5>2. Near(raw, candidate)
            BY <1>0, <4>4, <4>6, <5>1 DEF DoubtsFit
          <5>3. candidate # NoRaw
            BY <1>0, <4>6 DEF SensorTypeOK
          <5> QED
            BY <2>1, <5>2, <5>3
        <4> QED
          BY <1>0, <4>1, <4>7, SensorBounds
      <3> QED
        BY <3>1, <3>2
    <2>5. FollowsFit'
      BY <2>1, <2>4 DEF FollowsFit, m
    <2> QED
      BY <2>2, <2>3, <2>5 DEF SensorInv
  <1>5. CASE ConfirmLevel(raw) /\ count + 1 < ConfirmCount
    <2>1. /\ good' = good /\ candidate' = candidate /\ count' = count + 1
          /\ good # NoRaw /\ ~Near(raw, good) /\ candidate # NoRaw /\ Near(raw, candidate)
      BY <1>0, <1>5, SensorBounds DEF ConfirmLevel, Jump
    <2>2. count > 0 /\ candidate \in Raws
      BY <1>0, <2>1 DEF SensorTypeOK
    <2>3. SensorTypeOK'
      BY <1>0, <1>1, <1>5, <2>1, <2>2, SensorBounds DEF SensorTypeOK, m
    <2>4. count <= n /\ count + 1 <= m
      BY <1>0, <1>1, <1>5, SensorBounds DEF DoubtsFit, n
    <2>5. \A i \in 1..count : Back(i)' = Back(i - 1) /\ i - 1 \in 0..count - 1
      <3> SUFFICES ASSUME NEW i \in 1..count
                   PROVE  Back(i)' = Back(i - 1) /\ i - 1 \in 0..count - 1
        OBVIOUS
      <3>1. i \in 1..m - 1 /\ i - 1 \in 0..count - 1
        BY <1>0, <1>1, <2>4
      <3> QED
        BY <1>1, <3>1
    <2>6. DoubtsFit'
      <3>1. Back(count - 1)' = candidate'
        <4>1. count \in 1..count /\ count' - 1 = count
          BY <1>0, <2>1, <2>2
        <4>2. ASSUME NEW i \in 1..count, i = count PROVE Back(i)' = candidate
          BY <1>0, <2>2, <2>5, <4>2 DEF DoubtsFit
        <4>3. recent'[Len(recent') - count] = candidate
          BY <4>1, <4>2 DEF Back
        <4> QED
          BY <2>1, <4>1, <4>3 DEF Back
      <3>2. \A i \in 0..count : ~Near(Back(i)', good) /\ Near(Back(i)', candidate)
        <4> SUFFICES ASSUME NEW i \in 0..count
                     PROVE  ~Near(Back(i)', good) /\ Near(Back(i)', candidate)
          OBVIOUS
        <4>1. CASE i = 0
          BY <1>1, <2>1, <4>1
        <4>2. CASE i # 0
          <5>1. i \in 1..count
            BY <1>0, <4>2
          <5> QED
            BY <1>0, <2>5, <5>1 DEF DoubtsFit
        <4> QED
          BY <4>1, <4>2
      <3>3. count' - 1 = count /\ count' <= m
        BY <1>0, <2>1, <2>4
      <3>4. (\A i \in 0..count - 1 : ~Near(Back(i), good) /\ Near(Back(i), candidate))'
        BY <2>1, <3>2, <3>3
      <3> QED
        BY <3>1, <3>3, <3>4 DEF DoubtsFit, m
    <2>7. ASSUME NEW k \in 1..m, Steady(k)', good' # Back(0)', count' <= k
          PROVE  k - count' <= ConfirmCount - 2
      <3> DEFINE l == k - 1
      <3>1. l \in 1..n /\ l \in 1..m - 1 /\ k = l + 1 /\ count <= l
        BY <1>0, <1>1, <2>1, <2>2, <2>7
      <3>2. \A i \in 0..l - 1 : i + 1 \in 1..m - 1 /\ i + 1 \in 0..k - 1 /\ Back(i) = Back(i + 1)'
        <4> SUFFICES ASSUME NEW i \in 0..l - 1
                     PROVE  i + 1 \in 1..m - 1 /\ i + 1 \in 0..k - 1 /\ Back(i) = Back(i + 1)'
          OBVIOUS
        <4>1. i + 1 \in 1..m - 1 /\ i + 1 \in 0..k - 1 /\ (i + 1) - 1 = i
          BY <1>1, <3>1
        <4> QED
          BY <1>1, <4>1
      <3>3. Steady(l)
        BY <2>7, <3>2 DEF Steady
      <3>4. good # Back(0)
        <4>1. 0 \in 0..l - 1 /\ 0 \in 0..count - 1 /\ Back(0) \in Raws
          BY <1>0, <1>1, <2>2, <2>4, <3>1
        <4> QED
          BY <1>0, <4>1, NearIs DEF DoubtsFit
      <3>5. l - count <= ConfirmCount - 2
        BY <1>0, <3>1, <3>3, <3>4 DEF FollowsFit, n
      <3> QED
        BY <1>0, <2>1, <3>1, <3>5, SensorBounds
    <2>8. FollowsFit'
      BY <1>0, <2>1, <2>7 DEF FollowsFit, m
    <2> QED
      BY <2>3, <2>6, <2>8 DEF SensorInv
  <1> QED
    BY <1>0, <1>3, <1>4, <1>5, SensorBounds DEF ReadRaw

\* Between the reads of hx711_accept_or_skip_raw and over reboots, what is doubted
\* is what was read last, and a level that stays is doubted only for so long.
THEOREM SensorSafe == SensorSpec => []SensorInv
  <1>1. SensorInit => SensorInv
    BY SensorBounds DEF SensorInit, SensorInv, SensorTypeOK, DoubtsFit, FollowsFit
  <1>2. SensorInv /\ [SensorNext]_sensorVars => SensorInv'
    <2> SUFFICES ASSUME SensorInv, [SensorNext]_sensorVars PROVE SensorInv'
      OBVIOUS
    <2>1. CASE Boot
      BY <2>1, SensorBounds DEF Boot, SensorInv, SensorTypeOK, DoubtsFit, FollowsFit
    <2>2. CASE UNCHANGED sensorVars
      BY <2>2 DEF sensorVars, SensorInv, SensorTypeOK, DoubtsFit, FollowsFit, Steady, Back
    <2> QED
      BY <2>1, <2>2, SensorRead DEF SensorNext
  <1> QED
    BY <1>1, <1>2, PTL DEF SensorSpec

\* anomaly_count and anomaly_candidate_raw are in use together, and what is
\* doubted is away from last_good_raw.
THEOREM SensorTypeCorrect == SensorSpec => []SensorTypeOK
  <1>1. SensorInv => SensorTypeOK
    BY DEF SensorInv
  <1> QED
    BY <1>1, SensorSafe, PTL

\* hx711_accept_or_skip_raw follows a weight that has changed for good, whatever
\* raw values it has skipped before.
THEOREM LevelFollowed == SensorSpec => []LevelIsFollowed
  <1>1. SensorInv => LevelIsFollowed
    <2> SUFFICES ASSUME SensorInv, Len(recent) = Enough,
                        \A i, j \in 1..Enough : Near(recent[i], recent[j])
                 PROVE  good = recent[Enough]
      BY DEF LevelIsFollowed
    <2>1. Enough \in 1..Len(recent) /\ Enough >= ConfirmCount /\ Enough = 2 * ConfirmCount - 2
          /\ ConfirmCount \in Nat
      BY SensorBounds
    <2>2. count \in Nat /\ count <= ConfirmCount - 1
      BY SensorBounds DEF SensorInv, SensorTypeOK
    <2>3. Steady(Enough)
      <3>1. \A i \in 0..Enough - 1 : Enough - i \in 1..Enough
        BY <2>1
      <3> QED
        BY <3>1 DEF Steady, Back
    <2>4. good = Back(0)
      <3>1. ~(count <= Enough /\ Enough - count <= ConfirmCount - 2) /\ count <= Enough
        BY <2>1, <2>2
      <3> QED
        BY <2>1, <2>3, <3>1 DEF SensorInv, FollowsFit
    <2> QED
      BY <2>1, <2>4 DEF Back
  <1> QED
    BY <1>1, SensorSafe, PTL

\* hx711_accept_or_skip_raw leaves a level only for one that ConfirmCount values
\* in a row have shown: spikes between good values never add up.
THEOREM SpikesSkipped == SensorSpec => SpikesAreSkipped
  <1> DEFINE Slow == good # NoRaw /\ good' # NoRaw /\ ~Near(good', good) =>
                       /\ Len(recent') >= ConfirmCount
                       /\ \A i \in 1..ConfirmCount : /\ ~Near(Newest(ConfirmCount)[i], good)
                                                     /\ Near(Newest(ConfirmCount)[i], Newest(ConfirmCount)[1])
  <1>1. SensorInv /\ [SensorNext]_sensorVars => [Slow]_sensorVars
    <2> SUFFICES ASSUME SensorInv, SensorNext, good # NoRaw, good' # NoRaw, ~Near(good', good)
                 PROVE  /\ Len(recent') >= ConfirmCount
                        /\ \A i \in 1..ConfirmCount :
                              /\ ~Near(Newest(ConfirmCount)[i], good)
                              /\ Near(Newest(ConfirmCount)[i], Newest(ConfirmCount)[1])
      OBVIOUS
    <2>0. /\ SensorTypeOK /\ DoubtsFit /\ count \in Nat /\ count <= ConfirmCount - 1 /\ good \in Raws
          /\ candidate \in Raws \cup {NoRaw}
      BY SensorBounds DEF SensorInv, SensorTypeOK
    <2>1. PICK raw \in Raws : ReadRaw(raw)
      BY DEF SensorNext, Boot
    <2>2. /\ ConfirmLevel(raw) /\ count + 1 >= ConfirmCount /\ good' = raw
          /\ ~Near(raw, good) /\ candidate # NoRaw /\ Near(raw, candidate)
      BY <2>0, <2>1, NearIs DEF ReadRaw, TakeFirst, TakeNear, DoubtRaw, Doubt, ConfirmLevel, Take, Jump
    <2>3. count = ConfirmCount - 1 /\ count >= 1 /\ candidate \in Raws
      BY <2>0, <2>2, SensorBounds
    <2> DEFINE m == Len(recent')
               n == Len(recent)
    <2>4. /\ recent' \in Seq(Raws) /\ n \in Nat /\ m \in Nat /\ m <= Enough /\ m >= 1
          /\ m = n + 1 \/ (m = Enough /\ n = Enough)
          /\ Back(0)' = raw
          /\ \A i \in 1..m - 1 : Back(i)' = Back(i - 1) /\ i - 1 \in 0..n - 1
      BY <2>0, <2>1, Remembered DEF ReadRaw
    <2>5. count <= n
      BY <2>0 DEF DoubtsFit
    <2> HIDE DEF n
    <2>6. m >= ConfirmCount
      BY <2>3, <2>4, <2>5, SensorBounds
    <2>7. \A i \in 0..count : ~Near(Back(i)', good) /\ Near(Back(i)', candidate)
      <3> SUFFICES ASSUME NEW i \in 0..count
                   PROVE  ~Near(Back(i)', good) /\ Near(Back(i)', candidate)
        OBVIOUS
      <3>1. CASE i = 0
        BY <2>2, <2>4, <3>1
      <3>2. CASE i # 0
        <4>1. i \in 1..m - 1 /\ i - 1 \in 0..count - 1
          BY <2>0, <2>3, <2>4, <2>6, <3>2, SensorBounds
        <4> QED
          BY <2>0, <2>4, <4>1 DEF DoubtsFit
      <3> QED
        BY <3>1, <3>2
    <2>8. ASSUME NEW i \in 0..count, i = count PROVE Back(i)' = candidate
      <3>1. i \in 1..m - 1
        BY <2>3, <2>4, <2>6, <2>8, SensorBounds
      <3> QED
        BY <2>0, <2>3, <2>4, <2>8, <3>1 DEF DoubtsFit
    <2>9. \A i \in 1..ConfirmCount : Newest(ConfirmCount)[i] = Back(ConfirmCount - i)'
                                     /\ ConfirmCount - i \in 0..count
      <3> SUFFICES ASSUME NEW i \in 1..ConfirmCount
                   PROVE  Newest(ConfirmCount)[i] = Back(ConfirmCount - i)'
                          /\ ConfirmCount - i \in 0..count
        OBVIOUS
      <3>1. ConfirmCount - i \in 0..count /\ m - ConfirmCount + 1 \in 1..m + 1
        BY <2>3, <2>4, <2>6, SensorBounds
      <3>2. Newest(ConfirmCount)[i] = recent'[(m - ConfirmCount + 1) + i - 1]
        BY <2>4, <2>6, <3>1, SensorBounds DEF Newest
      <3>3. (m - ConfirmCount + 1) + i - 1 = m - (ConfirmCount - i)
        BY <2>4, SensorBounds
      <3> QED
        BY <3>1, <3>2, <3>3 DEF Back
    <2>10. 1 \in 1..ConfirmCount /\ Newest(ConfirmCount)[1] = candidate
      <3>1. 1 \in 1..ConfirmCount /\ ConfirmCount - 1 = count
        BY <2>3, SensorBounds
      <3> QED
        BY <2>8, <2>9, <3>1
    <2> QED
      BY <2>6, <2>7, <2>9, <2>10
  <1> QED
    BY <1>1, SensorSafe, PTL DEF SensorSpec, SpikesAreSkipped

-----------------------------------------------------------------------------
(* In MCRecords one of the components runs and the others rest. *)

Records ==
    /\ LogInit /\ StateInit /\ RegistryInit /\ SessionsInit
    /\ HistoryInit /\ ConsumptionInit /\ StatisticsInit /\ SensorInit

\* A step of the eight is a step of one of them, and the others stutter.
LEMMA RecordsTakeTurns ==
  ASSUME [RecordsNext]_recordsVars
  PROVE  /\ [LogNext]_logVars /\ [StateNext]_stateVars
         /\ [RegistryNext]_registryVars /\ [SessionsNext]_sessionVars
         /\ [HistoryNext]_historyVars /\ [Measure]_consumptionVars
         /\ [StatisticsNext]_statisticsVars /\ [SensorNext]_sensorVars
<1>1. UNCHANGED recordsVars =>
         /\ UNCHANGED logVars /\ UNCHANGED stateVars /\ UNCHANGED registryVars
         /\ UNCHANGED sessionVars /\ UNCHANGED historyVars /\ UNCHANGED consumptionVars
         /\ UNCHANGED statisticsVars /\ UNCHANGED sensorVars
  BY DEF recordsVars
<1> QED
  BY <1>1 DEF RecordsNext, Others

\* MCRecords: what it runs of the operation log, the cards, the device and user
\* tables, the plant history, the consumption analysis, the statistics cache and
\* the weight sensor is each of those components, with nothing added to what it
\* may do.
THEOREM RecordsRunComponents ==
    RecordsSpec => /\ LogSpec /\ StateSpec /\ RegistrySpec /\ SessionsSpec
                   /\ HistorySpec /\ ConsumptionSpec /\ StatisticsSpec /\ SensorSpec
<1>1. RecordsInit => Records
  BY DEF RecordsInit, Records
<1>2. [RecordsNext]_recordsVars => /\ [LogNext]_logVars /\ [StateNext]_stateVars
         /\ [RegistryNext]_registryVars /\ [SessionsNext]_sessionVars
         /\ [HistoryNext]_historyVars /\ [Measure]_consumptionVars
         /\ [StatisticsNext]_statisticsVars /\ [SensorNext]_sensorVars
  BY RecordsTakeTurns
<1> QED
  BY <1>1, <1>2, PTL
     DEF Records, RecordsSpec, LogSpec, StateSpec, RegistrySpec, SessionsSpec, HistorySpec,
         ConsumptionSpec, StatisticsSpec, SensorSpec

\* RecordsTypeOK: the types and bounds of the eight components hold together in
\* every state of MCRecords, for all values of their constants.
THEOREM RecordsTypeCorrect == RecordsSpec => []RecordsTypeOK
<1>1. /\ LogTypeOK /\ StateTypeOK /\ RegistryTypeOK /\ SessionsTypeOK
      /\ HistoryTypeOK /\ ConsumptionTypeOK /\ StatisticsTypeOK /\ SensorTypeOK
      => RecordsTypeOK
  BY DEF RecordsTypeOK
<1> QED
  BY <1>1, RecordsRunComponents, LogTypeCorrect, StateTypeCorrect, RegistryTypeCorrect,
     SessionsTypeCorrect, HistoryTypeCorrect, ConsumptionTypeCorrect,
     StatisticsTypeCorrect, SensorTypeCorrect, PTL
================================================================================
