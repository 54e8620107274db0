---------------------------- MODULE DeviceRegistry -----------------------------
(***************************************************************************)
(* The table of devices and those that write it side by side: the CLI      *)
(* (add, remove, rename), the worker (discoveries), the callback node      *)
(* (confirmed types) and the API (rename).  A SELECT is a step of its own; *)
(* what a session has changed is written and committed in one later step,  *)
(* for pysqlite begins its transaction at the first write.                 *)
(***************************************************************************)
EXTENDS Naturals, FiniteSets

CONSTANTS
    Ids,        \* bound: devices that ever get a row; an id is not used again
    Names,      \* backend names; the last ones are what allocation falls back on
    Editors     \* requests that write the table

ASSUME RegistryAssumption == Ids # {} /\ IsFiniteSet(Ids) /\ Names # {}

VARIABLES
    kind,       \* [Ids -> type of the row, "none" before it, "gone" after it]
    name,       \* [Ids -> backend name of the row]
    writer,     \* [Editors -> the request's next step and what it has read]
    staleList   \* history: a tank was made from a stale list of tanks

registryVars == <<kind, name, writer, staleList>>

DeviceType == {"plant", "tank"}
Rows == {i \in Ids : kind[i] \in DeviceType}
Used == {name[i] : i \in Rows}
Tanks == {i \in Rows : kind[i] = "tank"}

NoWriter == [pc |-> "idle", id |-> CHOOSE i \in Ids : TRUE, name |-> CHOOSE n \in Names : TRUE,
             type |-> "plant", own |-> "plant", tanks |-> {}]

\* Types; and no two devices of the table have the same name.
RegistryTypeOK ==
    /\ kind \in [Ids -> DeviceType \cup {"none", "gone"}]
    /\ name \in [Ids -> Names]
    /\ writer \in [Editors -> [pc : {"idle", "tanks", "insert", "select", "confirm", "rename"},
                               id : Ids, name : Names, type : DeviceType, own : DeviceType,
                               tanks : SUBSET Ids]]
    /\ staleList \in BOOLEAN
    /\ \A i, j \in Rows : name[i] = name[j] => i = j

RegistryInit ==
    /\ kind = [i \in Ids |-> "none"]
    /\ name = [i \in Ids |-> CHOOSE n \in Names : TRUE]
    /\ writer = [w \in Editors |-> NoWriter]
    /\ staleList = FALSE

Continue(w, step) == writer' = [writer EXCEPT ![w] = step] /\ UNCHANGED <<kind, name, staleList>>
Finish(w) == writer' = [writer EXCEPT ![w] = NoWriter]

\* The transaction fails, or finds its row gone: nothing of it is kept.
RollBack(w) == Finish(w) /\ UNCHANGED <<kind, name, staleList>>

\* The other tanks become plants: those that the list had, not those there are.
Demoted(tanks) == [i \in Ids |-> IF i \in tanks THEN "plant" ELSE kind[i]]

-----------------------------------------------------------------------------
(* add and register_discovered: the rows come in with the name that         *)
(* allocate_backend_name has found free; add always makes a plant.           *)

AllocateName(w) ==
    \E n \in Names \ Used, type \in DeviceType :
       /\ writer[w].pc = "idle"
       /\ Continue(w, [NoWriter EXCEPT !.pc = IF type = "tank" THEN "tanks" ELSE "insert",
                                       !.name = n, !.type = type])

\* demote_other_tanks: no other row has the name that was found free.
SelectTanks(w) ==
    /\ writer[w].pc = "tanks"
    /\ Continue(w, [writer[w] EXCEPT !.pc = "insert",
                                     !.tanks = {i \in Tanks : name[i] # writer[w].name}])

\* A demoted row that is gone (StaleDataError) or a name that was taken
\* meanwhile (IntegrityError) ends it.
Insert(w) ==
    /\ writer[w].pc = "insert"
    /\ IF writer[w].tanks \subseteq Rows /\ writer[w].name \notin Used
       THEN \E i \in Ids :
              /\ kind[i] = "none"
              /\ kind' = [Demoted(writer[w].tanks) EXCEPT ![i] = writer[w].type]
              /\ name' = [name EXCEPT ![i] = writer[w].name]
              /\ staleList' = (staleList \/ (writer[w].type = "tank" /\ ~(Tanks \subseteq writer[w].tanks)))
              /\ Finish(w)
       ELSE RollBack(w)

-----------------------------------------------------------------------------
(* apply_confirmed_config: a confirmed config may hold a device type. *)

\* get_by_id; an unknown device ends it.
ConfirmType(w) ==
    \E i \in Rows, type \in DeviceType :
       /\ writer[w].pc = "idle"
       /\ Continue(w, [NoWriter EXCEPT !.pc = "select", !.id = i, !.name = name[i],
                                       !.type = type])

\* The list of the tanks with another name than the device was read with, and
\* the device's own row; without one the session ends.
SelectConfirm(w) ==
    LET i == writer[w].id IN
    /\ writer[w].pc = "select"
    /\ IF i \in Rows
       THEN Continue(w, [writer[w] EXCEPT
                !.pc = "confirm", !.own = kind[i],
                !.tanks = IF writer[w].type = "tank"
                          THEN {j \in Tanks : name[j] # writer[w].name} ELSE {}])
       ELSE RollBack(w)

\* Mutant: the demotions are committed before the device's own row is written.
CommitDemotionFirst(w) ==
    LET i == writer[w].id  others == writer[w].tanks \ {i} IN
    /\ writer[w].pc = "confirm"
    /\ kind' = [Demoted(others \cap Rows) EXCEPT
                   ![i] = IF i \in Rows THEN writer[w].type ELSE @]
    /\ staleList' = (staleList \/ (writer[w].type = "tank" /\ ~(Tanks \ {i} \subseteq others)))
    /\ Finish(w)
    /\ UNCHANGED name

\* Mutant: the other tanks stay tanks.
CommitNoDemotion(w) ==
    LET i == writer[w].id  others == writer[w].tanks \ {i} IN
    /\ writer[w].pc = "confirm"
    /\ IF {i} \cup others \subseteq Rows
       THEN /\ kind' = [kind EXCEPT ![i] = IF writer[w].type = writer[w].own
                                           THEN @ ELSE writer[w].type]
            /\ staleList' = (staleList \/ (writer[w].type = "tank" /\ ~(Tanks \ {i} \subseteq others)))
            /\ Finish(w)
            /\ UNCHANGED name
       ELSE RollBack(w)

\* The session writes the columns it has changed: a type that it read as it
\* should be stays what it has become.
CommitConfirm(w) ==
    LET i == writer[w].id  others == writer[w].tanks \ {i} IN
    /\ writer[w].pc = "confirm"
    /\ IF {i} \cup others \subseteq Rows
       THEN /\ kind' = [Demoted(others) EXCEPT ![i] = IF writer[w].type = writer[w].own
                                                      THEN @ ELSE writer[w].type]
            /\ staleList' = (staleList \/ (writer[w].type = "tank" /\ ~(Tanks \ {i} \subseteq others)))
            /\ Finish(w)
            /\ UNCHANGED name
       ELSE RollBack(w)

-----------------------------------------------------------------------------
(* rename_backend and remove *)

\* get_by_id, and whether the name is free.
CheckName(w) ==
    \E i \in Rows, n \in Names \ Used :
       /\ writer[w].pc = "idle"
       /\ Continue(w, [NoWriter EXCEPT !.pc = "rename", !.id = i, !.name = n])

\* Mutant: a name that was free when it was looked up is taken for free.
RenameAsChecked(w) ==
    /\ writer[w].pc = "rename"
    /\ IF writer[w].id \in Rows
       THEN /\ name' = [name EXCEPT ![writer[w].id] = writer[w].name]
            /\ Finish(w)
            /\ UNCHANGED <<kind, staleList>>
       ELSE RollBack(w)

Rename(w) ==
    /\ writer[w].pc = "rename"
    /\ IF writer[w].id \in Rows /\ writer[w].name \notin Used
       THEN /\ name' = [name EXCEPT ![writer[w].id] = writer[w].name]
            /\ Finish(w)
            /\ UNCHANGED <<kind, staleList>>
       ELSE RollBack(w)

Remove(w) ==
    /\ writer[w].pc = "idle"
    /\ \E i \in Rows : kind' = [kind EXCEPT ![i] = "gone"]
    /\ UNCHANGED <<name, writer, staleList>>

-----------------------------------------------------------------------------

RegistryNext ==
    \E w \in Editors :
       \/ AllocateName(w) \/ SelectTanks(w) \/ Insert(w)
       \/ ConfirmType(w) \/ SelectConfirm(w) \/ CommitConfirm(w)
       \/ CheckName(w) \/ Rename(w) \/ Remove(w)

RegistrySpec == RegistryInit /\ [][RegistryNext]_registryVars

-----------------------------------------------------------------------------
(* Properties. *)

\* smart_watering/README.md:78: "Only one tank device is allowed." Discoveries,
\* confirmations, renames and removals keep it, whatever their interleaving,
\* unless a tank was made after a list of the tanks that another had made stale
\* (repositories.py:79).
OneTank == staleList \/ Cardinality(Tanks) <= 1

\* A tank becomes a plant only in the step that makes another device the tank,
\* or by its own confirmation: no failure half way leaves the site without one;
\* except again a stale list.
TankIsReplaced ==
    [][\A i \in Tanks :
          kind'[i] = "plant" =>
             \/ staleList'
             \/ \E j \in Ids \ {i} : kind'[j] = "tank"
             \/ \E w \in Editors : writer[w].pc = "confirm" /\ writer[w].id = i
                                   /\ writer[w].type = "plant"]_registryVars

\* A device that is shown under a name keeps it until it is renamed: a type
\* confirmed from a row read earlier does not bring the old name back.
NamesAreKept ==
    [][\A i \in Rows :
          name'[i] # name[i] =>
             \E w \in Editors : writer[w].pc = "rename" /\ writer[w].id = i
                                /\ writer[w].name = name'[i]]_registryVars
=============================================================================
