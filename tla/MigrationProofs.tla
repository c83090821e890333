-------------------------- MODULE MigrationProofs --------------------------
(***************************************************************************)
(* Theorems about opening a database of an older schema, for every set of  *)
(* columns and ids and any number of interruptions.                        *)
(***************************************************************************)
EXTENDS Migration, WellFoundedInduction, TLAPS

(* The largest of a bounded set of ids, 0 for none.                        *)
LEMMA LargestOfABoundedSet ==
  ASSUME NEW S \in SUBSET Nat, NEW bound \in Nat, \A i \in S : i <= bound
  PROVE  /\ Largest(S) \in S \cup {0}
         /\ \A i \in S : i <= Largest(S)
<1>. DEFINE Bounds == {b \in Nat : \A i \in S : i <= b}
            less   == OpToRel(<, Nat)
<1>1. bound \in Bounds
  OBVIOUS
<1>2. PICK b \in Bounds : \A y \in Bounds : ~ (<<y, b>> \in less)
  <2>1. IsWellFoundedOn(less, Nat)
    BY NatLessThanWellFounded
  <2>2. Bounds \subseteq Nat /\ Bounds # {}
    BY <1>1
  <2>. HIDE DEF less, Bounds
  <2>. QED
    BY <2>1, <2>2, WFMin
<1>3. \A y \in Bounds : ~ (y < b)
  BY <1>2 DEF OpToRel
<1>. HIDE DEF less
<1>4. b \in Nat /\ \A i \in S : i <= b
  OBVIOUS
<1>5. b \in S \cup {0}
  <2>. SUFFICES ASSUME b \notin S, b # 0
                PROVE  FALSE
    OBVIOUS
  <2>1. b - 1 \in Nat /\ b - 1 < b
    BY <1>4
  <2>2. \A i \in S : i <= b - 1
    BY <1>4
  <2>. QED
    BY <1>3, <2>1, <2>2
<1>. QED
  BY <1>4, <1>5 DEF Largest

(* What older binaries leave behind has the columns, rows, opt-ins and     *)
(* mark of MigrationInit, and no tools_rebuilt.                            *)
LEMMA InitialFile ==
  ASSUME MigrationInit
  PROVE  /\ file \in Databases
         /\ file.columns = {} => file.rows = {} /\ file.optIns = {}
         /\ "harness_tool_name" \in file.columns =>
              file.columns \cup {"last_seen_at"} = SchemaColumns
<1>. USE MigrationAssumption
<1>1. CASE file = NoDatabase
  BY <1>1 DEF NoDatabase, Databases
<1>2. CASE file \in OlderDatabases
  BY <1>2 DEF OlderDatabases, Databases, SchemaColumns
<1>. QED
  BY <1>1, <1>2 DEF MigrationInit

(* Nothing is half done in what older binaries leave behind.               *)
LEMMA InitMigrationIInv == MigrationInit => MigrationIInv
<1>. SUFFICES ASSUME MigrationInit
              PROVE  MigrationIInv
  OBVIOUS
<1>. USE MigrationAssumption
<1>1. NoDatabase \in Databases
  BY DEF NoDatabase, Databases
<1>2. /\ file \in Databases
      /\ file.columns = {} => file.rows = {} /\ file.optIns = {}
      /\ "harness_tool_name" \in file.columns =>
           file.columns \cup {"last_seen_at"} = SchemaColumns
  BY InitialFile
<1>3. /\ "harness_tool_name" \in file.columns => file.optIns \subseteq file.rows
      /\ \A i \in file.rows : i <= file.seq
      /\ draft = NoDatabase
      /\ enforced = TRUE /\ mark = 0 /\ pc = "closed" /\ crashes = 0
      /\ issued = {i \in Ids : i <= file.seq}
  BY DEF MigrationInit
<1>4. MigrationTypeOK
  BY <1>1, <1>2, <1>3 DEF MigrationTypeOK, Steps, TransactionSteps
<1>5. FileIsSound
  BY <1>2, <1>3 DEF FileIsSound
<1>6. FileFitsTheStatement /\ DraftCarriesTheFile
  BY <1>3 DEF FileFitsTheStatement, DraftCarriesTheFile, ToRebuild, Rebuilt,
         TransactionSteps
<1>. QED
  BY <1>4, <1>5, <1>6 DEF MigrationIInv

(* The rollback leaves the committed file as it was and the connection as  *)
(* Open found it.                                                          *)
LEMMA GivingUpKeepsMigrationIInv ==
  ASSUME MigrationIInv, GiveUp
  PROVE  MigrationIInv'
<1>1. NoDatabase \in Databases
  BY MigrationAssumption DEF NoDatabase, Databases
<1>. QED
  BY <1>1 DEF GiveUp, MigrationIInv, MigrationTypeOK, FileIsSound, FileFitsTheStatement,
              DraftCarriesTheFile, ToRebuild, Rebuilt, TransactionSteps, Steps

(* The mark is a natural number, at least every id that is or was a tool's. *)
LEMMA MarkBoundsTheIds ==
  ASSUME MigrationIInv
  PROVE  /\ file.rows \cup issued \subseteq Nat /\ file.seq \in Nat
         /\ \A i \in file.rows \cup issued : i <= file.seq
<1>1. file.rows \subseteq Ids /\ issued \subseteq Ids /\ file.seq \in Ids \cup {0}
  BY DEF MigrationIInv, MigrationTypeOK, Databases
<1>2. Ids \subseteq Nat
  BY MigrationAssumption
<1>3. file.rows \cup issued \subseteq Nat
  BY <1>1, <1>2, Zenon
<1>4. file.seq \in Nat
  <2>1. CASE file.seq \in Ids
    BY <1>2, <2>1, Zenon
  <2>2. CASE file.seq = 0
    BY <2>2
  <2>. QED
    BY <1>1, <2>1, <2>2
<1>. QED
  BY <1>3, <1>4 DEF MigrationIInv, FileIsSound

(* What INSERT takes for an id is above the mark.                          *)
LEMMA InsertTakesAnIdAboveTheMark ==
  ASSUME MigrationIInv
  PROVE  LET highest == Largest(file.rows \cup {file.seq}) IN
           highest \in Nat /\ file.seq <= highest
<1>. DEFINE ids == file.rows \cup {file.seq}
<1>1. file.seq \in Nat
  BY MarkBoundsTheIds
<1>2. ids \subseteq Nat /\ file.seq \in ids /\ \A i \in ids : i <= file.seq
  BY MarkBoundsTheIds
<1>. HIDE DEF ids
<1>3. Largest(ids) \in ids \cup {0} /\ file.seq <= Largest(ids)
  BY <1>1, <1>2, LargestOfABoundedSet
<1>4. Largest(ids) \in Nat
  <2>1. CASE Largest(ids) \in ids
    BY <1>2, <2>1, Zenon
  <2>2. CASE Largest(ids) = 0
    BY <2>2
  <2>. QED
    BY <1>3, <2>1, <2>2
<1>. QED
  BY <1>3, <1>4 DEF ids

(* Every statement of the start, and every request afterwards, leaves the  *)
(* file sound and the draft carrying it.                                   *)
LEMMA NextMigrationIInv ==
  ASSUME MigrationIInv, [MigrationNext]_migrationVars
  PROVE  MigrationIInv'
<1>a. /\ file.rows \cup issued \subseteq Nat /\ file.seq \in Nat
      /\ \A i \in file.rows \cup issued : i <= file.seq
  BY MarkBoundsTheIds
<1>b. Largest(file.rows) \in file.rows \cup {0} /\ Largest(file.rows) <= file.seq
  <2>1. Largest(file.rows) \in file.rows \cup {0}
    BY <1>a, LargestOfABoundedSet
  <2>. QED
    BY <1>a, <2>1
<1>c. LET highest == Largest(file.rows \cup {file.seq}) IN
        highest \in Nat /\ file.seq <= highest
  BY InsertTakesAnIdAboveTheMark
<1>. NoDatabase \in Databases
  BY MigrationAssumption DEF NoDatabase, Databases
<1>. USE MigrationAssumption
     DEF MigrationIInv, MigrationTypeOK, FileIsSound, FileFitsTheStatement,
         DraftCarriesTheFile, ToRebuild, Rebuilt, TransactionSteps, Steps, Goto
<1>1. CASE Open
  BY <1>1 DEF Open
<1>2. CASE ReadColumns
  BY <1>2 DEF ReadColumns
<1>3. CASE ForeignKeysOff
  BY <1>3 DEF ForeignKeysOff
<1>4. CASE Begin
  BY <1>4 DEF Begin
<1>5. CASE CreateRebuilt
  <2>1. CASE draft.hasRebuilt
    BY <1>5, <2>1, GivingUpKeepsMigrationIInv, Zenon DEF CreateRebuilt
  <2>2. CASE ~draft.hasRebuilt
    <3>1. draft' = [draft EXCEPT !.hasRebuilt = TRUE] /\ pc' = "checkColumns"
      BY <1>5, <2>2 DEF CreateRebuilt
    <3>2. UNCHANGED <<file, enforced, mark, crashes, issued>>
      BY <1>5, <2>2 DEF CreateRebuilt
    <3>3. draft' \in Databases
      BY <3>1 DEF Databases
    <3>. QED
      BY <1>5, <3>1, <3>2, <3>3 DEF CreateRebuilt, Databases
  <2>. QED
    BY <2>1, <2>2
<1>6. CASE CheckColumns
  BY <1>6, GivingUpKeepsMigrationIInv DEF CheckColumns
<1>7. CASE ReadMark
  BY <1>7 DEF ReadMark, Databases
<1>8. CASE Copy
  <2>1. draft.rows = file.rows
    BY <1>8 DEF Copy
  <2>. QED
    BY <1>8, <1>b, <2>1 DEF Copy, Databases
<1>9. CASE Drop
  BY <1>9 DEF Drop, Databases
<1>10. CASE Rename
  BY <1>10 DEF Rename, Databases
<1>11. CASE CarryMark
  BY <1>11 DEF CarryMark, MarkCarriedOver, Databases
<1>12. CASE CheckForeignKeys
  BY <1>12, GivingUpKeepsMigrationIInv DEF CheckForeignKeys
<1>13. CASE Commit
  BY <1>13 DEF Commit, SchemaColumns
<1>14. CASE ForeignKeysOn
  BY <1>14 DEF ForeignKeysOn
<1>15. CASE AddLastSeenAt
  BY <1>15 DEF AddLastSeenAt, SchemaColumns, Databases
<1>16. CASE Schema
  BY <1>16 DEF Schema, SchemaColumns, Databases
<1>17. CASE Restart
  BY <1>17 DEF Restart
<1>18. CASE Crash
  BY <1>18 DEF Crash
<1>19. CASE Insert
  <2>. DEFINE id == Largest(file.rows \cup {file.seq}) + 1
  <2>1. /\ id \in Ids
        /\ file' = [file EXCEPT !.rows = @ \cup {id}, !.seq = id]
        /\ issued' = issued \cup {id}
        /\ pc = "open"
        /\ UNCHANGED <<draft, enforced, mark, pc, crashes>>
    BY <1>19, Zenon DEF Insert
  <2>2. id \in Nat /\ file.seq < id
    BY <1>a, <1>c
  <2>. HIDE DEF id
  <2>3. /\ file' \in Databases
        /\ file'.rows = file.rows \cup {id} /\ file'.seq = id
        /\ file'.columns = file.columns /\ file'.optIns = file.optIns
    BY <2>1 DEF Databases
  <2>4. \A i \in file'.rows \cup issued' : i <= file'.seq
    BY <1>a, <2>1, <2>2, <2>3
  <2>5. MigrationTypeOK'
    BY <2>1, <2>3
  <2>6. FileIsSound'
    <3>1. file.columns = SchemaColumns /\ "harness_tool_name" \in SchemaColumns
      BY <2>1 DEF SchemaColumns
    <3>2. file.optIns \subseteq file.rows
      BY <3>1
    <3>. QED
      BY <2>3, <2>4, <3>1, <3>2
  <2>7. FileFitsTheStatement' /\ DraftCarriesTheFile'
    BY <2>1, <2>3
  <2>. QED
    BY <2>5, <2>6, <2>7
<1>20. ASSUME NEW id \in Ids, Delete(id)
       PROVE  MigrationIInv'
  BY <1>20 DEF Delete, Databases
<1>21. ASSUME NEW id \in Ids, OptIn(id)
       PROVE  MigrationIInv'
  BY <1>21 DEF OptIn, Databases
<1>22. CASE UNCHANGED migrationVars
  BY <1>22 DEF migrationVars
<1>. QED
  BY <1>1, <1>2, <1>3, <1>4, <1>5, <1>6, <1>7, <1>8, <1>9, <1>10, <1>11, <1>12,
     <1>13, <1>14, <1>15, <1>16, <1>17, <1>18, <1>19, <1>20, <1>21, <1>22 DEF MigrationNext, OpenStep, Rebuild

(* The inductive invariant, from which the theorems below follow.          *)
THEOREM MigrationInvariant == MigrationSpec => []MigrationIInv
<1>1. MigrationInit => MigrationIInv
  BY InitMigrationIInv
<1>2. MigrationIInv /\ [MigrationNext]_migrationVars => MigrationIInv'
  BY NextMigrationIInv
<1>. QED
  BY <1>1, <1>2, PTL DEF MigrationSpec

(* The model of Open stays within its types; a transaction is open, and    *)
(* foreign keys are off, only during the rebuild (migrate.go:96-104).      *)
THEOREM MigrationTypeCorrect == MigrationSpec => []MigrationTypeOK
<1>1. MigrationIInv => MigrationTypeOK
  BY DEF MigrationIInv
<1>. QED
  BY <1>1, MigrationInvariant, PTL

(* Whenever Open has returned, the table is the one of schema.sql and      *)
(* every opt-in is one of a tool.                                          *)
THEOREM AnOpenDatabaseIsMigrated == MigrationSpec => []OpenMeansMigrated
<1>1. MigrationIInv => OpenMeansMigrated
  <2>1. "harness_tool_name" \in SchemaColumns
    BY DEF SchemaColumns
  <2>. QED
    BY <2>1 DEF MigrationIInv, FileIsSound, FileFitsTheStatement, OpenMeansMigrated
<1>. QED
  BY <1>1, MigrationInvariant, PTL

(* Only three statements of a start write to the committed file: the       *)
(* COMMIT of the rebuild, ALTER TABLE ADD COLUMN and schema.sql.           *)
LEMMA OnlyThreeStatementsWrite ==
  ASSUME MigrationIInv, [MigrationNext]_migrationVars, pc # "open"
  PROVE  Commit \/ AddLastSeenAt \/ Schema \/ UNCHANGED file
<1>1. ASSUME NEW id \in Ids PROVE ~Delete(id) /\ ~OptIn(id)
  BY DEF Delete, OptIn
<1>2. ~Insert
  BY DEF Insert
<1>. QED
  BY <1>1, <1>2
  DEF MigrationNext, OpenStep, Rebuild, migrationVars, GiveUp, Open, ReadColumns,
      ForeignKeysOff, Begin, CreateRebuilt, CheckColumns, ReadMark, Copy, Drop, Rename,
      CarryMark, CheckForeignKeys, ForeignKeysOn, Restart, Crash

(* ... and what the transaction commits is a draft that carries the file.  *)
LEMMA OpeningStepLosesNothing ==
  ASSUME MigrationIInv, [MigrationNext]_migrationVars, pc # "open"
  PROVE  /\ file'.rows = file.rows
         /\ file'.optIns = file.optIns
         /\ file.columns \subseteq file'.columns
         /\ file'.seq = file.seq
<1>. file \in Databases
  BY DEF MigrationIInv, MigrationTypeOK
<1>1. CASE Commit
  <2>1. file' = draft /\ pc = "commit"
    BY <1>1 DEF Commit, Goto
  <2>2. /\ draft.rows = file.rows /\ draft.optIns = file.optIns /\ draft.seq = file.seq
        /\ draft.columns = SchemaColumns /\ file.columns \subseteq SchemaColumns
    BY <2>1 DEF MigrationIInv, DraftCarriesTheFile, Rebuilt, TransactionSteps
  <2>. QED
    BY <2>1, <2>2
<1>2. CASE AddLastSeenAt
  BY <1>2 DEF AddLastSeenAt, Databases
<1>3. CASE Schema
  BY <1>3 DEF Schema, Databases
<1>4. CASE UNCHANGED file
  BY <1>4
<1>. QED
  BY <1>1, <1>2, <1>3, <1>4, OnlyThreeStatementsWrite

(* Opening a database loses no tool, no opt-in, no column and no part of   *)
(* the AUTOINCREMENT mark, wherever the process ends (store.go:42-75,      *)
(* migrate.go:60-205).                                                     *)
THEOREM OpeningKeepsEverything == MigrationSpec => OpeningLosesNothing
<1>1. ASSUME MigrationIInv, [MigrationNext]_migrationVars
      PROVE  [pc # "open" =>
                /\ file'.rows = file.rows
                /\ file'.optIns = file.optIns
                /\ file.columns \subseteq file'.columns
                /\ file'.seq >= file.seq]_migrationVars
  <2>1. file.seq \in Nat
    BY <1>1, MarkBoundsTheIds
  <2>. QED
    BY <1>1, <2>1, OpeningStepLosesNothing
<1>. QED
  BY <1>1, MigrationInvariant, PTL DEF MigrationSpec, OpeningLosesNothing

(* No tool gets an id that an earlier tool had, also when that one was     *)
(* deleted before the table was rebuilt (migrate.go:136-173): an insert    *)
(* takes an id above the mark, and every id ever issued is at most that.   *)
THEOREM IdsAreIssuedOnce == MigrationSpec => NoIdIsIssuedTwice
<1>1. ASSUME MigrationIInv, [MigrationNext]_migrationVars,
             NEW id \in file'.rows \ file.rows
      PROVE  id \notin issued
  <2>. file \in Databases
    BY <1>1 DEF MigrationIInv, MigrationTypeOK
  <2>1. pc = "open"
    BY <1>1, OpeningStepLosesNothing
  <2>2. CASE Insert
    <3>. DEFINE highest == Largest(file.rows \cup {file.seq})
    <3>1. highest \in Nat /\ file.seq <= highest
      BY <1>1, InsertTakesAnIdAboveTheMark
    <3>2. file' = [file EXCEPT !.rows = @ \cup {highest + 1}, !.seq = highest + 1]
      BY <2>2, Zenon DEF Insert
    <3>. HIDE DEF highest
    <3>3. id = highest + 1
      BY <1>1, <3>2 DEF Databases
    <3>4. file.seq \in Nat /\ \A i \in issued : i \in Nat /\ i <= file.seq
      BY <1>1, MarkBoundsTheIds
    <3>. QED
      BY <3>1, <3>3, <3>4
  <2>3. ASSUME ~Insert PROVE file'.rows \subseteq file.rows
    <3>1. CASE \E i \in Ids : Delete(i) \/ OptIn(i)
      BY <3>1 DEF Delete, OptIn, Databases
    <3>2. CASE UNCHANGED file
      BY <3>2
    <3>3. CASE OpenStep
      BY <2>1, <3>3 DEF OpenStep, Rebuild, Goto, Open, ReadColumns, ForeignKeysOff,
            Begin, CreateRebuilt, CheckColumns, ReadMark, Copy, Drop, Rename, CarryMark,
            CheckForeignKeys, Commit, ForeignKeysOn, AddLastSeenAt, Schema, Restart
    <3>. QED
      BY <1>1, <2>3, <3>1, <3>2, <3>3 DEF MigrationNext, migrationVars, Crash
  <2>. QED
    BY <1>1, <2>2, <2>3
<1>2. MigrationIInv /\ [MigrationNext]_migrationVars =>
        [\A id \in file'.rows \ file.rows : id \notin issued]_migrationVars
  BY <1>1
<1>. QED
  BY <1>2, MigrationInvariant, PTL DEF MigrationSpec, NoIdIsIssuedTwice

(* The next id is one more than the last one given.                        *)
LEMMA InsertTakesTheNextId ==
  ASSUME MigrationIInv
  PROVE  Largest(file.rows \cup {file.seq}) = file.seq
<1>1. /\ file.seq \in Nat
      /\ file.rows \subseteq Nat
      /\ \A i \in file.rows : i <= file.seq
  BY MarkBoundsTheIds, MigrationAssumption DEF MigrationIInv, MigrationTypeOK, Databases
<1>. DEFINE S == file.rows \cup {file.seq}
<1>2. S \in SUBSET Nat /\ \A i \in S : i <= file.seq
  BY <1>1
<1>3. Largest(S) \in S \cup {0} /\ \A i \in S : i <= Largest(S)
  BY <1>1, <1>2, LargestOfABoundedSet
<1>4. Largest(S) \in Nat /\ file.seq <= Largest(S) /\ (Largest(S) <= file.seq \/ Largest(S) = 0)
  BY <1>1, <1>2, <1>3
<1>. QED
  BY <1>1, <1>4

(* A step of a start, or its end, is nothing to the registry, or makes the *)
(* database usable or lets it go down.                                     *)
LEMMA OpeningStepOfToolDatabase ==
  ASSUME MigrationIInv, MigrationIInv', [MigrationNext]_migrationVars, pc # "open"
  PROVE  [Database!DatabaseNext]_Database!databaseVars
<1>1. /\ file'.rows = file.rows /\ file'.optIns = file.optIns /\ file'.seq = file.seq
  BY OpeningStepLosesNothing
<1>2. CASE pc' = "open"
  <2>1. "harness_tool_name" \in SchemaColumns
    BY DEF SchemaColumns
  <2>2. file'.optIns \subseteq file'.rows
    BY <1>2, <2>1 DEF MigrationIInv, FileIsSound, FileFitsTheStatement
  <2>3. Database!BecomeUsable
    BY <1>1, <1>2, <2>2 DEF Database!BecomeUsable
  <2>. QED
    BY <2>3 DEF Database!DatabaseNext
<1>3. CASE pc' # "open"
  BY <1>1, <1>3 DEF Database!databaseVars
<1>. QED
  BY <1>2, <1>3

(* The registry's requests are those of ToolDatabase.                      *)
LEMMA RequestOfToolDatabase ==
  ASSUME MigrationIInv, [MigrationNext]_migrationVars, pc = "open"
  PROVE  [Database!DatabaseNext]_Database!databaseVars
<1>. file \in Databases /\ enforced
  BY DEF MigrationIInv, MigrationTypeOK, TransactionSteps
<1>1. CASE Insert
  <2>. DEFINE id == file.seq + 1
  <2>1. /\ file' = [file EXCEPT !.rows = @ \cup {id}, !.seq = id]
        /\ pc' = pc
    BY <1>1, InsertTakesTheNextId DEF Insert
  <2>2. /\ file'.rows = file.rows \cup {id} /\ file'.seq = id
        /\ file'.optIns = file.optIns
    BY <2>1 DEF Databases
  <2>3. Database!Register
    BY <2>1, <2>2 DEF Database!Register
  <2>. QED
    BY <2>3 DEF Database!DatabaseNext
<1>2. ASSUME NEW id \in Ids, Delete(id)
      PROVE  Database!DatabaseNext
  <2>1. /\ file' = [file EXCEPT !.rows = @ \ {id}, !.optIns = @ \ {id}]
        /\ pc' = pc /\ id \in file.rows
    BY <1>2 DEF Delete
  <2>2. /\ file'.rows = file.rows \ {id} /\ file'.optIns = file.optIns \ {id}
        /\ file'.seq = file.seq
    BY <2>1 DEF Databases
  <2>3. Database!Remove(id)
    BY <2>1, <2>2 DEF Database!Remove
  <2>. QED
    BY <2>1, <2>3 DEF Database!DatabaseNext
<1>3. ASSUME NEW id \in Ids, OptIn(id)
      PROVE  Database!DatabaseNext
  <2>1. /\ file' = [file EXCEPT !.optIns = @ \cup {id}]
        /\ pc' = pc /\ id \in file.rows
    BY <1>3 DEF OptIn
  <2>2. /\ file'.rows = file.rows /\ file'.optIns = file.optIns \cup {id}
        /\ file'.seq = file.seq
    BY <2>1 DEF Databases
  <2>3. Database!OptInTo(id)
    BY <2>1, <2>2 DEF Database!OptInTo
  <2>. QED
    BY <2>1, <2>3 DEF Database!DatabaseNext
<1>4. CASE Crash
  <2>1. Database!GoDown
    BY <1>4 DEF Crash, Database!GoDown
  <2>. QED
    BY <2>1 DEF Database!DatabaseNext
<1>5. CASE OpenStep
  BY <1>5 DEF OpenStep, Rebuild, Goto, Open, ReadColumns, ForeignKeysOff,
     Begin, CreateRebuilt, CheckColumns, ReadMark, Copy, Drop, Rename, CarryMark,
     CheckForeignKeys, Commit, ForeignKeysOn, AddLastSeenAt, Schema, Restart
<1>6. CASE UNCHANGED migrationVars
  BY <1>6 DEF migrationVars, Database!databaseVars
<1>. QED
  BY <1>1, <1>2, <1>3, <1>4, <1>5, <1>6 DEF MigrationNext

(* Whatever its schema was, and wherever opening it was cut off, what is   *)
(* committed is one lasting database: opening it changes nothing but that  *)
(* it is usable (store.go:42-75, migrate.go:60-227).                       *)
THEOREM OneLastingDatabase == MigrationSpec => ImplementsToolDatabase
<1>1. MigrationInit => Database!DatabaseInit
  <2>. SUFFICES ASSUME MigrationInit PROVE Database!DatabaseInit
    OBVIOUS
  <2>1. /\ file \in Databases
        /\ \A i \in file.rows : i <= file.seq
        /\ \A i \in file.optIns : i <= file.seq
        /\ pc = "closed"
    BY InitialFile DEF MigrationInit
  <2>2. /\ file.seq \in Nat
        /\ \A i \in file.rows : i \in Nat /\ i # 0
        /\ \A i \in file.optIns : i \in Nat /\ i # 0
    <3>1. file.rows \subseteq Ids /\ file.optIns \subseteq Ids /\ file.seq \in Ids \cup {0}
      BY <2>1 DEF Databases
    <3>2. \A i \in Ids : i \in Nat /\ i # 0
      BY MigrationAssumption, Zenon
    <3>3. file.seq \in Nat
      BY <3>1, <3>2
    <3>. QED
      BY <3>1, <3>2, <3>3, Zenon
  <2>3. file.rows \subseteq 1 .. file.seq /\ file.optIns \subseteq 1 .. file.seq
    BY <2>1, <2>2
  <2>. QED
    BY <2>1, <2>2, <2>3 DEF Database!DatabaseInit
<1>2. MigrationIInv /\ MigrationIInv' /\ [MigrationNext]_migrationVars
        => [Database!DatabaseNext]_Database!databaseVars
  BY OpeningStepOfToolDatabase, RequestOfToolDatabase
<1>. QED
  BY <1>1, <1>2, MigrationInvariant, PTL
     DEF MigrationSpec, ImplementsToolDatabase, Database!DatabaseSpec
=============================================================================
