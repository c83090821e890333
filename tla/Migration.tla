----------------------------- MODULE Migration -----------------------------
(***************************************************************************)
(* Opening a database made by an older binary (store.go Open, migrate.go): *)
(* the rebuild of the tools table in one transaction, the column added     *)
(* after it, schema.sql, and then the registry at work on the result.  The *)
(* process can end between any two statements; what is committed stays.    *)
(*                                                                         *)
(* Rows are their ids: the rebuild copies every column the old table has,  *)
(* or refuses.  Both facts are in the model as sets of column names.       *)
(***************************************************************************)
EXTENDS Integers, FiniteSets

CONSTANTS
  OldColumns,      (* columns of a table from before the harness kind       *)
  UnknownColumn,   (* a column schema.sql does not have                     *)
  Ids,             (* bound: the ids tools can get, 1 .. some number        *)
  MaxCrashes       (* bound on how often the process ends                   *)

(* The columns of schema.sql's tools table.                                *)
SchemaColumns == OldColumns \cup {"credentials", "harness_tool_name", "last_seen_at"}

ASSUME MigrationAssumption ==
  /\ OldColumns # {}
  /\ OldColumns \cap {"credentials", "harness_tool_name", "last_seen_at"} = {}
  /\ UnknownColumn \notin SchemaColumns
  /\ Ids \subseteq Nat \ {0}
  /\ MaxCrashes \in Nat

VARIABLES
  file,        (* the committed database                                    *)
  draft,       (* the database as the open transaction sees it              *)
  enforced,    (* PRAGMA foreign_keys of the connection                     *)
  mark,        (* highestIssuedID, read by the rebuild                      *)
  pc,          (* the next statement, closed, open, or refused              *)
  crashes,
  issued       (* history: every id a tool has ever had                     *)

migrationVars == <<file, draft, enforced, mark, pc, crashes, issued>>

(* A database: the columns of tools ({} when there is no table), its rows, *)
(* the tools opted in, its row of sqlite_sequence (0 for none), and the    *)
(* same of tools_rebuilt.                                                  *)
Databases ==
  [columns : SUBSET (SchemaColumns \cup {UnknownColumn}),
   rows : SUBSET Ids, optIns : SUBSET Ids, seq : Ids \cup {0},
   hasRebuilt : BOOLEAN, rebuilt : SUBSET Ids, rebuiltSeq : Ids \cup {0}]

TransactionSteps ==
  {"createRebuilt", "checkColumns", "readMark", "copy", "drop", "rename",
   "carryMark", "checkForeignKeys", "commit"}

Steps == TransactionSteps \cup
  {"closed", "readColumns", "foreignKeysOff", "begin", "foreignKeysOn",
   "addLastSeenAt", "schema", "open", "refused"}

NoDatabase == [columns |-> {}, rows |-> {}, optIns |-> {}, seq |-> 0,
               hasRebuilt |-> FALSE, rebuilt |-> {}, rebuiltSeq |-> 0]

(* ... and a transaction is open, and foreign keys are off, only during    *)
(* the rebuild.                                                            *)
MigrationTypeOK ==
  /\ file \in Databases /\ draft \in Databases
  /\ enforced \in BOOLEAN
  /\ mark \in Ids \cup {0}
  /\ pc \in Steps
  /\ crashes \in 0 .. MaxCrashes
  /\ issued \subseteq Ids
  /\ pc \notin TransactionSteps => draft = NoDatabase
  /\ ~enforced => pc \in TransactionSteps \cup {"begin", "foreignKeysOn"}

Largest(S) == CHOOSE i \in S \cup {0} : \A j \in S : j <= i

(* What older binaries leave behind, and, where the code looks for them, a *)
(* column or an opt-in without its tool that a hand on the sqlite3 shell   *)
(* (which does not enforce foreign keys) has added.                        *)
OlderDatabases ==
  [columns : {OldColumns, OldColumns \cup {"credentials"},
              OldColumns \cup {UnknownColumn},
              OldColumns \cup {"credentials", "harness_tool_name"},
              SchemaColumns},
   rows : SUBSET Ids, optIns : SUBSET Ids, seq : Ids \cup {0},
   hasRebuilt : {FALSE}, rebuilt : {{}}, rebuiltSeq : {0}]

MigrationInit ==
  /\ file \in {NoDatabase} \cup OlderDatabases
  /\ "harness_tool_name" \in file.columns => file.optIns \subseteq file.rows
  /\ \A i \in file.rows : i <= file.seq
  /\ \A i \in file.optIns : i <= file.seq
  /\ draft = NoDatabase
  /\ enforced = TRUE
  /\ mark = 0
  /\ pc = "closed"
  /\ crashes = 0
  /\ issued = {i \in Ids : i <= file.seq}

Goto(from, to) == pc = from /\ pc' = to

-----------------------------------------------------------------------------
(* Open: which of the migrations the database needs.                       *)

Open ==
  /\ Goto("closed", "readColumns")
  /\ UNCHANGED <<file, draft, enforced, mark, crashes, issued>>

ReadColumns ==
  /\ Goto("readColumns",
          IF file.columns = {} \/ "harness_tool_name" \in file.columns
            THEN "addLastSeenAt" ELSE "foreignKeysOff")
  /\ UNCHANGED <<file, draft, enforced, mark, crashes, issued>>

(* PRAGMA foreign_keys = OFF, on the one connection of the rebuild.        *)
LeaveForeignKeysOn ==
  /\ Goto("foreignKeysOff", "begin")
  /\ UNCHANGED <<file, draft, enforced, mark, crashes, issued>>

ForeignKeysOff ==
  /\ Goto("foreignKeysOff", "begin")
  /\ enforced' = FALSE
  /\ UNCHANGED <<file, draft, mark, crashes, issued>>

-----------------------------------------------------------------------------
(* The transaction of the rebuild.                                         *)

Begin ==
  /\ Goto("begin", "createRebuilt")
  /\ draft' = file
  /\ UNCHANGED <<file, enforced, mark, crashes, issued>>

(* Rollback, PRAGMA foreign_keys = ON, and Open's error ends the process.  *)
GiveUp ==
  /\ pc' = "refused"
  /\ draft' = NoDatabase
  /\ enforced' = TRUE
  /\ mark' = 0
  /\ UNCHANGED <<file, crashes, issued>>

CreateRebuiltOutsideTheTransaction ==
  /\ pc = "createRebuilt"
  /\ IF ~draft.hasRebuilt
       THEN /\ pc' = "checkColumns"
            /\ draft' = [draft EXCEPT !.hasRebuilt = TRUE]
            /\ file' = [file EXCEPT !.hasRebuilt = TRUE]
            /\ UNCHANGED <<enforced, mark, crashes, issued>>
       ELSE GiveUp

CreateRebuilt ==
  /\ pc = "createRebuilt"
  /\ IF ~draft.hasRebuilt
       THEN /\ pc' = "checkColumns"
            /\ draft' = [draft EXCEPT !.hasRebuilt = TRUE]
            /\ UNCHANGED <<file, enforced, mark, crashes, issued>>
       ELSE GiveUp

CheckColumns ==
  /\ pc = "checkColumns"
  /\ IF draft.columns \subseteq SchemaColumns
       THEN /\ pc' = "readMark"
            /\ UNCHANGED <<file, draft, enforced, mark, crashes, issued>>
       ELSE GiveUp

ReadMark ==
  /\ Goto("readMark", "copy")
  /\ mark' = draft.seq
  /\ UNCHANGED <<file, draft, enforced, crashes, issued>>

(* INSERT ... SELECT with the ids; the counts before and after agree.      *)
Copy ==
  /\ Goto("copy", "drop")
  /\ draft' = [draft EXCEPT !.rebuilt = draft.rows, !.rebuiltSeq = Largest(draft.rows)]
  /\ UNCHANGED <<file, enforced, mark, crashes, issued>>

(* DROP TABLE deletes the table's row of sqlite_sequence; with foreign     *)
(* keys on it deletes the table's rows first, and ON DELETE CASCADE their  *)
(* opt-ins.                                                                *)
Drop ==
  /\ Goto("drop", "rename")
  /\ draft' = [draft EXCEPT !.rows = {}, !.columns = {}, !.seq = 0,
                            !.optIns = IF enforced THEN @ \ draft.rows ELSE @]
  /\ UNCHANGED <<file, enforced, mark, crashes, issued>>

Rename ==
  /\ Goto("rename", "carryMark")
  /\ draft' = [draft EXCEPT !.rows = draft.rebuilt, !.columns = SchemaColumns,
                            !.seq = draft.rebuiltSeq,
                            !.hasRebuilt = FALSE, !.rebuilt = {}, !.rebuiltSeq = 0]
  /\ UNCHANGED <<file, enforced, mark, crashes, issued>>

MarkOfTheCopiedRows(seq) == seq
MarkCarriedOver(seq) == IF seq < mark THEN mark ELSE seq

CarryMark ==
  /\ Goto("carryMark", "checkForeignKeys")
  /\ draft' = [draft EXCEPT !.seq = MarkCarriedOver(@)]
  /\ mark' = 0
  /\ UNCHANGED <<file, enforced, crashes, issued>>

NothingChecked ==
  /\ Goto("checkForeignKeys", "commit")
  /\ UNCHANGED <<file, draft, enforced, mark, crashes, issued>>

CheckForeignKeys ==
  /\ pc = "checkForeignKeys"
  /\ IF draft.optIns \subseteq draft.rows
       THEN /\ pc' = "commit"
            /\ UNCHANGED <<file, draft, enforced, mark, crashes, issued>>
       ELSE GiveUp

Commit ==
  /\ Goto("commit", "foreignKeysOn")
  /\ file' = draft
  /\ draft' = NoDatabase
  /\ UNCHANGED <<enforced, mark, crashes, issued>>

Rebuild ==
  \/ Begin \/ CreateRebuilt \/ CheckColumns \/ ReadMark \/ Copy
  \/ Drop \/ Rename \/ CarryMark \/ CheckForeignKeys \/ Commit

-----------------------------------------------------------------------------
(* The deferred PRAGMA foreign_keys = ON, the column, schema.sql.          *)

LeaveForeignKeysOff ==
  /\ Goto("foreignKeysOn", "addLastSeenAt")
  /\ UNCHANGED <<file, draft, enforced, mark, crashes, issued>>

ForeignKeysOn ==
  /\ Goto("foreignKeysOn", "addLastSeenAt")
  /\ enforced' = TRUE
  /\ UNCHANGED <<file, draft, mark, crashes, issued>>

AddLastSeenAt ==
  /\ Goto("addLastSeenAt", "schema")
  /\ file' = IF file.columns = {} THEN file
                                  ELSE [file EXCEPT !.columns = @ \cup {"last_seen_at"}]
  /\ UNCHANGED <<draft, enforced, mark, crashes, issued>>

(* CREATE ... IF NOT EXISTS, for every table and index.                    *)
Schema ==
  /\ Goto("schema", "open")
  /\ file' = IF file.columns = {} THEN [file EXCEPT !.columns = SchemaColumns] ELSE file
  /\ UNCHANGED <<draft, enforced, mark, crashes, issued>>

(* The process ends, or a statement fails and ends it.                     *)
Crash ==
  /\ pc \notin {"closed", "refused"}
  /\ crashes < MaxCrashes
  /\ pc' = "closed"
  /\ crashes' = crashes + 1
  /\ draft' = NoDatabase
  /\ enforced' = TRUE
  /\ mark' = 0
  /\ UNCHANGED <<file, issued>>

Restart ==
  /\ Goto("refused", "closed")
  /\ UNCHANGED <<file, draft, enforced, mark, crashes, issued>>

-----------------------------------------------------------------------------
(* The registry on the opened database, as far as ids and opt-ins go.      *)

Insert ==
  /\ pc = "open"
  /\ LET id == Largest(file.rows \cup {file.seq}) + 1 IN
       /\ id \in Ids
       /\ file' = [file EXCEPT !.rows = @ \cup {id}, !.seq = id]
       /\ issued' = issued \cup {id}
  /\ UNCHANGED <<draft, enforced, mark, pc, crashes>>

Delete(id) ==
  /\ pc = "open"
  /\ id \in file.rows
  /\ file' = [file EXCEPT !.rows = @ \ {id},
                          !.optIns = IF enforced THEN @ \ {id} ELSE @]
  /\ UNCHANGED <<draft, enforced, mark, pc, crashes, issued>>

OptIn(id) ==
  /\ pc = "open"
  /\ ~enforced \/ id \in file.rows
  /\ file' = [file EXCEPT !.optIns = @ \cup {id}]
  /\ UNCHANGED <<draft, enforced, mark, pc, crashes, issued>>

-----------------------------------------------------------------------------
OpenStep ==
  \/ Open \/ ReadColumns \/ ForeignKeysOff \/ Rebuild \/ ForeignKeysOn
  \/ AddLastSeenAt \/ Schema \/ Restart

MigrationNext ==
  \/ OpenStep
  \/ Crash
  \/ Insert
  \/ \E id \in Ids : Delete(id) \/ OptIn(id)

MigrationSpec == MigrationInit /\ [][MigrationNext]_migrationVars

(* A start runs on and the unit restarts it; nobody is bound to call it.   *)
FairMigrationSpec == MigrationSpec /\ WF_migrationVars(OpenStep)

-----------------------------------------------------------------------------
(* Properties.                                                             *)

(* Whatever the database and wherever the process ends, opening it loses   *)
(* no tool, no opt-in, no column and no part of the AUTOINCREMENT mark.    *)
OpeningLosesNothing ==
  [][pc # "open" =>
       /\ file'.rows = file.rows
       /\ file'.optIns = file.optIns
       /\ file.columns \subseteq file'.columns
       /\ file'.seq >= file.seq]_migrationVars

(* Through every migration and interruption the file is one lasting        *)
(* database: the specification of ToolDatabase, with what is committed for *)
(* its contents, usable while the registry has it open.  So the rebuild    *)
(* that copies, drops and renames the table is, to everybody else, nothing.*)
Database == INSTANCE ToolDatabase WITH
  tools  <- file.rows,
  optIns <- file.optIns,
  lastId <- file.seq,
  usable <- pc = "open"

ImplementsToolDatabase == Database!DatabaseSpec

(* A tool registered after the migration never gets an id that an earlier  *)
(* tool had, deleted before the migration or after.                        *)
NoIdIsIssuedTwice ==
  [][\A id \in file'.rows \ file.rows : id \notin issued]_migrationVars

(* An open database has the table of schema.sql, and from then on every    *)
(* opt-in a tool, also on the connection that did the rebuild.             *)
OpenMeansMigrated ==
  pc = "open" => file.columns = SchemaColumns /\ file.optIns \subseteq file.rows

(* The inductive invariant of the proofs: what the database, and the draft *)
(* of the rebuild beside it, look like before each statement.              *)
ToRebuild == {"createRebuilt", "checkColumns", "readMark", "copy", "drop"}
Rebuilt == {"carryMark", "checkForeignKeys", "commit"}

FileIsSound ==
  /\ \A i \in file.rows \cup issued : i <= file.seq
  /\ file.columns = {} => file.rows = {} /\ file.optIns = {}
  /\ "harness_tool_name" \in file.columns =>
       /\ file.optIns \subseteq file.rows
       /\ file.columns \cup {"last_seen_at"} = SchemaColumns

FileFitsTheStatement ==
  /\ pc \in TransactionSteps \cup {"foreignKeysOff", "begin"} =>
       file.columns # {} /\ "harness_tool_name" \notin file.columns
  /\ pc \in {"foreignKeysOn", "addLastSeenAt"} =>
       file.columns = {} \/ "harness_tool_name" \in file.columns
  /\ pc = "schema" => file.columns = {} \/ file.columns = SchemaColumns
  /\ pc = "open" => file.columns = SchemaColumns
  /\ ~enforced <=> pc \in TransactionSteps \cup {"begin", "foreignKeysOn"}

DraftCarriesTheFile ==
  /\ pc \in TransactionSteps => draft.optIns = file.optIns
  /\ pc \in ToRebuild => /\ draft.rows = file.rows
                         /\ draft.seq = file.seq
                         /\ draft.columns = file.columns
  /\ pc \in TransactionSteps \ {"createRebuilt", "checkColumns"} =>
       file.columns \subseteq SchemaColumns
  /\ pc \in {"copy", "drop", "rename", "carryMark"} => mark = file.seq
  /\ pc \in {"drop", "rename"} => /\ draft.rebuilt = file.rows
                                  /\ draft.rebuiltSeq <= file.seq
  /\ pc \in Rebuilt => draft.rows = file.rows /\ draft.columns = SchemaColumns
  /\ pc = "carryMark" => draft.seq <= file.seq
  /\ pc \in {"checkForeignKeys", "commit"} => draft.seq = file.seq
  /\ pc = "commit" => draft.optIns \subseteq draft.rows

MigrationIInv ==
  MigrationTypeOK /\ FileIsSound /\ FileFitsTheStatement /\ DraftCarriesTheFile

(* Once it is no longer interrupted, an open succeeds for good, unless the *)
(* old table has a column the schema lacks or an opt-in without its tool.  *)
Unmigratable ==
  /\ file.columns # {} /\ "harness_tool_name" \notin file.columns
  /\ UnknownColumn \in file.columns \/ ~(file.optIns \subseteq file.rows)

OpensUnlessUnmigratable ==
  <>[](pc = "open") \/ []Unmigratable
=============================================================================
