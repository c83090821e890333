----------------------------- MODULE ToolTable -----------------------------
(***************************************************************************)
(* The vocabulary of the registry's tables: what a row of `tools` holds,   *)
(* which rows the program may write, and what each SQL statement does to a *)
(* table.  A table is a value here, so that the modules of the HTTP API,   *)
(* of the boot sequence, of the report transaction and of the migration    *)
(* speak of the same statements.                                           *)
(*                                                                         *)
(* A name is the sequence of its dot-free segments: "claude_code.Read" is  *)
(* <<"claude_code", "Read">>, and joining two strings with a dot is \o.    *)
(* Of a row's columns the model keeps those a guard or a property reads;   *)
(* descriptions, schemas and launcher specs are opaque to the registry and *)
(* are left out.                                                           *)
(***************************************************************************)
EXTENDS Integers, FiniteSets, Sequences

CONSTANTS
  Names,              (* row names in use                                   *)
  Harnesses,          (* harness ids, as llm-bridge-server sends them       *)
  HarnessToolNames,   (* the names harnesses give their own tools           *)
  Instances,          (* harness instances that can opt in                  *)
  NoTool              (* what the table holds under a name without a row    *)

Kinds == {"mcp", "cli", "local", "harness"}

Empty == << >>        \* the empty string

Rows == [id              : Nat \ {0},
         kind            : Kinds,
         harness         : Harnesses \cup {Empty},
         harnessToolName : HarnessToolNames \cup {Empty},
         enabled         : BOOLEAN,
         unreviewed      : BOOLEAN,    \* tags holds TagUnreviewed
         lastSeenAt      : Nat]

(* The tool a caller sends to POST /tools, or the seeder to UpsertTool.    *)
Tools == [name            : Names,
          kind            : Kinds,
          harness         : Harnesses \cup {Empty},
          harnessToolName : HarnessToolNames \cup {Empty},
          enabled         : BOOLEAN,
          unreviewed      : BOOLEAN]

OptIns == [instance : Instances, tool : Nat \ {0}]

HarnessToolRowName(harness, harnessToolName) == harness \o harnessToolName

ASSUME NamesAssumption ==
  /\ NoTool \notin Rows
  /\ Names \subseteq Seq(STRING)
  /\ Harnesses \cup HarnessToolNames \subseteq Seq(STRING) \ {Empty}
  /\ \A h \in Harnesses, t \in HarnessToolNames :
        HarnessToolRowName(h, t) \in Names

-----------------------------------------------------------------------------
(* What UpsertTool accepts, and what the CHECKs of the table accept.       *)

ValidWithoutTheNameRule(t) ==
  IF t.kind = "harness"
    THEN t.harness # Empty /\ t.harnessToolName # Empty
    ELSE t.harness = Empty /\ t.harnessToolName = Empty

Valid(t) ==
  IF t.kind = "harness"
    THEN /\ t.harness # Empty
         /\ t.harnessToolName # Empty
         /\ t.name = HarnessToolRowName(t.harness, t.harnessToolName)
    ELSE t.harness = Empty /\ t.harnessToolName = Empty

PassesChecks(name, row) ==
  /\ row.kind \in Kinds
  /\ (row.kind = "harness") <=> (row.harness # Empty /\ row.harnessToolName # Empty)
  /\ row.kind = "harness" => name = HarnessToolRowName(row.harness, row.harnessToolName)
  /\ row.kind # "harness" => row.harness = Empty /\ row.harnessToolName = Empty

-----------------------------------------------------------------------------
(* The statements, as functions of the table they run on.                  *)

Live(table) == {n \in Names : table[n] # NoTool}

Ids(table) == {table[n].id : n \in Live(table)}

NameOf(table, id) == CHOOSE n \in Live(table) : table[n].id = id

(* UPDATE tools SET ... WHERE name=?: everything but the id and            *)
(* last_seen_at.                                                           *)
OverwriteLastSeenToo(row, t) ==
  [row EXCEPT !.kind = t.kind, !.harness = t.harness,
              !.harnessToolName = t.harnessToolName,
              !.enabled = t.enabled, !.unreviewed = t.unreviewed,
              !.lastSeenAt = 0]

Overwrite(row, t) ==
  [row EXCEPT !.kind = t.kind, !.harness = t.harness,
              !.harnessToolName = t.harnessToolName,
              !.enabled = t.enabled, !.unreviewed = t.unreviewed]

(* INSERT INTO tools: the row a new tool gets.                             *)
NewRow(id, t) ==
  [id |-> id, kind |-> t.kind, harness |-> t.harness,
   harnessToolName |-> t.harnessToolName, enabled |-> t.enabled,
   unreviewed |-> t.unreviewed, lastSeenAt |-> 0]

(* The row a harness's report makes for a name nobody registered.          *)
ReportedRow(id, harness, harnessToolName, at) ==
  [id |-> id, kind |-> "harness", harness |-> harness,
   harnessToolName |-> harnessToolName, enabled |-> FALSE,
   unreviewed |-> TRUE, lastSeenAt |-> at]

(* AUTOINCREMENT: the id after the largest one ever handed out, which      *)
(* sqlite_sequence keeps.                                                  *)
AtTheHighWaterMark(table, highWater) == highWater

AfterTheLargestRow(table, highWater) ==
  1 + CHOOSE i \in Ids(table) \cup {0} : \A j \in Ids(table) : j <= i

NextId(table, highWater) == highWater + 1
=============================================================================
