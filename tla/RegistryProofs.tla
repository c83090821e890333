--------------------------- MODULE RegistryProofs ---------------------------
(***************************************************************************)
(* Theorems about the registry, for every set of names, clients, payloads  *)
(* and reports, and for every value of the bounds.                         *)
(***************************************************************************)
EXTENDS Registry, FiniteSetTheorems, TLAPS

(* What a handler holds, by the statement it is about to run.              *)
LEMMA PendingKinds ==
  ASSUME NEW r \in Pending \cup {Idle}
  PROVE  /\ r.at \in {"upsertReadId", "upsertInsert"} => r.tool \in Payloads
         /\ r.at \in {"optInInsert", "optOutDelete"} =>
              r.instance \in Instances /\ r.name \in Names /\ r.id \in Nat \ {0}
         /\ r.at = "reportCommit" => r.report \in Reports /\ r.reportedAt \in Nat
BY DEF Pending, Idle

LEMMA LiveRows ==
  ASSUME TypeOK, NEW n \in Live(tools)
  PROVE  n \in Names /\ tools[n] \in Rows
BY DEF TypeOK, Live

LEMMA OverwrittenRow ==
  ASSUME NEW row \in Rows, NEW t \in Tools
  PROVE  Overwrite(row, t) \in Rows /\ Overwrite(row, t).id = row.id
BY DEF Overwrite, Rows, Tools

(* A report names finitely many tools, so its transaction takes finitely    *)
(* many ids.                                                               *)
LEMMA ReportFacts ==
  ASSUME NEW r \in Reports
  PROVE  /\ Unregistered(r) \subseteq r.toolNames
         /\ r.toolNames \subseteq HarnessToolNames
         /\ r.harness \in Harnesses
         /\ Cardinality(r.toolNames) \in Nat
<1>1. /\ r.harness \in Harnesses
      /\ r.toolNames \subseteq HarnessToolNames
      /\ IsFiniteSet(r.toolNames)
  BY RegistryAssumption
<1>2. Unregistered(r) \subseteq r.toolNames
  BY DEF Unregistered
<1>. QED
  BY <1>1, <1>2, FS_CardinalityType

LEMMA ReportedRowIsARow ==
  ASSUME NEW id \in Nat \ {0}, NEW h \in Harnesses, NEW t \in HarnessToolNames,
         NEW at \in Nat
  PROVE  ReportedRow(id, h, t, at) \in Rows
BY DEF ReportedRow, Rows, Kinds

(* The row a report leaves under one of its names.                         *)
LEMMA SeenRowFacts ==
  ASSUME TypeOK, NEW r \in Reports, NEW at \in Nat, NEW hi \in Nat,
         NEW ids \in [Unregistered(r) -> NextId(tools, seq) .. hi],
         NEW n \in ReportedNames(r)
  PROVE  /\ n \in Names
         /\ SeenRow(r, n, at, ids) \in Rows
         /\ n \in Live(tools) =>
              SeenRow(r, n, at, ids) = [tools[n] EXCEPT !.lastSeenAt = at]
         /\ n \notin Live(tools) =>
              \E t \in Unregistered(r) :
                /\ n = HarnessToolRowName(r.harness, t)
                /\ SeenRow(r, n, at, ids) = ReportedRow(ids[t], r.harness, t, at)
<1>. DEFINE t == ReportedTool(r, n)
<1>1. t \in r.toolNames /\ n = HarnessToolRowName(r.harness, t)
  BY DEF ReportedNames, ReportedTool
<1>2. r.harness \in Harnesses /\ t \in HarnessToolNames
  BY <1>1, ReportFacts
<1>3. n \in Names
  BY <1>1, <1>2, NamesAssumption
<1>4. CASE n \in Live(tools)
  <2>1. SeenRow(r, n, at, ids) = [tools[n] EXCEPT !.lastSeenAt = at]
    BY <1>4 DEF SeenRow
  <2>2. [tools[n] EXCEPT !.lastSeenAt = at] \in Rows
    BY <1>4, LiveRows DEF Rows
  <2>. QED
    BY <1>3, <1>4, <2>1, <2>2
<1>5. CASE n \notin Live(tools)
  <2>1. t \in Unregistered(r)
    BY <1>1, <1>5 DEF Unregistered
  <2>2. SeenRow(r, n, at, ids) = ReportedRow(ids[t], r.harness, t, at)
    BY <1>5 DEF SeenRow
  <2>3. ids[t] \in Nat \ {0}
    BY <2>1 DEF NextId, TypeOK
  <2>. QED
    BY <1>1, <1>2, <1>3, <1>5, <2>1, <2>2, <2>3, ReportedRowIsARow
<1>. QED
  BY <1>4, <1>5

(* What a report that is not refused does to the tables.                   *)
LEMMA ReportEffect ==
  ASSUME TypeOK, NEW c \in Clients, ReportCommit(c),
         ~HeldByAnotherKind(request[c].report)
  PROVE  LET r  == request[c].report
             at == request[c].reportedAt
         IN  /\ r \in Reports /\ at \in Nat
             /\ seq' \in Nat /\ seq <= seq'
             /\ \E ids \in [Unregistered(r) -> NextId(tools, seq) .. seq'] :
                  /\ \A t, u \in Unregistered(r) : ids[t] = ids[u] => t = u
                  /\ tools' = [n \in Names |-> IF n \in ReportedNames(r)
                                               THEN SeenRow(r, n, at, ids)
                                               ELSE tools[n]]
<1>. DEFINE r  == request[c].report
            at == request[c].reportedAt
<1>1. r \in Reports /\ at \in Nat
  BY PendingKinds DEF ReportCommit, TypeOK
<1>2. seq' = seq + Cardinality(r.toolNames)
  BY DEF ReportCommit
<1>3. seq' \in Nat /\ seq <= seq'
  BY <1>1, <1>2, ReportFacts DEF TypeOK
<1>. QED
  BY <1>1, <1>2, <1>3 DEF ReportCommit

-----------------------------------------------------------------------------
(* Type correctness.                                                       *)

LEMMA UpsertTypes ==
  ASSUME TypeOK, NEW c \in Clients, UpsertSteps(c)
  PROVE  TypeOK'
<1>1. ASSUME NEW t \in Payloads, UpsertUpdate(c, t)
      PROVE  TypeOK'
  <2>1. t \in Tools
    BY RegistryAssumption
  <2>2. CASE t.name \in Live(tools)
    <3>1. Overwrite(tools[t.name], t) \in Rows
      BY <2>1, <2>2, LiveRows, OverwrittenRow
    <3>. QED
      BY <1>1, <2>1, <2>2, <3>1 DEF UpsertUpdate, TypeOK, Start, Pending
  <2>3. CASE t.name \notin Live(tools)
    BY <1>1, <2>3 DEF UpsertUpdate, TypeOK, Start, Pending
  <2>. QED
    BY <2>2, <2>3
<1>2. CASE UpsertReadId(c)
  BY <1>2 DEF UpsertReadId, TypeOK, Finish
<1>3. CASE UpsertInsert(c)
  <2>. DEFINE t == request[c].tool
  <2>1. t \in Tools
    BY <1>3, PendingKinds, RegistryAssumption DEF UpsertInsert, TypeOK
  <2>2. NewRow(NextId(tools, seq), t) \in Rows
    BY <2>1 DEF NewRow, NextId, Rows, Tools, TypeOK
  <2>3. tools' \in [Names -> Rows \cup {NoTool}]
    BY <1>3, <2>1, <2>2 DEF UpsertInsert, TypeOK, Tools
  <2>4. seq' \in Nat
    BY <1>3 DEF UpsertInsert, TypeOK, NextId
  <2>. QED
    BY <1>3, <2>3, <2>4 DEF UpsertInsert, TypeOK, Finish
<1>. QED
  BY <1>1, <1>2, <1>3 DEF UpsertSteps

LEMMA PersonTypes ==
  ASSUME TypeOK, PersonActs
  PROVE  TypeOK'
<1>1. ASSUME NEW n \in Names, NEW enabled \in BOOLEAN, SetEnabled(n, enabled)
      PROVE  TypeOK'
  <2>1. [tools[n] EXCEPT !.enabled = enabled] \in Rows
    BY <1>1, LiveRows DEF SetEnabled, Rows
  <2>. QED
    BY <1>1, <2>1 DEF SetEnabled, TypeOK
<1>2. ASSUME NEW n \in Names, NEW unreviewed \in BOOLEAN, NEW enabled \in BOOLEAN,
             PatchTool(n, unreviewed, enabled)
      PROVE  TypeOK'
  <2>1. [tools[n] EXCEPT !.unreviewed = unreviewed, !.enabled = enabled] \in Rows
    BY <1>2, LiveRows DEF PatchTool, Rows
  <2>. QED
    BY <1>2, <2>1 DEF PatchTool, TypeOK
<1>3. ASSUME NEW n \in Names, DeleteTool(n)
      PROVE  TypeOK'
  BY <1>3 DEF DeleteTool, TypeOK
<1>. QED
  BY <1>1, <1>2, <1>3 DEF PersonActs

LEMMA OptTypes ==
  ASSUME TypeOK, NEW c \in Clients, OptSteps(c)
  PROVE  TypeOK'
<1>1. ASSUME NEW i \in Instances, NEW n \in Names, OptInRead(c, i, n)
      PROVE  TypeOK'
  <2>1. tools[n].id \in Nat \ {0}
    BY <1>1, LiveRows DEF OptInRead, Rows
  <2>. QED
    BY <1>1, <2>1 DEF OptInRead, TypeOK, Start, Pending
<1>2. ASSUME NEW i \in Instances, NEW n \in Names, OptOutRead(c, i, n)
      PROVE  TypeOK'
  <2>1. tools[n].id \in Nat \ {0}
    BY <1>2, LiveRows DEF OptOutRead, Rows
  <2>. QED
    BY <1>2, <2>1 DEF OptOutRead, TypeOK, Start, Pending
<1>3. CASE OptInInsert(c)
  <2>1. [instance |-> request[c].instance, tool |-> request[c].id] \in OptIns
    BY <1>3, PendingKinds DEF OptInInsert, TypeOK, OptIns
  <2>. QED
    BY <1>3, <2>1 DEF OptInInsert, TypeOK, Finish
<1>4. CASE OptOutDelete(c)
  BY <1>4 DEF OptOutDelete, TypeOK, Finish
<1>. QED
  BY <1>1, <1>2, <1>3, <1>4 DEF OptSteps

LEMMA ReportTypes ==
  ASSUME TypeOK, NEW c \in Clients, ReportSteps(c)
  PROVE  TypeOK'
<1>1. ASSUME NEW r \in Reports, ReportStart(c, r)
      PROVE  TypeOK'
  BY <1>1 DEF ReportStart, TypeOK, Start, Pending
<1>2. CASE ReportCommit(c)
  <2>. DEFINE r  == request[c].report
              at == request[c].reportedAt
  <2>1. CASE HeldByAnotherKind(r)
    BY <1>2, <2>1 DEF ReportCommit, TypeOK, Finish
  <2>2. CASE ~HeldByAnotherKind(r)
    <3>1. r \in Reports /\ at \in Nat /\ seq' \in Nat
      BY <1>2, <2>2, ReportEffect
    <3>2. PICK ids \in [Unregistered(r) -> NextId(tools, seq) .. seq'] :
            tools' = [n \in Names |-> IF n \in ReportedNames(r)
                                         THEN SeenRow(r, n, at, ids)
                                         ELSE tools[n]]
      BY <1>2, <2>2, ReportEffect
    <3>3. ASSUME NEW n \in ReportedNames(r)
          PROVE  SeenRow(r, n, at, ids) \in Rows
      BY <3>1, <3>3, SeenRowFacts
    <3>4. tools' \in [Names -> Rows \cup {NoTool}]
      BY <3>2, <3>3 DEF TypeOK
    <3>. QED
      BY <1>2, <3>1, <3>4 DEF ReportCommit, TypeOK, Finish
  <2>. QED
    BY <2>1, <2>2
<1>. QED
  BY <1>1, <1>2 DEF ReportSteps

LEMMA StepTypes == TypeOK /\ [Next]_vars => TypeOK'
<1>. SUFFICES ASSUME TypeOK, [Next]_vars
              PROVE  TypeOK'
  OBVIOUS
<1>1. CASE Tick
  BY <1>1 DEF Tick, TypeOK
<1>2. CASE UNCHANGED vars
  BY <1>2 DEF vars, TypeOK
<1>3. ASSUME NEW c \in Clients, Fail(c)
      PROVE  TypeOK'
  BY <1>3 DEF Fail, Finish, TypeOK
<1>. QED
  BY <1>1, <1>2, <1>3, PersonTypes, UpsertTypes, OptTypes, ReportTypes DEF Next

(* The tables hold rows and opt-ins, the mark and the clock are natural    *)
(* numbers, and a handler holds what its next statement needs.             *)
THEOREM TypeCorrect == Spec => []TypeOK
<1>1. Init => TypeOK
  BY DEF Init, TypeOK, Idle
<1>. QED
  BY <1>1, StepTypes, PTL DEF Spec

-----------------------------------------------------------------------------
(* The inductive invariant.                                                *)

(* A row that passes validation passes the CHECKs of the table, so no      *)
(* statement UpsertTool sends is refused by one; nor is a reported row.    *)
LEMMA ValidToolsPassTheChecks ==
  ASSUME NEW t \in Tools, Valid(t), NEW id
  PROVE  PassesChecks(t.name, NewRow(id, t))
BY DEF Tools, Valid, PassesChecks, NewRow

LEMMA OverwrittenRowsPassTheChecks ==
  ASSUME NEW t \in Tools, Valid(t), NEW row \in Rows
  PROVE  PassesChecks(t.name, Overwrite(row, t))
BY DEF Tools, Rows, Valid, PassesChecks, Overwrite

LEMMA ReportedRowsPassTheChecks ==
  ASSUME NEW h \in Harnesses, NEW t \in HarnessToolNames, NEW id, NEW at
  PROVE  PassesChecks(HarnessToolRowName(h, t), ReportedRow(id, h, t, at))
BY NamesAssumption DEF PassesChecks, ReportedRow, Kinds

(* What every step does to ids: the mark only rises, a row that is there   *)
(* keeps its id, and a new row gets one that nobody has had.               *)
IdsMoveOn ==
  /\ seq <= seq'
  /\ \A n \in Live(tools)' :
       \/ n \in Live(tools) /\ tools'[n].id = tools[n].id
       \/ seq < tools'[n].id /\ tools'[n].id <= seq'
  /\ \A m, n \in Live(tools)' :
       seq < tools'[m].id /\ tools'[m].id = tools'[n].id => m = n

(* ... because it adds no row,                                             *)
AddsNoRow ==
  /\ seq' = seq
  /\ \A n \in Live(tools)' : n \in Live(tools) /\ tools'[n].id = tools[n].id

(* ... or adds one under the next id.                                      *)
AddsRow(name, id) ==
  /\ seq' = id
  /\ tools'[name].id = id
  /\ \A n \in Live(tools)' \ {name} : n \in Live(tools) /\ tools'[n].id = tools[n].id

LEMMA NoNewRow ==
  ASSUME TypeOK, IdsIdentifyTools, AddsNoRow
  PROVE  IdsMoveOn
<1>1. \A n \in Live(tools)' : tools'[n].id = tools[n].id /\ ~(seq < tools[n].id)
  <2>. SUFFICES ASSUME NEW n \in Live(tools)'
                PROVE  tools'[n].id = tools[n].id /\ ~(seq < tools[n].id)
    OBVIOUS
  <2>1. n \in Live(tools) /\ tools'[n].id = tools[n].id
    BY DEF AddsNoRow
  <2>2. tools[n].id \in Nat /\ tools[n].id <= seq
    BY <2>1, LiveRows DEF IdsIdentifyTools, Rows
  <2>. QED
    BY <2>1, <2>2 DEF TypeOK
<1>. QED
  BY <1>1 DEF AddsNoRow, IdsMoveOn, TypeOK

LEMMA OneNewRow ==
  ASSUME TypeOK, IdsIdentifyTools, NEW name \in Names, AddsRow(name, NextId(tools, seq))
  PROVE  IdsMoveOn
<1>1. seq' = seq + 1 /\ seq \in Nat /\ tools'[name].id = seq + 1
  BY DEF AddsRow, NextId, TypeOK
<1>2. ASSUME NEW n \in Live(tools)', n # name
      PROVE  n \in Live(tools) /\ tools'[n].id = tools[n].id /\ ~(seq < tools'[n].id)
  <2>1. n \in Live(tools) /\ tools'[n].id = tools[n].id
    BY <1>2 DEF AddsRow
  <2>2. tools[n].id \in Nat /\ tools[n].id <= seq
    BY <2>1, LiveRows DEF IdsIdentifyTools, Rows
  <2>. QED
    BY <1>1, <2>1, <2>2
<1>. QED
  BY <1>1, <1>2 DEF IdsMoveOn

(* Ids stay identifying, and the id a handler already holds stays true.    *)
LEMMA IdsGoOnIdentifying ==
  ASSUME TypeOK, TypeOK', IdsIdentifyTools, IdsMoveOn
  PROVE  IdsIdentifyTools'
<1>. SUFFICES ASSUME NEW m \in Live(tools)', NEW n \in Live(tools)'
              PROVE  /\ tools'[n].id <= seq'
                     /\ tools'[m].id = tools'[n].id => m = n
  BY DEF IdsIdentifyTools
<1>1. ASSUME NEW k \in Live(tools)'
      PROVE  /\ tools'[k].id \in Nat
             /\ k \in Live(tools) /\ tools'[k].id = tools[k].id => tools'[k].id <= seq
  <2>1. tools'[k].id \in Nat
    BY DEF TypeOK, Live, Rows
  <2>. QED
    BY <2>1 DEF IdsIdentifyTools
<1>2. CASE seq < tools'[m].id
  BY <1>1, <1>2 DEF IdsMoveOn, TypeOK
<1>3. CASE ~(seq < tools'[m].id)
  BY <1>1, <1>3 DEF IdsMoveOn, IdsIdentifyTools, TypeOK
<1>. QED
  BY <1>2, <1>3

LEMMA AHeldIdStaysTrue ==
  ASSUME TypeOK, TypeOK', IdsMoveOn, NEW id \in Nat, NEW name, id <= seq,
         \A n \in Live(tools) : tools[n].id = id => n = name
  PROVE  /\ id <= seq'
         /\ \A n \in Live(tools)' : tools'[n].id = id => n = name
<1>1. id <= seq'
  BY DEF IdsMoveOn, TypeOK
<1>. SUFFICES ASSUME NEW n \in Live(tools)', tools'[n].id = id
              PROVE  n = name
  BY <1>1
<1>2. ~(seq < tools'[n].id)
  BY DEF TypeOK
<1>. QED
  BY <1>2 DEF IdsMoveOn

LEMMA ReportIds ==
  ASSUME TypeOK, IdsIdentifyTools, NEW c \in Clients, ReportCommit(c)
  PROVE  IdsMoveOn
<1>. DEFINE r  == request[c].report
            at == request[c].reportedAt
<1>1. CASE HeldByAnotherKind(r)
  <2>1. AddsNoRow
    BY <1>1 DEF ReportCommit, AddsNoRow, Live
  <2>. QED
    BY <2>1, NoNewRow
<1>2. CASE ~HeldByAnotherKind(r)
  <2>1. r \in Reports /\ at \in Nat /\ seq' \in Nat /\ seq <= seq'
    BY <1>2, ReportEffect
  <2>2. PICK ids \in [Unregistered(r) -> NextId(tools, seq) .. seq'] :
          /\ \A t, u \in Unregistered(r) : ids[t] = ids[u] => t = u
          /\ tools' = [n \in Names |-> IF n \in ReportedNames(r)
                                       THEN SeenRow(r, n, at, ids)
                                       ELSE tools[n]]
    BY <1>2, ReportEffect
  <2>3. ASSUME NEW n \in Live(tools)', n \in Live(tools)
        PROVE  tools'[n].id = tools[n].id /\ ~(seq < tools'[n].id)
    <3>1. n \in Names /\ tools[n] \in Rows /\ tools[n].id <= seq /\ seq \in Nat
      BY <2>3, LiveRows DEF IdsIdentifyTools, TypeOK
    <3>2. CASE n \in ReportedNames(r)
      <4>1. SeenRow(r, n, at, ids) = [tools[n] EXCEPT !.lastSeenAt = at]
        BY <2>1, <2>3, <3>2, SeenRowFacts
      <4>. QED
        BY <2>2, <3>1, <3>2, <4>1 DEF Rows
    <3>3. CASE n \notin ReportedNames(r)
      BY <2>2, <3>1, <3>3 DEF Rows
    <3>. QED
      BY <3>2, <3>3
  <2>4. ASSUME NEW n \in Live(tools)', n \notin Live(tools)
        PROVE  \E t \in Unregistered(r) :
                 n = HarnessToolRowName(r.harness, t) /\ tools'[n].id = ids[t]
    <3>1. n \in Names /\ n \in ReportedNames(r)
      BY <2>2, <2>4 DEF Live
    <3>2. PICK t \in Unregistered(r) :
            /\ n = HarnessToolRowName(r.harness, t)
            /\ SeenRow(r, n, at, ids) = ReportedRow(ids[t], r.harness, t, at)
      BY <2>1, <2>4, <3>1, SeenRowFacts
    <3>. QED
      BY <2>2, <3>1, <3>2 DEF ReportedRow
  <2>5. \A t \in Unregistered(r) : seq < ids[t] /\ ids[t] <= seq'
    BY <2>1, <2>2 DEF NextId, TypeOK
  <2>6. \A n \in Live(tools)' :
          \/ n \in Live(tools) /\ tools'[n].id = tools[n].id
          \/ seq < tools'[n].id /\ tools'[n].id <= seq'
    BY <2>3, <2>4, <2>5
  <2>7. ASSUME NEW m \in Live(tools)', NEW n \in Live(tools)',
               seq < tools'[m].id, tools'[m].id = tools'[n].id
        PROVE  m = n
    BY <2>2, <2>3, <2>4, <2>7
  <2>. QED
    BY <2>1, <2>6, <2>7 DEF IdsMoveOn
<1>. QED
  BY <1>1, <1>2

LEMMA StepIds ==
  ASSUME TypeOK, IdsIdentifyTools, [Next]_vars
  PROVE  IdsMoveOn
<1>1. ASSUME NEW n \in Names, NEW enabled \in BOOLEAN, SetEnabled(n, enabled)
      PROVE  AddsNoRow
  BY <1>1, LiveRows DEF SetEnabled, AddsNoRow, TypeOK, Live, Rows
<1>2. ASSUME NEW n \in Names, NEW unreviewed \in BOOLEAN, NEW enabled \in BOOLEAN,
             PatchTool(n, unreviewed, enabled)
      PROVE  AddsNoRow
  BY <1>2, LiveRows DEF PatchTool, AddsNoRow, TypeOK, Live, Rows
<1>3. ASSUME NEW n \in Names, DeleteTool(n)
      PROVE  AddsNoRow
  BY <1>3 DEF DeleteTool, AddsNoRow, TypeOK, Live
<1>4. ASSUME NEW c \in Clients, NEW t \in Payloads, UpsertUpdate(c, t)
      PROVE  AddsNoRow
  <2>1. CASE t.name \in Live(tools)
    <3>1. Overwrite(tools[t.name], t).id = tools[t.name].id
      BY <2>1, LiveRows, RegistryAssumption, OverwrittenRow
    <3>. QED
      BY <1>4, <2>1, <3>1 DEF UpsertUpdate, AddsNoRow, TypeOK, Live
  <2>2. CASE t.name \notin Live(tools)
    BY <1>4, <2>2 DEF UpsertUpdate, AddsNoRow, Live
  <2>. QED
    BY <2>1, <2>2
<1>5. ASSUME NEW c \in Clients, UpsertInsert(c)
      PROVE  IdsMoveOn
  <2>. DEFINE t == request[c].tool
  <2>1. t.name \in Names
    BY <1>5, PendingKinds, RegistryAssumption DEF UpsertInsert, TypeOK, Tools
  <2>2. CASE t.name \in Live(tools)
    <3>1. AddsNoRow
      BY <1>5, <2>2 DEF UpsertInsert, AddsNoRow, Live
    <3>. QED
      BY <3>1, NoNewRow
  <2>3. CASE t.name \notin Live(tools)
    <3>1. AddsRow(t.name, NextId(tools, seq))
      BY <1>5, <2>1, <2>3 DEF UpsertInsert, AddsRow, NewRow, Live, TypeOK
    <3>. QED
      BY <2>1, <3>1, OneNewRow
  <2>. QED
    BY <2>2, <2>3
<1>6. ASSUME NEW c \in Clients, UpsertReadId(c) \/ OptSteps(c) \/ Fail(c)
      PROVE  AddsNoRow
  BY <1>6 DEF UpsertReadId, Fail, OptSteps, OptInRead, OptInInsert, OptOutRead,
              OptOutDelete, AddsNoRow, Live
<1>7. ASSUME NEW c \in Clients, NEW r \in Reports, ReportStart(c, r)
      PROVE  AddsNoRow
  BY <1>7 DEF ReportStart, AddsNoRow, Live
<1>8. ASSUME Tick
      PROVE  AddsNoRow
  BY <1>8 DEF Tick, AddsNoRow, Live
<1>9. ASSUME UNCHANGED vars
      PROVE  AddsNoRow
  BY <1>9 DEF vars, AddsNoRow, Live
<1>. QED
  BY <1>1, <1>2, <1>3, <1>4, <1>5, <1>6, <1>7, <1>8, <1>9, NoNewRow, ReportIds
     DEF Next, PersonActs, UpsertSteps, ReportSteps

(* A row keeps passing the CHECKs while its kind and names stay.           *)
SameKind(row, old) ==
  /\ row.kind = old.kind
  /\ row.harness = old.harness
  /\ row.harnessToolName = old.harnessToolName

LEMMA SameKindPasses ==
  ASSUME NEW name, NEW row, NEW old, SameKind(row, old), PassesChecks(name, old)
  PROVE  PassesChecks(name, row)
BY DEF SameKind, PassesChecks

LEMMA ReportRows ==
  ASSUME TypeOK, RowsPassTheSchemaChecks, NEW c \in Clients, ReportCommit(c)
  PROVE  RowsPassTheSchemaChecks'
<1>. DEFINE r  == request[c].report
            at == request[c].reportedAt
<1>1. CASE HeldByAnotherKind(r)
  BY <1>1 DEF ReportCommit, RowsPassTheSchemaChecks, Live
<1>2. CASE ~HeldByAnotherKind(r)
  <2>1. r \in Reports /\ at \in Nat /\ seq' \in Nat
    BY <1>2, ReportEffect
  <2>2. PICK ids \in [Unregistered(r) -> NextId(tools, seq) .. seq'] :
          tools' = [n \in Names |-> IF n \in ReportedNames(r)
                                       THEN SeenRow(r, n, at, ids)
                                       ELSE tools[n]]
    BY <1>2, ReportEffect
  <2>3. SUFFICES ASSUME NEW n \in Live(tools)'
                 PROVE  PassesChecks(n, tools'[n])
    BY DEF RowsPassTheSchemaChecks
  <2>4. n \in Names
    BY DEF Live
  <2>5. CASE n \notin ReportedNames(r)
    BY <2>2, <2>4, <2>5 DEF RowsPassTheSchemaChecks, Live
  <2>6. CASE n \in ReportedNames(r) /\ n \in Live(tools)
    <3>1. tools'[n] = [tools[n] EXCEPT !.lastSeenAt = at]
      BY <2>1, <2>2, <2>4, <2>6, SeenRowFacts
    <3>2. SameKind(tools'[n], tools[n])
      BY <2>6, <3>1, LiveRows DEF SameKind, Rows
    <3>. QED
      BY <2>6, <3>2, SameKindPasses DEF RowsPassTheSchemaChecks
  <2>7. CASE n \in ReportedNames(r) /\ n \notin Live(tools)
    <3>1. PICK t \in Unregistered(r) :
            /\ n = HarnessToolRowName(r.harness, t)
            /\ SeenRow(r, n, at, ids) = ReportedRow(ids[t], r.harness, t, at)
      BY <2>1, <2>2, <2>7, SeenRowFacts
    <3>2. t \in HarnessToolNames /\ r.harness \in Harnesses
      BY <2>1, ReportFacts
    <3>. QED
      BY <2>2, <2>4, <2>7, <3>1, <3>2, ReportedRowsPassTheChecks
  <2>. QED
    BY <2>5, <2>6, <2>7
<1>. QED
  BY <1>1, <1>2

LEMMA StepRows ==
  ASSUME TypeOK, RowsPassTheSchemaChecks, [Next]_vars,
         \A c \in Clients : request[c].at = "upsertInsert" => Valid(request[c].tool)
  PROVE  RowsPassTheSchemaChecks'
<1>1. ASSUME NEW n \in Names, NEW enabled \in BOOLEAN, SetEnabled(n, enabled)
      PROVE  RowsPassTheSchemaChecks'
  <2>1. SameKind(tools'[n], tools[n])
    BY <1>1, LiveRows DEF SetEnabled, SameKind, TypeOK, Rows
  <2>. QED
    BY <1>1, <2>1, SameKindPasses
       DEF SetEnabled, RowsPassTheSchemaChecks, TypeOK, Live
<1>2. ASSUME NEW n \in Names, NEW unreviewed \in BOOLEAN, NEW enabled \in BOOLEAN,
             PatchTool(n, unreviewed, enabled)
      PROVE  RowsPassTheSchemaChecks'
  <2>1. SameKind(tools'[n], tools[n])
    BY <1>2, LiveRows DEF PatchTool, SameKind, TypeOK, Rows
  <2>. QED
    BY <1>2, <2>1, SameKindPasses
       DEF PatchTool, RowsPassTheSchemaChecks, TypeOK, Live
<1>3. ASSUME NEW n \in Names, DeleteTool(n)
      PROVE  RowsPassTheSchemaChecks'
  BY <1>3 DEF DeleteTool, RowsPassTheSchemaChecks, TypeOK, Live
<1>4. ASSUME NEW c \in Clients, NEW t \in Payloads, UpsertUpdate(c, t)
      PROVE  RowsPassTheSchemaChecks'
  <2>1. CASE t.name \in Live(tools)
    <3>1. PassesChecks(t.name, Overwrite(tools[t.name], t))
      BY <1>4, <2>1, LiveRows, RegistryAssumption, OverwrittenRowsPassTheChecks
         DEF UpsertUpdate
    <3>. QED
      BY <1>4, <2>1, <3>1 DEF UpsertUpdate, RowsPassTheSchemaChecks, TypeOK, Live
  <2>2. CASE t.name \notin Live(tools)
    BY <1>4, <2>2 DEF UpsertUpdate, RowsPassTheSchemaChecks, Live
  <2>. QED
    BY <2>1, <2>2
<1>5. ASSUME NEW c \in Clients, UpsertInsert(c)
      PROVE  RowsPassTheSchemaChecks'
  <2>. DEFINE t == request[c].tool
  <2>1. CASE t.name \in Live(tools)
    BY <1>5, <2>1 DEF UpsertInsert, RowsPassTheSchemaChecks, Live
  <2>2. CASE t.name \notin Live(tools)
    <3>1. t \in Tools /\ Valid(t)
      BY <1>5, PendingKinds, RegistryAssumption DEF UpsertInsert, TypeOK
    <3>2. PassesChecks(t.name, NewRow(NextId(tools, seq), t))
      BY <3>1, ValidToolsPassTheChecks
    <3>. QED
      BY <1>5, <2>2, <3>1, <3>2
         DEF UpsertInsert, RowsPassTheSchemaChecks, TypeOK, Live, Tools
  <2>. QED
    BY <2>1, <2>2
<1>6. ASSUME NEW c \in Clients, UpsertReadId(c) \/ OptSteps(c) \/ Fail(c)
      PROVE  RowsPassTheSchemaChecks'
  BY <1>6 DEF UpsertReadId, Fail, OptSteps, OptInRead, OptInInsert, OptOutRead,
              OptOutDelete, RowsPassTheSchemaChecks, Live
<1>7. ASSUME NEW c \in Clients, NEW r \in Reports, ReportStart(c, r)
      PROVE  RowsPassTheSchemaChecks'
  BY <1>7 DEF ReportStart, RowsPassTheSchemaChecks, Live
<1>8. ASSUME Tick
      PROVE  RowsPassTheSchemaChecks'
  BY <1>8 DEF Tick, RowsPassTheSchemaChecks, Live
<1>9. ASSUME UNCHANGED vars
      PROVE  RowsPassTheSchemaChecks'
  BY <1>9 DEF vars, RowsPassTheSchemaChecks, Live
<1>. QED
  BY <1>1, <1>2, <1>3, <1>4, <1>5, <1>6, <1>7, <1>8, <1>9, ReportRows
     DEF Next, PersonActs, UpsertSteps, ReportSteps

(* Rows leave the table by DELETE alone.                                   *)
LEMMA ReportTakesNoRow ==
  ASSUME TypeOK, NEW c \in Clients, ReportCommit(c), NEW n \in Live(tools)
  PROVE  Survives(n)
<1>. DEFINE r  == request[c].report
            at == request[c].reportedAt
<1>1. CASE HeldByAnotherKind(r)
  BY <1>1 DEF ReportCommit, Survives, Live
<1>2. CASE ~HeldByAnotherKind(r)
  <2>1. r \in Reports /\ at \in Nat /\ seq' \in Nat
    BY <1>2, ReportEffect
  <2>2. PICK ids \in [Unregistered(r) -> NextId(tools, seq) .. seq'] :
          tools' = [m \in Names |-> IF m \in ReportedNames(r)
                                       THEN SeenRow(r, m, at, ids)
                                       ELSE tools[m]]
    BY <1>2, ReportEffect
  <2>3. n \in Names /\ tools[n] \in Rows /\ tools[n] # NoTool
    BY LiveRows DEF Live
  <2>4. CASE n \in ReportedNames(r)
    <3>1. tools'[n] = [tools[n] EXCEPT !.lastSeenAt = at] /\ tools'[n] \in Rows
      BY <2>1, <2>2, <2>3, <2>4, SeenRowFacts
    <3>2. tools'[n].id = tools[n].id /\ tools'[n] # NoTool
      BY <2>3, <3>1, NamesAssumption DEF Rows
    <3>. QED
      BY <2>3, <3>2 DEF Survives, Live
  <2>5. CASE n \notin ReportedNames(r)
    BY <2>2, <2>3, <2>5 DEF Survives, Live
  <2>. QED
    BY <2>4, <2>5
<1>. QED
  BY <1>1, <1>2

LEMMA OnlyDeleteTakesRows ==
  ASSUME TypeOK, [Next]_vars, \A m \in Names : ~DeleteTool(m), NEW n \in Live(tools)
  PROVE  Survives(n)
<1>0. n \in Names /\ tools[n] \in Rows /\ NoTool \notin Rows
  BY LiveRows, NamesAssumption
<1>1. ASSUME NEW m \in Names, NEW enabled \in BOOLEAN, SetEnabled(m, enabled)
      PROVE  Survives(n)
  <2>1. [tools[m] EXCEPT !.enabled = enabled] \in Rows
    BY <1>1, LiveRows DEF SetEnabled, Rows
  <2>. QED
    BY <1>0, <1>1, <2>1 DEF SetEnabled, Survives, TypeOK, Live, Rows
<1>2. ASSUME NEW m \in Names, NEW unreviewed \in BOOLEAN, NEW enabled \in BOOLEAN,
             PatchTool(m, unreviewed, enabled)
      PROVE  Survives(n)
  <2>1. [tools[m] EXCEPT !.unreviewed = unreviewed, !.enabled = enabled] \in Rows
    BY <1>2, LiveRows DEF PatchTool, Rows
  <2>. QED
    BY <1>0, <1>2, <2>1 DEF PatchTool, Survives, TypeOK, Live, Rows
<1>3. ASSUME NEW c \in Clients, NEW t \in Payloads, UpsertUpdate(c, t)
      PROVE  Survives(n)
  <2>1. CASE t.name \in Live(tools)
    <3>1. /\ Overwrite(tools[t.name], t).id = tools[t.name].id
          /\ Overwrite(tools[t.name], t) \in Rows
      BY <2>1, LiveRows, RegistryAssumption, OverwrittenRow
    <3>. QED
      BY <1>0, <1>3, <2>1, <3>1 DEF UpsertUpdate, Survives, TypeOK, Live
  <2>2. CASE t.name \notin Live(tools)
    BY <1>3, <2>2 DEF UpsertUpdate, Survives, Live
  <2>. QED
    BY <2>1, <2>2
<1>4. ASSUME NEW c \in Clients, UpsertInsert(c)
      PROVE  Survives(n)
  BY <1>0, <1>4 DEF UpsertInsert, Survives, TypeOK, Live
<1>5. ASSUME NEW c \in Clients, UpsertReadId(c) \/ OptSteps(c) \/ Fail(c)
      PROVE  Survives(n)
  BY <1>5 DEF UpsertReadId, Fail, OptSteps, OptInRead, OptInInsert, OptOutRead,
              OptOutDelete, Survives, Live
<1>6. ASSUME NEW c \in Clients, NEW r \in Reports, ReportStart(c, r)
      PROVE  Survives(n)
  BY <1>6 DEF ReportStart, Survives, Live
<1>7. ASSUME Tick
      PROVE  Survives(n)
  BY <1>7 DEF Tick, Survives, Live
<1>8. ASSUME UNCHANGED vars
      PROVE  Survives(n)
  BY <1>8 DEF vars, Survives, Live
<1>. QED
  BY <1>1, <1>2, <1>3, <1>4, <1>5, <1>6, <1>7, <1>8, ReportTakesNoRow
     DEF Next, PersonActs, UpsertSteps, ReportSteps

LEMMA StepOptIns ==
  ASSUME TypeOK, IdsIdentifyTools, OptInsHoldLiveTools, [Next]_vars
  PROVE  OptInsHoldLiveTools'
<1>. SUFFICES ASSUME NEW o \in optIns'
              PROVE  \E n \in Live(tools)' : tools'[n].id = o.tool
  BY DEF OptInsHoldLiveTools, Ids
<1>1. ASSUME NEW m \in Names, DeleteTool(m)
      PROVE  \E n \in Live(tools)' : tools'[n].id = o.tool
  <2>1. o \in optIns /\ o.tool # tools[m].id
    BY <1>1 DEF DeleteTool
  <2>2. PICK n \in Live(tools) : tools[n].id = o.tool
    BY <2>1 DEF OptInsHoldLiveTools, Ids
  <2>3. n # m
    BY <2>1, <2>2
  <2>. QED
    BY <1>1, <2>2, <2>3 DEF DeleteTool, TypeOK, Live
<1>2. ASSUME \A m \in Names : ~DeleteTool(m)
      PROVE  \E n \in Live(tools)' : tools'[n].id = o.tool
  <2>1. \A n \in Live(tools) : Survives(n)
    BY <1>2, OnlyDeleteTakesRows
  <2>2. o.tool \in Ids(tools)
    <3>1. CASE o \in optIns
      BY <3>1 DEF OptInsHoldLiveTools
    <3>2. CASE o \notin optIns
      <4>1. PICK c \in Clients : OptInInsert(c)
        BY <1>2, <3>2
           DEF Next, vars, PersonActs, SetEnabled, PatchTool, UpsertSteps, UpsertUpdate,
               UpsertReadId, UpsertInsert, OptSteps, OptInRead, OptOutRead, OptOutDelete,
               ReportSteps, ReportStart, ReportCommit, Fail, Tick
      <4>. QED
        BY <3>2, <4>1 DEF OptInInsert
    <3>. QED
      BY <3>1, <3>2
  <2>3. PICK n \in Live(tools) : tools[n].id = o.tool
    BY <2>2 DEF Ids
  <2>. QED
    BY <2>1, <2>3 DEF Survives
<1>. QED
  BY <1>1, <1>2

(* What a handler holds after a step: what it held, nothing, a tool that   *)
(* passed validation, an id it has just read, or a report.                 *)
HoldsAnUpsert(c) ==
  \E t \in Payloads, at \in {"upsertReadId", "upsertInsert"} :
    Valid(t) /\ request'[c] = [at |-> at, tool |-> t]

HoldsAFreshId(c) ==
  /\ tools' = tools /\ seq' = seq
  /\ \E n \in Live(tools), i \in Instances, at \in {"optInInsert", "optOutDelete"} :
       request'[c] = [at |-> at, instance |-> i, name |-> n, id |-> tools[n].id]

HoldsAReport(c) == \E r \in Reports :
  request'[c] = [at |-> "reportCommit", report |-> r, reportedAt |-> clock]

LEMMA StepRequests ==
  ASSUME TypeOK, [Next]_vars, NEW d \in Clients
  PROVE  \/ request'[d] = request[d]
         \/ request'[d] = Idle
         \/ HoldsAnUpsert(d)
         \/ HoldsAFreshId(d)
         \/ HoldsAReport(d)
<1>. DEFINE Goal == \/ request'[d] = request[d]
                    \/ request'[d] = Idle
                    \/ HoldsAnUpsert(d)
                    \/ HoldsAFreshId(d)
                    \/ HoldsAReport(d)
<1>1. CASE PersonActs
  BY <1>1 DEF PersonActs, SetEnabled, PatchTool, DeleteTool
<1>2. ASSUME NEW c \in Clients, NEW t \in Payloads, UpsertUpdate(c, t)
      PROVE  Goal
  BY <1>2 DEF UpsertUpdate, Start, HoldsAnUpsert, TypeOK
<1>3. ASSUME NEW c \in Clients, UpsertReadId(c) \/ UpsertInsert(c)
                                \/ OptInInsert(c) \/ OptOutDelete(c) \/ ReportCommit(c)
                                \/ Fail(c)
      PROVE  Goal
  <2>1. Finish(c)
    BY <1>3 DEF UpsertReadId, UpsertInsert, OptInInsert, OptOutDelete, ReportCommit, Fail
  <2>. QED
    BY <2>1 DEF Finish, TypeOK
<1>4. ASSUME NEW c \in Clients, NEW i \in Instances, NEW n \in Names,
             OptInRead(c, i, n) \/ OptOutRead(c, i, n)
      PROVE  Goal
  BY <1>4 DEF OptInRead, OptOutRead, Start, HoldsAFreshId, TypeOK
<1>5. ASSUME NEW c \in Clients, NEW r \in Reports, ReportStart(c, r)
      PROVE  Goal
  BY <1>5 DEF ReportStart, Start, HoldsAReport, TypeOK
<1>6. CASE Tick \/ UNCHANGED vars
  BY <1>6 DEF Tick, vars
<1>. QED
  BY <1>1, <1>2, <1>3, <1>4, <1>5, <1>6 DEF Next, UpsertSteps, OptSteps, ReportSteps

LEMMA NewRequestKinds ==
  ASSUME NEW c
  PROVE  /\ request'[c] = Idle => request'[c].at = "idle"
         /\ HoldsAnUpsert(c) => request'[c].at \in {"upsertReadId", "upsertInsert"}
         /\ HoldsAFreshId(c) => request'[c].at \in {"optInInsert", "optOutDelete"}
         /\ HoldsAReport(c) => request'[c].at = "reportCommit"
<1>1. request'[c] = Idle => request'[c].at = "idle"
  BY DEF Idle
<1>2. HoldsAnUpsert(c) => request'[c].at \in {"upsertReadId", "upsertInsert"}
  BY DEF HoldsAnUpsert
<1>3. HoldsAFreshId(c) => request'[c].at \in {"optInInsert", "optOutDelete"}
  BY DEF HoldsAFreshId
<1>4. HoldsAReport(c) => request'[c].at = "reportCommit"
  BY DEF HoldsAReport
<1>. QED
  BY <1>1, <1>2, <1>3, <1>4

LEMMA StepHeldIds ==
  ASSUME TypeOK, TypeOK', IdsIdentifyTools, HeldIdsStayTrue, [Next]_vars
  PROVE  HeldIdsStayTrue'
<1>. SUFFICES ASSUME NEW c \in Clients,
                     request'[c].at \in {"optInInsert", "optOutDelete"}
              PROVE  /\ request'[c].id <= seq'
                     /\ \A n \in Live(tools)' :
                          tools'[n].id = request'[c].id => n = request'[c].name
  BY DEF HeldIdsStayTrue
<1>1. IdsMoveOn
  BY StepIds
<1>2. CASE request'[c] = request[c]
  <2>1. request[c].at \in {"optInInsert", "optOutDelete"} /\ request[c].id \in Nat
    BY <1>2, PendingKinds DEF TypeOK
  <2>2. /\ request[c].id <= seq
        /\ \A n \in Live(tools) : tools[n].id = request[c].id => n = request[c].name
    BY <2>1 DEF HeldIdsStayTrue
  <2>3. /\ request[c].id <= seq'
        /\ \A n \in Live(tools)' : tools'[n].id = request[c].id => n = request[c].name
    BY <1>1, <2>1, <2>2, AHeldIdStaysTrue
  <2>. QED
    BY <1>2, <2>3
<1>3. CASE HoldsAFreshId(c)
  <2>1. PICK n \in Live(tools) : request'[c].id = tools[n].id /\ request'[c].name = n
    BY <1>3 DEF HoldsAFreshId
  <2>2. tools[n].id <= seq /\ \A m \in Live(tools) : tools[m].id = tools[n].id => m = n
    BY <2>1 DEF IdsIdentifyTools
  <2>3. tools' = tools /\ seq' = seq
    BY <1>3 DEF HoldsAFreshId
  <2>. QED
    BY <2>1, <2>2, <2>3 DEF Live
<1>4. ~(request'[c] = Idle \/ HoldsAnUpsert(c) \/ HoldsAReport(c))
  BY NewRequestKinds
<1>. QED
  BY <1>2, <1>3, <1>4, StepRequests

LEMMA StepPendingUpserts ==
  ASSUME TypeOK, [Next]_vars,
         \A c \in Clients : request[c].at = "upsertInsert" => Valid(request[c].tool)
  PROVE  \A c \in Clients : request'[c].at = "upsertInsert" => Valid(request'[c].tool)
<1>. SUFFICES ASSUME NEW c \in Clients, request'[c].at = "upsertInsert"
              PROVE  Valid(request'[c].tool)
  OBVIOUS
<1>1. CASE request'[c] = request[c]
  BY <1>1
<1>2. CASE HoldsAnUpsert(c)
  BY <1>2 DEF HoldsAnUpsert
<1>3. ~(request'[c] = Idle \/ HoldsAFreshId(c) \/ HoldsAReport(c))
  BY NewRequestKinds
<1>. QED
  BY <1>1, <1>2, <1>3, StepRequests

LEMMA InitIInv == Init => IInv
BY DEF Init, IInv, TypeOK, Idle, Live, Ids, IdsIdentifyTools, OptInsHoldLiveTools,
       RowsPassTheSchemaChecks, HeldIdsStayTrue

LEMMA StepIInv == IInv /\ [Next]_vars => IInv'
<1>. SUFFICES ASSUME IInv, [Next]_vars
              PROVE  IInv'
  OBVIOUS
<1>1. TypeOK'
  BY StepTypes DEF IInv
<1>2. IdsIdentifyTools'
  BY <1>1, StepIds, IdsGoOnIdentifying DEF IInv
<1>3. OptInsHoldLiveTools'
  BY StepOptIns DEF IInv
<1>4. RowsPassTheSchemaChecks'
  BY StepRows DEF IInv
<1>5. HeldIdsStayTrue'
  BY <1>1, StepHeldIds DEF IInv
<1>6. \A c \in Clients : request'[c].at = "upsertInsert" => Valid(request'[c].tool)
  BY StepPendingUpserts DEF IInv
<1>. QED
  BY <1>1, <1>2, <1>3, <1>4, <1>5, <1>6 DEF IInv

(* The inductive invariant holds, and with it the invariants the runs      *)
(* check: no interleaving of handlers gives an id to two tools, leaves an  *)
(* opt-in without its tool, writes a row the schema refuses or makes the   *)
(* id a handler holds another tool's.                                      *)
THEOREM InvariantHolds == Spec => []IInv
BY InitIInv, StepIInv, PTL DEF Spec

(* An id names at most one tool, and none is ahead of the mark.            *)
THEOREM IdsAlwaysIdentifyTools == Spec => []IdsIdentifyTools
<1>1. IInv => IdsIdentifyTools
  BY DEF IInv
<1>. QED
  BY <1>1, InvariantHolds, PTL

(* Every opt-in is of a tool that exists.                                  *)
THEOREM OptInsAlwaysHoldLiveTools == Spec => []OptInsHoldLiveTools
<1>1. IInv => OptInsHoldLiveTools
  BY DEF IInv
<1>. QED
  BY <1>1, InvariantHolds, PTL

(* Every row satisfies the CHECKs, whichever route wrote it.               *)
THEOREM RowsAlwaysPassTheSchemaChecks == Spec => []RowsPassTheSchemaChecks
<1>1. IInv => RowsPassTheSchemaChecks
  BY DEF IInv
<1>. QED
  BY <1>1, InvariantHolds, PTL

(* The id a handler read by name is the named tool's, or nobody's.         *)
THEOREM HeldIdsAlwaysStayTrue == Spec => []HeldIdsStayTrue
<1>1. IInv => HeldIdsStayTrue
  BY DEF IInv
<1>. QED
  BY <1>1, InvariantHolds, PTL

-----------------------------------------------------------------------------
(* Action properties.                                                      *)

(* Opt-ins come by the second statement of EnableForInstance alone, and    *)
(* go by that of DisableForInstance or with their tool.                    *)
LEMMA OptInsComeByInsert ==
  ASSUME [Next]_vars, NEW o \in optIns', o \notin optIns
  PROVE  \E c \in Clients : OptInInsert(c)
BY DEF Next, vars, PersonActs, SetEnabled, PatchTool, DeleteTool, UpsertSteps,
       UpsertUpdate, UpsertReadId, UpsertInsert, OptSteps, OptInRead, OptOutRead,
       OptOutDelete, ReportSteps, ReportStart, ReportCommit, Fail, Tick

LEMMA OptInsGoByDelete ==
  ASSUME [Next]_vars, NEW o \in optIns, o \notin optIns'
  PROVE  \/ \E n \in Names : DeleteTool(n)
         \/ \E c \in Clients : OptOutDelete(c)
BY DEF Next, vars, PersonActs, SetEnabled, PatchTool, UpsertSteps,
       UpsertUpdate, UpsertReadId, UpsertInsert, OptSteps, OptInRead, OptOutRead,
       OptInInsert, ReportSteps, ReportStart, ReportCommit, Fail, Tick

LEMMA InsertedForTheNamedTool ==
  ASSUME IInv, [Next]_vars
  PROVE  \A c \in Clients, o \in optIns' \ optIns :
           Finishes(c, "optInInsert") =>
             /\ request[c].name \in Live(tools)
             /\ tools[request[c].name].id = o.tool
             /\ o.instance = request[c].instance
<1>. SUFFICES ASSUME IInv, [Next]_vars, NEW c \in Clients, NEW o \in optIns' \ optIns,
                     Finishes(c, "optInInsert")
              PROVE  /\ request[c].name \in Live(tools)
                     /\ tools[request[c].name].id = o.tool
                     /\ o.instance = request[c].instance
  OBVIOUS
<1>1. PICK d \in Clients : OptInInsert(d)
  BY OptInsComeByInsert
<1>2. d = c
  BY <1>1 DEF OptInInsert, Finish, Finishes, IInv, TypeOK, Idle
<1>3. /\ request[c].id \in Ids(tools)
      /\ o = [instance |-> request[c].instance, tool |-> request[c].id]
  BY <1>1, <1>2 DEF OptInInsert
<1>4. PICK n \in Live(tools) : tools[n].id = request[c].id
  BY <1>3 DEF Ids
<1>5. n = request[c].name
  BY <1>4 DEF IInv, HeldIdsStayTrue, Finishes
<1>. QED
  BY <1>3, <1>4, <1>5

(* The opt-in an insert makes is of the tool the caller named: the id its  *)
(* handler read is still that tool's, or the foreign key refuses it.       *)
THEOREM OptInsAreForTheNamedTool == Spec => OptInIsForTheNamedTool
<1>. DEFINE Named == \A c \in Clients, o \in optIns' \ optIns :
                       Finishes(c, "optInInsert") =>
                         /\ request[c].name \in Live(tools)
                         /\ tools[request[c].name].id = o.tool
                         /\ o.instance = request[c].instance
<1>1. IInv /\ [Next]_vars => Named
  BY InsertedForTheNamedTool
<1>. QED
  BY <1>1, InvariantHolds, PTL DEF Spec, OptInIsForTheNamedTool

LEMMA GoneBecauseAsked ==
  ASSUME IInv, [Next]_vars
  PROVE  \A o \in optIns \ optIns' :
           \/ o.tool \notin Ids(tools)'
           \/ \E c \in Clients : /\ Finishes(c, "optOutDelete")
                                 /\ request[c].instance = o.instance
                                 /\ request[c].id = o.tool
<1>. SUFFICES ASSUME IInv, [Next]_vars, NEW o \in optIns \ optIns'
              PROVE  \/ o.tool \notin Ids(tools)'
                     \/ \E c \in Clients : /\ Finishes(c, "optOutDelete")
                                           /\ request[c].instance = o.instance
                                           /\ request[c].id = o.tool
  OBVIOUS
<1>1. ASSUME NEW n \in Names, DeleteTool(n)
      PROVE  o.tool \notin Ids(tools)'
  <2>1. o.tool = tools[n].id /\ n \in Live(tools)
    BY <1>1 DEF DeleteTool
  <2>2. ASSUME NEW m \in Live(tools)'
        PROVE  m \in Live(tools) /\ m # n /\ tools'[m] = tools[m]
    BY <1>1, <2>2 DEF DeleteTool, IInv, TypeOK, Live
  <2>. QED
    BY <2>1, <2>2 DEF IInv, IdsIdentifyTools, Ids
<1>2. ASSUME NEW c \in Clients, OptOutDelete(c)
      PROVE  /\ Finishes(c, "optOutDelete")
             /\ request[c].instance = o.instance
             /\ request[c].id = o.tool
  BY <1>2 DEF OptOutDelete, Finish, Finishes, IInv, TypeOK
<1>. QED
  BY <1>1, <1>2, OptInsGoByDelete

(* An opt-in that goes goes with its tool, or a caller opted that instance *)
(* out of that tool.                                                       *)
THEOREM OptInsLeaveOnlyWhenAskedTo == Spec => OptInsOnlyLeaveWhenAskedTo
<1>. DEFINE Asked == \A o \in optIns \ optIns' :
                       \/ o.tool \notin Ids(tools)'
                       \/ \E c \in Clients : /\ Finishes(c, "optOutDelete")
                                             /\ request[c].instance = o.instance
                                             /\ request[c].id = o.tool
<1>1. IInv /\ [Next]_vars => Asked
  BY GoneBecauseAsked
<1>. QED
  BY <1>1, InvariantHolds, PTL DEF Spec, OptInsOnlyLeaveWhenAskedTo
-----------------------------------------------------------------------------
(* What may change a row.                                                  *)

(* A report leaves a row as it is, marks it seen, or makes it switched     *)
(* off.                                                                    *)
LEMMA ReportRowByRow ==
  ASSUME TypeOK, NEW c \in Clients, ReportCommit(c), NEW n \in Live(tools)'
  PROVE  \/ n \in Live(tools) /\ tools'[n] = tools[n]
         \/ /\ n \in ReportedNames(request[c].report)
            /\ IF n \in Live(tools)
                 THEN tools'[n] = [tools[n] EXCEPT !.lastSeenAt = request[c].reportedAt]
                 ELSE ~tools'[n].enabled
<1>. DEFINE r  == request[c].report
            at == request[c].reportedAt
<1>1. CASE HeldByAnotherKind(r)
  BY <1>1 DEF ReportCommit, Live
<1>2. CASE ~HeldByAnotherKind(r)
  <2>1. r \in Reports /\ at \in Nat /\ seq' \in Nat
    BY <1>2, ReportEffect
  <2>2. PICK ids \in [Unregistered(r) -> NextId(tools, seq) .. seq'] :
          tools' = [m \in Names |-> IF m \in ReportedNames(r)
                                       THEN SeenRow(r, m, at, ids)
                                       ELSE tools[m]]
    BY <1>2, ReportEffect
  <2>3. n \in Names /\ tools'[n] # NoTool
    BY DEF Live
  <2>4. CASE n \notin ReportedNames(r)
    BY <2>2, <2>3, <2>4 DEF Live
  <2>5. CASE n \in ReportedNames(r) /\ n \in Live(tools)
    <3>1. SeenRow(r, n, at, ids) = [tools[n] EXCEPT !.lastSeenAt = at]
      BY <2>1, <2>5, SeenRowFacts
    <3>. QED
      BY <2>2, <2>3, <2>5, <3>1
  <2>6. CASE n \in ReportedNames(r) /\ n \notin Live(tools)
    <3>1. PICK t \in Unregistered(r) :
            SeenRow(r, n, at, ids) = ReportedRow(ids[t], r.harness, t, at)
      BY <2>1, <2>6, SeenRowFacts
    <3>. QED
      BY <2>2, <2>3, <2>6, <3>1 DEF ReportedRow
  <2>. QED
    BY <2>4, <2>5, <2>6
<1>. QED
  BY <1>1, <1>2

(* No other handler touches last_seen_at of a row that is there.           *)
LEMMA OthersLeaveLastSeen ==
  ASSUME TypeOK, [Next]_vars, \A c \in Clients : ~ReportCommit(c),
         NEW n \in Names, Survives(n)
  PROVE  tools'[n].lastSeenAt = tools[n].lastSeenAt
<1>0. n \in Live(tools) /\ tools[n] \in Rows
  BY LiveRows DEF Survives
<1>1. ASSUME NEW m \in Names, NEW enabled \in BOOLEAN, SetEnabled(m, enabled)
      PROVE  tools'[n].lastSeenAt = tools[n].lastSeenAt
  BY <1>0, <1>1 DEF SetEnabled, TypeOK, Rows
<1>2. ASSUME NEW m \in Names, NEW unreviewed \in BOOLEAN, NEW enabled \in BOOLEAN,
             PatchTool(m, unreviewed, enabled)
      PROVE  tools'[n].lastSeenAt = tools[n].lastSeenAt
  BY <1>0, <1>2 DEF PatchTool, TypeOK, Rows
<1>3. ASSUME NEW m \in Names, DeleteTool(m)
      PROVE  tools'[n].lastSeenAt = tools[n].lastSeenAt
  <2>1. m # n
    BY <1>3 DEF DeleteTool, Survives, Live, TypeOK
  <2>. QED
    BY <1>3, <2>1 DEF DeleteTool, TypeOK
<1>4. ASSUME NEW c \in Clients, NEW t \in Payloads, UpsertUpdate(c, t)
      PROVE  tools'[n].lastSeenAt = tools[n].lastSeenAt
  <2>1. Overwrite(tools[n], t).lastSeenAt = tools[n].lastSeenAt
    BY <1>0 DEF Overwrite, Rows
  <2>. QED
    BY <1>0, <1>4, <2>1 DEF UpsertUpdate, TypeOK
<1>5. ASSUME NEW c \in Clients, UpsertInsert(c)
      PROVE  tools'[n].lastSeenAt = tools[n].lastSeenAt
  BY <1>0, <1>5 DEF UpsertInsert, TypeOK
<1>6. ASSUME NEW c \in Clients, UpsertReadId(c) \/ OptSteps(c) \/ Fail(c)
      PROVE  tools' = tools
  BY <1>6 DEF UpsertReadId, Fail, OptSteps, OptInRead, OptInInsert, OptOutRead,
              OptOutDelete
<1>7. ASSUME NEW c \in Clients, NEW r \in Reports, ReportStart(c, r)
      PROVE  tools' = tools
  BY <1>7 DEF ReportStart
<1>8. CASE Tick \/ UNCHANGED vars
  BY <1>8 DEF Tick, vars
<1>. QED
  BY <1>1, <1>2, <1>3, <1>4, <1>5, <1>6, <1>7, <1>8
     DEF Next, PersonActs, UpsertSteps, ReportSteps

LEMMA SeenBecauseReported ==
  ASSUME TypeOK, [Next]_vars
  PROVE  \A n \in Names :
           Survives(n) /\ tools'[n].lastSeenAt # tools[n].lastSeenAt =>
             \E c \in Clients : /\ Finishes(c, "reportCommit")
                                /\ n \in ReportedNames(request[c].report)
                                /\ tools'[n].lastSeenAt = request[c].reportedAt
<1>. SUFFICES ASSUME TypeOK, [Next]_vars, NEW n \in Names, Survives(n),
                     tools'[n].lastSeenAt # tools[n].lastSeenAt
              PROVE  \E c \in Clients :
                       /\ Finishes(c, "reportCommit")
                       /\ n \in ReportedNames(request[c].report)
                       /\ tools'[n].lastSeenAt = request[c].reportedAt
  OBVIOUS
<1>1. PICK c \in Clients : ReportCommit(c)
  BY OthersLeaveLastSeen
<1>2. Finishes(c, "reportCommit")
  BY <1>1 DEF ReportCommit, Finish, Finishes, TypeOK
<1>3. n \in Live(tools)' /\ n \in Live(tools) /\ tools[n] \in Rows
  BY LiveRows DEF Survives
<1>4. /\ n \in ReportedNames(request[c].report)
      /\ tools'[n] = [tools[n] EXCEPT !.lastSeenAt = request[c].reportedAt]
  BY <1>1, <1>3, ReportRowByRow
<1>. QED
  BY <1>2, <1>3, <1>4 DEF Rows

(* When last_seen_at of a row moves, a report of that row has committed,   *)
(* and it is the time that report was received.                            *)
THEOREM LastSeenMovesOnlyByReports == Spec => LastSeenOnlyByReports
<1>. DEFINE ByReports ==
       \A n \in Names :
         Survives(n) /\ tools'[n].lastSeenAt # tools[n].lastSeenAt =>
           \E c \in Clients : /\ Finishes(c, "reportCommit")
                              /\ n \in ReportedNames(request[c].report)
                              /\ tools'[n].lastSeenAt = request[c].reportedAt
<1>1. TypeOK /\ [Next]_vars => ByReports
  BY SeenBecauseReported
<1>. QED
  BY <1>1, TypeCorrect, PTL DEF Spec, LastSeenOnlyByReports

(* A switch moves by a person's or a registrant's request alone: no report *)
(* turns a tool on or off, or makes one that is on.                        *)
THEOREM SwitchesMoveOnlyByPeople == Spec => OnlyPeopleThrowTheSwitch
<1>. DEFINE ByPeople ==
       \A n \in Live(tools)' :
         \/ IF Survives(n) THEN tools'[n].enabled = tools[n].enabled
                           ELSE ~tools'[n].enabled
         \/ PersonActs
         \/ \E c \in Clients : UpsertSteps(c)
<1>1. TypeOK /\ [Next]_vars => ByPeople
  <2>. SUFFICES ASSUME TypeOK, [Next]_vars, NEW n \in Live(tools)',
                       ~PersonActs, \A c \in Clients : ~UpsertSteps(c)
                PROVE  IF Survives(n) THEN tools'[n].enabled = tools[n].enabled
                                      ELSE ~tools'[n].enabled
    OBVIOUS
  <2>1. ASSUME NEW c \in Clients, ReportCommit(c)
        PROVE  IF Survives(n) THEN tools'[n].enabled = tools[n].enabled
                              ELSE ~tools'[n].enabled
    <3>1. CASE n \in Live(tools)
      <4>1. Survives(n) /\ tools[n] \in Rows
        BY <2>1, <3>1, ReportTakesNoRow, LiveRows
      <4>2. tools'[n] = tools[n]
              \/ tools'[n] = [tools[n] EXCEPT !.lastSeenAt = request[c].reportedAt]
        BY <2>1, <3>1, ReportRowByRow
      <4>. QED
        BY <4>1, <4>2 DEF Rows
    <3>2. CASE n \notin Live(tools)
      BY <2>1, <3>2, ReportRowByRow DEF Survives
    <3>. QED
      BY <3>1, <3>2
  <2>2. ASSUME tools' = tools
        PROVE  Survives(n) /\ tools'[n].enabled = tools[n].enabled
    BY <2>2 DEF Survives, Live
  <2>3. tools' = tools \/ \E c \in Clients : ReportCommit(c)
    BY DEF Next, OptSteps, OptInRead, OptInInsert, OptOutRead, OptOutDelete,
           ReportSteps, ReportStart, Fail, Tick, vars
  <2>. QED
    BY <2>1, <2>2, <2>3
<1>. QED
  BY <1>1, TypeCorrect, PTL DEF Spec, OnlyPeopleThrowTheSwitch
=============================================================================
