------------------------- MODULE TransactionProofs -------------------------
(***************************************************************************)
(* The report's transaction implements the registry's one-step report, for *)
(* any names, clients, payloads, reports and bounds.                       *)
(***************************************************************************)
EXTENDS ReportTransaction, RegistryProofs

-----------------------------------------------------------------------------
(* Names.                                                                  *)

(* Joined to one harness, two of its tool names make two row names.        *)
LEMMA RowNamesDiffer ==
  ASSUME NEW h \in Harnesses, NEW t \in HarnessToolNames, NEW u \in HarnessToolNames,
         HarnessToolRowName(h, t) = HarnessToolRowName(h, u)
  PROVE  t = u
<1>1. h \in Seq(STRING) /\ t \in Seq(STRING) /\ u \in Seq(STRING)
  BY NamesAssumption
<1>2. h \o t = h \o u
  BY DEF HarnessToolRowName
<1>3. Len(h \o t) = Len(h) + Len(t) /\ Len(h \o u) = Len(h) + Len(u)
  BY <1>1
<1>4. Len(t) = Len(u)
  BY <1>1, <1>2, <1>3
<1>5. ASSUME NEW i \in 1 .. Len(t)
      PROVE  t[i] = u[i]
  <2>1. (h \o t)[Len(h) + i] = t[i] /\ (h \o u)[Len(h) + i] = u[i]
    BY <1>1, <1>4
  <2>. QED
    BY <1>2, <2>1
<1>. QED
  BY <1>1, <1>4, <1>5

-----------------------------------------------------------------------------
(* The invariant of an open transaction.                                   *)

Recorded(c) == request[c].report.toolNames \ left

(* A name without a row has got one, with an id of its own above the mark; *)
(* one with a row of a harness is stamped.                                 *)
RecordedAsNew(c, t) ==
  LET n == RowName(c, t) IN
    /\ n \notin Live(tools)
    /\ draft.tools[n].id \in (seq + 1) .. draft.seq
    /\ draft.tools[n] = ReportedRow(draft.tools[n].id, request[c].report.harness, t,
                                    request[c].reportedAt)

RecordedAsSeen(c, t) ==
  LET n == RowName(c, t) IN
    /\ n \in Live(tools)
    /\ tools[n].kind = "harness"
    /\ draft.tools[n] = [tools[n] EXCEPT !.lastSeenAt = request[c].reportedAt]

DraftIsTheReportSoFar(c) ==
  /\ created \subseteq Recorded(c)
  /\ \A t \in created : RecordedAsNew(c, t)
  /\ \A t \in Recorded(c) \ created : RecordedAsSeen(c, t)
  /\ \A t, u \in created :
       draft.tools[RowName(c, t)].id = draft.tools[RowName(c, u)].id => t = u
  /\ \A n \in Names : (\A t \in Recorded(c) : n # RowName(c, t)) => draft.tools[n] = tools[n]

InTransaction(c) ==
  /\ request[c].at = "reportCommit"
  /\ left \subseteq request[c].report.toolNames
  /\ draft.tools \in [Names -> Rows \cup {NoTool}]
  /\ draft.seq = seq + Cardinality(Recorded(c))
  /\ DraftIsTheReportSoFar(c)

TransactionIInv ==
  /\ TypeOK
  /\ writer \in Clients \cup {NoClient}
  /\ writer \in Clients => InTransaction(writer)

LEMMA OpenReport ==
  ASSUME TransactionIInv, NEW c \in Clients, writer = c
  PROVE  /\ InTransaction(c)
         /\ request[c] \in Pending
         /\ request[c].report \in Reports
         /\ request[c].reportedAt \in Nat
         /\ request[c].report.harness \in Harnesses
         /\ request[c].report.toolNames \subseteq HarnessToolNames
         /\ IsFiniteSet(request[c].report.toolNames)
         /\ IsFiniteSet(Recorded(c))
         /\ Cardinality(Recorded(c)) \in Nat
         /\ seq \in Nat
         /\ draft.seq \in Nat
<1>1. InTransaction(c) /\ request[c] \in Pending \cup {Idle} /\ seq \in Nat
  BY DEF TransactionIInv, TypeOK
<1>2. request[c].at = "reportCommit"
  BY <1>1 DEF InTransaction
<1>3. /\ request[c] \in Pending
      /\ request[c].report \in Reports
      /\ request[c].reportedAt \in Nat
  BY <1>1, <1>2, PendingKinds DEF Idle
<1>4. /\ request[c].report.harness \in Harnesses
      /\ request[c].report.toolNames \subseteq HarnessToolNames
      /\ IsFiniteSet(request[c].report.toolNames)
  BY <1>3, RegistryAssumption
<1>5. IsFiniteSet(Recorded(c)) /\ Cardinality(Recorded(c)) \in Nat
  BY <1>4, FS_Subset, FS_CardinalityType DEF Recorded
<1>6. draft.seq \in Nat
  BY <1>1, <1>5 DEF InTransaction
<1>. QED
  BY <1>1, <1>3, <1>4, <1>5, <1>6

LEMMA ReportedRowNames ==
  ASSUME TransactionIInv, NEW c \in Clients, writer = c,
         NEW t \in request[c].report.toolNames
  PROVE  /\ t \in HarnessToolNames
         /\ RowName(c, t) \in Names
         /\ \A u \in request[c].report.toolNames : RowName(c, u) = RowName(c, t) => u = t
<1>1. t \in HarnessToolNames /\ request[c].report.harness \in Harnesses
      /\ request[c].report.toolNames \subseteq HarnessToolNames
  BY OpenReport
<1>2. RowName(c, t) \in Names
  BY <1>1, NamesAssumption DEF RowName
<1>3. ASSUME NEW u \in request[c].report.toolNames, RowName(c, u) = RowName(c, t)
      PROVE  u = t
  BY <1>1, <1>3, RowNamesDiffer DEF RowName
<1>. QED
  BY <1>1, <1>2, <1>3

(* What the draft holds under a name that is still to be recorded.         *)
LEMMA LeftNamesAreUntouched ==
  ASSUME TransactionIInv, NEW c \in Clients, writer = c, NEW t \in left
  PROVE  draft.tools[RowName(c, t)] = tools[RowName(c, t)]
<1>1. t \in request[c].report.toolNames
  BY OpenReport DEF InTransaction
<1>2. \A u \in Recorded(c) : RowName(c, t) # RowName(c, u)
  BY <1>1, ReportedRowNames DEF Recorded
<1>. QED
  BY <1>1, <1>2, OpenReport, ReportedRowNames DEF InTransaction, DraftIsTheReportSoFar

-----------------------------------------------------------------------------
(* One statement of the transaction.                                       *)

LEMMA OneMoreIsRecorded ==
  ASSUME TransactionIInv, NEW c \in Clients, writer = c, NEW t \in left,
         left' = left \ {t}, UNCHANGED request
  PROVE  /\ Recorded(c)' = Recorded(c) \cup {t}
         /\ t \notin Recorded(c)
         /\ Cardinality(Recorded(c)') = Cardinality(Recorded(c)) + 1
<1>1. t \in request[c].report.toolNames
  BY OpenReport DEF InTransaction
<1>2. Recorded(c)' = Recorded(c) \cup {t} /\ t \notin Recorded(c)
  BY <1>1 DEF Recorded
<1>3. IsFiniteSet(Recorded(c))
  BY OpenReport
<1>. QED
  BY <1>2, <1>3, FS_AddElement

LEMMA RecordingGoesOn ==
  ASSUME TransactionIInv, NEW c \in Clients, writer = c, NEW t \in left,
         UNCHANGED <<vars, writer>>, left' = left \ {t},
         NEW row \in Rows,
         draft' = [tools |-> [draft.tools EXCEPT ![RowName(c, t)] = row],
                   seq   |-> draft.seq + 1],
         \/ created' = created \cup {t} /\ RecordedAsNew(c, t)'
            /\ row.id = draft.seq + 1
         \/ created' = created /\ RecordedAsSeen(c, t)'
  PROVE  TransactionIInv'
<1>. DEFINE x == RowName(c, t)
<1>1. /\ InTransaction(c)
      /\ seq \in Nat /\ draft.seq \in Nat
      /\ Cardinality(Recorded(c)) \in Nat
      /\ request[c].report.toolNames \subseteq HarnessToolNames
  BY OpenReport
<1>2. UNCHANGED <<tools, seq, request>>
  BY DEF vars
<1>3. t \in request[c].report.toolNames /\ x \in Names
  BY <1>1, ReportedRowNames DEF InTransaction
<1>4. /\ Recorded(c)' = Recorded(c) \cup {t}
      /\ t \notin Recorded(c)
      /\ Cardinality(Recorded(c)') = Cardinality(Recorded(c)) + 1
  BY <1>2, OneMoreIsRecorded
<1>5. \A u : RowName(c, u)' = RowName(c, u)
  BY <1>2 DEF RowName
<1>6. draft.tools \in [Names -> Rows \cup {NoTool}]
  BY <1>1 DEF InTransaction
<1>7. /\ draft'.seq = draft.seq + 1
      /\ draft'.tools = [draft.tools EXCEPT ![x] = row]
  OBVIOUS
<1>8. draft'.tools[x] = row /\ (\A n \in Names \ {x} : draft'.tools[n] = draft.tools[n])
      /\ draft'.tools \in [Names -> Rows \cup {NoTool}]
  BY <1>3, <1>6, <1>7
<1>9. draft'.seq = seq' + Cardinality(Recorded(c)')
  BY <1>1, <1>2, <1>4, <1>7 DEF InTransaction
<1>10. ASSUME NEW u \in Recorded(c)
       PROVE  /\ RowName(c, u) \in Names \ {x}
              /\ RowName(c, u) # x
              /\ draft'.tools[RowName(c, u)] = draft.tools[RowName(c, u)]
  <2>1. u \in request[c].report.toolNames /\ u # t
    BY <1>4 DEF Recorded
  <2>2. RowName(c, u) \in Names \ {x}
    BY <1>3, <2>1, ReportedRowNames
  <2>. QED
    BY <1>8, <2>2
<1>11. DraftIsTheReportSoFar(c)
  BY <1>1 DEF InTransaction
<1>12. created' \subseteq Recorded(c)' /\ created' \in {created, created \cup {t}}
  BY <1>4, <1>11 DEF DraftIsTheReportSoFar
<1>13. ASSUME NEW u \in created
       PROVE  RecordedAsNew(c, u)'
  <2>1. u \in Recorded(c) /\ RecordedAsNew(c, u)
    BY <1>11 DEF DraftIsTheReportSoFar
  <2>2. draft'.tools[RowName(c, u)] = draft.tools[RowName(c, u)]
    BY <1>10, <2>1
  <2>3. draft.tools[RowName(c, u)].id \in (seq + 1) .. (draft.seq + 1)
    BY <1>1, <2>1 DEF RecordedAsNew
  <2>. QED
    BY <1>2, <1>5, <1>7, <2>1, <2>2, <2>3 DEF RecordedAsNew, Live
<1>14. ASSUME NEW u \in Recorded(c) \ created
       PROVE  RecordedAsSeen(c, u)'
  <2>1. RecordedAsSeen(c, u)
    BY <1>11 DEF DraftIsTheReportSoFar
  <2>. QED
    BY <1>2, <1>5, <1>10, <2>1 DEF RecordedAsSeen, Live
<1>15. \A u \in created' : RecordedAsNew(c, u)'
  BY <1>4, <1>11, <1>13 DEF DraftIsTheReportSoFar
<1>16. \A u \in Recorded(c)' \ created' : RecordedAsSeen(c, u)'
  BY <1>4, <1>14
<1>17. ASSUME NEW u \in created', NEW v \in created',
              draft'.tools[RowName(c, u)].id = draft'.tools[RowName(c, v)].id
       PROVE  u = v
  <2>1. ASSUME NEW w \in created
        PROVE  /\ draft'.tools[RowName(c, w)] = draft.tools[RowName(c, w)]
               /\ draft.tools[RowName(c, w)].id \in Int
               /\ draft.tools[RowName(c, w)].id <= draft.seq
    <3>1. w \in Recorded(c) /\ RecordedAsNew(c, w)
      BY <1>11 DEF DraftIsTheReportSoFar
    <3>. QED
      BY <1>1, <1>10, <3>1 DEF RecordedAsNew
  <2>2. CASE u \in created /\ v \in created
    BY <1>11, <1>17, <2>1, <2>2 DEF DraftIsTheReportSoFar
  <2>3. CASE created' = created \cup {t} /\ row.id = draft.seq + 1 /\ ~(u \in created /\ v \in created)
    BY <1>1, <1>8, <1>17, <2>1, <2>3
  <2>. QED
    BY <1>4, <1>11, <2>2, <2>3 DEF DraftIsTheReportSoFar
<1>18. ASSUME NEW n \in Names, \A u \in Recorded(c)' : n # RowName(c, u)
       PROVE  draft'.tools[n] = tools[n]
  <2>1. n # x /\ (\A u \in Recorded(c) : n # RowName(c, u))
    BY <1>4, <1>18
  <2>. QED
    BY <1>8, <1>11, <2>1 DEF DraftIsTheReportSoFar
<1>19. DraftIsTheReportSoFar(c)'
  BY <1>2, <1>5, <1>12, <1>15, <1>16, <1>17, <1>18 DEF DraftIsTheReportSoFar
<1>20. InTransaction(c)'
  BY <1>1, <1>2, <1>8, <1>9, <1>19 DEF InTransaction
<1>21. TypeOK'
  BY <1>2 DEF TransactionIInv, TypeOK, vars
<1>. QED
  BY <1>20, <1>21 DEF TransactionIInv

LEMMA InsertGoesOn ==
  ASSUME TransactionIInv, NEW c \in Clients, NEW t \in HarnessToolNames, InsertReported(c, t)
  PROVE  TransactionIInv'
<1>. DEFINE x   == RowName(c, t)
            row == ReportedRow(draft.seq + 1, request[c].report.harness, t,
                               request[c].reportedAt)
<1>1. writer = c /\ t \in left /\ x \notin Live(draft.tools)
  BY DEF InsertReported
<1>2. /\ seq \in Nat /\ draft.seq \in Nat
      /\ draft.seq >= seq
      /\ request[c].report.harness \in Harnesses
      /\ request[c].reportedAt \in Nat
      /\ draft.tools \in [Names -> Rows \cup {NoTool}]
      /\ left \subseteq request[c].report.toolNames
  BY <1>1, OpenReport DEF InTransaction
<1>3. x \in Names
  BY <1>1, <1>2, ReportedRowNames
<1>4. row \in Rows /\ row.id = draft.seq + 1
  BY <1>2, ReportedRowIsARow DEF ReportedRow
<1>5. /\ draft' = [tools |-> [draft.tools EXCEPT ![x] = row], seq |-> draft.seq + 1]
      /\ left' = left \ {t}
      /\ created' = created \cup {t}
      /\ UNCHANGED <<vars, writer>>
  BY DEF InsertReported, NextId
<1>6. x \notin Live(tools)
  BY <1>1, <1>3, LeftNamesAreUntouched DEF Live
<1>. HIDE DEF row
<1>7. draft'.tools[x] = row /\ draft'.seq = draft.seq + 1
  BY <1>2, <1>3, <1>5
<1>8. RowName(c, t)' = x /\ UNCHANGED <<tools, seq, request>>
  BY <1>5 DEF vars, RowName
<1>9. RecordedAsNew(c, t)'
  <2>1. row.id \in (seq + 1) .. (draft.seq + 1)
    BY <1>2, <1>4
  <2>2. row = ReportedRow(row.id, request[c].report.harness, t, request[c].reportedAt)
    BY <1>4 DEF row
  <2>. QED
    BY <1>6, <1>7, <1>8, <2>1, <2>2 DEF RecordedAsNew, Live
<1>. QED
  BY <1>1, <1>4, <1>5, <1>9, RecordingGoesOn

LEMMA MarkGoesOn ==
  ASSUME TransactionIInv, NEW c \in Clients, NEW t \in HarnessToolNames, MarkSeen(c, t)
  PROVE  TransactionIInv'
<1>. DEFINE x   == RowName(c, t)
            row == [tools[x] EXCEPT !.lastSeenAt = request[c].reportedAt]
<1>1. writer = c /\ t \in left /\ x \in Live(draft.tools) /\ draft.tools[x].kind = "harness"
  BY DEF MarkSeen
<1>2. /\ request[c].reportedAt \in Nat
      /\ draft.tools \in [Names -> Rows \cup {NoTool}]
      /\ left \subseteq request[c].report.toolNames
  BY <1>1, OpenReport DEF InTransaction
<1>3. x \in Names
  BY <1>1, <1>2, ReportedRowNames
<1>4. draft.tools[x] = tools[x] /\ x \in Live(tools) /\ tools[x].kind = "harness"
  BY <1>1, <1>3, LeftNamesAreUntouched DEF Live
<1>5. row \in Rows
  BY <1>2, <1>4, LiveRows DEF Rows, TransactionIInv
<1>6. /\ draft' = [tools |-> [draft.tools EXCEPT ![x] = row], seq |-> draft.seq + 1]
      /\ left' = left \ {t}
      /\ created' = created
      /\ UNCHANGED <<vars, writer>>
  BY <1>4 DEF MarkSeen, NextId, AnswerForASeenName
<1>7. draft'.tools[x] = row
  BY <1>2, <1>3, <1>6
<1>8. RowName(c, t)' = x /\ UNCHANGED <<tools, seq, request>>
  BY <1>6 DEF vars, RowName
<1>9. RecordedAsSeen(c, t)'
  BY <1>4, <1>7, <1>8 DEF RecordedAsSeen, Live
<1>. HIDE DEF row
<1>. QED
  BY <1>1, <1>5, <1>6, <1>9, RecordingGoesOn

-----------------------------------------------------------------------------
(* Its end.                                                                *)

(* Refused: a name that is left is held by a row of another kind, which    *)
(* nobody could have changed since the transaction began.                  *)
LEMMA RefusalIsARefusedReport ==
  ASSUME TransactionIInv, NEW c \in Clients, Refuse(c)
  PROVE  ReportCommit(c)
<1>1. writer = c /\ Finish(c) /\ UNCHANGED <<tools, optIns, seq, clock>>
  BY DEF Refuse
<1>2. PICK t \in left : /\ RowName(c, t) \in Live(draft.tools)
                        /\ draft.tools[RowName(c, t)].kind # "harness"
  BY DEF Refuse
<1>3. request[c].at = "reportCommit" /\ t \in request[c].report.toolNames
  BY <1>1, OpenReport DEF InTransaction
<1>4. RowName(c, t) \in Names
  BY <1>1, <1>3, ReportedRowNames
<1>5. /\ RowName(c, t) \in ReportedNames(request[c].report) \cap Live(tools)
      /\ tools[RowName(c, t)].kind # "harness"
  BY <1>1, <1>2, <1>3, <1>4, LeftNamesAreUntouched DEF Live, ReportedNames, RowName
<1>6. HeldByAnotherKind(request[c].report)
  BY <1>5 DEF HeldByAnotherKind
<1>. QED
  BY <1>1, <1>3, <1>6 DEF ReportCommit

LEMMA WhatIsCommitted ==
  ASSUME TransactionIInv, NEW c \in Clients, writer = c, left = {}
  PROVE  /\ Recorded(c) = request[c].report.toolNames
         /\ created = Unregistered(request[c].report)
         /\ ~HeldByAnotherKind(request[c].report)
<1>1. Recorded(c) = request[c].report.toolNames
  BY DEF Recorded
<1>2. DraftIsTheReportSoFar(c)
  BY OpenReport DEF InTransaction
<1>3. created = Unregistered(request[c].report)
  BY <1>1, <1>2 DEF DraftIsTheReportSoFar, RecordedAsNew, RecordedAsSeen, Unregistered, RowName
<1>4. ASSUME NEW n \in ReportedNames(request[c].report), n \in Live(tools)
      PROVE  tools[n].kind = "harness"
  <2>1. PICK t \in request[c].report.toolNames : n = RowName(c, t)
    BY <1>4 DEF ReportedNames, RowName
  <2>2. t \notin created
    BY <1>2, <1>4, <2>1 DEF DraftIsTheReportSoFar, RecordedAsNew
  <2>3. RecordedAsSeen(c, t)
    BY <1>1, <1>2, <2>2 DEF DraftIsTheReportSoFar
  <2>. QED
    BY <2>1, <2>3 DEF RecordedAsSeen
<1>. QED
  BY <1>1, <1>3, <1>4 DEF HeldByAnotherKind

(* The draft, name by name, is what the one-step report writes, with the   *)
(* ids the draft gave.                                                     *)
LEMMA CommitIsAReport ==
  ASSUME TransactionIInv, NEW c \in Clients, CommitTransaction(c)
  PROVE  ReportCommit(c)
<1>. DEFINE r   == request[c].report
            at  == request[c].reportedAt
            new == Unregistered(r)
            hi  == seq + Cardinality(r.toolNames)
            ids == [t \in new |-> draft.tools[RowName(c, t)].id]
<1>1. /\ writer = c /\ left = {}
      /\ tools' = draft.tools /\ seq' = draft.seq
      /\ Finish(c) /\ UNCHANGED <<optIns, clock>>
  BY DEF CommitTransaction
<1>2. /\ Recorded(c) = r.toolNames
      /\ created = new
      /\ ~HeldByAnotherKind(r)
  BY <1>1, WhatIsCommitted
<1>3. /\ request[c].at = "reportCommit"
      /\ draft.tools \in [Names -> Rows \cup {NoTool}]
      /\ draft.seq = hi
      /\ DraftIsTheReportSoFar(c)
      /\ seq \in Nat /\ draft.seq \in Nat
  BY <1>1, <1>2, OpenReport DEF InTransaction
<1>. HIDE DEF hi, new
<1>4. ids \in [new -> NextId(tools, seq) .. hi]
  <2>1. \A t \in new : draft.tools[RowName(c, t)].id \in NextId(tools, seq) .. hi
    BY <1>2, <1>3 DEF DraftIsTheReportSoFar, RecordedAsNew, NextId
  <2>. QED
    BY <2>1
<1>5. \A t, u \in new : ids[t] = ids[u] => t = u
  BY <1>2, <1>3 DEF DraftIsTheReportSoFar
<1>6. ASSUME NEW n \in ReportedNames(r)
      PROVE  draft.tools[n] = SeenRow(r, n, at, ids)
  <2>. DEFINE t == ReportedTool(r, n)
  <2>1. t \in r.toolNames /\ n = RowName(c, t)
    BY <1>6 DEF ReportedNames, ReportedTool, RowName
  <2>2. CASE n \in Live(tools)
    <3>1. t \notin created
      BY <1>3, <2>1, <2>2 DEF DraftIsTheReportSoFar, RecordedAsNew
    <3>2. RecordedAsSeen(c, t)
      BY <1>2, <1>3, <2>1, <3>1 DEF DraftIsTheReportSoFar
    <3>. QED
      BY <2>1, <2>2, <3>2 DEF RecordedAsSeen, SeenRow
  <2>3. CASE n \notin Live(tools)
    <3>1. t \in new
      BY <2>1, <2>3 DEF new, Unregistered, RowName
    <3>2. RecordedAsNew(c, t)
      BY <1>2, <1>3, <3>1 DEF DraftIsTheReportSoFar
    <3>3. ids[t] = draft.tools[n].id
      BY <2>1, <3>1
    <3>. HIDE DEF ids
    <3>. QED
      BY <2>1, <2>3, <3>2, <3>3 DEF RecordedAsNew, SeenRow
  <2>. QED
    BY <2>2, <2>3
<1>7. ASSUME NEW n \in Names, n \notin ReportedNames(r)
      PROVE  draft.tools[n] = tools[n]
  <2>1. \A t \in Recorded(c) : n # RowName(c, t)
    BY <1>2, <1>7 DEF ReportedNames, RowName
  <2>. QED
    BY <1>3, <2>1 DEF DraftIsTheReportSoFar
<1>. HIDE DEF ids
<1>8. tools' = [n \in Names |-> IF n \in ReportedNames(r) THEN SeenRow(r, n, at, ids)
                                                        ELSE tools[n]]
  BY <1>1, <1>3, <1>6, <1>7
<1>. QED
  BY <1>1, <1>2, <1>3, <1>4, <1>5, <1>8 DEF ReportCommit, hi, new

-----------------------------------------------------------------------------
(* The refinement.                                                         *)

(* The lock is held by one transaction, so nothing that writes runs beside *)
(* it, and nothing else touches the request of its handler.                *)
LEMMA OthersLeaveTheWriter ==
  ASSUME TransactionIInv, Others, writer \in Clients
  PROVE  /\ UNCHANGED <<tools, seq, writer, draft, left, created>>
         /\ request'[writer] = request[writer]
<1>1. UNCHANGED transaction
  BY DEF Others
<1>2. InTransaction(writer) /\ request \in [Clients -> Pending \cup {Idle}]
  BY DEF TransactionIInv, TypeOK
<1>3. request[writer].at = "reportCommit" /\ request[writer] # Idle
  BY <1>2 DEF InTransaction, Idle
<1>4. CASE Tick
  BY <1>1, <1>4 DEF Tick, transaction
<1>5. ASSUME NEW c \in Clients, Reads(c)
      PROVE  UNCHANGED <<tools, seq>> /\ request'[writer] = request[writer]
  <2>1. ASSUME c = writer
        PROVE  FALSE
    BY <1>3, <1>5, <2>1 DEF Reads, UpsertReadId, OptInRead, OptOutRead, ReportStart, Start
  <2>2. UNCHANGED <<tools, seq>>
    BY <1>5 DEF Reads, UpsertReadId, OptInRead, OptOutRead, ReportStart
  <2>3. request'[writer] = request[writer]
    BY <1>2, <1>5, <2>1 DEF Reads, UpsertReadId, OptInRead, OptOutRead, ReportStart, Start, Finish
  <2>. QED
    BY <2>2, <2>3
<1>. QED
  BY <1>1, <1>4, <1>5, NoClientAssumption DEF Others, transaction

LEMMA OthersAreRegistrySteps ==
  ASSUME Others
  PROVE  Next
BY DEF Others, Next, Writes, Reads, UpsertSteps, OptSteps, ReportSteps

(* Every step is a step of the registry, or changes nothing of it.         *)
LEMMA StepIsARegistryStep ==
  ASSUME TransactionIInv, [TransactionNext]_transactionVars
  PROVE  [Next]_vars
<1>1. CASE UNCHANGED transactionVars
  BY <1>1 DEF transactionVars
<1>2. ASSUME NEW c \in Clients, Begin(c)
      PROVE  UNCHANGED vars
  BY <1>2 DEF Begin
<1>3. ASSUME NEW c \in Clients, NEW t \in HarnessToolNames,
             InsertReported(c, t) \/ MarkSeen(c, t)
      PROVE  UNCHANGED vars
  BY <1>3 DEF InsertReported, MarkSeen
<1>4. ASSUME NEW c \in Clients, Refuse(c) \/ CommitTransaction(c)
      PROVE  Next
  BY <1>4, RefusalIsARefusedReport, CommitIsAReport DEF Next, ReportSteps
<1>5. ASSUME NEW c \in Clients, FailStatement(c)
      PROVE  Next
  BY <1>5 DEF FailStatement, Next
<1>6. CASE Others
  BY <1>6, OthersAreRegistrySteps
<1>. QED
  BY <1>1, <1>2, <1>3, <1>4, <1>5, <1>6 DEF TransactionNext, TransactionSteps

(* What a handler beside the transaction does leaves it as it is.          *)
LEMMA TheDraftStays ==
  ASSUME TransactionIInv, NEW c \in Clients, writer = c,
         UNCHANGED <<tools, seq, writer, draft, left, created>>,
         request'[c] = request[c]
  PROVE  InTransaction(c)'
<1>1. InTransaction(c)
  BY OpenReport
<1>2. Recorded(c)' = Recorded(c) /\ (\A t : RowName(c, t)' = RowName(c, t))
  BY DEF Recorded, RowName
<1>3. DraftIsTheReportSoFar(c)'
  BY <1>1, <1>2 DEF InTransaction, DraftIsTheReportSoFar, RecordedAsNew, RecordedAsSeen, Live
<1>. QED
  BY <1>1, <1>2, <1>3 DEF InTransaction

LEMMA StepTransactionIInv ==
  ASSUME TransactionIInv, [TransactionNext]_transactionVars
  PROVE  TransactionIInv'
<1>1. TypeOK'
  BY StepIsARegistryStep, StepTypes DEF TransactionIInv
<1>2. ASSUME writer' = NoClient
      PROVE  TransactionIInv'
  BY <1>1, <1>2, NoClientAssumption DEF TransactionIInv
<1>3. ASSUME writer \in Clients,
             UNCHANGED <<tools, seq, writer, draft, left, created>>,
             request'[writer] = request[writer]
      PROVE  TransactionIInv'
  BY <1>1, <1>3, TheDraftStays DEF TransactionIInv
<1>4. CASE UNCHANGED transactionVars
  <2>1. writer \in Clients \/ writer = NoClient
    BY DEF TransactionIInv
  <2>. QED
    BY <1>2, <1>3, <1>4, <2>1 DEF transactionVars, vars, transaction
<1>5. ASSUME NEW c \in Clients, Begin(c)
      PROVE  TransactionIInv'
  <2>1. /\ request[c].at = "reportCommit"
        /\ writer' = c
        /\ draft' = [tools |-> tools, seq |-> seq]
        /\ left' = request[c].report.toolNames
        /\ created' = {}
        /\ UNCHANGED <<tools, seq, request>>
    BY <1>5 DEF Begin, vars
  <2>2. Recorded(c)' = {}
    BY <2>1 DEF Recorded
  <2>3. seq \in Nat /\ tools \in [Names -> Rows \cup {NoTool}]
    BY DEF TransactionIInv, TypeOK
  <2>4. draft'.seq = seq' + Cardinality(Recorded(c)')
    BY <2>1, <2>2, <2>3, FS_EmptySet
  <2>5. DraftIsTheReportSoFar(c)'
    BY <2>1, <2>2 DEF DraftIsTheReportSoFar
  <2>6. InTransaction(c)'
    BY <2>1, <2>3, <2>4, <2>5 DEF InTransaction
  <2>. QED
    BY <1>1, <2>1, <2>6 DEF TransactionIInv
<1>6. ASSUME NEW c \in Clients, NEW t \in HarnessToolNames,
             InsertReported(c, t) \/ MarkSeen(c, t)
      PROVE  TransactionIInv'
  BY <1>6, InsertGoesOn, MarkGoesOn
<1>7. ASSUME NEW c \in Clients, Refuse(c) \/ CommitTransaction(c)
      PROVE  TransactionIInv'
  BY <1>2, <1>7 DEF Refuse, CommitTransaction, EndTransaction
<1>8. ASSUME NEW c \in Clients, FailStatement(c)
      PROVE  TransactionIInv'
  <2>1. CASE writer = c
    BY <1>2, <1>8, <2>1 DEF FailStatement, EndTransaction
  <2>2. CASE writer # c
    <3>1. UNCHANGED <<tools, seq, writer, draft, left, created>>
      BY <1>8, <2>2 DEF FailStatement, Fail, transaction
    <3>2. ASSUME writer \in Clients
          PROVE  request'[writer] = request[writer]
      BY <1>8, <2>2, <3>2 DEF FailStatement, Fail, Finish, TransactionIInv, TypeOK
    <3>3. writer \in Clients \/ writer = NoClient
      BY DEF TransactionIInv
    <3>. QED
      BY <1>2, <1>3, <3>1, <3>2, <3>3
  <2>. QED
    BY <2>1, <2>2
<1>9. CASE Others
  <2>1. writer' = writer
    BY <1>9 DEF Others, transaction
  <2>2. CASE writer = NoClient
    BY <1>2, <2>1, <2>2
  <2>3. CASE writer \in Clients
    BY <1>3, <1>9, <2>3, OthersLeaveTheWriter
  <2>. QED
    BY <2>2, <2>3 DEF TransactionIInv
<1>. QED
  BY <1>4, <1>5, <1>6, <1>7, <1>8, <1>9 DEF TransactionNext, TransactionSteps

LEMMA InitTransactionIInv == TransactionInit => TransactionIInv
<1>1. Init => TypeOK
  BY InitIInv DEF IInv
<1>. QED
  BY <1>1, NoClientAssumption DEF TransactionInit, TransactionIInv

(* To everyone else a report is one step: whatever statements of other     *)
(* handlers come between its own, the transactions implement the           *)
(* registry's specification.                                               *)
THEOREM ReportsAreAtomic == TransactionSpec => ImplementsRegistry
<1>1. TransactionInit => Init
  BY DEF TransactionInit
<1>. QED
  BY <1>1, InitTransactionIInv, StepTransactionIInv, StepIsARegistryStep, PTL
     DEF TransactionSpec, Spec, ImplementsRegistry

(* The answer's `created` lists exactly the rows the report has made.      *)
THEOREM CreatedAlwaysTellsTheTruth == TransactionSpec => CreatedTellsTheTruth
<1>1. ASSUME TransactionIInv, NEW c \in Clients, CommitTransaction(c)
      PROVE  created = {t \in request[c].report.toolNames :
                          RowName(c, t) \in Live(tools)' \ Live(tools)}
  <2>1. writer = c /\ left = {} /\ tools' = draft.tools
    BY <1>1 DEF CommitTransaction
  <2>2. /\ Recorded(c) = request[c].report.toolNames
        /\ created = Unregistered(request[c].report)
    BY <1>1, <2>1, WhatIsCommitted
  <2>3. DraftIsTheReportSoFar(c)
    BY <1>1, <2>1, OpenReport DEF InTransaction
  <2>4. ASSUME NEW t \in created
        PROVE  RowName(c, t) \in Live(tools)'
    <3>1. t \in request[c].report.toolNames
      BY <2>2, <2>4 DEF Unregistered
    <3>2. RowName(c, t) \in Names
      BY <1>1, <2>1, <3>1, ReportedRowNames
    <3>3. RecordedAsNew(c, t)
      BY <2>3, <2>4 DEF DraftIsTheReportSoFar
    <3>4. /\ draft.tools[RowName(c, t)].id \in Nat \ {0}
          /\ t \in HarnessToolNames
          /\ request[c].report.harness \in Harnesses
          /\ request[c].reportedAt \in Nat
      <4>1. seq \in Nat /\ draft.seq \in Nat
        BY <1>1, <2>1, OpenReport
      <4>. QED
        BY <1>1, <2>1, <3>1, <3>3, <4>1, OpenReport DEF RecordedAsNew
    <3>5. draft.tools[RowName(c, t)] \in Rows
      BY <3>3, <3>4, ReportedRowIsARow DEF RecordedAsNew
    <3>. QED
      BY <2>1, <3>2, <3>5, NamesAssumption DEF Live
  <2>. QED
    BY <2>2, <2>4 DEF Unregistered, RowName
<1>2. ASSUME TransactionIInv, [TransactionNext]_transactionVars
      PROVE  [\A c \in Clients :
                CommitTransaction(c) =>
                  created = {t \in request[c].report.toolNames :
                               RowName(c, t) \in Live(tools)' \ Live(tools)}]_transactionVars
  BY <1>1, <1>2
<1>. QED
  BY <1>2, InitTransactionIInv, StepTransactionIInv, PTL
     DEF TransactionSpec, CreatedTellsTheTruth
=============================================================================
