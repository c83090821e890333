------------------------- MODULE ReportTransaction -------------------------
(***************************************************************************)
(* The statements of RecordObservedHarnessTools.  In Registry a report     *)
(* commits in one step; here its transaction takes the database's write    *)
(* lock, runs one INSERT per name and, where the name has a row, one       *)
(* UPDATE, and commits or rolls back.  The other requests run meanwhile:   *)
(* SQLite lets readers read the last commit and makes writers wait.        *)
(* The specification is checked to implement the Spec of Registry.         *)
(*                                                                         *)
(* The request lists its names in any order; a name listed twice is        *)
(* skipped the second time.  So the next name is any that is left.         *)
(***************************************************************************)
EXTENDS Registry

CONSTANT NoClient

ASSUME NoClientAssumption == NoClient \notin Clients

VARIABLES
  writer,      (* whose transaction holds the write lock, or NoClient       *)
  draft,       (* the tables as that transaction sees them: tools and seq   *)
  left,        (* the reported names it has yet to record                   *)
  created      (* the names it has made a row for: `created` of the answer  *)

transaction == <<writer, draft, left, created>>
transactionVars == <<vars, transaction>>

NoDraft == [tools |-> [n \in Names |-> NoTool], seq |-> 0]

TransactionInit ==
  /\ Init
  /\ writer = NoClient
  /\ draft = NoDraft
  /\ left = {}
  /\ created = {}

EndTransaction ==
  /\ writer' = NoClient
  /\ draft' = NoDraft
  /\ left' = {}
  /\ created' = {}

(* BeginTx: with _txlock=immediate it is BEGIN IMMEDIATE, which waits for  *)
(* the write lock.                                                         *)
Begin(c) ==
  /\ request[c].at = "reportCommit"
  /\ writer = NoClient
  /\ writer' = c
  /\ draft' = [tools |-> tools, seq |-> seq]
  /\ left' = request[c].report.toolNames
  /\ created' = {}
  /\ UNCHANGED vars

RowName(c, t) == HarnessToolRowName(request[c].report.harness, t)

(* INSERT ... ON CONFLICT (name) DO NOTHING, for a name without a row.     *)
InsertReported(c, t) ==
  /\ writer = c
  /\ t \in left
  /\ RowName(c, t) \notin Live(draft.tools)
  /\ LET id == NextId(draft.tools, draft.seq) IN
       draft' = [tools |-> [draft.tools EXCEPT ![RowName(c, t)] =
                              ReportedRow(id, request[c].report.harness, t,
                                          request[c].reportedAt)],
                 seq   |-> id]
  /\ left' = left \ {t}
  /\ created' = created \cup {t}
  /\ UNCHANGED <<vars, writer>>

(* ... and for a name with one: the INSERT takes an id and does nothing,   *)
(* the UPDATE marks the row seen.                                          *)
CountedAsCreated(t) == created \cup {t}
AnswerForASeenName(t) == created

MarkSeen(c, t) ==
  /\ writer = c
  /\ t \in left
  /\ RowName(c, t) \in Live(draft.tools)
  /\ draft.tools[RowName(c, t)].kind = "harness"
  /\ draft' = [tools |-> [draft.tools EXCEPT ![RowName(c, t)].lastSeenAt =
                            request[c].reportedAt],
               seq   |-> NextId(draft.tools, draft.seq)]
  /\ left' = left \ {t}
  /\ created' = AnswerForASeenName(t)
  /\ UNCHANGED <<vars, writer>>

(* The UPDATE asks for kind = harness and hits no row: the 409, and the    *)
(* deferred Rollback.                                                      *)
RefuseAndStayOpen(c) ==
  /\ writer = c
  /\ \E t \in left : /\ RowName(c, t) \in Live(draft.tools)
                     /\ draft.tools[RowName(c, t)].kind # "harness"
  /\ UNCHANGED transactionVars

Refuse(c) ==
  /\ writer = c
  /\ \E t \in left : /\ RowName(c, t) \in Live(draft.tools)
                     /\ draft.tools[RowName(c, t)].kind # "harness"
  /\ Finish(c)
  /\ EndTransaction
  /\ UNCHANGED <<tools, optIns, seq, clock>>

CommitTransaction(c) ==
  /\ writer = c
  /\ left = {}
  /\ tools' = draft.tools
  /\ seq' = draft.seq
  /\ Finish(c)
  /\ EndTransaction
  /\ UNCHANGED <<optIns, clock>>

(* A statement that fails, or a caller who hangs up, before or inside the  *)
(* transaction.                                                            *)
FailStatement(c) ==
  /\ Fail(c)
  /\ IF writer = c THEN EndTransaction ELSE UNCHANGED transaction

(* The other requests: a statement that writes waits for the write lock.   *)
Writes(c) ==
  \/ \E t \in Payloads : UpsertUpdate(c, t)
  \/ UpsertInsert(c)
  \/ OptInInsert(c)
  \/ OptOutDelete(c)

Reads(c) ==
  \/ UpsertReadId(c)
  \/ \E i \in Instances, n \in Names : OptInRead(c, i, n) \/ OptOutRead(c, i, n)
  \/ \E r \in Reports : ReportStart(c, r)

OthersThatDoNotWait ==
  /\ \/ PersonActs
     \/ \E c \in Clients : Writes(c) \/ Reads(c)
     \/ Tick
  /\ UNCHANGED transaction

Others ==
  /\ \/ writer = NoClient /\ (PersonActs \/ \E c \in Clients : Writes(c))
     \/ \E c \in Clients : Reads(c)
     \/ Tick
  /\ UNCHANGED transaction

TransactionSteps(c) ==
  \/ \E t \in HarnessToolNames : InsertReported(c, t) \/ MarkSeen(c, t)
  \/ Refuse(c)
  \/ CommitTransaction(c)

TransactionNext ==
  \/ \E c \in Clients : Begin(c) \/ TransactionSteps(c) \/ FailStatement(c)
  \/ Others

TransactionSpec == TransactionInit /\ [][TransactionNext]_transactionVars

(* A handler that has begun runs on; how long others wait for the lock, or *)
(* whether they get it before _busy_timeout, is left open.                 *)
FairTransactionSpec ==
  /\ TransactionSpec
  /\ \A c \in Clients : WF_transactionVars(TransactionSteps(c))

-----------------------------------------------------------------------------
(* Properties.                                                             *)

(* To everyone else a report is one atomic step: the transactions          *)
(* implement the registry's specification, whatever runs meanwhile.        *)
ImplementsRegistry == Spec

(* The answer's `created` lists exactly the rows this report made, so of   *)
(* two sessions that report one new tool at once, one is told so.          *)
CreatedTellsTheTruth ==
  [][\A c \in Clients :
       CommitTransaction(c) =>
         created = {t \in request[c].report.toolNames :
                      RowName(c, t) \in Live(tools)' \ Live(tools)}]_transactionVars

(* A report lets the write lock go, also when it is refused half way: a    *)
(* transaction left open would stop every write of the service.            *)
WriteLockIsReleased ==
  \A c \in Clients : writer = c ~> writer # c
=============================================================================
