----------------------------- MODULE Registry -----------------------------
(***************************************************************************)
(* The tool registry behind the HTTP API: the tables `tools` and           *)
(* `instance_tools` and the requests that read and write them.             *)
(*                                                                         *)
(* net/http runs every request in a goroutine of its own, each statement   *)
(* is a transaction of its own, and nothing holds a lock between two       *)
(* statements of one handler.  A handler of several statements is          *)
(* therefore several actions, and `request` holds, for every client, what  *)
(* its handler carries from one statement to the next.  A handler of one   *)
(* writing statement is one action and needs no client.  The first read of *)
(* a handler that then refuses (404, 409, or a tool that fails             *)
(* validation) changes nothing and is a stuttering step.                   *)
(*                                                                         *)
(* The transaction of a report is one action: _txlock=immediate takes the  *)
(* database's write lock when it begins, so no other write falls inside    *)
(* it, and a reader sees the last commit.  ReportTransaction models its    *)
(* statements and is checked to implement this action.                     *)
(***************************************************************************)
EXTENDS ToolTable

CONSTANTS
  Clients,     (* concurrent callers of the API                             *)
  Payloads,    (* the tools callers send to POST /tools                     *)
  Reports,     (* the reports harnesses send: harness and its tool names    *)
  MaxSeq,      (* bound: nothing that takes an id arrives once so many are out *)
  MaxClock     (* bound on the clock, in seconds                            *)

ASSUME RegistryAssumption ==
  /\ Payloads \subseteq Tools
  /\ Reports \subseteq [harness : Harnesses, toolNames : SUBSET HarnessToolNames]
  /\ \A r \in Reports : IsFiniteSet(r.toolNames)
  /\ MaxSeq \in Nat
  /\ MaxClock \in Nat

VARIABLES
  tools,       (* the table tools: name -> row or NoTool                    *)
  optIns,      (* the table instance_tools                                  *)
  seq,         (* sqlite_sequence: the last id handed out, used or not       *)
  clock,       (* the wall clock, in unix seconds                           *)
  request      (* what each client's handler holds between two statements   *)

vars == <<tools, optIns, seq, clock, request>>

Idle == [at |-> "idle"]

(* The second halves of UpsertTool, EnableForInstance, DisableForInstance  *)
(* and RecordObservedHarnessTools, with the values read or taken before.   *)
Pending ==
       [at : {"upsertReadId", "upsertInsert"}, tool : Payloads]
  \cup [at : {"optInInsert", "optOutDelete"},
        instance : Instances, name : Names, id : Nat \ {0}]
  \cup [at : {"reportCommit"}, report : Reports, reportedAt : Nat]

TypeOK ==
  /\ tools \in [Names -> Rows \cup {NoTool}]
  /\ optIns \subseteq OptIns
  /\ seq \in Nat
  /\ clock \in Nat
  /\ request \in [Clients -> Pending \cup {Idle}]

Init ==
  /\ tools = [n \in Names |-> NoTool]
  /\ optIns = {}
  /\ seq = 0
  /\ clock = 1
  /\ request = [c \in Clients |-> Idle]

Start(c, step) ==
  /\ request[c] = Idle
  /\ request' = [request EXCEPT ![c] = step]

Finish(c) == request' = [request EXCEPT ![c] = Idle]

-----------------------------------------------------------------------------
(* POST /tools: an UPDATE by name, then either a SELECT of the id or, when *)
(* the UPDATE hit no row, an INSERT.                                       *)

UpsertUpdate(c, t) ==
  /\ t.name \in Live(tools) \/ seq < MaxSeq
  /\ Valid(t)
  /\ IF t.name \in Live(tools)
       THEN /\ tools' = [tools EXCEPT ![t.name] = Overwrite(@, t)]
            /\ Start(c, [at |-> "upsertReadId", tool |-> t])
       ELSE /\ Start(c, [at |-> "upsertInsert", tool |-> t])
            /\ UNCHANGED tools
  /\ UNCHANGED <<optIns, seq, clock>>

(* The SELECT of the id only fills the answer; a row deleted since makes   *)
(* it a 400.                                                               *)
UpsertReadId(c) ==
  /\ request[c].at = "upsertReadId"
  /\ Finish(c)
  /\ UNCHANGED <<tools, optIns, seq, clock>>

(* The INSERT fails on UNIQUE(name) when another request has made the row  *)
(* since the UPDATE missed it: a 400.                                      *)
UpsertInsert(c) ==
  /\ request[c].at = "upsertInsert"
  /\ LET t == request[c].tool IN
       IF t.name \in Live(tools)
         THEN UNCHANGED <<tools, seq>>
         ELSE /\ tools' = [tools EXCEPT ![t.name] = NewRow(NextId(tools, seq), t)]
              /\ seq' = NextId(tools, seq)
  /\ Finish(c)
  /\ UNCHANGED <<optIns, clock>>

-----------------------------------------------------------------------------
(* Handlers of one statement.                                              *)

SetEnabledForgettingOptIns(n, enabled) ==
  /\ n \in Live(tools)
  /\ tools' = [tools EXCEPT ![n].enabled = enabled]
  /\ optIns' = IF enabled THEN optIns
                          ELSE {o \in optIns : o.tool # tools[n].id}
  /\ UNCHANGED <<seq, clock, request>>

(* POST /tools/{id}/enable and /disable.                                   *)
SetEnabled(n, enabled) ==
  /\ n \in Live(tools)
  /\ tools' = [tools EXCEPT ![n].enabled = enabled]
  /\ UNCHANGED <<optIns, seq, clock, request>>

(* PATCH /tools/{id}: tags, here whether they hold TagUnreviewed, and      *)
(* enabled, each replaced or kept.  The SELECT after the UPDATE only fills *)
(* the answer.                                                             *)
PatchTool(n, unreviewed, enabled) ==
  /\ n \in Live(tools)
  /\ tools' = [tools EXCEPT ![n].unreviewed = unreviewed, ![n].enabled = enabled]
  /\ UNCHANGED <<optIns, seq, clock, request>>

(* DELETE /tools/{id}; ON DELETE CASCADE takes the tool's opt-ins along.   *)
DeleteTool(n) ==
  /\ n \in Live(tools)
  /\ tools' = [tools EXCEPT ![n] = NoTool]
  /\ optIns' = {o \in optIns : o.tool # tools[n].id}
  /\ UNCHANGED <<seq, clock, request>>

-----------------------------------------------------------------------------
(* POST and DELETE /instances/{id}/tools/by-name/{name}: a SELECT by name, *)
(* then an INSERT or a DELETE by the id it read.                           *)

OptInRead(c, i, n) ==
  /\ n \in Live(tools)
  /\ tools[n].enabled
  /\ Start(c, [at |-> "optInInsert", instance |-> i, name |-> n, id |-> tools[n].id])
  /\ UNCHANGED <<tools, optIns, seq, clock>>

(* The foreign key refuses an id whose row is gone, ON CONFLICT DO NOTHING *)
(* keeps an opt-in that is there.                                          *)
OptInInsertUnchecked(c) ==
  /\ request[c].at = "optInInsert"
  /\ optIns' = optIns \cup {[instance |-> request[c].instance, tool |-> request[c].id]}
  /\ Finish(c)
  /\ UNCHANGED <<tools, seq, clock>>

OptInInsert(c) ==
  /\ request[c].at = "optInInsert"
  /\ optIns' = IF request[c].id \in Ids(tools)
                 THEN optIns \cup {[instance |-> request[c].instance,
                                    tool |-> request[c].id]}
                 ELSE optIns
  /\ Finish(c)
  /\ UNCHANGED <<tools, seq, clock>>

OptOutRead(c, i, n) ==
  /\ n \in Live(tools)
  /\ Start(c, [at |-> "optOutDelete", instance |-> i, name |-> n, id |-> tools[n].id])
  /\ UNCHANGED <<tools, optIns, seq, clock>>

OptOutDelete(c) ==
  /\ request[c].at = "optOutDelete"
  /\ optIns' = optIns \ {[instance |-> request[c].instance, tool |-> request[c].id]}
  /\ Finish(c)
  /\ UNCHANGED <<tools, seq, clock>>

-----------------------------------------------------------------------------
(* POST /harness-tools/observed.  The time is taken before the transaction *)
(* waits for the write lock.                                               *)

(* validateObservedHarnessTools: at least one name, and none with a dot.   *)
ValidReport(r) ==
  /\ r.toolNames # {}
  /\ \A t \in r.toolNames : Len(t) = 1

ReportStart(c, r) ==
  /\ seq < MaxSeq
  /\ ValidReport(r)
  /\ Start(c, [at |-> "reportCommit", report |-> r, reportedAt |-> clock])
  /\ UNCHANGED <<tools, optIns, seq, clock>>

ReportedNames(r) == {HarnessToolRowName(r.harness, t) : t \in r.toolNames}

(* A reported name some other kind holds: the whole report is rolled back. *)
HeldByAnotherKind(r) ==
  \E n \in ReportedNames(r) \cap Live(tools) : tools[n].kind # "harness"

Unregistered(r) ==
  {t \in r.toolNames : HarnessToolRowName(r.harness, t) \notin Live(tools)}

(* The row a report leaves under a reported name: marked seen when it was  *)
(* there, new, off and unreviewed when it was not.  ids are the ids of the *)
(* new rows.                                                               *)
ReportedTool(r, n) ==
  CHOOSE t \in r.toolNames : n = HarnessToolRowName(r.harness, t)

SeenAndSwitchedOff(r, n, at, ids) ==
  IF n \in Live(tools)
    THEN [tools[n] EXCEPT !.lastSeenAt = at, !.enabled = FALSE]
    ELSE ReportedRow(ids[ReportedTool(r, n)], r.harness, ReportedTool(r, n), at)

SeenRow(r, n, at, ids) ==
  IF n \in Live(tools)
    THEN [tools[n] EXCEPT !.lastSeenAt = at]
    ELSE ReportedRow(ids[ReportedTool(r, n)], r.harness, ReportedTool(r, n), at)

(* Every INSERT takes an id, the one that ON CONFLICT lets do nothing too, *)
(* in the order the report lists its names.                                *)
ReportCommit(c) ==
  /\ request[c].at = "reportCommit"
  /\ LET r   == request[c].report
         at  == request[c].reportedAt
         new == Unregistered(r)
         lo  == NextId(tools, seq)
         hi  == seq + Cardinality(r.toolNames)
     IN  IF HeldByAnotherKind(r)
           THEN UNCHANGED <<tools, seq>>
           ELSE /\ seq' = hi
                /\ \E ids \in [new -> lo .. hi] :
                     /\ \A t, u \in new : ids[t] = ids[u] => t = u
                     /\ tools' = [n \in Names |->
                          IF n \in ReportedNames(r)
                            THEN SeenRow(r, n, at, ids)
                            ELSE tools[n]]
  /\ Finish(c)
  /\ UNCHANGED <<optIns, clock>>

(* A statement that fails ends its handler and changes nothing: the write  *)
(* lock did not come within _busy_timeout, or the caller of a report hung  *)
(* up, which rolls its transaction back.                                   *)
Fail(c) ==
  /\ request[c] # Idle
  /\ Finish(c)
  /\ UNCHANGED <<tools, optIns, seq, clock>>

Tick ==
  /\ clock < MaxClock
  /\ clock' = clock + 1
  /\ UNCHANGED <<tools, optIns, seq, request>>

-----------------------------------------------------------------------------
(* What people and their UIs do to one tool, in one statement.             *)
PersonActs ==
  \E n \in Names :
    \/ \E enabled \in BOOLEAN : SetEnabled(n, enabled)
    \/ \E unreviewed, enabled \in BOOLEAN : PatchTool(n, unreviewed, enabled)
    \/ DeleteTool(n)

UpsertSteps(c) ==
  \/ \E t \in Payloads : UpsertUpdate(c, t)
  \/ UpsertReadId(c)
  \/ UpsertInsert(c)

OptSteps(c) ==
  \/ \E i \in Instances, n \in Names : OptInRead(c, i, n) \/ OptOutRead(c, i, n)
  \/ OptInInsert(c)
  \/ OptOutDelete(c)

ReportSteps(c) ==
  \/ \E r \in Reports : ReportStart(c, r)
  \/ ReportCommit(c)

Next ==
  \/ PersonActs
  \/ \E c \in Clients : UpsertSteps(c) \/ OptSteps(c) \/ ReportSteps(c) \/ Fail(c)
  \/ Tick

Spec == Init /\ [][Next]_vars

-----------------------------------------------------------------------------
(* Properties.                                                             *)

Finishes(c, at) == request[c].at = at /\ request'[c] = Idle

(* The row under n before the step is still there after it.                *)
Survives(n) ==
  n \in Live(tools) /\ n \in Live(tools)' /\ tools'[n].id = tools[n].id

(* An id names at most one tool and none is ahead of the AUTOINCREMENT     *)
(* mark, however inserts, deletes and reports interleave: opt-ins, grants  *)
(* and the UI refer to tools by id alone.                                  *)
IdsIdentifyTools ==
  \A m, n \in Live(tools) :
    /\ tools[n].id <= seq
    /\ tools[m].id = tools[n].id => m = n

(* Every opt-in belongs to a tool that exists: a delete takes its opt-ins  *)
(* along, and an opt-in whose tool was deleted after its handler read the  *)
(* id is refused by the foreign key.                                       *)
OptInsHoldLiveTools == \A o \in optIns : o.tool \in Ids(tools)

(* Every row satisfies the CHECKs of the table, so a kind=harness row is   *)
(* named for its harness and tool whichever route wrote it, and no         *)
(* statement the program sends is refused by a CHECK.                      *)
RowsPassTheSchemaChecks == \A n \in Live(tools) : PassesChecks(n, tools[n])

(* The id a handler read by name stays true while the handler is between   *)
(* its statements: it is the named tool's, or by now nobody's.  A deleted  *)
(* tool's id is never another tool's.                                      *)
HeldIdsStayTrue ==
  \A c \in Clients : request[c].at \in {"optInInsert", "optOutDelete"} =>
    /\ request[c].id <= seq
    /\ \A n \in Live(tools) : tools[n].id = request[c].id => n = request[c].name

(* The inductive invariant: with the above, an upsert that is about to     *)
(* insert holds a tool that passed validation.                             *)
IInv ==
  /\ TypeOK
  /\ IdsIdentifyTools
  /\ OptInsHoldLiveTools
  /\ RowsPassTheSchemaChecks
  /\ HeldIdsStayTrue
  /\ \A c \in Clients : request[c].at = "upsertInsert" => Valid(request[c].tool)

(* An opt-in goes to the tool the caller named.  The insert uses an id     *)
(* read earlier; a tool deleted and registered again in between, or a      *)
(* different tool registered since, must not receive the opt-in.           *)
OptInIsForTheNamedTool ==
  [][\A c \in Clients, o \in optIns' \ optIns :
       Finishes(c, "optInInsert") =>
         /\ request[c].name \in Live(tools)
         /\ tools[request[c].name].id = o.tool
         /\ o.instance = request[c].instance]_vars

(* An opt-in leaves the table only with its tool, or because a caller      *)
(* opted that instance out of that tool.  Disabling a tool globally, and   *)
(* re-registering it under the same name, keep its opt-ins.                *)
OptInsOnlyLeaveWhenAskedTo ==
  [][\A o \in optIns \ optIns' :
       \/ o.tool \notin Ids(tools)'
       \/ \E c \in Clients : /\ Finishes(c, "optOutDelete")
                             /\ request[c].instance = o.instance
                             /\ request[c].id = o.tool]_vars

(* last_seen_at of a row changes only when a report of that row commits,   *)
(* and then to the time that report was received: POST /tools, PATCH and   *)
(* the switch leave it (tool.go, "Only that route writes it").             *)
LastSeenOnlyByReports ==
  [][\A n \in Names :
       Survives(n) /\ tools'[n].lastSeenAt # tools[n].lastSeenAt =>
         \E c \in Clients : /\ Finishes(c, "reportCommit")
                            /\ n \in ReportedNames(request[c].report)
                            /\ tools'[n].lastSeenAt = request[c].reportedAt]_vars

(* A tool's switch moves only by PATCH, /enable, /disable or POST /tools,  *)
(* and a tool is born on only by POST /tools.  So a tool nobody registered *)
(* stays off until a person acts, and a report never turns anything off.   *)
OnlyPeopleThrowTheSwitch ==
  [][\A n \in Live(tools)' :
       \/ IF Survives(n) THEN tools'[n].enabled = tools[n].enabled
                         ELSE ~tools'[n].enabled
       \/ PersonActs
       \/ \E c \in Clients : UpsertSteps(c)]_vars

(* schema.sql and README: a globally disabled tool cannot be opted in.     *)
(* The check and the insert are two statements, so it can.                 *)
OptInNeedsTheGlobalSwitch ==
  [][\A o \in optIns' \ optIns : tools[NameOf(tools, o.tool)].enabled]_vars
=============================================================================
