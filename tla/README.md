# tool-store in TLA+

tool-store is the HTTP registry of the tools that agent harnesses may use: a
Go service over one SQLite file, the in-process tools it can run itself, and
the scripts kept beside them. This directory models the parts of it whose
correctness depends on the order of things or on boundaries: concurrent requests
of several statements each, transactions, restarts, migrations, slow calls between
a check and its use, files that two calls rewrite at once, processes that share a
file, goroutines that stop a command, and what is cut from an output and said of
the rest. TLC checks the models on small instances; TLAPS proves their safety, and
that they implement their abstract specifications, for every instance.

## 1. Inventory

| Component | State | Operations | What is hard | Correct when |
|---|---|---|---|---|
| Registry (`store.go`, `server.go`, `tool.go`, `schema.sql`) | tables `tools`, `instance_tools`, `sqlite_sequence` | upsert, patch, enable, disable, delete, opt in, opt out, list | handlers of several statements with no lock between them; ids carried from one statement to the next; ids reused | opt-ins belong to the tool that was named; ids are never reused; rows are well formed; switches move only when people move them |
| Observed harness tools (`harness_observed.go`) | the same tables, one transaction | report, patch | refused half way; two sessions reporting at once; the time taken before the lock | atomic; answers `created` truly; releases the write lock |
| Boot (`cmd/tool-store`) | how far seeding got | seed local, MCP, harness tools; serve; stop | killed half way, restarted over any table | complete when serving; switches survive; comes up |
| Migration (`migrate.go`) | schema, rows, the AUTOINCREMENT mark, a per-connection pragma | rebuild, add column, apply schema | killed between statements; DROP TABLE that cascades; the mark lost with the table | nothing lost, no id reissued, ends open |
| Tree hold (`scripts/tree_hold.py`) | one file | take, reclaim, release | created empty and written later; killed anywhere; two reclaimers | litter never shuts the tree; one run at a time |
| Provisioning (`provision.go`, `authstore.go`) | none of its own | resolve tools, fetch credentials, answer | rows read one by one, then slow calls | nothing is handed out that was not to be had during the request; an answer has all that was asked |
| Invocation (`server.go`, `cli_runner.go`, `tools/impl.go`) | none | check the row, read the body, run | the switch is read once, the body may be slow | what runs was switched on, and no harness's, during the request |
| Child processes (`internal/childprocess`) | a process group, three goroutines | run, cancel, escalate, wait | select races, pipes held open, jobs that ignore SIGINT | Run returns; nothing of a cancelled command is left; success means a whole run |
| Task plan, scratchpad (`tools/`) | one file each | load, change, truncate, write; build | no lock, a build in between, a read that fails, a write cut short | a call that meets no other is atomic; a stopped build decides nothing |
| Output bounds (`schema/`, `tools/shell.go`, `tools/fs.go`) | none | truncate, cut, list, page | boundaries of lines, bytes, characters and entries | what is returned and what is said to be left out add up |
| Review script (`scripts/harness-tool-review.sh`) | a feature list and a todo, both in other services | diff, write todo, remember | fails between two writes | not modelled, see section 6 |
| Scheduler tool, repository map, recent files, grep, browser, web tools, settings, generated client, deploy and test scripts | none that changes | | | not modelled, see section 6 |

How they interact: the HTTP handlers and the seeder call the store; the store
relies on SQLite for atomic statements, foreign keys and AUTOINCREMENT; a report
comes from llm-bridge-server each time a session starts; opt-ins are read by
provisioning; other services keep tool ids and depend on their never being
reused. Boot runs the migration, then the seeder, then the server. Invocation
runs child processes and the in-process tools, completing a plan runs a build as
a child process. The review script reads the registry's unreviewed rows.

## 2. The modules

```
ToolTable            rows, validation, and each SQL statement as an operator
  Registry           the HTTP API: one action per statement of a handler
    RegistryProofs   the theorems about Registry
    ReportTransaction  the report statement by statement; implements Registry
      TransactionProofs
    ToolStore        boot, seeding, kills and restarts around Registry
      ToolStoreProofs
    Provision        /provision and /invoke, while the registry goes on
      ProvisionProofs
ToolDatabase         abstract: one lasting database
  Migration          Open on databases of older schemas; implements ToolDatabase
    MigrationProofs
TreeHold             the hold on a working tree
StoppableCommand     abstract: a command that is running, being stopped or gone
  ChildProcess       one command, its processes and the goroutines that stop it
    ProcessProofs    the theorems about this and TreeHold
AtomicFiles          abstract: files whose updates are atomic unless they overlap
  SessionFiles       task plan, scratchpad, builds; implements AtomicFiles
    SessionProofs
OutputBounds         reads, listings and command output that are cut
  OutputProofs
MC*.tla, *.cfg       instances for TLC
```

**ToolTable** is shared vocabulary. A name is the sequence of its dot-free
segments, so that `harness + "." + tool` is concatenation and the schema's CHECK
on the name is about the same data as in the code. A row has the columns a guard
or a property reads: id, kind, harness, harness_tool_name, enabled, whether the
tags hold `unreviewed`, last_seen_at. Descriptions, JSON schemas and launcher
specs are opaque to the registry and left out; so is the rule of `validate` that
each kind has its own spec.

**Registry** keeps `tools`, `optIns`, `seq` (sqlite_sequence), `clock` and
`request`. `net/http` runs handlers concurrently and every statement is its own
transaction, so `UpsertTool`, `EnableForInstance`, `DisableForInstance` and
`RecordObservedHarnessTools` are two actions each, and `request[c]` holds what
client c's handler carries over: the validated tool, the id read by name, the
time of the report. Handlers of one writing statement (`SetEnabled`,
`PatchTool`, `DeleteTool`) are one action. `Fail` is a statement that gets no
lock within `_busy_timeout`, or a caller who hangs up. Foreign keys appear where
they act: `OptInInsert` adds nothing when the id has no row, `DeleteTool` takes
the opt-ins along. A refused read (404, 409, invalid) changes nothing and is a
stutter. The transaction of a report is one action here.

**ReportTransaction** opens that action: BEGIN IMMEDIATE, one INSERT per name
and an UPDATE where the INSERT met a row, COMMIT, or the rollback of the 409.
`draft` is the tables as the transaction sees them. While a client is `writer`,
other writing statements wait and reads see the last commit. `ImplementsRegistry`
is the specification of Registry itself: the refinement mapping is the identity
on the shared variables, and everything but the commit stutters.

**ToolStore** puts a process around Registry: `phase` is down, booting, serving
or refused, `seeded` counts the seeds done. A seed is one action because nothing
else writes during boot and exactly one of its statements does. `Stop` can come
between any two steps and drops what handlers hold.

**Provision** puts consumers beside the clients of Registry. A handler looks its
rows up one query at a time (`LookUp`, or `ListInstance`, which is one query), and
then, for each row, checks switch and kind (`Configure`), makes one call of auth-store for
each environment key (`ResolveKey`) and adds the server to its answer
(`AddServer`); an invocation checks its one row and then waits for the body. Any
statement of any other handler may come between two of these. auth-store is
external: `held`, the providers it has a credential for, changes at any time, and
a call may fail for no reason. `seen` is a history: what was on offer at each
moment of the request, to which the answer is compared. The answer is a map by name, as
in the code: a server that is added takes the place of one of its name, which is how
an id can get lost (LostIds). Launchers are opaque, and
which keys a tool's environment needs is a constant of its name.

**ToolDatabase** is what everybody else takes the database for: tools and opt-ins
that stay, an id counter that only moves up, and a service that has it open or
has not. **Migration** models a database as sets of column names, row ids and opted-in
ids plus the AUTOINCREMENT marks of `tools` and `tools_rebuilt`, and executes
`Open` a statement at a time, with the draft of the open transaction and the
pragma of its connection. `DROP TABLE` and `RENAME` do what SQLite does to
`sqlite_sequence` and, with foreign keys on, to the opt-ins. A crash discards the
draft. The registry then inserts, deletes and opts in. The refinement mapping
takes what is committed for the database's contents, so that every statement of
`Open` but the one that makes it usable is a stutter.

**TreeHold** has one action per system call of `exclusive_hold_on_tree`, and a
run can be killed before each. The hold is there, unwritten, from `Create` to
`Write`; `Unlink` removes whatever is at the path. A reused pid is not modelled.

**ChildProcess** is one call of `Command.Run`. Processes are members of sets:
`running`, and of those `group`, `immune` (to SIGINT) and `writers` (of the
output pipe); a fork inherits or leaves the last three. `waitsFor` is where `Run`
stands, inside `Cmd.Wait` for the most part; `watcher` is os/exec's goroutine for
the context, external and modelled from what NewCommand sets (Cancel, WaitDelay);
`escalation` is the package's own. A select with two ready cases takes either, as
Go does when the goroutine comes to it late (but for the one in os/exec between a timer
that has just expired and a pipe that has just ended). An exited shell that is not collected
keeps its group in being, so a signal to it is delivered. Not modelled: the few
microseconds in which a group's id could be taken by another (the code's comment
names them), and platforms without process groups.

**StoppableCommand** is what the caller of `Run` sees: a command that is idle, running,
being stopped, stopped or over, the processes of its group, and the answer. Nothing is done to it
before its end is asked for, except that its output is given up when its leader has ended;
stopping ends with nobody left, and nobody joins a command of which nobody is left; it is
over only when it is stopped, or when its stopping has not begun; a leader that failed is
answered as that, and who was warned or lost output is not answered as a success. In the mapping
`escalation` gives the phase and `result` is the answer once `Run` has returned, so that what os/exec does
between (the shell collected, the watcher met, the pipe read) are stutters. `StoppableCommand` allows
what Survivors finds: a command that is over before the request for its end was seen
leaves whom it leaves.

**SessionFiles** is the two tools that rewrite a file in the session's directory. A
file is the sequence of its lines that the parsers read. `Load` reads, or fails to
read and goes on as from an empty file (`Loaded`: loadPlan and loadScratchpad answer every
error with no content), and decides all that is written (`NewPlan`, `NewNotes`, with the completed tasks removed by the loop
`Remaining` and, for the pad, the keys in any order, as Go walks a map); `os.WriteFile` is two steps,
`OpenAndTruncate` and `Write`, with an offset of its own for each open file, so that of two
overlapping writes the longer may stick out behind the shorter; `WriteFails` stops
anywhere in the line sequence; `BuildEnds` reads the plan again when the build has
failed. How a build ended is what `Run` answered it with (`Builds`: success, a non-zero exit, a pipe
still held, not started, cancelled) and whether its context was done by then, which `runBuild` asks
first; the task of a failed build carries it (`describes`), as in the code it carries
the build's output. A build that exited 0 with its pipe held counts as failed, as in
the code. `EndProcess` drops every call and leaves the files. Lines are taken to be
of about one length, and a line that is cut is taken as lost: in the code the beginning of a task line
still parses, as a task of a shorter name.

**AtomicFiles** is the promise: an update takes effect whole, or not at all, or cut
short when its writing fails; what is updated is what the file says or, when it could
not be read, an empty file (`Readings`), so that a single call may lose all that was there: the code promises no
more, and UnreadNotes.cfg shows what that means. Of updates that overlap nothing is promised
(`disturbed`). The mapping is `Says`, what a file says while its one writer has
truncated it, namely still what that writer loaded, and `Disturbed`, the files with
a writer that met another between its load and its write. The hazard that two
overlapping calls lose an update is thereby stated, not denied: the code has no
lock, and the abstract specification says for which calls that does not matter.

**OutputBounds** has no concurrency: its state is a file or a tree, the last
answer, and `pages`, the lines a reader has got by doing what footers told it to.
Characters are newlines, narrow ones of one byte and wide ones of three, budgets
of bytes cut the encoded bytes (`TruncateAtRuneBoundary`, `SuffixAtRuneBoundary`),
those of the shell count runes. The definitions follow the code's loops and slices
(the walk, the directory, the newlines that `strings.Split` finds and the moving cuts are
recursive functions over the loops' counters);
the properties are stated on the characters of the file (`TrueLines`, `Prefixes`,
`Suffixes`), which is the reference they are checked against. Of a read that both limits
cut, `FootersTellTheTruth` says what is returned (`KeptOf`: the window of what the bytes left) and
what the number in its footer is (the bytes before the window), and HoledReads.cfg that the two differ. Only valid UTF-8 is
modelled, and numbers that do not overflow: a limit near the largest int overflows
fs.go:103 when the offset is added.

## 3. The runs

| Run | Instance | Shows |
|---|---|---|
| Requests | 2 callers, 1 instance, 2 names, clock to 2 | an opt-in belongs to a tool that exists and that its caller named, and leaves only with it or by an opt-out; a held id is never another tool's; ids are unique and below the mark, rows pass the CHECKs, only reports write last_seen_at, only people move a switch |
| Transactions | 2 callers, 2 names, overlapping reports | the statements implement the one-step report; `created` is true; the lock is let go |
| Restarts | a local and a harness seed, both names also sent as another kind, 2 stops | switches and harness rows survive starts; serving means seeded; only a taken harness name keeps the service down |
| Migrations | every database over 3 ids and 5 older schemas, 2 crashes | nothing is lost, no id issued twice, foreign keys hold when open, it ends open or the data is unmigratable, and it implements ToolDatabase |
| Holds | 3 runs | what a killed run leaves never shuts the tree; an ended run leaves no hold naming it |
| Commands | a shell and 2 jobs | Run returns; an escalation leaves nobody; an interrupted command is no success; it implements StoppableCommand, whose answers are true (a success has all its output) |
| Provisions | 1 consumer, 1 caller, 2 tools, one of which may come back as another kind or under another id | only what was on offer during the request is handed out; an answer has the names asked, every key, for each id asked a server of a name its tool had, and an instance's list is of one moment |
| Sessions | 2 callers, plans of up to 2 tasks, pads of 2 notes, reads and writes that fail, builds of every ending | the steps of calls implement AtomicFiles; a build's task describes a build that failed, not one that was stopped or passed |
| Outputs | every file of up to 5 characters, every tree of up to 4 entries | footers name the lines that were returned, and of bytes those left by the first cut; pages make the file, cuts fall between characters, the two ends of an output and the number between them add up, a total is the total |
| OptInWhileDisabled | as Requests | fails: the switch is thrown between check and insert |
| TwoHolders | 3 runs | fails: a hold not yet written is taken for litter |
| Survivors | as Commands | fails: a late escalation takes a cancelled command for never cancelled |

The last three state what the repository's own documents or comments say and the
code does not do; PROJECT.json quotes them under `findings`. In the first, an
opt-in is inserted for a tool that has been switched off since the handler
looked. It stays harmless to provisioning by instance, which filters on the
global switch (`HandsOutOnlyWhatWasOnOffer`), but the sentence in the repository's
README.md is not true. In TwoHolders two
scorers mutate one tree, which is what the hold exists to prevent. In Survivors
the escalation goroutine first runs when the command has returned, finds both
its channels ready and takes the wrong one: a background job that ignores SIGINT
and has redirected its output lives on. The window is small (a goroutine that is
late by the whole life of a command cancelled at once); once the goroutine has
seen the cancellation, `EscalationLeavesNobody` says that nothing survives.

Four more places where the code does not do what a comment of it says are stated as
properties of their own. Their configurations are kept beside the runs as
counterexamples to look at (`tlc -config LostIds.cfg MCProvision`, and so on) and
are not among the runs of PROJECT.json.

| Configuration | Instance | Property | What TLC finds |
|---|---|---|---|
| LostIds | as Provisions | `EveryIdIsAnswered` | Ids 1 and 2 are asked. When id 1 has been looked up its tool is deleted, and its name registered anew as id 2, which is looked up next: both rows have one name, and the answer, a map by name (provision.go:88), keeps the second. provision.go:48-50 says "Errors out (no fallback) if any tool is missing". |
| UnbuiltFixes | as Sessions | `FixTasksDescribeCompletedBuilds` | Bash or the directory of the build is not there; task_plan.go:312 takes that for a failed build and a task about it is added, where task_plan.go:286-289 warns of "a 'Fix build error' task describing a build that never ran to completion". |
| UnreadNotes | as Sessions | `NotesAreUpserted` | A read fails for a passing reason, such as too many open files, and is taken for an empty pad (scratchpad.go:111-114); the call, though it meets no other, writes its one note in the place of all the others. scratchpad.go:30 says "Set a key-value note (upserts)". The plan is lost the same way (task_plan.go:197-200), also when a build's task is added. |
| HoledReads | as Outputs | `ByteCountsAreReturned` | A file of 8 bytes over both limits of a whole read: the first cut keeps 5 and the window of lines 3 of those, with the line that tells of the first cut, and the footer says 5 of 8 (fs.go:138). fs.go:78-79 says "So the footer states what this function actually returned", and lines 123-125 that it must not overstate the read. |

`AnswersAreWhole`, `FixTasksDescribeFailures`, `ImplementsAtomicFiles` and `FootersTellTheTruth` state what
the code does keep in these places.

Three smaller divergences follow from the models and have no run of their own.
Of two first upserts of one name the second is refused with a 400 when its INSERT
meets the row of the first (`UpsertInsert`; store.go:191), where README.md:61
promises an idempotent upsert. A `cli` or `mcp` row that is on
becomes the local tool of that name, switched on, at the next start (`KeptSwitch`;
main.go:114), where README.md:325 says that no tool the store runs is silently
active. And a listing that says there are more entries may be wrong
(fs.go:343-349 asks for the cap before it asks whether the entry is hidden), which
is why `TotalsAreTotals` claims only the other direction.

Deadlock is checked in Sessions and Outputs. Elsewhere it is not: a registry, a
service or a database that nobody calls stays as it is, every run of the scorers
ends, and so does a command.

### Bounds

`MaxSeq` stops requests that would create a row once so many ids are out; those
in flight may still take theirs, so ids go up to MaxSeq plus the number of
clients (more for reports of several names). Two ids beyond the number of names are enough for what
matters: a tool deleted while a handler holds its id, its name registered again,
and another tool registered in between. Two clients suffice because every
property relates one handler to one interfering request; people's requests need
no client and come at any time. One instance does because no statement relates two;
the theorems hold for any number of either. `MaxClock` 2 gives two reports
different times.
Two stops allow a start cut off after another cut-off start; `MaxCrashes` 2 the
same for migrations. Three ids give the migration a row, an id deleted before it
and one issued after. Three scorers are one that dies and two that find its hold.
Two jobs are one that stays in the group ignoring SIGINT and one that leaves it
with the pipe; timers have no length, so every order of expiry is covered.

Consumers only read, so one beside a caller meets all that several would; its
requests are by names, by two ids, by instance, one that names two sources and an
invocation, one tool has two keys and one has none. `MaxTasks` bounds what callers and failed
builds add to a plan, which overlapping builds could do without end; with 2 a
call can lengthen, shorten and empty the plan while another writes it. The limits of
Outputs are scaled down and keep the code's order; files of five characters lie
on both sides of each of them, with a wide character at every place of a cut, and
trees of four entries have a hidden or unreadable one at and after each cap.

Scorers, clients of Requests and callers of Sessions are interchangeable, which is
the only symmetry used, and only with safety properties, none of which names one of
them.

### Fairness

Four runs check liveness. `FairTransactionSpec`: a transaction that has begun
runs on, since its goroutine waits for nothing; whether other writers get the lock in time
is left open. `FairStoreSpec`: a start runs on and a stopped or failed service is
started again (`Restart=on-failure` in the unit, or the operator); no request
need ever come. `FairMigrationSpec`: the same for `Open`.
`FairCommandSpec`: each of the three goroutines runs on and its timers expire;
no process need exit of itself and nobody need cancel. Provision, SessionFiles and
OutputBounds promise only safety: a call of theirs may wait for a slow peer or a
long build for as long as it likes. Stops and crashes are
bounded by a constant, so "once it is no longer killed" is the end of every
behaviour.

## 4. What is proved

`RegistryProofs` proves, for any names, tools, clients, instances, reports and
bounds that satisfy the assumptions of ToolTable and Registry:

| Theorem | |
|---|---|
| TypeCorrect | `Spec => []TypeOK` |
| IdsAlwaysIdentifyTools | no two tools share an id, none is ahead of the mark |
| OptInsAlwaysHoldLiveTools | every opt-in is one of an existing tool |
| RowsAlwaysPassTheSchemaChecks | every row passes the table's CHECKs |
| HeldIdsAlwaysStayTrue | an id held between two statements is the named tool's or nobody's |
| OptInsAreForTheNamedTool | an inserted opt-in is for the tool that was named |
| OptInsLeaveOnlyWhenAskedTo | an opt-in leaves with its tool or by its opt-out |
| LastSeenMovesOnlyByReports | last_seen_at moves only with the commit of a report of that row |
| SwitchesMoveOnlyByPeople | no report, opt-in or opt-out moves a switch or makes a tool that is on |

The assumptions: `NoTool` is no row; names are sequences of strings and harness
ids and tool names are not empty; what harnesses can report is a name in use; payloads are tools;
reports are finite; `MaxSeq` and `MaxClock` are naturals. TLC evaluates them in
every run.

The inductive invariant `IInv` is type correctness, the four state invariants and
one more conjunct: an upsert about to insert holds a tool that passed
validation, without which `UpsertInsert` could write a row that fails a CHECK.
None of the invariants is inductive alone. A held id stays true because ids
move only forward, which is the action lemma `IdsMoveOn`: a row that is new has
an id above the old mark and at most the new one, a row that was there keeps its
id. Every invariant about ids follows from it, and `StepIds` proves it once,
action by action. For a report it needs that the new rows get distinct ids in the
range the report burns. The opt-in theorems add `OnlyDeleteTakesRows`: no
action but `DeleteTool` removes a row or changes its id.

The two theorems about reports rest on `ReportRowByRow`: every row of the table
a report commits is a row it left alone, one it only stamped, or a new one that
is off.

`TransactionProofs` proves, for any instance of ReportTransaction:

| Theorem | |
|---|---|
| ReportsAreAtomic | `TransactionSpec => ImplementsRegistry`, the specification of Registry |
| CreatedAlwaysTellsTheTruth | `created` lists exactly the rows the report made |

`TransactionIInv` says what the draft is while it is half written: under a name
already recorded, the committed row with its time moved, or a new row with an id
of its own above the mark; under every other name, the committed row; and a mark
that has moved by one for each name recorded. Nobody else writes meanwhile, so the
committed tables are those the transaction began with (`OthersLeaveTheWriter`).
COMMIT is then a report of Registry with the draft's ids as its choice, and a
refusal one that finds a name held by another kind. That two tools of one harness never share a
row name (`RowNamesDiffer`) is what makes the statements independent of order. All
theorems about `Spec` above therefore hold of the report statement by statement.

`ToolStoreProofs` proves, for any seeds and any number of kills and restarts:

| Theorem | |
|---|---|
| StartsKeepEverySwitch | no start moves the switch of a row that is there |
| StartsLeaveHarnessRowsAlone | a start writes nothing over a harness tool's row |
| SeededWhenServing | a service that answers has every seed in the table |
| RestartsKeepTheRegistrySound | ids, opt-ins, rows and held ids stay sound through starts and stops |
| RestartsKeepOptIns | opt-ins come and go only as asked, through starts and stops |
| RestartsKeepLastSeen | last_seen_at moves only by reports, through starts and stops |

It assumes of the seeds that they are valid tools, that no name is seeded as two
kinds, and that the binary's own have no dot in their names; both hold of
seeds.go, harness_seeds.go and tools/. Without them one seed could undo another.
`StoreIInv` adds to `IInv` that no handler runs beside a start and that each seed
done so far is in place, which later seeds do not disturb. A step of StoreSpec is a
step of Registry, a seed, or one that leaves the tables alone, so the last three
come from the action lemmas of RegistryProofs and from `StartsWriteNoOptIns`
and its like for seeds.

`ProvisionProofs` proves, for any names, consumers, requests and credentials:

| Theorem | |
|---|---|
| ProvisionTypeCorrect | what each handler holds between its steps is well typed |
| OnlyOffersAreHandedOut | what is handed out was on offer at one moment of the request |
| AnswersAreAlwaysWhole | an answer has one server of a name, with its keys: for names exactly those asked; for ids only tools asked for and, for each, one under a name it had; for an instance its offers of one moment |

`ProvisionIInv` says of every handler, wherever it stands, that each row it holds
and may hand out was on offer at a moment already seen, and that a row it is about to configure
has passed the checks. Rows are stale by then; the invariant does not mention the
present table at all, only the history, which only grows (`SeenGrows`). The proof
assumes finitely many names. An answer is whole because of what a handler keeps
true from row to row (`WholeSoFar`): the servers have a name each; of the names looked up so
far each is in hand, as a server that is complete or a row yet to come, and nothing else is; each id
looked up so far has its row yet to come, or a server under a name which that id's tool had on offer at a
moment already seen, and rows and servers are of ids asked only; the rows of an instance
are, in some order, its opt-ins at one moment already seen; and the keys found so far are
those tried. A loop that skips a row or takes up another loses one of these. That the server found for an id is
that id's own cannot be proved: LostIds.cfg refutes it, and the invariant says just what is left when a
row takes the place of another of its name.

`MigrationProofs` proves, for any columns, any set of ids, any database an older
binary left and any number of interruptions:

| Theorem | |
|---|---|
| MigrationTypeCorrect | a transaction is open, and foreign keys are off, only during the rebuild |
| AnOpenDatabaseIsMigrated | an open database has schema.sql's columns and no opt-in without its tool |
| OpeningKeepsEverything | no step of Open loses a tool, an opt-in, a column or part of the mark |
| IdsAreIssuedOnce | no tool gets an id that was issued before |
| OneLastingDatabase | `MigrationSpec` implements ToolDatabase |

`MigrationIInv` says, for each statement about to be executed, what is in the
file and what in the draft beside it: the draft keeps the opt-ins through the
DROP because foreign keys are off; the rows are in `tools` up to the DROP, in
`tools_rebuilt` up to the RENAME and in `tools` again; `mark` is the file's
mark until it is written back. So what COMMIT writes agrees with the file in all
that must be kept, a crash leaves the file, and an insert takes an id above a
mark that bounds every id ever issued. The loss theorem uses that only three
statements of a start write to the file (`OnlyThreeStatementsWrite`); that the
largest id of a bounded set exists is proved from the well-foundedness of <.

`ProcessProofs` proves of ChildProcess, for any set of processes:

| Theorem | |
|---|---|
| CommandTypeCorrect | the processes and goroutines are where they can be |
| EscalationAlwaysLeavesNobody | an escalation that saw the cancellation leaves nobody in the group, and Run waits for it |
| InterruptedIsNeverASuccess | a command that was interrupted is not reported to have succeeded |
| SuccessAlwaysHasAllOutput | a reported success had its pipe read to the end |
| CommandCanBeStopped | `CommandSpec` implements StoppableCommand |

`CommandIInv` adds where the three goroutines stand beside each other
(`GoroutinesInStep`), that a running shell is in its group, and that the watcher
has an error in hand whenever it interrupted somebody or cut the pipe off, until
Wait has taken it (`ErrorsAreHandedOver`). The last is where the shell's own exit
status could hide an interruption: a watcher without an error means that the
group was gone, so the shell was already collected. For the refinement `StoppableIInv` adds
that a shell is collected once, after it ended, and succeeds only by ending of itself
(`ShellGoesForward`), that watcher and escalation leave their selects only when the
caller has asked (`OnlyStoppedWhenAsked`), and that the error Run is about to return is true of what
happened (`ErrorsAreTrue`). Each step then maps to one of StoppableCommand or to nothing
(`StepIsPromised`).

Of TreeHold it proves, for any set of runs killed anywhere, that litter is always
reclaimed (LitterIsAlwaysReclaimed) and that an ended run holds nothing
(EndedRunsHoldNothing). `HoldIInv` adds that neither the file nor what a run has read of
it is its own before it has made it (`NoHoldBeforeItIsMade`), and that a run beside
which nobody is alive is on its first attempt or finds the path free
(`UndisturbedRunsGetThere`), so that its one reclaiming is enough. That no two
runs hold the tree is not provable: TwoHolders refutes it.

`SessionProofs` proves, for any callers, tasks, notes and files found:

| Theorem | |
|---|---|
| SessionTypeCorrect | the plan holds tasks, the pad notes, a build follows an empty plan |
| FixTasksAlwaysDescribeFailures | a build's task describes a build that came back with an error and was not given up |
| SessionImplementsAtomicFiles | `SessionSpec` implements AtomicFiles, whose updates are of what the file says or, after a failed read, of an empty file |

`SessionIInv` has two parts. `FilesIInv` says that the plan, in the file and in
every call that holds one, is a sequence over `PlanTasks`: the tasks callers may ask for and
tasks that describe a build of `FailedBuilds`, one that came back with an error while its
context was not done. The verdict of `runBuild` enters there and nowhere else, and the status of such a
task may change but not what it describes. `AloneIInv`
is for the refinement: what a call that met no other is about to write is an
update of what its file said when it loaded, or of an empty file, and from its truncation to the end
of its write the file is what it has written so far. With it each step maps to one of
AtomicFiles: a load to nothing, unless it meets a writer, which makes the file disturbed; a truncation
to nothing; the end of a lone write to the update; a write that fails to one that is cut
short; the end of the process to the end of all updates. The assumption on the
callers is that a task of theirs is told from the build's own, which only `AddBuildErrorTask` writes.

`OutputProofs` proves, for any files, trees, caps and budgets:

| Theorem | |
|---|---|
| FootersAlwaysTellTheTruth | a read returns the lines that its footer says; one cut to bytes, those bytes and the notice, or the window of their lines with the true count of the rest |
| PagesAlwaysMakeTheFile | whoever goes on where footers say gets every line once, in order, and is told of the end |
| CommandOutputAlwaysAddsUp | the beginning, the end and the number of characters or lines between them make the output |
| TotalsAreAlwaysTotals | listings show the first entries, add up, and call a number the total only if it is |
| CutsAlwaysFallBetweenCharacters | a cut keeps the most whole characters that fit, from either end |

The state is little here: the invariant `OutputIInv` is these properties and `PagesGoOn`,
that a footer sends a reader on to the line after those it returned, and only when there
is one, without which a page would not meet the one before it. The work is in the loops. `FoundIn` is the invariant of
the walk and of the directory: what was found is in order, is wanted, and leaves
out nothing that comes before any of it unless the walk says it is incomplete. For the
cuts, `CharactersEnd` says where the characters of a file end in its bytes (`WhereCharactersEnd`,
from the encoding); a cut moves down until it stands at one of these places
(`MovesToAStop`), so it stops at the end of the character it was in; and no longer
beginning fits (`LongestPrefix`). For the suffix the same, from the other end.

The tools split bytes; the properties count lines of characters. `LinesEnd` says where
the lines of a sequence end, at each newline and at no other place, and `SplitAtNewlines`
that the loop of Split finds just those places. `LinesOfBytes` carries them over: the lines
of the bytes end where the ends of the characters' lines are, because a newline is one byte and is
part of no other character. From that come the lines of a file with or without a newline at
its end (`FileLinesAreTrue`), that `Join` undoes `Split` (`JoinOfSplit`), also of some of
the lines (`JoinOfPart`), and that a command's characters are counted by the bytes that
begin one (`RunesOfAText`). The bounds are assumed to be natural numbers, as
large together as the code's are, and those of a window's two ends, of a command's lines and of the characters of its end not
to be 0: Split of nothing is one empty line, and there is no character past the last.

Recursive functions are proved to exist, and to be what their equation says, by hand:
`LoopsRun` (`TheLoopEnds` in SessionProofs) by a least number at which the loop has no values,
which the library's well-foundedness of < gives. This is how the proofs do without
the induction theorems that take an operator.

The proof attempts found two definitions that were right only as TLC evaluates
them. The exit status of a build and the wording of a listing were each a CASE whose
guards overlapped; TLC takes the first that holds, but TLA+ leaves the choice open, as Go's
`switch` and early returns do not. The guards are now disjoint.

Only model-checked: liveness (`WriteLockIsReleased`, `OnlyATakenNameKeepsItDown`,
`OpensUnlessUnmigratable`, `RunReturns`), which is beyond the prover. Every other
property of the passing runs is a theorem.

## 5. Plan

1. *Done.* The registry, its report transaction, boot, migration, the hold and the
   command, each with theorems; provisioning and invocation composed with the
   registry; the session files and the abstract files they implement; the
   output bounds against reference definitions; the refinements of Registry by
   ReportTransaction, of ToolDatabase by Migration and of AtomicFiles by
   SessionFiles, proved.
2. *Done.* `AnswersAreWhole` and `FixTasksDescribeFailures` as theorems; the opt-in
   and last-seen properties through restarts; listings and cuts.
3. *Done.* Lines: `Split` as a loop over the bytes, its lines those between the newlines,
   and with that `PagesMakeTheFile`, `FootersTellTheTruth` and `CommandOutputAddsUp`.
4. *Done.* ChildProcess as a command that is running, being stopped or gone
   (StoppableCommand), and its refinement.
5. *Done.* Reads that fail, builds that end in every way `Run` can answer, ids of which
   one takes the other's name, and reads cut by both limits.

## 6. Not modelled

- `scripts/harness-tool-review.sh`: its state is a todo and a note in two other
  services; what is lost when it fails between its two writes depends on what their
  routes do with a second write, which this repository does not say.
- The scheduler tool: one HTTP call for each action, then a comparison of what was
  asked with what came back, and wording.
- Repository map, recent files, grep: read-only walks and rendering.
- Browser, web search, web fetch: calls to outside programs and services.
- `write_files` and `edit_files`: a file rewritten in one call by nobody else;
  `TruncateShellOutput` of schema/, which no tool calls; the summaries of old
  results; the stop of `shell_commands` between two commands.
- Settings, the generated TypeScript client, deploy and test scripts: read once,
  generated, or drivers.
- In modelled parts: GET routes, descriptions, schemas and launchers; a process id
  taken by another process (the code's comments admit it, both in the hold and in
  the command); platforms without process groups; text that is not UTF-8.
