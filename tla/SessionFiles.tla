---------------------------- MODULE SessionFiles ----------------------------
(***************************************************************************)
(* The task plan (.task.md) and the scratchpad: two in-process tools, each *)
(* over one small markdown file.  A call loads the file, changes what it   *)
(* loaded and writes all of it back, and completing the last task runs a   *)
(* build, which adds a task when it fails.  Invocations run concurrently   *)
(* (net/http) and nothing locks a file from the load to the write.         *)
(*                                                                         *)
(* os.WriteFile opens with O_TRUNC and then writes: two steps, and each    *)
(* open file has its own offset.  A file is the sequence of its lines that *)
(* the parser reads: of the plan the task lines, of the scratchpad one     *)
(* entry for each `### key` section.  Descriptions are left out, but that  *)
(* of a build's task: it is what that build printed, and stands for how    *)
(* the build ended.                                                        *)
(***************************************************************************)
EXTENDS Integers, FiniteSets, SequencesExt

CONSTANTS
  Callers,         (* concurrent invocations                                *)
  TaskNames,       (* tasks callers name                                    *)
  FixBuildError,   (* the task a failed build adds                          *)
  Keys,            (* keys of notes                                         *)
  Values,          (* their contents                                        *)
  Updates,         (* the task lists callers send with `update`             *)
  FirstPlan,       (* the plan as it is found, perhaps edited by hand       *)
  MaxTasks         (* bound: tasks are added to plans of fewer tasks        *)

Statuses == {"pending", "in_progress", "done", "blocked"}
CallersTasks == [task : TaskNames, status : Statuses]

(* What childprocess.Run answered (see ChildProcess), and whether the      *)
(* context was done by then: it is when the answer is that it was.         *)
Builds ==
  {b \in [result    : {"ok", "exitError", "waitDelay", "notStarted", "cancelled"},
          cancelled : BOOLEAN] :
     b.result = "cancelled" => b.cancelled}

FixTasks == [task : {FixBuildError}, status : Statuses, describes : Builds]
TaskItems == CallersTasks \cup FixTasks
Notes == [key : Keys, value : Values]

(* FixBuildError is the build's own request: the same words in a caller's  *)
(* list are a task of the caller's.                                        *)
ASSUME SessionAssumption ==
  /\ FixBuildError \notin TaskNames
  /\ Updates \subseteq Seq(CallersTasks)
  /\ FirstPlan \in Seq(CallersTasks)
  /\ MaxTasks \in Nat

VARIABLES
  plan,            (* the lines of the plan                                 *)
  pad,             (* the sections of the scratchpad                        *)
  call             (* what each caller's invocation holds                   *)

sessionVars == <<plan, pad, call>>

PlanOps ==
       [file : {"plan"}, action : {"update"}, tasks : Updates]
  \cup [file : {"plan"}, action : {"complete", "start"}, index : 0 .. MaxTasks]
  \cup [file : {"plan"}, action : {"add"}, task : TaskNames]
  \cup [file : {"plan"}, action : {"fix"}, build : Builds]

PadOps ==
       [file : {"pad"}, action : {"note"}, key : Keys, value : Values]
  \cup [file : {"pad"}, action : {"remove"}, key : Keys]
  \cup [file : {"pad"}, action : {"clear"}]

Resting == [at |-> "idle"]

(* file: the file; next: the lines to write; builds: whether a build       *)
(* follows; alone: history, whether no other call was between its load and *)
(* its write of this file meanwhile; before: history, what it truncated,   *)
(* while it is alone.                                                      *)
CallRecords ==
  [at : {"open", "write"}, file : {"plan", "pad"}, builds : BOOLEAN, alone : BOOLEAN,
   next : Seq(TaskItems \cup Notes), before : Seq(TaskItems \cup Notes)]

Writing(c) == call[c].at \in {"open", "write"}

(* Types; and a build follows only a plan in which nothing is left.        *)
SessionTypeOK ==
  /\ plan \in Seq(TaskItems)
  /\ pad \in Seq(Notes)
  /\ call \in [Callers -> CallRecords \cup {Resting, [at |-> "build"]}]
  /\ \A c \in Callers : (Writing(c) /\ call[c].builds) =>
       call[c].file = "plan" /\ call[c].next = << >>

SessionInit ==
  /\ plan = FirstPlan
  /\ pad = << >>
  /\ call = [c \in Callers |-> Resting]

-----------------------------------------------------------------------------
(* What an update makes of what was loaded.                                *)

Done(t) == t.status = "done"

WithStatus(tasks, index, status) ==
  [j \in DOMAIN tasks |-> IF j = index + 1 THEN [tasks[j] EXCEPT !.status = status]
                                           ELSE tasks[j]]
Add(tasks, name) == Append(tasks, [task |-> name, status |-> "pending"])

BeforeAutoRemove(op, tasks) ==
  CASE op.action = "update"   -> op.tasks
    [] op.action = "complete" -> WithStatus(tasks, op.index, "done")
    [] op.action = "start"    -> WithStatus(tasks, op.index, "in_progress")
    [] op.action = "add"      -> Add(tasks, op.task)

(* Completed tasks are removed on every save but that of a build's task.   *)
Remaining(tasks) ==
  LET kept[j \in 0 .. Len(tasks)] ==
        IF j = 0 THEN << >>
        ELSE IF Done(tasks[j]) THEN kept[j - 1] ELSE Append(kept[j - 1], tasks[j])
  IN  kept[Len(tasks)]

(* AddBuildErrorTask.                                                      *)
FixTask(build) == [task |-> FixBuildError, status |-> "pending", describes |-> build]

NewPlan(op, tasks) ==
  IF op.action = "fix" THEN Append(tasks, FixTask(op.build))
                       ELSE Remaining(BeforeAutoRemove(op, tasks))

(* parseScratchpadMD: of two sections with one key the last counts.        *)
NotesOf(sections) ==
  {sections[j] : j \in {i \in DOMAIN sections :
     \A k \in DOMAIN sections : k > i => sections[k].key # sections[i].key}}

NewNotes(op, notes) ==
  LET others == {n \in notes : n.key # op.key} IN
  CASE op.action = "note"   -> others \cup {[key |-> op.key, value |-> op.value]}
    [] op.action = "remove" -> others
    [] op.action = "clear"  -> {}

NewContent(op, content) ==
  IF op.file = "plan" THEN NewPlan(op, content) ELSE NewNotes(op, content)

(* Go walks a map in any order.                                            *)
Renderings(op, content) ==
  IF op.file = "plan" THEN {content} ELSE SetToSeqs(content)

-----------------------------------------------------------------------------
(* The steps of a call.                                                    *)

LinesOf(file) == IF file = "plan" THEN plan ELSE pad
Read(file, lines) == IF file = "plan" THEN lines ELSE NotesOf(lines)

(* loadPlan and loadScratchpad: a file that cannot be read, for whatever   *)
(* reason (too many open files, say), is taken for one without content.    *)
Loaded(file) == {Read(file, LinesOf(file)), Read(file, << >>)}

(* An index past the tasks that were loaded is an error.                   *)
Applies(op, loaded) ==
  CASE op.action \in {"complete", "start"} -> op.index < Len(loaded)
    [] op.action \in {"add", "fix"}        -> Len(loaded) < MaxTasks
    [] OTHER                               -> TRUE

BuildsWhenSomethingIsDone(op, loaded) ==
  /\ op.file = "plan" /\ op.action # "fix"
  /\ \E j \in DOMAIN BeforeAutoRemove(op, loaded) : Done(BeforeAutoRemove(op, loaded)[j])

(* Completing the last task builds: nothing remains and something was done. *)
BuildsAfter(op, loaded) ==
  /\ op.file = "plan" /\ op.action # "fix"
  /\ NewPlan(op, loaded) = << >>
  /\ BeforeAutoRemove(op, loaded) # << >>

LoadFor(c, op) ==
  LET meets == {d \in Callers \ {c} : Writing(d) /\ call[d].file = op.file} IN
  \E loaded \in Loaded(op.file) :
    /\ Applies(op, loaded)
    /\ \E lines \in Renderings(op, NewContent(op, loaded)) :
         call' = [d \in Callers |->
           IF d = c THEN [at |-> "open", file |-> op.file, next |-> lines,
                          before |-> << >>, builds |-> BuildsAfter(op, loaded),
                          alone |-> meets = {}]
           ELSE IF d \in meets THEN [call[d] EXCEPT !.alone = FALSE, !.before = << >>]
           ELSE call[d]]

Load(c, op) ==
  /\ call[c] = Resting
  /\ op.action # "fix"
  /\ LoadFor(c, op)
  /\ UNCHANGED <<plan, pad>>

SetFile(file, lines) ==
  IF file = "plan" THEN plan' = lines /\ UNCHANGED pad
                   ELSE pad' = lines /\ UNCHANGED plan

Opened(c) ==
  [call[c] EXCEPT !.at = "write",
                  !.before = IF call[c].alone THEN LinesOf(call[c].file) ELSE << >>]

OpenWithoutTruncating(c) ==
  /\ call[c].at = "open"
  /\ call' = [call EXCEPT ![c] = Opened(c)]
  /\ UNCHANGED <<plan, pad>>

OpenAndTruncate(c) ==
  /\ call[c].at = "open"
  /\ call' = [call EXCEPT ![c] = Opened(c)]
  /\ SetFile(call[c].file, << >>)

(* The bytes go over those another call has written since the truncation,  *)
(* whose last lines may stick out behind.  Lines are taken to be of about  *)
(* one length, and a line that is cut is taken as lost.                    *)
Behind(new, old) ==
  {<< >>} \cup {SubSeq(old, j, Len(old)) : j \in Len(new) + 1 .. Len(old)}

Overwritten(new, old) == {new \o rest : rest \in Behind(new, old)}

AfterTheWrite(c) ==
  IF call[c].builds THEN [at |-> "build"] ELSE Resting

Write(c) ==
  /\ call[c].at = "write"
  /\ \E lines \in Overwritten(call[c].next, LinesOf(call[c].file)) :
       SetFile(call[c].file, lines)
  /\ call' = [call EXCEPT ![c] = AfterTheWrite(c)]

(* The open fails, or the write stops part of the way: an error, no build. *)
WriteFails(c) ==
  /\ Writing(c)
  /\ IF call[c].at = "open" THEN UNCHANGED <<plan, pad>>
     ELSE \E j \in 0 .. Len(call[c].next) :
            \E lines \in Overwritten(SubSeq(call[c].next, 1, j), LinesOf(call[c].file)) :
              SetFile(call[c].file, lines)
  /\ call' = [call EXCEPT ![c] = Resting]

-----------------------------------------------------------------------------
(* The build.  One whose context is done has decided nothing, however the  *)
(* command came back; any other error of Run is a failure, that of a bash  *)
(* or a directory that is not there and that of a pipe still held too.     *)

VerdictOfTheExitStatus(build) ==
  CASE build.result # "ok"                    -> "failed"
    [] build.result = "ok" /\ build.cancelled -> "stopped"
    [] OTHER                                  -> "passed"

runBuild(build) ==
  CASE build.cancelled                          -> "stopped"
    [] ~build.cancelled /\ build.result # "ok" -> "failed"
    [] OTHER                                    -> "passed"

(* After a failure the plan is read again, so that what others did during  *)
(* the build stays.                                                        *)
BuildEnds(c) ==
  /\ call[c].at = "build"
  /\ \E build \in Builds :
       IF runBuild(build) = "failed"
         THEN LoadFor(c, [file |-> "plan", action |-> "fix", build |-> build])
         ELSE call' = [call EXCEPT ![c] = Resting]
  /\ UNCHANGED <<plan, pad>>

(* The process ends; the files stay as they are.                           *)
EndProcess ==
  /\ \E c \in Callers : call[c] # Resting
  /\ call' = [c \in Callers |-> Resting]
  /\ UNCHANGED <<plan, pad>>

CallStep(c) ==
  \/ \E op \in PlanOps \cup PadOps : Load(c, op)
  \/ OpenAndTruncate(c)
  \/ Write(c)
  \/ WriteFails(c)
  \/ BuildEnds(c)

SessionNext == (\E c \in Callers : CallStep(c)) \/ EndProcess

SessionSpec == SessionInit /\ [][SessionNext]_sessionVars

-----------------------------------------------------------------------------
(* Properties.                                                             *)

WritersOf(file) == {c \in Callers : Writing(c) /\ call[c].file = file}

(* Two calls overlap, or one is left of some that did.                     *)
Disturbed == {f \in {"plan", "pad"} : \E c \in WritersOf(f) : ~call[c].alone}

(* What a file says: while the one call that writes it has truncated it,   *)
(* still what that call loaded.                                            *)
Says(file) ==
  LET truncated == {c \in WritersOf(file) : call[c].at = "write" /\ call[c].alone} IN
  Read(file, IF truncated = {} THEN LinesOf(file)
                               ELSE call[CHOOSE c \in truncated : TRUE].before)

OpFile(op) == op.file
WrittenSoFar(op, content) ==
  LET whole == NewContent(op, content) IN
  IF op.file = "plan" THEN Prefixes(whole) ELSE SUBSET whole

Atomic == INSTANCE AtomicFiles WITH
  Files         <- {"plan", "pad"},
  Ops           <- PlanOps \cup PadOps,
  FileOf        <- OpFile,
  Allowed       <- Applies,
  Changed       <- NewContent,
  Beginnings    <- WrittenSoFar,
  Empty         <- [plan |-> << >>, pad |-> {}],
  content       <- [f \in {"plan", "pad"} |-> Says(f)],
  disturbed     <- Disturbed

(* A call that meets no other on its file, from its load to its write, is  *)
(* atomic: AtomicFiles, with what each file says for its content.  That    *)
(* includes what a read that failed leaves of the file: the update of an   *)
(* empty one.                                                              *)
ImplementsAtomicFiles == Atomic!FilesSpec

(* "A stopped build has decided nothing about the code" (BuildResult): a   *)
(* task of the plan never describes a build that passed or was stopped,    *)
(* though the plan is read and written after the build.                    *)
FixTasksDescribeFailures ==
  \A j \in DOMAIN plan : plan[j].task = FixBuildError =>
    plan[j].describes.result # "ok" /\ ~plan[j].describes.cancelled

(* "doing so writes a "Fix build error" task describing a build that never *)
(* ran to completion" (BuildResult): the code writes one all the same when *)
(* the build could not be started.                                         *)
FixTasksDescribeCompletedBuilds ==
  \A j \in DOMAIN plan : plan[j].task = FixBuildError =>
    plan[j].describes.result \in {"exitError", "waitDelay"}

KeysOf(sections) == {sections[j].key : j \in DOMAIN sections}

(* ""note": Set a key-value note (upserts)" (scratchpad.go): a call that   *)
(* meets no other sets the note of one key or takes notes away, and does   *)
(* not put one key in the place of others.  The code does not keep it when *)
(* the read of the pad fails.                                              *)
NotesAreUpserted ==
  \A c \in Callers :
    (call[c].at = "write" /\ call[c].file = "pad" /\ call[c].alone) =>
      \/ KeysOf(call[c].before) \subseteq KeysOf(call[c].next)
      \/ KeysOf(call[c].next) \subseteq KeysOf(call[c].before)
=============================================================================
