---------------------------- MODULE SessionProofs ----------------------------
(***************************************************************************)
(* Theorems about the task plan and the scratchpad, for any callers, tasks *)
(* and notes.                                                              *)
(***************************************************************************)
EXTENDS SessionFiles, FiniteSetTheorems, WellFoundedInduction, TLAPS

-----------------------------------------------------------------------------
(* The loop that removes what is done.                                     *)

(* A number with a property that no smaller one has.                       *)
LEMMA LeastNumber ==
  ASSUME NEW Bad \in SUBSET Nat, Bad # {}
  PROVE  \E n \in Bad : \A m \in Nat : m < n => m \notin Bad
<1>. DEFINE less == OpToRel(<, Nat)
<1>1. IsWellFoundedOn(less, Nat)
  BY NatLessThanWellFounded
<1>. HIDE DEF less
<1>2. PICK n \in Bad : \A m \in Bad : ~ (<<m, n>> \in less)
  BY <1>1, WFMin
<1>3. \A m \in Bad : ~ (m < n)
  BY <1>2 DEF less, OpToRel
<1>. QED
  BY <1>3

(* What the loop has kept after each task, from what it had kept before.   *)
KeptNext(tasks, kept) ==
  [j \in 0 .. Len(tasks) |->
     IF j = 0 THEN << >>
     ELSE IF Done(tasks[j]) THEN kept[j - 1] ELSE Append(kept[j - 1], tasks[j])]

LEMMA RemainingIsALoop ==
  ASSUME NEW tasks
  PROVE  Remaining(tasks) = (CHOOSE kept : kept = KeptNext(tasks, kept))[Len(tasks)]
BY DEF Remaining, KeptNext

(* f is what was kept after each of the first n tasks.                     *)
IsRun(tasks, n, f) ==
  /\ f[0] = << >>
  /\ \A j \in 1 .. n :
       f[j] = IF Done(tasks[j]) THEN f[j - 1] ELSE Append(f[j - 1], tasks[j])

RunsTo(S, tasks, n) == \E f \in [0 .. n -> Seq(S)] : IsRun(tasks, n, f)

LEMMA TheLoopStarts ==
  ASSUME NEW S, NEW tasks
  PROVE  RunsTo(S, tasks, 0)
<1>. DEFINE f == [j \in 0 .. 0 |-> << >>]
<1>1. f \in [0 .. 0 -> Seq(S)] /\ f[0] = << >>
  OBVIOUS
<1>. HIDE DEF f
<1>2. IsRun(tasks, 0, f)
  BY <1>1 DEF IsRun
<1>. QED
  BY <1>1, <1>2 DEF RunsTo

LEMMA TheLoopGoesOn ==
  ASSUME NEW S, NEW tasks \in Seq(S), NEW n \in 1 .. Len(tasks), RunsTo(S, tasks, n - 1)
  PROVE  RunsTo(S, tasks, n)
<1>1. PICK f \in [0 .. n - 1 -> Seq(S)] : IsRun(tasks, n - 1, f)
  BY DEF RunsTo
<1>. DEFINE last == IF Done(tasks[n]) THEN f[n - 1] ELSE Append(f[n - 1], tasks[n])
            g == [j \in 0 .. n |-> IF j = n THEN last ELSE f[j]]
<1>2. n - 1 \in 0 .. n - 1 /\ tasks[n] \in S /\ f[n - 1] \in Seq(S)
  BY <1>1
<1>3. last \in Seq(S)
  BY <1>2
<1>4. last = IF Done(tasks[n]) THEN f[n - 1] ELSE Append(f[n - 1], tasks[n])
  OBVIOUS
<1>. HIDE DEF last
<1>5. g \in [0 .. n -> Seq(S)] /\ g[n] = last /\ (\A j \in 0 .. n - 1 : g[j] = f[j])
  BY <1>1, <1>3
<1>. HIDE DEF g
<1>6. g[0] = << >>
  BY <1>1, <1>5 DEF IsRun
<1>7. ASSUME NEW j \in 1 .. n
      PROVE  g[j] = IF Done(tasks[j]) THEN g[j - 1] ELSE Append(g[j - 1], tasks[j])
  <2>1. CASE j = n
    BY <1>2, <1>4, <1>5, <2>1
  <2>2. CASE j # n
    <3>1. j \in 1 .. n - 1 /\ j - 1 \in 0 .. n - 1 /\ j \in 0 .. n - 1
      BY <2>2
    <3>2. f[j] = IF Done(tasks[j]) THEN f[j - 1] ELSE Append(f[j - 1], tasks[j])
      BY <1>1, <3>1 DEF IsRun
    <3>. QED
      BY <1>5, <3>1, <3>2
  <2>. QED
    BY <2>1, <2>2
<1>8. IsRun(tasks, n, g)
  BY <1>6, <1>7 DEF IsRun
<1>. QED
  BY <1>5, <1>8 DEF RunsTo

LEMMA TheLoopEnds ==
  ASSUME NEW S, NEW tasks \in Seq(S)
  PROVE  RunsTo(S, tasks, Len(tasks))
<1>. DEFINE Bad == {n \in 0 .. Len(tasks) : ~RunsTo(S, tasks, n)}
<1>1. Len(tasks) \in Nat
  OBVIOUS
<1>2. ASSUME Bad # {} PROVE FALSE
  <2>1. Bad \in SUBSET Nat
    BY <1>1
  <2>2. PICK n \in Bad : \A m \in Nat : m < n => m \notin Bad
    <3>. HIDE DEF Bad
    <3>. QED
      BY <1>2, <2>1, LeastNumber
  <2>3. n \in 0 .. Len(tasks) /\ ~RunsTo(S, tasks, n)
    BY <2>2
  <2>4. n # 0
    BY <2>3, TheLoopStarts
  <2>5. n \in 1 .. Len(tasks) /\ n - 1 \in Nat /\ n - 1 < n /\ n - 1 \in 0 .. Len(tasks)
    BY <1>1, <2>3, <2>4
  <2>6. RunsTo(S, tasks, n - 1)
    BY <2>2, <2>5
  <2>. QED
    BY <2>3, <2>5, <2>6, TheLoopGoesOn
<1>. QED
  BY <1>1, <1>2

(* Removing what is done leaves only tasks that were there.                *)
LEMMA RemainingTasks ==
  ASSUME NEW S, NEW tasks \in Seq(S)
  PROVE  Remaining(tasks) \in Seq(S)
<1>. DEFINE kept == CHOOSE f : f = KeptNext(tasks, f)
            Bad == {n \in 0 .. Len(tasks) : kept[n] \notin Seq(S)}
<1>1. PICK f \in [0 .. Len(tasks) -> Seq(S)] : IsRun(tasks, Len(tasks), f)
  BY TheLoopEnds DEF RunsTo
<1>2. Len(tasks) \in Nat
  OBVIOUS
<1>3. f = KeptNext(tasks, f)
  <2>1. ASSUME NEW j \in 0 .. Len(tasks)
        PROVE  f[j] = IF j = 0 THEN << >>
                      ELSE IF Done(tasks[j]) THEN f[j - 1] ELSE Append(f[j - 1], tasks[j])
    <3>1. CASE j = 0
      BY <1>1, <3>1 DEF IsRun
    <3>2. CASE j # 0
      <4>1. j \in 1 .. Len(tasks)
        BY <1>2, <3>2
      <4>. QED
        BY <1>1, <3>2, <4>1 DEF IsRun
    <3>. QED
      BY <3>1, <3>2
  <2>. QED
    BY <1>1, <2>1 DEF KeptNext
<1>4. kept = KeptNext(tasks, kept)
  BY <1>3
<1>. HIDE DEF kept
<1>5. kept[0] = << >>
  <2>1. KeptNext(tasks, kept)[0] = << >>
    BY <1>2 DEF KeptNext
  <2>. QED
    BY <1>4, <2>1, Zenon
<1>6. ASSUME NEW n \in 1 .. Len(tasks)
      PROVE  kept[n] = IF Done(tasks[n]) THEN kept[n - 1] ELSE Append(kept[n - 1], tasks[n])
  <2>1. n \in 0 .. Len(tasks) /\ n # 0
    OBVIOUS
  <2>2. KeptNext(tasks, kept)[n]
          = IF Done(tasks[n]) THEN kept[n - 1] ELSE Append(kept[n - 1], tasks[n])
    BY <2>1 DEF KeptNext
  <2>. QED
    BY <1>4, <2>2, Zenon
<1>7. ASSUME Bad # {} PROVE FALSE
  <2>1. Bad \in SUBSET Nat
    BY <1>2
  <2>2. PICK n \in Bad : \A m \in Nat : m < n => m \notin Bad
    <3>. HIDE DEF Bad
    <3>. QED
      BY <1>7, <2>1, LeastNumber
  <2>3. n \in 0 .. Len(tasks) /\ kept[n] \notin Seq(S)
    BY <2>2
  <2>4. n # 0
    <3>1. << >> \in Seq(S)
      OBVIOUS
    <3>. QED
      BY <1>5, <2>3, <3>1, Zenon
  <2>5. n \in 1 .. Len(tasks) /\ n - 1 \in Nat /\ n - 1 < n /\ n - 1 \in 0 .. Len(tasks)
    BY <1>2, <2>3, <2>4
  <2>6. kept[n - 1] \in Seq(S) /\ tasks[n] \in S
    BY <2>2, <2>5
  <2>7. Append(kept[n - 1], tasks[n]) \in Seq(S)
    BY <2>6
  <2>. QED
    BY <1>6, <2>3, <2>5, <2>6, <2>7
<1>8. kept[Len(tasks)] \in Seq(S)
  BY <1>2, <1>7
<1>. QED
  BY <1>8, RemainingIsALoop DEF kept

-----------------------------------------------------------------------------
(* What the file may hold: the build's task describes a failed build.      *)

FailedBuilds == {b \in Builds : b.result # "ok" /\ ~b.cancelled}

PlanTasks ==
  CallersTasks \cup [task : {FixBuildError}, status : Statuses, describes : FailedBuilds]

LEMMA TaskKinds == CallersTasks \subseteq PlanTasks /\ PlanTasks \subseteq TaskItems
BY DEF PlanTasks, FailedBuilds, TaskItems, FixTasks

LEMMA WiderSequences ==
  ASSUME NEW S, NEW T, S \subseteq T, NEW s \in Seq(S)
  PROVE  s \in Seq(T)
OBVIOUS

LEMMA WithStatusTasks ==
  ASSUME NEW tasks \in Seq(PlanTasks), NEW index \in Nat, NEW status \in Statuses
  PROVE  WithStatus(tasks, index, status) \in Seq(PlanTasks)
<1>1. ASSUME NEW t \in PlanTasks
      PROVE  [t EXCEPT !.status = status] \in PlanTasks
  BY DEF PlanTasks, CallersTasks
<1>2. Len(tasks) \in Nat /\ DOMAIN tasks = 1 .. Len(tasks)
      /\ \A j \in 1 .. Len(tasks) : tasks[j] \in PlanTasks
  OBVIOUS
<1>3. WithStatus(tasks, index, status) \in [1 .. Len(tasks) -> PlanTasks]
  BY <1>1, <1>2 DEF WithStatus
<1>. QED
  BY <1>2, <1>3

LEMMA NewPlanTasks ==
  ASSUME NEW tasks \in Seq(PlanTasks), NEW op \in PlanOps,
         op.action = "fix" => op.build \in FailedBuilds
  PROVE  NewPlan(op, tasks) \in Seq(PlanTasks)
<1>. DEFINE S == PlanTasks
<1>1. ASSUME NEW t \in S
      PROVE  Append(tasks, t) \in Seq(S)
  OBVIOUS
<1>2. CASE op.action = "fix"
  <2>1. FixTask(op.build) \in S
    BY <1>2 DEF FixTask, PlanTasks, Statuses
  <2>2. NewPlan(op, tasks) = Append(tasks, FixTask(op.build))
    BY <1>2 DEF NewPlan
  <2>. QED
    BY <1>1, <2>1, <2>2
<1>3. CASE op.action # "fix"
  <2>1. CASE op.action = "update"
    <3>1. op.tasks \in Seq(CallersTasks)
      BY <2>1, SessionAssumption DEF PlanOps
    <3>2. op.tasks \in Seq(S)
      BY <3>1, TaskKinds, WiderSequences
    <3>3. BeforeAutoRemove(op, tasks) = op.tasks
      BY <2>1 DEF BeforeAutoRemove
    <3>. QED
      BY <1>3, <3>2, <3>3, RemainingTasks DEF NewPlan
  <2>2. CASE op.action = "complete"
    <3>1. op.index \in Nat
      BY <2>2, SessionAssumption DEF PlanOps
    <3>2. BeforeAutoRemove(op, tasks) = WithStatus(tasks, op.index, "done")
      BY <2>2 DEF BeforeAutoRemove
    <3>3. "done" \in Statuses
      BY DEF Statuses
    <3>. QED
      BY <1>3, <3>1, <3>2, <3>3, WithStatusTasks, RemainingTasks DEF NewPlan
  <2>3. CASE op.action = "start"
    <3>1. op.index \in Nat
      BY <2>3, SessionAssumption DEF PlanOps
    <3>2. BeforeAutoRemove(op, tasks) = WithStatus(tasks, op.index, "in_progress")
      BY <2>3 DEF BeforeAutoRemove
    <3>3. "in_progress" \in Statuses
      BY DEF Statuses
    <3>. QED
      BY <1>3, <3>1, <3>2, <3>3, WithStatusTasks, RemainingTasks DEF NewPlan
  <2>4. CASE op.action = "add"
    <3>1. op.task \in TaskNames
      BY <2>4 DEF PlanOps
    <3>2. BeforeAutoRemove(op, tasks) = Add(tasks, op.task)
      BY <2>4 DEF BeforeAutoRemove
    <3>3. [task |-> op.task, status |-> "pending"] \in S
      BY <3>1 DEF PlanTasks, CallersTasks, Statuses
    <3>4. Add(tasks, op.task) \in Seq(S)
      BY <1>1, <3>3 DEF Add
    <3>. QED
      BY <1>3, <3>2, <3>4, RemainingTasks DEF NewPlan
  <2>5. op.action \in {"update", "complete", "start", "add", "fix"}
    BY DEF PlanOps
  <2>. QED
    BY <1>3, <2>1, <2>2, <2>3, <2>4, <2>5
<1>. QED
  BY <1>2, <1>3

-----------------------------------------------------------------------------
(* The scratchpad: a finite set of notes, one of each key, written in any  *)
(* order and read back.                                                    *)

OneOfEachKey(notes) == \A m, n \in notes : m.key = n.key => m = n

NoteSets == {notes \in SUBSET Notes : IsFiniteSet(notes) /\ OneOfEachKey(notes)}

LEMMA NotesAreNotes ==
  ASSUME NEW sections \in Seq(Notes)
  PROVE  NotesOf(sections) \in NoteSets
<1>. DEFINE lasts == {i \in DOMAIN sections :
                        \A k \in DOMAIN sections : k > i => sections[k].key # sections[i].key}
<1>1. NotesOf(sections) = {sections[j] : j \in lasts}
  BY DEF NotesOf
<1>2. Len(sections) \in Nat /\ DOMAIN sections = 1 .. Len(sections)
      /\ \A j \in 1 .. Len(sections) : sections[j] \in Notes
  OBVIOUS
<1>3. IsFiniteSet({sections[j] : j \in lasts})
  <2>1. IsFiniteSet(lasts)
    <3>1. IsFiniteSet(1 .. Len(sections))
      BY <1>2, FS_Interval
    <3>2. lasts \subseteq 1 .. Len(sections)
      BY <1>2
    <3>. QED
      BY <3>1, <3>2, FS_Subset
  <2>2. [j \in lasts |-> sections[j]] \in Surjection(lasts, {sections[j] : j \in lasts})
    BY DEF Surjection, Range
  <2>. QED
    BY <2>1, <2>2, FS_Surjection
<1>4. ASSUME NEW i \in lasts, NEW j \in lasts, sections[i].key = sections[j].key
      PROVE  i = j
  BY <1>2, <1>4
<1>5. OneOfEachKey({sections[j] : j \in lasts})
  BY <1>4 DEF OneOfEachKey
<1>. QED
  BY <1>1, <1>2, <1>3, <1>5 DEF NoteSets

LEMMA NewNotesAreNotes ==
  ASSUME NEW notes \in NoteSets, NEW op \in PadOps
  PROVE  NewNotes(op, notes) \in NoteSets
<1>. DEFINE others == {n \in notes : n.key # op.key}
<1>1. IsFiniteSet(others) /\ others \subseteq Notes
  BY FS_Subset DEF NoteSets
<1>2. OneOfEachKey(others)
  BY DEF NoteSets, OneOfEachKey
<1>3. CASE op.action = "note"
  <2>. DEFINE note == [key |-> op.key, value |-> op.value]
  <2>1. note \in Notes /\ note.key = op.key
    BY <1>3 DEF PadOps, Notes
  <2>2. IsFiniteSet(others \cup {note})
    BY <1>1, FS_AddElement
  <2>. HIDE DEF note
  <2>3. OneOfEachKey(others \cup {note})
    BY <1>2, <2>1 DEF OneOfEachKey
  <2>4. NewNotes(op, notes) = others \cup {note}
    BY <1>3 DEF NewNotes, note
  <2>. QED
    BY <1>1, <2>1, <2>2, <2>3, <2>4 DEF NoteSets
<1>4. CASE op.action = "remove"
  <2>1. NewNotes(op, notes) = others
    BY <1>4 DEF NewNotes
  <2>. QED
    BY <1>1, <1>2, <2>1 DEF NoteSets
<1>5. CASE op.action = "clear"
  <2>1. NewNotes(op, notes) = {}
    BY <1>5 DEF NewNotes
  <2>. QED
    BY <2>1, FS_EmptySet DEF NoteSets, OneOfEachKey
<1>. QED
  BY <1>3, <1>4, <1>5 DEF PadOps

(* Whatever order the notes are written in, they are read back.            *)
LEMMA RenderedNotesAreRead ==
  ASSUME NEW notes \in NoteSets, NEW lines \in SetToSeqs(notes)
  PROVE  /\ lines \in Seq(Notes)
         /\ NotesOf(lines) = notes
<1>. DEFINE size == Cardinality(notes)
<1>1. IsFiniteSet(notes) /\ size \in Nat /\ notes \subseteq Notes /\ OneOfEachKey(notes)
  BY FS_CardinalityType DEF NoteSets
<1>2. lines \in [1 .. size -> notes] /\ \A i, j \in 1 .. size : i # j => lines[i] # lines[j]
  BY DEF SetToSeqs
<1>3. lines \in Seq(Notes) /\ DOMAIN lines = 1 .. size
  BY <1>1, <1>2
<1>4. \A n \in notes : \E j \in 1 .. size : lines[j] = n
  <2>1. IsFiniteSet(1 .. size) /\ Cardinality(1 .. size) = Cardinality(notes)
    BY <1>1, FS_Interval
  <2>2. lines \in Injection(1 .. size, notes)
    BY <1>2 DEF Injection, IsInjective
  <2>3. lines \in Surjection(1 .. size, notes)
    BY <1>1, <2>1, <2>2, FS_Injection
  <2>. QED
    BY <2>3 DEF Surjection, Range
<1>5. \A i \in 1 .. size : \A k \in 1 .. size : k > i => lines[k].key # lines[i].key
  <2>. SUFFICES ASSUME NEW i \in 1 .. size, NEW k \in 1 .. size, k > i
                PROVE  lines[k].key # lines[i].key
    OBVIOUS
  <2>1. lines[k] # lines[i] /\ lines[k] \in notes /\ lines[i] \in notes
    BY <1>1, <1>2
  <2>. QED
    BY <1>1, <2>1 DEF OneOfEachKey
<1>6. NotesOf(lines) = {lines[j] : j \in 1 .. size}
  BY <1>3, <1>5 DEF NotesOf
<1>7. {lines[j] : j \in 1 .. size} = notes
  BY <1>2, <1>4
<1>. QED
  BY <1>3, <1>6, <1>7

-----------------------------------------------------------------------------
(* The files and the calls.                                                *)

LinesFor(file) == IF file = "plan" THEN Seq(PlanTasks) ELSE Seq(Notes)

(* What a call that writes holds is of its file; and a build follows only  *)
(* a plan in which nothing is left.                                        *)
HoldsItsFile(r) ==
  /\ r.next \in LinesFor(r.file)
  /\ r.before \in LinesFor(r.file)
  /\ r.builds => r.file = "plan" /\ r.next = << >>

FilesIInv ==
  /\ plan \in Seq(PlanTasks)
  /\ pad \in Seq(Notes)
  /\ call \in [Callers -> CallRecords \cup {Resting, [at |-> "build"]}]
  /\ \A c \in Callers : Writing(c) => HoldsItsFile(call[c])

LEMMA CallFields ==
  ASSUME NEW r \in CallRecords
  PROVE  /\ r.at \in {"open", "write"} /\ r.file \in {"plan", "pad"}
         /\ r.builds \in BOOLEAN /\ r.alone \in BOOLEAN
         /\ r.next \in Seq(TaskItems \cup Notes) /\ r.before \in Seq(TaskItems \cup Notes)
         /\ r # Resting /\ r # [at |-> "build"]
         /\ r = [at |-> r.at, file |-> r.file, builds |-> r.builds, alone |-> r.alone,
                 next |-> r.next, before |-> r.before]
BY DEF CallRecords, Resting

LEMMA WritersHoldRecords ==
  ASSUME FilesIInv, NEW c \in Callers, Writing(c)
  PROVE  call[c] \in CallRecords
BY DEF FilesIInv, Writing, Resting

LEMMA LinesForFiles ==
  ASSUME NEW file \in {"plan", "pad"}
  PROVE  /\ LinesFor(file) \subseteq Seq(TaskItems \cup Notes)
         /\ << >> \in LinesFor(file)
<1>1. \A t \in PlanTasks : t \in TaskItems \cup Notes
  BY TaskKinds
<1>2. \A s \in Seq(PlanTasks) : s \in Seq(TaskItems \cup Notes)
  BY <1>1
<1>3. \A s \in Seq(Notes) : s \in Seq(TaskItems \cup Notes)
  OBVIOUS
<1>4. << >> \in Seq(PlanTasks) /\ << >> \in Seq(Notes)
  OBVIOUS
<1>. QED
  BY <1>2, <1>3, <1>4 DEF LinesFor

(* Ops: the updates.                                                       *)
LEMMA OpsHaveFiles ==
  ASSUME NEW op \in PlanOps \cup PadOps
  PROVE  /\ op.file \in {"plan", "pad"}
         /\ op.file = "plan" <=> op \in PlanOps
         /\ op.file = "pad" <=> op \in PadOps
BY DEF PlanOps, PadOps

LEMMA LinesOfFiles ==
  ASSUME FilesIInv, NEW file \in {"plan", "pad"}
  PROVE  LinesOf(file) \in LinesFor(file)
BY DEF FilesIInv, LinesOf, LinesFor

(* What a load finds: the file, or nothing.                                *)
LoadedLines(file, loaded) ==
  \E lines \in {LinesOf(file), << >>} : loaded = Read(file, lines)

LEMMA LoadsFindLines ==
  ASSUME NEW file, NEW loaded \in Loaded(file)
  PROVE  LoadedLines(file, loaded)
BY DEF Loaded, LoadedLines

(* What a call is about to write is right for its file.                    *)
LEMMA LinesToWrite ==
  ASSUME FilesIInv, NEW op \in PlanOps \cup PadOps,
         op.action = "fix" => op.build \in FailedBuilds,
         NEW loaded \in Loaded(op.file),
         NEW lines \in Renderings(op, NewContent(op, loaded))
  PROVE  /\ lines \in LinesFor(op.file)
         /\ op.file = "plan" => lines = NewPlan(op, loaded)
<1>1. PICK found \in {LinesOf(op.file), << >>} : loaded = Read(op.file, found)
  BY LoadsFindLines DEF LoadedLines
<1>2. found \in LinesFor(op.file)
  BY <1>1, OpsHaveFiles, LinesOfFiles, LinesForFiles
<1>3. CASE op.file = "plan"
  <2>1. op \in PlanOps /\ lines = NewPlan(op, loaded) /\ loaded = found
    BY <1>1, <1>3, OpsHaveFiles DEF Renderings, NewContent, Read
  <2>2. NewPlan(op, loaded) \in Seq(PlanTasks)
    BY <1>2, <1>3, <2>1, NewPlanTasks DEF LinesFor
  <2>. QED
    BY <1>3, <2>1, <2>2 DEF LinesFor
<1>4. CASE op.file = "pad"
  <2>1. op \in PadOps /\ lines \in SetToSeqs(NewNotes(op, loaded)) /\ loaded = NotesOf(found)
    BY <1>1, <1>4, OpsHaveFiles DEF Renderings, NewContent, Read
  <2>2. loaded \in NoteSets
    BY <1>2, <1>4, <2>1, NotesAreNotes DEF LinesFor
  <2>3. NewNotes(op, loaded) \in NoteSets
    BY <2>1, <2>2, NewNotesAreNotes
  <2>4. lines \in Seq(Notes)
    BY <2>1, <2>3, RenderedNotesAreRead
  <2>. QED
    BY <1>4, <2>4 DEF LinesFor
<1>. QED
  BY <1>3, <1>4, OpsHaveFiles

(* A load, by parts.                                                       *)
Opening(op, lines, builds, alone) ==
  [at |-> "open", file |-> op.file, next |-> lines, before |-> << >>, builds |-> builds,
   alone |-> alone]

Met(r) == [r EXCEPT !.alone = FALSE, !.before = << >>]

Meets(c, file) == {d \in Callers \ {c} : Writing(d) /\ call[d].file = file}

LEMMA OpeningFields ==
  ASSUME NEW op, NEW lines, NEW builds, NEW alone
  PROVE  /\ Opening(op, lines, builds, alone).at = "open"
         /\ Opening(op, lines, builds, alone).file = op.file
         /\ Opening(op, lines, builds, alone).next = lines
         /\ Opening(op, lines, builds, alone).before = << >>
         /\ Opening(op, lines, builds, alone).builds = builds
         /\ Opening(op, lines, builds, alone).alone = alone
         /\ (/\ op.file \in {"plan", "pad"} /\ lines \in Seq(TaskItems \cup Notes)
             /\ builds \in BOOLEAN /\ alone \in BOOLEAN)
              => Opening(op, lines, builds, alone) \in CallRecords
BY DEF Opening, CallRecords

LEMMA MetFields ==
  ASSUME NEW r \in CallRecords
  PROVE  /\ Met(r) \in CallRecords
         /\ Met(r).at = r.at /\ Met(r).file = r.file /\ Met(r).next = r.next
         /\ Met(r).builds = r.builds /\ Met(r).alone = FALSE /\ Met(r).before = << >>
<1>1. << >> \in Seq(TaskItems \cup Notes)
  OBVIOUS
<1>. QED
  BY <1>1, CallFields DEF Met, CallRecords

(* c has loaded for op, and this is what it holds and what others do.      *)
Loads(c, op, loaded, lines) ==
  /\ call'[c] = Opening(op, lines, BuildsAfter(op, loaded), Meets(c, op.file) = {})
  /\ \A d \in Meets(c, op.file) : call'[d] = Met(call[d])
  /\ \A d \in Callers \ (Meets(c, op.file) \cup {c}) : call'[d] = call[d]
  /\ call' = [d \in Callers |-> call'[d]]

LEMMA LoadEffect ==
  ASSUME NEW c \in Callers, NEW op, LoadFor(c, op)
  PROVE  \E loaded \in Loaded(op.file) :
           /\ Applies(op, loaded)
           /\ \E lines \in Renderings(op, NewContent(op, loaded)) : Loads(c, op, loaded, lines)
<1>1. PICK loaded \in Loaded(op.file) :
        /\ Applies(op, loaded)
        /\ \E lines \in Renderings(op, NewContent(op, loaded)) :
             call' = [d \in Callers |->
               IF d = c THEN Opening(op, lines, BuildsAfter(op, loaded), Meets(c, op.file) = {})
               ELSE IF d \in Meets(c, op.file) THEN Met(call[d])
               ELSE call[d]]
  BY DEF LoadFor, Opening, Met, Meets
<1>2. PICK lines \in Renderings(op, NewContent(op, loaded)) :
        call' = [d \in Callers |->
          IF d = c THEN Opening(op, lines, BuildsAfter(op, loaded), Meets(c, op.file) = {})
          ELSE IF d \in Meets(c, op.file) THEN Met(call[d])
          ELSE call[d]]
  BY <1>1
<1>3. c \notin Meets(c, op.file) /\ Meets(c, op.file) \subseteq Callers
  BY DEF Meets
<1>. HIDE DEF LoadFor
<1>4. call'[c] = Opening(op, lines, BuildsAfter(op, loaded), Meets(c, op.file) = {})
  BY <1>2
<1>5. \A d \in Meets(c, op.file) : call'[d] = Met(call[d])
  BY <1>2, <1>3
<1>6. \A d \in Callers \ (Meets(c, op.file) \cup {c}) : call'[d] = call[d]
  BY <1>2
<1>7. call' = [d \in Callers |-> call'[d]]
  BY <1>2
<1>. QED
  BY <1>1, <1>4, <1>5, <1>6, <1>7 DEF Loads

-----------------------------------------------------------------------------
(* Calls that meet no other.                                               *)

(* What it is about to write is an update of what it loaded: of the file,  *)
(* whose lines stay in it until it truncates it, or of nothing.            *)
IsAnUpdate(next, op, lines) ==
  \E read \in {Read(op.file, lines), Read(op.file, << >>)} :
    Applies(op, read) /\ next \in Renderings(op, NewContent(op, read))

KnowsItsUpdate(r, lines) ==
  /\ \E op \in PlanOps \cup PadOps :
       /\ op.file = r.file
       /\ IsAnUpdate(r.next, op, IF r.at = "open" THEN lines ELSE r.before)
  /\ r.at = "write" => lines = << >>

AloneIInv ==
  /\ \A c, d \in Callers :
       (c # d /\ Writing(c) /\ Writing(d) /\ call[c].file = call[d].file) => ~call[c].alone
  /\ \A c \in Callers :
       (Writing(c) /\ call[c].alone) => KnowsItsUpdate(call[c], LinesOf(call[c].file))

SessionIInv == FilesIInv /\ AloneIInv

LEMMA InitSessionIInv == SessionInit => SessionIInv
<1>. SUFFICES ASSUME SessionInit PROVE SessionIInv
  OBVIOUS
<1>1. \A c \in Callers : ~Writing(c)
  BY DEF SessionInit, Writing, Resting
<1>2. FirstPlan \in Seq(PlanTasks)
  BY SessionAssumption, TaskKinds, WiderSequences
<1>3. << >> \in Seq(Notes)
  OBVIOUS
<1>. QED
  BY <1>1, <1>2, <1>3 DEF SessionInit, SessionIInv, FilesIInv, AloneIInv

LEMMA MetHoldsIt ==
  ASSUME NEW r \in CallRecords, HoldsItsFile(r)
  PROVE  HoldsItsFile(Met(r))
BY MetFields, CallFields, LinesForFiles DEF HoldsItsFile

(* A load leaves the files; the calls it meets are no longer alone.        *)
LEMMA LoadKeepsIInv ==
  ASSUME SessionIInv, NEW c \in Callers, ~Writing(c), NEW op \in PlanOps \cup PadOps,
         LoadFor(c, op), UNCHANGED <<plan, pad>>,
         op.action = "fix" => op.build \in FailedBuilds
  PROVE  SessionIInv'
<1>1. FilesIInv /\ AloneIInv
  BY DEF SessionIInv
<1>. DEFINE alone == Meets(c, op.file) = {}
<1>2. PICK loaded \in Loaded(op.file) :
           /\ Applies(op, loaded)
           /\ \E lines \in Renderings(op, NewContent(op, loaded)) : Loads(c, op, loaded, lines)
  BY LoadEffect
<1>3. PICK lines \in Renderings(op, NewContent(op, loaded)) : Loads(c, op, loaded, lines)
  BY <1>2
<1>4. op.file \in {"plan", "pad"} /\ lines \in LinesFor(op.file)
      /\ (op.file = "plan" => lines = NewPlan(op, loaded))
  BY <1>1, OpsHaveFiles, LinesToWrite
<1>5. BuildsAfter(op, loaded) \in BOOLEAN
      /\ (BuildsAfter(op, loaded) => op.file = "plan" /\ lines = << >>)
  BY <1>4 DEF BuildsAfter
<1>. DEFINE r == Opening(op, lines, BuildsAfter(op, loaded), alone)
<1>6. /\ r.at = "open" /\ r.file = op.file /\ r.next = lines /\ r.before = << >>
      /\ r.builds = BuildsAfter(op, loaded) /\ r.alone = alone /\ r \in CallRecords
  <2>1. lines \in Seq(TaskItems \cup Notes)
    BY <1>4, LinesForFiles
  <2>2. alone \in BOOLEAN
    OBVIOUS
  <2>. HIDE DEF alone
  <2>. QED
    BY <1>4, <1>5, <2>1, <2>2, OpeningFields
<1>. HIDE DEF r
<1>7. HoldsItsFile(r)
  BY <1>4, <1>5, <1>6, LinesForFiles DEF HoldsItsFile
<1>8. call'[c] = r
  BY <1>3 DEF r, Loads
<1>. HIDE DEF alone
(* What becomes of each other call. *)
<1>9. ASSUME NEW d \in Callers, d # c
      PROVE  \/ call'[d] = call[d] /\ (Writing(d) => call[d].file # op.file)
             \/ /\ Writing(d) /\ call[d].file = op.file /\ ~alone
                /\ call'[d] = Met(call[d]) /\ call[d] \in CallRecords
  <2>1. CASE d \in Meets(c, op.file)
    BY <1>1, <1>3, <2>1, WritersHoldRecords DEF Meets, alone, Loads
  <2>2. CASE d \notin Meets(c, op.file)
    BY <1>3, <1>9, <2>2 DEF Meets, Loads
  <2>. QED
    BY <2>1, <2>2
<1>10. ASSUME NEW d \in Callers, d # c, Writing(d)'
       PROVE  /\ Writing(d) /\ call[d] \in CallRecords /\ call'[d].file = call[d].file
              /\ call'[d].at = call[d].at /\ call'[d].next = call[d].next
              /\ call'[d] \in CallRecords
              /\ HoldsItsFile(call'[d])
              /\ call'[d].alone => call'[d] = call[d] /\ call[d].file # op.file
              /\ call[d].file = op.file => ~alone
  <2>1. CASE call'[d] = call[d] /\ (Writing(d) => call[d].file # op.file)
    <3>1. Writing(d) /\ call[d] \in CallRecords
      BY <1>1, <1>10, <2>1, WritersHoldRecords DEF Writing
    <3>2. HoldsItsFile(call[d])
      BY <1>1, <3>1 DEF FilesIInv
    <3>. QED
      BY <2>1, <3>1, <3>2
  <2>2. CASE /\ Writing(d) /\ call[d].file = op.file /\ ~alone
             /\ call'[d] = Met(call[d]) /\ call[d] \in CallRecords
    <3>1. HoldsItsFile(call[d])
      BY <1>1, <2>2 DEF FilesIInv
    <3>. QED
      BY <2>2, <3>1, MetFields, MetHoldsIt
  <2>. QED
    BY <1>9, <1>10, <2>1, <2>2
<1>11. FilesIInv'
  <2>1. ASSUME NEW d \in Callers
        PROVE  call'[d] \in CallRecords \cup {Resting, [at |-> "build"]}
    BY <1>1, <1>6, <1>8, <1>9, <2>1, MetFields DEF FilesIInv
  <2>2. call' \in [Callers -> CallRecords \cup {Resting, [at |-> "build"]}]
    BY <1>3, <2>1 DEF Loads
  <2>3. ASSUME NEW d \in Callers, Writing(d)'
        PROVE  HoldsItsFile(call'[d])
    BY <1>7, <1>8, <1>10, <2>3
  <2>. QED
    BY <1>1, <2>2, <2>3 DEF FilesIInv
<1>12. AloneIInv'
  <2>1. ASSUME NEW d \in Callers, NEW e \in Callers, d # e, Writing(d)', Writing(e)',
               call'[d].file = call'[e].file
        PROVE  ~call'[d].alone
    <3>1. CASE d = c
      BY <1>6, <1>8, <1>10, <2>1, <3>1
    <3>2. CASE e = c
      BY <1>6, <1>8, <1>10, <2>1, <3>2
    <3>3. CASE d # c /\ e # c
      BY <1>1, <1>10, <2>1, <3>3 DEF AloneIInv
    <3>. QED
      BY <3>1, <3>2, <3>3
  <2>2. ASSUME NEW d \in Callers, Writing(d)', call'[d].alone
        PROVE  KnowsItsUpdate(call'[d], IF call'[d].file = "plan" THEN plan' ELSE pad')
    <3>1. CASE d = c
      <4>1. KnowsItsUpdate(r, LinesOf(op.file))
        <5>1. \E read \in {Read(op.file, LinesOf(op.file)), Read(op.file, << >>)} :
                Applies(op, read) /\ lines \in Renderings(op, NewContent(op, read))
          BY <1>2, <1>3 DEF Loaded
        <5>. QED
          BY <1>6, <5>1 DEF KnowsItsUpdate, IsAnUpdate
      <4>. QED
        BY <1>6, <1>8, <3>1, <4>1 DEF LinesOf
    <3>2. CASE d # c
      <4>1. Writing(d) /\ call'[d] = call[d]
        BY <1>10, <2>2, <3>2
      <4>2. KnowsItsUpdate(call[d], LinesOf(call[d].file))
        BY <1>1, <2>2, <4>1 DEF AloneIInv
      <4>. QED
        BY <4>1, <4>2 DEF LinesOf
    <3>. QED
      BY <3>1, <3>2
  <2>. QED
    BY <2>1, <2>2 DEF AloneIInv, LinesOf
<1>. QED
  BY <1>11, <1>12 DEF SessionIInv

LEMMA OverwrittenLines ==
  ASSUME NEW S, NEW new \in Seq(S), NEW old \in Seq(S), NEW lines \in Overwritten(new, old)
  PROVE  /\ lines \in Seq(S)
         /\ old = << >> => lines = new
<1>1. PICK rest \in Behind(new, old) : lines = new \o rest
  BY DEF Overwritten
<1>2. rest \in Seq(S) /\ (old = << >> => rest = << >>)
  <2>1. CASE rest = << >>
    BY <2>1
  <2>2. CASE rest # << >>
    <3>1. PICK j \in Len(new) + 1 .. Len(old) : rest = SubSeq(old, j, Len(old))
      BY <1>1, <2>2 DEF Behind
    <3>2. j \in 1 .. Len(old) + 1 /\ Len(old) \in Nat /\ Len(new) \in Nat
      BY <3>1
    <3>3. rest \in Seq(S)
      BY <3>1, <3>2
    <3>4. old # << >>
      BY <3>1, <3>2
    <3>. QED
      BY <3>3, <3>4
  <2>. QED
    BY <2>1, <2>2
<1>3. new \o << >> = new
  OBVIOUS
<1>. QED
  BY <1>1, <1>2, <1>3

(* The lines of a file after a step.                                       *)
NextLinesOf(file) == IF file = "plan" THEN plan' ELSE pad'

LEMMA SetFileEffect ==
  ASSUME NEW file \in {"plan", "pad"}, NEW lines, SetFile(file, lines)
  PROVE  /\ NextLinesOf(file) = lines
         /\ \A g \in {"plan", "pad"} \ {file} : NextLinesOf(g) = LinesOf(g)
BY DEF SetFile, NextLinesOf, LinesOf

(* A step of one call on its own file.                                     *)
LEMMA OneCallKeepsIInv ==
  ASSUME SessionIInv, NEW c \in Callers, Writing(c), NEW r,
         call' = [call EXCEPT ![c] = r],
         NextLinesOf(call[c].file) \in LinesFor(call[c].file),
         \A g \in {"plan", "pad"} \ {call[c].file} : NextLinesOf(g) = LinesOf(g),
         \/ r \in {Resting, [at |-> "build"]}
         \/ /\ r \in CallRecords /\ r.file = call[c].file /\ r.alone = call[c].alone
            /\ HoldsItsFile(r)
            /\ r.alone => KnowsItsUpdate(r, NextLinesOf(call[c].file))
  PROVE  SessionIInv'
<1>1. FilesIInv /\ AloneIInv
  BY DEF SessionIInv
<1>2. call[c] \in CallRecords /\ call[c].file \in {"plan", "pad"}
  BY <1>1, WritersHoldRecords, CallFields
<1>3. call'[c] = r /\ (\A d \in Callers \ {c} : call'[d] = call[d])
  BY <1>1 DEF FilesIInv
<1>4. plan' \in Seq(PlanTasks) /\ pad' \in Seq(Notes)
  <2>1. CASE call[c].file = "plan"
    <3>1. NextLinesOf("pad") = LinesOf("pad")
      BY <2>1
    <3>. QED
      BY <1>1, <2>1, <3>1 DEF FilesIInv, NextLinesOf, LinesFor, LinesOf
  <2>2. CASE call[c].file = "pad"
    <3>1. NextLinesOf("plan") = LinesOf("plan")
      BY <2>2
    <3>. QED
      BY <1>1, <2>2, <3>1 DEF FilesIInv, NextLinesOf, LinesFor, LinesOf
  <2>. QED
    BY <1>2, <2>1, <2>2
<1>5. Writing(c)' => r \in CallRecords
  BY <1>3 DEF Writing, Resting
<1>6. FilesIInv'
  <2>1. call' \in [Callers -> CallRecords \cup {Resting, [at |-> "build"]}]
    BY <1>1 DEF FilesIInv
  <2>2. ASSUME NEW d \in Callers, Writing(d)'
        PROVE  HoldsItsFile(call'[d])
    <3>1. CASE d = c
      BY <1>3, <1>5, <2>2, <3>1 DEF Resting, Writing
    <3>2. CASE d # c
      BY <1>1, <1>3, <2>2, <3>2 DEF FilesIInv, Writing
    <3>. QED
      BY <3>1, <3>2
  <2>. QED
    BY <1>1, <1>4, <2>1, <2>2 DEF FilesIInv
<1>7. AloneIInv'
  <2>1. ASSUME NEW d \in Callers, Writing(d)'
        PROVE  Writing(d) /\ call'[d].file = call[d].file /\ call'[d].alone = call[d].alone
    <3>1. CASE d = c
      BY <1>3, <2>1, <3>1 DEF Resting, Writing
    <3>2. CASE d # c
      BY <1>3, <2>1, <3>2 DEF Writing
    <3>. QED
      BY <3>1, <3>2
  <2>2. ASSUME NEW d \in Callers, Writing(d)', call'[d].alone
        PROVE  KnowsItsUpdate(call'[d], NextLinesOf(call'[d].file))
    <3>1. CASE d = c
      BY <1>3, <2>1, <2>2, <3>1 DEF Resting, Writing
    <3>2. CASE d # c
      <4>1. Writing(d) /\ call'[d] = call[d] /\ call[d].alone
        BY <1>3, <2>1, <2>2, <3>2
      <4>2. call[d].file # call[c].file
        BY <1>1, <3>2, <4>1 DEF AloneIInv
      <4>3. call[d].file \in {"plan", "pad"}
        BY <1>1, <4>1, WritersHoldRecords, CallFields
      <4>4. KnowsItsUpdate(call[d], LinesOf(call[d].file))
        BY <1>1, <4>1 DEF AloneIInv
      <4>. QED
        BY <4>1, <4>2, <4>3, <4>4
    <3>. QED
      BY <3>1, <3>2
  <2>3. ASSUME NEW d \in Callers, NEW e \in Callers, d # e, Writing(d)', Writing(e)',
               call'[d].file = call'[e].file
        PROVE  ~call'[d].alone
    BY <1>1, <2>1, <2>3 DEF AloneIInv
  <2>. QED
    BY <2>2, <2>3 DEF AloneIInv, NextLinesOf, LinesOf
<1>. QED
  BY <1>6, <1>7 DEF SessionIInv

LEMMA OpenedFields ==
  ASSUME NEW c \in Callers, call[c] \in CallRecords, FilesIInv
  PROVE  /\ Opened(c) \in CallRecords
         /\ Opened(c).at = "write" /\ Opened(c).file = call[c].file
         /\ Opened(c).next = call[c].next /\ Opened(c).builds = call[c].builds
         /\ Opened(c).alone = call[c].alone
         /\ Opened(c).before = IF call[c].alone THEN LinesOf(call[c].file) ELSE << >>
<1>. DEFINE r == call[c]
            before == IF r.alone THEN LinesOf(r.file) ELSE << >>
<1>1. r.file \in {"plan", "pad"}
  BY CallFields
<1>2. LinesOf(r.file) \in Seq(TaskItems \cup Notes) /\ << >> \in Seq(TaskItems \cup Notes)
  <2>1. LinesOf(r.file) \in LinesFor(r.file)
    BY <1>1, LinesOfFiles
  <2>. QED
    BY <1>1, <2>1, LinesForFiles DEF FilesIInv
<1>3. before \in Seq(TaskItems \cup Notes)
  BY <1>2
<1>4. r \in CallRecords /\ Opened(c) = [r EXCEPT !.at = "write", !.before = before]
  BY DEF Opened
<1>. HIDE DEF before, r
<1>5. LET g == [r EXCEPT !.at = "write", !.before = before] IN
        /\ g \in CallRecords /\ g.at = "write" /\ g.file = r.file /\ g.next = r.next
        /\ g.builds = r.builds /\ g.alone = r.alone /\ g.before = before
  BY <1>3, <1>4, CallFields DEF CallRecords
<1>. QED
  BY <1>4, <1>5 DEF before, r

LEMMA OpenKeepsIInv ==
  ASSUME SessionIInv, NEW c \in Callers, OpenAndTruncate(c)
  PROVE  SessionIInv'
<1>1. FilesIInv /\ AloneIInv
  BY DEF SessionIInv
<1>2. Writing(c) /\ call[c] \in CallRecords /\ call[c].file \in {"plan", "pad"}
  BY <1>1, WritersHoldRecords, CallFields DEF OpenAndTruncate, Writing
<1>. DEFINE r == Opened(c)
<1>3. /\ r \in CallRecords /\ r.at = "write" /\ r.file = call[c].file
      /\ r.next = call[c].next /\ r.builds = call[c].builds /\ r.alone = call[c].alone
      /\ r.before = IF call[c].alone THEN LinesOf(call[c].file) ELSE << >>
  BY <1>1, <1>2, OpenedFields
<1>4. call' = [call EXCEPT ![c] = r] /\ SetFile(call[c].file, << >>) 
  BY DEF OpenAndTruncate
<1>. HIDE DEF r
<1>5. /\ NextLinesOf(call[c].file) = << >>
      /\ \A g \in {"plan", "pad"} \ {call[c].file} : NextLinesOf(g) = LinesOf(g)
  BY <1>2, <1>4, SetFileEffect
<1>6. << >> \in LinesFor(call[c].file)
      /\ LinesOf(call[c].file) \in LinesFor(call[c].file)
  BY <1>1, <1>2, LinesForFiles, LinesOfFiles DEF FilesIInv
<1>7. HoldsItsFile(r)
  BY <1>1, <1>2, <1>3, <1>6 DEF FilesIInv, HoldsItsFile
<1>8. r.alone => KnowsItsUpdate(r, << >>)
  <2>. SUFFICES ASSUME r.alone PROVE KnowsItsUpdate(r, << >>)
    OBVIOUS
  <2>1. call[c].alone /\ r.before = LinesOf(call[c].file) /\ call[c].at = "open"
    BY <1>3 DEF OpenAndTruncate
  <2>2. KnowsItsUpdate(call[c], LinesOf(call[c].file))
    BY <1>1, <1>2, <2>1 DEF AloneIInv
  <2>. QED
    BY <1>3, <2>1, <2>2 DEF KnowsItsUpdate
<1>. QED
  BY <1>2, <1>3, <1>4, <1>5, <1>6, <1>7, <1>8, OneCallKeepsIInv

(* A write over lines that are right for the file.                         *)
LEMMA WrittenLines ==
  ASSUME FilesIInv, NEW c \in Callers, Writing(c),
         NEW new \in LinesFor(call[c].file),
         NEW lines \in Overwritten(new, LinesOf(call[c].file))
  PROVE  /\ lines \in LinesFor(call[c].file)
         /\ LinesOf(call[c].file) = << >> => lines = new
<1>1. call[c].file \in {"plan", "pad"}
  BY WritersHoldRecords, CallFields
<1>2. LinesOf(call[c].file) \in LinesFor(call[c].file)
  BY <1>1, LinesOfFiles
<1>3. CASE call[c].file = "plan"
  BY <1>2, <1>3, OverwrittenLines DEF LinesFor
<1>4. CASE call[c].file = "pad"
  BY <1>2, <1>4, OverwrittenLines DEF LinesFor
<1>. QED
  BY <1>1, <1>3, <1>4

LEMMA WriteKeepsIInv ==
  ASSUME SessionIInv, NEW c \in Callers, Write(c)
  PROVE  SessionIInv'
<1>1. FilesIInv /\ AloneIInv
  BY DEF SessionIInv
<1>2. Writing(c) /\ call[c] \in CallRecords /\ call[c].file \in {"plan", "pad"}
  BY <1>1, WritersHoldRecords, CallFields DEF Write, Writing
<1>3. call[c].next \in LinesFor(call[c].file)
  BY <1>1, <1>2 DEF FilesIInv, HoldsItsFile
<1>4. PICK lines \in Overwritten(call[c].next, LinesOf(call[c].file)) :
        SetFile(call[c].file, lines)
  BY DEF Write
<1>5. /\ NextLinesOf(call[c].file) = lines
      /\ \A g \in {"plan", "pad"} \ {call[c].file} : NextLinesOf(g) = LinesOf(g)
  BY <1>2, <1>4, SetFileEffect
<1>6. lines \in LinesFor(call[c].file)
  BY <1>1, <1>2, <1>3, WrittenLines
<1>7. /\ call' = [call EXCEPT ![c] = AfterTheWrite(c)] 
      /\ AfterTheWrite(c) \in {Resting, [at |-> "build"]}
  BY DEF Write, AfterTheWrite
<1>. QED
  BY <1>2, <1>5, <1>6, <1>7, OneCallKeepsIInv

LEMMA BeginningOfLines ==
  ASSUME NEW file \in {"plan", "pad"}, NEW lines \in LinesFor(file), NEW j \in 0 .. Len(lines)
  PROVE  SubSeq(lines, 1, j) \in LinesFor(file)
<1>1. CASE file = "plan"
  BY <1>1 DEF LinesFor
<1>2. CASE file = "pad"
  BY <1>2 DEF LinesFor
<1>. QED
  BY <1>1, <1>2

LEMMA WriteFailsKeepsIInv ==
  ASSUME SessionIInv, NEW c \in Callers, WriteFails(c)
  PROVE  SessionIInv'
<1>1. FilesIInv /\ AloneIInv
  BY DEF SessionIInv
<1>2. Writing(c) /\ call[c] \in CallRecords /\ call[c].file \in {"plan", "pad"}
  BY <1>1, WritersHoldRecords, CallFields DEF WriteFails
<1>3. call[c].next \in LinesFor(call[c].file)
  BY <1>1, <1>2 DEF FilesIInv, HoldsItsFile
<1>4. call' = [call EXCEPT ![c] = Resting] 
  BY DEF WriteFails
<1>5. /\ NextLinesOf(call[c].file) \in LinesFor(call[c].file)
      /\ \A g \in {"plan", "pad"} \ {call[c].file} : NextLinesOf(g) = LinesOf(g)
  <2>1. CASE call[c].at = "open"
    <3>1. \A g \in {"plan", "pad"} : NextLinesOf(g) = LinesOf(g)
      BY <2>1 DEF WriteFails, NextLinesOf, LinesOf
    <3>. QED
      BY <1>1, <1>2, <3>1, LinesOfFiles
  <2>2. CASE call[c].at # "open"
    <3>0. PICK j \in 0 .. Len(call[c].next) :
            \E lines \in Overwritten(SubSeq(call[c].next, 1, j), LinesOf(call[c].file)) :
              SetFile(call[c].file, lines)
      BY <2>2 DEF WriteFails
    <3>1. PICK lines \in Overwritten(SubSeq(call[c].next, 1, j), LinesOf(call[c].file)) :
            SetFile(call[c].file, lines)
      BY <3>0
    <3>2. SubSeq(call[c].next, 1, j) \in LinesFor(call[c].file)
      BY <1>1, <1>2, <1>3, BeginningOfLines DEF FilesIInv
    <3>3. lines \in LinesFor(call[c].file)
      BY <1>1, <1>2, <3>2, WrittenLines
    <3>. QED
      BY <1>2, <3>1, <3>3, SetFileEffect
  <2>. QED
    BY <2>1, <2>2
<1>. QED
  BY <1>2, <1>4, <1>5, OneCallKeepsIInv

LEMMA BuildVerdicts ==
  ASSUME NEW build \in Builds, runBuild(build) = "failed"
  PROVE  build \in FailedBuilds
<1>1. build.cancelled \in BOOLEAN
  BY DEF Builds
<1>2. CASE build.cancelled
  BY <1>2, Zenon DEF runBuild
<1>3. CASE ~build.cancelled /\ build.result # "ok"
  BY <1>3 DEF FailedBuilds
<1>4. CASE ~build.cancelled /\ ~ (build.result # "ok")
  BY <1>4, Zenon DEF runBuild
<1>. QED
  BY <1>2, <1>3, <1>4

Fix(build) == [file |-> "plan", action |-> "fix", build |-> build]

LEMMA FixIsAnUpdate ==
  ASSUME NEW build \in Builds
  PROVE  /\ Fix(build) \in PlanOps \cup PadOps
         /\ Fix(build).build = build
BY DEF Fix, PlanOps

(* The end of a build that failed adds a task to the plan that is read     *)
(* then; any other end leaves the files.                                   *)
LEMMA BuildEndsKeepsIInv ==
  ASSUME SessionIInv, NEW c \in Callers, BuildEnds(c)
  PROVE  SessionIInv'
<1>1. FilesIInv /\ AloneIInv
  BY DEF SessionIInv
<1>2. ~Writing(c) /\ UNCHANGED <<plan, pad>>
  BY DEF BuildEnds, Writing
<1>3. PICK build \in Builds :
        IF runBuild(build) = "failed" THEN LoadFor(c, Fix(build))
                                      ELSE call' = [call EXCEPT ![c] = Resting]
  BY DEF BuildEnds, Fix
<1>4. CASE runBuild(build) = "failed"
  BY <1>2, <1>3, <1>4, BuildVerdicts, FixIsAnUpdate, LoadKeepsIInv
<1>5. CASE runBuild(build) # "failed"
  <2>1. call' = [call EXCEPT ![c] = Resting]
    BY <1>3, <1>5
  <2>2. call'[c] = Resting /\ \A d \in Callers \ {c} : call'[d] = call[d]
    BY <1>1, <2>1 DEF FilesIInv
  <2>3. ASSUME NEW d \in Callers, Writing(d)'
        PROVE  Writing(d) /\ call'[d] = call[d] /\ call[d] \in CallRecords
    BY <1>1, <2>2, <2>3, WritersHoldRecords DEF Writing, Resting
  <2>4. call' \in [Callers -> CallRecords \cup {Resting, [at |-> "build"]}]
    BY <1>1, <2>1 DEF FilesIInv
  <2>5. ASSUME NEW d \in Callers, Writing(d)'
        PROVE  HoldsItsFile(call'[d])
    BY <1>1, <2>3, <2>5 DEF FilesIInv
  <2>6. FilesIInv'
    BY <1>1, <1>2, <2>4, <2>5 DEF FilesIInv
  <2>7. ASSUME NEW d \in Callers, NEW e \in Callers, d # e, Writing(d)', Writing(e)',
               call'[d].file = call'[e].file
        PROVE  ~call'[d].alone
    BY <1>1, <2>3, <2>7 DEF AloneIInv
  <2>8. ASSUME NEW d \in Callers, Writing(d)', call'[d].alone
        PROVE  KnowsItsUpdate(call'[d], IF call'[d].file = "plan" THEN plan' ELSE pad')
    <3>1. Writing(d) /\ call'[d] = call[d]
      BY <2>3, <2>8
    <3>2. KnowsItsUpdate(call[d], LinesOf(call[d].file))
      BY <1>1, <2>8, <3>1 DEF AloneIInv
    <3>. QED
      BY <1>2, <3>1, <3>2 DEF LinesOf
  <2>. QED
    BY <2>6, <2>7, <2>8 DEF SessionIInv, AloneIInv, LinesOf
<1>. QED
  BY <1>4, <1>5

LEMMA EndProcessKeepsIInv ==
  ASSUME SessionIInv, EndProcess
  PROVE  SessionIInv'
<1>1. \A c \in Callers : ~Writing(c)'
  BY DEF EndProcess, Writing, Resting
<1>2. call' \in [Callers -> CallRecords \cup {Resting, [at |-> "build"]}]
      /\ UNCHANGED <<plan, pad>>
  BY DEF EndProcess
<1>3. FilesIInv'
  BY <1>1, <1>2 DEF SessionIInv, FilesIInv
<1>. QED
  BY <1>1, <1>3 DEF SessionIInv, AloneIInv

LEMMA NobodyCallsKeepsIInv ==
  ASSUME SessionIInv, UNCHANGED sessionVars
  PROVE  SessionIInv'
BY DEF SessionIInv, FilesIInv, AloneIInv, sessionVars, Writing, LinesOf

LEMMA LoadStepKeepsIInv ==
  ASSUME SessionIInv, NEW c \in Callers, NEW op \in PlanOps \cup PadOps, Load(c, op)
  PROVE  SessionIInv'
<1>1. ~Writing(c) /\ LoadFor(c, op) /\ op.action # "fix" /\ UNCHANGED <<plan, pad>>
  BY DEF Load, Writing, Resting
<1>. QED
  BY <1>1, LoadKeepsIInv

LEMMA StepSessionIInv == SessionIInv /\ [SessionNext]_sessionVars => SessionIInv'
<1>. SUFFICES ASSUME SessionIInv, [SessionNext]_sessionVars PROVE SessionIInv'
  OBVIOUS
<1>1. CASE \E c \in Callers : CallStep(c)
  <2>1. PICK c \in Callers : CallStep(c)
    BY <1>1
  <2>2. \/ \E op \in PlanOps \cup PadOps : Load(c, op)
        \/ OpenAndTruncate(c) \/ Write(c) \/ WriteFails(c) \/ BuildEnds(c)
    BY <2>1 DEF CallStep
  <2>. QED
    BY <2>2, LoadStepKeepsIInv, OpenKeepsIInv, WriteKeepsIInv, WriteFailsKeepsIInv,
       BuildEndsKeepsIInv
<1>2. CASE EndProcess
  BY <1>2, EndProcessKeepsIInv
<1>3. CASE UNCHANGED sessionVars
  BY <1>3, NobodyCallsKeepsIInv
<1>. QED
  BY <1>1, <1>2, <1>3 DEF SessionNext

THEOREM SessionIsInvariant == SessionSpec => []SessionIInv
BY InitSessionIInv, StepSessionIInv, PTL DEF SessionSpec

-----------------------------------------------------------------------------
(* What the runs check, for any constants.                                 *)

(* The files hold lines of their own kind whatever overlaps, and a build   *)
(* follows only a plan in which nothing is left (task_plan.go, runTaskPlan *)
(* and autoRemoveCompleted; scratchpad.go).                                *)
THEOREM SessionTypeCorrect == SessionSpec => []SessionTypeOK
<1>1. SessionIInv => SessionTypeOK
  <2>. SUFFICES ASSUME SessionIInv PROVE SessionTypeOK
    OBVIOUS
  <2>1. plan \in Seq(TaskItems)
    BY TaskKinds, WiderSequences DEF SessionIInv, FilesIInv
  <2>. QED
    BY <2>1 DEF SessionIInv, FilesIInv, SessionTypeOK, HoldsItsFile
<1>. QED
  BY <1>1, SessionIsInvariant, PTL

(* "A stopped build has decided nothing about the code" (task_plan.go,     *)
(* BuildResult): the plan never asks to fix a build that passed or was     *)
(* stopped, whatever calls overlap, wherever a write stops and whatever    *)
(* reads fail.                                                             *)
THEOREM FixTasksAlwaysDescribeFailures == SessionSpec => []FixTasksDescribeFailures
<1>1. SessionIInv => FixTasksDescribeFailures
  <2>. SUFFICES ASSUME SessionIInv, NEW j \in DOMAIN plan, plan[j].task = FixBuildError
                PROVE  plan[j].describes \in FailedBuilds
    BY DEF FixTasksDescribeFailures, FailedBuilds
  <2>1. plan[j] \in PlanTasks
    BY DEF SessionIInv, FilesIInv
  <2>2. plan[j] \notin CallersTasks
    BY SessionAssumption DEF CallersTasks
  <2>. QED
    BY <2>1, <2>2 DEF PlanTasks
<1>. QED
  BY <1>1, SessionIsInvariant, PTL

-----------------------------------------------------------------------------
(* A call that meets no other is atomic.                                   *)

FileNames == {"plan", "pad"}

(* WritersOf, Says and Disturbed, of any calls and lines.                  *)
Writers(calls, file) ==
  {c \in Callers : calls[c].at \in {"open", "write"} /\ calls[c].file = file}

TruncatedBy(calls, file) == {c \in Writers(calls, file) : calls[c].at = "write" /\ calls[c].alone}

SaysOf(calls, lines, file) ==
  Read(file, IF TruncatedBy(calls, file) = {} THEN lines
             ELSE calls[CHOOSE c \in TruncatedBy(calls, file) : TRUE].before)

IsDisturbed(calls, file) == \E c \in Writers(calls, file) : ~calls[c].alone

LEMMA SaysNowAndNext ==
  ASSUME NEW f \in FileNames
  PROVE  /\ Says(f) = SaysOf(call, LinesOf(f), f)
         /\ Says(f)' = SaysOf(call', NextLinesOf(f), f)
         /\ f \in Disturbed <=> IsDisturbed(call, f)
         /\ f \in Disturbed' <=> IsDisturbed(call', f)
<1>1. Says(f) = SaysOf(call, LinesOf(f), f)
  BY DEF Says, SaysOf, TruncatedBy, WritersOf, Writers, Writing
<1>2. Says(f)' = SaysOf(call', NextLinesOf(f), f)
  BY DEF Says, SaysOf, TruncatedBy, WritersOf, Writers, Writing, LinesOf, NextLinesOf, Read, NotesOf
<1>3. f \in Disturbed <=> IsDisturbed(call, f)
  BY DEF Disturbed, IsDisturbed, WritersOf, Writers, Writing, FileNames
<1>4. f \in Disturbed' <=> IsDisturbed(call', f)
  BY DEF Disturbed, IsDisturbed, WritersOf, Writers, Writing, FileNames
<1>. QED
  BY <1>1, <1>2, <1>3, <1>4

LEMMA SaysWhileAlone ==
  ASSUME NEW calls, NEW lines, NEW f, NEW c, Writers(calls, f) = {c}, calls[c].alone
  PROVE  /\ ~IsDisturbed(calls, f)
         /\ calls[c].at = "open" => SaysOf(calls, lines, f) = Read(f, lines)
         /\ calls[c].at = "write" => SaysOf(calls, lines, f) = Read(f, calls[c].before)
<1>1. ~IsDisturbed(calls, f)
  BY DEF IsDisturbed
<1>2. calls[c].at = "open" => TruncatedBy(calls, f) = {}
  BY DEF TruncatedBy
<1>3. calls[c].at = "write" => TruncatedBy(calls, f) = {c}
  BY DEF TruncatedBy
<1>4. (CHOOSE d \in {c} : TRUE) = c
  OBVIOUS
<1>. QED
  BY <1>1, <1>2, <1>3, <1>4 DEF SaysOf

LEMMA SaysWithNoWriter ==
  ASSUME NEW calls, NEW lines, NEW f, Writers(calls, f) = {}
  PROVE  ~IsDisturbed(calls, f) /\ SaysOf(calls, lines, f) = Read(f, lines)
BY DEF IsDisturbed, SaysOf, TruncatedBy

LEMMA SaysTheSame ==
  ASSUME NEW calls, NEW next, NEW lines, NEW f,
         \A d \in Callers : d \in Writers(calls, f) \cup Writers(next, f) => next[d] = calls[d]
  PROVE  /\ SaysOf(next, lines, f) = SaysOf(calls, lines, f)
         /\ IsDisturbed(next, f) <=> IsDisturbed(calls, f)
<1>1. Writers(next, f) = Writers(calls, f)
  BY DEF Writers
<1>2. \A d \in Writers(calls, f) : next[d] = calls[d]
  BY DEF Writers
<1>3. TruncatedBy(next, f) = TruncatedBy(calls, f)
  BY <1>1, <1>2 DEF TruncatedBy
<1>4. TruncatedBy(calls, f) # {} =>
        (CHOOSE d \in TruncatedBy(calls, f) : TRUE) \in Writers(calls, f)
  BY DEF TruncatedBy
<1>. QED
  BY <1>1, <1>2, <1>3, <1>4 DEF SaysOf, IsDisturbed

(* The steps of the abstract specification.                                *)
Stays(f) == Says(f)' = Says(f) /\ (f \in Disturbed' <=> f \in Disturbed)

LEMMA DisturbedFiles == Disturbed \subseteq FileNames /\ Disturbed' \subseteq FileNames
BY DEF Disturbed, FileNames

LEMMA StutterStep ==
  ASSUME \A f \in FileNames : Stays(f)
  PROVE  UNCHANGED Atomic!fileVars
<1>1. Disturbed' = Disturbed
  BY DisturbedFiles DEF Stays
<1>2. \A f \in FileNames : Says(f)' = Says(f)
  BY DEF Stays
<1>3. [f \in FileNames |-> Says(f)]' = [f \in FileNames |-> Says(f)]
  BY <1>2 DEF FileNames
<1>. QED
  BY <1>1, <1>3 DEF Atomic!fileVars, FileNames

LEMMA OverlapStep ==
  ASSUME NEW f \in FileNames, f \in Disturbed \/ f \in Disturbed',
         \A g \in FileNames \ {f} : Stays(g)
  PROVE  Atomic!Overlap(f)
<1>1. \/ f \in Disturbed' /\ Disturbed' = Disturbed \cup {f}
      \/ f \notin Disturbed' /\ Disturbed' = Disturbed \ {f}
  BY DisturbedFiles DEF Stays
<1>2. \A g \in FileNames \ {f} : Says(g)' = Says(g)
  BY DEF Stays
<1>3. \A g \in FileNames \ {f} : [h \in FileNames |-> Says(h)]'[g] = [h \in FileNames |-> Says(h)][g]
  BY <1>2 DEF FileNames
<1>. QED
  BY <1>1, <1>3 DEF Atomic!Overlap, FileNames

(* What an update of a file may find: what the file says, or nothing.      *)
Found(f) == {Says(f), Read(f, << >>)}

LEMMA EmptyFiles ==
  ASSUME NEW f \in FileNames
  PROVE  [plan |-> << >>, pad |-> {}][f] = Read(f, << >>)
<1>1. CASE f = "plan"
  BY <1>1 DEF Read
<1>2. CASE f = "pad"
  BY <1>2 DEF Read, NotesOf
<1>. QED
  BY <1>1, <1>2 DEF FileNames

LEMMA FoundFiles ==
  ASSUME NEW f \in FileNames
  PROVE  Atomic!Readings(f) = Found(f)
<1>1. [g \in {"plan", "pad"} |-> Says(g)][f] = Says(f)
  BY DEF FileNames
<1>. QED
  BY <1>1, EmptyFiles DEF Atomic!Readings, Found

LEMMA UpdateStep ==
  ASSUME NEW op \in PlanOps \cup PadOps, op.file \notin Disturbed, op.file \notin Disturbed',
         \A g \in FileNames \ {op.file} : Stays(g),
         NEW read \in Found(op.file), Applies(op, read),
         Says(op.file)' = NewContent(op, read)
  PROVE  Atomic!Update(op)
<1>. DEFINE content == [f \in FileNames |-> Says(f)]
<1>1. content' = [f \in FileNames |-> Says(f)'] /\ op.file \in FileNames
  BY OpsHaveFiles DEF FileNames
<1>2. [content EXCEPT ![op.file] = NewContent(op, read)] = content'
  BY <1>1 DEF Stays
<1>3. Disturbed' = Disturbed
  BY DisturbedFiles DEF Stays
<1>4. read \in Atomic!Readings(op.file)
  BY <1>1, FoundFiles
<1>. QED
  BY <1>1, <1>2, <1>3, <1>4 DEF Atomic!Update, OpFile, FileNames

LEMMA CutShortStep ==
  ASSUME NEW op \in PlanOps \cup PadOps, op.file \notin Disturbed, op.file \notin Disturbed',
         \A g \in FileNames \ {op.file} : Stays(g),
         NEW read \in Found(op.file), Applies(op, read),
         Says(op.file)' \in WrittenSoFar(op, read)
  PROVE  Atomic!CutShort(op)
<1>. DEFINE content == [f \in FileNames |-> Says(f)]
<1>1. content' = [f \in FileNames |-> Says(f)'] /\ op.file \in FileNames
  BY OpsHaveFiles DEF FileNames
<1>2. [content EXCEPT ![op.file] = Says(op.file)'] = content'
  BY <1>1 DEF Stays
<1>3. Disturbed' = Disturbed
  BY DisturbedFiles DEF Stays
<1>4. read \in Atomic!Readings(op.file)
  BY <1>1, FoundFiles
<1>. QED
  BY <1>1, <1>2, <1>3, <1>4 DEF Atomic!CutShort, OpFile, FileNames

LEMMA EndStep ==
  ASSUME Disturbed' = {},
         \A f \in FileNames \ Disturbed :
           Says(f)' \in {Says(f), Read(f, << >>)}
  PROVE  Atomic!EndOfTheProcess
<1>1. \A f \in FileNames \ Disturbed :
        [h \in FileNames |-> Says(h)]'[f] \in
          {[h \in FileNames |-> Says(h)][f], [plan |-> << >>, pad |-> {}][f]}
  <2>. SUFFICES ASSUME NEW f \in FileNames \ Disturbed
                PROVE  [h \in FileNames |-> Says(h)]'[f] \in
                  {[h \in FileNames |-> Says(h)][f], [plan |-> << >>, pad |-> {}][f]}
    OBVIOUS
  <2>1. [h \in FileNames |-> Says(h)]'[f] = Says(f)' /\ [h \in FileNames |-> Says(h)][f] = Says(f)
    BY DEF FileNames
  <2>. QED
    BY <2>1, EmptyFiles
<1>. QED
  BY <1>1 DEF Atomic!EndOfTheProcess, FileNames

(* A file whose lines and writers stay as they are says what it said.      *)
LEMMA FilesLeftAlone ==
  ASSUME NEW f \in FileNames, NextLinesOf(f) = LinesOf(f),
         \A d \in Callers : d \in Writers(call, f) \cup Writers(call', f) => call'[d] = call[d]
  PROVE  Stays(f)
<1>1. /\ SaysOf(call', LinesOf(f), f) = SaysOf(call, LinesOf(f), f)
      /\ IsDisturbed(call', f) <=> IsDisturbed(call, f)
  BY SaysTheSame
<1>. QED
  BY <1>1, SaysNowAndNext DEF Stays

LEMMA TheOnlyWriter ==
  ASSUME SessionIInv, NEW c \in Callers, Writing(c), call[c].alone
  PROVE  /\ Writers(call, call[c].file) = {c} /\ call[c].file \in FileNames
         /\ call[c].file \notin Disturbed
         /\ call[c].at = "open" => Says(call[c].file) = Read(call[c].file, LinesOf(call[c].file))
         /\ call[c].at = "write" => Says(call[c].file) = Read(call[c].file, call[c].before)
<1>1. Writers(call, call[c].file) = {c}
  BY DEF SessionIInv, AloneIInv, Writers, Writing
<1>2. call[c].file \in FileNames
  BY WritersHoldRecords, CallFields DEF SessionIInv, FileNames
<1>. QED
  BY <1>1, <1>2, SaysWhileAlone, SaysNowAndNext

(* A load that meets no other call changes nothing.                        *)
LEMMA LoadRefines ==
  ASSUME SessionIInv, NEW c \in Callers, ~Writing(c), NEW op \in PlanOps \cup PadOps,
         LoadFor(c, op), UNCHANGED <<plan, pad>>
  PROVE  [Atomic!FilesNext]_(Atomic!fileVars)
<1>. DEFINE F == op.file
            alone == Meets(c, F) = {}
<1>0. PICK loaded \in Loaded(op.file) :
           \E lines \in Renderings(op, NewContent(op, loaded)) : Loads(c, op, loaded, lines)
  BY LoadEffect
<1>1. PICK lines \in Renderings(op, NewContent(op, loaded)) :
           /\ call'[c] = Opening(op, lines, BuildsAfter(op, loaded), alone)
           /\ \A d \in Meets(c, F) : call'[d] = Met(call[d])
           /\ \A d \in Callers \ (Meets(c, F) \cup {c}) : call'[d] = call[d]
  BY <1>0 DEF Loads
<1>2. F \in FileNames /\ \A g \in FileNames : NextLinesOf(g) = LinesOf(g)
  BY OpsHaveFiles DEF FileNames, NextLinesOf, LinesOf
<1>3. call'[c].at = "open" /\ call'[c].file = F /\ call'[c].alone = alone
  BY <1>1, OpeningFields
<1>4. \A d \in Meets(c, F) : call'[d].file = F /\ call[d].file = F
  BY <1>1, MetFields, WritersHoldRecords DEF Meets, SessionIInv
<1>5. \A g \in FileNames \ {F} : Stays(g)
  <2>. SUFFICES ASSUME NEW g \in FileNames \ {F} PROVE Stays(g)
    OBVIOUS
  <2>1. \A d \in Callers : d \in Writers(call, g) \cup Writers(call', g) => call'[d] = call[d]
    BY <1>1, <1>3, <1>4 DEF Writers, Writing
  <2>. QED
    BY <1>2, <2>1, FilesLeftAlone
<1>6. CASE alone
  <2>1. Writers(call, F) = {}
    BY <1>6 DEF Meets, Writers, Writing
  <2>2. Writers(call', F) = {c}
    BY <1>1, <1>3, <1>6 DEF Meets, Writers, Writing
  <2>3. call'[c].alone
    BY <1>3, <1>6
  <2>4. /\ ~IsDisturbed(call, F) /\ SaysOf(call, LinesOf(F), F) = Read(F, LinesOf(F))
        /\ ~IsDisturbed(call', F) /\ SaysOf(call', LinesOf(F), F) = Read(F, LinesOf(F))
    BY <1>3, <2>1, <2>2, <2>3, SaysWithNoWriter, SaysWhileAlone
  <2>5. Stays(F)
    BY <1>2, <2>4, SaysNowAndNext DEF Stays
  <2>. QED
    BY <1>5, <2>5, StutterStep
<1>7. CASE ~alone
  <2>1. IsDisturbed(call', F)
    BY <1>3, <1>7 DEF IsDisturbed, Writers
  <2>2. Atomic!Overlap(F)
    BY <1>2, <1>5, <2>1, SaysNowAndNext, OverlapStep
  <2>. QED
    BY <1>2, <2>2 DEF Atomic!FilesNext, FileNames
<1>. QED
  BY <1>6, <1>7

(* The other files during a step of one call on its own file.              *)
LEMMA OthersStay ==
  ASSUME FilesIInv, NEW c \in Callers, Writing(c), NEW r, call' = [call EXCEPT ![c] = r],
         \/ r \in {Resting, [at |-> "build"]}
         \/ r.file = call[c].file,
         \A g \in FileNames \ {call[c].file} : NextLinesOf(g) = LinesOf(g)
  PROVE  \A g \in FileNames \ {call[c].file} : Stays(g)
<1>. SUFFICES ASSUME NEW g \in FileNames \ {call[c].file} PROVE Stays(g)
  OBVIOUS
<1>1. call'[c] = r /\ \A d \in Callers \ {c} : call'[d] = call[d]
  BY DEF FilesIInv
<1>2. c \notin Writers(call, g) /\ c \notin Writers(call', g)
  BY <1>1 DEF Writers, Resting
<1>. QED
  BY <1>1, <1>2, FilesLeftAlone

(* A call that has met another may do anything to their file.              *)
LEMMA OverlappingCalls ==
  ASSUME NEW c \in Callers, Writing(c), ~call[c].alone, call[c].file \in FileNames,
         \A g \in FileNames \ {call[c].file} : Stays(g)
  PROVE  [Atomic!FilesNext]_(Atomic!fileVars)
<1>1. IsDisturbed(call, call[c].file)
  BY DEF IsDisturbed, Writers, Writing
<1>2. \E f \in FileNames : Atomic!Overlap(f)
  BY <1>1, SaysNowAndNext, OverlapStep
<1>. QED
  BY <1>2 DEF Atomic!FilesNext, FileNames

LEMMA OpenRefines ==
  ASSUME SessionIInv, NEW c \in Callers, OpenAndTruncate(c)
  PROVE  [Atomic!FilesNext]_(Atomic!fileVars)
<1>. DEFINE F == call[c].file
<1>1. /\ Writing(c) /\ call[c] \in CallRecords /\ F \in FileNames /\ FilesIInv
      /\ call[c].at = "open"
  BY WritersHoldRecords, CallFields DEF OpenAndTruncate, Writing, SessionIInv, FileNames
<1>2. call' = [call EXCEPT ![c] = Opened(c)] /\ SetFile(F, << >>)
  BY DEF OpenAndTruncate
<1>3. \A g \in FileNames \ {F} : NextLinesOf(g) = LinesOf(g)
  BY <1>1, <1>2, SetFileEffect DEF FileNames
<1>4. Opened(c).file = F /\ Opened(c).at = "write" /\ Opened(c).alone = call[c].alone
      /\ (call[c].alone => Opened(c).before = LinesOf(F))
  BY <1>1, OpenedFields
<1>5. \A g \in FileNames \ {F} : Stays(g)
  BY <1>1, <1>2, <1>3, <1>4, OthersStay
<1>6. CASE ~call[c].alone
  BY <1>1, <1>5, <1>6, OverlappingCalls
<1>7. CASE call[c].alone
  <2>1. /\ Writers(call, F) = {c} /\ F \notin Disturbed
        /\ Says(F) = Read(F, LinesOf(F))
    BY <1>1, <1>7, TheOnlyWriter
  <2>2. call'[c] = Opened(c) /\ \A d \in Callers \ {c} : call'[d] = call[d]
    BY <1>1, <1>2 DEF FilesIInv
  <2>3. Writers(call', F) = {c}
    BY <1>4, <2>1, <2>2 DEF Writers
  <2>4. call'[c].alone /\ call'[c].at = "write" /\ call'[c].before = LinesOf(F)
    BY <1>4, <1>7, <2>2
  <2>5. ~IsDisturbed(call', F) /\ SaysOf(call', NextLinesOf(F), F) = Read(F, LinesOf(F))
    BY <2>3, <2>4, SaysWhileAlone
  <2>6. \A f \in FileNames : f = F => Stays(f)
    BY <1>1, <2>1, <2>5, SaysNowAndNext DEF Stays
  <2>. QED
    BY <1>5, <2>6, StutterStep
<1>. QED
  BY <1>6, <1>7

(* What it writes is an update of what its file says, or of nothing.       *)
Writes(c, op, read) ==
  /\ op.file = call[c].file
  /\ read \in Found(op.file)
  /\ Applies(op, read)
  /\ Read(op.file, call[c].next) = NewContent(op, read)
  /\ \A j \in 0 .. Len(call[c].next) :
       Read(op.file, SubSeq(call[c].next, 1, j)) \in WrittenSoFar(op, read)

LEMMA WritesItsUpdate ==
  ASSUME SessionIInv, NEW c \in Callers, call[c].at = "write", call[c].alone
  PROVE  /\ LinesOf(call[c].file) = << >>
         /\ \E op \in PlanOps \cup PadOps : \E read \in Found(op.file) : Writes(c, op, read)
<1>. DEFINE F == call[c].file
            next == call[c].next
            before == call[c].before
<1>1. Writing(c) /\ FilesIInv
  BY DEF Writing, SessionIInv
<1>2. KnowsItsUpdate(call[c], LinesOf(F))
  BY <1>1 DEF SessionIInv, AloneIInv
<1>3. PICK op \in PlanOps \cup PadOps : op.file = F /\ IsAnUpdate(next, op, before)
  BY <1>2 DEF KnowsItsUpdate
<1>4. LinesOf(F) = << >> /\ Says(F) = Read(F, before) /\ F \in FileNames
  BY <1>1, <1>2, TheOnlyWriter DEF KnowsItsUpdate
<1>5. PICK read \in {Read(F, before), Read(F, << >>)} :
        Applies(op, read) /\ next \in Renderings(op, NewContent(op, read))
  BY <1>3 DEF IsAnUpdate
<1>6. read \in Found(op.file)
  BY <1>3, <1>4, <1>5 DEF Found
<1>7. CASE F = "plan"
  <2>1. next = NewContent(op, read)
    BY <1>3, <1>5, <1>7 DEF Renderings
  <2>2. \A j \in 0 .. Len(next) : SubSeq(next, 1, j) \in Prefixes(next)
    BY DEF Prefixes
  <2>3. Read(op.file, next) = NewContent(op, read)
    BY <1>3, <1>7, <2>1 DEF Read
  <2>4. \A j \in 0 .. Len(next) : Read(op.file, SubSeq(next, 1, j)) \in WrittenSoFar(op, read)
    BY <1>3, <1>7, <2>1, <2>2 DEF Read, WrittenSoFar
  <2>5. Writes(c, op, read)
    BY <1>3, <1>5, <1>6, <2>3, <2>4 DEF Writes
  <2>. QED
    BY <1>4, <1>6, <2>5
<1>8. CASE F = "pad"
  <2>1. before \in Seq(Notes) /\ << >> \in Seq(Notes)
    BY <1>1, <1>8 DEF FilesIInv, HoldsItsFile, LinesFor
  <2>2. \E lines \in Seq(Notes) : read = NotesOf(lines)
    BY <1>5, <1>8, <2>1 DEF Read
  <2>3. read \in NoteSets
    BY <2>2, NotesAreNotes
  <2>4. op \in PadOps
    BY <1>3, <1>8, OpsHaveFiles
  <2>5. NewNotes(op, read) \in NoteSets /\ NewContent(op, read) = NewNotes(op, read)
    BY <1>3, <1>8, <2>3, <2>4, NewNotesAreNotes DEF NewContent
  <2>6. next \in SetToSeqs(NewNotes(op, read))
    BY <1>3, <1>5, <1>8, <2>5 DEF Renderings
  <2>7. NotesOf(next) = NewNotes(op, read) /\ next \in Seq(Notes)
    BY <2>5, <2>6, RenderedNotesAreRead
  <2>8. ASSUME NEW j \in 0 .. Len(next)
        PROVE  NotesOf(SubSeq(next, 1, j)) \subseteq NewNotes(op, read)
    <3>1. \A i \in DOMAIN next : next[i] \in NewNotes(op, read)
      BY <2>6 DEF SetToSeqs
    <3>2. \A i \in DOMAIN SubSeq(next, 1, j) :
            i \in DOMAIN next /\ SubSeq(next, 1, j)[i] = next[i]
      BY <2>7
    <3>. QED
      BY <3>1, <3>2 DEF NotesOf
  <2>9. Read(op.file, next) = NewContent(op, read)
    BY <1>3, <1>8, <2>5, <2>7 DEF Read
  <2>10. \A j \in 0 .. Len(next) : Read(op.file, SubSeq(next, 1, j)) \in WrittenSoFar(op, read)
    BY <1>3, <1>8, <2>5, <2>8 DEF Read, WrittenSoFar
  <2>11. Writes(c, op, read)
    BY <1>3, <1>5, <1>6, <2>9, <2>10 DEF Writes
  <2>. QED
    BY <1>4, <1>6, <2>11
<1>. QED
  BY <1>4, <1>7, <1>8 DEF FileNames

(* The only writer of a file ends its call.                                *)
LEMMA TheOnlyWriterEnds ==
  ASSUME SessionIInv, NEW c \in Callers, Writing(c), call[c].alone,
         NEW r \in {Resting, [at |-> "build"]}, call' = [call EXCEPT ![c] = r]
  PROVE  \A f \in FileNames : f = call[c].file =>
           /\ f \notin Disturbed /\ f \notin Disturbed'
           /\ Says(f)' = Read(f, NextLinesOf(f))
<1>1. Writers(call, call[c].file) = {c} /\ call[c].file \notin Disturbed
  BY TheOnlyWriter
<1>2. call'[c] = r /\ \A d \in Callers \ {c} : call'[d] = call[d]
  BY DEF SessionIInv, FilesIInv
<1>3. Writers(call', call[c].file) = {}
  BY <1>1, <1>2 DEF Writers, Resting
<1>. QED
  BY <1>1, <1>3, SaysWithNoWriter, SaysNowAndNext

LEMMA WriteRefines ==
  ASSUME SessionIInv, NEW c \in Callers, Write(c)
  PROVE  [Atomic!FilesNext]_(Atomic!fileVars)
<1>. DEFINE F == call[c].file
<1>1. /\ Writing(c) /\ call[c] \in CallRecords /\ F \in FileNames /\ FilesIInv
      /\ call[c].at = "write"
  BY WritersHoldRecords, CallFields DEF Write, Writing, SessionIInv, FileNames
<1>2. PICK lines \in Overwritten(call[c].next, LinesOf(F)) : SetFile(F, lines)
  BY DEF Write
<1>3. /\ call' = [call EXCEPT ![c] = AfterTheWrite(c)]
      /\ AfterTheWrite(c) \in {Resting, [at |-> "build"]}
  BY DEF Write, AfterTheWrite
<1>4. NextLinesOf(F) = lines /\ \A g \in FileNames \ {F} : NextLinesOf(g) = LinesOf(g)
  BY <1>1, <1>2, SetFileEffect DEF FileNames
<1>5. \A g \in FileNames \ {F} : Stays(g)
  BY <1>1, <1>3, <1>4, OthersStay
<1>6. CASE ~call[c].alone
  BY <1>1, <1>5, <1>6, OverlappingCalls
<1>7. CASE call[c].alone
  <2>0. PICK op \in PlanOps \cup PadOps : \E read \in Found(op.file) : Writes(c, op, read)
    BY <1>1, <1>7, WritesItsUpdate
  <2>1. PICK read \in Found(op.file) :
          op.file = F /\ Applies(op, read) /\ Read(op.file, call[c].next) = NewContent(op, read)
    BY <2>0 DEF Writes
  <2>2. lines = call[c].next
    <3>1. LinesOf(F) = << >>
      BY <1>1, <1>7, WritesItsUpdate
    <3>2. call[c].next \in LinesFor(F)
      BY <1>1 DEF FilesIInv, HoldsItsFile
    <3>. QED
      BY <1>1, <1>2, <3>1, <3>2, WrittenLines
  <2>3. /\ op.file \notin Disturbed /\ op.file \notin Disturbed'
        /\ Says(op.file)' = Read(op.file, NextLinesOf(op.file))
    BY <1>1, <1>3, <1>7, <2>1, TheOnlyWriterEnds
  <2>4. NextLinesOf(op.file) = call[c].next
    BY <1>4, <2>1, <2>2 DEF NextLinesOf
  <2>5. Atomic!Update(op)
    BY <1>5, <2>1, <2>3, <2>4, UpdateStep
  <2>. QED
    BY <2>5 DEF Atomic!FilesNext
<1>. QED
  BY <1>6, <1>7

LEMMA WriteFailsRefines ==
  ASSUME SessionIInv, NEW c \in Callers, WriteFails(c)
  PROVE  [Atomic!FilesNext]_(Atomic!fileVars)
<1>. DEFINE F == call[c].file
<1>1. Writing(c) /\ call[c] \in CallRecords /\ F \in FileNames /\ FilesIInv
  BY WritersHoldRecords, CallFields DEF WriteFails, SessionIInv, FileNames
<1>2. call' = [call EXCEPT ![c] = Resting]
  BY DEF WriteFails
<1>3. CASE call[c].at = "open"
  <2>1. \A g \in FileNames : NextLinesOf(g) = LinesOf(g)
    BY <1>3 DEF WriteFails, NextLinesOf, LinesOf
  <2>2. \A g \in FileNames \ {F} : Stays(g)
    BY <1>1, <1>2, <2>1, OthersStay
  <2>3. CASE ~call[c].alone
    BY <1>1, <2>2, <2>3, OverlappingCalls
  <2>4. CASE call[c].alone
    <3>1. \A f \in FileNames : f = F => Stays(f)
      BY <1>1, <1>2, <1>3, <2>1, <2>4, TheOnlyWriter, TheOnlyWriterEnds DEF Stays
    <3>. QED
      BY <2>2, <3>1, StutterStep
  <2>. QED
    BY <2>3, <2>4
<1>4. CASE call[c].at = "write"
  <2>1. PICK j \in 0 .. Len(call[c].next) :
          \E lines \in Overwritten(SubSeq(call[c].next, 1, j), LinesOf(F)) : SetFile(F, lines)
    BY <1>4 DEF WriteFails
  <2>2. PICK lines \in Overwritten(SubSeq(call[c].next, 1, j), LinesOf(F)) : SetFile(F, lines)
    BY <2>1
  <2>3. NextLinesOf(F) = lines /\ \A g \in FileNames \ {F} : NextLinesOf(g) = LinesOf(g)
    BY <1>1, <2>2, SetFileEffect DEF FileNames
  <2>4. \A g \in FileNames \ {F} : Stays(g)
    BY <1>1, <1>2, <2>3, OthersStay
  <2>5. CASE ~call[c].alone
    BY <1>1, <2>4, <2>5, OverlappingCalls
  <2>6. CASE call[c].alone
    <3>0. PICK op \in PlanOps \cup PadOps : \E read \in Found(op.file) : Writes(c, op, read)
      BY <1>4, <2>6, WritesItsUpdate
    <3>1. PICK read \in Found(op.file) :
            /\ op.file = F /\ Applies(op, read)
            /\ \A i \in 0 .. Len(call[c].next) :
                 Read(op.file, SubSeq(call[c].next, 1, i)) \in WrittenSoFar(op, read)
      BY <3>0 DEF Writes
    <3>2. lines = SubSeq(call[c].next, 1, j)
      <4>1. LinesOf(F) = << >>
        BY <1>4, <2>6, WritesItsUpdate
      <4>2. SubSeq(call[c].next, 1, j) \in LinesFor(F)
        BY <1>1, BeginningOfLines DEF FilesIInv, HoldsItsFile, FileNames
      <4>. QED
        BY <1>1, <2>2, <4>1, <4>2, WrittenLines
    <3>3. /\ op.file \notin Disturbed /\ op.file \notin Disturbed'
          /\ Says(op.file)' = Read(op.file, NextLinesOf(op.file))
      BY <1>1, <1>2, <2>6, <3>1, TheOnlyWriterEnds
    <3>4. NextLinesOf(op.file) = SubSeq(call[c].next, 1, j)
      BY <2>3, <3>1, <3>2 DEF NextLinesOf
    <3>5. Atomic!CutShort(op)
      BY <2>4, <3>1, <3>3, <3>4, CutShortStep
    <3>. QED
      BY <3>5 DEF Atomic!FilesNext
  <2>. QED
    BY <2>5, <2>6
<1>. QED
  BY <1>3, <1>4 DEF WriteFails, Writing

(* A build that asks for nothing leaves every file and every writer.       *)
LEMMA BuildEndsRefines ==
  ASSUME SessionIInv, NEW c \in Callers, BuildEnds(c)
  PROVE  [Atomic!FilesNext]_(Atomic!fileVars)
<1>1. ~Writing(c) /\ UNCHANGED <<plan, pad>>
  BY DEF BuildEnds, Writing
<1>2. \/ \E build \in Builds : LoadFor(c, Fix(build))
      \/ call' = [call EXCEPT ![c] = Resting]
  BY DEF BuildEnds, Fix
<1>3. CASE \E build \in Builds : LoadFor(c, Fix(build))
  BY <1>1, <1>3, FixIsAnUpdate, LoadRefines
<1>4. CASE call' = [call EXCEPT ![c] = Resting]
  <2>1. call'[c] = Resting /\ \A d \in Callers \ {c} : call'[d] = call[d]
    BY <1>4 DEF SessionIInv, FilesIInv
  <2>2. ASSUME NEW f \in FileNames PROVE Stays(f)
    <3>1. NextLinesOf(f) = LinesOf(f)
      BY <1>1 DEF NextLinesOf, LinesOf
    <3>2. c \notin Writers(call, f) \cup Writers(call', f)
      BY <1>1, <2>1 DEF Writers, Writing, Resting
    <3>. QED
      BY <2>1, <3>1, <3>2, FilesLeftAlone
  <2>. QED
    BY <2>2, StutterStep
<1>. QED
  BY <1>2, <1>3, <1>4

(* A file that a lone call had truncated is left empty.                    *)
LEMMA EndProcessRefines ==
  ASSUME SessionIInv, EndProcess
  PROVE  [Atomic!FilesNext]_(Atomic!fileVars)
<1>1. \A f \in FileNames : Writers(call', f) = {}
  BY DEF EndProcess, Writers, Resting
<1>2. \A f \in FileNames : NextLinesOf(f) = LinesOf(f)
  BY DEF EndProcess, NextLinesOf, LinesOf
<1>3. \A f \in FileNames : f \notin Disturbed' /\ Says(f)' = Read(f, LinesOf(f))
  BY <1>1, <1>2, SaysWithNoWriter, SaysNowAndNext
<1>4. Disturbed' = {}
  BY <1>3, DisturbedFiles
<1>5. ASSUME NEW f \in FileNames \ Disturbed
      PROVE  Says(f)' \in {Says(f), Read(f, << >>)}
  <2>1. CASE TruncatedBy(call, f) = {}
    BY <1>3, <2>1, SaysNowAndNext DEF SaysOf
  <2>2. CASE TruncatedBy(call, f) # {}
    <3>1. PICK c \in Callers : call[c].at = "write" /\ call[c].file = f /\ call[c].alone
      BY <2>2 DEF TruncatedBy, Writers
    <3>2. LinesOf(f) = << >>
      BY <3>1, WritesItsUpdate
    <3>. QED
      BY <1>3, <3>2
  <2>. QED
    BY <2>1, <2>2
<1>6. Atomic!EndOfTheProcess
  BY <1>4, <1>5, EndStep
<1>. QED
  BY <1>6 DEF Atomic!FilesNext

LEMMA NobodyCallsRefines ==
  ASSUME UNCHANGED sessionVars
  PROVE  [Atomic!FilesNext]_(Atomic!fileVars)
<1>1. ASSUME NEW f \in FileNames PROVE Stays(f)
  BY FilesLeftAlone DEF sessionVars, NextLinesOf, LinesOf
<1>. QED
  BY <1>1, StutterStep

LEMMA SessionStepRefines ==
  SessionIInv /\ [SessionNext]_sessionVars => [Atomic!FilesNext]_(Atomic!fileVars)
<1>. SUFFICES ASSUME SessionIInv, [SessionNext]_sessionVars
              PROVE  [Atomic!FilesNext]_(Atomic!fileVars)
  OBVIOUS
<1>1. CASE \E c \in Callers : CallStep(c)
  <2>1. PICK c \in Callers : CallStep(c)
    BY <1>1
  <2>2. CASE \E op \in PlanOps \cup PadOps : Load(c, op)
    <3>1. PICK op \in PlanOps \cup PadOps : Load(c, op)
      BY <2>2
    <3>2. ~Writing(c) /\ LoadFor(c, op) /\ UNCHANGED <<plan, pad>>
      BY <3>1 DEF Load, Writing, Resting
    <3>. QED
      BY <3>2, LoadRefines
  <2>. QED
    BY <2>1, <2>2, OpenRefines, WriteRefines, WriteFailsRefines, BuildEndsRefines DEF CallStep
<1>2. CASE EndProcess
  BY <1>2, EndProcessRefines
<1>3. CASE UNCHANGED sessionVars
  BY <1>3, NobodyCallsRefines
<1>. QED
  BY <1>1, <1>2, <1>3 DEF SessionNext

(* The tools keep the promise of AtomicFiles: a call that meets no other   *)
(* on its file, from its load to its write, takes effect whole, or not at  *)
(* all, or leaves the beginning of what it was to write, though it         *)
(* truncates the file before it writes (os.WriteFile in savePlan and in    *)
(* saveScratchpad).  What takes effect is an update of what the file says, *)
(* or, when the file could not be read, of an empty one (loadPlan and      *)
(* loadScratchpad), which loses what it said.                              *)
THEOREM SessionImplementsAtomicFiles == SessionSpec => ImplementsAtomicFiles
<1>1. SessionInit => Disturbed = {}
  BY DEF SessionInit, Disturbed, WritersOf, Writing, Resting
<1>. QED
  BY <1>1, SessionIsInvariant, SessionStepRefines, PTL
     DEF SessionSpec, ImplementsAtomicFiles, Atomic!FilesSpec
=============================================================================
