--------------------------- MODULE ProcessProofs ----------------------------
(***************************************************************************)
(* Theorems about processes that end in the middle of what they do: runs   *)
(* of the scorers, killed anywhere while they take or leave their hold on  *)
(* a working tree, and commands that are stopped, with any number of       *)
(* processes inside and outside their group.                               *)
(***************************************************************************)
EXTENDS TreeHold, ChildProcess, TLAPS

-----------------------------------------------------------------------------
(* The hold on a working tree.                                             *)

HoldTypes ==
  /\ hold \in [by : Runs, written : BOOLEAN] \cup {NoFile}
  /\ at \in [Runs -> Calls]
  /\ attempt \in [Runs -> {1, 2}]
  /\ holder \in [Runs -> Runs \cup {Nobody}]
  /\ undisturbed \subseteq Runs

BeforeItsHold == {"waiting", "create", "read", "judge", "unlink"}

(* A run makes its hold last, so before that neither the file nor what was *)
(* read from it is its own.                                                *)
NoHoldBeforeItIsMade ==
  \A p \in Runs :
    /\ at[p] \in BeforeItsHold => hold = NoFile \/ hold.by # p
    /\ at[p] = "judge" => holder[p] # p
    /\ at[p] \in {"waiting", "unlink"} => attempt[p] = 1

(* A run beside which nobody else is alive finds the path free, or is on   *)
(* its first attempt, which reclaims whatever is there.                    *)
UndisturbedRunsGetThere ==
  \A p \in undisturbed :
    /\ \A q \in Runs : Alive(q) => q = p
    /\ at[p] # "waiting"
    /\ at[p] # "refused"
    /\ at[p] = "create" => attempt[p] = 1 \/ hold = NoFile
    /\ at[p] \in {"read", "judge"} => attempt[p] = 1

HoldIInv ==
  /\ HoldTypes
  /\ NoHoldBeforeItIsMade
  /\ NoHoldOutlivesItsRun
  /\ UndisturbedRunsGetThere
  /\ LitterNeverShutsTheTree

LEMMA InitHoldIInv == HoldInit => HoldIInv
BY DEF HoldInit, HoldIInv, HoldTypes, Calls, Over, NoHoldBeforeItIsMade, BeforeItsHold,
       NoHoldOutlivesItsRun, UndisturbedRunsGetThere, LitterNeverShutsTheTree, Text

LEMMA StepHoldIInv == HoldIInv /\ [HoldNext]_holdVars => HoldIInv'
<1>. SUFFICES ASSUME HoldIInv, [HoldNext]_holdVars PROVE HoldIInv'
  OBVIOUS
<1>. USE RunsAssumption DEF HoldIInv, HoldTypes, Calls, Over, Goto, Alive, Text, BeforeItsHold,
         NoHoldBeforeItIsMade, NoHoldOutlivesItsRun, UndisturbedRunsGetThere,
         LitterNeverShutsTheTree
<1>1. CASE UNCHANGED holdVars
  BY <1>1 DEF holdVars
<1>2. ASSUME NEW p \in Runs, Enter(p) PROVE HoldIInv'
  BY <1>2 DEF Enter
<1>3. ASSUME NEW p \in Runs, Create(p) PROVE HoldIInv'
  BY <1>3 DEF Create
<1>4. ASSUME NEW p \in Runs, Read(p) PROVE HoldIInv'
  BY <1>4 DEF Read
<1>5. ASSUME NEW p \in Runs, Judge(p) PROVE HoldIInv'
  BY <1>5 DEF Judge, Reclaims
<1>6. ASSUME NEW p \in Runs, Unlink(p) PROVE HoldIInv'
  BY <1>6 DEF Unlink
<1>7. ASSUME NEW p \in Runs, Write(p) PROVE HoldIInv'
  BY <1>7 DEF Write
<1>8. ASSUME NEW p \in Runs, WriteFails(p) PROVE HoldIInv'
  BY <1>8 DEF WriteFails
<1>9. ASSUME NEW p \in Runs, Leave(p) PROVE HoldIInv'
  BY <1>9 DEF Leave
<1>10. ASSUME NEW p \in Runs, ReadOwn(p) PROVE HoldIInv'
  BY <1>10 DEF ReadOwn
<1>11. ASSUME NEW p \in Runs, UnlinkOwn(p) PROVE HoldIInv'
  BY <1>11 DEF UnlinkOwn
<1>12. ASSUME NEW p \in Runs, Kill(p) PROVE HoldIInv'
  BY <1>12 DEF Kill
<1>. QED
  BY <1>1, <1>2, <1>3, <1>4, <1>5, <1>6, <1>7, <1>8, <1>9, <1>10, <1>11, <1>12
     DEF HoldNext, HoldStep

LEMMA HoldInvariant == HoldSpec => []HoldIInv
BY InitHoldIInv, StepHoldIInv, PTL DEF HoldSpec

(* What a killed run leaves of its hold, written or not, never shuts the   *)
(* tree: a run beside which no other is alive is not refused.              *)
THEOREM LitterIsAlwaysReclaimed == HoldSpec => []LitterNeverShutsTheTree
<1>1. HoldIInv => LitterNeverShutsTheTree
  BY DEF HoldIInv
<1>. QED
  BY <1>1, HoldInvariant, PTL

(* A run whose block ended leaves no hold that names it, whoever else      *)
(* reclaimed, removed or made one meanwhile.                               *)
THEOREM EndedRunsHoldNothing == HoldSpec => []NoHoldOutlivesItsRun
<1>1. HoldIInv => NoHoldOutlivesItsRun
  BY DEF HoldIInv
<1>. QED
  BY <1>1, HoldInvariant, PTL

-----------------------------------------------------------------------------
(* Commands.                                                               *)

(* A step of one process: nobody joins the group but by a fork inside it.  *)
LEMMA ProcessesKeepTheInvariant ==
  ASSUME CommandIInv, NEW p \in Processes,
         Exit(p) \/ \E job \in Jobs : Fork(p, job)
  PROVE  CommandIInv'
<1>1. ASSUME Exit(p) PROVE CommandIInv'
  <2>1. succeeded' \in BOOLEAN
    BY <1>1 DEF Exit, CommandIInv, CommandTypeOK
  <2>. QED
    BY <1>1, <2>1 DEF Exit, Die, CommandIInv, CommandTypeOK, EscalationLeavesNobody,
       ShellLeadsTheGroup, GoroutinesInStep, ErrorsAreHandedOver, watcherVars
<1>2. ASSUME NEW job \in Jobs, Fork(p, job) PROVE CommandIInv'
  <2>1. job \in Processes /\ job # Shell
    BY JobsAssumption DEF Processes
  <2>2. group' = group \/ (p \in group /\ group' = group \cup {job})
    BY <1>2 DEF Fork
  <2>3. writers' = writers \/ writers' = writers \cup {job}
    BY <1>2 DEF Fork
  <2>. QED
    BY <1>2, <2>1, <2>2, <2>3 DEF Fork, CommandIInv, CommandTypeOK,
       EscalationLeavesNobody, ShellLeadsTheGroup, GoroutinesInStep, ErrorsAreHandedOver,
       watcherVars
<1>. QED
  BY <1>1, <1>2

(* Every step of the goroutines, the processes and the caller keeps the    *)
(* invariant.                                                              *)
LEMMA NextCommandIInv ==
  ASSUME CommandIInv, [CommandNext]_commandVars
  PROVE  CommandIInv'
<1>. USE DEF CommandIInv, CommandTypeOK, EscalationLeavesNobody, ShellLeadsTheGroup,
             GoroutinesInStep, ErrorsAreHandedOver, watcherVars, processVars
<1>1. CASE Start
  BY <1>1 DEF Start, Processes
<1>2. CASE StartFails
  BY <1>2 DEF StartFails
<1>3. CASE WaitProcess
  BY <1>3 DEF WaitProcess
<1>4. CASE TakeFromWatcher
  BY <1>4 DEF TakeFromWatcher, WithError
<1>5. CASE PipeEnds
  BY <1>5 DEF PipeEnds
<1>6. CASE WaitDelayExpires
  BY <1>6 DEF WaitDelayExpires, WithError
<1>7. CASE Return
  BY <1>7 DEF Return
<1>8. CASE Interrupt
  BY <1>8 DEF Interrupt, interruptProcessGroup, signalProcessGroup, processGroupExists, Die
<1>9. CASE KillShell
  BY <1>9 DEF KillShell, Die
<1>10. CASE SeeCancellation
  BY <1>10 DEF SeeCancellation
<1>11. CASE SeeReturn
  BY <1>11 DEF SeeReturn
<1>12. CASE PollSeesNobody
  BY <1>12 DEF PollSeesNobody, processGroupExists
<1>13. CASE GraceExpires
  BY <1>13 DEF GraceExpires, killProcessGroup, Die
<1>14. CASE CancelContext
  BY <1>14 DEF CancelContext
<1>15. CASE \E p \in Processes : Exit(p) \/ \E job \in Jobs : Fork(p, job)
  BY <1>15, ProcessesKeepTheInvariant
<1>16. CASE UNCHANGED commandVars
  BY <1>16 DEF commandVars
<1>. QED
  BY <1>1, <1>2, <1>3, <1>4, <1>5, <1>6, <1>7, <1>8, <1>9, <1>10, <1>11, <1>12, <1>13,
     <1>14, <1>15, <1>16
  DEF CommandNext, RunStep, WatcherStep, EscalationStep

(* The inductive invariant, from which the theorems below follow.          *)
THEOREM CommandInvariant == CommandSpec => []CommandIInv
<1>1. CommandInit => CommandIInv
  BY DEF CommandInit, CommandIInv, CommandTypeOK, EscalationLeavesNobody,
         ShellLeadsTheGroup, GoroutinesInStep, ErrorsAreHandedOver
<1>2. CommandIInv /\ [CommandNext]_commandVars => CommandIInv'
  BY NextCommandIInv
<1>. QED
  BY <1>1, <1>2, PTL DEF CommandSpec

(* After the escalation nobody of the group is left or joins it again, and *)
(* Run waits for that (childprocess.go:118-153).                           *)
THEOREM EscalationAlwaysLeavesNobody == CommandSpec => []EscalationLeavesNobody
<1>1. CommandIInv => EscalationLeavesNobody
  BY DEF CommandIInv
<1>. QED
  BY <1>1, CommandInvariant, PTL

(* A command that was sent SIGINT never returns as one that succeeded      *)
(* (childprocess.go:62, processgroup_unix.go:25-45).                       *)
THEOREM InterruptedIsNeverASuccess == CommandSpec => []InterruptedIsNoSuccess
<1>1. CommandIInv => InterruptedIsNoSuccess
  BY DEF CommandIInv, GoroutinesInStep, ErrorsAreHandedOver, InterruptedIsNoSuccess
<1>. QED
  BY <1>1, CommandInvariant, PTL

(* A command that returns as one that succeeded has all of its output      *)
(* (childprocess.go:33, 61).                                               *)
THEOREM SuccessAlwaysHasAllOutput == CommandSpec => []SuccessHasAllOutput
<1>1. CommandIInv => SuccessHasAllOutput
  BY DEF CommandIInv, GoroutinesInStep, ErrorsAreHandedOver, SuccessHasAllOutput
<1>. QED
  BY <1>1, CommandInvariant, PTL

(* The model of a command stays within its types: a shell that did not     *)
(* start has no group, and Run's goroutines only go forward                *)
(* (childprocess.go:69-154).                                               *)
THEOREM CommandTypeCorrect == CommandSpec => []CommandTypeOK
<1>1. CommandIInv => CommandTypeOK
  BY DEF CommandIInv
<1>. QED
  BY <1>1, CommandInvariant, PTL
-----------------------------------------------------------------------------
(* A command implements StoppableCommand.                                  *)

(* Before the shell is started there is nobody; it is collected once it    *)
(* has ended; it succeeds only by ending of itself.                        *)
ShellGoesForward ==
  /\ waitsFor = "start" => born = {}
  /\ waitsFor \in {"process", "watcher", "pipe", "escalation"} => Shell \in born
  /\ waitsFor \in {"watcher", "pipe", "escalation"} => reaped
  /\ succeeded => Shell \in born \ running

(* Nothing is done to a command whose end nobody asked for.                *)
OnlyStoppedWhenAsked ==
  /\ escalation \in {"grace", "delivered"} => cancelled
  /\ watcher \in {"delay", "late"} => cancelled

(* What Run is about to return says what became of the command.            *)
ErrorsAreTrue ==
  /\ watcherError = "cancelled" => cancelled
  /\ watcherError = "waitDelay" => cutOff /\ ~interrupted
  /\ waitsFor \in {"watcher", "pipe", "escalation"} =>
       /\ result \in {"ok", "exitError", "cancelled", "waitDelay"}
       /\ result = "exitError" <=> ~succeeded
       /\ result = "cancelled" => cancelled
       /\ result = "waitDelay" => cutOff /\ ~interrupted

StoppableIInv == CommandIInv /\ ShellGoesForward /\ OnlyStoppedWhenAsked /\ ErrorsAreTrue

LEMMA NextStoppableIInv ==
  ASSUME StoppableIInv, [CommandNext]_commandVars
  PROVE  StoppableIInv'
<1>. USE DEF StoppableIInv, ShellGoesForward, OnlyStoppedWhenAsked, ErrorsAreTrue, watcherVars,
             processVars
<1>1. CommandIInv'
  BY NextCommandIInv
<1>2. ASSUME NEW p \in Processes, Exit(p) PROVE StoppableIInv'
  <2>1. p = Shell \/ succeeded' = succeeded
    BY <1>2 DEF Exit
  <2>. QED
    BY <1>1, <1>2, <2>1 DEF Exit, Die, CommandIInv, CommandTypeOK
<1>3. ASSUME NEW p \in Processes, NEW job \in Jobs, Fork(p, job) PROVE StoppableIInv'
  BY <1>1, <1>3, JobsAssumption DEF Fork, CommandIInv, CommandTypeOK
<1>. USE DEF CommandIInv, CommandTypeOK, ShellLeadsTheGroup, GoroutinesInStep,
             ErrorsAreHandedOver
<1>4. CASE Start
  BY <1>1, <1>4 DEF Start
<1>5. CASE StartFails
  BY <1>1, <1>5 DEF StartFails
<1>6. CASE WaitProcess
  BY <1>1, <1>6 DEF WaitProcess
<1>7. CASE TakeFromWatcher
  BY <1>1, <1>7 DEF TakeFromWatcher, WithError
<1>8. CASE PipeEnds
  BY <1>1, <1>8 DEF PipeEnds
<1>9. CASE WaitDelayExpires
  BY <1>1, <1>9 DEF WaitDelayExpires, WithError
<1>10. CASE Return
  BY <1>1, <1>10 DEF Return
<1>11. CASE Interrupt
  BY <1>1, <1>11 DEF Interrupt, interruptProcessGroup, signalProcessGroup,
     processGroupExists, Die
<1>12. CASE KillShell
  BY <1>1, <1>12 DEF KillShell, Die
<1>13. CASE EscalationStep
  <2>1. UNCHANGED <<born, reaped, succeeded, cancelled, waitsFor, watcherVars, cutOff, result,
                    interrupted>> /\ running' \subseteq running
    BY <1>13 DEF EscalationStep, SeeCancellation, SeeReturn, PollSeesNobody, GraceExpires,
       killProcessGroup, Die
  <2>2. escalation' \in {"grace", "delivered"} => cancelled
    BY <1>13 DEF EscalationStep, SeeCancellation, SeeReturn, PollSeesNobody, GraceExpires
  <2>. QED
    BY <1>1, <2>1, <2>2
<1>14. CASE CancelContext
  BY <1>1, <1>14 DEF CancelContext
<1>15. CASE UNCHANGED commandVars
  BY <1>1, <1>15 DEF commandVars
<1>. QED
  BY <1>2, <1>3, <1>4, <1>5, <1>6, <1>7, <1>8, <1>9, <1>10, <1>11, <1>12, <1>13, <1>14, <1>15
  DEF CommandNext, RunStep, WatcherStep

(* Every step is one of StoppableCommand or changes nothing it sees.       *)
LEMMA StepIsPromised ==
  ASSUME StoppableIInv, [CommandNext]_commandVars
  PROVE  [Promised!Next]_(Promised!stoppableVars)
<1>. USE DEF StoppableIInv, CommandIInv, CommandTypeOK, watcherVars, processVars,
             Promised!stoppableVars
<1>1. ASSUME NEW p \in Processes, Exit(p)
      PROVE  (p \in group /\ Promised!End(p)) \/ UNCHANGED Promised!stoppableVars
  <2>1. /\ group' = group \ {p} /\ running' = running \ {p} /\ p \in running
        /\ UNCHANGED <<born, cancelled, waitsFor, escalation, cutOff, result, interrupted>>
        /\ p = Shell \/ succeeded' = succeeded
        /\ CommandPhase' = CommandPhase /\ CommandAnswer' = CommandAnswer
    BY <1>1 DEF Exit, Die, CommandPhase, CommandAnswer
  <2>2. CASE p = Shell
    <3>1. Shell \in group /\ ShellStatus' \in {"good", "bad"}
      BY <2>1, <2>2 DEF ShellLeadsTheGroup, ShellStatus
    <3>. QED
      BY <2>1, <2>2, <3>1 DEF Promised!End
  <2>3. CASE p # Shell
    <3>1. ShellStatus' = ShellStatus
      BY <2>1, <2>3 DEF ShellStatus
    <3>. QED
      BY <2>1, <2>3, <3>1 DEF Promised!End
  <2>. QED
    BY <2>2, <2>3
<1>2. ASSUME NEW p \in Processes, NEW job \in Jobs, Fork(p, job)
      PROVE  Promised!Join(job) \/ UNCHANGED Promised!stoppableVars
  <2>1. /\ group' = group \/ (group # {} /\ group' = group \cup {job})
        /\ UNCHANGED <<cancelled, cutOff, interrupted>>
        /\ CommandPhase' = CommandPhase /\ ShellStatus' = ShellStatus
        /\ CommandAnswer' = CommandAnswer
    BY <1>2, JobsAssumption DEF Fork, CommandPhase, CommandAnswer, ShellStatus
  <2>. QED
    BY <2>1 DEF Promised!Join
<1>. USE DEF Promised!Next
<1>3. CASE Start
  BY <1>3 DEF Start, Promised!Launch, Promised!Refuse, CommandPhase, CommandAnswer, ShellStatus,
     ShellGoesForward, ShellLeadsTheGroup, GoroutinesInStep
<1>4. CASE StartFails
  BY <1>4 DEF StartFails, Promised!Refuse, CommandPhase, CommandAnswer, ShellStatus
<1>5. CASE WaitProcess \/ TakeFromWatcher \/ PipeEnds \/ SeeReturn
  <2>1. waitsFor # "start" /\ waitsFor # "returned"
    BY <1>5 DEF WaitProcess, TakeFromWatcher, PipeEnds, SeeReturn
  <2>2. UNCHANGED <<born, running, group, succeeded, cancelled, interrupted, cutOff>>
    BY <1>5 DEF WaitProcess, TakeFromWatcher, PipeEnds, SeeReturn
  <2>3. waitsFor' # "start" /\ waitsFor' # "returned"
    BY <1>5 DEF WaitProcess, TakeFromWatcher, PipeEnds, SeeReturn
  <2>4. escalation' = escalation \/ (escalation = "select" /\ escalation' = "unneeded")
    BY <1>5 DEF WaitProcess, TakeFromWatcher, PipeEnds, SeeReturn
  <2>. QED
    BY <2>1, <2>2, <2>3, <2>4 DEF CommandPhase, CommandAnswer, ShellStatus
<1>6. CASE WaitDelayExpires
  <2>1. /\ waitsFor = "pipe" /\ waitsFor' = "escalation" /\ cutOff' = TRUE
        /\ UNCHANGED <<born, running, group, succeeded, cancelled, interrupted, escalation>>
    BY <1>6 DEF WaitDelayExpires
  <2>2. /\ CommandPhase' = CommandPhase /\ ShellStatus' = ShellStatus
        /\ CommandAnswer' = CommandAnswer /\ Promised!Started /\ Shell \notin group
    BY <2>1 DEF CommandPhase, CommandAnswer, ShellStatus, Promised!Started, ShellGoesForward
  <2>. QED
    BY <2>1, <2>2 DEF Promised!GiveUp, Promised!Kill
<1>7. CASE Return
  <2>1. /\ waitsFor = "escalation" /\ waitsFor' = "returned"
        /\ escalation \in {"delivered", "unneeded"}
        /\ UNCHANGED <<born, running, group, succeeded, cancelled, interrupted, cutOff, result>>
    BY <1>7 DEF Return
  <2>2. /\ CommandPhase \in {"running", "stopped"} /\ CommandPhase' = "over"
        /\ ShellStatus' = ShellStatus
        /\ ShellStatus = IF succeeded THEN "good" ELSE "bad"
        /\ CommandAnswer' = result
    BY <2>1 DEF CommandPhase, CommandAnswer, ShellStatus, ShellGoesForward
  <2>3. result \in Promised!TrueAnswers
    BY <2>1, <2>2 DEF Promised!TrueAnswers, ErrorsAreTrue, GoroutinesInStep, ErrorsAreHandedOver
  <2>. QED
    BY <2>1, <2>2, <2>3 DEF Promised!Answer
<1>8. CASE Interrupt
  <2>1. /\ cancelled /\ group' = group \ (group \ immune) /\ running' = running \ (group \ immune)
        /\ interrupted' = (group # {}) /\ ~interrupted
        /\ UNCHANGED <<born, succeeded, cancelled, waitsFor, escalation, cutOff, result>>
        /\ waitsFor \in {"process", "watcher"} /\ Shell \in born
    BY <1>8 DEF Interrupt, interruptProcessGroup, Die, ErrorsAreHandedOver, GoroutinesInStep,
       ShellLeadsTheGroup
  <2>2. CommandPhase' = CommandPhase /\ CommandAnswer' = CommandAnswer
    BY <2>1 DEF CommandPhase, CommandAnswer
  <2>3. CASE group = {}
    BY <2>1, <2>2, <2>3 DEF ShellStatus, CommandAnswer
  <2>4. CASE group # {}
    <3>1. Promised!Started
      BY <2>1, <2>4 DEF CommandPhase, Promised!Started, EscalationLeavesNobody
    <3>2. Promised!Kill(group \ immune)
      BY <2>1 DEF Promised!Kill, ShellStatus, ShellLeadsTheGroup, ShellGoesForward
    <3>. QED
      BY <2>1, <2>2, <2>4, <3>1, <3>2 DEF Promised!Warn, Promised!Next
  <2>. QED
    BY <2>3, <2>4
<1>9. CASE KillShell
  <2>1. /\ cancelled /\ group' = group \ {Shell} /\ running' = running \ {Shell}
        /\ cutOff' \in {cutOff, TRUE}
        /\ UNCHANGED <<born, succeeded, cancelled, waitsFor, escalation, interrupted, result>>
        /\ waitsFor \in {"process", "watcher"} /\ Shell \in born
    BY <1>9 DEF KillShell, Die, OnlyStoppedWhenAsked, ErrorsAreHandedOver, GoroutinesInStep,
       ShellLeadsTheGroup
  <2>2. CommandPhase' = CommandPhase /\ Promised!Started /\ CommandAnswer' = CommandAnswer
    BY <2>1 DEF CommandPhase, CommandAnswer, Promised!Started
  <2>3. Promised!Kill({Shell})
    BY <2>1 DEF Promised!Kill, ShellStatus, ShellLeadsTheGroup, ShellGoesForward
  <2>. QED
    BY <2>1, <2>2, <2>3 DEF Promised!GiveUp
<1>10. CASE SeeCancellation
  <2>1. /\ escalation = "select" /\ escalation' = "grace" /\ cancelled
        /\ waitsFor # "start" /\ waitsFor # "returned"
        /\ UNCHANGED <<processVars, succeeded, cancelled, waitsFor, interrupted, cutOff, result>>
    BY <1>10 DEF SeeCancellation, GoroutinesInStep, EscalationLeavesNobody
  <2>. QED
    BY <2>1 DEF CommandPhase, CommandAnswer, ShellStatus, Promised!BeginToStop
<1>11. CASE PollSeesNobody \/ GraceExpires
  <2>1. /\ escalation = "grace" /\ escalation' = "delivered"
        /\ waitsFor # "start" /\ waitsFor # "returned" /\ Shell \in born
        /\ UNCHANGED <<born, succeeded, cancelled, waitsFor, interrupted, cutOff, result>>
    BY <1>11 DEF PollSeesNobody, GraceExpires, killProcessGroup, Die, GoroutinesInStep,
       EscalationLeavesNobody, ShellLeadsTheGroup
  <2>2. group' = group \ group /\ running' = running \ group
    BY <1>11 DEF PollSeesNobody, GraceExpires, killProcessGroup, processGroupExists, Die
  <2>3. CommandPhase = "stopping" /\ CommandPhase' = "stopped" /\ CommandAnswer' = CommandAnswer
    BY <2>1 DEF CommandPhase, CommandAnswer
  <2>4. Promised!Kill(group)
    BY <2>1, <2>2 DEF Promised!Kill, ShellStatus, ShellLeadsTheGroup, ShellGoesForward
  <2>. QED
    BY <2>1, <2>3, <2>4 DEF Promised!Stopped
<1>12. CASE CancelContext
  BY <1>12 DEF CancelContext, Promised!Ask, CommandPhase, CommandAnswer, ShellStatus
<1>13. CASE UNCHANGED commandVars
  BY <1>13 DEF commandVars, CommandPhase, CommandAnswer, ShellStatus
<1>. QED
  <2>1. CASE \E p \in Processes : Exit(p) \/ \E job \in Jobs : Fork(p, job)
    BY <1>1, <1>2, <2>1 DEF Promised!Next
  <2>. QED
    BY <1>3, <1>4, <1>5, <1>6, <1>7, <1>8, <1>9, <1>10, <1>11, <1>12, <1>13, <2>1
    DEF CommandNext, RunStep, WatcherStep, EscalationStep, Promised!Next

(* Run, os/exec's watcher and the escalation, in any interleaving with     *)
(* each other, with the processes and with the caller, are a command that  *)
(* can be stopped (childprocess.go:66-154).                                *)
THEOREM CommandCanBeStopped == CommandSpec => ImplementsStoppableCommand
<1>1. CommandInit => StoppableIInv
  BY DEF CommandInit, StoppableIInv, ShellGoesForward, OnlyStoppedWhenAsked, ErrorsAreTrue,
         CommandIInv, CommandTypeOK, EscalationLeavesNobody, ShellLeadsTheGroup,
         GoroutinesInStep, ErrorsAreHandedOver
<1>2. StoppableIInv /\ [CommandNext]_commandVars => StoppableIInv'
  BY NextStoppableIInv
<1>3. CommandInit => Promised!Init
  BY DEF CommandInit, Promised!Init, CommandPhase, CommandAnswer, ShellStatus
<1>4. StoppableIInv /\ [CommandNext]_commandVars => [Promised!Next]_(Promised!stoppableVars)
  BY StepIsPromised
<1>. QED
  BY <1>1, <1>2, <1>3, <1>4, PTL
     DEF CommandSpec, ImplementsStoppableCommand, Promised!StoppableSpec
=============================================================================
