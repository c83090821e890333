---------------------------- MODULE ChildProcess ----------------------------
(***************************************************************************)
(* internal/childprocess: a command that can be stopped.  One call of      *)
(* Command.Run, the processes it starts, and the three goroutines that end *)
(* it: Run itself inside os/exec's Wait, os/exec's watcher of the context, *)
(* and the package's escalation from SIGINT to SIGKILL.                    *)
(*                                                                         *)
(* A goroutine may be slow to reach its select, and a select with several  *)
(* ready cases takes any of them.  A timer that runs can expire at any     *)
(* moment: how long it takes is left out.                                  *)
(***************************************************************************)
EXTENDS FiniteSets

CONSTANTS
  Shell,   (* the direct child, which leads the process group               *)
  Jobs     (* bound: the processes it, or one of them, can start            *)

ASSUME JobsAssumption == Shell \notin Jobs

Processes == {Shell} \cup Jobs

VARIABLES
  born,         (* the processes that have been started                     *)
  running,      (* those that have not exited                               *)
  group,        (* ... of them those in the shell's process group,          *)
  immune,       (* ... those that ignore or handle SIGINT,                  *)
  writers,      (* ... and those that have the output pipe open             *)
  reaped,       (* os/exec has collected the shell                          *)
  succeeded,    (* the shell has exited, with status 0                      *)
  cancelled,    (* the context is done                                      *)
  waitsFor,     (* what Run waits for                                       *)
  watcher,      (* the goroutine of exec.Cmd that watches the context       *)
  watcherError, (* what it will hand over to Wait                           *)
  escalation,   (* the goroutine of killProcessGroupAfterGrace              *)
  cutOff,       (* the pipe was closed while somebody could write to it     *)
  result,       (* what Run returns                                         *)
  interrupted   (* history: Cancel sent SIGINT to running processes         *)

processVars == <<born, running, group, immune, writers>>
watcherVars == <<watcher, watcherError>>
commandVars == <<processVars, reaped, succeeded, cancelled, waitsFor, watcherVars,
                 escalation, cutOff, result, interrupted>>

CommandTypeOK ==
  /\ running \subseteq born /\ born \subseteq Processes
  /\ group \subseteq running /\ immune \subseteq running /\ writers \subseteq running
  /\ reaped \in BOOLEAN /\ succeeded \in BOOLEAN /\ cancelled \in BOOLEAN
  /\ waitsFor \in {"start", "process", "watcher", "pipe", "escalation", "returned"}
  /\ watcher \in {"none", "select", "delay", "late", "ended"}
  /\ watcherError \in {"none", "cancelled", "waitDelay"}
  /\ escalation \in {"none", "select", "grace", "delivered", "unneeded"}
  /\ cutOff \in BOOLEAN /\ interrupted \in BOOLEAN
  /\ result \in {"none", "ok", "exitError", "cancelled", "waitDelay", "notStarted"}
  /\ reaped => Shell \in born \ running

CommandInit ==
  /\ born = {} /\ running = {} /\ group = {} /\ immune = {} /\ writers = {}
  /\ reaped = FALSE /\ succeeded = FALSE /\ cancelled = FALSE
  /\ waitsFor = "start"
  /\ watcher = "none" /\ watcherError = "none" /\ escalation = "none"
  /\ cutOff = FALSE /\ result = "none" /\ interrupted = FALSE

Die(ps) ==
  /\ running' = running \ ps
  /\ group' = group \ ps
  /\ immune' = immune \ ps
  /\ writers' = writers \ ps
  /\ UNCHANGED born

-----------------------------------------------------------------------------
(* What the processes do, and the caller with the context.                 *)

CancelContext ==
  /\ ~cancelled /\ waitsFor # "returned"
  /\ cancelled' = TRUE
  /\ UNCHANGED <<processVars, reaped, succeeded, waitsFor, watcherVars, escalation,
                 cutOff, result, interrupted>>

(* A child has the group and the pipe of its parent, or leaves them        *)
(* (setsid, a redirection).  A background job of bash ignores SIGINT.      *)
Fork(p, job) ==
  /\ p \in running /\ job \notin born
  /\ born' = born \cup {job}
  /\ running' = running \cup {job}
  /\ group' = group \/ (p \in group /\ group' = group \cup {job})
  /\ writers' = writers \/ (p \in writers /\ writers' = writers \cup {job})
  /\ immune' \in {immune, immune \cup {job}}
  /\ UNCHANGED <<reaped, succeeded, cancelled, waitsFor, watcherVars, escalation, cutOff,
                 result, interrupted>>

Exit(p) ==
  /\ p \in running
  /\ Die({p})
  /\ succeeded' \in IF p = Shell THEN BOOLEAN ELSE {succeeded}
  /\ UNCHANGED <<reaped, cancelled, waitsFor, watcherVars, escalation, cutOff, result,
                 interrupted>>

-----------------------------------------------------------------------------
(* Signals to the group.  A shell that has exited keeps the group in being *)
(* until os/exec collects it.                                              *)

processGroupExists == group # {} \/ (Shell \in born \ running /\ ~reaped)

(* What os/exec makes of Cancel's answer: os.ErrProcessDone, for ESRCH, is *)
(* no error; a signal that was sent makes the error ctx.Err().             *)
AlwaysProcessDone == "none"
signalProcessGroup == IF processGroupExists THEN "cancelled" ELSE "none"

interruptProcessGroup == Die(group \ immune)
killProcessGroup == Die(group)

-----------------------------------------------------------------------------
(* Run: Start, exec.Cmd.Wait, and the end of the escalation.               *)

Start ==
  /\ waitsFor = "start"
  /\ IF cancelled
       THEN /\ waitsFor' = "returned"
            /\ result' = "cancelled"
            /\ UNCHANGED <<processVars, watcherVars, escalation>>
       ELSE /\ born' = {Shell} /\ running' = {Shell} /\ group' = {Shell}
            /\ writers' = {Shell}
            /\ immune' \in {{}, {Shell}}
            /\ waitsFor' = "process"
            /\ watcher' = "select"
            /\ escalation' = "select"
            /\ UNCHANGED <<watcherError, result>>
  /\ UNCHANGED <<reaped, succeeded, cancelled, cutOff, interrupted>>

StartFailsUnnoticed ==
  /\ waitsFor = "start"
  /\ waitsFor' = "process"
  /\ UNCHANGED <<processVars, reaped, succeeded, cancelled, watcherVars, escalation,
                 cutOff, result, interrupted>>

StartFails ==
  /\ waitsFor = "start"
  /\ waitsFor' = "returned"
  /\ result' = "notStarted"
  /\ UNCHANGED <<processVars, reaped, succeeded, cancelled, watcherVars, escalation,
                 cutOff, interrupted>>

WaitProcess ==
  /\ waitsFor = "process"
  /\ Shell \notin running
  /\ reaped' = TRUE
  /\ result' = IF succeeded THEN "ok" ELSE "exitError"
  /\ waitsFor' = "watcher"
  /\ UNCHANGED <<processVars, succeeded, cancelled, watcherVars, escalation, cutOff,
                 interrupted>>

(* Wait prefers the shell's own error.                                     *)
OwnErrorOnly(error) == result
WithError(error) == IF result = "ok" /\ error # "none" THEN error ELSE result

(* The watcher that saw no cancellation, or sent SIGINT, or closed the     *)
(* pipe itself, meets Wait; in the last case the pipe is done with.        *)
TakeFromWatcher ==
  /\ waitsFor = "watcher"
  /\ watcher \in {"select", "delay", "late"}
  /\ result' = WithError(watcherError)
  /\ waitsFor' = IF watcher = "late" THEN "escalation" ELSE "pipe"
  /\ watcher' = "ended"
  /\ UNCHANGED <<processVars, reaped, succeeded, cancelled, watcherError, escalation,
                 cutOff, interrupted>>

(* The pipe is read to its end.                                            *)
PipeEnds ==
  /\ waitsFor = "pipe"
  /\ writers = {}
  /\ waitsFor' = "escalation"
  /\ UNCHANGED <<processVars, reaped, succeeded, cancelled, watcherVars, escalation,
                 cutOff, result, interrupted>>

(* WaitDelay after the shell ended, or after the SIGINT; 0 is for ever.    *)
NoWaitDelay == FALSE /\ UNCHANGED commandVars

WaitDelayExpires ==
  /\ waitsFor = "pipe"
  /\ writers # {}
  /\ waitsFor' = "escalation"
  /\ cutOff' = TRUE
  /\ result' = WithError("waitDelay")
  /\ UNCHANGED <<processVars, reaped, succeeded, cancelled, watcherVars, escalation,
                 interrupted>>

ReturnAtOnce ==
  /\ waitsFor = "escalation"
  /\ waitsFor' = "returned"
  /\ UNCHANGED <<processVars, reaped, succeeded, cancelled, watcherVars, escalation,
                 cutOff, result, interrupted>>

(* close(commandReturned); <-escalationFinished                            *)
Return ==
  /\ waitsFor = "escalation"
  /\ escalation \in {"delivered", "unneeded"}
  /\ waitsFor' = "returned"
  /\ UNCHANGED <<processVars, reaped, succeeded, cancelled, watcherVars, escalation,
                 cutOff, result, interrupted>>

-----------------------------------------------------------------------------
(* The watcher: SIGINT to the group, and WaitDelay later SIGKILL to the    *)
(* shell alone and an end to the pipe.                                     *)

Interrupt ==
  /\ watcher = "select"
  /\ cancelled
  /\ watcherError' = signalProcessGroup
  /\ interruptProcessGroup
  /\ interrupted' = (group # {})
  /\ watcher' = "delay"
  /\ UNCHANGED <<reaped, succeeded, cancelled, waitsFor, escalation, cutOff, result>>

KillShell ==
  /\ watcher = "delay"
  /\ Die({Shell} \cap running)
  /\ cutOff' = (writers \ {Shell} # {})
  /\ watcherError' = IF watcherError = "none" /\ reaped /\ cutOff'
                       THEN "waitDelay" ELSE watcherError
  /\ watcher' = "late"
  /\ UNCHANGED <<reaped, succeeded, cancelled, waitsFor, escalation, result, interrupted>>

-----------------------------------------------------------------------------
(* The escalation.                                                         *)

SeeCancellation ==
  /\ escalation = "select"
  /\ cancelled
  /\ escalation' = "grace"
  /\ UNCHANGED <<processVars, reaped, succeeded, cancelled, waitsFor, watcherVars, cutOff,
                 result, interrupted>>

SeeReturn ==
  /\ escalation = "select"
  /\ waitsFor = "escalation"
  /\ escalation' = "unneeded"
  /\ UNCHANGED <<processVars, reaped, succeeded, cancelled, waitsFor, watcherVars, cutOff,
                 result, interrupted>>

(* A poll finds nothing left, also once the shell alone is gone.           *)
PollSeesTheShellGone ==
  /\ escalation = "grace"
  /\ reaped
  /\ escalation' = "delivered"
  /\ UNCHANGED <<processVars, reaped, succeeded, cancelled, waitsFor, watcherVars, cutOff,
                 result, interrupted>>

PollSeesNobody ==
  /\ escalation = "grace"
  /\ ~processGroupExists
  /\ escalation' = "delivered"
  /\ UNCHANGED <<processVars, reaped, succeeded, cancelled, waitsFor, watcherVars, cutOff,
                 result, interrupted>>

GraceExpires ==
  /\ escalation = "grace"
  /\ killProcessGroup
  /\ escalation' = "delivered"
  /\ UNCHANGED <<reaped, succeeded, cancelled, waitsFor, watcherVars, cutOff, result,
                 interrupted>>

-----------------------------------------------------------------------------
RunStep ==
  \/ Start \/ StartFails \/ WaitProcess \/ TakeFromWatcher
  \/ PipeEnds \/ WaitDelayExpires \/ Return
WatcherStep == Interrupt \/ KillShell
EscalationStep == SeeCancellation \/ SeeReturn \/ PollSeesNobody \/ GraceExpires

CommandNext ==
  \/ RunStep \/ WatcherStep \/ EscalationStep
  \/ CancelContext
  \/ \E p \in Processes : Exit(p) \/ \E job \in Jobs : Fork(p, job)

CommandSpec == CommandInit /\ [][CommandNext]_commandVars

(* The goroutines run on and their timers expire; no process need ever     *)
(* exit of itself, and nobody need cancel.                                 *)
FairCommandSpec ==
  /\ CommandSpec
  /\ WF_commandVars(RunStep)
  /\ WF_commandVars(WatcherStep)
  /\ WF_commandVars(EscalationStep)

-----------------------------------------------------------------------------
(* Properties.                                                             *)

(* When the escalation has seen a cancellation and come to its end, nobody *)
(* of the group is left, background jobs that ignore SIGINT included, and  *)
(* nobody joins it again; Run returns only after that end.                 *)
EscalationLeavesNobody ==
  /\ escalation = "delivered" => group = {}
  /\ waitsFor = "returned" => escalation \in {"none", "delivered", "unneeded"}

(* A command that was interrupted is never reported as one that succeeded, *)
(* whatever its shell makes of the signal.                                 *)
InterruptedIsNoSuccess ==
  waitsFor = "returned" /\ interrupted => result # "ok"

(* A command is reported to have succeeded only with the whole of its      *)
(* output: its pipe was not closed on a process that could still write.    *)
SuccessHasAllOutput ==
  waitsFor = "returned" /\ result = "ok" => ~cutOff

(* The inductive invariant of the proofs: where the three goroutines stand *)
(* beside each other, that the watcher has an error to hand over whenever  *)
(* it interrupted somebody, and that no pipe is cut off without an error.  *)
ShellLeadsTheGroup ==
  /\ watcher # "none" => Shell \in born
  /\ Shell \in running => Shell \in group

GoroutinesInStep ==
  /\ watcher = "none" <=> escalation = "none"
  /\ waitsFor = "start" => watcher = "none" /\ ~reaped
  /\ waitsFor \in {"process", "watcher"} => watcher \in {"select", "delay", "late"}
  /\ waitsFor \in {"pipe", "escalation"} => watcher = "ended"
  /\ waitsFor = "returned" => watcher \in {"none", "ended"}

ErrorsAreHandedOver ==
  /\ watcher \in {"none", "select"} => watcherError = "none" /\ ~interrupted /\ ~cutOff
  /\ watcher \in {"delay", "late"} /\ watcherError = "none" => reaped
  /\ interrupted => watcherError = "cancelled"
  /\ watcher = "delay" => ~cutOff
  /\ watcher = "late" /\ cutOff => watcherError # "none"
  /\ watcher = "ended" /\ (watcherError # "none" \/ cutOff) => result # "ok"

CommandIInv ==
  /\ CommandTypeOK /\ EscalationLeavesNobody
  /\ ShellLeadsTheGroup /\ GoroutinesInStep /\ ErrorsAreHandedOver

(* What the caller sees of all this: a command as StoppableCommand has it. *)
CommandPhase ==
  IF waitsFor = "start" THEN "idle"
  ELSE IF waitsFor = "returned" THEN "over"
  ELSE IF escalation = "grace" THEN "stopping"
  ELSE IF escalation = "delivered" THEN "stopped"
  ELSE "running"

ShellStatus ==
  IF Shell \notin born \ running THEN "none" ELSE IF succeeded THEN "good" ELSE "bad"

CommandAnswer == IF waitsFor = "returned" THEN result ELSE "none"

Promised == INSTANCE StoppableCommand WITH
  Leader    <- Shell,
  Followers <- Jobs,
  phase     <- CommandPhase,
  members   <- group,
  asked     <- cancelled,
  warned    <- interrupted,
  lost      <- cutOff,
  status    <- ShellStatus,
  answer    <- CommandAnswer

(* The three goroutines together are a command that can be stopped:        *)
(* whoever asks for its end gets it with nobody left of the group, unless  *)
(* it was over before that was seen, and every answer of Run is true.      *)
ImplementsStoppableCommand == Promised!StoppableSpec

(* Once the shell has ended or the context is done, Run returns, whoever   *)
(* holds the pipe and whatever ignores SIGINT.                             *)
RunReturns ==
  (cancelled \/ Shell \in born \ running) ~> waitsFor = "returned"

(* "so a cancelled command has nothing of its own left running by the time *)
(* Run returns" (childprocess.go:115).                                     *)
NothingIsLeftRunning ==
  waitsFor = "returned" /\ interrupted => group = {}
=============================================================================
