------------------------------ MODULE TreeHold ------------------------------
(***************************************************************************)
(* scripts/tree_hold.py: the hold a sabotage scorer takes on a working     *)
(* tree before it mutates it, so that two scorers never read each other's  *)
(* mutations as verdicts.  The hold is a file made with O_EXCL; a run that *)
(* finds one whose writer is gone removes it and tries once more.  Runs    *)
(* are processes: each system call is a step of its own, and a run can be  *)
(* killed before any of them.                                              *)
(***************************************************************************)
EXTENDS Integers, FiniteSets

CONSTANTS
  Runs,        (* processes, each entering exclusive_hold_on_tree once      *)
  NoFile,      (* nothing at the path of the hold                           *)
  Nobody       (* what _read_hold makes of no file, or of an empty one      *)

ASSUME RunsAssumption == Nobody \notin Runs /\ NoFile \notin Runs

VARIABLES
  hold,        (* the file at the path: NoFile, or who made it and whether  *)
               (* its text is written yet                                   *)
  at,          (* the next system call of each run                          *)
  attempt,     (* 1, or 2 after a reclaim                                   *)
  holder,      (* the pid a run read from the hold                          *)
  undisturbed  (* history: the runs no other run has been alive beside      *)

holdVars == <<hold, at, attempt, holder, undisturbed>>

Over == {"refused", "done", "killed"}
Calls == {"waiting", "create", "read", "judge", "unlink", "write", "holding",
          "readOwn", "unlinkOwn"} \cup Over

(* os.kill(pid, 0) finds the process.                                      *)
Alive(p) == at[p] \notin {"waiting"} \cup Over

Text == IF hold = NoFile \/ ~hold.written THEN Nobody ELSE hold.by

HoldInit ==
  /\ hold = NoFile
  /\ at = [p \in Runs |-> "waiting"]
  /\ attempt = [p \in Runs |-> 1]
  /\ holder = [p \in Runs |-> Nobody]
  /\ undisturbed = {}

Goto(p, from, to) == at[p] = from /\ at' = [at EXCEPT ![p] = to]

-----------------------------------------------------------------------------
Enter(p) ==
  /\ Goto(p, "waiting", "create")
  /\ undisturbed' = IF \E q \in Runs : Alive(q) THEN {} ELSE {p}
  /\ UNCHANGED <<hold, attempt, holder>>

(* os.open(path, O_CREAT | O_EXCL): the file is there, and still empty.    *)
Create(p) ==
  /\ Goto(p, "create", IF hold = NoFile THEN "write" ELSE "read")
  /\ hold' = IF hold = NoFile THEN [by |-> p, written |-> FALSE] ELSE hold
  /\ UNCHANGED <<attempt, holder, undisturbed>>

(* EEXIST: _read_hold, ...                                                 *)
Read(p) ==
  /\ Goto(p, "read", "judge")
  /\ holder' = [holder EXCEPT ![p] = Text]
  /\ UNCHANGED <<hold, attempt, undisturbed>>

(* ... and _holder_is_alive: False for what is no pid.                     *)
ReclaimsNothing(p) == FALSE

Reclaims(p) ==
  attempt[p] = 1 /\ (holder[p] = Nobody \/ ~Alive(holder[p]))

Judge(p) ==
  /\ Goto(p, "judge", IF Reclaims(p) THEN "unlink" ELSE "refused")
  /\ UNCHANGED <<hold, attempt, holder, undisturbed>>

(* os.unlink removes whatever is at the path by now; on to the next        *)
(* attempt.                                                                *)
Unlink(p) ==
  /\ Goto(p, "unlink", "create")
  /\ hold' = NoFile
  /\ attempt' = [attempt EXCEPT ![p] = @ + 1]
  /\ UNCHANGED <<holder, undisturbed>>

(* The text goes to the file this run made, wherever its name has gone.    *)
Write(p) ==
  /\ Goto(p, "write", "holding")
  /\ hold' = IF hold # NoFile /\ hold.by = p THEN [hold EXCEPT !.written = TRUE] ELSE hold
  /\ UNCHANGED <<attempt, holder, undisturbed>>

(* The write raises, and the `finally` of the hold runs.                   *)
WriteFails(p) ==
  /\ Goto(p, "write", "readOwn")
  /\ UNCHANGED <<hold, attempt, holder, undisturbed>>

(* The block ends, also by an exception, and the hold is read again.       *)
LeaveWithoutCleaning(p) ==
  /\ Goto(p, "holding", "done")
  /\ UNCHANGED <<hold, attempt, holder, undisturbed>>

Leave(p) ==
  /\ Goto(p, "holding", "readOwn")
  /\ UNCHANGED <<hold, attempt, holder, undisturbed>>

ReadOwn(p) ==
  /\ Goto(p, "readOwn", IF Text = p THEN "unlinkOwn" ELSE "done")
  /\ UNCHANGED <<hold, attempt, holder, undisturbed>>

UnlinkOwn(p) ==
  /\ Goto(p, "unlinkOwn", "done")
  /\ hold' = NoFile
  /\ UNCHANGED <<attempt, holder, undisturbed>>

Kill(p) ==
  /\ Alive(p)
  /\ at' = [at EXCEPT ![p] = "killed"]
  /\ UNCHANGED <<hold, attempt, holder, undisturbed>>

HoldStep(p) ==
  \/ Create(p) \/ Read(p) \/ Judge(p) \/ Unlink(p) \/ Write(p)
  \/ WriteFails(p) \/ Leave(p) \/ ReadOwn(p) \/ UnlinkOwn(p)

HoldNext == \E p \in Runs : Enter(p) \/ HoldStep(p) \/ Kill(p)

HoldSpec == HoldInit /\ [][HoldNext]_holdVars

-----------------------------------------------------------------------------
(* Properties.                                                             *)

(* "One run at a time per working tree".  A run that finds the hold made   *)
(* and not yet written takes it for litter, and of two that find litter    *)
(* the slower removes the hold the faster has just made.                   *)
OneRunPerTree ==
  \A p, q \in Runs : at[p] = "holding" /\ at[q] = "holding" => p = q

(* What a killed run leaves behind never shuts the tree: a run beside      *)
(* which no other is alive gets its hold, wherever earlier runs died.      *)
LitterNeverShutsTheTree == \A p \in undisturbed : at[p] # "refused"

(* A run whose block ended, however it ended, leaves no hold that names it *)
(* behind to be found by a process that gets its pid.                      *)
NoHoldOutlivesItsRun ==
  \A p \in Runs : at[p] = "done" => Text # p
=============================================================================
