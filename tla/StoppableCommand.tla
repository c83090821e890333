-------------------------- MODULE StoppableCommand --------------------------
(***************************************************************************)
(* What a command that can be stopped promises to its caller.  It is       *)
(* running, being stopped, or gone; being stopped ends with nobody left of *)
(* its processes, for good; and the answer of one that is over is true.    *)
(***************************************************************************)
CONSTANTS
  Leader,      (* the process the caller starts                             *)
  Followers    (* those that it, or one of them, can start                  *)

VARIABLES
  phase,       (* "idle", "running", "stopping", "stopped" or "over"        *)
  members,     (* the processes of the command                              *)
  asked,       (* the caller has asked for its end                          *)
  warned,      (* SIGINT was sent to processes of the command               *)
  lost,        (* its output was given up before its end                    *)
  status,      (* "none", or how the leader ended: "good" or "bad"          *)
  answer       (* "none" until the command is over                          *)

stoppableVars == <<phase, members, asked, warned, lost, status, answer>>

Init ==
  /\ phase = "idle" /\ members = {} /\ status = "none" /\ answer = "none"
  /\ asked = FALSE /\ warned = FALSE /\ lost = FALSE

Started == phase \in {"running", "stopping", "stopped"}

(* A process that is made to end fails; one that ends of itself may not.   *)
Kill(ps) ==
  /\ members' = members \ ps
  /\ status' = IF Leader \in members \cap ps THEN "bad" ELSE status

Launch ==
  /\ phase = "idle" /\ ~asked
  /\ phase' = "running"
  /\ members' = {Leader}
  /\ UNCHANGED <<asked, warned, lost, status, answer>>

Refuse ==
  /\ phase = "idle"
  /\ phase' = "over"
  /\ answer' \in {"notStarted"} \cup {a \in {"cancelled"} : asked}
  /\ UNCHANGED <<members, asked, warned, lost, status>>

(* Nobody joins a command of which nobody is left.                         *)
Join(p) ==
  /\ members # {}
  /\ members' = members \cup {p}
  /\ UNCHANGED <<phase, asked, warned, lost, status, answer>>

End(p) ==
  /\ p \in members
  /\ members' = members \ {p}
  /\ status' \in IF p = Leader THEN {"good", "bad"} ELSE {status}
  /\ UNCHANGED <<phase, asked, warned, lost, answer>>

Ask ==
  /\ phase # "over"
  /\ asked' = TRUE
  /\ UNCHANGED <<phase, members, warned, lost, status, answer>>

-----------------------------------------------------------------------------
(* Nothing is done to a command whose end nobody asked for, but that its   *)
(* output is given up once its leader has ended.                           *)

Warn ==
  /\ Started /\ asked /\ ~warned /\ members # {}
  /\ warned' = TRUE
  /\ \E ps \in SUBSET members : Kill(ps)
  /\ UNCHANGED <<phase, asked, lost, answer>>

GiveUp ==
  /\ Started
  /\ asked \/ Leader \notin members
  /\ lost' \in {lost, TRUE}
  /\ Kill({Leader})
  /\ UNCHANGED <<phase, asked, warned, answer>>

BeginToStop ==
  /\ phase = "running" /\ asked
  /\ phase' = "stopping"
  /\ UNCHANGED <<members, asked, warned, lost, status, answer>>

Stopped ==
  /\ phase = "stopping"
  /\ phase' = "stopped"
  /\ Kill(members)
  /\ UNCHANGED <<asked, warned, lost, answer>>

(* Who was warned did not succeed, nor did a command without its output.   *)
TrueAnswers ==
  IF status = "bad" THEN {"exitError"}
  ELSE {a \in {"ok"} : ~warned /\ ~lost} \cup {a \in {"cancelled"} : asked}
         \cup {a \in {"waitDelay"} : ~warned /\ lost}

(* A command that is being stopped is not over before it is stopped; one   *)
(* that ends before the request was seen is over with whom it leaves.      *)
Answer ==
  /\ phase \in {"running", "stopped"}
  /\ status # "none"
  /\ phase' = "over"
  /\ answer' \in TrueAnswers
  /\ UNCHANGED <<members, asked, warned, lost, status>>

Next ==
  \/ Launch \/ Refuse \/ Ask \/ Warn \/ GiveUp \/ BeginToStop \/ Stopped \/ Answer
  \/ \E p \in Followers : Join(p)
  \/ \E p \in members : End(p)

StoppableSpec == Init /\ [][Next]_stoppableVars
=============================================================================
