---------------------------- MODULE ToolDatabase ----------------------------
(***************************************************************************)
(* What the rest of the system takes the database for, whatever its        *)
(* schema: tools and opt-ins that stay when the process does not, and an   *)
(* id counter that only moves up.  Requests change it while the service    *)
(* has it open and nothing else does, so opening it, with all the          *)
(* migrations that may need, changes nothing but `usable`.                 *)
(***************************************************************************)
EXTENDS Integers

VARIABLES
  tools,       (* the ids of the tools                                      *)
  optIns,      (* the ids of the tools opted in                             *)
  lastId,      (* the last id given to a tool                               *)
  usable       (* the service has it open                                   *)

databaseVars == <<tools, optIns, lastId, usable>>

DatabaseInit ==
  /\ lastId \in Nat
  /\ tools \subseteq 1 .. lastId
  /\ optIns \subseteq 1 .. lastId
  /\ usable = FALSE

(* An opt-in without its tool never gets into use.                         *)
BecomeUsable ==
  /\ ~usable
  /\ optIns \subseteq tools
  /\ usable' = TRUE
  /\ UNCHANGED <<tools, optIns, lastId>>

GoDown ==
  /\ usable
  /\ usable' = FALSE
  /\ UNCHANGED <<tools, optIns, lastId>>

Register ==
  /\ usable
  /\ lastId' = lastId + 1
  /\ tools' = tools \cup {lastId'}
  /\ UNCHANGED <<optIns, usable>>

Remove(id) ==
  /\ usable
  /\ id \in tools
  /\ tools' = tools \ {id}
  /\ optIns' = optIns \ {id}
  /\ UNCHANGED <<lastId, usable>>

OptInTo(id) ==
  /\ usable
  /\ id \in tools
  /\ optIns' = optIns \cup {id}
  /\ UNCHANGED <<tools, lastId, usable>>

DatabaseNext ==
  \/ BecomeUsable
  \/ GoDown
  \/ Register
  \/ \E id \in tools : Remove(id) \/ OptInTo(id)

DatabaseSpec == DatabaseInit /\ [][DatabaseNext]_databaseVars
=============================================================================
