--------------------------- MODULE MCChildProcess ---------------------------
(***************************************************************************)
(* A shell and two jobs: one that stays in the group and ignores SIGINT,   *)
(* and one that leaves it with the pipe.                                   *)
(***************************************************************************)
EXTENDS ChildProcess
=============================================================================
