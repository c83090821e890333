--------------------------- MODULE MCSessionFiles ---------------------------
(***************************************************************************)
(* Two callers, a plan of one task and what builds add to it, and a pad of *)
(* two notes.                                                              *)
(***************************************************************************)
EXTENDS SessionFiles, TLC

ATask(name, status) == [task |-> name, status |-> status]

(* A task that is reported together with its end.                          *)
MCUpdates   == {<<ATask("t", "done")>>}
(* A task somebody ticked off by hand.                                     *)
MCFirstPlan == <<ATask("t", "done"), ATask("t", "pending")>>
CallersAlike == Permutations(Callers) \cup Permutations(Keys)
=============================================================================
