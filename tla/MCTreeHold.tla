----------------------------- MODULE MCTreeHold -----------------------------
(***************************************************************************)
(* Three scorers of one tree; they are interchangeable.                    *)
(***************************************************************************)
EXTENDS TreeHold, TLC

Symmetry == Permutations(Runs)
=============================================================================
