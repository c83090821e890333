--------------------------- MODULE MCOutputBounds ---------------------------
(***************************************************************************)
(* Every file of up to five characters, whose bytes and lines lie on both  *)
(* sides of each limit, and every tree of up to four entries.              *)
(***************************************************************************)
EXTENDS OutputBounds

MCFiles == BoundedSeq(Chars, 5)
MCTrees == BoundedSeq(Entries, 4)
=============================================================================
