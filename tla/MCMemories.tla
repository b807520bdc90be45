----------------------------- MODULE MCMemories -----------------------------
(***************************************************************************)
(* Instances of Memories for TLC.                                          *)
(***************************************************************************)
EXTENDS Memories, TLC

Symmetry == Permutations(Ids) \cup Permutations(Calls)
=============================================================================
