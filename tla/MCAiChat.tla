------------------------------ MODULE MCAiChat ------------------------------
(* Instances of AiChat for TLC.                                            *)
EXTENDS AiChat, TLC

Sym == Permutations(Threads)
=============================================================================
