--------------------------- MODULE MCPublicArchive ---------------------------
(* Instances of PublicArchive for TLC.                                     *)
EXTENDS PublicArchive, TLC

(* Files are alike, and so are archives and threads.                       *)
Sym == Permutations(Files) \cup Permutations(Archives) \cup Permutations(Threads)
=============================================================================
