-------------------------- MODULE MCArchiveRequests --------------------------
(* Instances of ArchiveRequests for TLC.                                   *)
EXTENDS ArchiveRequests, TLC

(* Admins are alike, and so are threads.                                   *)
Sym == Permutations(Admins) \cup Permutations(Threads)
=============================================================================
