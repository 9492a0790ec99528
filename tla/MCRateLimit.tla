---------------------------- MODULE MCRateLimit ----------------------------
(* Instances of RateLimit for TLC.                                         *)
EXTENDS RateLimit, TLC

(* Users are alike, and so are threads.                                    *)
Sym == Permutations(Users) \cup Permutations(Threads)
=============================================================================
