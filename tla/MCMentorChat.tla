---------------------------- MODULE MCMentorChat ----------------------------
(* Instances of MentorChat for TLC.                                        *)
EXTENDS MentorChat, TLC

(* Mentors are alike, and so are threads.                                  *)
SymMentors == Permutations(Mentors)
Sym == SymMentors \cup Permutations(Threads)
=============================================================================
