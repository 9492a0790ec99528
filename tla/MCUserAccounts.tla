--------------------------- MODULE MCUserAccounts ---------------------------
(* Instances of UserAccounts for TLC: a registration of the login type     *)
(* PHONE, and one of another for a user id that a provider vouches for.    *)
EXTENDS UserAccounts

CONSTANTS p1, s1, k1
MCRegistrations == {<<p1, k1>>, <<s1, None>>}
=============================================================================
