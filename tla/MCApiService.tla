---------------------------- MODULE MCApiService ----------------------------
(* Instances for TLC.                                                      *)
EXTENDS ApiService, TLC

CONSTANTS t1, t2, u1, u2, k1, k2

Sym == Permutations(Threads) \cup Permutations(Users) \cup Permutations(Keys)
=============================================================================
