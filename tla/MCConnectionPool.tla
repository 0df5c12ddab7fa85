-------------------------- MODULE MCConnectionPool --------------------------
(***************************************************************************)
(* Model checking of ConnectionPool: sessions, clients and identities are  *)
(* interchangeable.                                                        *)
(***************************************************************************)
EXTENDS ConnectionPool, TLC

Symmetry ==
  Permutations(Sessions) \cup Permutations(Clients) \cup Permutations(Identities)
=============================================================================
