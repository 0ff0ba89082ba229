---------------------------- MODULE MCClientPool ----------------------------
(* ClientPool for TLC: interchangeable slots and interchangeable clients.  *)
EXTENDS ClientPool, TLC

Symmetry == Permutations(Requests) \cup Permutations(Clients)

=============================================================================
