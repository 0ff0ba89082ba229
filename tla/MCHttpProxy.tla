----------------------------- MODULE MCHttpProxy -----------------------------
(* HttpProxy for TLC: requests, contexts and buffers are given by the cfg   *)
(* files.  They are numbered in the order in which they are first seen,     *)
(* which excludes nothing but their renaming.                               *)
EXTENDS HttpProxy

FromFirst(seen) == \A i \in seen : 1..i \subseteq seen

InOrder ==
  /\ FromFirst({q \in Requests : handler[q] # "new"})
  /\ FromFirst({k \in Contexts : \E q \in Requests : ctx[q] = k})
  /\ FromFirst({b \in Buffers : \E q \in Requests : buffer[q] = b})

MCSpec == Init /\ [][Next /\ InOrder']_vars /\ Fairness

=============================================================================
