----------------------------- MODULE MCBalancer -----------------------------
(* Balancer for TLC: up to three pools of different capacities.             *)
EXTENDS Balancer, TLC

CONSTANTS a, b, c

Unequal == (a :> 1) @@ (b :> 2) @@ (c :> 3)

=============================================================================
