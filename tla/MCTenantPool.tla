---------------------------- MODULE MCTenantPool ----------------------------
(* TenantPool for TLC: two asr pools and one tts pool of several sizes in a  *)
(* cluster of three nodes, four entries in the tenant configuration.         *)
EXTENDS TenantPool, TLC

CONSTANTS p1, p2, p3, t1, t2, t3, t4

PoolSizes == (p1 :> {1, 7}) @@ (p2 :> {1, 2}) @@ (p3 :> {1})
Fits      == (t1 :> 2) @@ (t2 :> 1) @@ (t3 :> 1) @@ (t4 :> 1)
TwoScenes == (t1 :> "a") @@ (t2 :> "b") @@ (t3 :> "b") @@ (t4 :> "a")
Kinds     == [o \in {p1, p2, t1, t2, t3} |-> "asr"] @@ [o \in {p3, t4} |-> "tts"]

=============================================================================
