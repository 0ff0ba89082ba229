-------------------------- MODULE MCEngineRegistry --------------------------
(* EngineRegistry for TLC: interchangeable pools and scenes.               *)
EXTENDS EngineRegistry, TLC

PoolSymmetry == Permutations(Pools)

=============================================================================
