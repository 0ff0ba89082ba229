------------------------------ MODULE Balancer ------------------------------
(***************************************************************************)
(* The choice of a pool for a request when the engines come from the       *)
(* configuration (balancePool, pkg/plugins/pool/grpc/options.go).  The     *)
(* table of pools does not change any more in this mode, but sizes and     *)
(* health do while the function goes through it: every call of Size and    *)
(* every read of a status is a step.                                       *)
(***************************************************************************)
EXTENDS Integers, FiniteSets

CONSTANTS
  Pools,     \* keys of the map
  NoPool,    \* the empty key, index before anything is chosen; also the nil *Pool
  Capacity   \* the capacity of each pool

ASSUME BalancerAssumption ==
  /\ IsFiniteSet(Pools) /\ NoPool \notin Pools
  /\ Capacity \in [Pools -> Nat \ {0}]

VARIABLES
  pools,      \* the keys the configuration has put into the map
  idle,       \* clients in the channel of each pool, what Size returns
  status,     \* the health flag of each pool
  pc, left,   \* where balancePool is, the keys it has still to visit
  size, index, sumSize, indexRand,  \* its local variables
  cur, pSize, \* the key it visits and the size it has read of it
  moved,      \* history: sizes or health changed since the function was entered
  steady      \* history: pools that were up all the time since then

env    == <<pools, idle, status>>
Up     == {p \in pools : status[p]}
locals == <<left, size, index, sumSize, indexRand, cur, pSize>>
vars   == <<env, pc, locals, moved, steady>>

\* newGrpcPool fills every pool and NewPool marks it as healthy.
Init ==
  /\ pools \in SUBSET Pools
  /\ idle = Capacity
  /\ status = [p \in Pools |-> TRUE]
  /\ pc = "idle"
  /\ left = {} /\ size = 0 /\ index = NoPool /\ sumSize = 0 /\ indexRand = {}
  /\ cur = NoPool /\ pSize = 0
  /\ moved = FALSE /\ steady = {}

-----------------------------------------------------------------------------
(* Other requests and the health check.                                    *)

\* A choice that was made is used up by the next step of the others; a panic ends
\* the process.
Meanwhile ==
  /\ pc # "panicked"
  /\ pc' = IF pc = "picked" THEN "idle" ELSE pc
  /\ moved' = TRUE

Take(p) ==
  /\ idle[p] > 0
  /\ idle' = [idle EXCEPT ![p] = @ - 1]
  /\ Meanwhile
  /\ UNCHANGED <<pools, status, locals, steady>>

Give(p) ==
  /\ idle[p] < Capacity[p]
  /\ idle' = [idle EXCEPT ![p] = @ + 1]
  /\ Meanwhile
  /\ UNCHANGED <<pools, status, locals, steady>>

Health(p) ==
  /\ status' = [status EXCEPT ![p] = ~@]
  /\ Meanwhile
  /\ steady' = steady \ {p}
  /\ UNCHANGED <<pools, idle, locals>>

-----------------------------------------------------------------------------
(* balancePool                                                             *)

\* An empty map gives nil, and a single pool is chosen whatever its status;
\* several are gone through.
Enter ==
  /\ pc \in {"idle", "picked"}
  /\ size' = 0 /\ sumSize' = 0 /\ indexRand' = {} /\ cur' = NoPool /\ pSize' = 0
  /\ CASE pools = {}             -> index' = NoPool /\ left' = {} /\ pc' = "picked"
       [] Cardinality(pools) = 1 -> index' \in pools /\ left' = {} /\ pc' = "picked"
       [] OTHER                  -> index' = NoPool /\ left' = pools /\ pc' = "scan"
  /\ moved' = FALSE /\ steady' = Up
  /\ UNCHANGED env

\* range pools: a pool that is down is skipped.
Visit(p) ==
  /\ pc = "scan" /\ p \in left
  /\ left' = left \ {p}
  /\ IF status[p]
       THEN cur' = p /\ pc' = "size"
       ELSE UNCHANGED <<cur, pc>>
  /\ UNCHANGED <<env, size, index, sumSize, indexRand, pSize, moved, steady>>

\* pSize := pool.Size()
ReadSize ==
  /\ pc = "size" /\ pc' = "add"
  /\ pSize' = idle[cur]
  /\ UNCHANGED <<env, left, size, index, sumSize, indexRand, cur, moved, steady>>

\* Mutant of Add: only a pool that becomes the largest is remembered.
AddOnlyLarger ==
  /\ pc = "add" /\ pc' = "scan"
  /\ sumSize' = sumSize + idle[cur]
  /\ IF size < pSize
       THEN size' = pSize /\ index' = cur /\ indexRand' = indexRand \cup {cur}
       ELSE UNCHANGED <<size, index, indexRand>>
  /\ UNCHANGED <<env, left, cur, pSize, moved, steady>>

\* Mutant of Add: size = pSize is missing, so the last pool wins.
AddLastWins ==
  /\ pc = "add" /\ pc' = "scan"
  /\ sumSize' = sumSize + idle[cur]
  /\ index' = cur /\ indexRand' = indexRand \cup {cur}
  /\ UNCHANGED <<env, left, size, cur, pSize, moved, steady>>

\* sumSize += pool.Size(), a second read; the last of the largest pools wins.
Add ==
  /\ pc = "add"
  /\ sumSize' = sumSize + idle[cur]
  /\ IF size <= pSize
       THEN size' = pSize /\ index' = cur
       ELSE UNCHANGED <<size, index>>
  /\ indexRand' = indexRand \cup {cur}
  /\ pc' = "scan"
  /\ UNCHANGED <<env, left, cur, pSize, moved, steady>>

\* All sizes were zero: one of the pools that are up, at random.  rand.Intn(0)
\* panics.
Pick ==
  /\ pc = "scan" /\ left = {}
  /\ IF sumSize # 0
       THEN pc' = "picked" /\ UNCHANGED index
       ELSE IF indexRand = {}
         THEN pc' = "panicked" /\ UNCHANGED index
         ELSE pc' = "picked" /\ index' \in indexRand
  /\ UNCHANGED <<env, left, size, sumSize, indexRand, cur, pSize, moved, steady>>

-----------------------------------------------------------------------------

Environment == \E p \in pools : Take(p) \/ Give(p) \/ Health(p)
BalancePool == Enter \/ (\E p \in pools : Visit(p)) \/ ReadSize \/ Add \/ Pick

Next == Environment \/ BalancePool

Spec == Init /\ [][Next]_vars

-----------------------------------------------------------------------------
(* Properties                                                              *)

TypeOK ==
  /\ pools \subseteq Pools
  /\ idle \in [Pools -> Nat] /\ \A p \in Pools : idle[p] <= Capacity[p]
  /\ status \in [Pools -> BOOLEAN]
  /\ pc \in {"idle", "scan", "size", "add", "picked", "panicked"}
  /\ left \subseteq pools /\ indexRand \subseteq pools
  /\ size \in Nat /\ sumSize \in Nat /\ pSize \in Nat
  /\ index \in pools \cup {NoPool}
  /\ cur \in pools \cup {NoPool} /\ (pc \in {"size", "add"} => cur \in pools)
  /\ moved \in BOOLEAN /\ steady \subseteq pools

\* Whatever the sizes and the health of the pools become during the choice, one
\* pool that is up all the while is enough: the function panics only when each of
\* several pools was down at some moment of it.  It returns nil only for an empty
\* map, and a single pool it never doubts.
AlwaysPicks ==
  /\ pc = "panicked" => steady = {} /\ Cardinality(pools) > 1
  /\ pc = "picked" => index \in pools \/ pools = {}

\* If nothing moved meanwhile the pool chosen among several has, of the pools that
\* are up, the most clients to spare; ties and empty pools are chosen among freely.
PicksMostIdle ==
  pc = "picked" /\ ~moved /\ Cardinality(pools) > 1 =>
    index \in Up /\ \A p \in Up : idle[p] <= idle[index]

=============================================================================
