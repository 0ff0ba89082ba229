--------------------------- MODULE BalancerProofs ---------------------------
(***************************************************************************)
(* Theorems about Balancer, for any pools, capacities and changes of sizes *)
(* and health during a choice.                                             *)
(***************************************************************************)
EXTENDS Balancer, FiniteSetTheorems, TLAPS

-----------------------------------------------------------------------------
(* Typing                                                                  *)

LEMMA TypeInit == Init => TypeOK
<1> SUFFICES ASSUME Init
             PROVE  TypeOK
  OBVIOUS
<1>1. idle \in [Pools -> Nat] /\ \A p \in Pools : idle[p] <= Capacity[p]
  <2>1. \A p \in Pools : Capacity[p] \in Nat
    BY BalancerAssumption
  <2>2. QED
    BY <2>1, BalancerAssumption DEF Init
<1>2. QED
  BY <1>1 DEF Init, TypeOK

LEMMA TypeStep == TypeOK /\ [Next]_vars => TypeOK'
<1> SUFFICES ASSUME TypeOK, [Next]_vars
             PROVE  TypeOK'
  OBVIOUS
<1> USE BalancerAssumption DEF TypeOK, env, locals
<1>1. ASSUME NEW p \in pools, Take(p)
      PROVE  TypeOK'
  BY <1>1 DEF Take, Meanwhile
<1>2. ASSUME NEW p \in pools, Give(p)
      PROVE  TypeOK'
  BY <1>2 DEF Give, Meanwhile
<1>3. ASSUME NEW p \in pools, Health(p)
      PROVE  TypeOK'
  BY <1>3 DEF Health, Meanwhile
<1>4. CASE Enter
  BY <1>4 DEF Enter, Up
<1>5. ASSUME NEW p \in pools, Visit(p)
      PROVE  TypeOK'
  BY <1>5 DEF Visit
<1>6. CASE Add
  <2>1. cur \in Pools /\ idle[cur] \in Nat
    BY <1>6 DEF Add
  <2>2. QED
    BY <1>6, <2>1 DEF Add
<1>7. CASE Pick
  BY <1>7 DEF Pick
<1>8. CASE UNCHANGED vars
  BY <1>8 DEF vars
<1>9. CASE ReadSize
  <2>1. cur \in Pools /\ idle[cur] \in Nat
    BY <1>9 DEF ReadSize
  <2>2. QED
    BY <1>9, <2>1 DEF ReadSize
<1>10. QED
  BY <1>1, <1>2, <1>3, <1>4, <1>5, <1>6, <1>7, <1>8, <1>9 DEF Next, Environment, BalancePool

\* Sizes stay within capacities, and balancePool adds up a pool it has visited.
THEOREM TypeCorrect == Spec => []TypeOK
<1>1. QED
  BY TypeInit, TypeStep, PTL DEF Spec

-----------------------------------------------------------------------------
(* A pool is always chosen                                                 *)

Scanning == pc \in {"scan", "size", "add"}

\* Only a map of several pools is gone through.
LEMMA SeveralPools ==
  ASSUME TypeOK, pools # {}, Cardinality(pools) # 1
  PROVE  Cardinality(pools) > 1
<1>1. IsFiniteSet(pools)
  BY FS_Subset, BalancerAssumption DEF TypeOK
<1>2. Cardinality(pools) \in Nat /\ Cardinality(pools) # 0
  BY <1>1, FS_CardinalityType, FS_EmptySet
<1>3. QED
  BY <1>2

\* A pool that has been up since the function was entered is still to be visited,
\* is being visited or can be chosen; and as soon as one can be chosen, index
\* names one.
PickInv ==
  /\ TypeOK
  /\ Scanning =>
       /\ Cardinality(pools) > 1
       /\ \A p \in steady :
            status[p] /\ (p \in left \/ p \in indexRand \/ (pc # "scan" /\ p = cur))
       /\ indexRand # {} => index \in pools
       /\ size > 0 \/ sumSize > 0 => indexRand # {}
  /\ AlwaysPicks

LEMMA PickInit == Init => PickInv
BY TypeInit, BalancerAssumption DEF Init, PickInv, Scanning, AlwaysPicks

LEMMA PickStep == PickInv /\ [Next]_vars => PickInv'
<1> SUFFICES ASSUME PickInv, [Next]_vars
             PROVE  PickInv'
  OBVIOUS
<1> USE BalancerAssumption DEF env, locals, Scanning
<1>0. TypeOK' /\ TypeOK
  BY TypeStep DEF PickInv
<1>1. ASSUME NEW p \in pools, Take(p) \/ Give(p)
      PROVE  PickInv'
  BY <1>0, <1>1 DEF Take, Give, Meanwhile, PickInv, AlwaysPicks
<1>2. ASSUME NEW p \in pools, Health(p)
      PROVE  PickInv'
  <2>1. /\ pc # "panicked" /\ pc' # "panicked" /\ pc' # "picked"
        /\ Scanning' => Scanning /\ pc' = pc
        /\ UNCHANGED <<pools, locals>>
    BY <1>2 DEF Health, Meanwhile
  <2>2. Scanning => \A q \in steady' : q \in steady /\ status'[q]
    BY <1>0, <1>2 DEF Health, PickInv, TypeOK
  <2>3. QED
    BY <1>0, <2>1, <2>2 DEF PickInv, AlwaysPicks
<1>3. CASE Enter
  <2>1. CASE pools = {}
    BY <1>0, <1>3, <2>1 DEF Enter, PickInv, AlwaysPicks
  <2>2. CASE pools # {} /\ Cardinality(pools) = 1
    BY <1>0, <1>3, <2>2 DEF Enter, PickInv, AlwaysPicks
  <2>3. CASE pools # {} /\ Cardinality(pools) # 1
    <3>1. /\ pc' = "scan" /\ left' = pools /\ indexRand' = {} /\ size' = 0 /\ sumSize' = 0
          /\ steady' = Up /\ UNCHANGED <<pools, status>>
      BY <1>3, <2>3 DEF Enter
    <3>2. Cardinality(pools) > 1
      BY <1>0, <2>3, SeveralPools
    <3>3. QED
      BY <1>0, <3>1, <3>2 DEF PickInv, AlwaysPicks, Up
  <2>4. QED
    BY <2>1, <2>2, <2>3
<1>4. ASSUME NEW p \in pools, Visit(p)
      PROVE  PickInv'
  BY <1>0, <1>4 DEF Visit, PickInv, AlwaysPicks
<1>5. CASE ReadSize
  BY <1>0, <1>5 DEF ReadSize, PickInv, AlwaysPicks
<1>6. CASE Add
  <2>1. /\ pc = "add" /\ pc' = "scan" /\ cur \in pools
        /\ indexRand' = indexRand \cup {cur}
        /\ UNCHANGED <<pools, status, left, steady>>
    BY <1>0, <1>6 DEF Add, TypeOK
  <2>2. index' \in pools
    <3>1. CASE size <= pSize
      BY <1>6, <2>1, <3>1 DEF Add
    <3>2. CASE ~(size <= pSize)
      <4>1. size > 0
        BY <1>0, <3>2 DEF TypeOK
      <4>2. QED
        BY <1>6, <2>1, <3>2, <4>1 DEF Add, PickInv
    <3>3. QED
      BY <3>1, <3>2
  <2>3. QED
    BY <1>0, <2>1, <2>2 DEF PickInv, AlwaysPicks
<1>7. CASE Pick
  <2>1. /\ pc = "scan" /\ left = {} /\ Cardinality(pools) > 1
        /\ UNCHANGED <<pools, status, steady>>
    BY <1>7 DEF Pick, PickInv
  <2>2. CASE indexRand = {}
    <3>1. sumSize = 0 /\ steady = {}
      BY <1>0, <2>1, <2>2 DEF PickInv, TypeOK
    <3>2. pc' = "panicked"
      BY <1>7, <2>2, <3>1 DEF Pick
    <3>3. QED
      BY <1>0, <2>1, <3>1, <3>2 DEF PickInv, AlwaysPicks
  <2>3. CASE indexRand # {}
    <3>1. index \in pools /\ indexRand \subseteq pools
      BY <1>0, <2>1, <2>3 DEF PickInv, TypeOK
    <3>2. pc' = "picked" /\ index' \in pools
      BY <1>7, <2>3, <3>1 DEF Pick
    <3>3. QED
      BY <1>0, <2>1, <3>2 DEF PickInv, AlwaysPicks
  <2>4. QED
    BY <2>2, <2>3
<1>8. CASE UNCHANGED vars
  BY <1>0, <1>8 DEF vars, PickInv, AlwaysPicks
<1>9. QED
  BY <1>1, <1>2, <1>3, <1>4, <1>5, <1>6, <1>7, <1>8 DEF Next, Environment, BalancePool

\* balancePool panics only when each of several pools was down at some moment of
\* the choice, and returns no pool only for an empty map, however sizes and health
\* change between its reads.
THEOREM Picks == Spec => []AlwaysPicks
<1>1. PickInv => AlwaysPicks
  BY DEF PickInv
<1>2. QED
  BY <1>1, PickInit, PickStep, PTL DEF Spec

-----------------------------------------------------------------------------
(* The pool chosen is the one with most to spare                           *)

\* While nothing moved, what balancePool has read is true of the pools it has
\* gone through.
SpareInv ==
  /\ TypeOK
  /\ Scanning /\ ~moved =>
       /\ indexRand \subseteq Up
       /\ \A p \in Up : p \in left \/ p \in indexRand \/ (pc # "scan" /\ p = cur)
       /\ pc # "scan" => cur \in Up
       /\ pc = "add" => pSize = idle[cur]
       /\ \A p \in indexRand : idle[p] <= size
       /\ indexRand # {} => index \in indexRand /\ idle[index] = size
       /\ indexRand = {} => size = 0 /\ sumSize = 0
       /\ sumSize = 0 => \A p \in indexRand : idle[p] = 0
  /\ PicksMostIdle

LEMMA SpareInit == Init => SpareInv
BY TypeInit DEF Init, SpareInv, Scanning, PicksMostIdle

LEMMA SpareStep == SpareInv /\ [Next]_vars => SpareInv'
<1> SUFFICES ASSUME SpareInv, [Next]_vars
             PROVE  SpareInv'
  OBVIOUS
<1> USE BalancerAssumption DEF env, locals, Scanning
<1>0. TypeOK' /\ TypeOK
  BY TypeStep DEF SpareInv
<1>1. CASE Environment
  <2>1. moved' /\ pc' # "picked"
    BY <1>0, <1>1 DEF Environment, Take, Give, Health, Meanwhile, TypeOK
  <2>2. QED
    BY <1>0, <2>1 DEF SpareInv, PicksMostIdle
<1>2. CASE Enter
  <2>1. CASE pools = {} \/ Cardinality(pools) = 1
    <3>1. pc' = "picked" /\ ~(Cardinality(pools') > 1)
      BY <1>2, <2>1, FS_EmptySet DEF Enter
    <3>2. QED
      BY <1>0, <3>1 DEF SpareInv, PicksMostIdle
  <2>2. CASE pools # {} /\ Cardinality(pools) # 1
    <3>1. /\ pc' = "scan" /\ left' = pools /\ indexRand' = {} /\ size' = 0 /\ sumSize' = 0
          /\ UNCHANGED <<pools, status>>
      BY <1>2, <2>2 DEF Enter
    <3>2. QED
      BY <1>0, <3>1 DEF SpareInv, PicksMostIdle, Up
  <2>3. QED
    BY <2>1, <2>2
<1>3. ASSUME NEW p \in pools, Visit(p)
      PROVE  SpareInv'
  BY <1>0, <1>3 DEF Visit, SpareInv, PicksMostIdle, Up, TypeOK
<1>4. CASE Add
  <2>1. /\ pc = "add" /\ pc' = "scan" /\ cur \in pools
        /\ indexRand' = indexRand \cup {cur}
        /\ sumSize' = sumSize + idle[cur]
        /\ UNCHANGED <<pools, idle, left, moved>> /\ Up' = Up
        /\ \A q \in pools : idle[q] \in Nat
    BY <1>0, <1>4 DEF Add, TypeOK, Up
  <2>2. CASE moved
    BY <1>0, <2>1, <2>2 DEF SpareInv, PicksMostIdle
  <2>3. CASE ~moved
    <3>1. indexRand \subseteq pools /\ cur \in Up /\ pSize = idle[cur]
      BY <1>0, <2>1, <2>3 DEF SpareInv, TypeOK
    <3>2. /\ index' \in indexRand' /\ idle[index'] = size'
          /\ \A p \in indexRand' : idle[p] <= size'
      <4>1. CASE size <= pSize
        BY <1>0, <1>4, <2>1, <2>3, <3>1, <4>1 DEF Add, SpareInv, TypeOK
      <4>2. CASE ~(size <= pSize)
        <5>1. indexRand # {}
          BY <1>0, <2>1, <2>3, <4>2 DEF SpareInv, TypeOK
        <5>2. QED
          BY <1>0, <1>4, <2>1, <2>3, <3>1, <4>2, <5>1 DEF Add, SpareInv, TypeOK
      <4>3. QED
        BY <4>1, <4>2
    <3>3. sumSize' = 0 => \A p \in indexRand' : idle[p] = 0
      BY <1>0, <2>1, <2>3, <3>1 DEF SpareInv, TypeOK
    <3>4. \A p \in Up : p \in left \/ p \in indexRand'
      BY <2>1, <2>3 DEF SpareInv
    <3>5. indexRand' \subseteq Up
      BY <2>1, <2>3, <3>1 DEF SpareInv
    <3>6. QED
      BY <1>0, <2>1, <3>2, <3>3, <3>4, <3>5 DEF SpareInv, PicksMostIdle
  <2>4. QED
    BY <2>2, <2>3
<1>5. CASE Pick
  <2>1. /\ pc = "scan" /\ left = {} /\ ~Scanning'
        /\ UNCHANGED <<pools, idle, moved>> /\ Up' = Up
    BY <1>5 DEF Pick, Up
  <2>2. CASE moved
    BY <1>0, <2>1, <2>2 DEF SpareInv, PicksMostIdle
  <2>3. CASE ~moved
    <3>1. indexRand = Up
      BY <2>1, <2>3 DEF SpareInv
    <3>2. pc' = "picked" => index' \in Up /\ \A p \in Up : idle[p] <= idle[index']
      <4>1. CASE sumSize # 0
        BY <1>5, <2>1, <2>3, <3>1, <4>1 DEF Pick, SpareInv
      <4>2. CASE sumSize = 0
        BY <1>5, <2>1, <2>3, <3>1, <4>2 DEF Pick, SpareInv
      <4>3. QED
        BY <4>1, <4>2
    <3>3. QED
      BY <1>0, <2>1, <3>2 DEF SpareInv, PicksMostIdle
  <2>4. QED
    BY <2>2, <2>3
<1>6. CASE UNCHANGED vars
  BY <1>0, <1>6 DEF vars, SpareInv, PicksMostIdle, Up
<1>7. CASE ReadSize
  BY <1>0, <1>7 DEF ReadSize, SpareInv, PicksMostIdle, Up, TypeOK
<1>8. QED
  BY <1>1, <1>2, <1>3, <1>4, <1>5, <1>6, <1>7 DEF Next, BalancePool

\* Of several pools the one chosen is up and has most clients to spare, if
\* nothing moved during the choice.  A single pool is chosen even if it is down.
THEOREM MostIdle == Spec => []PicksMostIdle
<1>1. SpareInv => PicksMostIdle
  BY DEF SpareInv
<1>2. QED
  BY <1>1, SpareInit, SpareStep, PTL DEF Spec

=============================================================================
