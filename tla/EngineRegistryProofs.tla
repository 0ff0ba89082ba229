------------------------ MODULE EngineRegistryProofs ------------------------
(***************************************************************************)
(* Theorems about EngineRegistry, for any engines, services, pools and     *)
(* bound on the changes of the cluster.                                    *)
(*                                                                         *)
(* ClosedPoolsLeave, EngineStillExists, and that the table is an           *)
(* EngineTable to its readers, hold for any number of updates and releases *)
(* beside discovery.  That discovery is the single writer of an            *)
(* EngineTable when it is alone needs in addition that nothing happens to  *)
(* the entry it works on between two of its lookups.                       *)
(***************************************************************************)
EXTENDS EngineRegistry, TLAPS

-----------------------------------------------------------------------------
(* Typing                                                                  *)

Points == {"idle", "list", "next", "exists", "compare", "endpoints", "livePod",
           "create", "store", "release", "close", "delete"}

PoolObject == [open : BOOLEAN, status : BOOLEAN, capacity : Capacities, addr : Addresses]

\* The health check has a pool from the moment it takes it to the moment it
\* sets its status.
TypeInv == TypeOK /\ (hpc \in {"probe", "set"} => hpool \in Pools)

LEMMA GotoTyped ==
  ASSUME pc \in [Tasks -> Points], NEW t \in Tasks, NEW l \in Points, Goto(t, l)
  PROVE  /\ pc' \in [Tasks -> Points]
         /\ pc'[t] = l
         /\ \A u \in Tasks \ {t} : pc'[u] = pc[u]
BY DEF Goto

LEMMA NameTyped ==
  ASSUME item \in [Tasks -> Service], NEW t \in Tasks
  PROVE  Name(t) \in Scenes
BY DEF Name, Service

LEMMA SomeService == AnyService \in Service /\ AnyService.cc \in Capacities
<1>1. \E s \in Service : TRUE
  <2>1. PICK n \in Scenes, c \in Capacities : TRUE
    BY RegistryAssumption
  <2>2. [name |-> n, cc |-> c] \in Service
    BY DEF Service
  <2>3. QED
    BY <2>2
<1>2. AnyService \in Service
  BY <1>1 DEF AnyService
<1>3. QED
  BY <1>2 DEF Service

LEMMA SomeAddress == AnyAddress \in Addresses
BY RegistryAssumption DEF AnyAddress

LEMMA TypeInit == Init => TypeInv
<1> SUFFICES ASSUME Init
             PROVE  TypeInv
  OBVIOUS
<1>1. pool \in [Pools -> PoolObject]
  BY SomeService, SomeAddress DEF Init, PoolObject
<1>2. /\ item \in [Tasks -> Service] /\ podIp \in [Tasks -> Addresses]
      /\ pod \in [Service -> Addresses]
  BY SomeService, SomeAddress DEF Init
<1>3. QED
  BY <1>1, <1>2, RegistryAssumption DEF Init, TypeInv, TypeOK, PoolObject

\* Closing a pool closes that pool and no other one.
LEMMA CloseFacts ==
  ASSUME pool \in [Pools -> PoolObject], NEW p \in Pools,
         pool' = [pool EXCEPT ![p] = ClosedObject(@)]
  PROVE  /\ pool' \in [Pools -> PoolObject]
         /\ ~pool'[p].open
         /\ pool'[p].capacity = pool[p].capacity
         /\ \A q \in Pools \ {p} : pool'[q] = pool[q]
<1>1. pool[p] \in PoolObject
  OBVIOUS
<1>2. (pool[p].status /\ ~pool[p].open) \in BOOLEAN
  BY <1>1, Zenon DEF PoolObject
<1>3. ClosedObject(pool[p]) \in PoolObject /\ ClosedObject(pool[p]).capacity = pool[p].capacity
  BY <1>1, <1>2 DEF ClosedObject, PoolObject
<1>4. pool'[p] = ClosedObject(pool[p]) /\ \A q \in Pools \ {p} : pool'[q] = pool[q]
  OBVIOUS
<1>5. pool' \in [Pools -> PoolObject]
  BY <1>3
<1>6. ~pool'[p].open /\ pool'[p].capacity = pool[p].capacity
  BY <1>1, <1>3, <1>4 DEF ClosedObject, PoolObject
<1>7. QED
  BY <1>4, <1>5, <1>6

LEMMA TypeStep == TypeInv /\ [Next]_vars => TypeInv'
<1> SUFFICES ASSUME TypeInv, [Next]_vars
             PROVE  TypeInv'
  OBVIOUS
<1> USE RegistryAssumption DEF TypeInv, TypeOK, Points, cluster, tasks, health
<1>1. ASSUME NEW s \in Service, Deploy(s)
      PROVE  TypeInv'
  BY <1>1 DEF Deploy
<1>2. ASSUME NEW s \in Service, Undeploy(s)
      PROVE  TypeInv'
  BY <1>2, SomeAddress DEF Undeploy
<1>3. ASSUME NEW s \in Service, Toggle(s)
      PROVE  TypeInv'
  BY <1>3 DEF Toggle
<1>4. ASSUME NEW t \in Tasks, Call(t)
      PROVE  TypeInv'
  BY <1>4, GotoTyped DEF Call
<1>5. ASSUME NEW t \in Tasks, List(t)
      PROVE  TypeInv'
  BY <1>5, GotoTyped DEF List
<1>6. ASSUME NEW t \in Tasks, NextService(t)
      PROVE  TypeInv'
  BY <1>6, GotoTyped DEF NextService
<1>7. ASSUME NEW t \in Tasks, Exists(t)
      PROVE  TypeInv'
  BY <1>7, GotoTyped DEF Exists
<1>8. ASSUME NEW t \in Tasks, Compare(t)
      PROVE  TypeInv'
  BY <1>8, GotoTyped DEF Compare
<1>9. ASSUME NEW t \in Tasks, Endpoints(t)
      PROVE  TypeInv'
  BY <1>9, GotoTyped DEF Endpoints
<1>10. ASSUME NEW t \in Tasks, Create(t)
      PROVE  TypeInv'
  <2>1. PICK p \in Pools : /\ pool' = [pool EXCEPT ![p] = NewPoolObject(item[t].cc, podIp[t])]
                           /\ fresh' = [fresh EXCEPT ![t] = p]
    BY <1>10 DEF Create
  <2>2. item[t].cc \in Capacities /\ podIp[t] \in Addresses
    BY DEF Service
  <2>3. pool' \in [Pools -> PoolObject] /\ fresh' \in [Tasks -> Pools \cup {NoPool}]
    BY <2>1, <2>2 DEF NewPoolObject, PoolObject
  <2>4. QED
    BY <1>10, <2>3, GotoTyped, SomeAddress DEF Create, PoolObject
<1>11. ASSUME NEW t \in Tasks, Store(t)
      PROVE  TypeInv'
  BY <1>11, GotoTyped DEF Store
<1>12. ASSUME NEW t \in Tasks, ReleaseCheck(t)
      PROVE  TypeInv'
  BY <1>12, GotoTyped DEF ReleaseCheck
<1>13. ASSUME NEW t \in Tasks, ReleaseClose(t)
      PROVE  TypeInv'
  <2>1. CASE asrPools[Name(t)] = NoPool
    BY <1>13, <2>1 DEF ReleaseClose
  <2>2. CASE asrPools[Name(t)] # NoPool
    <3>0. asrPools[Name(t)] \in Pools /\ pool \in [Pools -> PoolObject]
      BY <2>2, NameTyped DEF PoolObject
    <3>1. pool' \in [Pools -> PoolObject] /\ Goto(t, "delete")
      BY <1>13, <2>2, <3>0, CloseFacts DEF ReleaseClose
    <3>2. QED
      BY <1>13, <2>2, <3>1, GotoTyped DEF ReleaseClose, PoolObject
  <2>3. QED
    BY <2>1, <2>2
<1>14. ASSUME NEW t \in Tasks, ReleaseDelete(t)
      PROVE  TypeInv'
  BY <1>14, GotoTyped DEF ReleaseDelete
<1>15. ASSUME HealthRange
      PROVE  TypeInv'
  BY <1>15 DEF HealthRange, Registered
<1>16. ASSUME HealthProbe
      PROVE  TypeInv'
  BY <1>16 DEF HealthProbe, PodAnswers
<1>17. ASSUME HealthSet
      PROVE  TypeInv'
  BY <1>17, GotoTyped DEF HealthSet
<1>18. ASSUME MapRace
      PROVE  TypeInv'
  BY <1>18, GotoTyped DEF MapRace
<1>19. CASE UNCHANGED vars
  BY <1>19 DEF vars
<1>20. ASSUME NEW s \in Service, Replace(s)
      PROVE  TypeInv'
  BY <1>20 DEF Replace
<1>21. ASSUME NEW t \in Tasks, LivePod(t)
      PROVE  TypeInv'
  BY <1>21, GotoTyped, SomeAddress DEF LivePod
<1>22. ASSUME NEW t \in Tasks, CreateFails(t)
      PROVE  TypeInv'
  BY <1>22 DEF CreateFails
<1>23. QED
  BY <1>20, <1>21, <1>22, <1>1, <1>2, <1>3, <1>4, <1>5, <1>6, <1>7, <1>8, <1>9, <1>10, <1>11, <1>12, <1>13, <1>14, <1>15, <1>16, <1>17, <1>18, <1>19
     DEF Next, Environment, Step, HealthCheck

\* Every variable keeps its type, with updates and releases beside discovery.
THEOREM TypeCorrect == Spec => []TypeOK
<1>1. TypeInv => TypeOK
  BY DEF TypeInv
<1>2. QED
  BY <1>1, TypeInit, TypeStep, PTL DEF Spec

-----------------------------------------------------------------------------
(* Who has which pool                                                      *)

\* A pool is in one place: in one entry of the table, or in the hands of the one
\* task that made it and is about to store it, open.
Placed ==
  /\ \A m, n \in Scenes : asrPools[m] # NoPool /\ asrPools[m] = asrPools[n] => m = n
  /\ \A t \in Tasks : fresh[t] # NoPool =>
       /\ pc[t] = "store" /\ pool[fresh[t]].open
       /\ \A n \in Scenes : asrPools[n] # fresh[t]
       /\ \A u \in Tasks : fresh[u] = fresh[t] => u = t
  /\ \A t \in Tasks : pc[t] = "store" => fresh[t] # NoPool

PlaceInv == TypeInv /\ Placed /\ ClosedPoolsLeave

LEMMA PlaceInit == Init => PlaceInv
BY TypeInit DEF Init, PlaceInv, Placed, ClosedPoolsLeave

\* A step that opens or closes no pool, stores and deletes none, and lets no
\* task pass the point at which it would.
LEMMA QuietStep ==
  ASSUME PlaceInv, TypeInv', UNCHANGED <<asrPools, fresh>>,
         \A p \in Pools : pool'[p].open <=> pool[p].open,
         \A t \in Tasks : (pc[t] = "store" <=> pc'[t] = "store"),
         \A t \in Tasks : pc[t] = "delete" => pc'[t] = "delete" /\ item'[t] = item[t]
  PROVE  PlaceInv'
<1>1. /\ asrPools \in [Scenes -> Pools \cup {NoPool}]
      /\ fresh \in [Tasks -> Pools \cup {NoPool}]
  BY DEF PlaceInv, TypeInv, TypeOK
<1>2. Placed'
  BY <1>1 DEF PlaceInv, Placed
<1>3. ClosedPoolsLeave'
  BY <1>1 DEF PlaceInv, ClosedPoolsLeave, Name
<1>4. QED
  BY <1>2, <1>3 DEF PlaceInv

LEMMA PlaceStep == PlaceInv /\ [Next]_vars => PlaceInv'
<1> SUFFICES ASSUME PlaceInv, [Next]_vars
             PROVE  PlaceInv'
  OBVIOUS
<1> USE DEF cluster, tasks, health
<1>0. /\ TypeInv' /\ TypeInv
      /\ asrPools \in [Scenes -> Pools \cup {NoPool}]
      /\ fresh \in [Tasks -> Pools \cup {NoPool}]
      /\ pc \in [Tasks -> Points]
      /\ item \in [Tasks -> Service]
      /\ pool \in [Pools -> PoolObject]
      /\ NoPool \notin Pools
  BY TypeStep, RegistryAssumption DEF PlaceInv, TypeInv, TypeOK, Points, PoolObject
<1>1. ASSUME NEW t \in Tasks, UNCHANGED <<asrPools, pool, fresh>>,
             pc[t] \notin {"store", "delete"}, pc'[t] # "store",
             \A u \in Tasks \ {t} : pc'[u] = pc[u] /\ item'[u] = item[u]
      PROVE  PlaceInv'
  BY <1>0, <1>1, QuietStep
<1>2. ASSUME UNCHANGED <<asrPools, pool, tasks>>
      PROVE  PlaceInv'
  BY <1>0, <1>2, QuietStep
<1>3. CASE Environment \/ HealthRange \/ HealthProbe \/ MapRace \/ UNCHANGED vars
  BY <1>2, <1>3 DEF Environment, Deploy, Undeploy, Replace, Toggle, HealthRange, HealthProbe, MapRace, vars
<1>4. CASE HealthSet
  <2>1. \A p \in Pools : pool'[p].open <=> pool[p].open
    BY <1>0, <1>4 DEF HealthSet, PoolObject
  <2>2. QED
    BY <1>0, <1>4, <2>1, QuietStep DEF HealthSet
<1>5. ASSUME NEW t \in Tasks, Call(t) \/ List(t) \/ NextService(t)
      PROVE  PlaceInv'
  BY <1>0, <1>1, <1>5, GotoTyped DEF Call, List, NextService, Points, Goto
<1>6. ASSUME NEW t \in Tasks,
             Exists(t) \/ Compare(t) \/ Endpoints(t) \/ LivePod(t) \/ ReleaseCheck(t)
      PROVE  PlaceInv'
  BY <1>0, <1>1, <1>6, GotoTyped DEF Exists, Compare, Endpoints, LivePod, ReleaseCheck, Points, Goto
<1>7. ASSUME NEW t \in Tasks, Create(t)
      PROVE  PlaceInv'
  <2>1. PICK p \in Pools \ (Reachable \cup OpenPools) :
                /\ pool' = [pool EXCEPT ![p] = NewPoolObject(item[t].cc, podIp[t])]
                /\ fresh' = [fresh EXCEPT ![t] = p]
    BY <1>7 DEF Create
  <2>2. /\ pc[t] = "create" /\ pc'[t] = "store"
        /\ \A u \in Tasks \ {t} : pc'[u] = pc[u] /\ fresh'[u] = fresh[u]
        /\ fresh'[t] = p /\ pool'[p].open
        /\ \A q \in Pools \ {p} : pool'[q] = pool[q]
        /\ UNCHANGED <<asrPools, item>>
    BY <1>0, <1>7, <2>1, GotoTyped DEF Create, Points, NewPoolObject
  <2>3. /\ \A n \in Scenes : asrPools[n] # p
        /\ \A u \in Tasks : fresh[u] # p
    BY <1>0, <2>1 DEF Reachable, Registered
  <2>4. Placed'
    BY <1>0, <2>2, <2>3 DEF PlaceInv, Placed
  <2>5. ClosedPoolsLeave'
    BY <1>0, <2>2, <2>3 DEF PlaceInv, ClosedPoolsLeave, Name
  <2>6. QED
    BY <1>0, <2>4, <2>5 DEF PlaceInv
<1>8. ASSUME NEW t \in Tasks, Store(t)
      PROVE  PlaceInv'
  <2>1. /\ pc[t] = "store" /\ pc'[t] = "next"
        /\ \A u \in Tasks \ {t} : pc'[u] = pc[u] /\ fresh'[u] = fresh[u]
        /\ fresh'[t] = NoPool
        /\ asrPools'[Name(t)] = fresh[t]
        /\ \A n \in Scenes \ {Name(t)} : asrPools'[n] = asrPools[n]
        /\ UNCHANGED <<pool, item>>
        /\ Name(t) \in Scenes
    BY <1>0, <1>8, GotoTyped, NameTyped DEF Store, Points
  <2>2. Placed'
    BY <1>0, <2>1 DEF PlaceInv, Placed
  <2>3. ClosedPoolsLeave'
    BY <1>0, <2>1 DEF PlaceInv, Placed, ClosedPoolsLeave, Name
  <2>4. QED
    BY <1>0, <2>2, <2>3 DEF PlaceInv
<1>9. ASSUME NEW t \in Tasks, ReleaseClose(t)
      PROVE  PlaceInv'
  <2>1. CASE asrPools[Name(t)] = NoPool
    BY <1>0, <1>9, <2>1, QuietStep DEF ReleaseClose
  <2>2. CASE asrPools[Name(t)] # NoPool
    <3> DEFINE p == asrPools[Name(t)]
    <3>1. p \in Pools /\ Name(t) \in Scenes
      BY <1>0, <2>2, NameTyped
    <3>2. pool' = [pool EXCEPT ![p] = ClosedObject(@)] /\ Goto(t, "delete")
      BY <1>9, <2>2 DEF ReleaseClose
    <3>3. /\ \A q \in Pools \ {p} : pool'[q] = pool[q]
          /\ ~pool'[p].open
      BY <1>0, <3>1, <3>2, CloseFacts
    <3>4. /\ pc[t] = "close" /\ pc'[t] = "delete"
          /\ \A u \in Tasks \ {t} : pc'[u] = pc[u]
          /\ UNCHANGED <<asrPools, fresh, item>>
      BY <1>0, <1>9, <3>2, GotoTyped DEF ReleaseClose, Points
    <3>5. Placed'
      BY <1>0, <3>1, <3>3, <3>4 DEF PlaceInv, Placed
    <3>6. ClosedPoolsLeave'
      BY <1>0, <3>1, <3>3, <3>4 DEF PlaceInv, Placed, ClosedPoolsLeave, Name
    <3>7. QED
      BY <1>0, <3>5, <3>6 DEF PlaceInv
  <2>3. QED
    BY <2>1, <2>2
<1>10. ASSUME NEW t \in Tasks, ReleaseDelete(t)
      PROVE  PlaceInv'
  <2>1. /\ pc[t] = "delete" /\ pc'[t] # "store" /\ pc'[t] # "delete"
        /\ \A u \in Tasks \ {t} : pc'[u] = pc[u]
        /\ asrPools'[Name(t)] = NoPool
        /\ \A n \in Scenes \ {Name(t)} : asrPools'[n] = asrPools[n]
        /\ UNCHANGED <<pool, item, fresh>>
        /\ Name(t) \in Scenes
    BY <1>0, <1>10, GotoTyped, NameTyped DEF ReleaseDelete, Points
  <2>2. Placed'
    BY <1>0, <2>1 DEF PlaceInv, Placed
  <2>3. ClosedPoolsLeave'
    BY <1>0, <2>1 DEF PlaceInv, ClosedPoolsLeave, Name
  <2>4. QED
    BY <1>0, <2>2, <2>3 DEF PlaceInv
<1>11. ASSUME NEW t \in Tasks, CreateFails(t)
      PROVE  PlaceInv'
  BY <1>2, <1>11 DEF CreateFails
<1>12. QED
  BY <1>3, <1>4, <1>5, <1>6, <1>7, <1>8, <1>9, <1>10, <1>11 DEF Next, Step, HealthCheck

\* A closed pool is in the table only while the task that closed it is about to
\* take it out, for any number of updates and releases beside discovery.
THEOREM ClosedLeave == Spec => []ClosedPoolsLeave
<1>1. PlaceInv => ClosedPoolsLeave
  BY DEF PlaceInv
<1>2. QED
  BY <1>1, PlaceInit, PlaceStep, PTL DEF Spec

-----------------------------------------------------------------------------
(* The test and the use of an entry                                        *)

LEMMA ExistsStep ==
  ASSUME PlaceInv, EngineStillExists, [Next]_vars
  PROVE  EngineStillExists'
<1> USE DEF cluster, tasks, health
<1>0. /\ Placed
      /\ asrPools \in [Scenes -> Pools \cup {NoPool}]
      /\ fresh \in [Tasks -> Pools \cup {NoPool}]
      /\ pc \in [Tasks -> Points]
      /\ item \in [Tasks -> Service]
      /\ gone \subseteq Tasks
      /\ NoPool \notin Pools
  BY RegistryAssumption DEF PlaceInv, TypeInv, TypeOK, Points
<1>1. ASSUME NEW t \in Tasks, UNCHANGED <<asrPools, gone, process>>,
             pc'[t] \notin {"compare", "close"},
             \A u \in Tasks \ {t} : pc'[u] = pc[u] /\ item'[u] = item[u]
      PROVE  EngineStillExists'
  BY <1>1 DEF EngineStillExists, Name
<1>2. ASSUME UNCHANGED <<asrPools, pc, item, gone>>, process' # "panicked"
      PROVE  EngineStillExists'
  BY <1>2 DEF EngineStillExists, Name
<1>3. CASE Environment \/ HealthCheck \/ MapRace
  BY <1>2, <1>3 DEF Environment, Deploy, Undeploy, Replace, Toggle, HealthCheck, HealthRange,
                    HealthProbe, HealthSet, MapRace
<1>4. CASE UNCHANGED vars
  BY <1>4 DEF vars, EngineStillExists, Name
<1>5. ASSUME NEW t \in Tasks, Call(t) \/ List(t) \/ NextService(t)
      PROVE  EngineStillExists'
  BY <1>0, <1>1, <1>5, GotoTyped DEF Call, List, NextService, Points, Goto
<1>6. ASSUME NEW t \in Tasks, Endpoints(t) \/ LivePod(t) \/ Create(t)
      PROVE  EngineStillExists'
  BY <1>0, <1>1, <1>6, GotoTyped DEF Endpoints, LivePod, Create, Points
<1>7. ASSUME NEW t \in Tasks, CreateFails(t)
      PROVE  EngineStillExists'
  BY <1>2, <1>7 DEF CreateFails
<1>8. ASSUME NEW t \in Tasks, Exists(t) \/ ReleaseCheck(t)
      PROVE  EngineStillExists'
  <2>1. /\ \A u \in Tasks \ {t} : pc'[u] = pc[u]
        /\ pc'[t] \in {"compare", "close"} => asrPools[Name(t)] # NoPool
        /\ gone' = gone \ {t}
        /\ process = "running"
        /\ UNCHANGED <<asrPools, item, process>>
    BY <1>0, <1>8, GotoTyped DEF Exists, ReleaseCheck, Points
  <2>2. QED
    BY <2>1 DEF EngineStillExists, Name
<1>9. ASSUME NEW t \in Tasks, Compare(t) \/ ReleaseClose(t)
      PROVE  EngineStillExists'
  <2>1. CASE asrPools[Name(t)] = NoPool
    BY <1>9, <2>1 DEF Compare, ReleaseClose, EngineStillExists, Name
  <2>2. CASE asrPools[Name(t)] # NoPool
    BY <1>0, <1>1, <1>9, <2>2, GotoTyped DEF Compare, ReleaseClose, Points
  <2>3. QED
    BY <2>1, <2>2
<1>10. ASSUME NEW t \in Tasks, Store(t)
      PROVE  EngineStillExists'
  <2>1. /\ pc'[t] = "next" /\ \A u \in Tasks \ {t} : pc'[u] = pc[u]
        /\ Name(t) \in Scenes /\ asrPools'[Name(t)] # NoPool
        /\ \A n \in Scenes \ {Name(t)} : asrPools'[n] = asrPools[n]
        /\ UNCHANGED <<item, gone, process>>
    BY <1>0, <1>10, GotoTyped, NameTyped DEF Store, Placed, Points
  <2>2. \A u \in Tasks : Name(u) \in Scenes
    BY <1>0, NameTyped
  <2>3. QED
    BY <2>1, <2>2 DEF EngineStillExists, Name
<1>11. ASSUME NEW t \in Tasks, ReleaseDelete(t)
      PROVE  EngineStillExists'
  <2>1. /\ pc'[t] \notin {"compare", "close"} /\ \A u \in Tasks \ {t} : pc'[u] = pc[u]
        /\ \A n \in Scenes : n # Name(t) => asrPools'[n] = asrPools[n]
        /\ \A u \in Tasks \ {t} :
             Name(u) = Name(t) /\ pc[u] \in {"compare", "close"} => u \in gone'
        /\ gone \subseteq gone'
        /\ process = "running"
        /\ UNCHANGED <<item, process>>
    BY <1>0, <1>11, GotoTyped DEF ReleaseDelete, Points
  <2>2. \A u \in Tasks : Name(u) \in Scenes
    BY <1>0, NameTyped
  <2>3. QED
    BY <2>1, <2>2 DEF EngineStillExists, Name
<1>12. QED
  BY <1>3, <1>4, <1>5, <1>6, <1>7, <1>8, <1>9, <1>10, <1>11 DEF Next, Step

\* With any number of updates and releases beside discovery, a task finds the
\* entry it tested for gone only if another task took it out in between, and
\* only then the nil pointer panics.
THEOREM EngineStays == Spec => []EngineStillExists
<1>1. Init => EngineStillExists
  BY DEF Init, EngineStillExists
<1>2. PlaceInv /\ EngineStillExists /\ [Next]_vars => EngineStillExists'
  BY ExistsStep
<1>3. QED
  BY <1>1, <1>2, PlaceInit, PlaceStep, PTL DEF Spec

-----------------------------------------------------------------------------
(* Discovery alone                                                         *)

\* What discovery has found out about the entry it works on, as long as nobody
\* else writes the table: there is none when it makes a pool for it; there is
\* one, open until it closes it, when it looks the entry up again; and the
\* pool it releases is one of another capacity.
Held ==
  LET t == Discovery
      p == asrPools[Name(t)]
  IN  /\ pc[t] # "idle"
      /\ pc[t] \in {"endpoints", "livePod", "create", "store"} => p = NoPool
      /\ pc[t] \in {"compare", "release", "close", "delete"} => p # NoPool
      /\ pc[t] \in {"compare", "release", "close"} => pool[p].open
      /\ pc[t] = "delete" => ~pool[p].open
      /\ pc[t] \in {"release", "close", "delete"} => pool[p].capacity # item[t].cc

NoPanic  == process # "panicked"
AloneInv == PlaceInv /\ Held /\ NoPoolLeaks /\ NoPanic

LEMMA AloneInit ==
  ASSUME Updates = {}, Releases = {}, Init
  PROVE  AloneInv
<1>1. NoPoolLeaks
  BY DEF Init, NoPoolLeaks, OpenPools
<1>2. QED
  BY <1>1, PlaceInit DEF Init, AloneInv, Held, NoPanic, Tasks

\* The facts every case of the next two lemmas starts from.
LEMMA AloneFacts ==
  ASSUME Updates = {}, Releases = {}, AloneInv, [Next]_vars
  PROVE  /\ Tasks = {Discovery}
         /\ PlaceInv' /\ Placed /\ Held /\ NoPoolLeaks /\ process # "panicked"
         /\ asrPools \in [Scenes -> Pools \cup {NoPool}]
         /\ asrPools' \in [Scenes -> Pools \cup {NoPool}]
         /\ fresh \in [Tasks -> Pools \cup {NoPool}]
         /\ pc \in [Tasks -> Points]
         /\ item \in [Tasks -> Service]
         /\ pool \in [Pools -> PoolObject]
         /\ Name(Discovery) \in Scenes
         /\ NoPool \notin Pools
<1>1. TypeInv /\ TypeInv' /\ PlaceInv' /\ Placed
  BY PlaceStep DEF AloneInv, PlaceInv
<1>2. QED
  BY <1>1, NameTyped, RegistryAssumption
     DEF AloneInv, NoPanic, TypeInv, TypeOK, Points, PoolObject, Tasks

\* A step that leaves the table, the pools and discovery's place alone.
LEMMA AloneQuiet ==
  ASSUME Updates = {}, Releases = {}, AloneInv, [Next]_vars,
         UNCHANGED <<asrPools, fresh, pc, item>>, process' # "panicked",
         \A p \in Pools : /\ pool'[p].open <=> pool[p].open
                          /\ pool'[p].capacity = pool[p].capacity
  PROVE  AloneInv'
<1> USE AloneFacts
<1>1. Held'
  BY DEF Held, Name
<1>2. NoPoolLeaks'
  BY DEF NoPoolLeaks, OpenPools, Registered
<1>3. QED
  BY <1>1, <1>2 DEF AloneInv, NoPanic

LEMMA AloneStep ==
  ASSUME Updates = {}, Releases = {}, AloneInv, [Next]_vars
  PROVE  AloneInv'
<1> USE DEF cluster, tasks, health
<1> DEFINE t == Discovery
           p == asrPools[Name(t)]
<1>0. /\ Tasks = {t} /\ t \notin Releases
      /\ PlaceInv' /\ Placed /\ Held /\ NoPoolLeaks /\ process # "panicked"
      /\ asrPools \in [Scenes -> Pools \cup {NoPool}]
      /\ fresh \in [Tasks -> Pools \cup {NoPool}]
      /\ pc \in [Tasks -> Points]
      /\ item \in [Tasks -> Service]
      /\ pool \in [Pools -> PoolObject]
      /\ Name(t) \in Scenes
      /\ NoPool \notin Pools
  BY AloneFacts
<1>1. ASSUME UNCHANGED <<asrPools, pool, fresh, process>>, Held'
      PROVE  AloneInv'
  <2>1. NoPoolLeaks'
    BY <1>0, <1>1 DEF NoPoolLeaks, OpenPools, Registered
  <2>2. QED
    BY <1>0, <1>1, <2>1 DEF AloneInv, NoPanic
<1>2. CASE CreateFails(t) \/ Environment \/ HealthRange \/ HealthProbe \/ MapRace \/ UNCHANGED vars
  BY <1>0, <1>2, AloneQuiet
     DEF CreateFails, Environment, Deploy, Undeploy, Replace, Toggle, HealthRange, HealthProbe, MapRace, vars
<1>3. CASE HealthSet
  <2>1. \A q \in Pools : (pool'[q].open <=> pool[q].open) /\ pool'[q].capacity = pool[q].capacity
    BY <1>0, <1>3 DEF HealthSet, PoolObject
  <2>2. QED
    BY <1>0, <1>3, <2>1, AloneQuiet DEF HealthSet
<1>4. CASE List(t) \/ NextService(t) \/ Exists(t) \/ Endpoints(t) \/ LivePod(t) \/ ReleaseCheck(t)
  <2>1. CASE List(t)
    <3>1. Held'
      BY <1>0, <2>1, GotoTyped DEF List, Held, Points, Name
    <3>2. QED
      BY <1>1, <2>1, <3>1 DEF List
  <2>2. CASE NextService(t)
    <3>1. Held'
      BY <1>0, <2>2, GotoTyped DEF NextService, Held, Points, Name
    <3>2. QED
      BY <1>1, <2>2, <3>1 DEF NextService
  <2>3. CASE Exists(t)
    <3>1. p # NoPool => pool[p].open
      BY <1>0, <2>3 DEF Exists, PlaceInv, ClosedPoolsLeave, AloneInv
    <3>2. Held'
      BY <1>0, <2>3, <3>1, GotoTyped DEF Exists, Held, Points, Name
    <3>3. QED
      BY <1>1, <2>3, <3>2 DEF Exists
  <2>4. CASE Endpoints(t)
    <3>1. Held'
      BY <1>0, <2>4, GotoTyped DEF Endpoints, Held, Points, Name
    <3>2. QED
      BY <1>1, <2>4, <3>1 DEF Endpoints
  <2>5. CASE ReleaseCheck(t)
    <3>1. Held'
      BY <1>0, <2>5, GotoTyped DEF ReleaseCheck, Held, Points, Name
    <3>2. QED
      BY <1>1, <2>5, <3>1 DEF ReleaseCheck
  <2>6. CASE LivePod(t)
    <3>1. /\ pc[t] = "livePod" /\ pc'[t] \in {"create", "next"}
          /\ UNCHANGED <<asrPools, pool, item>>
      BY <1>0, <2>6, GotoTyped DEF LivePod, Points
    <3>2. Held'
      BY <1>0, <3>1 DEF Held, Name
    <3>3. QED
      BY <1>1, <2>6, <3>2 DEF LivePod
  <2>7. QED
    BY <1>4, <2>1, <2>2, <2>3, <2>4, <2>5, <2>6
<1>5. CASE Compare(t)
  <2>1. p # NoPool
    BY <1>0, <1>5 DEF Compare, Held
  <2>2. Held'
    BY <1>0, <1>5, <2>1, GotoTyped DEF Compare, Held, Points, Name
  <2>3. QED
    BY <1>1, <1>5, <2>1, <2>2 DEF Compare
<1>6. CASE Create(t)
  <2>1. PICK q \in Pools \ (Reachable \cup OpenPools) :
                /\ pool' = [pool EXCEPT ![q] = NewPoolObject(item[t].cc, podIp[t])]
                /\ fresh' = [fresh EXCEPT ![t] = q]
    BY <1>6 DEF Create
  <2>2. Held'
    BY <1>0, <1>6, <2>1, GotoTyped DEF Create, Held, Points, Name
  <2>3. NoPoolLeaks'
    <3>1. fresh[t] = NoPool
      BY <1>0, <1>6 DEF Placed, Create
    <3>2. OpenPools' \subseteq OpenPools \cup {q} /\ fresh'[t] = q /\ Registered' = Registered
      BY <1>0, <1>6, <2>1 DEF OpenPools, Registered, Create
    <3>3. QED
      BY <1>0, <3>1, <3>2 DEF NoPoolLeaks, OpenPools
  <2>4. QED
    BY <1>0, <1>6, <2>2, <2>3 DEF AloneInv, NoPanic, Create
<1>7. CASE Store(t)
  <2>1. /\ p = NoPool /\ asrPools'[Name(t)] = fresh[t]
        /\ \A n \in Scenes \ {Name(t)} : asrPools'[n] = asrPools[n]
        /\ pc'[t] = "next" /\ UNCHANGED <<pool, item, process>>
    BY <1>0, <1>7, GotoTyped DEF Store, Held, Points
  <2>2. Held'
    BY <1>0, <2>1 DEF Held
  <2>3. NoPoolLeaks'
    BY <1>0, <2>1 DEF NoPoolLeaks, OpenPools, Registered
  <2>4. QED
    BY <1>0, <2>1, <2>2, <2>3 DEF AloneInv, NoPanic
<1>8. CASE ReleaseClose(t)
  <2>1. p \in Pools /\ pool[p].capacity # item[t].cc
    BY <1>0, <1>8 DEF ReleaseClose, Held
  <2>2. /\ pool' = [pool EXCEPT ![p] = ClosedObject(@)] /\ Goto(t, "delete")
        /\ UNCHANGED <<process, asrPools, fresh, item>>
    BY <1>0, <1>8, <2>1 DEF ReleaseClose
  <2>3. /\ ~pool'[p].open /\ pool'[p].capacity = pool[p].capacity
        /\ \A q \in Pools \ {p} : pool'[q] = pool[q]
    BY <1>0, <2>1, <2>2, CloseFacts
  <2>4. Held'
    BY <1>0, <2>1, <2>2, <2>3, GotoTyped DEF Held, Points, Name
  <2>5. NoPoolLeaks'
    BY <1>0, <2>2, <2>3 DEF NoPoolLeaks, OpenPools, Registered
  <2>6. QED
    BY <1>0, <2>2, <2>4, <2>5 DEF AloneInv, NoPanic
<1>9. CASE ReleaseDelete(t)
  <2>1. /\ p \in Pools /\ ~pool[p].open /\ asrPools'[Name(t)] = NoPool
        /\ \A n \in Scenes \ {Name(t)} : asrPools'[n] = asrPools[n]
        /\ pc'[t] = "endpoints" /\ UNCHANGED <<pool, item, fresh, process>>
    BY <1>0, <1>9, GotoTyped DEF ReleaseDelete, Held, Points
  <2>2. Held'
    BY <1>0, <2>1 DEF Held, Name
  <2>3. NoPoolLeaks'
    BY <1>0, <2>1 DEF NoPoolLeaks, OpenPools, Registered
  <2>4. QED
    BY <1>0, <2>1, <2>2, <2>3 DEF AloneInv, NoPanic
<1>10. ~Call(t)
  BY DEF Call
<1>11. QED
  BY <1>0, <1>2, <1>3, <1>4, <1>5, <1>6, <1>7, <1>8, <1>9, <1>10 DEF Next, Step, HealthCheck

\* Discovery alone never panics, and no open pool is lost.
THEOREM NothingLost ==
  ASSUME Updates = {}, Releases = {}
  PROVE  Spec => [](NoPanic /\ NoPoolLeaks)
<1>1. Init => AloneInv
  BY AloneInit
<1>2. AloneInv /\ [Next]_vars => AloneInv'
  BY AloneStep
<1>3. AloneInv => NoPanic /\ NoPoolLeaks
  BY DEF AloneInv
<1>4. QED
  BY <1>1, <1>2, <1>3, PTL DEF Spec

-----------------------------------------------------------------------------
(* The table as its readers see it                                         *)

Alone == Updates \cup Releases = {}

\* What a step needs to know to be one of EngineTable, whoever writes.
ReadersInv == PlaceInv /\ (Alone => AloneInv)

LEMMA ReadersInit == Init => ReadersInv
BY PlaceInit, AloneInit DEF ReadersInv, Alone

LEMMA ReadersStep == ReadersInv /\ [Next]_vars => ReadersInv'
BY PlaceStep, AloneStep DEF ReadersInv, Alone

Making    == {fresh[t] : t \in Tasks}
TableOpen == OpenPools \ Making

\* A step that leaves every entry, and the state of every pool that is not
\* being made, alone.
LEMMA TableQuiet ==
  ASSUME UNCHANGED <<asrPools, TableOpen>>
  PROVE  UNCHANGED Table!tableVars
BY DEF Table!tableVars, TableOpen, Making

\* The operations of EngineTable in terms of TableOpen.
LEMMA TableOperations ==
  ASSUME NEW n \in Scenes
  PROVE  /\ \A p \in Pools :
              /\ p \notin Table!Entered \cup TableOpen
              /\ Alone => asrPools[n] = NoPool
              /\ asrPools' = [asrPools EXCEPT ![n] = p]
              /\ TableOpen' = TableOpen \cup {p}
              => Table!Publish(n, p)
         /\ /\ asrPools[n] \in TableOpen
            /\ TableOpen' = TableOpen \ {asrPools[n]}
            /\ UNCHANGED asrPools
            => Table!Close(n)
         /\ /\ asrPools[n] \in Table!Entered
            /\ Alone => asrPools[n] \notin TableOpen
            /\ asrPools' = [asrPools EXCEPT ![n] = NoPool]
            /\ UNCHANGED TableOpen
            => Table!Remove(n)
<1>1. ASSUME NEW p \in Pools, p \notin Table!Entered \cup TableOpen,
             Alone => asrPools[n] = NoPool,
             asrPools' = [asrPools EXCEPT ![n] = p], TableOpen' = TableOpen \cup {p}
      PROVE  Table!Publish(n, p)
  BY <1>1, Zenon DEF Table!Publish, TableOpen, Making, Alone
<1>2. ASSUME asrPools[n] \in TableOpen, TableOpen' = TableOpen \ {asrPools[n]},
             UNCHANGED asrPools
      PROVE  Table!Close(n)
  BY <1>2, Zenon DEF Table!Close, TableOpen, Making
<1>3. ASSUME asrPools[n] \in Table!Entered, Alone => asrPools[n] \notin TableOpen,
             asrPools' = [asrPools EXCEPT ![n] = NoPool], UNCHANGED TableOpen
      PROVE  Table!Remove(n)
  BY <1>3, Zenon DEF Table!Remove, TableOpen, Making, Alone
<1>4. QED
  BY <1>1, <1>2, <1>3

\* Each step of a task that writes the table is an operation of EngineTable:
\* of its single writer when discovery is alone.
LEMMA TableStep ==
  ASSUME ReadersInv, [Next]_vars
  PROVE  [Table!Next]_(Table!tableVars)
<1> USE DEF cluster, tasks, health
<1>0. /\ PlaceInv /\ Placed
      /\ asrPools \in [Scenes -> Pools \cup {NoPool}]
      /\ fresh \in [Tasks -> Pools \cup {NoPool}]
      /\ pc \in [Tasks -> Points]
      /\ item \in [Tasks -> Service]
      /\ pool \in [Pools -> PoolObject]
      /\ NoPool \notin Pools
      /\ Alone => AloneInv /\ Tasks = {Discovery}
  BY RegistryAssumption
     DEF ReadersInv, PlaceInv, TypeInv, TypeOK, Points, PoolObject, Alone, Tasks
<1>1. ASSUME UNCHANGED <<asrPools, fresh>>, \A p \in Pools : pool'[p].open <=> pool[p].open
      PROVE  [Table!Next]_(Table!tableVars)
  BY <1>1, TableQuiet DEF TableOpen, Making, OpenPools
<1>2. CASE Environment \/ HealthRange \/ HealthProbe \/ MapRace \/ UNCHANGED vars
  BY <1>1, <1>2
     DEF Environment, Deploy, Undeploy, Replace, Toggle, HealthRange, HealthProbe, MapRace, vars
<1>3. CASE HealthSet
  <2>1. \A q \in Pools : pool'[q].open <=> pool[q].open
    BY <1>0, <1>3 DEF HealthSet, PoolObject
  <2>2. QED
    BY <1>1, <1>3, <2>1 DEF HealthSet
<1>4. ASSUME NEW t \in Tasks,
             \/ Call(t) \/ List(t) \/ NextService(t) \/ Exists(t) \/ Compare(t) \/ Endpoints(t)
             \/ LivePod(t) \/ CreateFails(t) \/ ReleaseCheck(t)
      PROVE  [Table!Next]_(Table!tableVars)
  BY <1>1, <1>4 DEF Call, List, NextService, Exists, Compare, Endpoints, LivePod, CreateFails,
                     ReleaseCheck
<1>5. ASSUME NEW t \in Tasks, Create(t)
      PROVE  [Table!Next]_(Table!tableVars)
  <2>1. PICK p \in Pools \ (Reachable \cup OpenPools) :
                /\ pool' = [pool EXCEPT ![p] = NewPoolObject(item[t].cc, podIp[t])]
                /\ fresh' = [fresh EXCEPT ![t] = p]
    BY <1>5 DEF Create
  <2>2. /\ fresh'[t] = p /\ \A u \in Tasks \ {t} : fresh'[u] = fresh[u]
        /\ fresh[t] = NoPool /\ UNCHANGED asrPools
        /\ \A q \in Pools \ {p} : pool'[q] = pool[q]
    BY <1>0, <1>5, <2>1 DEF Create, Placed
  <2>3. p \notin OpenPools /\ p \notin Making
    BY <2>1 DEF Reachable, Making
  <2>4. \A q \in Pools : q \in TableOpen' <=> q \in TableOpen
    BY <1>0, <2>2, <2>3 DEF TableOpen, Making, OpenPools
  <2>5. UNCHANGED TableOpen
    BY <2>4 DEF TableOpen, OpenPools
  <2>6. QED
    BY <2>2, <2>5, TableQuiet
<1>6. ASSUME NEW t \in Tasks, Store(t)
      PROVE  [Table!Next]_(Table!tableVars)
  <2>1. PICK n \in Scenes, p \in Pools : n = Name(t) /\ p = fresh[t]
    BY <1>0, <1>6, NameTyped DEF Store, Placed
  <2>2. /\ pool[p].open /\ pc[t] = "store"
        /\ \A m \in Scenes : asrPools[m] # p
        /\ \A u \in Tasks : fresh[u] = p => u = t
        /\ fresh'[t] = NoPool /\ \A u \in Tasks \ {t} : fresh'[u] = fresh[u]
        /\ asrPools' = [asrPools EXCEPT ![n] = p] /\ UNCHANGED pool
    BY <1>0, <1>6, <2>1 DEF Store, Placed
  <2>3. Alone => asrPools[n] = NoPool
    BY <1>0, <2>1, <2>2 DEF AloneInv, Held
  <2>4. TableOpen' = TableOpen \cup {p} /\ p \notin TableOpen
    <3>1. \A q \in Pools : q \in TableOpen' <=> q \in TableOpen \/ q = p
      BY <1>0, <2>1, <2>2 DEF TableOpen, Making, OpenPools
    <3>2. p \notin TableOpen
      BY <2>1 DEF TableOpen, Making
    <3>3. QED
      BY <3>1, <3>2 DEF TableOpen, OpenPools
  <2>5. p \notin Table!Entered \cup TableOpen
    BY <2>2, <2>4 DEF Table!Entered
  <2>6. QED
    BY <2>2, <2>3, <2>4, <2>5, TableOperations DEF Table!Next
<1>7. ASSUME NEW t \in Tasks, ReleaseClose(t)
      PROVE  [Table!Next]_(Table!tableVars)
  <2>0. PICK n \in Scenes, p \in Pools \cup {NoPool} : n = Name(t) /\ p = asrPools[n]
    BY <1>0, NameTyped
  <2>1. CASE p = NoPool
    BY <1>1, <1>7, <2>0, <2>1 DEF ReleaseClose
  <2>2. CASE p # NoPool
    <3>1. p \in Pools /\ \A u \in Tasks : fresh[u] # p
      BY <1>0, <2>0, <2>2 DEF Placed
    <3>2. pool' = [pool EXCEPT ![p] = ClosedObject(@)] /\ UNCHANGED <<asrPools, fresh>>
      BY <1>7, <2>0, <2>2 DEF ReleaseClose
    <3>3. ~pool'[p].open /\ \A q \in Pools \ {p} : pool'[q] = pool[q]
      BY <1>0, <3>1, <3>2, CloseFacts
    <3>4. TableOpen' = TableOpen \ {p}
      BY <3>2, <3>3 DEF TableOpen, Making, OpenPools
    <3>5. CASE p \in TableOpen
      BY <2>0, <3>2, <3>4, <3>5, TableOperations DEF Table!Next
    <3>6. CASE p \notin TableOpen
      BY <3>2, <3>4, <3>6, TableQuiet
    <3>7. QED
      BY <3>5, <3>6
  <2>3. QED
    BY <2>1, <2>2
<1>8. ASSUME NEW t \in Tasks, ReleaseDelete(t)
      PROVE  [Table!Next]_(Table!tableVars)
  <2>0. PICK n \in Scenes : n = Name(t)
    BY NameTyped, <1>0
  <2>1. /\ asrPools' = [asrPools EXCEPT ![n] = NoPool] /\ UNCHANGED <<pool, fresh>>
        /\ pc[t] = "delete"
    BY <1>0, <1>8, <2>0 DEF ReleaseDelete
  <2>2. Alone => asrPools[n] \notin TableOpen
    BY <1>0, <2>0, <2>1 DEF AloneInv, Held, TableOpen, OpenPools
  <2>3. UNCHANGED TableOpen
    BY <2>1 DEF TableOpen, Making, OpenPools
  <2>4. CASE asrPools[n] = NoPool
    <3>1. UNCHANGED asrPools
      BY <1>0, <2>1, <2>4
    <3>2. QED
      BY <2>3, <3>1, TableQuiet
  <2>5. CASE asrPools[n] # NoPool
    BY <2>1, <2>2, <2>3, <2>5, TableOperations DEF Table!Next, Table!Entered
  <2>6. QED
    BY <2>4, <2>5
<1>9. QED
  BY <1>2, <1>3, <1>4, <1>5, <1>6, <1>7, <1>8 DEF Next, Step, HealthCheck

\* EngineRegistry implements EngineTable: with the promises of a single writer
\* while discovery is alone, and with those that remain beside any number of
\* updates and releases.
THEOREM TableImplemented == Spec => TableKept
<1>1. Init => ReadersInv /\ Table!Init
  <2>1. Init => Table!Init
    BY DEF Init, OpenPools, Table!Init
  <2>2. QED
    BY <2>1, ReadersInit
<1>2. ReadersInv /\ [Next]_vars => ReadersInv' /\ [Table!Next]_(Table!tableVars)
  BY ReadersStep, TableStep
<1>3. QED
  BY <1>1, <1>2, PTL DEF Spec, TableKept, Table!Spec

-----------------------------------------------------------------------------
(* What discovery takes out                                                *)

\* Discovery takes a pool out of the table that has another capacity than the
\* service it treats asks for.
LEMMA EqualStep ==
  ASSUME Updates = {}, Releases = {}, AloneInv, [Next]_vars
  PROVE  \A n \in Scenes :
           asrPools[n] # NoPool /\ asrPools'[n] # asrPools[n] =>
             pool[asrPools[n]].capacity # item[Discovery].cc
<1> USE DEF cluster, tasks, health
<1> DEFINE t == Discovery
           p == asrPools[Name(t)]
<1>0. /\ Tasks = {t} /\ t \notin Releases /\ Held
      /\ asrPools \in [Scenes -> Pools \cup {NoPool}]
  BY AloneFacts
<1>1. CASE Store(t)
  <2>1. p = NoPool /\ \A n \in Scenes : n # Name(t) => asrPools'[n] = asrPools[n]
    BY <1>0, <1>1 DEF Store, Held
  <2>2. QED
    BY <2>1
<1>2. CASE ReleaseDelete(t)
  <2>1. /\ pool[p].capacity # item[t].cc
        /\ \A n \in Scenes : n # Name(t) => asrPools'[n] = asrPools[n]
    BY <1>0, <1>2 DEF ReleaseDelete, Held
  <2>2. QED
    BY <2>1
<1>3. ~Store(t) /\ ~ReleaseDelete(t) => UNCHANGED asrPools
  BY <1>0 DEF Next, Environment, Deploy, Undeploy, Replace, Toggle, Call, Step, List, NextService, Exists,
     Compare, Endpoints, LivePod, CreateFails, Create, ReleaseCheck, ReleaseClose, HealthCheck, HealthRange,
     HealthProbe, HealthSet, MapRace, vars
<1>4. QED
  BY <1>1, <1>2, <1>3

\* Discovery, left alone, never takes a pool of the capacity its service asks
\* for out of the table.
THEOREM EqualKept ==
  ASSUME Updates = {}, Releases = {}
  PROVE  Spec => EqualPoolsKept
<1>1. Init => AloneInv
  BY AloneInit
<1>2. AloneInv /\ [Next]_vars => AloneInv'
  BY AloneStep
<1>3. AloneInv /\ [Next]_vars =>
        [\A n \in Scenes :
           asrPools[n] # NoPool /\ asrPools'[n] # asrPools[n] =>
             pool[asrPools[n]].capacity # item[Discovery].cc]_vars
  BY EqualStep
<1>4. QED
  BY <1>1, <1>2, <1>3, PTL DEF Spec, EqualPoolsKept

=============================================================================
