--------------------------- MODULE EngineRegistry ---------------------------
(***************************************************************************)
(* The table of engine pools when the pools are managed on line (OMP mode, *)
(* pkg/plugins/pool/grpc/grpc.go): the discovery goroutine that follows    *)
(* the services of the cluster, the calls of the management platform that  *)
(* update or release engines, and the health check.  All of them use one   *)
(* Go map from scene code to pool without a lock.                          *)
(*                                                                         *)
(* One engine type is modelled; asr and tts have a map and goroutines of   *)
(* their own with the same code.  A service is the pair its name asr-cc-   *)
(* scene is split into; behind it runs a pod, whose address is what a pool *)
(* is made for.  What a dial to an address answers, and what the package   *)
(* kvs says of the cluster, is the environment.  The clients of a pool are *)
(* modelled in ClientPool; here a pool is open or closed.                  *)
(***************************************************************************)
EXTENDS Integers, FiniteSets

CONSTANTS
  Scenes,      \* scene codes, the keys of asrPools
  Capacities,  \* concurrency numbers that occur in service names
  Addresses,   \* addresses of pods
  Pools,       \* identities of *Pool objects; unreachable closed ones are reused
  NoPool,      \* the nil *Pool
  Discovery,   \* the goroutine initPoolFromExistEngine
  Updates,     \* slots for calls of InitPoolFromExistEngineForUpdate
  Releases,    \* slots for calls of ReleaseGrpcPool from outside
  MaxChanges   \* bound on the changes of the cluster

ASSUME RegistryAssumption ==
  /\ Scenes # {} /\ Capacities # {} /\ Addresses # {}
  /\ Capacities \subseteq Nat
  /\ NoPool \notin Pools
  /\ MaxChanges \in Nat

Service == [name : Scenes, cc : Capacities]
Tasks   == {Discovery} \cup Updates \cup Releases

VARIABLES
  services,  \* what kvs.GetEngineSvcs would return
  pod,       \* the address of the pod behind each service that is deployed
  up,        \* the addresses that answer if a pod has them
  changes,   \* changes of the cluster so far
  asrPools,  \* the map
  pool,      \* the Pool objects
  pc, todo, item, podIp, fresh, \* per task: program point, services still to
                         \* be looked at, the current one, the address found
                         \* for it, the pool being created
  hpc, hseen, hpool, hup, \* the health check: program point, pools of this round
                          \* already checked, the current one, the last answer
  process,   \* the gateway process
  moved,     \* history: services that lost their first pod
  gone       \* history: tasks whose entry another task took out of the map
             \* after they found it there

cluster == <<services, pod, up, changes, moved>>
tasks   == <<pc, todo, item, podIp, fresh>>
health  == <<hpc, hseen, hpool, hup>>
vars    == <<cluster, asrPools, pool, tasks, health, process, gone>>

NewPoolObject(c, a) == [open |-> TRUE, status |-> TRUE, capacity |-> c, addr |-> a]

\* Pool.Close clears the status of an open pool and does nothing to a closed one.
ClosedObject(o) == [o EXCEPT !.open = FALSE, !.status = @ /\ ~o.open]

\* checkGRPCSerer: of the address of a pod, and of the name of a service.
PodAnswers(a)     == a \in up /\ \E s \in services : pod[s] = a
ServiceAnswers(s) == s \in services /\ pod[s] \in up

AnyService == CHOOSE s \in Service : TRUE
AnyAddress == CHOOSE a \in Addresses : TRUE

Init ==
  /\ services = {} /\ pod = [s \in Service |-> AnyAddress] /\ up = Addresses /\ changes = 0
  /\ asrPools = [n \in Scenes |-> NoPool]
  /\ pool = [p \in Pools |->
               [open |-> FALSE, status |-> TRUE, capacity |-> AnyService.cc, addr |-> AnyAddress]]
  /\ pc = [t \in Tasks |-> IF t = Discovery THEN "list" ELSE "idle"]
  /\ todo = [t \in Tasks |-> {}]
  /\ item = [t \in Tasks |-> AnyService]
  /\ podIp = [t \in Tasks |-> AnyAddress]
  /\ fresh = [t \in Tasks |-> NoPool]
  /\ hpc = "range" /\ hseen = {} /\ hpool = NoPool /\ hup = TRUE
  /\ process = "running"
  /\ moved = {} /\ gone = {}

Goto(t, l) == pc' = [pc EXCEPT ![t] = l]
Name(t)    == item[t].name

\* Pools somebody can still reach.
Registered == {asrPools[n] : n \in Scenes} \ {NoPool}
Reachable  == Registered \cup {fresh[t] : t \in Tasks} \cup {hpool}
OpenPools  == {p \in Pools : pool[p].open}

-----------------------------------------------------------------------------
(* The cluster.                                                            *)

\* A service is deployed with a pod that has an address of its own.
Deploy(s) ==
  /\ process = "running"
  /\ changes < MaxChanges /\ s \notin services
  /\ services' = services \cup {s}
  /\ \E a \in Addresses \ {pod[o] : o \in services} : pod' = [pod EXCEPT ![s] = a]
  /\ changes' = changes + 1
  /\ UNCHANGED <<up, moved, asrPools, pool, tasks, health, process, gone>>

Undeploy(s) ==
  /\ process = "running"
  /\ changes < MaxChanges /\ s \in services
  /\ services' = services \ {s}
  /\ pod' = [pod EXCEPT ![s] = AnyAddress]
  /\ moved' = moved \cup {s}
  /\ changes' = changes + 1
  /\ UNCHANGED <<up, asrPools, pool, tasks, health, process, gone>>

\* The pod of a service is replaced by one with another address.
Replace(s) ==
  /\ process = "running"
  /\ changes < MaxChanges /\ s \in services
  /\ \E a \in Addresses \ {pod[o] : o \in services} : pod' = [pod EXCEPT ![s] = a]
  /\ moved' = moved \cup {s}
  /\ changes' = changes + 1
  /\ UNCHANGED <<services, up, asrPools, pool, tasks, health, process, gone>>

\* A pod stops to answer, or answers again.
Toggle(s) ==
  /\ process = "running"
  /\ changes < MaxChanges /\ s \in services
  /\ up' = IF pod[s] \in up THEN up \ {pod[s]} ELSE up \cup {pod[s]}
  /\ changes' = changes + 1
  /\ UNCHANGED <<services, pod, moved, asrPools, pool, tasks, health, process, gone>>

-----------------------------------------------------------------------------
(* initPoolFromExistEngine and InitPoolFromExistEngineForUpdate            *)

\* The platform calls one of the two entry points; a release names a pool.
Call(t) ==
  /\ process = "running"
  /\ t # Discovery /\ pc[t] = "idle"
  /\ IF t \in Updates
       THEN Goto(t, "list") /\ UNCHANGED item
       ELSE Goto(t, "exists") /\ \E s \in Service : item' = [item EXCEPT ![t] = s]
  /\ UNCHANGED <<cluster, asrPools, pool, todo, podIp, fresh, health, process, gone>>

\* kvs.GetEngineSvcs
List(t) ==
  /\ process = "running"
  /\ pc[t] = "list"
  /\ todo' = [todo EXCEPT ![t] = services]
  /\ Goto(t, "next")
  /\ UNCHANGED <<cluster, asrPools, pool, item, podIp, fresh, health, process, gone>>

\* for _, svc := range: a service that does not answer is passed over.  At the
\* end discovery sleeps and starts again, an update returns.
NextService(t) ==
  /\ process = "running"
  /\ pc[t] = "next"
  /\ IF todo[t] = {}
       THEN /\ Goto(t, IF t = Discovery THEN "list" ELSE "idle")
            /\ UNCHANGED <<todo, item>>
       ELSE \E s \in todo[t] :
              /\ todo' = [todo EXCEPT ![t] = @ \ {s}]
              /\ IF ServiceAnswers(s)
                   THEN Goto(t, "exists") /\ item' = [item EXCEPT ![t] = s]
                   ELSE UNCHANGED <<pc, item>>
  /\ UNCHANGED <<cluster, asrPools, pool, podIp, fresh, health, process, gone>>

\* Mutant of Exists: the entry is used without a test.
ExistsAssumed(t) ==
  /\ process = "running" /\ pc[t] = "exists"
  /\ Goto(t, IF t \in Releases THEN "close" ELSE "compare")
  /\ gone' = gone \ {t}
  /\ UNCHANGED <<cluster, asrPools, pool, todo, item, podIp, fresh, health, process>>

\* if _, ok := asrPools[engineName]; ok
Exists(t) ==
  /\ process = "running"
  /\ pc[t] = "exists"
  /\ Goto(t, IF asrPools[Name(t)] # NoPool
               THEN IF t \in Releases THEN "close" ELSE "compare"
               ELSE IF t \in Releases THEN "idle" ELSE "endpoints")
  /\ gone' = gone \ {t}
  /\ UNCHANGED <<cluster, asrPools, pool, todo, item, podIp, fresh, health, process>>

\* Mutant of Compare: the condition of an update in discovery.
CompareSwapped(t) ==
  /\ process = "running" /\ pc[t] = "compare"
  /\ Goto(t, IF pool[asrPools[Name(t)]].capacity = item[t].cc THEN "release" ELSE "endpoints")
  /\ UNCHANGED <<cluster, asrPools, pool, todo, item, podIp, fresh, health, process, gone>>

\* Mutant of Compare: an engine that has a pool is passed over.
CompareContinues(t) ==
  /\ process = "running" /\ pc[t] = "compare"
  /\ Goto(t, "next")
  /\ UNCHANGED <<cluster, asrPools, pool, todo, item, podIp, fresh, health, process, gone>>

\* asrPools[engineName].capacity == int32(eCCNum), on a second lookup: the nil
\* pointer panics.  Discovery leaves an equal pool alone and releases another
\* one; an update releases an equal one and goes on with another one.
Compare(t) ==
  /\ process = "running"
  /\ pc[t] = "compare"
  /\ LET p == asrPools[Name(t)]
         equal == pool[p].capacity = item[t].cc
     IN  IF p = NoPool
           THEN process' = "panicked" /\ UNCHANGED pc
           ELSE /\ Goto(t, IF t = Discovery
                             THEN IF equal THEN "next" ELSE "release"
                             ELSE IF equal THEN "release" ELSE "endpoints")
                /\ UNCHANGED process
  /\ UNCHANGED <<cluster, asrPools, pool, todo, item, podIp, fresh, health, gone>>

\* The last address among the endpoints of the service; none ends the treatment
\* of this service.
Endpoints(t) ==
  /\ process = "running"
  /\ pc[t] = "endpoints"
  /\ IF item[t] \in services
       THEN podIp' = [podIp EXCEPT ![t] = pod[item[t]]] /\ Goto(t, "livePod")
       ELSE UNCHANGED podIp /\ Goto(t, "next")
  /\ UNCHANGED <<cluster, asrPools, pool, todo, item, fresh, health, process, gone>>

\* livePodStatus := checkGRPCSerer(realServerHost)
LivePod(t) ==
  /\ process = "running"
  /\ pc[t] = "livePod"
  /\ IF PodAnswers(podIp[t])
       THEN Goto(t, "create") /\ UNCHANGED podIp
       ELSE Goto(t, "next") /\ podIp' = [podIp EXCEPT ![t] = AnyAddress]
  /\ UNCHANGED <<cluster, asrPools, pool, todo, item, fresh, health, process, gone>>

-----------------------------------------------------------------------------
(* InitGrpcPoolByOmp and ReleaseGrpcPool                                   *)

\* newGrpcPool fails when one of its dials does, and NewPool refuses a size of
\* zero: log.Fatalf then ends the gateway.
CreateFails(t) ==
  /\ process = "running"
  /\ pc[t] = "create"
  /\ process' = "exited"
  /\ UNCHANGED <<cluster, asrPools, pool, tasks, health, gone>>

\* newGrpcPool, for the address found before.
Create(t) ==
  /\ process = "running"
  /\ pc[t] = "create" /\ item[t].cc > 0
  /\ \E p \in Pools \ (Reachable \cup OpenPools) :
       /\ pool' = [pool EXCEPT ![p] = NewPoolObject(item[t].cc, podIp[t])]
       /\ fresh' = [fresh EXCEPT ![t] = p]
  /\ podIp' = [podIp EXCEPT ![t] = AnyAddress]
  /\ Goto(t, "store")
  /\ UNCHANGED <<cluster, asrPools, todo, item, health, process, gone>>

\* asrPools[p.name] = p
Store(t) ==
  /\ process = "running"
  /\ pc[t] = "store"
  /\ asrPools' = [asrPools EXCEPT ![Name(t)] = fresh[t]]
  /\ fresh' = [fresh EXCEPT ![t] = NoPool]
  /\ Goto(t, "next")
  /\ UNCHANGED <<cluster, pool, todo, item, podIp, health, process, gone>>

\* ReleaseGrpcPool looks the pool up again when discovery or an update calls it.
ReleaseCheck(t) ==
  /\ process = "running"
  /\ pc[t] = "release"
  /\ Goto(t, IF asrPools[Name(t)] # NoPool THEN "close" ELSE "endpoints")
  /\ gone' = gone \ {t}
  /\ UNCHANGED <<cluster, asrPools, pool, todo, item, podIp, fresh, health, process>>

\* asrPools[poolName].Close(), on one more lookup: Close of nil panics.
ReleaseClose(t) ==
  /\ process = "running"
  /\ pc[t] = "close"
  /\ LET p == asrPools[Name(t)]
     IN  IF p = NoPool
           THEN process' = "panicked" /\ UNCHANGED <<pool, pc>>
           ELSE /\ pool' = [pool EXCEPT ![p] = ClosedObject(@)]
                /\ Goto(t, "delete")
                /\ UNCHANGED process
  /\ UNCHANGED <<cluster, asrPools, todo, item, podIp, fresh, health, gone>>

\* Mutant of ReleaseDelete: the closed pool stays in the map.
ReleaseWithoutDelete(t) ==
  /\ process = "running" /\ pc[t] = "delete"
  /\ Goto(t, IF t \in Releases THEN "idle" ELSE "endpoints")
  /\ UNCHANGED <<cluster, asrPools, pool, todo, item, podIp, fresh, health, process, gone>>

\* delete(asrPools, poolName)
ReleaseDelete(t) ==
  /\ process = "running"
  /\ pc[t] = "delete"
  /\ asrPools' = [asrPools EXCEPT ![Name(t)] = NoPool]
  /\ gone' = gone \cup {u \in Tasks \ {t} : Name(u) = Name(t) /\ pc[u] \in {"compare", "close"}}
  /\ Goto(t, IF t \in Releases THEN "idle" ELSE "endpoints")
  /\ UNCHANGED <<cluster, pool, todo, item, podIp, fresh, health, process>>

-----------------------------------------------------------------------------
(* checkAsrGRPCSererHealthTask                                             *)

\* range asrPools: the next pool of this round, or the start of another round.
HealthRange ==
  /\ process = "running"
  /\ hpc = "range"
  /\ IF Registered \subseteq hseen
       THEN hseen' = {} /\ UNCHANGED <<hpc, hpool>>
       ELSE \E p \in Registered \ hseen :
              hseen' = (hseen \cap Registered) \cup {p} /\ hpool' = p /\ hpc' = "probe"
  /\ UNCHANGED <<cluster, asrPools, pool, tasks, hup, process, gone>>

\* The last of up to six dials, to the address the pool was made for.
HealthProbe ==
  /\ process = "running"
  /\ hpc = "probe"
  /\ hup' = PodAnswers(pool[hpool].addr)
  /\ hpc' = "set"
  /\ UNCHANGED <<cluster, asrPools, pool, tasks, hseen, hpool, process, gone>>

\* Mutant of HealthSet: an engine that is back is not noticed.
HealthSetDown ==
  /\ process = "running" /\ hpc = "set"
  /\ pool' = [pool EXCEPT ![hpool].status = @ /\ hup]
  /\ hpool' = NoPool /\ hup' = TRUE /\ hpc' = "range"
  /\ UNCHANGED <<cluster, asrPools, tasks, hseen, process, gone>>

\* pool.status = ...: by now the pool may be out of the map.
HealthSet ==
  /\ process = "running"
  /\ hpc = "set"
  /\ pool' = [pool EXCEPT ![hpool].status = hup]
  /\ hpool' = NoPool /\ hup' = TRUE
  /\ hpc' = "range"
  /\ UNCHANGED <<cluster, asrPools, tasks, hseen, process, gone>>

-----------------------------------------------------------------------------

\* Two unsynchronised accesses to the map at the same time, one of them a
\* write: the runtime may stop the process.
MapWriters == {t \in Tasks : pc[t] \in {"store", "delete"}}
MapReaders == {t \in Tasks : pc[t] \in {"exists", "compare", "release", "close"}}

MapRace ==
  /\ process = "running"
  /\ \/ \E t, u \in MapWriters : t # u
     \/ MapWriters # {} /\ (MapReaders # {} \/ hpc = "range")
  /\ process' = "crashed"
  /\ UNCHANGED <<cluster, asrPools, pool, tasks, health, gone>>

Environment == \E s \in Service : Deploy(s) \/ Undeploy(s) \/ Replace(s) \/ Toggle(s)

Step(t) ==
  \/ List(t) \/ NextService(t) \/ Exists(t) \/ Compare(t) \/ Endpoints(t)
  \/ LivePod(t) \/ CreateFails(t) \/ Create(t) \/ Store(t)
  \/ ReleaseCheck(t) \/ ReleaseClose(t) \/ ReleaseDelete(t)

HealthCheck == HealthRange \/ HealthProbe \/ HealthSet

Next ==
  \/ Environment
  \/ \E t \in Tasks : Call(t) \/ Step(t)
  \/ HealthCheck
  \/ MapRace

Spec == Init /\ [][Next]_vars

\* The scheduler runs the goroutines: their sleeps and dials end.
FairSpec ==
  /\ Spec
  /\ \A t \in Tasks : WF_vars(Step(t))
  /\ WF_vars(HealthCheck)

-----------------------------------------------------------------------------
(* Properties                                                              *)

TypeOK ==
  /\ services \subseteq Service /\ moved \subseteq Service
  /\ pod \in [Service -> Addresses] /\ up \subseteq Addresses
  /\ changes \in 0..MaxChanges
  /\ asrPools \in [Scenes -> Pools \cup {NoPool}]
  /\ pool \in [Pools -> [open : BOOLEAN, status : BOOLEAN, capacity : Capacities, addr : Addresses]]
  /\ pc \in [Tasks -> {"idle", "list", "next", "exists", "compare", "endpoints", "livePod",
                       "create", "store", "release", "close", "delete"}]
  /\ todo \in [Tasks -> SUBSET Service]
  /\ item \in [Tasks -> Service]
  /\ podIp \in [Tasks -> Addresses]
  /\ fresh \in [Tasks -> Pools \cup {NoPool}]
  /\ hpc \in {"range", "probe", "set"}
  /\ hseen \subseteq Pools
  /\ hpool \in Pools \cup {NoPool}
  /\ hup \in BOOLEAN
  /\ process \in {"running", "panicked", "exited", "crashed"}
  /\ gone \subseteq Tasks

\* Every open pool is in the map or on its way into it: a pool that is taken
\* out of the map was closed, so its connections do not stay open for ever.
NoPoolLeaks == OpenPools \subseteq Registered \cup {fresh[t] : t \in Tasks}

\* A closed pool is in the map only while the task that closed it is about to
\* delete that entry, whoever else stores or deletes meanwhile.
ClosedPoolsLeave ==
  \A n \in Scenes :
    asrPools[n] # NoPool /\ ~pool[asrPools[n]].open =>
      \E t \in Tasks : pc[t] = "delete" /\ Name(t) = n

\* "if eq continue or release pool": discovery, left alone, never takes a pool
\* out of the map whose capacity is the one the service asks for, so requests
\* keep their connections while nothing changes.
EqualPoolsKept ==
  [][\A n \in Scenes :
       asrPools[n] # NoPool /\ asrPools'[n] # asrPools[n] =>
         pool[asrPools[n]].capacity # item[Discovery].cc]_vars

\* The table is an EngineTable to its readers.  Between any of discovery's steps
\* an engine has at most one pool, and no pool is replaced or removed while it is
\* open.  Updates and releases beside discovery may do that, but even then a pool
\* is in one entry at most, is closed only in the table, and does not come back.
Table == INSTANCE EngineTable
           WITH table <- asrPools, open <- OpenPools \ {fresh[t] : t \in Tasks},
                SingleWriter <- Updates \cup Releases = {}

TableKept == Table!Spec

\* "if eq continue or release pool": a task that finds the engine with another
\* capacity releases its pool before it makes a new one for that engine.
ChangedEngineReleased ==
  [][\A t \in Tasks :
       LET p == asrPools[Name(t)]
       IN  /\ pc[t] = "compare" /\ pc'[t] # "compare"
           /\ p # NoPool /\ pool[p].capacity # item[t].cc
           => pc'[t] = "release"]_vars

\* "if engine exists": between the test and the lookups that rest on it an entry
\* goes away only because another task takes it out; the nil pointer then panics.
\* Discovery alone, and an engine nobody tested for, never panic.
EngineStillExists ==
  /\ \A t \in Tasks : pc[t] \in {"compare", "close"} /\ asrPools[Name(t)] = NoPool => t \in gone
  /\ process = "panicked" => gone # {}

\* Scenes more than one service claims: discovery exchanges their pool in
\* every round.
Contested == {n \in Scenes : \E s, o \in services : s # o /\ s.name = n /\ o.name = n}

\* Once the cluster is quiet every service that answers has an open pool of its
\* capacity, unless its scene is contested.  The pool is for the address of its
\* pod if that was always the same: nothing compares addresses, so the pool of a
\* pod that was replaced stays.
Converges ==
  <>[](process = "running" =>
         \A s \in services : ServiceAnswers(s) /\ s.name \notin Contested =>
           LET p == asrPools[s.name]
           IN  /\ p # NoPool /\ pool[p].open /\ pool[p].capacity = s.cc
               /\ s \notin moved => pool[p].addr = pod[s])

\* Once the cluster is quiet the status of every registered pool is what the
\* address it was made for shows, unless its scene is contested.  That is the
\* engine's own state only while its pod has that address.
StatusConverges ==
  <>[](process = "running" =>
         \A n \in Scenes \ Contested :
           LET p == asrPools[n]
           IN  p # NoPool => pool[p].status = PodAnswers(pool[p].addr))

=============================================================================
