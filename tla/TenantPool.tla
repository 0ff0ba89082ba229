----------------------------- MODULE TenantPool -----------------------------
(***************************************************************************)
(* Tenants (pkg/plugins/pool/grpc/tenant.go): at start every tenant of the *)
(* configuration gets a fixed number of clients out of the engine pools,   *)
(* and afterwards its requests use these clients and no others.            *)
(*                                                                         *)
(* The start-up itself is in Startup, which this module completes with the *)
(* tenants, the requests and the reader of the metrics.                    *)
(*                                                                         *)
(* Channels are sets of clients here: which of its clients a tenant hands  *)
(* out makes no difference.  In this mode nobody closes an engine pool.    *)
(***************************************************************************)
EXTENDS Startup

CONSTANTS
  Tenants,    \* the entries of the tenant configuration
  TenantSize, \* their ENGINE_POOL_SIZE
  Scene,      \* their SCENE_CODE
  Requests    \* slots for concurrent requests

ASSUME TenantAssumption ==
  /\ TenantSize \in [Tenants -> Nat]
  /\ \A t \in Tenants : EngineOf[t] \in Engines
  /\ Pools \cap Tenants = {}
  /\ IsFiniteSet(Tenants) /\ IsFiniteSet(Requests)
  /\ None \notin Tenants \cup (Pools \X Nat)

VARIABLES
  clients,  \* the clients buffered in the channel of each pool and tenant
  tag,      \* client.tenant
  tenants,  \* the map from engine and scene code to tenant
  entry, left, todo,  \* initTenantPool: the entry being filled, how many
                      \* clients it still gets, the entries to come
  pc, using, held,    \* per request: program point, tenant and client
  mpc, owner, size1,  \* the metrics: program point, the pool or tenant it looks
                      \* at and the first size it has read of it
  seen                \* history: connections of owner in use during that read

startup  == <<entry, left, todo>>
requests == <<pc, using, held>>
metrics  == <<mpc, owner, size1>>
vars     == <<starting, process, clients, tag, tenants, startup, requests, metrics, seen>>

ClientsOf(p) == {p} \X (1..Share(p))
Clients      == UNION {ClientsOf(p) : p \in Pools}
Key(t)       == <<EngineOf[t], Scene[t]>>
Keys         == {Key(t) : t \in Tenants}

AnyOf(set) == CHOOSE c \in set : TRUE

Init ==
  /\ StartupInit
  /\ clients = [o \in Pools \cup Tenants |-> {}]
  /\ tag = [c \in Clients |-> None]
  /\ tenants = [k \in Keys |-> None]
  /\ entry = None /\ left = 0 /\ todo = Tenants
  /\ pc = [r \in Requests |-> "idle"]
  /\ using = [r \in Requests |-> None]
  /\ held = [r \in Requests |-> None]
  /\ mpc = "sleep" /\ owner = None /\ size1 = 0 /\ seen = {}

\* newGrpcPool fills the pool before it is put into its table.
Start ==
  /\ GRPCServer
  /\ clients' = IF making' \in Pools \ {making}
                  THEN [clients EXCEPT ![making'] = ClientsOf(making')] ELSE clients
  /\ UNCHANGED <<tag, tenants, startup, requests, metrics>>

-----------------------------------------------------------------------------
(* initTenantPool                                                          *)

\* The next entry of the configuration: a tenant with an empty channel.
NextTenant ==
  /\ init = "tenants" /\ entry = None
  /\ IF todo = {}
       THEN init' = "servers" /\ UNCHANGED startup
       ELSE \E t \in todo :
              /\ entry' = t /\ left' = TenantSize[t] /\ todo' = todo \ {t}
              /\ UNCHANGED init
  /\ UNCHANGED <<poolSize, making, configured, pools, server, process, clients, tag, tenants,
                 requests, metrics>>

\* Mutant of Fullest: only a pool with more clients than all others is chosen.
FullestOfAll(e) ==
  {p \in Pools : EngineOf[p] = e /\ clients[p] # {} /\ \A q \in {q \in Pools : EngineOf[q] = e} \ {p} :
     Cardinality(clients[q]) < Cardinality(clients[p])}

\* The pools of an engine blanceAcquirePool may choose: the ones with the most
\* clients.
Fullest(e) ==
  LET own == {p \in Pools : EngineOf[p] = e}
  IN  {p \in own : clients[p] # {} /\ \A q \in own :
         Cardinality(clients[q]) <= Cardinality(clients[p])}

\* Mutant of GiveClient: client.tenant is not set.
GiveClientUntagged ==
  /\ init = "tenants" /\ entry # None /\ left > 0
  /\ \E p \in Fullest(EngineOf[entry]) : LET c == AnyOf(clients[p]) IN
       clients' = [clients EXCEPT ![p] = @ \ {c}, ![entry] = @ \cup {c}]
  /\ left' = left - 1
  /\ UNCHANGED <<starting, process, tag, tenants, entry, todo, requests, metrics>>

\* One more client for the tenant.
GiveClient ==
  /\ init = "tenants" /\ entry # None /\ left > 0
  /\ IF Fullest(EngineOf[entry]) = {}
       THEN process' = "panicked" /\ UNCHANGED <<clients, tag, left>>
       ELSE \E p \in Fullest(EngineOf[entry]) : LET c == AnyOf(clients[p]) IN
              /\ clients' = [clients EXCEPT ![p] = @ \ {c}, ![entry] = @ \cup {c}]
              /\ tag' = [tag EXCEPT ![c] = entry]
              /\ left' = left - 1
              /\ UNCHANGED process
  /\ UNCHANGED <<starting, tenants, entry, todo, requests, metrics>>

\* tenants["asr"][tenantId] = tenant
RegisterTenant ==
  /\ init = "tenants" /\ entry # None /\ left = 0
  /\ tenants' = [tenants EXCEPT ![Key(entry)] = entry]
  /\ entry' = None
  /\ UNCHANGED <<starting, process, clients, tag, left, todo, requests, metrics>>

-----------------------------------------------------------------------------
(* Requests                                                                *)

\* The director finds the tenant of the scene code in the request's token.
Acquire(r) ==
  /\ pc[r] = "idle"
  /\ \E k \in Keys : server[k[1]] = "serving" /\ using' = [using EXCEPT ![r] = tenants[k]]
  /\ pc' = [pc EXCEPT ![r] = "wait"]
  /\ UNCHANGED <<starting, process, clients, tag, tenants, startup, held, metrics>>

\* return <-pool.clients: nothing but a client ends this wait.
Receive(r) ==
  /\ pc[r] = "wait"
  /\ clients[using[r]] # {}
  /\ LET c == AnyOf(clients[using[r]])
     IN  /\ clients' = [clients EXCEPT ![using[r]] = @ \ {c}]
         /\ held' = [held EXCEPT ![r] = c]
  /\ pc' = [pc EXCEPT ![r] = "holding"]
  /\ UNCHANGED <<starting, process, tag, tenants, startup, using, metrics>>

\* The handler returns, and Client.Close starts its goroutine.
Release(r) ==
  /\ pc[r] = "holding"
  /\ pc' = [pc EXCEPT ![r] = "send"]
  /\ UNCHANGED <<starting, process, clients, tag, tenants, startup, using, held, metrics>>

\* Mutant of SendBack: the client goes back to the engine pool it came from.
SendBackToPool(r) ==
  /\ pc[r] = "send"
  /\ clients' = [clients EXCEPT ![held[r][1]] = @ \cup {held[r]}]
  /\ held' = [held EXCEPT ![r] = None]
  /\ pc' = [pc EXCEPT ![r] = "idle"]
  /\ UNCHANGED <<starting, process, tag, tenants, startup, using, metrics>>

\* client.tenant.clients <- client
SendBack(r) ==
  /\ pc[r] = "send"
  /\ Cardinality(clients[tag[held[r]]]) < TenantSize[tag[held[r]]]
  /\ clients' = [clients EXCEPT ![tag[held[r]]] = @ \cup {held[r]}]
  /\ held' = [held EXCEPT ![r] = None]
  /\ pc' = [pc EXCEPT ![r] = "idle"]
  /\ UNCHANGED <<starting, process, tag, tenants, startup, using, metrics>>

-----------------------------------------------------------------------------
(* GetAsrPoolMetricsData, which ShowMetrics calls every second in the dev  *)
(* mode and the HTTP server for /engine/metricsdata in any mode.  The      *)
(* figures of one pool or tenant do not depend on those of another, so a   *)
(* round looks at one of them.                                             *)

\* if !asrOptions.PoolStatus: without it there is nothing to go through.
MetricsRound ==
  /\ mpc = "sleep"
  /\ \E e \in configured : owner' = e
  /\ mpc' = "range"
  /\ UNCHANGED <<starting, process, clients, tag, tenants, startup, requests, size1>>

\* The pools of an engine, and its tenants once the map of all is assigned.
Listed(e) ==
  {p \in pools : EngineOf[p] = e}
    \cup IF init \in {"servers", "done"}
           THEN {tenants[k] : k \in {k \in Keys : k[1] = e}} ELSE {}

\* range asrPools, range tenants["asr"]: GetConnCurrent reads the size, unless
\* nothing is there yet or the health check has marked the pool as down.
MetricsRead ==
  /\ mpc = "range"
  /\ \/ mpc' = "sleep" /\ owner' = None /\ UNCHANGED size1
     \/ \E o \in Listed(owner) :
          mpc' = "second" /\ owner' = o /\ size1' = Cardinality(clients[o])
  /\ UNCHANGED <<starting, process, clients, tag, tenants, startup, requests>>

CapacityOf(o) == IF o \in Pools THEN Share(o) ELSE TenantSize[o]

\* Mutant of ConnCurrent: any idle client makes the pool count as unused.
ConnCurrentAnyIdle == IF Cardinality(clients[owner]) > 0 THEN 0 ELSE CapacityOf(owner) - size1

\* poolCurrentSize is a second read; a pool that is full then is not in use.
ConnCurrent ==
  IF Cardinality(clients[owner]) >= CapacityOf(owner) THEN 0 ELSE CapacityOf(owner) - size1

MetricsReport ==
  /\ mpc = "second"
  /\ mpc' = "sleep" /\ owner' = None /\ size1' = 0
  /\ UNCHANGED <<starting, process, clients, tag, tenants, startup, requests>>

\* Going through a map while a pool is put into it: the runtime may stop the
\* process.
MetricsRace ==
  /\ mpc = "range" /\ init = "store" /\ owner = EngineOf[making]
  /\ process' = "crashed"
  /\ UNCHANGED <<starting, clients, tag, tenants, startup, requests, metrics>>

-----------------------------------------------------------------------------

HeldBy(t) == {r \in Requests : held[r] # None /\ tag[held[r]] = t}

\* Connections in use: of a tenant by its requests, of a pool by tenants.
InUse(o) ==
  IF o \in Tenants THEN Cardinality(HeldBy(o))
                   ELSE Cardinality({c \in ClientsOf(o) : tag[c] # None})

Remember ==
  seen' = IF mpc' # "second" THEN {}
          ELSE (IF mpc = "second" THEN seen ELSE {}) \cup {InUse(owner)'}

InitTenantPool == NextTenant \/ GiveClient \/ RegisterTenant

GetMetricsData == MetricsRound \/ MetricsRead \/ MetricsReport

Next ==
  /\ process = "running"
  /\ \/ Start \/ InitTenantPool
     \/ \E r \in Requests : Acquire(r) \/ Receive(r) \/ Release(r) \/ SendBack(r)
     \/ GetMetricsData \/ MetricsRace
  /\ Remember

\* A process that has ended stays ended.
Ended == process # "running" /\ UNCHANGED vars

Spec == Init /\ [][Next \/ Ended]_vars

\* Start-up and goroutines run, blocked receivers and senders of a channel are
\* served in order of arrival, and streams end.
Running(A) == process = "running" /\ A /\ Remember

FairSpec ==
  /\ Spec
  /\ WF_vars(Running(Start \/ InitTenantPool))
  /\ \A r \in Requests : /\ SF_vars(Running(Receive(r)))
                         /\ WF_vars(Running(Release(r)))
                         /\ SF_vars(Running(SendBack(r)))

-----------------------------------------------------------------------------
(* Properties                                                              *)

TypeOK ==
  /\ StartupTypes
  /\ clients \in [Pools \cup Tenants -> SUBSET Clients]
  /\ tag \in [Clients -> Tenants \cup {None}]
  /\ tenants \in [Keys -> Tenants \cup {None}]
  /\ entry \in Tenants \cup {None} /\ left \in Nat /\ todo \subseteq Tenants
  /\ pc \in [Requests -> {"idle", "wait", "holding", "send"}]
  /\ using \in [Requests -> Tenants \cup {None}]
  /\ \A r \in Requests : pc[r] # "idle" => using[r] \in Tenants
  /\ held \in [Requests -> Clients \cup {None}]
  /\ mpc \in {"sleep", "range", "second"}
  /\ owner \in Pools \cup Tenants \cup Engines \cup {None}
  /\ size1 \in Nat

\* A tenant keeps the number of clients it was configured with: what its
\* requests use comes back to it, and nothing else does.
TenantKeepsSize ==
  init \in {"servers", "done"} =>
    \A t \in Tenants : Cardinality(clients[t]) + Cardinality(HeldBy(t)) = TenantSize[t]

\* Tenants do not share connections: a request holds a client of the tenant
\* its scene code names, and nobody else has it.
TenantsIsolated ==
  \A r \in Requests : held[r] # None =>
    /\ tag[held[r]] = using[r]
    /\ \A o \in Pools \cup Tenants : held[r] \notin clients[o]
    /\ \A q \in Requests : q # r => held[q] # held[r]

\* The clients the pools of an engine have, and the ones its tenants need.
Supply(e) == UNION {ClientsOf(p) : p \in {p \in Pools : EngineOf[p] = e}}
Demand(e) == UNION {{t} \X (1..TenantSize[t]) : t \in {t \in Tenants : EngineOf[t] = e}}

TenantsFit == \A e \in Engines : Cardinality(Demand(e)) <= Cardinality(Supply(e))

\* "pool capacity is not enough" and "Pool init error": the start-up ends for
\* want of capacity only when the capacity of an engine really is not enough,
\* however the tenants' clients are spread over its pools, and over a size only
\* when a node of the cluster gets no connection.  Whatever ends the process, a
\* dial that fails and the race with the metrics included, ends it before
\* anything is served: no stream is ever cut.
EnoughIsEnough ==
  /\ process = "panicked" => ~TenantsFit
  /\ process = "refused" => ~EveryNodeServed
  /\ process # "running" => \A e \in Engines : server[e] = "off"

\* With a configuration that leaves no node without a connection and no tenant
\* without its clients the gateway comes up for every engine whose port is
\* free: neither the servers that fail nor the sizes of the others stop it.
\* Only a dial that fails, which ends every start-up, and the race with a reader
\* of the metrics may.
ComesUp ==
  EveryNodeServed /\ TenantsFit ~>
    \/ process \in {"undialled", "crashed"}
    \/ \A e \in Engines \ TakenPorts : server[e] = "serving"

\* A request that waits for a client of its tenant gets one.
TenantServes ==
  \A r \in Requests : pc[r] = "wait" /\ TenantSize[using[r]] > 0 ~> pc[r] = "holding"

\* The metrics tell the truth: the connections reported as in use were really
\* in use at some moment of the report, though sizes are read twice, without a
\* lock over both, while requests and start-up take and return clients.
MetricsReal ==
  [][mpc = "second" /\ mpc' = "sleep" => ConnCurrent \in seen]_vars

=============================================================================
