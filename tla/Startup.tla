------------------------------- MODULE Startup -------------------------------
(***************************************************************************)
(* The start of the gateway when its engines are in the configuration      *)
(* (OMP off): pigeon.go starts the plugins, GRPCServer of                  *)
(* pkg/plugins/proxy/grpc.go fills the tables of pools through             *)
(* InitGrpcPool and then listens for every engine, while the metrics may   *)
(* read the same tables.                                                   *)
(*                                                                         *)
(* main itself only waits: every plugin reports its end on the field       *)
(* Status of its own receiver, a nil channel, and never on the one main    *)
(* receives from, so nothing that ends here ends the process but a panic,  *)
(* log.Fatalf or the runtime.                                              *)
(***************************************************************************)
EXTENDS Integers, FiniteSets

CONSTANTS
  Engines,     \* the enabled entries of pool.engine, "asr" and "tts"
  Pools,       \* the entries of their ENGINE_LISTs
  EngineOf,    \* the engine of each pool, and of each tenant
  Sizes,       \* per pool, the values ENGINE_GRPC_POOL_SIZE may have
  NodeNum,     \* CLUSTER_NODE_NUM
  Cluster,     \* CLUSTER_ENABLED
  TakenPorts,  \* engines whose GATEWAY_PROXY_PORT somebody else listens on
  None

ASSUME StartupAssumption ==
  /\ IsFiniteSet(Pools)
  /\ \A p \in Pools : EngineOf[p] \in Engines
  /\ Sizes \in [Pools -> SUBSET Nat]
  /\ NodeNum \in Nat \ {0}
  /\ Cluster \in BOOLEAN
  /\ TakenPorts \subseteq Engines
  /\ None \notin Pools \cup Engines

VARIABLES
  poolSize,    \* ENGINE_GRPC_POOL_SIZE of each pool
  init,        \* where GRPCServer is
  making,      \* the pool made and not yet in its table
  configured,  \* engines whose options, asrOptions or ttsOptions, are set
  pools,       \* asrPools and ttsPools
  server,      \* the goroutine grpcServer of each engine
  process      \* "running", or what has ended it

starting == <<poolSize, init, making, configured, pools, server>>

StartupInit ==
  /\ poolSize \in {f \in [Pools -> UNION {Sizes[p] : p \in Pools}] : \A p \in Pools : f[p] \in Sizes[p]}
  /\ init = "engines"
  /\ making = None
  /\ configured = {}
  /\ pools = {}
  /\ server = [e \in Engines |-> "off"]
  /\ process = "running"

-----------------------------------------------------------------------------
(* InitGrpcPool                                                            *)

\* What a node of the cluster gets of an engine's size.
NodeShare(size) ==
  IF ~Cluster THEN size
  ELSE IF size % 2 = 0 THEN size \div NodeNum ELSE size \div NodeNum + 1

Share(p) == NodeShare(poolSize[p])

\* The next entry of the ENGINE_LISTs.  NewPool refuses a size of zero and gives
\* up at the first dial that fails, and log.Fatalf exits.
MakePool ==
  /\ init = "engines"
  /\ \E p \in Pools \ pools :
       \/ Share(p) = 0 /\ process' = "refused" /\ UNCHANGED <<init, making>>
       \/ Share(p) > 0 /\ process' = "undialled" /\ UNCHANGED <<init, making>>
       \/ Share(p) > 0 /\ making' = p /\ init' = "options" /\ UNCHANGED process
  /\ UNCHANGED <<poolSize, configured, pools, server>>

\* asrOptions = op, and the address of the gateway.
SetOptions ==
  /\ init = "options"
  /\ configured' = configured \cup {EngineOf[making]}
  /\ init' = "store"
  /\ UNCHANGED <<poolSize, making, pools, server, process>>

\* asrPools[xid] = p
StorePool ==
  /\ init = "store"
  /\ pools' = pools \cup {making}
  /\ making' = None
  /\ init' = "engines"
  /\ UNCHANGED <<poolSize, configured, server, process>>

PoolsComplete ==
  /\ init = "engines" /\ pools = Pools
  /\ init' = "tenants"
  /\ UNCHANGED <<poolSize, making, configured, pools, server, process>>

InitGrpcPool == MakePool \/ SetOptions \/ StorePool \/ PoolsComplete

-----------------------------------------------------------------------------
(* GRPCServer after InitGrpcPool, and grpcServer                           *)

\* Mutant of StartServer: grpcServer is called without go, and does not return.
StartServerInline ==
  /\ init = "servers"
  /\ \A e \in Engines : server[e] = "off"
  /\ \E e \in Engines : server' = [server EXCEPT ![e] = "starting"]
  /\ UNCHANGED <<poolSize, init, making, configured, pools, process>>

\* go plugin.grpcServer(...), one engine after the other.
StartServer ==
  /\ init = "servers"
  /\ IF \E e \in Engines : server[e] = "off"
       THEN /\ \E e \in Engines : server[e] = "off" /\ server' = [server EXCEPT ![e] = "starting"]
            /\ UNCHANGED init
       ELSE init' = "done" /\ UNCHANGED server
  /\ UNCHANGED <<poolSize, making, configured, pools, process>>

\* net.Listen and Serve: a server that cannot listen logs the error and waits
\* before its nil channel.
Listen(e) ==
  /\ server[e] = "starting"
  /\ server' = [server EXCEPT ![e] = IF e \in TakenPorts THEN "failed" ELSE "serving"]
  /\ UNCHANGED <<poolSize, init, making, configured, pools, process>>

GRPCServer == InitGrpcPool \/ StartServer \/ \E e \in Engines : Listen(e)

-----------------------------------------------------------------------------

StartupTypes ==
  /\ poolSize \in [Pools -> Nat]
  /\ init \in {"engines", "options", "store", "tenants", "servers", "done"}
  /\ making \in Pools \cup {None}
  /\ configured \subseteq Engines
  /\ pools \subseteq Pools
  /\ server \in [Engines -> {"off", "starting", "serving", "failed"}]
  /\ process \in {"running", "refused", "undialled", "panicked", "crashed"}

\* Every node gets a connection of every engine: its size is odd, or it is not
\* smaller than the number of nodes.
EveryNodeServed ==
  \A p \in Pools : poolSize[p] > 0 /\ (Cluster => poolSize[p] % 2 = 1 \/ poolSize[p] >= NodeNum)

=============================================================================
