-------------------------- MODULE TenantPoolProofs --------------------------
(***************************************************************************)
(* Theorems about TenantPool, for any engines, pools, sizes, cluster and   *)
(* tenants, and any number of concurrent requests.                         *)
(***************************************************************************)
EXTENDS TenantPool, FiniteSetTheorems, FunctionTheorems, TLAPS

-----------------------------------------------------------------------------
(* Typing and the order of the start-up                                    *)

Owners == Pools \cup Tenants

\* What the tenants and their requests are made of.
Types ==
  /\ poolSize \in [Pools -> Nat]
  /\ making \in Pools \cup {None} /\ pools \subseteq Pools
  /\ server \in [Engines -> {"off", "starting", "serving", "failed"}]
  /\ clients \in [Owners -> SUBSET Clients]
  /\ \A o \in Owners : IsFiniteSet(clients[o])
  /\ tag \in [Clients -> Tenants \cup {None}]
  /\ tenants \in [Keys -> Tenants \cup {None}]
  /\ entry \in Tenants \cup {None} /\ left \in Nat /\ todo \subseteq Tenants
  /\ pc \in [Requests -> {"idle", "wait", "holding", "send"}]
  /\ using \in [Requests -> Tenants \cup {None}]
  /\ held \in [Requests -> Clients \cup {None}]

Starting == {"engines", "options", "store"}
Serving  == {"servers", "done"}

\* Tenants are filled after all pools are made, and requests come after all
\* tenants are filled.
Stages ==
  /\ init \in Starting \cup {"tenants"} \cup Serving
  /\ making # None <=> init \in {"options", "store"}
  /\ making # None => making \notin pools
  /\ init \in Starting => entry = None /\ todo = Tenants /\ \A c \in Clients : tag[c] = None
  /\ init \in Serving => entry = None /\ todo = {}
  /\ init \notin Serving => /\ \A e \in Engines : server[e] = "off"
                            /\ \A r \in Requests : pc[r] = "idle"
  /\ \A t \in Tenants : t \in todo \/ t = entry \/ tenants[Key(t)] # None
  /\ entry \notin todo

\* A client is in the channel of its pool, in that of its tenant, or with one
\* request of its tenant.
Places ==
  /\ \A p \in Pools : \A c \in clients[p] : c \in ClientsOf(p) /\ tag[c] = None
  /\ \A t \in Tenants : \A c \in clients[t] : tag[c] = t
  /\ \A r \in Requests : pc[r] # "idle" => using[r] \in Tenants
  /\ \A r \in Requests : held[r] # None <=> pc[r] \in {"holding", "send"}
  /\ TenantsIsolated

IInv == Types /\ Stages /\ Places

LEMMA ClientFacts ==
  /\ None \notin Clients
  /\ \A p \in Pools : ClientsOf(p) \subseteq Clients
  /\ \A p, q \in Pools : \A c \in ClientsOf(p) \cap ClientsOf(q) : p = q
  /\ \A p \in Pools : poolSize[p] \in Nat => IsFiniteSet(ClientsOf(p))
<1>1. \A p \in Pools : ClientsOf(p) \subseteq Clients
  BY DEF Clients
<1>2. \A p, q \in Pools : \A c \in ClientsOf(p) \cap ClientsOf(q) : p = q
  BY DEF ClientsOf
<1>3. None \notin Clients
  <2>1. \A p \in Pools : \A c \in ClientsOf(p) : c \in Pools \X Nat
    BY DEF ClientsOf
  <2>2. QED
    BY <2>1, TenantAssumption DEF Clients
<1>4. ASSUME NEW p \in Pools, poolSize[p] \in Nat
      PROVE  IsFiniteSet(ClientsOf(p))
  <2>0. \A n \in Nat : n \div NodeNum \in Int
    BY StartupAssumption
  <2>1. Share(p) \in Int
    BY <1>4, <2>0, StartupAssumption DEF Share, NodeShare
  <2>2. IsFiniteSet({p})
    BY FS_Singleton
  <2>3. IsFiniteSet(1..Share(p))
    BY <2>1, FS_Interval
  <2>4. QED
    BY <2>2, <2>3, FS_Product DEF ClientsOf
<1>5. QED
  BY <1>1, <1>2, <1>3, <1>4

LEMMA InvInit == Init => IInv
<1> SUFFICES ASSUME Init
             PROVE  IInv
  OBVIOUS
<1>1. poolSize \in [Pools -> Nat]
  <2>1. poolSize \in [Pools -> UNION {Sizes[p] : p \in Pools}]
    BY DEF Init, StartupInit
  <2>2. \A p \in Pools : poolSize[p] \in Sizes[p] /\ Sizes[p] \subseteq Nat
    BY StartupAssumption DEF Init, StartupInit
  <2>3. QED
    BY <2>1, <2>2
<1>2. Types
  BY <1>1, FS_EmptySet DEF Init, StartupInit, Types, Owners
<1>3. Stages
  BY <1>2, TenantAssumption DEF Init, StartupInit, Stages, Starting, Serving
<1>4. Places
  BY <1>2 DEF Init, Places, TenantsIsolated, Owners
<1>5. QED
  BY <1>2, <1>3, <1>4 DEF IInv

-----------------------------------------------------------------------------
(* Each step keeps the invariant.                                          *)

LEMMA SameClients ==
  ASSUME UNCHANGED poolSize
  PROVE  Clients' = Clients /\ \A p \in Pools : ClientsOf(p)' = ClientsOf(p)
BY DEF Clients, ClientsOf, Share, NodeShare

\* A step that concerns neither the tenants nor the requests.
LEMMA QuietStep ==
  ASSUME IInv, UNCHANGED <<starting, clients, tag, tenants, startup, requests>>
  PROVE  IInv'
<1>1. UNCHANGED poolSize
  BY DEF starting
<1>2. Clients' = Clients /\ \A p \in Pools : ClientsOf(p)' = ClientsOf(p)
  BY <1>1, SameClients
<1>3. Types' /\ Stages'
  BY <1>2 DEF IInv, Types, Stages, starting, startup, requests
<1>4. Places'
  BY <1>2 DEF IInv, Places, TenantsIsolated, starting, startup, requests
<1>5. QED
  BY <1>3, <1>4 DEF IInv

\* What GRPCServer changes, apart from the channel it fills.
LEMMA ServerFacts ==
  ASSUME IInv, GRPCServer
  PROVE  /\ UNCHANGED poolSize
         /\ making' \in Pools \cup {None} /\ pools' \subseteq Pools
         /\ server' \in [Engines -> {"off", "starting", "serving", "failed"}]
         /\ init' \in Starting \cup {"tenants"} \cup Serving
         /\ making' # None <=> init' \in {"options", "store"}
         /\ making' # None => making' \notin pools'
         /\ init' \in Starting => init \in Starting
         /\ init' \in Serving <=> init \in Serving
         /\ init' = "tenants" => init \in Starting \cup {"tenants"}
         /\ init' \notin Serving => \A e \in Engines : server'[e] = server[e]
         /\ making' \in Pools \ {making} => init \in Starting
<1> USE DEF IInv, Types, Stages, Starting, Serving
<1>1. CASE MakePool
  BY <1>1, StartupAssumption DEF MakePool
<1>2. CASE SetOptions
  BY <1>2 DEF SetOptions
<1>3. CASE StorePool
  BY <1>3 DEF StorePool
<1>4. CASE PoolsComplete
  BY <1>4 DEF PoolsComplete
<1>5. CASE StartServer
  BY <1>5 DEF StartServer
<1>6. ASSUME NEW e \in Engines, Listen(e)
      PROVE  init \in Serving
  BY <1>6 DEF Listen
<1>7. CASE \E e \in Engines : Listen(e)
  BY <1>6, <1>7 DEF Listen
<1>8. QED
  BY <1>1, <1>2, <1>3, <1>4, <1>5, <1>7 DEF GRPCServer, InitGrpcPool

LEMMA StartStep ==
  ASSUME IInv, Start
  PROVE  IInv'
<1> USE DEF startup, requests
<1>0. /\ Types /\ Stages /\ Places
      /\ GRPCServer /\ UNCHANGED <<tag, tenants, entry, left, todo, pc, using, held>>
  BY DEF IInv, Start
<1>1. /\ UNCHANGED poolSize
      /\ making' \in Pools \cup {None} /\ pools' \subseteq Pools
      /\ server' \in [Engines -> {"off", "starting", "serving", "failed"}]
      /\ init' \in Starting \cup {"tenants"} \cup Serving
      /\ making' # None <=> init' \in {"options", "store"}
      /\ making' # None => making' \notin pools'
      /\ init' \in Starting => init \in Starting
      /\ init' \in Serving <=> init \in Serving
      /\ init' = "tenants" => init \in Starting \cup {"tenants"}
      /\ init' \notin Serving => \A e \in Engines : server'[e] = server[e]
      /\ making' \in Pools \ {making} => init \in Starting
  BY <1>0, ServerFacts
<1>2. Clients' = Clients /\ \A p \in Pools : ClientsOf(p)' = ClientsOf(p)
  BY <1>1, SameClients
<1>3. Stages'
  BY <1>0, <1>1, <1>2 DEF Stages
<1>4. CASE making' \notin Pools \ {making}
  <2>1. UNCHANGED clients
    BY <1>4 DEF Start
  <2>2. Types'
    BY <1>0, <1>1, <1>2, <2>1 DEF Types
  <2>3. Places'
    BY <1>0, <1>2, <2>1 DEF Places, TenantsIsolated
  <2>4. QED
    BY <1>3, <2>2, <2>3 DEF IInv
<1>5. CASE making' \in Pools \ {making}
  <2>1. clients' = [clients EXCEPT ![making'] = ClientsOf(making')]
    BY <1>5 DEF Start
  <2>2. /\ ClientsOf(making') \subseteq Clients /\ IsFiniteSet(ClientsOf(making'))
        /\ init \in Starting
    BY <1>0, <1>1, <1>5, ClientFacts DEF Types
  <2>3. Types'
    <3>1. clients' \in [Owners -> SUBSET Clients]
      BY <1>0, <1>5, <2>1, <2>2 DEF Types, Owners
    <3>2. \A o \in Owners : IsFiniteSet(clients'[o])
      BY <1>0, <1>5, <2>1, <2>2 DEF Types, Owners
    <3>3. QED
      BY <1>0, <1>1, <1>2, <3>1, <3>2 DEF Types
  <2>4. Places'
    <3>1. /\ \A r \in Requests : pc[r] = "idle" /\ held[r] = None
          /\ \A c \in Clients : tag[c] = None
      BY <1>0, <2>2 DEF Stages, Places, Starting, Serving
    <3>2. \A p \in Pools : \A c \in clients'[p] : c \in ClientsOf(p) /\ tag[c] = None
      BY <1>0, <1>5, <2>1, <2>2, <3>1 DEF Types, Places, Owners
    <3>3. \A t \in Tenants : clients'[t] = clients[t]
      BY <1>0, <1>5, <2>1, TenantAssumption DEF Types, Owners
    <3>4. QED
      BY <1>0, <1>2, <3>1, <3>2, <3>3 DEF Places, TenantsIsolated
  <2>5. QED
    BY <1>3, <2>3, <2>4 DEF IInv
<1>6. QED
  BY <1>4, <1>5

LEMMA TenantStep ==
  ASSUME IInv, NextTenant \/ RegisterTenant
  PROVE  IInv'
<1> USE DEF starting, startup, requests
<1>0. /\ Types /\ Stages /\ Places
      /\ UNCHANGED <<poolSize, clients, tag, pc, using, held>>
      /\ UNCHANGED <<making, pools, server>>
      /\ init = "tenants"
  BY DEF IInv, NextTenant, RegisterTenant
<1>1. Clients' = Clients /\ \A p \in Pools : ClientsOf(p)' = ClientsOf(p)
  BY <1>0, SameClients
<1>2. Places'
  BY <1>0, <1>1 DEF Places, TenantsIsolated
<1>3. CASE NextTenant
  <2>1. Types'
    BY <1>0, <1>1, <1>3, TenantAssumption DEF Types, NextTenant
  <2>2. Stages'
    BY <1>0, <1>1, <1>3, TenantAssumption DEF Types, Stages, NextTenant, Starting, Serving
  <2>3. QED
    BY <1>2, <2>1, <2>2 DEF IInv
<1>4. CASE RegisterTenant
  <2>1. Types'
    BY <1>0, <1>1, <1>4 DEF Types, RegisterTenant, Keys
  <2>2. /\ entry \in Tenants /\ entry # None /\ entry' = None
        /\ tenants' = [tenants EXCEPT ![Key(entry)] = entry]
        /\ UNCHANGED <<init, todo>>
    BY <1>0, <1>4 DEF RegisterTenant, Types
  <2>3. \A t \in Tenants : t \in todo \/ tenants'[Key(t)] # None
    BY <1>0, <2>2 DEF Types, Stages, Keys
  <2>4. Stages'
    BY <1>0, <1>1, <2>2, <2>3, TenantAssumption DEF Types, Stages, Starting, Serving
  <2>5. QED
    BY <1>2, <2>1, <2>4 DEF IInv
<1>5. QED
  BY <1>3, <1>4

\* A channel that gains one client and one that loses one.
LEMMA MoveTyped ==
  ASSUME Types, NEW o \in Owners, NEW d \in Owners, o # d, NEW c \in Clients,
         clients' = [clients EXCEPT ![o] = @ \ {c}, ![d] = @ \cup {c}]
  PROVE  /\ clients' \in [Owners -> SUBSET Clients]
         /\ clients'[o] = clients[o] \ {c} /\ clients'[d] = clients[d] \cup {c}
         /\ \A x \in Owners \ {o, d} : clients'[x] = clients[x]
         /\ \A x \in Owners : IsFiniteSet(clients'[x])
<1>1. /\ clients'[o] = clients[o] \ {c} /\ clients'[d] = clients[d] \cup {c}
      /\ \A x \in Owners \ {o, d} : clients'[x] = clients[x]
      /\ DOMAIN clients' = Owners /\ clients' = [x \in Owners |-> clients'[x]]
  BY DEF Types
<1>2. \A x \in Owners : clients'[x] \subseteq Clients
  BY <1>1 DEF Types
<1>3. IsFiniteSet(clients[o]) /\ IsFiniteSet(clients[d])
  BY DEF Types
<1>4. IsFiniteSet(clients[o] \ {c}) /\ IsFiniteSet(clients[d] \cup {c})
  BY <1>3, FS_RemoveElement, FS_AddElement
<1>5. \A x \in Owners : IsFiniteSet(clients'[x])
  BY <1>1, <1>4 DEF Types
<1>6. QED
  BY <1>1, <1>2, <1>5

LEMMA GiveStep ==
  ASSUME IInv, GiveClient
  PROVE  IInv'
<1> USE DEF starting, requests
<1>0. /\ Types /\ Stages /\ Places
      /\ UNCHANGED <<poolSize, making, configured, pools, init, server>>
      /\ UNCHANGED <<tenants, entry, todo, pc, using, held>>
      /\ init = "tenants" /\ entry \in Tenants /\ left > 0
  BY DEF IInv, GiveClient, Types
<1>1. Clients' = Clients /\ \A p \in Pools : ClientsOf(p)' = ClientsOf(p)
  BY <1>0, SameClients
<1>2. CASE Fullest(EngineOf[entry]) = {}
  <2>1. UNCHANGED <<clients, tag, left>>
    BY <1>2 DEF GiveClient
  <2>2. QED
    BY <1>0, <2>1, QuietStep DEF startup
<1>3. CASE Fullest(EngineOf[entry]) # {}
  <2>1. PICK p \in Fullest(EngineOf[entry]) :
               /\ clients' = [clients EXCEPT ![p] = @ \ {AnyOf(clients[p])},
                                            ![entry] = @ \cup {AnyOf(clients[p])}]
               /\ tag' = [tag EXCEPT ![AnyOf(clients[p])] = entry]
               /\ left' = left - 1
    BY <1>3 DEF GiveClient
  <2> DEFINE c == AnyOf(clients[p])
  <2>2. p \in Pools /\ p \in Owners /\ entry \in Owners /\ p # entry /\ c \in clients[p]
    BY <1>0, <2>1, TenantAssumption DEF Fullest, Owners, AnyOf
  <2>3. c \in Clients /\ tag[c] = None /\ c \in ClientsOf(p)
    BY <1>0, <2>2, ClientFacts DEF Places
  <2>4. /\ clients' \in [Owners -> SUBSET Clients]
        /\ clients'[p] = clients[p] \ {c} /\ clients'[entry] = clients[entry] \cup {c}
        /\ \A x \in Owners \ {p, entry} : clients'[x] = clients[x]
        /\ \A x \in Owners : IsFiniteSet(clients'[x])
    BY <1>0, <2>1, <2>2, <2>3, MoveTyped
  <2>5. /\ tag' \in [Clients -> Tenants \cup {None}] /\ tag'[c] = entry
        /\ \A d \in Clients \ {c} : tag'[d] = tag[d]
    BY <1>0, <2>1, <2>3 DEF Types
  <2>6. Types'
    <3>1. left' \in Nat
      BY <1>0, <2>1 DEF Types
    <3>2. QED
      BY <1>0, <1>1, <2>4, <2>5, <3>1 DEF Types
  <2>7. Stages'
    BY <1>0, <1>1 DEF Stages, Starting, Serving
  <2>8. Places'
    <3>1. \A r \in Requests : pc[r] = "idle" /\ held[r] = None
      BY <1>0 DEF Stages, Places, Serving
    <3>2. \A q \in Pools : \A d \in clients'[q] : d \in ClientsOf(q) /\ tag'[d] = None
      <4>1. \A q \in Pools : \A d \in clients'[q] : d \in clients[q] /\ d # c /\ d \in Clients
        <5>1. \A q \in Pools \ {p} : c \notin clients[q]
          BY <1>0, <2>2, <2>3, ClientFacts DEF Places
        <5>2. \A q \in Pools : q \in Owners /\ q # entry
          BY <1>0, TenantAssumption DEF Owners
        <5>3. QED
          BY <2>4, <5>1, <5>2
      <4>2. QED
        BY <1>0, <2>5, <4>1 DEF Places
    <3>3. \A t \in Tenants : \A d \in clients'[t] : tag'[d] = t
      <4>1. ASSUME NEW t \in Tenants, NEW d \in clients'[t], d # c
            PROVE  tag'[d] = t
        <5>1. t \in Owners /\ t # p
          BY <2>2, TenantAssumption DEF Owners
        <5>2. d \in clients[t] /\ d \in Clients
          BY <2>4, <4>1, <5>1
        <5>3. QED
          BY <1>0, <2>5, <4>1, <5>2 DEF Places
      <4>2. ASSUME NEW t \in Tenants, c \in clients'[t]
            PROVE  t = entry
        <5>1. t \in Owners /\ t # p /\ tag[c] # t
          BY <2>2, <2>3, TenantAssumption DEF Owners
        <5>2. c \notin clients[t]
          BY <1>0, <5>1 DEF Places
        <5>3. QED
          BY <2>4, <4>2, <5>1, <5>2
      <4>3. QED
        BY <2>5, <4>1, <4>2
    <3>4. QED
      BY <1>0, <1>1, <3>1, <3>2, <3>3 DEF Places, TenantsIsolated
  <2>9. QED
    BY <2>6, <2>7, <2>8 DEF IInv
<1>4. QED
  BY <1>2, <1>3

LEMMA AcquireStep ==
  ASSUME IInv, NEW r \in Requests, Acquire(r)
  PROVE  IInv'
<1> USE DEF starting, startup
<1>0. /\ Types /\ Stages /\ Places
      /\ UNCHANGED <<poolSize, making, pools, init, server, clients, tag, tenants, entry, left,
                     todo, held>>
      /\ pc[r] = "idle" /\ pc' = [pc EXCEPT ![r] = "wait"]
  BY DEF IInv, Acquire
<1>1. Clients' = Clients /\ \A p \in Pools : ClientsOf(p)' = ClientsOf(p)
  BY <1>0, SameClients
<1>2. PICK k \in Keys : server[k[1]] = "serving" /\ using' = [using EXCEPT ![r] = tenants[k]]
  BY DEF Acquire
<1>3. PICK t \in Tenants : k = Key(t)
  BY DEF Keys
<1>4. k[1] \in Engines
  BY <1>3, TenantAssumption DEF Key
<1>5. init \in Serving
  BY <1>0, <1>2, <1>4 DEF Stages
<1>6. tenants[k] \in Tenants
  BY <1>0, <1>3, <1>5, TenantAssumption DEF Types, Stages, Keys
<1>7. Types'
  BY <1>0, <1>1, <1>2, <1>6 DEF Types
<1>8. Stages'
  BY <1>0, <1>1, <1>5 DEF Stages
<1>9. Places'
  <2>1. \A q \in Requests : pc'[q] # "idle" => using'[q] \in Tenants
    BY <1>0, <1>2, <1>6 DEF Types, Places
  <2>2. \A q \in Requests : held'[q] # None <=> pc'[q] \in {"holding", "send"}
    BY <1>0 DEF Types, Places
  <2>3. TenantsIsolated'
    <3>1. held[r] = None /\ \A q \in Requests \ {r} : using'[q] = using[q]
      BY <1>0, <1>2 DEF Types, Places
    <3>2. QED
      BY <1>0, <3>1 DEF Places, TenantsIsolated
  <2>4. QED
    BY <1>0, <1>1, <2>1, <2>2, <2>3 DEF Places
<1>10. QED
  BY <1>7, <1>8, <1>9 DEF IInv

LEMMA ReceiveStep ==
  ASSUME IInv, NEW r \in Requests, Receive(r)
  PROVE  IInv'
<1> USE DEF starting, startup
<1> DEFINE t == using[r]
           c == AnyOf(clients[t])
<1>0. /\ Types /\ Stages /\ Places
      /\ UNCHANGED <<poolSize, making, pools, init, server, tag, tenants, entry, left, todo, using>>
      /\ pc[r] = "wait" /\ pc' = [pc EXCEPT ![r] = "holding"]
      /\ clients' = [clients EXCEPT ![t] = @ \ {c}] /\ held' = [held EXCEPT ![r] = c]
  BY DEF IInv, Receive
<1>1. Clients' = Clients /\ \A p \in Pools : ClientsOf(p)' = ClientsOf(p)
  BY <1>0, SameClients
<1>2. t \in Tenants /\ t \in Owners /\ c \in clients[t] /\ c \in Clients /\ tag[c] = t /\ c # None
  <2>1. t \in Tenants /\ t \in Owners
    BY <1>0 DEF Places, Owners
  <2>2. c \in clients[t]
    BY DEF Receive, AnyOf
  <2>3. QED
    BY <1>0, <2>1, <2>2, ClientFacts DEF Types, Places
<1>3. /\ clients'[t] = clients[t] \ {c} /\ \A o \in Owners \ {t} : clients'[o] = clients[o]
      /\ clients' \in [Owners -> SUBSET Clients] /\ \A o \in Owners : IsFiniteSet(clients'[o])
  <2>1. IsFiniteSet(clients[t] \ {c})
    BY <1>0, <1>2, FS_RemoveElement DEF Types
  <2>2. QED
    BY <1>0, <1>2, <2>1 DEF Types
<1>4. Types'
  BY <1>0, <1>1, <1>2, <1>3 DEF Types
<1>5. Stages'
  BY <1>0, <1>1 DEF Stages, Types
<1>6. Places'
  <2>1. \A o \in Owners : c \notin clients'[o]
    <3>1. \A p \in Pools : c \notin clients[p]
      BY <1>0, <1>2, TenantAssumption DEF Places
    <3>2. \A u \in Tenants \ {t} : c \notin clients[u]
      BY <1>0, <1>2 DEF Places
    <3>3. QED
      BY <1>3, <3>1, <3>2, TenantAssumption DEF Owners
  <2>2. \A o \in Owners : clients'[o] \subseteq clients[o]
    BY <1>3
  <2>3. held[r] = None /\ \A q \in Requests : held[q] # c
    BY <1>0, <1>2 DEF Places, TenantsIsolated, Owners
  <2>4. TenantsIsolated'
    <3>1. held'[r] = c /\ \A q \in Requests \ {r} : held'[q] = held[q]
      BY <1>0 DEF Types
    <3>2. QED
      BY <1>0, <1>2, <2>1, <2>2, <2>3, <3>1 DEF Places, TenantsIsolated, Owners
  <2>5. /\ \A q \in Requests : pc'[q] # "idle" => using[q] \in Tenants
        /\ \A q \in Requests : held'[q] # None <=> pc'[q] \in {"holding", "send"}
    BY <1>0, <1>2 DEF Types, Places
  <2>6. QED
    BY <1>0, <1>1, <2>2, <2>4, <2>5 DEF Places, Owners
<1>7. QED
  BY <1>4, <1>5, <1>6 DEF IInv

LEMMA ReleaseStep ==
  ASSUME IInv, NEW r \in Requests, Release(r)
  PROVE  IInv'
<1> USE DEF starting, startup
<1>0. /\ Types /\ Stages /\ Places
      /\ UNCHANGED <<poolSize, making, pools, init, server, clients, tag, tenants, entry, left,
                     todo, using, held>>
      /\ pc[r] = "holding" /\ pc' = [pc EXCEPT ![r] = "send"]
  BY DEF IInv, Release
<1>1. Clients' = Clients /\ \A p \in Pools : ClientsOf(p)' = ClientsOf(p)
  BY <1>0, SameClients
<1>2. QED
  BY <1>0, <1>1 DEF IInv, Types, Stages, Places, TenantsIsolated

LEMMA SendBackStep ==
  ASSUME IInv, NEW r \in Requests, SendBack(r)
  PROVE  IInv'
<1> USE DEF starting, startup
<1> DEFINE c == held[r]
           t == tag[c]
<1>0. /\ Types /\ Stages /\ Places
      /\ UNCHANGED <<poolSize, making, pools, init, server, tag, tenants, entry, left, todo, using>>
      /\ pc[r] = "send" /\ pc' = [pc EXCEPT ![r] = "idle"]
      /\ clients' = [clients EXCEPT ![t] = @ \cup {c}] /\ held' = [held EXCEPT ![r] = None]
  BY DEF IInv, SendBack
<1>1. Clients' = Clients /\ \A p \in Pools : ClientsOf(p)' = ClientsOf(p)
  BY <1>0, SameClients
<1>2. c # None /\ c \in Clients /\ t \in Tenants /\ t \in Owners
  <2>1. c # None /\ c \in Clients
    BY <1>0 DEF Types, Places
  <2>2. t = using[r] /\ using[r] \in Tenants
    BY <1>0, <2>1 DEF Places, TenantsIsolated
  <2>3. QED
    BY <2>1, <2>2 DEF Owners
<1>3. /\ clients'[t] = clients[t] \cup {c} /\ \A o \in Owners \ {t} : clients'[o] = clients[o]
      /\ clients' \in [Owners -> SUBSET Clients] /\ \A o \in Owners : IsFiniteSet(clients'[o])
  <2>0. IsFiniteSet(clients[t])
    BY <1>0, <1>2 DEF Types
  <2>1. IsFiniteSet(clients[t] \cup {c})
    BY <2>0, FS_AddElement
  <2>2. QED
    BY <1>0, <1>2, <2>1 DEF Types
<1>4. Types'
  BY <1>0, <1>1, <1>2, <1>3 DEF Types
<1>5. Stages'
  BY <1>0, <1>1 DEF Stages, Types
<1>6. Places'
  <2>1. held'[r] = None /\ \A q \in Requests \ {r} : held'[q] = held[q] /\ held[q] # c
    BY <1>0, <1>2 DEF Types, Places, TenantsIsolated
  <2>2. \A p \in Pools : clients'[p] = clients[p]
    BY <1>2, <1>3, TenantAssumption DEF Owners
  <2>3. \A u \in Tenants : \A d \in clients'[u] : tag[d] = u
    BY <1>0, <1>2, <1>3 DEF Places, Owners
  <2>4. TenantsIsolated'
    BY <1>0, <1>3, <2>1 DEF Places, TenantsIsolated, Owners
  <2>5. /\ \A q \in Requests : pc'[q] # "idle" => using[q] \in Tenants
        /\ \A q \in Requests : held'[q] # None <=> pc'[q] \in {"holding", "send"}
    BY <1>0, <2>1 DEF Types, Places
  <2>6. QED
    BY <1>0, <1>1, <2>2, <2>3, <2>4, <2>5 DEF Places
<1>7. QED
  BY <1>4, <1>5, <1>6 DEF IInv

LEMMA InvStep == IInv /\ [Next \/ Ended]_vars => IInv'
<1> SUFFICES ASSUME IInv, [Next \/ Ended]_vars
             PROVE  IInv'
  OBVIOUS
<1>1. CASE GetMetricsData \/ MetricsRace
  BY <1>1, QuietStep DEF GetMetricsData, MetricsRound, MetricsRead, MetricsReport, MetricsRace
<1>2. CASE UNCHANGED vars
  BY <1>2, QuietStep DEF vars
<1>3. QED
  BY <1>1, <1>2, StartStep, TenantStep, GiveStep, AcquireStep, ReceiveStep, ReleaseStep,
     SendBackStep DEF Next, Ended, InitTenantPool

-----------------------------------------------------------------------------
(* Theorems                                                                *)

\* No two requests have one client, nobody has one that is in a channel as
\* well, and a request's client belongs to the tenant of its scene code.
THEOREM Isolated == Spec => []TenantsIsolated
<1>1. IInv => TenantsIsolated
  BY DEF IInv, Places
<1>2. QED
  BY <1>1, InvInit, InvStep, PTL DEF Spec

-----------------------------------------------------------------------------
(* The size of a tenant                                                    *)

\* A tenant to come has no client; the one being filled lacks left clients; any
\* other one has its clients in its channel or with its requests.
SizeInv ==
  \A t \in Tenants :
    IF t \in todo THEN clients[t] = {}
    ELSE Cardinality(clients[t]) + (IF t = entry THEN left ELSE Cardinality(HeldBy(t)))
           = TenantSize[t]

LEMMA HeldFacts ==
  ASSUME IInv, NEW t \in Tenants
  PROVE  /\ IsFiniteSet(HeldBy(t)) /\ Cardinality(HeldBy(t)) \in Nat
         /\ Cardinality(clients[t]) \in Nat
         /\ init \notin Serving => HeldBy(t) = {} /\ Cardinality(HeldBy(t)) = 0
<1>1. IsFiniteSet(HeldBy(t))
  BY FS_Subset, TenantAssumption DEF HeldBy
<1>2. IsFiniteSet(clients[t])
  BY DEF IInv, Types, Owners
<1>3. init \notin Serving => HeldBy(t) = {}
  BY DEF IInv, Stages, Places, HeldBy
<1>4. QED
  BY <1>1, <1>2, <1>3, FS_CardinalityType, FS_EmptySet

\* A step that gives and takes no client of a tenant.
LEMMA SizeKept ==
  ASSUME IInv, SizeInv, UNCHANGED <<todo, entry, left, tag, held>>,
         \A t \in Tenants : clients'[t] = clients[t]
  PROVE  SizeInv'
BY DEF SizeInv, HeldBy

\* A client that moves between the channel of a tenant and one of its requests.
LEMMA SizeMoved ==
  ASSUME SizeInv, todo = {}, entry = None, UNCHANGED <<todo, entry>>, NEW t \in Tenants,
         \A u \in Tenants \ {t} : HeldBy(u)' = HeldBy(u) /\ clients'[u] = clients[u],
         Cardinality(clients'[t]) + Cardinality(HeldBy(t)')
           = Cardinality(clients[t]) + Cardinality(HeldBy(t))
  PROVE  SizeInv'
<1>1. \A u \in Tenants : u # None
  BY TenantAssumption
<1>2. \A u \in Tenants :
        Cardinality(clients[u]) + Cardinality(HeldBy(u)) = TenantSize[u]
  BY <1>1 DEF SizeInv
<1>3. \A u \in Tenants :
        Cardinality(clients'[u]) + Cardinality(HeldBy(u)') = TenantSize[u]
  BY <1>2
<1>4. QED
  BY <1>1, <1>3 DEF SizeInv

\* What a request takes or gives back counts for the tenant of the client only.
LEMMA HeldTaken ==
  ASSUME Types, NEW r \in Requests, NEW c \in Clients, c # None, NEW t \in Tenants, tag[c] = t,
         held[r] = None, held' = [held EXCEPT ![r] = c], UNCHANGED tag
  PROVE  /\ HeldBy(t)' = HeldBy(t) \cup {r} /\ r \notin HeldBy(t)
         /\ \A u \in Tenants \ {t} : HeldBy(u)' = HeldBy(u)
<1>1. held'[r] = c /\ \A q \in Requests \ {r} : held'[q] = held[q]
  BY DEF Types
<1>2. \A u : HeldBy(u)' = IF u = t THEN HeldBy(u) \cup {r} ELSE HeldBy(u)
  BY <1>1 DEF HeldBy
<1>3. r \notin HeldBy(t)
  BY DEF HeldBy
<1>4. QED
  BY <1>2, <1>3

LEMMA HeldGiven ==
  ASSUME Types, NEW r \in Requests, held[r] # None, NEW t \in Tenants, tag[held[r]] = t,
         held' = [held EXCEPT ![r] = None], UNCHANGED tag
  PROVE  /\ HeldBy(t)' = HeldBy(t) \ {r} /\ r \in HeldBy(t)
         /\ \A u \in Tenants \ {t} : HeldBy(u)' = HeldBy(u)
<1>1. held'[r] = None /\ \A q \in Requests \ {r} : held'[q] = held[q]
  BY DEF Types
<1>2. \A u : HeldBy(u)' = IF u = t THEN HeldBy(u) \ {r} ELSE HeldBy(u)
  BY <1>1 DEF HeldBy
<1>3. r \in HeldBy(t)
  BY DEF HeldBy
<1>4. QED
  BY <1>2, <1>3

LEMMA SizeInit == Init => SizeInv
BY DEF Init, SizeInv

LEMMA SizeStep ==
  ASSUME IInv, SizeInv, [Next \/ Ended]_vars
  PROVE  SizeInv'
<1> USE DEF startup, requests
<1>0. Types /\ Stages /\ Places
  BY DEF IInv
<1>1. CASE Start
  <2>1. \A t \in Tenants : t \notin Pools /\ t \in Owners
    BY TenantAssumption DEF Owners
  <2>2. \A t \in Tenants : clients'[t] = clients[t]
    BY <1>0, <1>1, <2>1 DEF Start, Types
  <2>3. QED
    BY <1>1, <2>2, SizeKept DEF Start
<1>2. CASE NextTenant
  <2>1. CASE todo = {}
    BY <1>2, <2>1, SizeKept DEF NextTenant
  <2>2. CASE todo # {}
    <3>1. PICK t \in todo : entry' = t /\ left' = TenantSize[t] /\ todo' = todo \ {t}
      BY <1>2, <2>2 DEF NextTenant
    <3>2. entry = None /\ UNCHANGED <<clients, tag, held>> /\ \A u \in Tenants : u # None
      BY <1>2, TenantAssumption DEF NextTenant
    <3>3. clients[t] = {} /\ t \in Tenants /\ TenantSize[t] \in Nat
      BY <1>0, <3>1, TenantAssumption DEF SizeInv, Types
    <3>4. Cardinality(clients'[t]) + left' = TenantSize[t]
      BY <3>1, <3>2, <3>3, FS_EmptySet
    <3>5. \A u \in Tenants : HeldBy(u)' = HeldBy(u)
      BY <3>2 DEF HeldBy
    <3>6. QED
      BY <3>1, <3>2, <3>3, <3>4, <3>5 DEF SizeInv
  <2>3. QED
    BY <2>1, <2>2
<1>3. CASE RegisterTenant
  <2>1. /\ init = "tenants" /\ entry \in Tenants /\ left = 0 /\ entry' = None
        /\ UNCHANGED <<clients, tag, held, todo>> /\ \A u \in Tenants : u # None
    BY <1>0, <1>3, TenantAssumption DEF RegisterTenant, Types
  <2>2. \A u \in Tenants : HeldBy(u)' = HeldBy(u)
    BY <2>1 DEF HeldBy
  <2>3. Cardinality(HeldBy(entry)) = 0
    BY <2>1, HeldFacts DEF Serving
  <2>4. QED
    BY <2>1, <2>2, <2>3 DEF SizeInv
<1>4. CASE GiveClient
  <2>1. CASE Fullest(EngineOf[entry]) = {}
    BY <1>4, <2>1, SizeKept DEF GiveClient
  <2>2. CASE Fullest(EngineOf[entry]) # {}
    <3>1. PICK p \in Fullest(EngineOf[entry]) :
                 /\ clients' = [clients EXCEPT ![p] = @ \ {AnyOf(clients[p])},
                                              ![entry] = @ \cup {AnyOf(clients[p])}]
                 /\ left' = left - 1
      BY <1>4, <2>2 DEF GiveClient
    <3> DEFINE c == AnyOf(clients[p])
    <3>2. /\ entry \in Tenants /\ init = "tenants" /\ UNCHANGED <<todo, entry, held>>
          /\ entry \notin todo /\ left \in Nat
      BY <1>0, <1>4 DEF GiveClient, Types, Stages
    <3>3. p \in Pools /\ p \in Owners /\ entry \in Owners /\ p # entry /\ c \in clients[p]
      BY <3>1, <3>2, TenantAssumption DEF Fullest, Owners, AnyOf
    <3>4. c \in Clients /\ c \notin clients[entry]
      BY <1>0, <3>2, <3>3, ClientFacts, TenantAssumption DEF Places
    <3>5. /\ clients'[entry] = clients[entry] \cup {c}
          /\ \A x \in Owners \ {p, entry} : clients'[x] = clients[x]
      BY <1>0, <3>1, <3>3, <3>4, MoveTyped
    <3>6. IsFiniteSet(clients[entry])
      BY <1>0, <3>3 DEF Types
    <3>7. Cardinality(clients'[entry]) = Cardinality(clients[entry]) + 1
      BY <3>4, <3>5, <3>6, FS_AddElement
    <3>8. \A t \in Tenants : HeldBy(t) = {} /\ HeldBy(t)' = {}
      BY <1>0, <3>2 DEF Stages, Places, Serving, HeldBy
    <3>9. \A t \in Tenants \ {entry} : clients'[t] = clients[t]
      BY <3>3, <3>5, TenantAssumption DEF Owners
    <3>10. Cardinality(clients'[entry]) + left' = TenantSize[entry]
      <4>1. Cardinality(clients[entry]) + left = TenantSize[entry]
        BY <3>2 DEF SizeInv
      <4>2. Cardinality(clients[entry]) \in Nat
        BY <3>2, HeldFacts
      <4>3. QED
        BY <3>1, <3>2, <3>7, <4>1, <4>2
    <3>11. QED
      BY <3>2, <3>8, <3>9, <3>10 DEF SizeInv
  <2>3. QED
    BY <2>1, <2>2
<1>5. ASSUME NEW r \in Requests, Acquire(r) \/ Release(r)
      PROVE  SizeInv'
  BY <1>5, SizeKept DEF Acquire, Release
<1>6. ASSUME NEW r \in Requests, Receive(r) \/ SendBack(r)
      PROVE  SizeInv'
  <2>1. todo = {} /\ entry = None /\ UNCHANGED <<todo, entry, left, tag>>
    BY <1>0, <1>6 DEF Receive, SendBack, Stages
  <2>2. using[r] \in Tenants
    BY <1>0, <1>6 DEF Receive, SendBack, Places
  <2>3. CASE Receive(r)
    <3>0. PICK t \in Tenants : t = using[r]
      BY <2>2
    <3>1. PICK c : c = AnyOf(clients[t]) /\ c \in clients[t]
      BY <2>3, <3>0 DEF Receive, AnyOf
    <3>2. /\ c \in clients[t] /\ t \in Owners
          /\ clients' = [clients EXCEPT ![t] = @ \ {c}] /\ held' = [held EXCEPT ![r] = c]
      BY <2>3, <3>0, <3>1 DEF Receive, Owners
    <3>3. c # None /\ tag[c] = t /\ held[r] = None
      BY <1>0, <2>3, <3>2, ClientFacts DEF Receive, Types, Places
    <3>4. /\ HeldBy(t)' = HeldBy(t) \cup {r} /\ r \notin HeldBy(t)
          /\ \A u \in Tenants \ {t} : HeldBy(u)' = HeldBy(u)
      <4>1. c \in Clients
        BY <1>0, <3>2 DEF Types
      <4>2. QED
        BY <1>0, <2>1, <3>2, <3>3, <4>1, HeldTaken
    <3>5. clients'[t] = clients[t] \ {c} /\ \A u \in Tenants \ {t} : clients'[u] = clients[u]
      BY <1>0, <3>2 DEF Types, Owners
    <3>6. Cardinality(clients'[t]) = Cardinality(clients[t]) - 1
      <4>1. IsFiniteSet(clients[t])
        BY <1>0, <3>2 DEF Types
      <4>2. QED
        BY <3>2, <3>5, <4>1, FS_RemoveElement
    <3>7. Cardinality(HeldBy(t)') = Cardinality(HeldBy(t)) + 1
      <4>1. IsFiniteSet(HeldBy(t))
        BY HeldFacts
      <4>2. QED
        BY <3>4, <4>1, FS_AddElement
    <3>8. Cardinality(clients[t]) \in Nat /\ Cardinality(HeldBy(t)) \in Nat
      BY HeldFacts
    <3>9. Cardinality(clients'[t]) + Cardinality(HeldBy(t)')
            = Cardinality(clients[t]) + Cardinality(HeldBy(t))
      BY <3>6, <3>7, <3>8
    <3>10. QED
      BY <2>1, <3>4, <3>5, <3>9, SizeMoved
  <2>4. CASE SendBack(r)
    <3>0. held[r] # None /\ tag[held[r]] \in Tenants
      BY <1>0, <2>2, <2>4 DEF SendBack, Places, TenantsIsolated
    <3>1. PICK t \in Tenants, c \in Clients : t = tag[c] /\ c = held[r] /\ t \in Owners
      BY <1>0, <3>0 DEF Types, Owners
    <3>2. clients' = [clients EXCEPT ![t] = @ \cup {c}] /\ held' = [held EXCEPT ![r] = None]
      BY <2>4, <3>1 DEF SendBack
    <3>3. c \notin clients[t]
      BY <1>0, <3>0, <3>1 DEF Places, TenantsIsolated, Owners
    <3>4. /\ HeldBy(t)' = HeldBy(t) \ {r} /\ r \in HeldBy(t)
          /\ \A u \in Tenants \ {t} : HeldBy(u)' = HeldBy(u)
      BY <1>0, <2>1, <3>0, <3>1, <3>2, HeldGiven
    <3>5. clients'[t] = clients[t] \cup {c} /\ \A u \in Tenants \ {t} : clients'[u] = clients[u]
      BY <1>0, <3>1, <3>2 DEF Types, Owners
    <3>6. Cardinality(clients'[t]) = Cardinality(clients[t]) + 1
      <4>1. IsFiniteSet(clients[t])
        BY <1>0, <3>1 DEF Types
      <4>2. QED
        BY <3>3, <3>5, <4>1, FS_AddElement
    <3>7. Cardinality(HeldBy(t)') = Cardinality(HeldBy(t)) - 1
      <4>1. IsFiniteSet(HeldBy(t))
        BY HeldFacts
      <4>2. QED
        BY <3>4, <4>1, FS_RemoveElement
    <3>8. Cardinality(clients[t]) \in Nat /\ Cardinality(HeldBy(t)) \in Nat
      BY HeldFacts
    <3>9. Cardinality(clients'[t]) + Cardinality(HeldBy(t)')
            = Cardinality(clients[t]) + Cardinality(HeldBy(t))
      BY <3>6, <3>7, <3>8
    <3>10. QED
      BY <2>1, <3>4, <3>5, <3>9, SizeMoved
  <2>5. QED
    BY <1>6, <2>3, <2>4
<1>7. CASE GetMetricsData \/ MetricsRace
  BY <1>7, SizeKept DEF GetMetricsData, MetricsRound, MetricsRead, MetricsReport, MetricsRace
<1>8. CASE UNCHANGED vars
  BY <1>8, SizeKept DEF vars
<1>9. QED
  BY <1>1, <1>2, <1>3, <1>4, <1>5, <1>6, <1>7, <1>8 DEF Next, Ended, InitTenantPool

\* From the end of the start-up on a tenant has the clients it was configured
\* with, in its channel or with its requests, however the requests interleave.
THEOREM KeepsSize == Spec => []TenantKeepsSize
<1>1. IInv /\ SizeInv => TenantKeepsSize
  <2> SUFFICES ASSUME IInv, SizeInv, init \in {"servers", "done"}, NEW t \in Tenants
               PROVE  Cardinality(clients[t]) + Cardinality(HeldBy(t)) = TenantSize[t]
    BY DEF TenantKeepsSize
  <2>1. t \notin todo /\ t # entry
    BY TenantAssumption DEF IInv, Stages, Serving
  <2>2. QED
    BY <2>1 DEF SizeInv
<1>2. IInv /\ SizeInv /\ [Next \/ Ended]_vars => IInv' /\ SizeInv'
  BY InvStep, SizeStep
<1>3. QED
  BY <1>1, <1>2, InvInit, SizeInit, PTL DEF Spec

-----------------------------------------------------------------------------
(* The metrics                                                             *)

\* The pools that were filled.
Made == pools \cup ({making} \ {None})

\* A client no tenant was given is in the channel of its pool.
PoolsFull ==
  \A p \in Made : \A c \in ClientsOf(p) : tag[c] = None => c \in clients[p]

LEMMA PoolsStep == IInv /\ PoolsFull /\ [Next \/ Ended]_vars => PoolsFull'
<1> SUFFICES ASSUME IInv, PoolsFull, [Next \/ Ended]_vars
             PROVE  PoolsFull'
  OBVIOUS
<1> USE DEF starting, startup, requests
<1>0. /\ Types /\ Stages /\ Places /\ Made \subseteq Pools
      /\ \A p \in Pools : p \in Owners /\ p \notin Tenants /\ p # None
  BY TenantAssumption, StartupAssumption DEF IInv, Types, Made, Owners
<1>a. ASSUME UNCHANGED <<poolSize, making, pools, tag>>, \A p \in Pools : clients'[p] = clients[p]
      PROVE  PoolsFull'
  <2>1. Made' = Made /\ \A p \in Pools : ClientsOf(p)' = ClientsOf(p)
    BY <1>a, SameClients DEF Made
  <2>2. QED
    BY <1>0, <1>a, <2>1 DEF PoolsFull
<1>1. CASE Start
  <2>1. UNCHANGED <<poolSize, tag>> /\ Made' \subseteq Made \cup ({making'} \ {None})
    <3>1. CASE StorePool
      BY <1>0, <1>1, <3>1 DEF Start, StorePool, Made, Stages
    <3>2. CASE MakePool \/ SetOptions \/ PoolsComplete \/ StartServer \/ \E e \in Engines : Listen(e)
      BY <1>1, <3>2 DEF Start, MakePool, SetOptions, PoolsComplete, StartServer, Listen, Made
    <3>3. QED
      BY <1>1, <3>1, <3>2 DEF Start, GRPCServer, InitGrpcPool
  <2>2. \A p \in Pools : ClientsOf(p)' = ClientsOf(p)
    BY <2>1, SameClients
  <2>3. ASSUME NEW p \in Pools, clients'[p] # clients[p]
        PROVE  clients'[p] = ClientsOf(p)
    BY <1>0, <1>1, <2>3 DEF Start, Types
  <2>4. ASSUME NEW p \in Made' \ Made
        PROVE  p \in Pools /\ clients'[p] = ClientsOf(p)
    <3>1. p = making' /\ p # None /\ p # making
      BY <2>1, <2>4 DEF Made
    <3>2. making' \in Pools \cup {None}
      BY <1>0, <1>1, ServerFacts DEF Start
    <3>3. QED
      BY <1>0, <1>1, <3>1, <3>2 DEF Start, Types
  <2>5. ASSUME NEW p \in Made', NEW c \in ClientsOf(p)', tag'[c] = None
        PROVE  c \in clients'[p]
    <3>1. p \in Pools
      BY <1>0, <2>4
    <3>2. c \in ClientsOf(p) /\ tag[c] = None
      BY <2>1, <2>2, <2>5, <3>1
    <3>3. QED
      BY <2>3, <2>4, <3>1, <3>2 DEF PoolsFull
  <2>6. QED
    BY <2>5 DEF PoolsFull
<1>2. CASE NextTenant \/ RegisterTenant
  BY <1>2, <1>a DEF NextTenant, RegisterTenant
<1>3. CASE GiveClient
  <2>1. CASE Fullest(EngineOf[entry]) = {}
    BY <1>3, <2>1, <1>a DEF GiveClient
  <2>2. CASE Fullest(EngineOf[entry]) # {}
    <3>1. PICK p \in Fullest(EngineOf[entry]) :
                 /\ clients' = [clients EXCEPT ![p] = @ \ {AnyOf(clients[p])},
                                              ![entry] = @ \cup {AnyOf(clients[p])}]
                 /\ tag' = [tag EXCEPT ![AnyOf(clients[p])] = entry]
      BY <1>3, <2>2 DEF GiveClient
    <3>2. PICK c : c = AnyOf(clients[p])
      OBVIOUS
    <3>3. /\ p \in Pools /\ p \in Owners /\ entry \in Tenants /\ entry \in Owners /\ p # entry
          /\ c \in clients[p] /\ entry # None /\ UNCHANGED <<poolSize, making, pools>>
      BY <1>0, <1>3, <3>1, <3>2, TenantAssumption DEF GiveClient, Types, Fullest, Owners, AnyOf
    <3>4. c \in Clients
      BY <1>0, <3>3 DEF Types
    <3>5. /\ \A q \in Pools : clients[q] \ {c} \subseteq clients'[q]
          /\ \A d : d # c => tag'[d] = tag[d]
          /\ tag'[c] = entry
      BY <1>0, <3>1, <3>2, <3>3, <3>4 DEF Types
    <3>6. Made' = Made /\ \A q \in Pools : ClientsOf(q)' = ClientsOf(q)
      BY <3>3, SameClients DEF Made
    <3>7. QED
      BY <1>0, <3>3, <3>5, <3>6 DEF PoolsFull
  <2>3. QED
    BY <2>1, <2>2
<1>4. ASSUME NEW r \in Requests, Acquire(r) \/ Release(r)
      PROVE  PoolsFull'
  BY <1>4, <1>a DEF Acquire, Release
<1>5. ASSUME NEW r \in Requests, Receive(r)
      PROVE  PoolsFull'
  <2>1. using[r] \in Tenants
    BY <1>0, <1>5 DEF Receive, Places
  <2>2. \A p \in Pools : clients'[p] = clients[p]
    BY <1>0, <1>5, <2>1 DEF Receive, Types
  <2>3. QED
    BY <1>5, <1>a, <2>2 DEF Receive
<1>6. ASSUME NEW r \in Requests, SendBack(r)
      PROVE  PoolsFull'
  <2>1. tag[held[r]] \in Tenants
    BY <1>0, <1>6 DEF SendBack, Places, TenantsIsolated
  <2>2. \A p \in Pools : clients'[p] = clients[p]
    BY <1>0, <1>6, <2>1 DEF SendBack, Types
  <2>3. QED
    BY <1>6, <1>a, <2>2 DEF SendBack
<1>7. CASE GetMetricsData \/ MetricsRace
  BY <1>7, <1>a DEF GetMetricsData, MetricsRound, MetricsRead, MetricsReport, MetricsRace
<1>8. CASE UNCHANGED vars
  BY <1>8, <1>a DEF vars
<1>9. QED
  BY <1>1, <1>2, <1>3, <1>4, <1>5, <1>6, <1>7, <1>8 DEF Next, Ended, InitTenantPool

\* What the metrics look at: pools in their table, tenants when all are filled.
Measured == pools \cup IF init \in Serving THEN Tenants ELSE {}

LEMMA ListedMeasured ==
  ASSUME IInv, NEW e, NEW o \in Listed(e)
  PROVE  o \in Measured
<1>1. CASE o \in pools
  BY <1>1 DEF Measured
<1>2. CASE o \notin pools
  <2>1. PICK k \in Keys : init \in Serving /\ o = tenants[k]
    BY <1>2 DEF Listed, Serving
  <2>2. PICK t \in Tenants : k = Key(t)
    BY DEF Keys
  <2>3. o \in Tenants
    BY <2>1, <2>2, TenantAssumption DEF IInv, Types, Stages
  <2>4. QED
    BY <2>1, <2>3 DEF Measured
<1>3. QED
  BY <1>1, <1>2

\* Buffered clients and connections in use add up to the capacity.
LEMMA SizesAdd ==
  ASSUME IInv, SizeInv, PoolsFull, NEW o \in Measured
  PROVE  /\ Cardinality(clients[o]) \in Nat /\ InUse(o) \in Nat
         /\ Cardinality(clients[o]) + InUse(o) = CapacityOf(o)
<1>0. Types /\ Stages /\ Places
  BY DEF IInv
<1>1. CASE o \in pools
  <2> DEFINE given == {c \in ClientsOf(o) : tag[c] # None}
  <2>1. o \in Pools /\ o \in Owners /\ o \notin Tenants
    BY <1>0, <1>1, TenantAssumption DEF Types, Owners
  <2>2. o \in Made
    BY <1>1 DEF Made
  <2>3. ClientsOf(o) = clients[o] \cup given /\ clients[o] \cap given = {}
    BY <1>0, <2>1, <2>2 DEF Places, PoolsFull
  <2>4. IsFiniteSet(clients[o]) /\ IsFiniteSet(ClientsOf(o))
    BY <1>0, <2>1, ClientFacts DEF Types
  <2>5. IsFiniteSet(given)
    BY <2>4, FS_Subset
  <2>6. Cardinality(ClientsOf(o)) = Cardinality(clients[o]) + Cardinality(given)
    <3>1. Cardinality(clients[o] \cup given)
            = Cardinality(clients[o]) + Cardinality(given) - Cardinality(clients[o] \cap given)
      BY <2>4, <2>5, FS_Union
    <3>2. Cardinality(clients[o]) \in Nat /\ Cardinality(given) \in Nat
      BY <2>4, <2>5, FS_CardinalityType
    <3>3. Cardinality(clients[o] \cap given) = 0
      BY <2>3, FS_EmptySet
    <3>4. Cardinality(clients[o] \cup given) = Cardinality(clients[o]) + Cardinality(given)
      BY <3>1, <3>2, <3>3
    <3>5. QED
      BY <2>3, <3>4
  <2>7. Cardinality(ClientsOf(o)) = Share(o)
    <3>1. poolSize[o] \in Nat
      BY <1>0, <2>1 DEF Types
    <3>2. Share(o) \in Nat
      <4>1. \A n \in Nat : n \div NodeNum \in Nat
        BY StartupAssumption
      <4>2. QED
        BY <3>1, <4>1 DEF Share, NodeShare
    <3>3. IsFiniteSet({o}) /\ Cardinality({o}) = 1
      BY FS_Singleton
    <3>4. IsFiniteSet(1..Share(o)) /\ Cardinality(1..Share(o)) = Share(o)
      BY <3>2, FS_Interval
    <3>5. Cardinality({o} \X (1..Share(o))) = 1 * Share(o)
      <4>1. Cardinality({o} \X (1..Share(o))) = Cardinality({o}) * Cardinality(1..Share(o))
        BY <3>3, <3>4, FS_Product
      <4>2. QED
        BY <3>3, <3>4, <4>1
    <3>6. QED
      BY <3>2, <3>5 DEF ClientsOf
  <2>8. InUse(o) = Cardinality(given) /\ CapacityOf(o) = Share(o)
    BY <2>1 DEF InUse, CapacityOf
  <2>9. QED
    BY <2>4, <2>5, <2>6, <2>7, <2>8, FS_CardinalityType
<1>2. CASE o \in Tenants /\ init \in Serving
  <2>1. o \notin Pools /\ o \notin todo /\ o # entry
    BY <1>0, <1>2, TenantAssumption DEF Stages
  <2>2. Cardinality(clients[o]) + Cardinality(HeldBy(o)) = TenantSize[o]
    BY <1>2, <2>1 DEF SizeInv
  <2>3. QED
    BY <1>2, <2>1, <2>2, HeldFacts DEF InUse, CapacityOf
<1>3. QED
  BY <1>1, <1>2 DEF Measured

\* Between its two reads the metrics looks at one pool or tenant; the capacity
\* less the first size was in use when it was read.
MetricsInv ==
  mpc = "second" => /\ owner \in Measured
                    /\ InUse(owner) \in seen
                    /\ CapacityOf(owner) - size1 \in seen

LEMMA MeasuredGrows ==
  ASSUME IInv, [Next \/ Ended]_vars
  PROVE  UNCHANGED poolSize /\ Measured \subseteq Measured'
<1> USE DEF starting, Measured, Serving
<1>1. CASE Start
  BY <1>1 DEF Start, GRPCServer, InitGrpcPool, MakePool, SetOptions, StorePool, PoolsComplete,
              StartServer, Listen
<1>2. CASE InitTenantPool
  BY <1>2 DEF InitTenantPool, NextTenant, GiveClient, RegisterTenant
<1>3. ASSUME NEW r \in Requests, Acquire(r) \/ Receive(r) \/ Release(r) \/ SendBack(r)
      PROVE  UNCHANGED starting
  BY <1>3 DEF Acquire, Receive, Release, SendBack
<1>4. CASE GetMetricsData \/ MetricsRace
  BY <1>4 DEF GetMetricsData, MetricsRound, MetricsRead, MetricsReport, MetricsRace
<1>5. QED
  BY <1>1, <1>2, <1>3, <1>4 DEF Next, Ended, vars

\* Nobody but the metrics moves its own variables.
LEMMA MetricsKept ==
  ASSUME Next, ~GetMetricsData
  PROVE  UNCHANGED metrics
BY DEF Next, Start, InitTenantPool, NextTenant, GiveClient, RegisterTenant, Acquire, Receive,
       Release, SendBack, MetricsRace

LEMMA MetricsStep ==
  ASSUME IInv, SizeInv, PoolsFull, MetricsInv, [Next \/ Ended]_vars
  PROVE  MetricsInv'
<1> SUFFICES ASSUME mpc' = "second"
             PROVE  (/\ owner \in Measured
                     /\ InUse(owner) \in seen
                     /\ CapacityOf(owner) - size1 \in seen)'
  BY DEF MetricsInv
<1>0. UNCHANGED poolSize /\ Measured \subseteq Measured'
  BY MeasuredGrows
<1>1. \A o : CapacityOf(o)' = CapacityOf(o)
  BY <1>0 DEF CapacityOf, Share, NodeShare
<1>2. CASE UNCHANGED vars
  <2>1. /\ UNCHANGED <<mpc, owner, size1, seen>>
        /\ \A o : InUse(o)' = InUse(o)
    BY <1>2, SameClients DEF vars, starting, metrics, requests, InUse, HeldBy, ClientsOf, Share, NodeShare
  <2>2. QED
    BY <1>0, <1>1, <2>1 DEF MetricsInv
<1>3. CASE Next
  <2>1. seen' = (IF mpc = "second" THEN seen ELSE {}) \cup {InUse(owner)'}
    BY <1>3 DEF Next, Remember
  <2>2. CASE mpc = "second"
    <3>1. UNCHANGED <<owner, size1>>
      BY <1>3, <2>2, MetricsKept
         DEF metrics, GetMetricsData, MetricsRound, MetricsRead, MetricsReport
    <3>2. QED
      BY <1>0, <1>1, <2>1, <2>2, <3>1 DEF MetricsInv
  <2>3. CASE mpc # "second"
    <3>1. MetricsRead
      BY <1>3, <2>3, MetricsKept DEF metrics, GetMetricsData, MetricsRound, MetricsReport
    <3>2. PICK o \in Listed(owner) : owner' = o /\ size1' = Cardinality(clients[o])
      BY <3>1 DEF MetricsRead
    <3>3. o \in Measured
      BY ListedMeasured
    <3>4. InUse(o)' = InUse(o)
      BY <3>1 DEF MetricsRead, starting, requests, InUse, HeldBy, ClientsOf, Share, NodeShare
    <3>5. CapacityOf(o) - Cardinality(clients[o]) = InUse(o)
      BY <3>3, SizesAdd
    <3>6. QED
      BY <1>0, <1>1, <2>1, <2>3, <3>2, <3>3, <3>4, <3>5
  <2>4. QED
    BY <2>2, <2>3
<1>4. QED
  BY <1>2, <1>3 DEF Ended

\* The connections the metrics report as in use were in use at some moment of
\* the report, for any number of pools, tenants and requests: the first size
\* decides, unless the second one shows that nothing is in use any more.
THEOREM MetricsTrue == Spec => MetricsReal
<1> DEFINE Kept == IInv /\ SizeInv /\ PoolsFull /\ MetricsInv
<1>1. Init => Kept
  BY InvInit, SizeInit DEF Init, StartupInit, PoolsFull, Made, MetricsInv
<1>2. Kept /\ [Next \/ Ended]_vars => Kept'
  BY InvStep, SizeStep, PoolsStep, MetricsStep
<1>3. Kept => (mpc = "second" => ConnCurrent \in seen)
  <2> SUFFICES ASSUME Kept, mpc = "second"
               PROVE  ConnCurrent \in seen
    OBVIOUS
  <2>1. /\ owner \in Measured /\ InUse(owner) \in seen
        /\ CapacityOf(owner) - size1 \in seen
    BY DEF MetricsInv
  <2>2. /\ Cardinality(clients[owner]) \in Nat /\ InUse(owner) \in Nat
        /\ Cardinality(clients[owner]) + InUse(owner) = CapacityOf(owner)
    BY <2>1, SizesAdd
  <2>3. Cardinality(clients[owner]) >= CapacityOf(owner) => InUse(owner) = 0
    BY <2>2
  <2>4. QED
    BY <2>1, <2>3 DEF ConnCurrent
<1>4. Kept => [mpc = "second" /\ mpc' = "sleep" => ConnCurrent \in seen]_vars
  BY <1>3
<1>5. QED
  BY <1>1, <1>2, <1>4, PTL DEF Spec, MetricsReal

-----------------------------------------------------------------------------
(* A start-up that fails                                                   *)

LEMMA FiniteUnion ==
  ASSUME NEW S, IsFiniteSet(S), NEW F, \A s \in S : IsFiniteSet(F[s])
  PROVE  IsFiniteSet(UNION {F[s] : s \in S})
<1> DEFINE T == {F[s] : s \in S}
           f == [s \in S |-> F[s]]
<1>1. f \in Surjection(S, T)
  <2>1. f \in [S -> T] /\ \A t \in T : \E s \in S : f[s] = t
    OBVIOUS
  <2> HIDE DEF T, f
  <2>2. QED
    BY <2>1, Fun_IsSurj
<1>2. IsFiniteSet(T)
  BY <1>1, FS_Surjection
<1>3. \A t \in T : IsFiniteSet(t)
  OBVIOUS
<1> HIDE DEF T
<1>4. IsFiniteSet(UNION T)
  BY <1>2, <1>3, FS_UNION
<1>5. QED
  BY <1>4 DEF T

\* Of bounded sizes one is the largest.
LEMMA LargestExists ==
  ASSUME NEW S, S # {}, NEW f \in [S -> Nat], NEW bound \in Nat, \A x \in S : f[x] <= bound
  PROVE  \E x \in S : \A y \in S : f[y] <= f[x]
<1> DEFINE T == {n \in Nat : \E x \in S : n = bound - f[x]}
           R == OpToRel(<, Nat)
<1>1. IsWellFoundedOn(R, Nat)
  BY NatLessThanWellFounded
<1>2. T \subseteq Nat /\ \A x \in S : bound - f[x] \in T
  OBVIOUS
<1>3. \A m, n \in Nat : m < n => <<m, n>> \in R
  BY DEF OpToRel
<1>4. PICK n \in T : \A m \in T : ~(<<m, n>> \in R)
  <2> HIDE DEF R, T
  <2>1. QED
    BY <1>1, <1>2, WFMin
<1>5. PICK x \in S : n = bound - f[x]
  OBVIOUS
<1>6. ASSUME NEW y \in S
      PROVE  f[y] <= f[x]
  <2>1. ~(bound - f[y] < n)
    BY <1>2, <1>3, <1>4
  <2>2. QED
    BY <1>5, <2>1
<1>7. QED
  BY <1>6

LEMMA ClientsFinite ==
  ASSUME Types
  PROVE  /\ IsFiniteSet(Clients) /\ Cardinality(Clients) \in Nat
         /\ \A e : IsFiniteSet(Supply(e)) /\ IsFiniteSet(Demand(e))
<1>1. IsFiniteSet(Clients)
  <2> DEFINE F == [p \in Pools |-> ClientsOf(p)]
  <2>1. \A p \in Pools : IsFiniteSet(F[p])
    BY ClientFacts DEF Types
  <2>2. Clients = UNION {F[p] : p \in Pools}
    BY DEF Clients
  <2> HIDE DEF F
  <2>3. QED
    BY <2>1, <2>2, FiniteUnion, StartupAssumption
<1>2. ASSUME NEW e
      PROVE  IsFiniteSet(Supply(e))
  BY <1>1, FS_Subset DEF Supply, Clients
<1>3. ASSUME NEW e
      PROVE  IsFiniteSet(Demand(e))
  <2> DEFINE S == {t \in Tenants : EngineOf[t] = e}
             F == [t \in S |-> {t} \X (1..TenantSize[t])]
  <2>1. IsFiniteSet(S)
    BY FS_Subset, TenantAssumption
  <2>2. ASSUME NEW t \in S
        PROVE  IsFiniteSet(F[t])
    <3>1. IsFiniteSet({t})
      BY FS_Singleton
    <3>2. IsFiniteSet(1..TenantSize[t])
      <4>1. TenantSize[t] \in Int
        BY TenantAssumption
      <4>2. QED
        BY <4>1, FS_Interval
    <3>3. IsFiniteSet({t} \X (1..TenantSize[t]))
      BY <3>1, <3>2, FS_Product
    <3>4. QED
      BY <3>3
  <2>3. Demand(e) = UNION {F[t] : t \in S}
    BY DEF Demand
  <2> HIDE DEF F, S
  <2>4. QED
    BY <2>1, <2>2, <2>3, FiniteUnion
<1>4. QED
  BY <1>1, <1>2, <1>3, FS_CardinalityType

\* blanceAcquirePool finds a pool as long as one of the engine has a client.
LEMMA FullestFound ==
  ASSUME Types, NEW e, Fullest(e) = {}, NEW p \in Pools, EngineOf[p] = e
  PROVE  clients[p] = {}
<1> DEFINE own == {q \in Pools : EngineOf[q] = e}
           f   == [q \in own |-> Cardinality(clients[q])]
<1>1. ASSUME NEW q \in own
      PROVE  f[q] \in Nat /\ f[q] <= Cardinality(Clients) /\ (f[q] = 0 <=> clients[q] = {})
  <2>1. clients[q] \subseteq Clients /\ IsFiniteSet(clients[q])
    BY DEF Types, Owners
  <2>2. Cardinality(clients[q]) \in Nat /\ (Cardinality(clients[q]) = 0 <=> clients[q] = {})
    BY <2>1, FS_CardinalityType, FS_EmptySet
  <2>3. Cardinality(clients[q]) <= Cardinality(Clients)
    BY <2>1, ClientsFinite, FS_Subset
  <2>4. QED
    BY <2>2, <2>3
<1>2. PICK b \in own : \A q \in own : f[q] <= f[b]
  <2>1. f \in [own -> Nat] /\ own # {} /\ Cardinality(Clients) \in Nat
    BY <1>1, ClientsFinite
  <2>2. \A q \in own : f[q] <= Cardinality(Clients)
    BY <1>1
  <2> HIDE DEF f, own
  <2>3. QED
    BY <2>1, <2>2, LargestExists
<1>3. clients[b] = {}
  <2>1. \A q \in own : Cardinality(clients[q]) <= Cardinality(clients[b])
    BY <1>2
  <2>2. QED
    BY <2>1 DEF Fullest
<1>4. f[p] = 0
  BY <1>1, <1>2, <1>3
<1>5. QED
  BY <1>1, <1>4

\* Tenants are filled out of all pools, each out of the pools of its engine,
\* and until the servers start they keep what they were given.
GivenInv ==
  /\ init \notin Starting => pools = Pools
  /\ \A c \in Clients : tag[c] # None =>
       /\ EngineOf[tag[c]] = EngineOf[c[1]]
       /\ init = "tenants" => c \in clients[tag[c]]

LEMMA DemandOf ==
  \A t \in Tenants : \A n \in 1..TenantSize[t] : <<t, n>> \in Demand(EngineOf[t])
BY DEF Demand

\* When no pool of the engine has a client left, its tenants were given all of
\* them, each of a tenant's clients counts for one of the connections it needs,
\* and the tenant being filled still lacks its last one.
LEMMA PanicMeansShort ==
  ASSUME IInv, SizeInv, PoolsFull, GivenInv, GiveClient, Fullest(EngineOf[entry]) = {}
  PROVE  ~TenantsFit
<1> DEFINE e == EngineOf[entry]
<1>0. /\ Types /\ Stages /\ Places
      /\ init = "tenants" /\ entry \in Tenants /\ left > 0 /\ left \in Nat /\ entry \notin todo
      /\ pools = Pools /\ e \in Engines /\ TenantSize[entry] \in Nat
  BY TenantAssumption DEF IInv, GiveClient, Types, GivenInv, Stages, Starting
<1>1. ASSUME NEW c \in Supply(e)
      PROVE  /\ c \in Clients /\ tag[c] \in Tenants /\ EngineOf[tag[c]] = e
             /\ c \in clients[tag[c]]
  <2>1. PICK p \in Pools : EngineOf[p] = e /\ c \in ClientsOf(p)
    BY DEF Supply
  <2>2. c \in Clients /\ c[1] = p
    BY <2>1 DEF Clients, ClientsOf
  <2>3. c \notin clients[p]
    BY <1>0, <2>1, FullestFound
  <2>4. tag[c] # None
    BY <1>0, <2>1, <2>3 DEF PoolsFull, Made
  <2>5. QED
    BY <1>0, <2>1, <2>2, <2>4 DEF Types, GivenInv
<1>2. ASSUME NEW t \in Tenants, clients[t] # {}
      PROVE  /\ IsFiniteSet(clients[t]) /\ Cardinality(clients[t]) \in Nat
             /\ Cardinality(clients[t]) <= TenantSize[t] /\ TenantSize[t] \in Nat
             /\ t = entry => Cardinality(clients[t]) < TenantSize[t]
  <2>1. IsFiniteSet(clients[t]) /\ Cardinality(clients[t]) \in Nat
    BY <1>0, FS_CardinalityType DEF Types, Owners
  <2>2. Cardinality(HeldBy(t)) = 0
    BY <1>0, HeldFacts DEF Serving
  <2>3. QED
    BY <1>0, <1>2, <2>1, <2>2, TenantAssumption DEF SizeInv
<1> DEFINE G == [t \in Tenants |-> CHOOSE g : g \in Injection(clients[t], 1..Cardinality(clients[t]))]
           f == [c \in Supply(e) |-> <<tag[c], G[tag[c]][c]>>]
<1>3. ASSUME NEW t \in Tenants, clients[t] # {}
      PROVE  G[t] \in Injection(clients[t], 1..Cardinality(clients[t]))
  <2>1. ExistsBijection(1..Cardinality(clients[t]), clients[t])
    BY <1>2, <1>3, FS_CardinalityType
  <2>2. ExistsBijection(clients[t], 1..Cardinality(clients[t]))
    BY <2>1, Fun_ExistsBijSymmetric
  <2>3. \E g : g \in Injection(clients[t], 1..Cardinality(clients[t]))
    BY <2>2 DEF ExistsBijection, Bijection
  <2>4. QED
    BY <2>3
<1>4. ASSUME NEW t \in Tenants, NEW c \in clients[t]
      PROVE  /\ G[t][c] \in 1..TenantSize[t]
             /\ t = entry => G[t][c] # TenantSize[t]
             /\ \A d \in clients[t] : G[t][c] = G[t][d] => c = d
  <2> HIDE DEF G
  <2>1. G[t] \in Injection(clients[t], 1..Cardinality(clients[t]))
    BY <1>3
  <2>2. /\ G[t] \in [clients[t] -> 1..Cardinality(clients[t])]
        /\ \A d \in clients[t] : G[t][c] = G[t][d] => c = d
    BY <2>1 DEF Injection, IsInjective
  <2>3. QED
    BY <1>2, <2>2
<1> HIDE DEF G
<1>5. f \in Injection(Supply(e), Demand(e))
  <2>1. ASSUME NEW c \in Supply(e)
        PROVE  <<tag[c], G[tag[c]][c]>> \in Demand(e)
    <3>1. tag[c] \in Tenants /\ EngineOf[tag[c]] = e /\ c \in clients[tag[c]]
      BY <1>1
    <3>2. G[tag[c]][c] \in 1..TenantSize[tag[c]]
      BY <1>4, <3>1
    <3>3. QED
      BY <3>1, <3>2, DemandOf
  <2>2. f \in [Supply(e) -> Demand(e)]
    BY <2>1
  <2>3. \A c, d \in Supply(e) : f[c] = f[d] => c = d
    BY <1>1, <1>4
  <2> HIDE DEF f
  <2>4. QED
    BY <2>2, <2>3, Fun_IsInj
<1>6. f \notin Surjection(Supply(e), Demand(e))
  <2>1. <<entry, TenantSize[entry]>> \in Demand(e)
    <3>1. TenantSize[entry] > 0
      <4>1. Cardinality(clients[entry]) + left = TenantSize[entry]
        BY <1>0 DEF SizeInv
      <4>2. Cardinality(clients[entry]) \in Nat
        BY <1>0, HeldFacts
      <4>3. QED
        BY <1>0, <4>1, <4>2
    <3>2. QED
      BY <1>0, <3>1, DemandOf
  <2>2. \A c \in Supply(e) : f[c] # <<entry, TenantSize[entry]>>
    BY <1>1, <1>4
  <2> HIDE DEF f
  <2>3. QED
    BY <2>1, <2>2, Fun_SurjectionProperties
<1>7. Cardinality(Supply(e)) <= Cardinality(Demand(e)) /\ Cardinality(Supply(e)) # Cardinality(Demand(e))
  <2>1. IsFiniteSet(Demand(e))
    BY <1>0, ClientsFinite
  <2> HIDE DEF f
  <2>2. QED
    BY <1>5, <1>6, <2>1, FS_Injection
<1>8. Cardinality(Supply(e)) \in Nat /\ Cardinality(Demand(e)) \in Nat
  BY <1>0, ClientsFinite, FS_CardinalityType
<1>9. QED
  BY <1>0, <1>7, <1>8 DEF TenantsFit

LEMMA GivenStep ==
  ASSUME IInv, GivenInv, [Next \/ Ended]_vars
  PROVE  GivenInv'
<1> USE DEF starting, startup, requests
<1>0. /\ Types /\ Stages /\ Places
  BY DEF IInv
<1>1. Clients' = Clients /\ \A p \in Pools : ClientsOf(p)' = ClientsOf(p)
  BY MeasuredGrows, SameClients
<1>a. ASSUME UNCHANGED <<init, pools, clients, tag>>
      PROVE  GivenInv'
  BY <1>1, <1>a DEF GivenInv, Starting
<1>b. ASSUME UNCHANGED <<init, pools, tag>>, init # "tenants"
      PROVE  GivenInv'
  BY <1>1, <1>b DEF GivenInv, Starting
<1>2. CASE Start
  <2>1. init' \notin Starting => pools' = Pools
    BY <1>0, <1>2 DEF Start, GRPCServer, InitGrpcPool, MakePool, SetOptions, StorePool,
       PoolsComplete, StartServer, Listen, GivenInv, Stages, Starting, Serving
  <2>2. init \in Starting => \A c \in Clients : tag[c] = None
    BY <1>0 DEF Stages
  <2>3. UNCHANGED tag /\ (init' = "tenants" => init \in Starting \cup {"tenants"})
    BY <1>0, <1>2, ServerFacts DEF Start
  <2>4. init = "tenants" => UNCHANGED <<init, clients>>
    BY <1>0, <1>2 DEF Start, GRPCServer, InitGrpcPool, MakePool, SetOptions, StorePool,
       PoolsComplete, StartServer, Listen, Stages, Serving
  <2>5. QED
    BY <1>1, <2>1, <2>2, <2>3, <2>4 DEF GivenInv
<1>3. CASE NextTenant \/ RegisterTenant
  <2>1. UNCHANGED <<pools, clients, tag>> /\ init = "tenants" /\ init' \in {"tenants", "servers"}
    BY <1>3 DEF NextTenant, RegisterTenant
  <2>2. QED
    BY <1>1, <2>1 DEF GivenInv, Starting
<1>4. CASE GiveClient
  <2>1. CASE Fullest(EngineOf[entry]) = {}
    BY <1>4, <2>1, <1>a DEF GiveClient
  <2>2. CASE Fullest(EngineOf[entry]) # {}
    <3>1. PICK p \in Fullest(EngineOf[entry]) :
                 /\ clients' = [clients EXCEPT ![p] = @ \ {AnyOf(clients[p])},
                                              ![entry] = @ \cup {AnyOf(clients[p])}]
                 /\ tag' = [tag EXCEPT ![AnyOf(clients[p])] = entry]
      BY <1>4, <2>2 DEF GiveClient
    <3>2. PICK c : c = AnyOf(clients[p])
      OBVIOUS
    <3>3. /\ p \in Pools /\ p \in Owners /\ entry \in Tenants /\ entry \in Owners /\ p # entry
          /\ c \in clients[p] /\ EngineOf[p] = EngineOf[entry] /\ UNCHANGED <<init, pools>>
      BY <1>0, <1>4, <3>1, <3>2, TenantAssumption DEF GiveClient, Types, Fullest, Owners, AnyOf
    <3>4. c \in Clients /\ c \in ClientsOf(p) /\ c[1] = p
      BY <1>0, <3>3 DEF Types, Places, ClientsOf
    <3>5. /\ tag' \in [Clients -> Tenants \cup {None}] /\ tag'[c] = entry
          /\ \A d \in Clients \ {c} : tag'[d] = tag[d]
      BY <1>0, <3>1, <3>2, <3>3, <3>4 DEF Types
    <3>6. /\ \A t \in Tenants : clients[t] \subseteq clients'[t]
          /\ c \in clients'[entry]
      <4>1. \A t \in Tenants : t \in Owners /\ t # p
        BY <3>3, TenantAssumption DEF Owners
      <4>2. QED
        BY <1>0, <3>1, <3>2, <3>3, <4>1 DEF Types
    <3>7. QED
      BY <1>0, <1>1, <3>3, <3>4, <3>5, <3>6 DEF GivenInv, Types
  <2>3. QED
    BY <2>1, <2>2
<1>5. ASSUME NEW r \in Requests, Acquire(r) \/ Release(r)
      PROVE  GivenInv'
  BY <1>5, <1>a DEF Acquire, Release
<1>6. ASSUME NEW r \in Requests, Receive(r) \/ SendBack(r)
      PROVE  GivenInv'
  <2>1. init # "tenants"
    BY <1>0, <1>6 DEF Receive, SendBack, Stages, Serving
  <2>2. QED
    BY <1>6, <1>b, <2>1 DEF Receive, SendBack
<1>7. CASE GetMetricsData \/ MetricsRace
  BY <1>7, <1>a DEF GetMetricsData, MetricsRound, MetricsRead, MetricsReport, MetricsRace
<1>8. CASE UNCHANGED vars
  BY <1>8, <1>a DEF vars
<1>9. QED
  BY <1>2, <1>3, <1>4, <1>5, <1>6, <1>7, <1>8 DEF Next, Ended, InitTenantPool

\* NewPool refuses a share of nothing, and only an even size smaller than the
\* number of nodes has one.
LEMMA ExitMeansUnserved ==
  ASSUME Types, MakePool, process' = "refused", process # "refused"
  PROVE  ~EveryNodeServed
<1>1. PICK p \in Pools : Share(p) = 0
  BY DEF MakePool
<1>2. poolSize[p] \in Nat /\ NodeNum \in Nat \ {0}
  BY StartupAssumption DEF Types
<1>3. poolSize[p] > 0 /\ (Cluster => poolSize[p] % 2 = 1 \/ poolSize[p] >= NodeNum) => FALSE
  <2>1. ASSUME Cluster, poolSize[p] % 2 # 0
        PROVE  FALSE
    <3>1. poolSize[p] \div NodeNum \in Nat
      BY <1>2
    <3>2. QED
      BY <1>1, <2>1, <3>1 DEF Share, NodeShare
  <2>2. ASSUME Cluster, poolSize[p] >= NodeNum, poolSize[p] % 2 = 0
        PROVE  FALSE
    <3>1. \A n \in Nat, d \in Nat \ {0} : n >= d => n \div d # 0
      BY SMT
    <3>2. poolSize[p] \div NodeNum # 0
      BY <1>2, <2>2, <3>1
    <3>3. QED
      BY <1>1, <2>2, <3>2 DEF Share, NodeShare
  <2>3. ASSUME ~Cluster, poolSize[p] > 0
        PROVE  FALSE
    BY <1>1, <2>3 DEF Share, NodeShare
  <2>4. QED
    BY <2>1, <2>2, <2>3
<1>4. QED
  BY <1>1, <1>3 DEF EveryNodeServed

LEMMA EnoughStep ==
  ASSUME IInv, SizeInv, PoolsFull, GivenInv, EnoughIsEnough, [Next \/ Ended]_vars
  PROVE  EnoughIsEnough'
<1>1. UNCHANGED poolSize
  BY MeasuredGrows
<1>2. TenantsFit' = TenantsFit /\ EveryNodeServed' = EveryNodeServed
  BY <1>1, SameClients DEF TenantsFit, Supply, Demand, EveryNodeServed
<1>3. ASSUME process' = "panicked", process # "panicked"
      PROVE  ~TenantsFit
  <2>1. GiveClient /\ Fullest(EngineOf[entry]) = {}
    BY <1>3 DEF Next, Ended, vars, Start, GRPCServer, InitGrpcPool, MakePool, SetOptions,
       StorePool, PoolsComplete, StartServer, Listen, InitTenantPool, NextTenant, GiveClient,
       RegisterTenant, Acquire, Receive, Release, SendBack, GetMetricsData, MetricsRound,
       MetricsRead, MetricsReport, MetricsRace
  <2>2. QED
    BY <2>1, PanicMeansShort
<1>4. ASSUME process' = "refused", process # "refused"
      PROVE  ~EveryNodeServed
  <2>1. MakePool
    BY <1>4 DEF Next, Ended, vars, Start, GRPCServer, InitGrpcPool, SetOptions,
       StorePool, PoolsComplete, StartServer, Listen, InitTenantPool, NextTenant, GiveClient,
       RegisterTenant, Acquire, Receive, Release, SendBack, GetMetricsData, MetricsRound,
       MetricsRead, MetricsReport, MetricsRace
  <2>2. QED
    BY <1>4, <2>1, ExitMeansUnserved DEF IInv
<1>5. ASSUME process' # "running"
      PROVE  \A e \in Engines : server'[e] = "off"
  <2>1. CASE process # "running"
    <3>1. UNCHANGED vars
      BY <2>1 DEF Next, Ended
    <3>2. QED
      BY <2>1, <3>1 DEF EnoughIsEnough, vars, starting
  <2>2. CASE process = "running"
    <3>1. MakePool \/ GiveClient \/ MetricsRace
      BY <1>5, <2>2 DEF Next, Ended, vars, Start, GRPCServer, InitGrpcPool, SetOptions,
         StorePool, PoolsComplete, StartServer, Listen, InitTenantPool, NextTenant,
         RegisterTenant, Acquire, Receive, Release, SendBack, GetMetricsData, MetricsRound,
         MetricsRead, MetricsReport
    <3>2. init \notin Serving /\ UNCHANGED server
      BY <3>1 DEF MakePool, GiveClient, MetricsRace, starting, Serving
    <3>3. QED
      BY <3>2 DEF IInv, Stages
  <2>3. QED
    BY <2>1, <2>2
<1>6. QED
  BY <1>2, <1>3, <1>4, <1>5 DEF EnoughIsEnough

\* The start-up does not fail for want of capacity while there is enough of it,
\* for any number of engines, pools and tenants of any size: the choice of the
\* fullest pool leaves none over.  Nothing ends the process once it serves.
THEOREM StartsIfEnough == Spec => []EnoughIsEnough
<1> DEFINE Kept == IInv /\ SizeInv /\ PoolsFull /\ GivenInv /\ EnoughIsEnough
<1>1. Init => Kept
  BY InvInit, SizeInit
     DEF Init, StartupInit, PoolsFull, Made, GivenInv, EnoughIsEnough, Starting
<1>2. Kept /\ [Next \/ Ended]_vars => Kept'
  BY InvStep, SizeStep, PoolsStep, GivenStep, EnoughStep
<1>3. QED
  BY <1>1, <1>2, PTL DEF Spec

\* client.tenant.clients <- client: the goroutine that gives a client back
\* always finds room in the channel of its tenant.
ReturnHasRoom ==
  \A r \in Requests : pc[r] = "send" =>
    Cardinality(clients[tag[held[r]]]) < TenantSize[tag[held[r]]]

\* No goroutine that gives a client back ever waits, however many requests do
\* so at once: there is a place for each client a tenant was given.
THEOREM ReturnsNeverWait == Spec => []ReturnHasRoom
<1>1. IInv /\ SizeInv => ReturnHasRoom
  <2> SUFFICES ASSUME IInv, SizeInv, NEW r \in Requests, pc[r] = "send"
               PROVE  Cardinality(clients[tag[held[r]]]) < TenantSize[tag[held[r]]]
    BY DEF ReturnHasRoom
  <2>1. /\ init \in Serving /\ entry = None /\ todo = {}
        /\ held[r] # None /\ tag[held[r]] \in Tenants
    BY DEF IInv, Stages, Places, TenantsIsolated
  <2> DEFINE t == tag[held[r]]
  <2>2. Cardinality(clients[t]) + Cardinality(HeldBy(t)) = TenantSize[t]
    BY <2>1, TenantAssumption DEF SizeInv
  <2>3. r \in HeldBy(t) /\ IsFiniteSet(HeldBy(t)) /\ Cardinality(clients[t]) \in Nat
        /\ Cardinality(HeldBy(t)) \in Nat
    BY <2>1, HeldFacts DEF HeldBy
  <2>4. Cardinality(HeldBy(t)) # 0
    BY <2>3, FS_EmptySet
  <2>5. QED
    BY <2>2, <2>3, <2>4
<1>2. IInv /\ SizeInv /\ [Next \/ Ended]_vars => IInv' /\ SizeInv'
  BY InvStep, SizeStep
<1>3. QED
  BY <1>1, <1>2, InvInit, SizeInit, PTL DEF Spec

\* A request that waits at a tenant that has clients finds one in the channel,
\* or another request has one to give back.
GiverThere ==
  \A r \in Requests :
    pc[r] = "wait" /\ TenantSize[using[r]] > 0 =>
      clients[using[r]] # {} \/ HeldBy(using[r]) # {}

\* The safety half of TenantServes: nobody waits for a client that can come
\* from nowhere, for any tenants, sizes and number of requests.
THEOREM WaitersHaveGiver == Spec => []GiverThere
<1>1. IInv /\ SizeInv => GiverThere
  <2> SUFFICES ASSUME IInv, SizeInv, NEW r \in Requests, pc[r] = "wait", TenantSize[using[r]] > 0,
                      clients[using[r]] = {}, HeldBy(using[r]) = {}
               PROVE  FALSE
    BY DEF GiverThere
  <2>1. /\ init \in Serving /\ entry = None /\ todo = {} /\ using[r] \in Tenants
    BY DEF IInv, Types, Stages, Places
  <2>2. Cardinality(clients[using[r]]) + Cardinality(HeldBy(using[r])) = TenantSize[using[r]]
    BY <2>1, TenantAssumption DEF SizeInv
  <2>3. QED
    BY <2>2, FS_EmptySet, TenantAssumption
<1>2. IInv /\ SizeInv /\ [Next \/ Ended]_vars => IInv' /\ SizeInv'
  BY InvStep, SizeStep
<1>3. Init => IInv /\ SizeInv
  BY InvInit, SizeInit
<1>4. QED
  BY <1>1, <1>2, <1>3, PTL DEF Spec

-----------------------------------------------------------------------------
(* The remaining types                                                     *)

\* The variables the other proofs need no type of.
OtherTypes ==
  /\ process \in {"running", "refused", "undialled", "panicked", "crashed"}
  /\ configured \subseteq Engines
  /\ mpc \in {"sleep", "range", "second"}
  /\ owner \in Owners \cup Engines \cup {None}
  /\ size1 \in Nat

LEMMA OtherStep ==
  ASSUME IInv, OtherTypes, [Next \/ Ended]_vars
  PROVE  OtherTypes'
<1> USE DEF OtherTypes, starting, metrics
<1>0. Types /\ Stages
  BY DEF IInv
<1>1. CASE Start
  <2>1. CASE SetOptions
    <3>1. making \in Pools
      BY <1>0, <2>1 DEF SetOptions, Types, Stages
    <3>2. QED
      BY <1>1, <2>1, <3>1, StartupAssumption DEF Start, SetOptions
  <2>2. CASE MakePool \/ StorePool \/ PoolsComplete \/ StartServer \/ \E e \in Engines : Listen(e)
    BY <1>1, <2>2 DEF Start, MakePool, StorePool, PoolsComplete, StartServer, Listen
  <2>3. QED
    BY <1>1, <2>1, <2>2 DEF Start, GRPCServer, InitGrpcPool
<1>2. CASE InitTenantPool
  BY <1>2 DEF InitTenantPool, NextTenant, GiveClient, RegisterTenant
<1>3. ASSUME NEW r \in Requests, Acquire(r) \/ Receive(r) \/ Release(r) \/ SendBack(r)
      PROVE  OtherTypes'
  BY <1>3 DEF Acquire, Receive, Release, SendBack
<1>4. CASE MetricsRead
  <2>1. ASSUME NEW o \in Listed(owner)
        PROVE  o \in Owners /\ Cardinality(clients[o]) \in Nat
    <3>1. o \in Owners
      BY <1>0, <2>1, ListedMeasured DEF Measured, Types, Owners
    <3>2. IsFiniteSet(clients[o])
      BY <1>0, <3>1 DEF Types
    <3>3. QED
      BY <3>1, <3>2, FS_CardinalityType
  <2>2. QED
    BY <1>4, <2>1 DEF MetricsRead
<1>5. CASE MetricsRound \/ MetricsReport \/ MetricsRace
  BY <1>5 DEF MetricsRound, MetricsReport, MetricsRace
<1>6. CASE UNCHANGED vars
  BY <1>6 DEF vars
<1>7. QED
  BY <1>1, <1>2, <1>3, <1>4, <1>5, <1>6 DEF Next, Ended, InitTenantPool, GetMetricsData

\* Every variable keeps its type; a request that waits does so at a tenant.
THEOREM TypeCorrect == Spec => []TypeOK
<1>1. Init => OtherTypes
  BY DEF Init, StartupInit, OtherTypes
<1>2. IInv /\ OtherTypes /\ [Next \/ Ended]_vars => IInv' /\ OtherTypes'
  BY InvStep, OtherStep
<1>3. IInv /\ OtherTypes => TypeOK
  BY DEF IInv, Types, Stages, Places, OtherTypes, TypeOK, StartupTypes, Owners, Starting, Serving
<1>4. QED
  BY <1>1, <1>2, <1>3, InvInit, PTL DEF Spec

\* With a configuration that gives every node a connection and every tenant its
\* clients, a dial that fails and a reader of the metrics are the only ways for
\* the process to end, and neither ends it once an engine is served.
StaysUp ==
  EveryNodeServed /\ TenantsFit =>
    \/ process = "running"
    \/ process \in {"undialled", "crashed"} /\ \A e \in Engines : server[e] \notin {"serving", "failed"}

\* The safety half of ComesUp: with enough capacity the process is not ended by
\* the sizes, a server that cannot listen or a request, and no failing dial
\* or reader of the metrics ends it under a stream.
THEOREM NothingStopsIt == Spec => []StaysUp
<1>1. Init => OtherTypes
  BY DEF Init, StartupInit, OtherTypes
<1>2. IInv /\ OtherTypes /\ [Next \/ Ended]_vars => OtherTypes'
  BY OtherStep
<1>3. OtherTypes /\ EnoughIsEnough => StaysUp
  BY DEF OtherTypes, EnoughIsEnough, StaysUp
<1>4. Spec => []IInv
  BY InvInit, InvStep, PTL DEF Spec
<1>5. QED
  BY <1>1, <1>2, <1>3, <1>4, StartsIfEnough, PTL DEF Spec

=============================================================================
