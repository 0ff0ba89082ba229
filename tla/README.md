# Verification of the RPC gateway "pigeon"

TLA+ specifications of the gateway in `src/`, the TLC configurations that check
them on small instances, and proofs checked by TLAPS. Paths below are relative
to `src/`; `pool/` stands for `pkg/plugins/pool/grpc/`.

The gateway accepts gRPC streams for speech engines (asr, tts), chooses an
engine's connection pool, takes a pooled connection and copies frames between
the caller and the engine. Beside this it is an HTTP reverse proxy with a
hot-reloaded route table, and it can follow the engines of a Kubernetes cluster
(the configuration calls this OMP).

## 1. Inventory

| component | code | state it keeps | operations | what makes it correct |
|---|---|---|---|---|
| Connection pool | `pool/pool.go` | buffered channel `clients`, the field itself (nil after `Close`), `status`, the open connections | `NewPool`, `Acquire` in three modes, `Client.Close`, `Destory`, `Pool.Close`, `Size` | a connection is in one pair of hands; none is forgotten; the capacity holds; returning never blocks; waiters are served; a done context ends the wait |
| Stream handler | `pool/handler.go` | two forwarder goroutines, two error channels, the handler's loop | `handler`, `forwardServerToClient`, `forwardClientToServer` | the status is the backend's; OK means every frame was passed on; no use of the connection after its return; no goroutine stays |
| Engine registry | `pool/grpc.go` | maps `asrPools`, `ttsPools`; each pool's health flag | discovery loop, update, release, creation, health check | no closed pool stays in the map, and discovery alone loses no open one; the map follows the services' scenes and sizes |
| Director | `pool/options.go` `GrpcProxyTransport` | none of its own | routing by authority and token over the registry, `Acquire` | a call that could be served is not refused; it runs on its own engine's pool |
| Load balancer | `pool/options.go` `balancePool` | local variables over a moving table | one scan | it picks a pool that is up if there is one, the one with most idle clients |
| Tenants | `pool/tenant.go` | map of tenants, their channels, `client.tenant` | `initTenantPool`, `blanceAcquirePool`, `Acquire` | tenants keep their clients and share none |
| HTTP proxy | `pkg/plugins/proxy/http.go`, `httpserver/middleware/Duration.go` | the gin context and its writer, the recycled body buffers, the goroutines of a request | time-out middleware, `runProxy`, backend request | a request in time gets the answer of its own backend, one that is given up no body |
| Route table | `pkg/plugins/proxy/http.go` | `routeMap`, gin's tree | `definitionRoute`, `watchRouter`, `addRoute` | a reload adds what is new, misses no save, and ends the process only for a reason in the file |
| Start-up, plugins | `pigeon.go`, `pkg/plugins/plugin.go`, `pkg/plugins/proxy/grpc.go`, `pool/grpc.go` `InitGrpcPool` | plugin channels, the options of each engine type, the maps | plugins, pools from the configuration, one server per engine type | a sound configuration comes up, and what has come up stays up |
| Metrics | `pkg/plugins/metrics/engine.go`, `pool/grpc.go` | none | two reads of every size | the figures were true at some moment |
| not core | session, CORS, database, HTTP helpers, logging, codec, ids | | | |

How they interact. `handler` calls the director, which reads the registry (or
asks the balancer or a tenant) and calls `Acquire`; the handler defers
`Client.Close`, which gives the client back from a goroutine. Discovery, the
management platform, the health check and the metrics share the maps of the
registry with every director call, without a lock; they close pools that
requests are using. The HTTP middleware shares the gin context with the
goroutine it starts, and both with whatever request gin serves with that
context next, or whose body goes into the buffer it has put back.

What is hard: unlocked reads of `pool.clients` and of the maps around a nil
assignment or a delete; a destroyed client that has to be replaced by a dial
that may fail; a channel that blocks for ever when one client too many exists;
a select over two forwarders whose `io.EOF` has two meanings; time-outs that
race late answers; buffers and contexts that are used again; a table entry that
is looked up twice; sizes read twice; a file read while it is written.
`PROJECT.json` lists these with their lines as hazards, each with the
properties that would catch it or the reason none does.

## 2. Modules

| module | models | state and actions |
|---|---|---|
| `ClientPool` | `pool/pool.go`, and from `handler.go` the call and the deferred close | `clients` and `closed` are the channel and the nil field; `conns` the open `grpc.ClientConn`s; `pc`, `client`, `ctxDone` one goroutine per slot; `drain` the goroutine of `Pool.Close`. `Acquire` is split where the code reads the field again: `AcquireCheck` (IsClose), `AcquireSelect` (evaluation of the channel), then one action per case of the select and per mode; `Client.Close` into `CloseCheck`, `CloseEval`, `CloseSend`; the drain into `DrainLoop` and `DrainRecv`. A goroutine that evaluated a nil channel is at `waitnil`, `loosewaitnil` or `sendnil` |
| `ConnLease` | abstract: what a pool promises its users | `open`, `lease`; Grant, GrantNew, Return, Discard. `ClientPool` implements it (`PoolLeases`) |
| `StreamProxy` | `pool/handler.go` | `s2c` and `c2s` are the forwarders' positions, `up` and `down` frame counters per direction, `handler`, `round`, `result` the loop of `handler`, `conn` the lease of its client |
| `EngineRegistry` | `pool/grpc.go` on-line mode: discovery, update, release, `InitGrpcPoolByOmp`, health check | `asrPools` the map, `pool` the Pool objects with the pod address each was made for, a task record per goroutine (`podIp` is the address it found); each lookup of the map is an action. `services`, `pod` and `up` are the cluster: which services there are, the address of each one's pod and which addresses answer. `moved` (services that lost their first pod) and `gone` (tasks whose entry another task took out after they found it) are history variables |
| `EngineTable` | abstract: what the map promises its readers | `table`, `open`; Publish, Close, Remove. `EngineRegistry` implements it (`TableKept`): as its only writer, with `SingleWriter`, while discovery is alone, and without it beside updates and releases, which overwrite and remove open pools |
| `Director` | `GrpcProxyTransport` with OMP, and `Acquire` on what it finds | composed with an `EngineTable` of several writers: the table changes between any two of the steps `CompareAddress`, `Exists`, `Lookup`, `AcquireCheck`, `AcquireSelect`, `Receive`. `offered`, `gap`, `lost` are history variables |
| `Balancer` | `balancePool` | its locals, and `idle`, `status` which move between its reads, each read of a status or a size a step; `pools` is the map the configuration has left, from none to all; `moved` and `steady` (the pools that were up all the time) are history variables |
| `Startup` | `main`, the plugins, `InitGrpcPool` from the configuration with the division by the cluster's nodes, `GRPCServer`, `grpcServer` | `init` is the position of `GRPCServer`, `making` the pool not yet stored, `server` one goroutine per engine type; `process` says what ended the gateway: a size `NewPool` refused, a dial that failed, a panic over the capacity, or the runtime |
| `TenantPool` | `pool/tenant.go`, the return through `Client.Close`, and the metrics | extends `Startup`: single transfers of clients to tenants, then requests; `mpc`, `owner`, `size1` are a reader of the metrics between its two reads, the loop of the dev mode or a request for `/engine/metricsdata`, `seen` the history of what was in use |
| `HttpProxy` | `Duration.go`, `runProxy` | `handler`, `inner`, `backend` are the three goroutines of a request, `writer` what is installed in each recycled context, `buffer`, `spare` and `body` the buffers of `buffpool`, which are handed out again while an old context's writer may still write to them |
| `RouteTable` | `http.go`: `init`, `definitionRoute`, `watchRouter`, `getRouterTask`, `addRoute` | `file`, `saving` the editor's side; `config` what viper holds; `main`, `watcher`, `todo` the two goroutines; `routeMap` and gin's `tree`; one action per entry that is added. A line of the file that is no entry is `NoMap` or `NoList`; `Refused` and `Clashes` are the paths gin panics at |
| `MC*` | constants and symmetry for TLC; `MCHttpProxy` also numbers requests, contexts and buffers in the order of their first use, which leaves out their renaming only | |
| `*Proofs` | theorems, one module for each of `ClientPool`, `StreamProxy`, `EngineRegistry`, `Director`, `Balancer`, `TenantPool` (with `Startup`), `HttpProxy`, `RouteTable` | |

The engine types asr and tts have the same code on two maps; one is modelled,
except in `Startup` and `TenantPool`, where both start.
External and therefore modelled from its use only: grpc-go streams, contexts,
gin's context pool, response writer and route tree, what `buffpool` does beside
handing buffers out again, viper's watcher and the editor of the route file, the cluster behind the package `kvs`
(absent from the repository), the management platform's calls and the request
for the metrics (their controller package is absent too), and the Go runtime's abort on concurrent map access.

Abstractions: a client is an identity (in `Director` a number of them), a frame
a count, time the outcome of a test (`IdleTest`: a client is fresh or idle; with
`REQUEST_IDLE_TIME` of zero, never fresh), a service the pair (scene,
concurrency number), a pod its address, a body the request it answers. A member of `Requests` in
`ClientPool`, `Director` and `TenantPool` is a slot that is reused, so the number
of requests is not bounded, only how many overlap. What a refused caller is told
is left out: `GrpcProxyTransport` answers every error with Unimplemented.

## 3. Runs

| run | question | instance |
|---|---|---|
| PoolServing | Is a pool safe, does it implement `ConnLease`, serve its waiters and honour a done context? | all three modes; 2 requests, 3 clients, capacity 1, init 3; failing dials, `Pool.Close` at any point |
| StreamForwarding | Statuses, completeness, use after return, end of all goroutines | 2 frames each way, window 1, a frame may be refused |
| RegistryShared | Does a closed pool ever stay in the map when discovery, an update and a release interleave, and what makes an entry that was tested go away? | 1 scene, 1 capacity, 1 address, 3 pool objects, 2 cluster changes, 1 update and 1 release at a time |
| RegistryDiscovery | Discovery and health check alone: does the map implement `EngineTable` with a single writer, is an equal pool left alone, how far does it converge? | 1 scene, capacities 1 and 2, 2 addresses, 3 pool objects, 3 cluster changes, replaced pods included |
| DirectorRouting | Is a call refused or sent to the wrong engine because the table moved under it? Does its wait end? | 2 scenes of which calls ask for 1, or are malformed, 2 pool objects, 2 requests, capacity 1 |
| BalancerPick | When does it panic or pick nothing; is the pick up and the most idle? | every subset of 3 pools of capacity 1, 2, 3, any of them up or down |
| TenantServing | Does the gateway come up; do tenants keep their clients and get served; are the metrics true? | 2 asr pools of size 1 or 7 and 1 or 2, 1 tts pool, dials that may fail, 3 nodes, the tts port taken, a reader of the metrics, 4 tenant entries, two with one scene, 2 requests |
| HttpAnswers | Who can spoil the answer of a request in time; what does a caller get that was given up; is a goroutine left? | 3 requests, 2 contexts and 2 buffers used again, both time limits |
| RouteReload | Does a reload end the process, miss a save, or make routeMap and gin disagree? | 2 proxied paths, 1 of the gateway, 1 that gin joins to another, 1 it refuses, 2 targets, 5 versions of the file of which one is no list, 3 saves, each visible half written |
| PoolCloseLeak | refutes "destroyed when the pool is closed" (`pool.go:204`) | strict, capacity 1 |
| RegistryUpdateLeak | refutes "release pool" before a changed engine is made again (`grpc.go:452`) | one update, 4 cluster changes |
| HttpForeignAnswer | refutes that a route answers from its own target (README.md:226) | 2 requests, 1 context, 2 buffers |

Why the bounds are enough. The pool's errors need two goroutines that compete
for one client and one that closes or drains; three clients allow one dial per
request beyond the capacity, which the third mode does, and an init above the
capacity has to be cut. Two frames with a window of one make a forwarder block
and still have a frame behind it. Three cluster changes are a deployment, its
removal and a redeployment with another concurrency number, or a contested scene
and one change of it; the third pool object is needed while the health check
still holds an old one. Two pool objects are an engine's pool and the one it is
exchanged for, closed before or overwritten while it is open, and let the asked
scene's pool be entered for the other scene afterwards, which is how a stale
call could reach a wrong engine. Three
balanced pools give a first, a middle and a last visit. A foreign body over a
buffer takes three requests: one that is given up, one in its context whose
buffer is put back, and one in the other context that is handed this buffer. Sizes 1, 2 and 7 over
three nodes divide to 1, 0 and 3: too little, nothing, and enough for the
tenants. Three saves are one that adds, one that changes a target or a method or names a
path gin refuses, and one more while the watcher sleeps. Where section 4 proves a
property, the bounds do not matter to it.

Deadlock is checked in DirectorRouting and TenantServing. A pool with a nil
channel, a stream that ended, a process that exited, a quiet cluster and
answered requests may all stop, so the other runs switch the check off.

Symmetry is used in RegistryShared only, which checks invariants. In HttpAnswers
identities are numbered in the order of their first use (`MCSpec`), which is
sound for liveness too: every behaviour is a renaming of a numbered one.

### Fairness

- Goroutines that can run do run: weak fairness of each one's steps. Timers
  fire, dials and sleeps end.
- Channel operations are strongly fair (`AcquireRecv`, `LooseRecv`, `CloseSend`,
  `DrainRecv`, `Receive`, `SendBack`): the Go runtime queues blocked goroutines
  of a channel in order of arrival.
- The end of a stream (`Release`, `StreamEnds`) is weakly fair in the pool,
  director and tenant models. `StreamProxy`, where this is at stake, assumes
  nothing of caller and backend, and shows that a caller that goes away ends
  the handler once it has left the director. That the director returns is not
  assumed there: an `Acquire` in the loose mode (`pool.go:136`) or of a tenant
  (`tenant.go:121`) does not look at the context.
- A save of the route file that was begun is finished.
- Nothing forces a request, a cancellation, a `Pool.Close`, a change of the
  cluster or of the table, or an answer of an HTTP backend.

### Conditions inside the properties

- `WaiterServed` is about a pool that is not closed and keeps a slot, and
  `WaiterServedOrReleased` excepts a released pool and one that failed dials have
  emptied (`lost`): an `Acquire` that destroys an idle client and then fails to
  dial loses the slot for good. `SlotsLostOnlyByDial` shows that nothing else
  does.
- `CancelHonoured` leaves the loose mode out, whose second receive ignores the
  context.
- `CancelEndsHandler` begins when the director has returned (see fairness).
- `RefusalJustified` accepts three reasons: the engine had no open pool for a
  moment, the caller went away, a dial failed.
- `Converges` and `StatusConverges` except scenes two services claim: discovery
  exchanges their pool in every round. Both say what the code makes true of a
  pod that was replaced: the pool has the size the service asks for and the flag
  its stored address deserves, but nothing compares addresses (`grpc.go:335`), so
  the pool of a service in `moved` may be for a pod that is gone.
- `EngineStillExists` allows what RegistryShared reaches: with a release by the
  platform between test and use the second lookup of discovery is nil and the
  process panics (`grpc.go:335`). It says that nothing else does that. For
  discovery alone section 4 proves more (NothingLost): it never panics.
- `EqualPoolsKept` is about discovery alone, and the run shows `TableKept` for it;
  section 4 proves `TableKept` for any writers.
- `AlwaysPicks` allows the panic of `rand.Intn(0)` (`options.go:157`), which the run
  reaches: with several pools, each of which was down at some moment of the
  choice. `PicksMostIdle` says that the choice is up only of several pools: a
  single one is chosen also when it is down.
- `EnoughIsEnough` and `ComesUp` are about a configuration that gives every node a
  connection of every engine and the tenants no more than there is. Two things
  end such a gateway all the same: a dial that fails while a pool is filled
  (`pool.go:86-90`, then `log.Fatalf` at `grpc.go:171-174`), and a reader of the
  metrics that goes through the map while a pool is stored. `EnoughIsEnough` says
  that both do so only before anything is served.
- `TenantServes` is about a request that waits, with or without its caller:
  nothing in `tenant.go` reacts to a cancellation, so `TenantPool` has none.
- `TableAgrees` says nothing of an entry that is skipped: a path that was taken by
  another method, an old target or a half-written version of itself is in
  agreement, and stays as it is.
- `PanicsForAReason` takes the lines of the file as `AddRoute` does: null or a
  scalar where an entry or the list should be is a reason, also when only a cut
  file has it. A path without a leading slash is none: gin joins it to one with
  a slash, and refuses it only if that one is registered (`Clashes`).
- `SavedPathsKnown` begins when the callback is installed, and speaks of paths:
  an entry whose path was taken is never served.
- `AnswerComplete` excepts a request another one, given up, can reach (`Reaches`):
  over the context they share, or over a buffer that a request of that context
  had before or has after it. `GoroutinesEnd` excepts a request that was given up
  or whose backend failed.

### Where documents and code differ

Three runs refute a sentence of a document or a comment (the findings of
`PROJECT.json`). Other differences met on the way are stated here and shown by the
model or a proof:

- README.md:59 and README.md:142 say that a pool in the loose mode opens another
  connection when the limit is reached. It never does: `pool.go:132` asks for more
  clients in use than the capacity first (lemma `NeverGrows`), and
  `SlotsBounded` holds of the loose mode as of the strict one.
- README.md:186 calls the strategy "least connections". `balancePool` takes the pool
  with the most idle connections (`PicksMostIdle`), which is another one when pools
  differ in size.
- README.md:187 and the listing at README.md:205-208 draw among all pools when none
  has an idle client. The code draws among those that were up, and panics when
  there is none.
- README.md:214 says that new routes are updated while the gateway runs, and
  README.md:228 that a save starts this. The path alone makes a route new
  (`http.go:319`): another method of a known path is not added, nor is the complete
  entry when its path was read from a half-written file before.

Reached by the models and stated by no property: calls that wait at a released
pool end with their caller's context only; an exchange of an engine's pool lets
the old streams run on beside the full new pool; a delete of the platform can
take out the pool another task has just stored, which stays open; of two tenants
with one scene code the first is out of reach.

## 4. Proofs

Every theorem holds for all values of the constants that satisfy the named
assumption of its module, so for any number of requests, pools, engines,
tenants, frames and saves.

| module | theorems (property) |
|---|---|
| `ClientPoolProofs` | TypeCorrect, ConnectionsExclusive (`ExclusiveOwnership`), ConnectionsAccounted (`ConnsAccounted`), CapacityKept (`SlotsBounded`), ReturnNeverBlocks (`ReturnHasRoom`), LostByDialOnly (`SlotsLostOnlyByDial`), LeaseImplemented (`PoolLeases`) |
| `StreamProxyProofs` | TypeCorrect, LoopEnough (`NeverReachesEnd`), OkIsComplete (`OkMeansComplete`), NothingTruncated (`HalfCloseTruncatesNothing`), InternalJustified (`InternalOnlyForCaller`), NothingAfterReturn (`NothingSentAfterReturn`), HandlerNeverStranded, LastErrorFits, WindDown |
| `EngineRegistryProofs` | TypeCorrect, ClosedLeave (`ClosedPoolsLeave`), EngineStays (`EngineStillExists`), TableImplemented (`TableKept`); with no update and no release: NothingLost (no panic, `NoPoolLeaks`), EqualKept (`EqualPoolsKept`) |
| `DirectorProofs` | TypeCorrect, StreamsRightlyRouted (`RightEngine`), RefusalsJustified (`RefusalJustified`), ClientsConserved, WaitersHaveGiver, GivingBackNeverWaits |
| `BalancerProofs` | TypeCorrect, Picks (`AlwaysPicks`), MostIdle (`PicksMostIdle`) |
| `TenantPoolProofs` | TypeCorrect, Isolated (`TenantsIsolated`), KeepsSize (`TenantKeepsSize`), MetricsTrue (`MetricsReal`), StartsIfEnough (`EnoughIsEnough`), NothingStopsIt, WaitersHaveGiver, ReturnsNeverWait |
| `HttpProxyProofs` | TypeCorrect, Complete (`AnswerComplete`), ForeignBodies, GivenUpAnswered (`GivenUpAnswer`) |
| `RouteTableProofs` | TypeCorrect, Agrees (`TableAgrees`), PanicsExplained (`PanicsForAReason`), NoSaveMissed |

Each module has a typing invariant and one or more strengthenings; the proof of
a step has one case per action.

*ClientPool.* `TypeInv` is `TypeOK` with the fact that a goroutine has a client
exactly at the points at which the code holds one. The bound on the channel is
inductive because the one send the channel does not guard, that of a growing
loose pool, is unreachable (`NeverGrows`). `ExclusiveOwnership` alone is not
inductive: a dialled client must be new, which needs to know that every buffered
or owned client has an open connection. `Ownership` conjoins the two, and every
action is one of six moves (take, destroy, dial, drop, give, still), each a
lemma. `SlotsBounded` follows from how the cardinality of the carrying
goroutines changes (`CarriersMove`); it fails under a POOL_MODEL that is neither
strict nor loose, so it is stated of those two. For `ConnLease` every step is
mapped: a take is a Grant, a dial a GrantNew, the end of a stream a Return, a
destruction a Discard and the rest a stutter; that the connections keep to the
limit is `ConnsFewerThanSlots`: each one is buffered or carried.

*StreamProxy.* An error of a forwarder passes through the forwarder, its channel
and the handler. `S2CInv` and `C2SInv` say what each error still stands for in
each of the three places, beside the order of the frame counters (`Ordered`).
`HandlerInv` adds that the handler selects only while the forwarder of the
backend's frames runs or has reported. Three theorems carry the liveness of the
stream as far as it is a matter of single steps: the handler never waits for two
forwarders that are done, the last error of each finds its buffer empty, and
once the context is done each of them has at most three steps left
(`StepsLeft`). What remains for TLC is that a goroutine that can run does.

*EngineRegistry.* `Placed` says that a pool being made is open, in nobody else's
hands and not in the map; with it `ClosedPoolsLeave` is inductive beside any
number of updates and releases. `EngineStillExists` needs only that a delete marks
every task that has tested this entry (`gone`), and that a store fills it. What
discovery guarantees when it is alone needs `Held`: there is no pool under the name while it makes one, the one it looks up
again is open until it closes it, and the one it releases has another capacity.
For `EngineTable` (`ReadersInv`: `Placed`, and `Held` when discovery is alone) its
store, close and delete are Publish, Close and Remove, those of a single writer
when it is one; a pool that is still being made is not open to the readers
(`TableOpen`), and a close of a pool that is closed, or a delete of an entry that
is gone, is a stutter.

*Director.* Since several write the table, an open pool may leave it, so "the pool
of an open call is the one in its engine's entry" is no invariant. `CallInv` says
what survives: no other engine's entry ever holds the call's pool; while the pool
is open it is one the engine had open during the call; when it is not, the engine
had no open pool for a moment, because a pool is closed only through the entry
that holds it. Both routing theorems are consequences. `SlotsKept` counts the
clients of an open pool in its channel, with calls and lost to failed dials; that
a waiting call has somebody to wait for, and that a return finds room, follow.

*Balancer.* `PickInv`: a pool that has been up since the function was entered is
still to be visited, is being visited or is in `indexRand`, and `index` names a
pool once `indexRand` holds one;
`SpareInv`: while nothing moved, what was read is true of the visited pools.

*TenantPool.* `Stages` orders the start-up (pools, tenants, servers), `Places`
puts every client in its pool, in its tenant's channel or with one request of
that tenant, `SizeInv` counts them. For the metrics, `PoolsFull` makes the sizes
of pools exact, `SizesAdd` adds buffered and used clients up to the capacity, and
`MetricsInv` remembers that the first read was true when it was made. For the
capacity, `GivenInv` says that tenants have what they were given, out of all the
pools of their own engine. When none of them has a client left (`PanicMeansShort`),
all clients of the engine were given, each for a place of its own of those its
tenants need, and one place is still empty, so there are more places than clients.
That nothing ends a gateway that serves follows from `Stages`: the steps that can
end it belong to the pools and the tenants, before the first server is started.

*HttpProxy.* A request that was given up stays given up, and once it is one its
goroutine may write to whatever writer its context holds. `Owned` says that a
buffer in use belongs to one request, `Origins` and `Filled` where the bodies in a
buffer come from: from its request, or from one that was given up and whose
context had this buffer (`WroteLate`). A request nothing can reach (`Alone`) then
has what it wrote itself (`Written`), which is AnswerComplete, and what else it is
sent came over a context or a buffer, which is ForeignBodies. For GivenUpAnswered,
`Marked` says that the status a middleware has left after a time-out is 504 or one
a request of the context decided after it was given up.

*RouteTable.* `AddingInv`: entries are added by one goroutine at a time, first
`main` and then the watcher, and the settings they come from are not read again
while some are left to add, so what makes one of them panic is still in the
settings when it does. A path gin has already is in routeMap or the gateway's own
(`TableAgrees`), and routeMap is asked first, so reading a route again is no
reason. `Following` says where the contents of a saved file
are on their way into the table: in an event, in the settings, among the entries
to add, or there; no step loses it.

Only model-checked is the liveness (`WaiterServed`, `CancelHonoured`,
`CancelEndsHandler`, `ForwardersEnd`, `Converges`, `StatusConverges`,
`WaiterServedOrReleased`, `GoroutinesEnd`, `SavedPathsKnown`, `ComesUp`,
`TenantServes`), which TLAPS does not prove under fairness. Every invariant, action
property and refinement of the passing runs is proved, and of some liveness
properties the safety half, that nothing they wait for is lost:

| liveness property | its safety half |
|---|---|
| `WaiterServedOrReleased` | WaitersHaveGiver of `DirectorProofs` |
| `TenantServes` | WaitersHaveGiver of `TenantPoolProofs` |
| `CancelEndsHandler` | HandlerNeverStranded, WindDown |
| `ForwardersEnd` | LastErrorFits, WindDown |
| `SavedPathsKnown` | NoSaveMissed |
| `ComesUp` | NothingStopsIt |

## 5. Not modelled

- `kvs` and the `controller` package are absent from the repository; what
  discovery and the platform do with them is the environment of
  `EngineRegistry`.
- `httpserver/db`, `httpserver/model`: imported by nothing that runs; README.md:296
  says the database is not in use. `util/HttpClient.go`, `util/Goroutine.go`: no
  caller in the gateway. `GRPCServer` and `balanceTenantPool` under `pool/`: no
  caller.
- `TenantPool` has no calls of the management platform: what a release, an update
  or a discovery does to a pool is in `ClientPool` and `EngineRegistry`.
- Logging, the codec, identifiers, sessions and CORS keep no state the gateway's
  properties are about; the readers of the configuration are constants.
- In `GrpcProxyTransport`: an `:authority` without a port, which makes
  `addrPort[1]` panic, and the token's decoding, which only depends on the call.
  A missing token is answered like an unknown method, because its error is
  dropped.
- In `InitGrpcPoolByOmp`: the division of the concurrency number by the nodes
  (`grpc.go:243-255`), whose result is not used.
- Data races are modelled where their outcome matters (the map's abort; each
  unlocked read as a step of its own); torn reads of a Go pointer do not occur.
  The inside of gin's tree while a reload adds to it is external.

## 6. What is left

Every part of the code that keeps state across calls is modelled, and every
safety property of the passing runs is proved. Worth adding next: the director
over tenants in one module (today `Director` covers OMP and `TenantPool` the
tenant branch), and the safety half of `Converges`: when a round of discovery
leaves the map as it is, the map is what the cluster asks for.
