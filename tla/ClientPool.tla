----------------------------- MODULE ClientPool -----------------------------
(***************************************************************************)
(* One gRPC connection pool of the gateway (pkg/plugins/pool/grpc/pool.go) *)
(* and the request goroutines that use it.                                 *)
(*                                                                         *)
(* A pool is a buffered Go channel of *Client.  A request takes a client   *)
(* with Pool.Acquire, proxies its stream over it, and gives it back with   *)
(* Client.Close, which starts a goroutine that sends it to the channel     *)
(* again.  Pool.Close sets the field pool.clients to nil and starts a      *)
(* goroutine that empties the channel.  None of these reads of the field   *)
(* is under a lock, so every read is a step of its own here: between       *)
(* IsClose() and the use of the channel any other goroutine may run.       *)
(*                                                                         *)
(* What is abstract: a client is an identity; time is reduced to the       *)
(* outcome of the idle test; the proxied stream is the interval between    *)
(* "holding" and Release.  A member of Requests is a slot: one goroutine   *)
(* at a time serves a request in it, and the goroutine that Client.Close   *)
(* starts continues in the same slot, so |Requests| bounds the concurrency *)
(* and not the number of requests of a behaviour.                          *)
(***************************************************************************)
EXTENDS Integers, Sequences, FiniteSets

CONSTANTS
  Requests,     \* slots for concurrent request goroutines
  Clients,      \* identities of *Client objects; freed ones are used again
  NoClient,     \* the nil *Client
  Capacity,     \* size argument of NewPool, the buffer size of the channel
  InitSize,     \* init argument of NewPool
  Modes,        \* values POOL_MODEL may have in the configuration
  IdleDur,      \* REQUEST_IDLE_TIME of the configuration
  DialMayFail,  \* whether the factory may return an error
  MayClose      \* whether somebody may call Pool.Close

STRICT_MODE == 0
LOOSE_MODE  == 1

\* What initPool accepts: a size of at least one, any init and any POOL_MODEL.
ASSUME PoolAssumption ==
  /\ Capacity \in Nat \ {0}
  /\ InitSize \in Nat
  /\ IdleDur \in Nat
  /\ Modes \subseteq Nat
  /\ DialMayFail \in BOOLEAN
  /\ MayClose \in BOOLEAN
  /\ IsFiniteSet(Requests)
  /\ NoClient \notin Clients

VARIABLES
  mode,     \* pool.mode, which never changes
  clients,  \* the messages buffered in the channel, oldest first
  closed,   \* pool.clients = nil
  conns,    \* the clients whose grpc.ClientConn is open
  pc,       \* where the goroutine of each slot is
  client,   \* the client that goroutine owns
  ctxDone,  \* whether the request's context is done
  drain     \* where the goroutine started by Pool.Close is

vars == <<mode, clients, closed, conns, pc, client, ctxDone, drain>>

\* A goroutine in "waitnil", "loosewaitnil" or "sendnil" operates on a nil
\* channel, which blocks for ever; in "wait", "loosewait" and "send" it has
\* the channel itself, whatever becomes of the field pool.clients.
PC == { "idle",
        "start", "select", "wait", "waitnil", "loosewait", "loosewaitnil", "dial",
        "holding", "closing", "sendeval", "send", "sendnil" }

\* Mutant of InitCount: initPool does not cap init.
InitCountUncapped == InitSize

InitCount == IF InitSize > Capacity THEN Capacity ELSE InitSize

\* Clients no goroutine, no channel and no connection refers to.
Unused == Clients \ conns

\* Outcomes of the test idleDur > 0 && timeUsed.Add(idleDur).After(now).
IdleTest == IF IdleDur > 0 THEN BOOLEAN ELSE {FALSE}

\* Pool.Size and Pool.GetConnCurrent: a nil channel has length 0.
Size        == IF closed THEN 0 ELSE Len(clients)
ConnCurrent == Capacity - Size

\* The condition under which Acquire lets a loose pool grow.
LooseGrows == ConnCurrent > Capacity /\ ConnCurrent <= 5 * Capacity

-----------------------------------------------------------------------------
(* The state NewPool leaves when every dial succeeded; when one failed     *)
(* there is no pool, and both callers end the process with log.Fatalf.     *)

Init ==
  /\ mode \in Modes
  /\ \E s \in [1..InitCount -> Clients] :
       /\ \A i, j \in 1..InitCount : i # j => s[i] # s[j]
       /\ clients = s
       /\ conns = {s[i] : i \in 1..InitCount}
  /\ closed = FALSE
  /\ pc = [r \in Requests |-> "idle"]
  /\ client = [r \in Requests |-> NoClient]
  /\ ctxDone = [r \in Requests |-> FALSE]
  /\ drain = "off"

Goto(r, l) == pc' = [pc EXCEPT ![r] = l]

-----------------------------------------------------------------------------
(* The environment of the pool.                                            *)

\* A request was routed to this pool: its handler is about to call Acquire.
NewRequest(r) ==
  /\ pc[r] = "idle"
  /\ Goto(r, "start")
  /\ ctxDone' = [ctxDone EXCEPT ![r] = FALSE]
  /\ UNCHANGED <<mode, clients, closed, conns, client, drain>>

\* The caller goes away or its deadline passes while Acquire runs.
Cancel(r) ==
  /\ pc[r] \in {"start", "select", "wait", "waitnil"}
  /\ ~ctxDone[r]
  /\ ctxDone' = [ctxDone EXCEPT ![r] = TRUE]
  /\ UNCHANGED <<mode, clients, closed, conns, pc, client, drain>>

-----------------------------------------------------------------------------
(* Pool.Acquire                                                            *)

\* if pool.IsClose() { return nil, errors.New("Pool is closed") }
AcquireCheck(r) ==
  /\ pc[r] = "start"
  /\ Goto(r, IF closed THEN "idle" ELSE "select")
  /\ UNCHANGED <<mode, clients, closed, conns, client, ctxDone, drain>>

\* The select statement evaluates pool.clients, once, when it is entered.
AcquireSelect(r) ==
  /\ pc[r] = "select"
  /\ Goto(r, IF closed THEN "waitnil" ELSE "wait")
  /\ UNCHANGED <<mode, clients, closed, conns, client, ctxDone, drain>>

\* Mutant of AcquireRecv: an idle client is replaced without being destroyed.
AcquireRecvLeaks(r) ==
  /\ pc[r] = "wait" /\ clients # <<>>
  /\ clients' = Tail(clients)
  /\ \/ client' = [client EXCEPT ![r] = Head(clients)] /\ Goto(r, "holding")
     \/ Goto(r, "dial") /\ UNCHANGED client
  /\ UNCHANGED <<mode, closed, conns, ctxDone, drain>>

\* case client = <-pool.clients: a client that was used recently is handed
\* out; an idle one is destroyed, and a new one will be dialled for it.
AcquireRecv(r) ==
  /\ pc[r] = "wait"
  /\ clients # <<>>
  /\ clients' = Tail(clients)
  /\ \E fresh \in IdleTest :
       IF fresh
         THEN /\ client' = [client EXCEPT ![r] = Head(clients)]
              /\ Goto(r, "holding")
              /\ UNCHANGED conns
         ELSE /\ conns' = conns \ {Head(clients)}
              /\ Goto(r, "dial")
              /\ UNCHANGED client
  /\ UNCHANGED <<mode, closed, ctxDone, drain>>

\* Mutant of AcquireDoneStrict: the return is missing, so a client is dialled.
AcquireDoneFallsOut(r) ==
  /\ mode = STRICT_MODE /\ pc[r] \in {"wait", "waitnil"} /\ ctxDone[r]
  /\ Goto(r, "dial")
  /\ UNCHANGED <<mode, clients, closed, conns, client, ctxDone, drain>>

\* Mutant of AcquireDoneStrict: the context is not looked at on a nil channel.
AcquireDoneUnlessNil(r) ==
  /\ mode = STRICT_MODE /\ pc[r] = "wait" /\ ctxDone[r]
  /\ Goto(r, "idle")
  /\ UNCHANGED <<mode, clients, closed, conns, client, ctxDone, drain>>

\* case <-ctx.Done() of a strict pool: return nil, nil.
AcquireDoneStrict(r) ==
  /\ mode = STRICT_MODE
  /\ pc[r] \in {"wait", "waitnil"}
  /\ ctxDone[r]
  /\ Goto(r, "idle")
  /\ UNCHANGED <<mode, clients, closed, conns, client, ctxDone, drain>>

\* case <-ctx.Done() of a loose pool: perhaps put a new client into the
\* channel, then evaluate pool.clients again for a plain receive.
AcquireDoneLoose(r) ==
  /\ mode = LOOSE_MODE
  /\ pc[r] \in {"wait", "waitnil"}
  /\ ctxDone[r]
  /\ Goto(r, IF closed THEN "loosewaitnil" ELSE "loosewait")
  /\ IF LooseGrows
       THEN \E c \in Unused : /\ conns' = conns \cup {c}
                              /\ clients' = Append(clients, c)
       ELSE UNCHANGED <<conns, clients>>
  /\ UNCHANGED <<mode, closed, client, ctxDone, drain>>

\* return <-pool.clients, err: no idle test, and the context is not looked at.
LooseRecv(r) ==
  /\ pc[r] = "loosewait"
  /\ clients # <<>>
  /\ clients' = Tail(clients)
  /\ client' = [client EXCEPT ![r] = Head(clients)]
  /\ Goto(r, "holding")
  /\ UNCHANGED <<mode, closed, conns, ctxDone, drain>>

\* case <-ctx.Done() under any other POOL_MODEL falls out of the select.
AcquireDoneOther(r) ==
  /\ mode \notin {STRICT_MODE, LOOSE_MODE}
  /\ pc[r] \in {"wait", "waitnil"}
  /\ ctxDone[r]
  /\ Goto(r, "dial")
  /\ UNCHANGED <<mode, clients, closed, conns, client, ctxDone, drain>>

\* pool.createClient() after the select.
Dial(r) ==
  /\ pc[r] = "dial"
  /\ \E c \in Unused :
       /\ conns' = conns \cup {c}
       /\ client' = [client EXCEPT ![r] = c]
  /\ Goto(r, "holding")
  /\ UNCHANGED <<mode, clients, closed, ctxDone, drain>>

DialFails(r) ==
  /\ DialMayFail
  /\ pc[r] = "dial"
  /\ Goto(r, "idle")
  /\ UNCHANGED <<mode, clients, closed, conns, client, ctxDone, drain>>

-----------------------------------------------------------------------------
(* Client.Close, deferred by the stream handler, and its goroutine         *)

\* The handler returns; conn.Close() starts the goroutine.
Release(r) ==
  /\ pc[r] = "holding"
  /\ Goto(r, "closing")
  /\ UNCHANGED <<mode, clients, closed, conns, client, ctxDone, drain>>

\* Mutant of CloseCheck: a client that lived too long is destroyed, not given
\* back, as the lines commented out after the test would have it.
CloseCheckMaxLife(r) ==
  /\ pc[r] = "closing"
  /\ \/ /\ conns' = conns \ {client[r]}
        /\ client' = [client EXCEPT ![r] = NoClient]
        /\ Goto(r, "idle")
     \/ /\ ~closed /\ Goto(r, "sendeval")
        /\ UNCHANGED <<conns, client>>
  /\ UNCHANGED <<mode, clients, closed, ctxDone, drain>>

\* if pool.IsClose() { client.Destory(); return }
CloseCheck(r) ==
  /\ pc[r] = "closing"
  /\ IF closed
       THEN /\ conns' = conns \ {client[r]}
            /\ client' = [client EXCEPT ![r] = NoClient]
            /\ Goto(r, "idle")
       ELSE /\ Goto(r, "sendeval")
            /\ UNCHANGED <<conns, client>>
  /\ UNCHANGED <<mode, clients, closed, ctxDone, drain>>

\* client.pool.clients <- client evaluates the channel ...
CloseEval(r) ==
  /\ pc[r] = "sendeval"
  /\ Goto(r, IF closed THEN "sendnil" ELSE "send")
  /\ UNCHANGED <<mode, clients, closed, conns, client, ctxDone, drain>>

\* Mutant of CloseSend: conn.Close() was called twice and sends twice.
CloseSendTwice(r) ==
  /\ pc[r] = "send" /\ Len(clients) < Capacity
  /\ clients' = Append(clients, client[r])
  /\ Goto(r, "closing")
  /\ UNCHANGED <<mode, closed, conns, client, ctxDone, drain>>

\* Mutant of CloseSend: the channel counts as full one client too early.
CloseSendOneShort(r) ==
  /\ pc[r] = "send" /\ Len(clients) < Capacity - 1
  /\ clients' = Append(clients, client[r])
  /\ client' = [client EXCEPT ![r] = NoClient]
  /\ Goto(r, "idle")
  /\ UNCHANGED <<mode, closed, conns, ctxDone, drain>>

\* ... and sends when the buffer has room.
CloseSend(r) ==
  /\ pc[r] = "send"
  /\ Len(clients) < Capacity
  /\ clients' = Append(clients, client[r])
  /\ client' = [client EXCEPT ![r] = NoClient]
  /\ Goto(r, "idle")
  /\ UNCHANGED <<mode, closed, conns, ctxDone, drain>>

-----------------------------------------------------------------------------
(* Pool.Close and its goroutine                                            *)

\* Mutant of PoolClose: connections are closed whether or not they are in use.
PoolCloseAll ==
  /\ MayClose /\ ~closed
  /\ closed' = TRUE /\ drain' = "done" /\ conns' = {} /\ clients' = <<>>
  /\ UNCHANGED <<mode, pc, client, ctxDone>>

PoolClose ==
  /\ MayClose
  /\ ~closed
  /\ closed' = TRUE
  /\ drain' = "loop"
  /\ UNCHANGED <<mode, clients, conns, pc, client, ctxDone>>

\* for len(clients) > 0
DrainLoop ==
  /\ drain = "loop"
  /\ drain' = IF clients # <<>> THEN "recv" ELSE "done"
  /\ UNCHANGED <<mode, clients, closed, conns, pc, client, ctxDone>>

\* client := <-clients; client.Destory()
DrainRecv ==
  /\ drain = "recv"
  /\ clients # <<>>
  /\ conns' = conns \ {Head(clients)}
  /\ clients' = Tail(clients)
  /\ drain' = "loop"
  /\ UNCHANGED <<mode, closed, pc, client, ctxDone>>

-----------------------------------------------------------------------------

Acquire(r) ==
  \/ AcquireCheck(r) \/ AcquireSelect(r) \/ AcquireRecv(r)
  \/ AcquireDoneStrict(r) \/ AcquireDoneLoose(r) \/ AcquireDoneOther(r)
  \/ LooseRecv(r) \/ Dial(r) \/ DialFails(r)

ClientClose(r) == Release(r) \/ CloseCheck(r) \/ CloseEval(r) \/ CloseSend(r)

Next ==
  \/ \E r \in Requests : NewRequest(r) \/ Cancel(r) \/ Acquire(r) \/ ClientClose(r)
  \/ PoolClose \/ DrainLoop \/ DrainRecv

Spec == Init /\ [][Next]_vars

(***************************************************************************)
(* Fairness.  The Go scheduler runs every goroutine that can run.  Channel *)
(* operations are strongly fair: the runtime queues blocked receivers and  *)
(* senders in order of arrival, so one that waits is served after finitely *)
(* many operations of the others.  Release is fair because streams are     *)
(* assumed to end.  Nothing forces a request to arrive, a caller to cancel *)
(* or anybody to close the pool.                                           *)
(***************************************************************************)
Fairness ==
  /\ \A r \in Requests :
       /\ WF_vars(AcquireCheck(r) \/ AcquireSelect(r))
       /\ WF_vars(AcquireDoneStrict(r) \/ AcquireDoneLoose(r) \/ AcquireDoneOther(r))
       /\ WF_vars(Dial(r) \/ DialFails(r))
       /\ WF_vars(Release(r) \/ CloseCheck(r) \/ CloseEval(r))
       /\ SF_vars(AcquireRecv(r))
       /\ SF_vars(LooseRecv(r))
       /\ SF_vars(CloseSend(r))
  /\ WF_vars(DrainLoop)
  /\ SF_vars(DrainRecv)

FairSpec == Spec /\ Fairness

-----------------------------------------------------------------------------
(* Properties                                                              *)

Queued == {clients[i] : i \in 1..Len(clients)}
Owned  == {client[r] : r \in Requests} \ {NoClient}

\* Program points at which a goroutine accounts for one of the pool's slots:
\* it has a client, or it is about to replace the idle one it destroyed.
Carrying == {"dial", "holding", "closing", "sendeval", "send", "sendnil"}

Carriers == {r \in Requests : pc[r] \in Carrying}
Slots    == Len(clients) + Cardinality(Carriers)

TypeOK ==
  /\ mode \in Modes
  /\ clients \in Seq(Clients)
  /\ Len(clients) <= Capacity
  /\ closed \in BOOLEAN
  /\ conns \in SUBSET Clients
  /\ pc \in [Requests -> PC]
  /\ client \in [Requests -> Clients \cup {NoClient}]
  /\ ctxDone \in [Requests -> BOOLEAN]
  /\ drain \in {"off", "loop", "recv", "done"}

\* A connection is in one pair of hands: no client is buffered twice, none is
\* owned by two goroutines, and none is both owned and available in the
\* channel (Acquire, Client.Close and the drain of Pool.Close interleaved).
ExclusiveOwnership ==
  /\ \A i, j \in 1..Len(clients) : i # j => clients[i] # clients[j]
  /\ \A r, s \in Requests : r # s /\ client[r] # NoClient => client[r] # client[s]
  /\ Owned \cap Queued = {}

\* Every open connection is buffered or owned, and whatever is buffered or owned
\* is open: Acquire never hands out a client that was destroyed, and no path
\* forgets one without destroying it.  A sender stuck on the nil channel of a
\* closed pool still owns its client, though it never destroys it.
ConnsAccounted == conns = Queued \cup Owned

\* The capacity is a limit: the clients buffered, in use, on their way back or
\* being replaced never exceed it.  README.md:58 says so of the strict mode.  Of
\* the loose mode README.md:59 and :142 say the contrary, that it opens another
\* connection beyond the limit; pool.go:132 asks for more clients in use than the
\* capacity before it does, which is never so, and a loose pool keeps the limit too.
SlotsBounded == mode \in {STRICT_MODE, LOOSE_MODE} => Slots <= Capacity

\* Giving a client back never blocks on a full channel, so the goroutine of
\* Client.Close ends, however Acquire, Close and failed dials interleave.
ReturnHasRoom ==
  mode \in {STRICT_MODE, LOOSE_MODE} =>
    \A r \in Requests : pc[r] = "send" => Len(clients) < Capacity

\* In a pool that is not closed and has not lost its last slot to a failed
\* dial, an Acquire that waits ends: clients are given back or replaced, and
\* no waiter is passed over for ever, not even one in the receive of the loose
\* mode that no longer looks at its context.
WaiterServed ==
  [](~closed /\ Slots > 0) =>
    \A r \in Requests : pc[r] \in {"wait", "loosewait"} ~> pc[r] \in {"holding", "idle"}

\* An Acquire whose context is done ends, also when Pool.Close ran in between
\* and left it with a nil channel or with a channel nobody fills any more; a
\* loose pool makes no such promise.
CancelHonoured ==
  mode # LOOSE_MODE =>
    \A r \in Requests :
      (pc[r] \in {"wait", "waitnil"} /\ ctxDone[r]) ~> pc[r] \in {"idle", "holding"}

\* A pool that is not closed loses a slot only where the dial for an idle
\* client fails: no sequence of acquires, cancels and returns shrinks it, and
\* the destroyed client is the only price of that failure.
SlotsLostOnlyByDial ==
  [][Slots' < Slots /\ ~closed /\ mode \in {STRICT_MODE, LOOSE_MODE} =>
       /\ Slots' = Slots - 1
       /\ \E r \in Requests : pc[r] = "dial" /\ pc'[r] = "idle" /\ client[r] = NoClient]_vars

\* The pool implements ConnLease: a client is leased while its request streams
\* over it, and the pool keeps to its limit; under a POOL_MODEL that is neither
\* strict nor loose each request may dial one more.
Limit ==
  IF Modes \subseteq {STRICT_MODE, LOOSE_MODE} THEN Capacity ELSE Capacity + Cardinality(Requests)

Leases == [r \in Requests |-> IF pc[r] = "holding" THEN client[r] ELSE NoClient]

Lease == INSTANCE ConnLease WITH open <- conns, lease <- Leases

PoolLeases == Lease!Spec

\* Once the pool is closed every connection is destroyed in the end, the ones
\* buffered by the drain, the ones in use when their request gives them back.
CloseDestroysAll == \A c \in Clients : closed /\ c \in conns ~> c \notin conns

=============================================================================
