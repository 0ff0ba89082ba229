------------------------------ MODULE Director ------------------------------
(***************************************************************************)
(* The way of a request to a connection when engines are managed on line   *)
(* (GrpcProxyTransport, pkg/plugins/pool/grpc/options.go, with OMP on and  *)
(* one engine type), composed with the table of engine pools while pools   *)
(* are entered, released and exchanged under it.                           *)
(*                                                                         *)
(* The director compares the caller's :authority with the address of the   *)
(* gateway, which is empty until the first pool was made, looks the scene  *)
(* code of the token up twice, and calls Pool.Acquire on what the second   *)
(* lookup finds.  Each of these reads is a step.  Whatever goes wrong the  *)
(* caller is told Unimplemented; the wording is left out.                  *)
(*                                                                         *)
(* The table is an EngineTable.  Of a pool's clients only the number in    *)
(* its channel is kept; their identities, and the loose mode, are in       *)
(* ClientPool.  As there, a member of Requests is a slot.                  *)
(***************************************************************************)
EXTENDS Integers, FiniteSets

CONSTANTS
  Scenes,     \* scene codes, the keys of asrPools
  Pools,      \* identities of *Pool objects; unreferenced ones are used again
  NoPool,     \* the nil *Pool
  Requests,   \* slots for concurrent requests
  Malformed,  \* a call to an internal method, to another address, without a
              \* token, or with a token that has no scene code
  Asked,      \* what callers ask for
  Capacity    \* the concurrency number of every engine

ASSUME DirectorAssumption ==
  /\ NoPool \notin Pools
  /\ Malformed \notin Scenes
  /\ Asked \subseteq Scenes \cup {Malformed}
  /\ Capacity \in Nat \ {0}
  /\ IsFiniteSet(Requests)

VARIABLES
  table, open,  \* asrPools, and the pools of it that are not closed
  addressed,    \* ASRGatewayProxyAddr # ""
  idle,         \* clients buffered in the channel of each pool
  pc, ask, mine, ctxDone,  \* per request: program point, what it asks for, its
                           \* pool, and whether its context is done
  offered, gap, \* history, per request: the open pools its engine had during
                \* the call, and whether it had none at some moment of it
  lost          \* history: clients of each open pool whose replacement was
                \* not dialled

\* Discovery, updates and releases write the table.
Table == INSTANCE EngineTable WITH SingleWriter <- FALSE

registry == <<table, open, addressed>>
calls    == <<pc, ask, mine, ctxDone>>
history  == <<offered, gap, lost>>
vars     == <<registry, idle, calls, history>>

\* The director, up to the end of Acquire.
Waiting == {"wait", "waitnil"}
InCall  == {"address", "exists", "lookup", "start", "select", "dial"} \cup Waiting

Init ==
  /\ Table!Init
  /\ addressed = FALSE
  /\ idle = [p \in Pools |-> 0]
  /\ pc = [r \in Requests |-> "idle"]
  /\ ask = [r \in Requests |-> Malformed]
  /\ mine = [r \in Requests |-> NoPool]
  /\ ctxDone = [r \in Requests |-> FALSE]
  /\ offered = [r \in Requests |-> {}]
  /\ gap = [r \in Requests |-> FALSE]
  /\ lost = [p \in Pools |-> 0]

Goto(r, l) == pc' = [pc EXCEPT ![r] = l]

\* The goroutine is through with the call, served or refused.
Leave(r) ==
  /\ Goto(r, "idle")
  /\ ask' = [ask EXCEPT ![r] = Malformed]
  /\ mine' = [mine EXCEPT ![r] = NoPool]
  /\ ctxDone' = [ctxDone EXCEPT ![r] = FALSE]

-----------------------------------------------------------------------------
(* The registry                                                            *)

\* InitGrpcPoolByOmp sets the address of the gateway before it enters the pool.
SetAddress ==
  /\ ~addressed
  /\ addressed' = TRUE
  /\ UNCHANGED <<table, open, idle, calls>>

\* Mutant of Enter: the pool is entered first and the address set afterwards.
EnterUnaddressed(n, p) ==
  /\ p \notin {mine[r] : r \in Requests}
  /\ Table!Publish(n, p)
  /\ idle' = [idle EXCEPT ![p] = Capacity]
  /\ UNCHANGED <<addressed, calls>>

\* asrPools[p.name] = p, with a pool newGrpcPool has filled.
Enter(n, p) ==
  /\ addressed
  /\ p \notin {mine[r] : r \in Requests}
  /\ Table!Publish(n, p)
  /\ idle' = [idle EXCEPT ![p] = Capacity]
  /\ UNCHANGED <<addressed, calls>>

\* ReleaseGrpcPool: the pool is closed, then its entry deleted.
ReleasePool(n) ==
  /\ Table!Close(n) \/ Table!Remove(n)
  /\ UNCHANGED <<addressed, idle, calls>>

\* The goroutine of Pool.Close empties the channel.
Drain(p) ==
  /\ p \notin open
  /\ idle[p] > 0
  /\ idle' = [idle EXCEPT ![p] = @ - 1]
  /\ UNCHANGED <<registry, calls>>

-----------------------------------------------------------------------------
(* Callers                                                                 *)

Arrive(r) ==
  /\ pc[r] = "idle"
  /\ Goto(r, "address")
  /\ \E a \in Asked : ask' = [ask EXCEPT ![r] = a]
  /\ UNCHANGED <<registry, idle, mine, ctxDone>>

\* The caller goes away; nothing looks at its context before the select.
Cancel(r) ==
  /\ pc[r] \in Waiting /\ ~ctxDone[r]
  /\ ctxDone' = [ctxDone EXCEPT ![r] = TRUE]
  /\ UNCHANGED <<registry, idle, pc, ask, mine>>

-----------------------------------------------------------------------------
(* GrpcProxyTransport                                                      *)

\* if serverAddr == ASRGatewayProxyAddr, after the tests of the method and the
\* metadata and before the ones of the token, which only the call decides.
CompareAddress(r) ==
  /\ pc[r] = "address"
  /\ IF addressed /\ ask[r] # Malformed
       THEN Goto(r, "exists") /\ UNCHANGED <<ask, mine, ctxDone>>
       ELSE Leave(r)
  /\ UNCHANGED <<registry, idle>>

\* if _, ok := asrPools[engineCode[1]]; !ok
Exists(r) ==
  /\ pc[r] = "exists"
  /\ IF table[ask[r]] # NoPool
       THEN Goto(r, "lookup") /\ UNCHANGED <<ask, mine, ctxDone>>
       ELSE Leave(r)
  /\ UNCHANGED <<registry, idle>>

\* Mutant of Lookup: the load balancer chooses, as it does without OMP.
LookupBalanced(r) ==
  /\ pc[r] = "lookup"
  /\ Goto(r, "start")
  /\ \E p \in open : mine' = [mine EXCEPT ![r] = p]
  /\ UNCHANGED <<registry, idle, ask, ctxDone>>

\* asrPools[engineCode[1]] once more: the entry may be gone or another one.
Lookup(r) ==
  /\ pc[r] = "lookup"
  /\ Goto(r, "start")
  /\ mine' = [mine EXCEPT ![r] = table[ask[r]]]
  /\ UNCHANGED <<registry, idle, ask, ctxDone>>

-----------------------------------------------------------------------------
(* Pool.Acquire under the strict mode, and the return of the client        *)

\* IsClose: a nil pool is closed, too.
AcquireCheck(r) ==
  /\ pc[r] = "start"
  /\ IF mine[r] \in open
       THEN Goto(r, "select") /\ UNCHANGED <<ask, mine, ctxDone>>
       ELSE Leave(r)
  /\ UNCHANGED <<registry, idle>>

AcquireSelect(r) ==
  /\ pc[r] = "select"
  /\ Goto(r, IF mine[r] \in open THEN "wait" ELSE "waitnil")
  /\ UNCHANGED <<registry, idle, ask, mine, ctxDone>>

\* A client is handed out, or destroyed because it was idle too long.
Receive(r) ==
  /\ pc[r] = "wait"
  /\ idle[mine[r]] > 0
  /\ idle' = [idle EXCEPT ![mine[r]] = @ - 1]
  /\ Goto(r, "holding") \/ Goto(r, "dial")
  /\ UNCHANGED <<registry, ask, mine, ctxDone>>

\* The context ends: Acquire returns nil, nil.
WaitDone(r) ==
  /\ pc[r] \in Waiting /\ ctxDone[r]
  /\ Leave(r)
  /\ UNCHANGED <<registry, idle>>

\* createClient, for the pool the idle client was of, closed or not.
Dial(r) ==
  /\ pc[r] = "dial"
  /\ \/ Goto(r, "holding") /\ UNCHANGED <<ask, mine, ctxDone>>
     \/ Leave(r)
  /\ UNCHANGED <<registry, idle>>

\* Mutant of StreamEnds: the test is the wrong way round.
StreamEndsInverted(r) ==
  /\ pc[r] = "holding"
  /\ IF mine[r] \notin open
       THEN Goto(r, "send") /\ UNCHANGED <<ask, mine, ctxDone>>
       ELSE Leave(r)
  /\ UNCHANGED <<registry, idle>>

\* The handler returns; Client.Close destroys the client of a closed pool.
StreamEnds(r) ==
  /\ pc[r] = "holding"
  /\ IF mine[r] \in open
       THEN Goto(r, "send") /\ UNCHANGED <<ask, mine, ctxDone>>
       ELSE Leave(r)
  /\ UNCHANGED <<registry, idle>>

\* client.pool.clients <- client: if the pool was closed meanwhile the client
\* goes into the old channel or is stuck before a nil one.
SendBack(r) ==
  /\ pc[r] = "send"
  /\ \/ idle' = [idle EXCEPT ![mine[r]] = @ + 1]
     \/ mine[r] \notin open /\ UNCHANGED idle
  /\ Leave(r)
  /\ UNCHANGED registry

-----------------------------------------------------------------------------

GrpcProxyTransport(r) == CompareAddress(r) \/ Exists(r) \/ Lookup(r)
Acquire(r)     == AcquireCheck(r) \/ AcquireSelect(r) \/ Receive(r) \/ WaitDone(r) \/ Dial(r)
ClientClose(r) == StreamEnds(r) \/ SendBack(r)

Serve(r)  == GrpcProxyTransport(r) \/ Acquire(r) \/ ClientClose(r)
Registry  == SetAddress \/ \E n \in Scenes : ReleasePool(n) \/ \E p \in Pools : Enter(n, p)

\* What the properties remember of a call, and of a pool, while it lasts.
Remember ==
  LET calling(r) == pc'[r] \in InCall \cup {"holding"} /\ ask'[r] \in Scenes
      pool(r)    == table'[ask'[r]]
      before(r)  == pc[r] # "idle"
      failed(r)  == pc[r] = "dial" /\ pc'[r] = "idle"
  IN  /\ offered' = [r \in Requests |->
           IF calling(r) THEN ({pool(r)} \cap open') \cup (IF before(r) THEN offered[r] ELSE {})
                         ELSE {}]
      /\ gap' = [r \in Requests |->
           pc'[r] \in InCall /\ calling(r) /\ (pool(r) \notin open' \/ (before(r) /\ gap[r]))]
      /\ lost' = [p \in Pools |->
           IF p \in open \cap open'
             THEN lost[p] + Cardinality({r \in Requests : failed(r) /\ mine[r] = p}) ELSE 0]

Next ==
  /\ \/ Registry
     \/ \E p \in Pools : Drain(p)
     \/ \E r \in Requests : Arrive(r) \/ Cancel(r) \/ Serve(r)
  /\ Remember

Spec == Init /\ [][Next]_vars

\* The scheduler runs the goroutines, receivers of a channel are served in order
\* of arrival, dials and streams end.  Nothing makes a caller go away.
FairSpec ==
  /\ Spec
  /\ \A r \in Requests :
       /\ WF_vars((GrpcProxyTransport(r) \/ AcquireCheck(r) \/ AcquireSelect(r)
                     \/ Dial(r) \/ ClientClose(r)) /\ Remember)
       /\ WF_vars(WaitDone(r) /\ Remember)
       /\ SF_vars(Receive(r) /\ Remember)
  /\ \A p \in Pools : WF_vars(Drain(p) /\ Remember)

-----------------------------------------------------------------------------
(* Properties                                                              *)

TypeOK ==
  /\ table \in [Scenes -> Pools \cup {NoPool}]
  /\ open \subseteq Pools
  /\ addressed \in BOOLEAN
  /\ idle \in [Pools -> Nat]
  /\ pc \in [Requests -> InCall \cup {"idle", "holding", "send"}]
  /\ ask \in [Requests -> Scenes \cup {Malformed}]
  /\ mine \in [Requests -> Pools \cup {NoPool}]
  /\ \A r \in Requests : pc[r] \in {"wait", "dial", "holding", "send"} => mine[r] \in Pools
  /\ ctxDone \in [Requests -> BOOLEAN]
  /\ offered \in [Requests -> SUBSET Pools]
  /\ gap \in [Requests -> BOOLEAN]
  /\ lost \in [Pools -> Nat]

\* A well-formed call is refused for a reason only: its engine had no open
\* pool at some moment of the call, its caller went away, or a dial failed.
\* The address read before the first pool, the entry that is gone or exchanged
\* at the second lookup and the pool closed under Acquire refuse no other.
RefusalJustified ==
  [][\A r \in Requests :
       pc[r] \in InCall /\ pc'[r] = "idle" /\ ask[r] \in Scenes =>
         gap[r] \/ ctxDone[r] \/ pc[r] = "dial"]_vars

\* A stream runs over a client of a pool that was the open pool of its own
\* engine at some moment of its call, however the table changed between the
\* two lookups and Acquire.
RightEngine ==
  \A r \in Requests : pc[r] = "holding" => mine[r] \in offered[r]

\* A call that waits at a pool gets a client of it, unless the pool is released
\* meanwhile or failed dials have cost it all it had: whoever takes a client
\* gives it back or replaces it.
WaiterServedOrReleased ==
  \A r \in Requests :
    pc[r] = "wait" ~> pc[r] # "wait" \/ mine[r] \notin open \/ lost[mine[r]] = Capacity

=============================================================================
