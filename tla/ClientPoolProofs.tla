-------------------------- MODULE ClientPoolProofs --------------------------
(***************************************************************************)
(* Theorems about ClientPool for every set of slots, every set of client   *)
(* identities, every capacity and every configuration of the pool.         *)
(*                                                                         *)
(* Two separate inductions: who holds which client (ownership), and how    *)
(* many of the pool's slots are accounted for (capacity).  Both rest on    *)
(* the typing of the state, and on the fact that the branch of Acquire     *)
(* that lets a loose pool grow is never taken.                             *)
(* Together they show that the pool implements ConnLease.                  *)
(***************************************************************************)
EXTENDS ClientPool, FiniteSetTheorems, SequenceTheorems, TLAPS

-----------------------------------------------------------------------------
(* Lemmas about the channel.                                               *)

Elements(s) == {s[i] : i \in 1..Len(s)}
Injective(s) == \A i, j \in 1..Len(s) : i # j => s[i] # s[j]

\* Receiving removes the oldest message and no other one.
LEMMA ReceiveFacts ==
  ASSUME NEW S, NEW s \in Seq(S), s # <<>>, Injective(s)
  PROVE  /\ Tail(s) \in Seq(S)
         /\ Len(Tail(s)) = Len(s) - 1
         /\ Head(s) \in S
         /\ Head(s) \in Elements(s)
         /\ Injective(Tail(s))
         /\ Elements(Tail(s)) = Elements(s) \ {Head(s)}
<1>1. /\ Tail(s) \in Seq(S)
      /\ Len(Tail(s)) = Len(s) - 1
      /\ \A i \in 1..Len(Tail(s)) : Tail(s)[i] = s[i + 1]
  BY HeadTailProperties
<1>2. Len(s) \in Nat \ {0}
  BY EmptySeq
<1>3. Head(s) = s[1] /\ Head(s) \in S
  BY HeadTailProperties
<1>4. Injective(Tail(s))
  BY <1>1, <1>2 DEF Injective
<1>5. Elements(Tail(s)) = Elements(s) \ {Head(s)}
  <2>1. ASSUME NEW x \in Elements(Tail(s))
        PROVE  x \in Elements(s) \ {Head(s)}
    BY <1>1, <1>2, <1>3 DEF Elements, Injective
  <2>2. ASSUME NEW x \in Elements(s) \ {Head(s)}
        PROVE  x \in Elements(Tail(s))
    <3>1. PICK i \in 1..Len(s) : x = s[i]
      BY DEF Elements
    <3>2. i - 1 \in 1..Len(Tail(s)) /\ Tail(s)[i - 1] = s[(i - 1) + 1]
      BY <3>1, <1>1, <1>2, <1>3
    <3>3. QED
      BY <3>1, <3>2 DEF Elements
  <2>3. QED
    BY <2>1, <2>2
<1>6. Head(s) \in Elements(s)
  <2>1. 1 \in 1..Len(s)
    BY <1>2
  <2>2. QED
    BY <2>1, <1>3 DEF Elements
<1>7. QED
  BY <1>1, <1>3, <1>4, <1>5, <1>6

\* Sending adds the message that is sent and keeps the others.
LEMMA SendFacts ==
  ASSUME NEW S, NEW s \in Seq(S), NEW c \in S, c \notin Elements(s), Injective(s)
  PROVE  /\ Append(s, c) \in Seq(S)
         /\ Len(Append(s, c)) = Len(s) + 1
         /\ Injective(Append(s, c))
         /\ Elements(Append(s, c)) = Elements(s) \cup {c}
<1>1. /\ Append(s, c) \in Seq(S)
      /\ Len(Append(s, c)) = Len(s) + 1
      /\ \A i \in 1..Len(s) : Append(s, c)[i] = s[i]
      /\ Append(s, c)[Len(s) + 1] = c
      /\ Len(s) \in Nat
  BY AppendProperties, LenProperties
<1>2. Injective(Append(s, c))
  BY <1>1 DEF Injective, Elements
<1>3. Elements(Append(s, c)) = Elements(s) \cup {c}
  <2>1. ASSUME NEW x \in Elements(Append(s, c))
        PROVE  x \in Elements(s) \cup {c}
    BY <1>1 DEF Elements
  <2>2. ASSUME NEW x \in Elements(s) \cup {c}
        PROVE  x \in Elements(Append(s, c))
    <3>1. CASE x = c
      <4>1. Len(s) + 1 \in 1..Len(Append(s, c))
        BY <1>1
      <4>2. QED
        BY <3>1, <4>1, <1>1 DEF Elements
    <3>2. CASE x \in Elements(s)
      <4>1. PICK i \in 1..Len(s) : x = s[i]
        BY <3>2 DEF Elements
      <4>2. i \in 1..Len(Append(s, c)) /\ Append(s, c)[i] = x
        BY <4>1, <1>1
      <4>3. QED
        BY <4>2 DEF Elements
    <3>3. QED
      BY <3>1, <3>2
  <2>3. QED
    BY <2>1, <2>2
<1>4. QED
  BY <1>1, <1>2, <1>3

-----------------------------------------------------------------------------
(* Typing.                                                                 *)

\* initPool cuts init down to size, so the pool starts with room to spare.
LEMMA InitCountBound == InitCount \in 0..Capacity
  BY PoolAssumption DEF InitCount

\* GetConnCurrent() > capacity is false of every pool, open or closed: a pool
\* in the loose mode never grows.
LEMMA NeverGrows ==
  ASSUME TypeOK
  PROVE  ~LooseGrows
<1>1. Len(clients) \in Nat
  BY LenProperties DEF TypeOK
<1>2. Size \in Nat
  BY <1>1 DEF Size
<1>3. QED
  BY <1>2, PoolAssumption DEF LooseGrows, ConnCurrent

\* Program points at which a goroutine has a client in its hands.
Holding == Carrying \ {"dial"}

\* A goroutine owns a client exactly at those points: typing alone is not
\* inductive, since Client.Close sends whatever its goroutine owns.
HoldersOwn == \A r \in Requests : client[r] # NoClient <=> pc[r] \in Holding

TypeInv == TypeOK /\ HoldersOwn

\* The typing of the state is inductive: channel, owners and program points
\* keep their types, and the channel its bound, whatever step is taken.
LEMMA TypeStep == TypeInv /\ [Next]_vars => TypeInv'
<1> SUFFICES ASSUME TypeInv, [Next]_vars
             PROVE  TypeInv'
  OBVIOUS
<1> USE PoolAssumption DEF TypeInv, TypeOK, HoldersOwn, Holding, Carrying, PC, Goto
<1>1. ASSUME NEW r \in Requests, NewRequest(r)
      PROVE  TypeInv'
  BY <1>1 DEF NewRequest
<1>2. ASSUME NEW r \in Requests, Cancel(r)
      PROVE  TypeInv'
  BY <1>2 DEF Cancel
<1>3. ASSUME NEW r \in Requests, Acquire(r)
      PROVE  TypeInv'
  <2>1. CASE AcquireCheck(r)
    BY <2>1 DEF AcquireCheck
  <2>2. CASE AcquireSelect(r)
    BY <2>2 DEF AcquireSelect
  <2>3. CASE AcquireRecv(r)
    <3>1. /\ Tail(clients) \in Seq(Clients)
          /\ Len(Tail(clients)) <= Capacity
          /\ Head(clients) \in Clients
      BY <2>3, HeadTailProperties, EmptySeq, PoolAssumption DEF AcquireRecv
    <3>2. QED
      BY <2>3, <3>1 DEF AcquireRecv
  <2>4. CASE AcquireDoneStrict(r)
    BY <2>4 DEF AcquireDoneStrict
  <2>5. CASE AcquireDoneLoose(r)
    BY <2>5, NeverGrows DEF AcquireDoneLoose
  <2>6. CASE AcquireDoneOther(r)
    BY <2>6 DEF AcquireDoneOther
  <2>7. CASE LooseRecv(r)
    <3>1. /\ Tail(clients) \in Seq(Clients)
          /\ Len(Tail(clients)) <= Capacity
          /\ Head(clients) \in Clients
      BY <2>7, HeadTailProperties, EmptySeq, PoolAssumption DEF LooseRecv
    <3>2. QED
      BY <2>7, <3>1 DEF LooseRecv
  <2>8. CASE Dial(r)
    BY <2>8 DEF Dial, Unused
  <2>9. CASE DialFails(r)
    BY <2>9 DEF DialFails
  <2>10. QED
    BY <1>3, <2>1, <2>2, <2>3, <2>4, <2>5, <2>6, <2>7, <2>8, <2>9 DEF Acquire
<1>4. ASSUME NEW r \in Requests, ClientClose(r)
      PROVE  TypeInv'
  <2>1. CASE Release(r)
    BY <2>1 DEF Release
  <2>2. CASE CloseCheck(r)
    BY <2>2 DEF CloseCheck
  <2>3. CASE CloseEval(r)
    BY <2>3 DEF CloseEval
  <2>4. CASE CloseSend(r)
    <3>1. client[r] \in Clients
      BY <2>4 DEF CloseSend
    <3>2. /\ Append(clients, client[r]) \in Seq(Clients)
          /\ Len(Append(clients, client[r])) <= Capacity
      BY <2>4, <3>1, AppendProperties, LenProperties DEF CloseSend
    <3>3. QED
      BY <2>4, <3>2 DEF CloseSend
  <2>5. QED
    BY <1>4, <2>1, <2>2, <2>3, <2>4 DEF ClientClose
<1>5. CASE PoolClose
  BY <1>5 DEF PoolClose
<1>6. CASE DrainLoop
  BY <1>6 DEF DrainLoop
<1>7. CASE DrainRecv
  <2>1. /\ Tail(clients) \in Seq(Clients)
        /\ Len(Tail(clients)) <= Capacity
    BY <1>7, HeadTailProperties, EmptySeq, PoolAssumption DEF DrainRecv
  <2>2. QED
    BY <1>7, <2>1 DEF DrainRecv
<1>8. CASE UNCHANGED vars
  BY <1>8 DEF vars
<1>9. QED
  BY <1>1, <1>2, <1>3, <1>4, <1>5, <1>6, <1>7, <1>8 DEF Next

LEMMA TypeInit == Init => TypeInv
<1> SUFFICES ASSUME Init
             PROVE  TypeInv
  OBVIOUS
<1>1. PICK s \in [1..InitCount -> Clients] :
        /\ clients = s
        /\ conns = {s[i] : i \in 1..InitCount}
  BY DEF Init
<1>2. clients \in Seq(Clients) /\ Len(clients) = InitCount
  BY <1>1, InitCountBound
<1>3. conns \in SUBSET Clients
  BY <1>1
<1>4. TypeOK
  <2>1. Len(clients) <= Capacity
    BY <1>2, InitCountBound, PoolAssumption
  <2>2. QED
    BY <1>2, <1>3, <2>1 DEF Init, TypeOK, PC
<1>5. HoldersOwn
  BY DEF Init, HoldersOwn, Holding, Carrying
<1>6. QED
  BY <1>4, <1>5 DEF TypeInv

\* Type correctness of every pool: in particular the channel never holds more
\* than its buffer size, although three program points send to it.
THEOREM TypeCorrect == Spec => []TypeOK
<1>1. TypeInv => TypeOK
  BY DEF TypeInv
<1>2. QED
  BY <1>1, TypeInit, TypeStep, PTL DEF Spec

-----------------------------------------------------------------------------
(* Ownership: a client is in one pair of hands, and it is open exactly     *)
(* while it is in somebody's.                                              *)

Ownership == ExclusiveOwnership /\ ConnsAccounted

\* A goroutine without a client takes one.
LEMMA OwnedAdd ==
  ASSUME TypeInv, NEW r \in Requests, client[r] = NoClient, NEW c \in Clients,
         client' = [client EXCEPT ![r] = c]
  PROVE  Owned' = Owned \cup {c}
<1>1. \A q \in Requests : client'[q] = IF q = r THEN c ELSE client[q]
  BY DEF TypeInv, TypeOK
<1>2. c # NoClient
  BY PoolAssumption
<1>3. QED
  BY <1>1, <1>2 DEF Owned

\* A goroutine lets its client go, and nobody else owns that client.
LEMMA OwnedDrop ==
  ASSUME TypeInv, ExclusiveOwnership, NEW r \in Requests, client[r] # NoClient,
         client' = [client EXCEPT ![r] = NoClient]
  PROVE  Owned' = Owned \ {client[r]}
<1>1. \A q \in Requests : client'[q] = IF q = r THEN NoClient ELSE client[q]
  BY DEF TypeInv, TypeOK
<1>2. QED
  BY <1>1 DEF Owned, ExclusiveOwnership

\* A goroutine receives the oldest client of the channel and keeps it.
LEMMA TakeStep ==
  ASSUME TypeInv, Ownership, NEW r \in Requests, client[r] = NoClient,
         clients # <<>>, clients' = Tail(clients),
         client' = [client EXCEPT ![r] = Head(clients)], UNCHANGED conns
  PROVE  Ownership'
<1>1. /\ Injective(clients')
      /\ Head(clients) \in Clients
      /\ Head(clients) \in Queued
      /\ Queued' = Queued \ {Head(clients)}
  <2>1. clients \in Seq(Clients) /\ Injective(clients)
    BY DEF Ownership, ExclusiveOwnership, Injective, TypeInv, TypeOK
  <2>2. Queued = Elements(clients) /\ Queued' = Elements(Tail(clients))
    BY DEF Queued, Elements
  <2>3. QED
    BY <2>1, <2>2, ReceiveFacts
<1>2. Owned' = Owned \cup {Head(clients)}
  BY <1>1, OwnedAdd
<1>3. Head(clients) \notin Owned
  BY <1>1 DEF Ownership, ExclusiveOwnership
<1>4. \A q \in Requests : client'[q] = IF q = r THEN Head(clients) ELSE client[q]
  BY DEF TypeInv, TypeOK
<1>5. ASSUME NEW p \in Requests, NEW q \in Requests, p # q, client'[p] # NoClient
      PROVE  client'[p] # client'[q]
  BY <1>3, <1>4, <1>5, <1>1, PoolAssumption DEF Ownership, ExclusiveOwnership, Owned
<1>6. Owned' \cap Queued' = {}
  BY <1>1, <1>2, <1>3 DEF Ownership, ExclusiveOwnership
<1>7. conns' = Queued' \cup Owned'
  BY <1>1, <1>2, <1>3 DEF Ownership, ConnsAccounted
<1>8. QED
  BY <1>1, <1>5, <1>6, <1>7 DEF Ownership, ExclusiveOwnership, ConnsAccounted, Injective

\* Somebody receives the oldest client of the channel and destroys it.
LEMMA DestroyStep ==
  ASSUME TypeInv, Ownership, clients # <<>>, clients' = Tail(clients),
         conns' = conns \ {Head(clients)}, UNCHANGED client
  PROVE  Ownership'
<1>1. /\ Injective(clients')
      /\ Head(clients) \in Queued
      /\ Queued' = Queued \ {Head(clients)}
  BY ReceiveFacts DEF Ownership, ExclusiveOwnership, Injective, Elements, Queued, TypeInv, TypeOK
<1>2. Owned' = Owned
  BY DEF Owned
<1>3. QED
  BY <1>1, <1>2 DEF Ownership, ExclusiveOwnership, ConnsAccounted, Injective

\* A goroutine that has no client dials one.
LEMMA DialStep ==
  ASSUME TypeInv, Ownership, NEW r \in Requests, client[r] = NoClient,
         NEW c \in Unused, conns' = conns \cup {c},
         client' = [client EXCEPT ![r] = c], UNCHANGED clients
  PROVE  Ownership'
<1>1. Queued' = Queued
  BY DEF Queued
<1>2. c \in Clients /\ c \notin Queued /\ c \notin Owned
  BY DEF Unused, Ownership, ConnsAccounted
<1>3. Owned' = Owned \cup {c}
  BY <1>2, OwnedAdd
<1>4. \A q \in Requests : client'[q] = IF q = r THEN c ELSE client[q]
  BY DEF TypeInv, TypeOK
<1>5. ASSUME NEW p \in Requests, NEW q \in Requests, p # q, client'[p] # NoClient
      PROVE  client'[p] # client'[q]
  BY <1>2, <1>4, <1>5, PoolAssumption DEF Ownership, ExclusiveOwnership, Owned
<1>6. Owned' \cap Queued' = {}
  BY <1>1, <1>2, <1>3 DEF Ownership, ExclusiveOwnership
<1>7. conns' = Queued' \cup Owned'
  BY <1>1, <1>3 DEF Ownership, ConnsAccounted
<1>8. QED
  BY <1>5, <1>6, <1>7 DEF Ownership, ExclusiveOwnership, ConnsAccounted

\* A goroutine destroys the client it owns.
LEMMA DropStep ==
  ASSUME TypeInv, Ownership, NEW r \in Requests, client[r] # NoClient,
         conns' = conns \ {client[r]},
         client' = [client EXCEPT ![r] = NoClient], UNCHANGED clients
  PROVE  Ownership'
<1>1. Queued' = Queued
  BY DEF Queued
<1>2. client[r] \in Owned
  BY DEF Owned
<1>3. Owned' = Owned \ {client[r]}
  BY OwnedDrop DEF Ownership
<1>4. \A q \in Requests : client'[q] = IF q = r THEN NoClient ELSE client[q]
  BY DEF TypeInv, TypeOK
<1>5. ASSUME NEW p \in Requests, NEW q \in Requests, p # q, client'[p] # NoClient
      PROVE  client'[p] # client'[q]
  BY <1>4, <1>5 DEF Ownership, ExclusiveOwnership
<1>6. Owned' \cap Queued' = {}
  BY <1>1, <1>3 DEF Ownership, ExclusiveOwnership
<1>7. conns' = Queued' \cup Owned'
  BY <1>1, <1>2, <1>3 DEF Ownership, ConnsAccounted, ExclusiveOwnership
<1>8. QED
  BY <1>5, <1>6, <1>7 DEF Ownership, ExclusiveOwnership, ConnsAccounted

\* A goroutine sends the client it owns to the channel.
LEMMA GiveStep ==
  ASSUME TypeInv, Ownership, NEW r \in Requests, client[r] # NoClient,
         clients' = Append(clients, client[r]),
         client' = [client EXCEPT ![r] = NoClient], UNCHANGED conns
  PROVE  Ownership'
<1>1. client[r] \in Clients /\ client[r] \in Owned
  BY DEF TypeInv, TypeOK, Owned
<1>2. client[r] \notin Queued
  BY <1>1 DEF Ownership, ExclusiveOwnership
<1>3. /\ Injective(clients')
      /\ Queued' = Queued \cup {client[r]}
  BY <1>1, <1>2, SendFacts
  DEF Ownership, ExclusiveOwnership, Injective, Elements, Queued, TypeInv, TypeOK
<1>4. Owned' = Owned \ {client[r]}
  BY OwnedDrop DEF Ownership
<1>5. \A q \in Requests : client'[q] = IF q = r THEN NoClient ELSE client[q]
  BY DEF TypeInv, TypeOK
<1>6. ASSUME NEW p \in Requests, NEW q \in Requests, p # q, client'[p] # NoClient
      PROVE  client'[p] # client'[q]
  BY <1>5, <1>6 DEF Ownership, ExclusiveOwnership
<1>7. Owned' \cap Queued' = {}
  BY <1>3, <1>4, <1>2 DEF Ownership, ExclusiveOwnership
<1>8. conns' = Queued' \cup Owned'
  BY <1>1, <1>3, <1>4 DEF Ownership, ConnsAccounted
<1>9. QED
  BY <1>3, <1>6, <1>7, <1>8 DEF Ownership, ExclusiveOwnership, ConnsAccounted, Injective

\* A step that moves no client.
LEMMA StillStep ==
  ASSUME Ownership, UNCHANGED <<clients, conns, client>>
  PROVE  Ownership'
BY DEF Ownership, ExclusiveOwnership, ConnsAccounted, Queued, Owned

LEMMA OwnershipStep == TypeInv /\ Ownership /\ [Next]_vars => Ownership'
<1> SUFFICES ASSUME TypeInv, Ownership, [Next]_vars
             PROVE  Ownership'
  OBVIOUS
<1>1. ASSUME NEW r \in Requests, NewRequest(r)
      PROVE  Ownership'
  BY <1>1, StillStep DEF NewRequest
<1>2. ASSUME NEW r \in Requests, Cancel(r)
      PROVE  Ownership'
  BY <1>2, StillStep DEF Cancel
<1>3. ASSUME NEW r \in Requests, Acquire(r)
      PROVE  Ownership'
  <2>1. CASE AcquireCheck(r)
    BY <2>1, StillStep DEF AcquireCheck
  <2>2. CASE AcquireSelect(r)
    BY <2>2, StillStep DEF AcquireSelect
  <2>3. CASE AcquireRecv(r)
    <3>1. client[r] = NoClient /\ clients # <<>> /\ clients' = Tail(clients)
      BY <2>3 DEF AcquireRecv, TypeInv, HoldersOwn, Holding, Carrying
    <3>2. \/ client' = [client EXCEPT ![r] = Head(clients)] /\ UNCHANGED conns
          \/ conns' = conns \ {Head(clients)} /\ UNCHANGED client
      BY <2>3 DEF AcquireRecv
    <3>3. QED
      BY <3>1, <3>2, TakeStep, DestroyStep
  <2>4. CASE AcquireDoneStrict(r)
    BY <2>4, StillStep DEF AcquireDoneStrict
  <2>5. CASE AcquireDoneLoose(r)
    BY <2>5, StillStep, NeverGrows DEF AcquireDoneLoose, TypeInv
  <2>6. CASE AcquireDoneOther(r)
    BY <2>6, StillStep DEF AcquireDoneOther
  <2>7. CASE LooseRecv(r)
    <3>1. client[r] = NoClient
      BY <2>7 DEF LooseRecv, TypeInv, HoldersOwn, Holding, Carrying
    <3>2. QED
      BY <2>7, <3>1, TakeStep DEF LooseRecv
  <2>8. CASE Dial(r)
    <3>1. client[r] = NoClient
      BY <2>8 DEF Dial, TypeInv, HoldersOwn, Holding, Carrying
    <3>2. QED
      BY <2>8, <3>1, DialStep DEF Dial
  <2>9. CASE DialFails(r)
    BY <2>9, StillStep DEF DialFails
  <2>10. QED
    BY <1>3, <2>1, <2>2, <2>3, <2>4, <2>5, <2>6, <2>7, <2>8, <2>9 DEF Acquire
<1>4. ASSUME NEW r \in Requests, ClientClose(r)
      PROVE  Ownership'
  <2>1. CASE Release(r)
    BY <2>1, StillStep DEF Release
  <2>2. CASE CloseCheck(r)
    <3>1. client[r] # NoClient
      BY <2>2 DEF CloseCheck, TypeInv, HoldersOwn, Holding, Carrying
    <3>2. CASE closed
      BY <2>2, <3>1, <3>2, DropStep DEF CloseCheck
    <3>3. CASE ~closed
      BY <2>2, <3>3, StillStep DEF CloseCheck
    <3>4. QED
      BY <3>2, <3>3
  <2>3. CASE CloseEval(r)
    BY <2>3, StillStep DEF CloseEval
  <2>4. CASE CloseSend(r)
    <3>1. client[r] # NoClient
      BY <2>4 DEF CloseSend, TypeInv, HoldersOwn, Holding, Carrying
    <3>2. QED
      BY <2>4, <3>1, GiveStep DEF CloseSend
  <2>5. QED
    BY <1>4, <2>1, <2>2, <2>3, <2>4 DEF ClientClose
<1>5. CASE PoolClose
  BY <1>5, StillStep DEF PoolClose
<1>6. CASE DrainLoop
  BY <1>6, StillStep DEF DrainLoop
<1>7. CASE DrainRecv
  BY <1>7, DestroyStep DEF DrainRecv
<1>8. CASE UNCHANGED vars
  BY <1>8, StillStep DEF vars
<1>9. QED
  BY <1>1, <1>2, <1>3, <1>4, <1>5, <1>6, <1>7, <1>8 DEF Next

LEMMA OwnershipInit == Init => Ownership
<1> SUFFICES ASSUME Init
             PROVE  Ownership
  OBVIOUS
<1>1. PICK s \in [1..InitCount -> Clients] :
        /\ \A i, j \in 1..InitCount : i # j => s[i] # s[j]
        /\ clients = s
        /\ conns = {s[i] : i \in 1..InitCount}
  BY DEF Init
<1>2. Len(clients) = InitCount
  BY <1>1, InitCountBound
<1>3. Owned = {}
  BY DEF Init, Owned
<1>4. \A r \in Requests : client[r] = NoClient
  BY DEF Init
<1>5. ExclusiveOwnership
  BY <1>1, <1>2, <1>3, <1>4 DEF ExclusiveOwnership
<1>6. ConnsAccounted
  BY <1>1, <1>2, <1>3 DEF ConnsAccounted, Queued
<1>7. QED
  BY <1>5, <1>6 DEF Ownership

\* A connection is never in two pairs of hands: not buffered twice, not owned
\* by two goroutines, not owned and available, under any interleaving of
\* Acquire, Client.Close and Pool.Close.
THEOREM ConnectionsExclusive == Spec => []ExclusiveOwnership
<1>1. Ownership => ExclusiveOwnership
  BY DEF Ownership
<1>2. QED
  BY <1>1, TypeInit, TypeStep, OwnershipInit, OwnershipStep, PTL DEF Spec

\* Exactly the open connections are in somebody's hands: Acquire never hands
\* out a destroyed one, and none is forgotten without being destroyed.
THEOREM ConnectionsAccounted == Spec => []ConnsAccounted
<1>1. Ownership => ConnsAccounted
  BY DEF Ownership
<1>2. QED
  BY <1>1, TypeInit, TypeStep, OwnershipInit, OwnershipStep, PTL DEF Spec

-----------------------------------------------------------------------------
(* Capacity: buffered clients and goroutines that account for a slot.      *)

LEMMA CarriersFinite == IsFiniteSet(Carriers) /\ Cardinality(Carriers) \in Nat
<1>1. IsFiniteSet(Carriers)
  BY PoolAssumption, FS_Subset DEF Carriers
<1>2. QED
  BY <1>1, FS_CardinalityType

\* A goroutine moves between program points: it starts to account for a slot,
\* stops, or does neither.
LEMMA CarriersMove ==
  ASSUME TypeInv, NEW r \in Requests, NEW l \in PC, Goto(r, l)
  PROVE  Cardinality(Carriers') =
           Cardinality(Carriers) + (IF l \in Carrying THEN 1 ELSE 0)
                                 - (IF pc[r] \in Carrying THEN 1 ELSE 0)
<1>1. \A q \in Requests : pc'[q] = IF q = r THEN l ELSE pc[q]
  BY DEF Goto, TypeInv, TypeOK
<1>2. IsFiniteSet(Carriers) /\ Cardinality(Carriers) \in Nat
  BY CarriersFinite
<1>3. CASE l \in Carrying
  <2>1. Carriers' = Carriers \cup {r}
    BY <1>1, <1>3 DEF Carriers
  <2>2. r \in Carriers <=> pc[r] \in Carrying
    BY DEF Carriers
  <2>3. Cardinality(Carriers') =
          IF r \in Carriers THEN Cardinality(Carriers) ELSE Cardinality(Carriers) + 1
    BY <1>2, <2>1, FS_AddElement
  <2>4. QED
    BY <1>2, <1>3, <2>2, <2>3
<1>4. CASE l \notin Carrying
  <2>1. Carriers' = Carriers \ {r}
    BY <1>1, <1>4 DEF Carriers
  <2>2. r \in Carriers <=> pc[r] \in Carrying
    BY DEF Carriers
  <2>3. Cardinality(Carriers') =
          IF r \in Carriers THEN Cardinality(Carriers) - 1 ELSE Cardinality(Carriers)
    BY <1>2, <2>1, FS_RemoveElement
  <2>4. QED
    BY <1>2, <1>4, <2>2, <2>3
<1>5. QED
  BY <1>3, <1>4

\* The mode of a pool is set once.
LEMMA ModeKept == [Next]_vars => mode' = mode
<1> SUFFICES ASSUME [Next]_vars
             PROVE  mode' = mode
  OBVIOUS
<1>1. ASSUME NEW r \in Requests, Acquire(r)
      PROVE  mode' = mode
  BY <1>1 DEF Acquire, AcquireCheck, AcquireSelect, AcquireRecv, AcquireDoneStrict,
    AcquireDoneLoose, AcquireDoneOther, LooseRecv, Dial, DialFails
<1>2. ASSUME NEW r \in Requests, NewRequest(r) \/ Cancel(r) \/ ClientClose(r)
      PROVE  mode' = mode
  BY <1>2 DEF NewRequest, Cancel, ClientClose, Release, CloseCheck, CloseEval, CloseSend
<1>3. CASE PoolClose \/ DrainLoop \/ DrainRecv
  BY <1>3 DEF PoolClose, DrainLoop, DrainRecv
<1>4. QED
  BY <1>1, <1>2, <1>3 DEF Next, vars

\* One message less in the channel, at most one carrier more.
LEMMA SlotsStep == TypeInv /\ SlotsBounded /\ [Next]_vars => SlotsBounded'
<1> SUFFICES ASSUME TypeInv, SlotsBounded, [Next]_vars,
                    mode' \in {STRICT_MODE, LOOSE_MODE}
             PROVE  (Slots <= Capacity)'
  BY DEF SlotsBounded
<1>0. mode \in {STRICT_MODE, LOOSE_MODE}
  BY ModeKept
<1> DEFINE carrying == Cardinality(Carriers)
<1>a. /\ Len(clients) \in Nat
      /\ carrying \in Nat
      /\ Len(clients) + carrying <= Capacity
      /\ Capacity \in Nat
  BY <1>0, CarriersFinite, LenProperties, PoolAssumption
  DEF SlotsBounded, Slots, TypeInv, TypeOK
<1>b. SUFFICES Len(clients') + carrying' <= Capacity
  BY DEF Slots
<1>c. ASSUME UNCHANGED clients, UNCHANGED pc
      PROVE  Len(clients') + carrying' <= Capacity
  BY <1>a, <1>c DEF Carriers
<1>d. ASSUME UNCHANGED clients, NEW r \in Requests, NEW l \in PC, Goto(r, l),
             l \notin Carrying \/ pc[r] \in Carrying
      PROVE  Len(clients') + carrying' <= Capacity
  BY <1>a, <1>d, CarriersMove
<1>e. ASSUME clients # <<>>, clients' = Tail(clients)
      PROVE  Len(clients') = Len(clients) - 1
  BY <1>e, HeadTailProperties DEF TypeInv, TypeOK
<1> HIDE DEF carrying
<1> USE DEF PC, Carrying
<1>1. ASSUME NEW r \in Requests, NewRequest(r)
      PROVE  Len(clients') + carrying' <= Capacity
  BY <1>1, <1>d DEF NewRequest
<1>2. ASSUME NEW r \in Requests, Cancel(r)
      PROVE  Len(clients') + carrying' <= Capacity
  BY <1>2, <1>c DEF Cancel
<1>3. ASSUME NEW r \in Requests, Acquire(r)
      PROVE  Len(clients') + carrying' <= Capacity
  <2>1. CASE AcquireCheck(r)
    BY <2>1, <1>d DEF AcquireCheck
  <2>2. CASE AcquireSelect(r)
    BY <2>2, <1>d DEF AcquireSelect
  <2>3. CASE AcquireRecv(r)
    <3>1. Len(clients') = Len(clients) - 1 /\ pc[r] = "wait"
      BY <2>3, <1>e DEF AcquireRecv
    <3>2. Goto(r, "holding") \/ Goto(r, "dial")
      BY <2>3 DEF AcquireRecv
    <3>3. carrying' = carrying + 1
      BY <3>1, <3>2, <1>a, CarriersMove DEF carrying
    <3>4. QED
      BY <3>1, <3>3, <1>a
  <2>4. CASE AcquireDoneStrict(r)
    BY <2>4, <1>d DEF AcquireDoneStrict
  <2>5. CASE AcquireDoneLoose(r)
    BY <2>5, <1>d, NeverGrows DEF AcquireDoneLoose, TypeInv
  <2>6. CASE AcquireDoneOther(r)
    BY <2>6, <1>0 DEF AcquireDoneOther
  <2>7. CASE LooseRecv(r)
    <3>1. Len(clients') = Len(clients) - 1 /\ pc[r] = "loosewait" /\ Goto(r, "holding")
      BY <2>7, <1>e DEF LooseRecv
    <3>2. carrying' = carrying + 1
      BY <3>1, <1>a, CarriersMove DEF carrying
    <3>3. QED
      BY <3>1, <3>2, <1>a
  <2>8. CASE Dial(r)
    BY <2>8, <1>d DEF Dial
  <2>9. CASE DialFails(r)
    BY <2>9, <1>d DEF DialFails
  <2>10. QED
    BY <1>3, <2>1, <2>2, <2>3, <2>4, <2>5, <2>6, <2>7, <2>8, <2>9 DEF Acquire
<1>4. ASSUME NEW r \in Requests, ClientClose(r)
      PROVE  Len(clients') + carrying' <= Capacity
  <2>1. CASE Release(r)
    BY <2>1, <1>d DEF Release
  <2>2. CASE CloseCheck(r)
    BY <2>2, <1>d DEF CloseCheck
  <2>3. CASE CloseEval(r)
    BY <2>3, <1>d DEF CloseEval
  <2>4. CASE CloseSend(r)
    <3>1. client[r] \in Clients
      BY <2>4 DEF CloseSend, TypeInv, TypeOK, HoldersOwn, Holding
    <3>2. Len(clients') = Len(clients) + 1 /\ pc[r] = "send" /\ Goto(r, "idle")
      BY <2>4, <3>1, AppendProperties DEF CloseSend, TypeInv, TypeOK
    <3>3. carrying' = carrying - 1
      BY <3>2, <1>a, CarriersMove DEF carrying
    <3>4. QED
      BY <3>2, <3>3, <1>a
  <2>5. QED
    BY <1>4, <2>1, <2>2, <2>3, <2>4 DEF ClientClose
<1>5. CASE PoolClose
  BY <1>5, <1>c DEF PoolClose
<1>6. CASE DrainLoop
  BY <1>6, <1>c DEF DrainLoop
<1>7. CASE DrainRecv
  <2>1. Len(clients') = Len(clients) - 1 /\ UNCHANGED pc
    BY <1>7, <1>e DEF DrainRecv
  <2>2. carrying' = carrying
    BY <2>1 DEF carrying, Carriers
  <2>3. QED
    BY <2>1, <2>2, <1>a
<1>8. CASE UNCHANGED vars
  BY <1>8, <1>c DEF vars
<1>9. QED
  BY <1>1, <1>2, <1>3, <1>4, <1>5, <1>6, <1>7, <1>8 DEF Next

LEMMA SlotsInit == Init => SlotsBounded
<1> SUFFICES ASSUME Init
             PROVE  Slots <= Capacity
  BY DEF SlotsBounded
<1>1. PICK s \in [1..InitCount -> Clients] : clients = s
  BY DEF Init
<1>2. Len(clients) = InitCount
  BY <1>1, InitCountBound
<1>3. Carriers = {}
  BY DEF Init, Carriers, Carrying
<1>4. Cardinality(Carriers) = 0
  BY <1>3, FS_EmptySet
<1>5. QED
  BY <1>2, <1>4, InitCountBound, PoolAssumption DEF Slots

\* The capacity the pool was created with bounds what is buffered, in use, on
\* its way back and being replaced, in the strict and in the loose mode.
THEOREM CapacityKept == Spec => []SlotsBounded
<1>1. QED
  BY TypeInit, TypeStep, SlotsInit, SlotsStep, PTL DEF Spec

\* The goroutine of Client.Close that is about to send to the channel finds
\* room in it, in the strict and in the loose mode.
THEOREM ReturnNeverBlocks == Spec => []ReturnHasRoom
<1>1. TypeInv /\ SlotsBounded => ReturnHasRoom
  <2> SUFFICES ASSUME TypeInv, SlotsBounded, mode \in {STRICT_MODE, LOOSE_MODE},
                      NEW r \in Requests, pc[r] = "send"
               PROVE  Len(clients) < Capacity
    BY DEF ReturnHasRoom
  <2>1. Carriers # {}
    BY DEF Carriers, Carrying
  <2>2. Cardinality(Carriers) \in Nat \ {0}
    BY <2>1, CarriersFinite, FS_EmptySet
  <2>3. Len(clients) \in Nat /\ Len(clients) + Cardinality(Carriers) <= Capacity
    BY LenProperties DEF SlotsBounded, Slots, TypeInv, TypeOK
  <2>4. QED
    BY <2>2, <2>3, PoolAssumption
<1>2. QED
  BY <1>1, TypeInit, TypeStep, SlotsInit, SlotsStep, PTL DEF Spec

-----------------------------------------------------------------------------
(* Slots are lost to failed dials only.                                    *)

\* The goroutine that empties the channel exists only after Pool.Close.
DrainInv == drain # "off" => closed

LEMMA DrainStep == DrainInv /\ [Next]_vars => DrainInv'
<1> SUFFICES ASSUME DrainInv, [Next]_vars
             PROVE  DrainInv'
  OBVIOUS
<1> USE DEF DrainInv
<1>1. ASSUME NEW r \in Requests, Acquire(r)
      PROVE  UNCHANGED <<closed, drain>>
  BY <1>1 DEF Acquire, AcquireCheck, AcquireSelect, AcquireRecv, AcquireDoneStrict,
    AcquireDoneLoose, AcquireDoneOther, LooseRecv, Dial, DialFails
<1>2. ASSUME NEW r \in Requests, NewRequest(r) \/ Cancel(r) \/ ClientClose(r)
      PROVE  UNCHANGED <<closed, drain>>
  BY <1>2 DEF NewRequest, Cancel, ClientClose, Release, CloseCheck, CloseEval, CloseSend
<1>3. CASE PoolClose \/ DrainLoop \/ DrainRecv
  BY <1>3 DEF PoolClose, DrainLoop, DrainRecv
<1>4. QED
  BY <1>1, <1>2, <1>3 DEF Next, vars

\* A pool that is not closed and whose mode is strict or loose loses a slot only
\* where the dial for a destroyed client fails, and then this one slot.
THEOREM LostByDialOnly == Spec => SlotsLostOnlyByDial
<1> DEFINE Lost ==
      Slots' < Slots /\ ~closed /\ mode \in {STRICT_MODE, LOOSE_MODE} =>
        /\ Slots' = Slots - 1
        /\ \E r \in Requests : pc[r] = "dial" /\ pc'[r] = "idle" /\ client[r] = NoClient
<1>1. ASSUME TypeInv, DrainInv, [Next]_vars
      PROVE  Lost
  <2> SUFFICES ASSUME Slots' < Slots, ~closed, mode \in {STRICT_MODE, LOOSE_MODE}
               PROVE  /\ Slots' = Slots - 1
                      /\ \E r \in Requests : pc[r] = "dial" /\ pc'[r] = "idle" /\ client[r] = NoClient
    OBVIOUS
  <2> DEFINE carrying == Cardinality(Carriers)
  <2>a. /\ Len(clients) \in Nat /\ carrying \in Nat
        /\ Slots = Len(clients) + carrying /\ Slots' = Len(clients') + carrying'
    BY <1>1, CarriersFinite, LenProperties DEF Slots, TypeInv, TypeOK
  <2>b. ASSUME UNCHANGED clients, UNCHANGED pc
        PROVE  FALSE
    BY <2>a, <2>b DEF Carriers
  <2>c. ASSUME UNCHANGED clients, NEW r \in Requests, NEW l \in PC, Goto(r, l),
               l \in Carrying \/ pc[r] \notin Carrying
        PROVE  FALSE
    <3>1. carrying' = carrying \/ carrying' = carrying + 1
      BY <1>1, <2>a, <2>c, CarriersMove
    <3>2. QED
      BY <2>a, <2>c, <3>1
  <2>d. ASSUME clients # <<>>, clients' = Tail(clients), NEW r \in Requests,
               pc[r] \notin Carrying, NEW l \in Carrying \cap PC, Goto(r, l)
        PROVE  FALSE
    <3>1. carrying' = carrying + 1
      BY <1>1, <2>a, <2>d, CarriersMove
    <3>2. Len(clients') = Len(clients) - 1
      BY <1>1, <2>d, HeadTailProperties DEF TypeInv, TypeOK
    <3>3. QED
      BY <2>a, <3>1, <3>2
  <2> USE DEF PC, Carrying
  <2>1. ASSUME NEW r \in Requests, NewRequest(r)
        PROVE  FALSE
    BY <2>1, <2>c DEF NewRequest
  <2>2. ASSUME NEW r \in Requests, Cancel(r)
        PROVE  FALSE
    BY <2>2, <2>b DEF Cancel
  <2>3. ASSUME NEW r \in Requests, Acquire(r)
        PROVE  DialFails(r)
    <3>1. ~AcquireCheck(r)
      BY <2>c DEF AcquireCheck
    <3>2. ~AcquireSelect(r)
      BY <2>c DEF AcquireSelect
    <3>3. ~AcquireRecv(r)
      <4> SUFFICES ASSUME AcquireRecv(r)
                   PROVE  FALSE
        OBVIOUS
      <4>1. Goto(r, "holding") \/ Goto(r, "dial")
        BY DEF AcquireRecv
      <4>2. QED
        BY <4>1, <2>d DEF AcquireRecv
    <3>4. ~AcquireDoneStrict(r)
      BY <2>c DEF AcquireDoneStrict
    <3>5. ~AcquireDoneLoose(r)
      BY <1>1, <2>c, NeverGrows DEF AcquireDoneLoose, TypeInv
    <3>6. ~AcquireDoneOther(r)
      BY DEF AcquireDoneOther
    <3>7. ~LooseRecv(r)
      BY <2>d DEF LooseRecv
    <3>8. ~Dial(r)
      BY <2>c DEF Dial
    <3>9. QED
      BY <2>3, <3>1, <3>2, <3>3, <3>4, <3>5, <3>6, <3>7, <3>8 DEF Acquire
  <2>4. ASSUME NEW r \in Requests, ClientClose(r)
        PROVE  FALSE
    <3>1. ~Release(r)
      BY <2>c DEF Release
    <3>2. ~CloseCheck(r)
      BY <2>c DEF CloseCheck
    <3>3. ~CloseEval(r)
      BY <2>c DEF CloseEval
    <3>4. ~CloseSend(r)
      <4> SUFFICES ASSUME CloseSend(r)
                   PROVE  FALSE
        OBVIOUS
      <4>1. client[r] \in Clients
        BY <1>1 DEF CloseSend, TypeInv, TypeOK, HoldersOwn, Holding
      <4>2. Len(clients') = Len(clients) + 1 /\ pc[r] = "send" /\ Goto(r, "idle")
        BY <1>1, <4>1, AppendProperties DEF CloseSend, TypeInv, TypeOK
      <4>3. carrying' = carrying - 1
        BY <1>1, <4>2, <2>a, CarriersMove
      <4>4. QED
        BY <4>2, <4>3, <2>a
    <3>5. QED
      BY <2>4, <3>1, <3>2, <3>3, <3>4 DEF ClientClose
  <2>5. ~PoolClose /\ ~DrainLoop /\ ~UNCHANGED vars
    BY <2>b DEF PoolClose, DrainLoop, vars
  <2>6. ~DrainRecv
    BY <1>1 DEF DrainRecv, DrainInv
  <2>7. PICK r \in Requests : DialFails(r)
    BY <1>1, <2>1, <2>2, <2>3, <2>4, <2>5, <2>6 DEF Next
  <2>8. pc[r] = "dial" /\ Goto(r, "idle") /\ UNCHANGED clients
    BY <2>7 DEF DialFails
  <2>9. carrying' = carrying - 1
    BY <1>1, <2>8, <2>a, CarriersMove
  <2>10. pc'[r] = "idle" /\ client[r] = NoClient
    BY <1>1, <2>8 DEF Goto, TypeInv, TypeOK, HoldersOwn, Holding
  <2>11. QED
    BY <2>8, <2>9, <2>10, <2>a
<1>2. Init => DrainInv
  BY DEF Init, DrainInv
<1>3. TypeInv /\ DrainInv /\ [Next]_vars => [Lost]_vars
  BY <1>1
<1>4. QED
  BY <1>2, <1>3, TypeInit, TypeStep, DrainStep, PTL DEF Spec, SlotsLostOnlyByDial

-----------------------------------------------------------------------------
(* The pool implements ConnLease.                                          *)

\* A connection has a slot: it is buffered, or a goroutine carries it.
LEMMA ConnsFewerThanSlots ==
  ASSUME TypeInv, ConnsAccounted
  PROVE  IsFiniteSet(conns) /\ Cardinality(conns) <= Slots
<1>1. Len(clients) \in Nat /\ clients \in Seq(Clients)
  BY LenProperties DEF TypeInv, TypeOK
<1>2. IsFiniteSet(Queued) /\ Cardinality(Queued) <= Len(clients)
  <2> DEFINE f == [i \in 1..Len(clients) |-> clients[i]]
  <2>1. f \in Surjection(1..Len(clients), Queued)
    BY DEF Surjection, Queued
  <2>2. IsFiniteSet(1..Len(clients)) /\ Cardinality(1..Len(clients)) = Len(clients)
    BY <1>1, FS_Interval
  <2>3. QED
    BY <2>1, <2>2, FS_Surjection
<1>3. IsFiniteSet(Owned) /\ Cardinality(Owned) <= Cardinality(Carriers)
  <2> DEFINE owners == {r \in Requests : client[r] # NoClient}
             f      == [r \in owners |-> client[r]]
  <2>1. f \in Surjection(owners, Owned)
    BY DEF Surjection, Owned
  <2>2. owners \subseteq Carriers
    BY DEF Carriers, TypeInv, HoldersOwn, Holding
  <2>3. IsFiniteSet(owners) /\ Cardinality(owners) <= Cardinality(Carriers)
    BY <2>2, CarriersFinite, FS_Subset
  <2>4. IsFiniteSet(Owned) /\ Cardinality(Owned) <= Cardinality(owners)
    BY <2>1, <2>3, FS_Surjection
  <2>5. QED
    BY <2>3, <2>4, CarriersFinite, FS_CardinalityType
<1>4. /\ IsFiniteSet(Queued \cup Owned)
      /\ Cardinality(Queued \cup Owned) =
           Cardinality(Queued) + Cardinality(Owned) - Cardinality(Queued \cap Owned)
  BY <1>2, <1>3, FS_Union
<1>5. Cardinality(Queued \cap Owned) \in Nat
  BY <1>2, FS_Subset, FS_CardinalityType
<1>6. Cardinality(Queued) \in Nat /\ Cardinality(Owned) \in Nat
  BY <1>2, <1>3, FS_CardinalityType
<1>7. QED
  BY <1>1, <1>2, <1>3, <1>4, <1>5, <1>6, CarriersFinite DEF ConnsAccounted, Slots

WithinLimit == Cardinality(conns) <= Limit

\* The slots keep to the limit under every POOL_MODEL, and so do the connections.
LEMMA ConnsLimited == TypeInv /\ Ownership /\ SlotsBounded => WithinLimit
<1> SUFFICES ASSUME TypeInv, ConnsAccounted, SlotsBounded
             PROVE  Cardinality(conns) <= Limit
  BY DEF Ownership, WithinLimit
<1>1. /\ Len(clients) \in Nat /\ Len(clients) <= Capacity /\ mode \in Modes
      /\ Cardinality(Carriers) \in Nat /\ Capacity \in Nat
  BY LenProperties, CarriersFinite, PoolAssumption DEF TypeInv, TypeOK
<1>2. Cardinality(Carriers) <= Cardinality(Requests) /\ Cardinality(Requests) \in Nat
  BY PoolAssumption, FS_Subset, FS_CardinalityType DEF Carriers
<1>3. Slots <= Limit
  BY <1>1, <1>2 DEF Slots, SlotsBounded, Limit
<1>4. /\ Cardinality(conns) <= Slots
      /\ Cardinality(conns) \in Nat /\ Slots \in Nat /\ Limit \in Nat
  BY <1>1, <1>2, ConnsFewerThanSlots, FS_CardinalityType DEF Slots, Limit
<1>5. QED
  BY <1>3, <1>4

\* Who leases a client owns it, so what is buffered is not leased.
LEMMA LeasedOwned ==
  ASSUME TypeInv
  PROVE  Lease!Leased \subseteq Owned
BY DEF Lease!Leased, Leases, Owned, TypeInv, TypeOK

\* A step after which every request streams over what it did before.
LEMMA LeasesKept ==
  ASSUME \A q \in Requests : (pc[q] = "holding" \/ pc'[q] = "holding") =>
           pc'[q] = pc[q] /\ client'[q] = client[q]
  PROVE  Leases' = Leases
BY DEF Leases

\* A request goes elsewhere, neither from nor to its stream.
LEMMA ElsewhereKept ==
  ASSUME TypeInv, NEW r \in Requests, NEW l, Goto(r, l), pc[r] # "holding", l # "holding",
         \A q \in Requests \ {r} : client'[q] = client[q]
  PROVE  Leases' = Leases
BY LeasesKept DEF Goto, TypeInv, TypeOK

\* A request starts to stream over the client it has taken.
LEMMA LeaseTaken ==
  ASSUME TypeInv, NEW r \in Requests, pc[r] # "holding", Goto(r, "holding"),
         NEW c \in Clients, client' = [client EXCEPT ![r] = c]
  PROVE  /\ Leases[r] = NoClient
         /\ Leases' = [Leases EXCEPT ![r] = c]
BY DEF Leases, Goto, TypeInv, TypeOK

\* Every step of the pool is one of ConnLease or changes nothing it speaks of.
LEMMA LeaseStep ==
  ASSUME TypeInv, Ownership, [Next]_vars, WithinLimit'
  PROVE  [Lease!Next]_<<conns, Leases>>
<1> SUFFICES Lease!Next \/ UNCHANGED <<conns, Leases>>
  OBVIOUS
<1>0. /\ clients # <<>> => /\ Head(clients) \in Clients /\ Head(clients) \in conns
                           /\ Head(clients) \notin Lease!Leased
      /\ conns \subseteq Clients
  <2>1. ASSUME clients # <<>>
        PROVE  Head(clients) \in Queued
    BY <2>1, ReceiveFacts
       DEF Ownership, ExclusiveOwnership, Injective, Elements, Queued, TypeInv, TypeOK
  <2>2. QED
    BY <2>1, LeasedOwned DEF Ownership, ExclusiveOwnership, ConnsAccounted, TypeInv, TypeOK
<1>a. ASSUME UNCHANGED conns, UNCHANGED client, NEW r \in Requests, NEW l, Goto(r, l),
             pc[r] # "holding", l # "holding"
      PROVE  UNCHANGED <<conns, Leases>>
  BY <1>a, ElsewhereKept
<1>b. ASSUME UNCHANGED <<conns, client, pc>>
      PROVE  UNCHANGED <<conns, Leases>>
  BY <1>b, LeasesKept
<1>c. ASSUME clients # <<>>, NEW r \in Requests, pc[r] # "holding", Goto(r, "holding"),
             client' = [client EXCEPT ![r] = Head(clients)], UNCHANGED conns
      PROVE  Lease!Next
  <2>1. Leases[r] = NoClient /\ Leases' = [Leases EXCEPT ![r] = Head(clients)]
    BY <1>0, <1>c, LeaseTaken
  <2>2. Lease!Grant(r, Head(clients))
    BY <1>0, <1>c, <2>1 DEF Lease!Grant
  <2>3. QED
    BY <1>0, <1>c, <2>2 DEF Lease!Next
<1>d. ASSUME clients # <<>>, conns' = conns \ {Head(clients)}, UNCHANGED Leases
      PROVE  Lease!Next
  <2>1. Lease!Discard(Head(clients))
    BY <1>0, <1>d DEF Lease!Discard
  <2>2. QED
    BY <1>0, <1>d, <2>1 DEF Lease!Next
<1>1. ASSUME NEW r \in Requests, NewRequest(r)
      PROVE  UNCHANGED <<conns, Leases>>
  BY <1>1, <1>a DEF NewRequest
<1>2. ASSUME NEW r \in Requests, Cancel(r)
      PROVE  UNCHANGED <<conns, Leases>>
  BY <1>2, <1>b DEF Cancel
<1>3. ASSUME NEW r \in Requests, Acquire(r)
      PROVE  Lease!Next \/ UNCHANGED <<conns, Leases>>
  <2>1. CASE AcquireCheck(r)
    BY <2>1, <1>a DEF AcquireCheck
  <2>2. CASE AcquireSelect(r)
    BY <2>2, <1>a DEF AcquireSelect
  <2>3. CASE AcquireRecv(r)
    <3>1. \/ client' = [client EXCEPT ![r] = Head(clients)] /\ UNCHANGED conns /\ Goto(r, "holding")
          \/ conns' = conns \ {Head(clients)} /\ UNCHANGED client /\ Goto(r, "dial")
      BY <2>3 DEF AcquireRecv
    <3>2. pc[r] = "wait" /\ clients # <<>>
      BY <2>3 DEF AcquireRecv
    <3>3. CASE UNCHANGED client /\ Goto(r, "dial") /\ conns' = conns \ {Head(clients)}
      BY <3>2, <3>3, <1>d, ElsewhereKept
    <3>4. QED
      BY <3>1, <3>2, <3>3, <1>c
  <2>4. CASE AcquireDoneStrict(r)
    BY <2>4, <1>a DEF AcquireDoneStrict
  <2>5. CASE AcquireDoneLoose(r)
    BY <2>5, <1>a, NeverGrows DEF AcquireDoneLoose, TypeInv
  <2>6. CASE AcquireDoneOther(r)
    BY <2>6, <1>a DEF AcquireDoneOther
  <2>7. CASE LooseRecv(r)
    BY <2>7, <1>c DEF LooseRecv
  <2>8. CASE Dial(r)
    <3>1. PICK c \in Unused : conns' = conns \cup {c} /\ client' = [client EXCEPT ![r] = c]
      BY <2>8 DEF Dial
    <3>2. c \in Clients \ conns /\ pc[r] = "dial" /\ Goto(r, "holding")
      BY <2>8 DEF Dial, Unused
    <3>3. Leases[r] = NoClient /\ Leases' = [Leases EXCEPT ![r] = c]
      BY <3>1, <3>2, LeaseTaken
    <3>4. Cardinality(conns') <= Limit
      BY DEF WithinLimit, Limit
    <3>5. Lease!GrantNew(r, c)
      BY <3>1, <3>2, <3>3, <3>4 DEF Lease!GrantNew, Lease!Cardinality, Cardinality
    <3>6. QED
      BY <3>2, <3>5 DEF Lease!Next
  <2>9. CASE DialFails(r)
    BY <2>9, <1>a DEF DialFails
  <2>10. QED
    BY <1>3, <2>1, <2>2, <2>3, <2>4, <2>5, <2>6, <2>7, <2>8, <2>9 DEF Acquire
<1>4. ASSUME NEW r \in Requests, ClientClose(r)
      PROVE  Lease!Next \/ UNCHANGED <<conns, Leases>>
  <2>1. CASE Release(r)
    <3>1. /\ Leases[r] # NoClient
          /\ Leases' = [Leases EXCEPT ![r] = NoClient]
      BY <2>1 DEF Release, Leases, Goto, TypeInv, TypeOK, HoldersOwn, Holding, Carrying
    <3>2. Lease!Return(r)
      BY <2>1, <3>1 DEF Lease!Return, Release
    <3>3. QED
      BY <3>2 DEF Lease!Next
  <2>2. CASE CloseCheck(r)
    <3>1. CASE closed
      <4>1. /\ pc[r] = "closing" /\ Goto(r, "idle") /\ conns' = conns \ {client[r]}
            /\ client' = [client EXCEPT ![r] = NoClient]
        BY <2>2, <3>1 DEF CloseCheck
      <4>2. Leases' = Leases
        BY <4>1, ElsewhereKept DEF TypeInv, TypeOK
      <4>3. client[r] # NoClient /\ client[r] \in Clients
        BY <4>1 DEF TypeInv, TypeOK, HoldersOwn, Holding, Carrying
      <4>4. client[r] \in conns
        BY <4>3 DEF Ownership, ConnsAccounted, Owned
      <4>5. client[r] \notin Lease!Leased
        BY <4>1, <4>3 DEF Lease!Leased, Leases, Ownership, ExclusiveOwnership
      <4>6. Lease!Discard(client[r])
        BY <4>1, <4>2, <4>4, <4>5 DEF Lease!Discard
      <4>7. QED
        BY <4>3, <4>6 DEF Lease!Next
    <3>2. CASE ~closed
      BY <2>2, <3>2, <1>a DEF CloseCheck
    <3>3. QED
      BY <3>1, <3>2
  <2>3. CASE CloseEval(r)
    BY <2>3, <1>a DEF CloseEval
  <2>4. CASE CloseSend(r)
    BY <2>4, ElsewhereKept DEF CloseSend, TypeInv, TypeOK
  <2>5. QED
    BY <1>4, <2>1, <2>2, <2>3, <2>4 DEF ClientClose
<1>5. CASE PoolClose
  BY <1>5, <1>b DEF PoolClose
<1>6. CASE DrainLoop
  BY <1>6, <1>b DEF DrainLoop
<1>7. CASE DrainRecv
  BY <1>7, <1>d, LeasesKept DEF DrainRecv
<1>8. CASE UNCHANGED vars
  BY <1>8, <1>b DEF vars
<1>9. QED
  BY <1>1, <1>2, <1>3, <1>4, <1>5, <1>6, <1>7, <1>8 DEF Next

\* The pool implements ConnLease under every POOL_MODEL: a connection is leased
\* to one request, stays open while it is, and the pool keeps to its limit.
THEOREM LeaseImplemented == Spec => PoolLeases
<1>1. Init => Lease!Init
  <2> SUFFICES ASSUME Init
               PROVE  Lease!Init
    OBVIOUS
  <2>1. TypeInv /\ Ownership /\ SlotsBounded
    BY TypeInit, OwnershipInit, SlotsInit
  <2>2. Cardinality(conns) <= Limit /\ conns \in SUBSET Clients
    BY <2>1, ConnsLimited DEF WithinLimit, TypeInv, TypeOK
  <2>3. Leases = [r \in Requests |-> NoClient]
    BY DEF Init, Leases
  <2>4. QED
    BY <2>2, <2>3 DEF Lease!Init, Lease!Cardinality, Cardinality
<1>2. TypeInv /\ Ownership /\ [Next]_vars /\ WithinLimit' => [Lease!Next]_<<conns, Leases>>
  BY LeaseStep
<1>3. QED
  BY <1>1, <1>2, TypeInit, TypeStep, OwnershipInit, OwnershipStep, SlotsInit, SlotsStep, ConnsLimited, PTL
     DEF Spec, PoolLeases, Lease!Spec, Lease!leaseVars

=============================================================================
