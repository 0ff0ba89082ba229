--------------------------- MODULE DirectorProofs ---------------------------
(***************************************************************************)
(* Theorems about Director, for any scenes, pools, requests and capacity.  *)
(*                                                                         *)
(* RightEngine and RefusalJustified both follow from what a call knows of  *)
(* the table.  The pool it looked up may be overwritten or removed while   *)
(* it is open, by those who write the table beside each other.  But no     *)
(* other engine ever gets it, and it is closed only through the entry of   *)
(* its own engine, which then has no open pool for a moment.               *)
(*                                                                         *)
(* SlotsKept counts the clients of an open pool, whoever has them.         *)
(***************************************************************************)
EXTENDS Director, FiniteSetTheorems, TLAPS

\* What the calls need of the table: a pool is in one entry at most, and there
\* is none in it before the address is set.
TableInv ==
  /\ \A m, n \in Scenes : table[m] = table[n] /\ table[n] # NoPool => m = n
  /\ \A n \in Scenes : table[n] # NoPool => addressed

\* The program points at which a call has its pool from the table.
Looked == {"start", "select", "wait", "waitnil", "dial"}

CallInv(r) ==
  /\ pc[r] \in InCall /\ ask[r] \in Scenes /\ table[ask[r]] \notin open => gap[r]
  /\ pc[r] \in InCall \cup {"holding"} /\ ask[r] \in Scenes /\ table[ask[r]] \in open
       => table[ask[r]] \in offered[r]
  /\ pc[r] \in Looked \cup {"holding"} =>
       /\ \A n \in Scenes : table[n] = mine[r] /\ mine[r] # NoPool => n = ask[r]
       /\ mine[r] \in open => mine[r] \in offered[r]
  /\ pc[r] \in Looked /\ mine[r] \notin open => gap[r]
  /\ pc[r] \in (Looked \ {"start"}) \cup {"holding"} => mine[r] \in offered[r]

Points == InCall \cup {"idle", "holding", "send"}

-----------------------------------------------------------------------------
(* Typing                                                                  *)

\* Points at which a call is a user of its pool, which is then not nil.
AtPool == {"wait", "dial", "holding", "send"}

\* The part of TypeOK the steps of a call disturb, with the fact that a call
\* that passed the address asks for a scene, and the rest.
CallsTyped ==
  /\ pc \in [Requests -> Points]
  /\ ask \in [Requests -> Scenes \cup {Malformed}]
  /\ mine \in [Requests -> Pools \cup {NoPool}]
  /\ \A r \in Requests : pc[r] \in AtPool => mine[r] \in Pools
  /\ \A r \in Requests : pc[r] \in Points \ {"idle", "address"} => ask[r] \in Scenes
  /\ ctxDone \in [Requests -> BOOLEAN]

TableTyped ==
  /\ table \in [Scenes -> Pools \cup {NoPool}]
  /\ open \subseteq Pools
  /\ addressed \in BOOLEAN
  /\ idle \in [Pools -> Nat]

HistoryTyped ==
  /\ offered \in [Requests -> SUBSET Pools]
  /\ gap \in [Requests -> BOOLEAN]
  /\ lost \in [Pools -> Nat]

TypeInv == CallsTyped /\ TableTyped /\ HistoryTyped

LEMMA TypeParts == TypeInv => TypeOK
BY DEF TypeInv, TypeOK, CallsTyped, TableTyped, HistoryTyped, Points, AtPool

\* A call that ends leaves nothing behind.
LEMMA LeaveFacts ==
  ASSUME CallsTyped, NEW r \in Requests, Leave(r)
  PROVE  /\ CallsTyped'
         /\ pc'[r] = "idle"
         /\ \A q \in Requests \ {r} : pc'[q] = pc[q] /\ ask'[q] = ask[q] /\ mine'[q] = mine[q]
<1>1. /\ pc' = [pc EXCEPT ![r] = "idle"]
      /\ ask' = [ask EXCEPT ![r] = Malformed]
      /\ mine' = [mine EXCEPT ![r] = NoPool]
      /\ ctxDone' = [ctxDone EXCEPT ![r] = FALSE]
  BY DEF Leave, Goto
<1>2. "idle" \in Points /\ "idle" \notin AtPool
  BY DEF Points, AtPool
<1>3. /\ pc' \in [Requests -> Points]
      /\ ask' \in [Requests -> Scenes \cup {Malformed}]
      /\ mine' \in [Requests -> Pools \cup {NoPool}]
      /\ ctxDone' \in [Requests -> BOOLEAN]
  BY <1>1, <1>2 DEF CallsTyped
<1>4. /\ pc'[r] = "idle"
      /\ \A q \in Requests \ {r} : pc'[q] = pc[q] /\ ask'[q] = ask[q] /\ mine'[q] = mine[q]
  BY <1>1 DEF CallsTyped
<1>5. QED
  BY <1>2, <1>3, <1>4 DEF CallsTyped

\* A call that goes on stays typed if it knows its pool where it uses it.
LEMMA GotoFacts ==
  ASSUME CallsTyped, NEW r \in Requests, NEW l \in Points, Goto(r, l),
         l \in AtPool => mine[r] \in Pools,
         l \notin {"idle", "address"} => ask[r] \in Scenes,
         UNCHANGED <<ask, mine, ctxDone>>
  PROVE  /\ CallsTyped'
         /\ pc'[r] = l
         /\ \A q \in Requests \ {r} : pc'[q] = pc[q]
<1>1. pc' = [pc EXCEPT ![r] = l]
  BY DEF Goto
<1>2. pc' \in [Requests -> Points] /\ pc'[r] = l /\ \A q \in Requests \ {r} : pc'[q] = pc[q]
  BY <1>1 DEF CallsTyped
<1>3. QED
  BY <1>2 DEF CallsTyped

\* How a call at point l may go on.
Onward(l, m) ==
  \/ l = "address" /\ m = "exists"
  \/ l = "exists" /\ m = "lookup"
  \/ l = "start" /\ m = "select"
  \/ l = "select" /\ m \in Waiting
  \/ l = "wait" /\ m \in {"holding", "dial"}
  \/ l = "dial" /\ m = "holding"
  \/ l = "holding" /\ m = "send"

Advance(r) ==
  \/ pc'[r] = "idle"
  \/ pc[r] = "idle" /\ pc'[r] = "address"
  \/ /\ ask'[r] = ask[r]
     /\ \/ pc[r] = "lookup" /\ pc'[r] = "start" /\ mine'[r] = table[ask[r]]
        \/ /\ mine'[r] = mine[r]
           /\ pc'[r] = pc[r] \/ Onward(pc[r], pc'[r])
           /\ pc'[r] = "exists" /\ pc[r] # "exists" => ask[r] \in Scenes
           /\ pc[r] = "start" => mine[r] \in open

Stays(r) == pc'[r] = pc[r] /\ ask'[r] = ask[r] /\ mine'[r] = mine[r]

\* A step of a call moves that call along, and leaves the table and the other
\* calls alone.
LEMMA CallSteps ==
  ASSUME TypeInv, NEW r \in Requests, Arrive(r) \/ Cancel(r) \/ Serve(r)
  PROVE  /\ CallsTyped' /\ idle' \in [Pools -> Nat]
         /\ UNCHANGED registry
         /\ Advance(r)
         /\ \A q \in Requests \ {r} : Stays(q)
<1>0. CallsTyped /\ TableTyped
  BY DEF TypeInv
<1> USE <1>0 DEF registry, Advance, Stays, Onward, Points, InCall, Waiting, AtPool
<1>1. CASE Arrive(r)
  <2>1. PICK a \in Asked : ask' = [ask EXCEPT ![r] = a]
    BY <1>1 DEF Arrive
  <2>2. /\ pc' = [pc EXCEPT ![r] = "address"] /\ pc[r] = "idle"
        /\ UNCHANGED <<registry, idle, mine, ctxDone>>
    BY <1>1 DEF Arrive, Goto
  <2>3. QED
    BY <2>1, <2>2, DirectorAssumption DEF CallsTyped, TableTyped
<1>2. CASE Cancel(r)
  BY <1>2 DEF Cancel, CallsTyped, TableTyped
<1>3. CASE CompareAddress(r)
  <2>1. CASE addressed /\ ask[r] # Malformed
    BY <1>3, <2>1, GotoFacts DEF CompareAddress, CallsTyped, TableTyped
  <2>2. CASE ~(addressed /\ ask[r] # Malformed)
    BY <1>3, <2>2, LeaveFacts DEF CompareAddress, TableTyped
  <2>3. QED
    BY <2>1, <2>2
<1>4. CASE Exists(r)
  <2>1. CASE table[ask[r]] # NoPool
    BY <1>4, <2>1, GotoFacts DEF Exists, CallsTyped, TableTyped
  <2>2. CASE table[ask[r]] = NoPool
    BY <1>4, <2>2, LeaveFacts DEF Exists, TableTyped
  <2>3. QED
    BY <2>1, <2>2
<1>5. CASE Lookup(r)
  BY <1>5 DEF Lookup, Goto, CallsTyped, TableTyped
<1>6. CASE AcquireCheck(r)
  <2>1. CASE mine[r] \in open
    BY <1>6, <2>1, GotoFacts DEF AcquireCheck, CallsTyped, TableTyped
  <2>2. CASE mine[r] \notin open
    BY <1>6, <2>2, LeaveFacts DEF AcquireCheck, TableTyped
  <2>3. QED
    BY <2>1, <2>2
<1>7. CASE AcquireSelect(r)
  BY <1>7 DEF AcquireSelect, Goto, CallsTyped, TableTyped
<1>8. CASE Receive(r)
  <2>1. /\ idle[mine[r]] \in Nat \ {0} /\ mine[r] \in Pools
        /\ idle' = [idle EXCEPT ![mine[r]] = idle[mine[r]] - 1]
    BY <1>8 DEF Receive, CallsTyped, TableTyped
  <2>2. idle' \in [Pools -> Nat]
    BY <2>1 DEF TableTyped
  <2>3. QED
    BY <1>8, <2>1, <2>2, GotoFacts DEF Receive, CallsTyped
<1>9. CASE WaitDone(r)
  BY <1>9, LeaveFacts DEF WaitDone, TableTyped
<1>10. CASE Dial(r)
  <2>1. CASE Goto(r, "holding") /\ UNCHANGED <<ask, mine, ctxDone>>
    BY <1>10, <2>1, GotoFacts DEF Dial, CallsTyped, TableTyped
  <2>2. CASE Leave(r)
    BY <1>10, <2>2, LeaveFacts DEF Dial, TableTyped
  <2>3. QED
    BY <1>10, <2>1, <2>2 DEF Dial
<1>11. CASE StreamEnds(r)
  <2>1. CASE mine[r] \in open
    BY <1>11, <2>1, GotoFacts DEF StreamEnds, CallsTyped, TableTyped
  <2>2. CASE mine[r] \notin open
    BY <1>11, <2>2, LeaveFacts DEF StreamEnds, TableTyped
  <2>3. QED
    BY <2>1, <2>2
<1>12. CASE SendBack(r)
  <2>1. mine[r] \in Pools /\ idle[mine[r]] \in Nat
    BY <1>12 DEF SendBack, CallsTyped, TableTyped
  <2>2. idle' \in [Pools -> Nat]
    BY <1>12, <2>1 DEF SendBack, TableTyped
  <2>3. QED
    BY <1>12, <2>2, LeaveFacts DEF SendBack
<1>13. QED
  BY <1>1, <1>2, <1>3, <1>4, <1>5, <1>6, <1>7, <1>8, <1>9, <1>10, <1>11, <1>12
     DEF Serve, GrpcProxyTransport, Acquire, ClientClose

-----------------------------------------------------------------------------
(* Steps of the table                                                      *)

\* What a step of the registry may do to a call that has a pool: it neither
\* enters nor opens a pool some call has, and it closes one only where the
\* pool is in the table, which then stays as it is.
TableMoves ==
  /\ \A r \in Requests :
       /\ mine[r] \in open' => mine[r] \in open
       /\ \A n \in Scenes : table'[n] = mine[r] /\ mine[r] # NoPool => table[n] = mine[r]
  /\ \A p \in open \ open' : table' = table /\ \E n \in Scenes : table[n] = p

\* What a step of the registry does to the clients of the pools: an open pool
\* keeps its own, and a new one, which no call has, is full.
ClientsMove ==
  \A p \in open' :
    \/ p \in open /\ idle'[p] = idle[p]
    \/ p \notin open /\ idle'[p] = Capacity /\ \A r \in Requests : mine[r] # p

LEMMA RegistrySteps ==
  ASSUME TypeInv, TableInv, Registry \/ (\E p \in Pools : Drain(p))
  PROVE  /\ TableTyped' /\ TableInv' /\ TableMoves /\ ClientsMove
         /\ UNCHANGED calls
<1> USE DirectorAssumption DEF TypeInv, TableTyped, TableInv, TableMoves, ClientsMove, calls
<1>1. CASE SetAddress
  BY <1>1 DEF SetAddress
<1>2. ASSUME NEW n \in Scenes, Table!Close(n), UNCHANGED <<addressed, idle, calls>>
      PROVE  /\ TableTyped' /\ TableInv' /\ TableMoves /\ ClientsMove
             /\ UNCHANGED calls
  BY <1>2 DEF Table!Close
<1>3. ASSUME NEW n \in Scenes, Table!Remove(n), UNCHANGED <<addressed, idle, calls>>
      PROVE  /\ TableTyped' /\ TableInv' /\ TableMoves /\ ClientsMove
             /\ UNCHANGED calls
  <2>1. table' = [table EXCEPT ![n] = NoPool] /\ open' = open
    BY <1>3 DEF Table!Remove
  <2>2. \A m \in Scenes : table'[m] = IF m = n THEN NoPool ELSE table[m]
    BY <2>1
  <2>3. QED
    BY <1>3, <2>1, <2>2
<1>4. ASSUME NEW n \in Scenes, NEW p \in Pools, Enter(n, p)
      PROVE  /\ TableTyped' /\ TableInv' /\ TableMoves /\ ClientsMove
             /\ UNCHANGED calls
  <2>1. /\ p \notin open /\ p \notin Table!Entered /\ p \notin {mine[r] : r \in Requests}
        /\ table' = [table EXCEPT ![n] = p] /\ open' = open \cup {p}
        /\ idle' = [idle EXCEPT ![p] = Capacity]
        /\ addressed /\ UNCHANGED <<addressed, calls>>
    BY <1>4 DEF Enter, Table!Publish
  <2>2. /\ \A m \in Scenes : table'[m] = IF m = n THEN p ELSE table[m]
        /\ \A m \in Scenes : table[m] # p
        /\ \A r \in Requests : mine[r] # p
    BY <2>1 DEF Table!Entered
  <2>3. TableTyped' /\ TableInv'
    BY <2>1, <2>2
  <2>4. TableMoves /\ ClientsMove
    BY <2>1, <2>2
  <2>5. QED
    BY <2>1, <2>3, <2>4
<1>5. ASSUME NEW p \in Pools, Drain(p)
      PROVE  /\ TableTyped' /\ TableInv' /\ TableMoves /\ ClientsMove
             /\ UNCHANGED calls
  BY <1>5 DEF Drain, registry
<1>6. QED
  BY <1>1, <1>2, <1>3, <1>4, <1>5 DEF Registry, ReleasePool

-----------------------------------------------------------------------------
(* What a call knows of the table                                          *)

\* The history of one call after a step.
LEMMA Remembered ==
  ASSUME Remember, NEW r \in Requests
  PROVE  /\ pc'[r] \in InCall /\ ask'[r] \in Scenes =>
              /\ table'[ask'[r]] \notin open' => gap'[r]
              /\ pc[r] # "idle" /\ gap[r] => gap'[r]
         /\ pc'[r] \in InCall \cup {"holding"} /\ ask'[r] \in Scenes =>
              /\ table'[ask'[r]] \in open' => table'[ask'[r]] \in offered'[r]
              /\ pc[r] # "idle" => offered[r] \subseteq offered'[r]
BY DEF Remember

LEMMA HistoryStep ==
  ASSUME TypeInv, Remember, TableTyped'
  PROVE  HistoryTyped'
<1>1. offered' \in [Requests -> SUBSET Pools] /\ gap' \in [Requests -> BOOLEAN]
  BY DEF Remember, TypeInv, TableTyped, HistoryTyped
<1>2. \A S \in SUBSET Requests : Cardinality(S) \in Nat
  BY FS_Subset, FS_CardinalityType, DirectorAssumption
<1>3. lost' \in [Pools -> Nat]
  BY <1>2 DEF Remember, TypeInv, HistoryTyped
<1>4. QED
  BY <1>1, <1>3 DEF HistoryTyped

\* A call that stays where it is keeps its knowledge while the table moves.
LEMMA StayingCall ==
  ASSUME TypeInv, TypeInv', TableInv', TableMoves, Remember,
         NEW r \in Requests, CallInv(r), Stays(r)
  PROVE  CallInv(r)'
<1> USE Remembered DEF CallInv, Stays, Looked, InCall, Waiting
<1>1. pc[r] \in Looked \cup {"holding"} => ask[r] \in Scenes
  BY DEF TypeInv, CallsTyped, Points
<1>2. pc[r] \in Looked \cup {"holding"} =>
        /\ \A n \in Scenes : table'[n] = mine'[r] /\ mine'[r] # NoPool => n = ask'[r]
        /\ mine'[r] \in open' => mine'[r] \in offered'[r]
  BY <1>1 DEF TableMoves
<1>3. pc[r] \in Looked /\ mine'[r] \notin open' => gap'[r]
  <2>1. SUFFICES ASSUME pc[r] \in Looked, mine[r] \notin open'
                 PROVE  gap'[r]
    OBVIOUS
  <2>2. CASE mine[r] \notin open
    BY <1>1, <2>1, <2>2
  <2>3. CASE mine[r] \in open
    <3>1. table' = table /\ \E n \in Scenes : table[n] = mine[r]
      BY <2>1, <2>3 DEF TableMoves
    <3>2. table'[ask'[r]] = mine[r]
      BY <1>1, <2>1, <2>3, <3>1, DirectorAssumption DEF TypeInv, TableTyped
    <3>3. QED
      BY <1>1, <2>1, <3>2
  <2>4. QED
    BY <2>2, <2>3
<1>4. pc[r] \in (Looked \ {"start"}) \cup {"holding"} => mine'[r] \in offered'[r]
  BY <1>1
<1>5. QED
  BY <1>2, <1>3, <1>4

\* A call that moves along finds what it needs to know in the same table.
LEMMA MovingCall ==
  ASSUME TypeInv, TypeInv', TableInv, Remember, UNCHANGED registry,
         NEW r \in Requests, CallInv(r), Advance(r)
  PROVE  CallInv(r)'
<1> USE DEF CallInv, Looked, InCall, Waiting, registry
<1>0. /\ pc[r] \in Points /\ pc'[r] \in Points
      /\ pc[r] \in Points \ {"idle", "address"} => ask[r] \in Scenes
      /\ pc'[r] \in Points \ {"idle", "address"} => ask'[r] \in Scenes
  BY DEF TypeInv, CallsTyped
<1>1. CASE pc'[r] \in {"idle", "address"}
  BY <1>1, Remembered
<1>2. CASE pc[r] = "lookup" /\ pc'[r] = "start" /\ mine'[r] = table[ask[r]] /\ ask'[r] = ask[r]
  BY <1>0, <1>2, Remembered DEF Points, TableInv
<1>3. CASE /\ ask'[r] = ask[r] /\ mine'[r] = mine[r]
           /\ pc'[r] = pc[r] \/ Onward(pc[r], pc'[r])
           /\ pc[r] = "start" => mine[r] \in open
           /\ pc'[r] \notin {"idle", "address"}
  <2>1. pc'[r] \in {"exists", "lookup", "send"} \/ pc[r] \in Looked \cup {"holding"}
    BY <1>0, <1>3 DEF Onward, Points
  <2>2. ask[r] \in Scenes
    BY <1>0, <1>3 DEF Onward, Points
  <2>3. pc'[r] \in Looked \cup {"holding"} =>
          \/ pc[r] \in Looked
          \/ pc[r] = "holding" /\ pc'[r] = "holding"
    BY <1>0, <1>3 DEF Onward, Points
  <2>4. pc[r] # "idle" /\ (pc'[r] \in InCall => pc[r] \in InCall)
    BY <1>0, <1>3 DEF Onward, Points
  <2>5. pc'[r] \in InCall /\ table'[ask'[r]] \notin open' => gap'[r]
    BY <1>3, <2>2, Remembered
  <2>6. pc'[r] \in InCall \cup {"holding"} /\ table'[ask'[r]] \in open'
          => table'[ask'[r]] \in offered'[r]
    BY <1>3, <2>2, Remembered
  <2>7. pc'[r] \in Looked \cup {"holding"} =>
          /\ \A n \in Scenes : table'[n] = mine'[r] /\ mine'[r] # NoPool => n = ask'[r]
          /\ mine'[r] \in open' => mine'[r] \in offered'[r]
    BY <1>3, <2>2, <2>3, <2>4, Remembered
  <2>8. pc'[r] \in Looked /\ mine'[r] \notin open' => gap'[r]
    BY <1>3, <2>2, <2>3, <2>4, Remembered
  <2>9. pc'[r] \in (Looked \ {"start"}) \cup {"holding"} => mine'[r] \in offered'[r]
    <3>1. CASE pc[r] = "start"
      BY <1>3, <2>2, <2>3, <3>1, Remembered
    <3>2. CASE pc[r] # "start"
      BY <1>3, <2>2, <2>3, <2>4, <3>2, Remembered
    <3>3. QED
      BY <3>1, <3>2
  <2>10. QED
    BY <2>5, <2>6, <2>7, <2>8, <2>9
<1>4. QED
  BY <1>1, <1>2, <1>3 DEF Advance

-----------------------------------------------------------------------------
(* The theorems                                                            *)

\* What every reachable state satisfies.
IInv == TypeInv /\ TableInv /\ \A r \in Requests : CallInv(r)

LEMMA InvInit == Init => IInv
<1> SUFFICES ASSUME Init
             PROVE  IInv
  OBVIOUS
<1>1. \A r \in Requests : pc[r] = "idle"
  BY DEF Init
<1>2. CallsTyped
  BY <1>1 DEF Init, CallsTyped, Points, AtPool
<1>3. TableTyped /\ HistoryTyped /\ TableInv
  BY DEF Init, Table!Init, TableTyped, HistoryTyped, TableInv
<1>4. QED
  BY <1>1, <1>2, <1>3 DEF IInv, TypeInv, CallInv, Looked, InCall, Waiting

LEMMA InvStep == IInv /\ [Next]_vars => IInv'
<1> SUFFICES ASSUME IInv, [Next]_vars
             PROVE  IInv'
  OBVIOUS
<1>1. TypeInv /\ TableInv /\ \A r \in Requests : CallInv(r)
  BY DEF IInv
<1>2. CASE Remember /\ (Registry \/ \E p \in Pools : Drain(p))
  <2>1. TableTyped' /\ TableInv' /\ TableMoves /\ UNCHANGED calls
    BY <1>1, <1>2, RegistrySteps
  <2>2. TypeInv'
    BY <1>1, <1>2, <2>1, HistoryStep DEF TypeInv, CallsTyped, calls
  <2>3. \A r \in Requests : CallInv(r)'
    BY <1>1, <1>2, <2>1, <2>2, StayingCall DEF Stays, calls
  <2>4. QED
    BY <2>1, <2>2, <2>3 DEF IInv
<1>3. ASSUME Remember, NEW r \in Requests, Arrive(r) \/ Cancel(r) \/ Serve(r)
      PROVE  IInv'
  <2>1. /\ CallsTyped' /\ idle' \in [Pools -> Nat]
        /\ UNCHANGED registry
        /\ Advance(r)
        /\ \A q \in Requests \ {r} : Stays(q)
    BY <1>1, <1>3, CallSteps
  <2>2. TableTyped' /\ TableInv'
    BY <1>1, <2>1 DEF TypeInv, TableTyped, TableInv, registry
  <2>3. TypeInv'
    BY <1>1, <1>3, <2>1, <2>2, HistoryStep DEF TypeInv
  <2>4. ASSUME NEW q \in Requests \ {r}
        PROVE  CallInv(q)'
    BY <1>1, <1>3, <2>1, <2>2, <2>3, StayingCall DEF TableMoves, registry
  <2>5. QED
    BY <1>1, <1>3, <2>1, <2>2, <2>3, <2>4, MovingCall DEF IInv
<1>4. CASE UNCHANGED vars
  BY <1>1, <1>4 DEF vars, registry, calls, history, IInv, TypeInv, CallsTyped, TableTyped,
     HistoryTyped, TableInv, CallInv
<1>5. QED
  BY <1>2, <1>3, <1>4 DEF Next

\* Type correctness; in particular no call uses a nil pool, and the channel of
\* no pool is taken from when it is empty.
THEOREM TypeCorrect == Spec => []TypeOK
<1>1. IInv => TypeOK
  BY TypeParts DEF IInv
<1>2. QED
  BY <1>1, InvInit, InvStep, PTL DEF Spec

\* Every stream runs over a client of a pool that was the open pool of its own
\* engine at some moment of its call, for any number of engines, pools and
\* concurrent requests, however often the table changes.
THEOREM StreamsRightlyRouted == Spec => []RightEngine
<1>1. IInv => RightEngine
  BY DEF IInv, CallInv, RightEngine
<1>2. QED
  BY <1>1, InvInit, InvStep, PTL DEF Spec

\* A well-formed call is refused only if its engine had no open pool for a
\* moment, its caller went away or a dial failed, whatever is entered, closed
\* and removed between the comparison of the address, the two lookups and
\* Acquire.
THEOREM RefusalsJustified == Spec => RefusalJustified
<1> DEFINE Refused(r) == pc[r] \in InCall /\ pc'[r] = "idle" /\ ask[r] \in Scenes
           Reason(r)  == gap[r] \/ ctxDone[r] \/ pc[r] = "dial"
<1>1. ASSUME IInv, [Next]_vars, NEW r \in Requests, Refused(r)
      PROVE  Reason(r)
  <2>1. /\ TypeInv /\ TableInv /\ CallInv(r) /\ CallsTyped /\ TableTyped
    BY <1>1 DEF IInv, TypeInv
  <2>2. pc'[r] # pc[r]
    BY <1>1 DEF InCall, Waiting
  <2>3. ~UNCHANGED vars /\ ~UNCHANGED calls
    BY <2>2 DEF vars, calls
  <2>4. PICK q \in Requests : Arrive(q) \/ Cancel(q) \/ Serve(q)
    BY <1>1, <2>1, <2>3, RegistrySteps DEF Next
  <2>5. q = r
    BY <2>1, <2>2, <2>4, CallSteps DEF Stays
  <2>6. CASE CompareAddress(r)
    BY <1>1, <2>1, <2>6, DirectorAssumption
       DEF CompareAddress, Goto, CallsTyped, TableTyped, TableInv, CallInv, InCall
  <2>7. CASE Exists(r)
    BY <1>1, <2>1, <2>7, DirectorAssumption
       DEF Exists, Goto, CallsTyped, TableTyped, CallInv, InCall
  <2>8. CASE AcquireCheck(r)
    BY <1>1, <2>1, <2>8 DEF AcquireCheck, Goto, CallsTyped, CallInv, Looked
  <2>9. CASE WaitDone(r) \/ Dial(r)
    BY <2>9 DEF WaitDone, Dial
  <2>10. CASE Arrive(r) \/ Cancel(r) \/ Lookup(r) \/ AcquireSelect(r) \/ Receive(r)
    BY <1>1, <2>1, <2>2, <2>10
       DEF Arrive, Cancel, Lookup, AcquireSelect, Receive, Goto, CallsTyped, InCall, Waiting
  <2>11. CASE StreamEnds(r) \/ SendBack(r)
    BY <1>1, <2>11 DEF StreamEnds, SendBack, InCall, Waiting
  <2>12. QED
    BY <2>4, <2>5, <2>6, <2>7, <2>8, <2>9, <2>10, <2>11
       DEF Serve, GrpcProxyTransport, Acquire, ClientClose
<1>2. IInv /\ [Next]_vars => [\A r \in Requests : Refused(r) => Reason(r)]_vars
  BY <1>1
<1>3. QED
  BY <1>2, InvInit, InvStep, PTL DEF Spec, RefusalJustified

-----------------------------------------------------------------------------
(* The clients of an open pool                                             *)

\* Points at which a call has taken a client out of the channel, or its place,
\* and not yet given it back.
Taken == {"dial", "holding", "send"}

Users(p) == {r \in Requests : mine[r] = p /\ pc[r] \in Taken}

\* The clients a pool was filled with are in its channel, with a call, or lost
\* by a dial that failed.
SlotsOf(p) == idle[p] + Cardinality(Users(p)) + lost[p] = Capacity
SlotsKept  == \A p \in open : SlotsOf(p)

\* A call that waits at an open pool finds a client in the channel or a call
\* that has one to give back, unless failed dials cost the pool all it had.
GiverThere ==
  \A r \in Requests :
    pc[r] = "wait" /\ mine[r] \in open =>
      idle[mine[r]] > 0 \/ Users(mine[r]) # {} \/ lost[mine[r]] = Capacity

\* The channel of an open pool, which has room for Capacity clients, has room
\* for the one that is given back: nobody waits in client.pool.clients <- client
\* before the pool is closed.
RoomToGiveBack ==
  \A r \in Requests : pc[r] = "send" /\ mine[r] \in open => idle[mine[r]] < Capacity

LEMMA UsersFinite ==
  ASSUME NEW p
  PROVE  IsFiniteSet(Users(p)) /\ Cardinality(Users(p)) \in Nat
BY FS_Subset, FS_CardinalityType, DirectorAssumption DEF Users

\* A step of one call changes the users of a pool by that call at most.
LEMMA UsersStep ==
  ASSUME NEW r \in Requests, \A q \in Requests \ {r} : Stays(q), NEW p
  PROVE  /\ r \in Users(p) /\ r \in Users(p)' => Cardinality(Users(p)') = Cardinality(Users(p))
         /\ r \notin Users(p) /\ r \notin Users(p)'
              => Cardinality(Users(p)') = Cardinality(Users(p))
         /\ r \notin Users(p) /\ r \in Users(p)'
              => Cardinality(Users(p)') = Cardinality(Users(p)) + 1
         /\ r \in Users(p) /\ r \notin Users(p)'
              => Cardinality(Users(p)') = Cardinality(Users(p)) - 1
<1>1. \A q \in Requests \ {r} : q \in Users(p)' <=> q \in Users(p)
  BY DEF Users, Stays
<1>2. Users(p) \subseteq Requests /\ Users(p)' \subseteq Requests
  BY DEF Users
<1>3. CASE (r \in Users(p)) <=> (r \in Users(p)')
  <2>1. Users(p)' = Users(p)
    BY <1>1, <1>2, <1>3
  <2>2. QED
    BY <1>3, <2>1
<1>4. CASE r \notin Users(p) /\ r \in Users(p)'
  <2>1. Users(p)' = Users(p) \cup {r}
    BY <1>1, <1>2, <1>4
  <2>2. QED
    BY <1>4, <2>1, UsersFinite, FS_AddElement
<1>5. CASE r \in Users(p) /\ r \notin Users(p)'
  <2>1. Users(p)' = Users(p) \ {r}
    BY <1>1, <1>2, <1>5
  <2>2. QED
    BY <1>5, <2>1, UsersFinite, FS_RemoveElement
<1>6. QED
  BY <1>3, <1>4, <1>5

\* Only the end of a failed dial is remembered as a loss.
LEMMA LostStep ==
  ASSUME TypeInv, Remember, NEW p \in open, p \in open',
         NEW r \in Requests, \A q \in Requests \ {r} : Stays(q)
  PROVE  lost'[p] = lost[p] + IF pc[r] = "dial" /\ pc'[r] = "idle" /\ mine[r] = p THEN 1 ELSE 0
<1> DEFINE F == {q \in Requests : (pc[q] = "dial" /\ pc'[q] = "idle") /\ mine[q] = p}
<1>1. p \in Pools /\ lost[p] \in Nat
  BY DEF TypeInv, TableTyped, HistoryTyped
<1>2. lost'[p] = lost[p] + Cardinality(F)
  BY <1>1 DEF Remember
<1>3. F = IF pc[r] = "dial" /\ pc'[r] = "idle" /\ mine[r] = p THEN {r} ELSE {}
  BY DEF Stays
<1>4. QED
  BY <1>1, <1>2, <1>3, FS_EmptySet, FS_Singleton

\* What each step of a call does to the channel of an open pool.
LEMMA SlotsByCall ==
  ASSUME IInv, Remember, NEW r \in Requests, Arrive(r) \/ Cancel(r) \/ Serve(r),
         NEW p \in open, SlotsOf(p)
  PROVE  SlotsOf(p)'
<1>0. /\ TypeInv /\ CallsTyped /\ TableTyped /\ HistoryTyped
      /\ UNCHANGED registry /\ open' = open
      /\ \A q \in Requests \ {r} : Stays(q)
      /\ p \in Pools /\ idle[p] \in Nat /\ lost[p] \in Nat
      /\ Cardinality(Users(p)) \in Nat
      /\ Capacity \in Nat
  BY CallSteps, UsersFinite, DirectorAssumption
     DEF IInv, TypeInv, registry, TableTyped, HistoryTyped
<1> DEFINE Failed == pc[r] = "dial" /\ pc'[r] = "idle" /\ mine[r] = p
<1>1. lost'[p] = lost[p] + IF Failed THEN 1 ELSE 0
  BY <1>0, LostStep
<1>2. (r \in Users(p)) <=> mine[r] = p /\ pc[r] \in Taken
  BY DEF Users
<1>3. (r \in Users(p)') <=> mine'[r] = p /\ pc'[r] \in Taken
  BY DEF Users
<1>4. /\ pc[r] \in Points /\ p # NoPool
      /\ \A l : Goto(r, l) => pc'[r] = l
      /\ Leave(r) => pc'[r] = "idle" /\ mine'[r] = NoPool
  BY <1>0, DirectorAssumption DEF CallsTyped, Goto, Leave
<1>5. ASSUME ~Failed, idle'[p] = idle[p], (r \in Users(p)) <=> (r \in Users(p)')
      PROVE  SlotsOf(p)'
  <2>1. lost'[p] = lost[p] /\ Cardinality(Users(p)') = Cardinality(Users(p))
    BY <1>0, <1>1, <1>5, UsersStep
  <2>2. QED
    BY <1>5, <2>1 DEF SlotsOf
<1>6. CASE Arrive(r) \/ Cancel(r) \/ GrpcProxyTransport(r) \/ AcquireCheck(r) \/ AcquireSelect(r)
           \/ WaitDone(r)
  <2>1. /\ pc[r] \notin Taken /\ pc'[r] \notin Taken /\ UNCHANGED idle /\ ~Failed
    BY <1>4, <1>6
       DEF Arrive, Cancel, GrpcProxyTransport, CompareAddress, Exists, Lookup, AcquireCheck,
           AcquireSelect, WaitDone, Waiting, Taken, Goto
  <2>2. QED
    BY <1>2, <1>3, <1>5, <2>1
<1>7. CASE Receive(r)
  <2>1. /\ pc[r] = "wait" /\ pc'[r] \in Taken /\ mine'[r] = mine[r] /\ mine[r] \in Pools
        /\ idle' = [idle EXCEPT ![mine[r]] = @ - 1]
    BY <1>0, <1>4, <1>7 DEF Receive, Taken, CallsTyped, AtPool
  <2>2. CASE mine[r] = p
    <3>1. Cardinality(Users(p)') = Cardinality(Users(p)) + 1
      BY <1>0, <1>2, <1>3, <2>1, <2>2, UsersStep DEF Taken
    <3>2. idle'[p] = idle[p] - 1 /\ lost'[p] = lost[p]
      BY <1>0, <1>1, <2>1, <2>2 DEF TableTyped
    <3>3. QED
      BY <1>0, <3>1, <3>2 DEF SlotsOf
  <2>3. CASE mine[r] # p
    <3>1. idle'[p] = idle[p]
      BY <1>0, <2>1, <2>3 DEF TableTyped
    <3>2. QED
      BY <1>2, <1>3, <1>5, <2>1, <2>3, <3>1
  <2>4. QED
    BY <2>2, <2>3
<1>8. CASE Dial(r)
  <2>1. pc[r] = "dial" /\ UNCHANGED idle
    BY <1>8 DEF Dial
  <2>2. CASE Goto(r, "holding") /\ UNCHANGED <<ask, mine, ctxDone>>
    BY <1>2, <1>3, <1>4, <1>5, <2>1, <2>2 DEF Taken
  <2>3. CASE Leave(r)
    <3>1. CASE mine[r] = p
      <4>1. Cardinality(Users(p)') = Cardinality(Users(p)) - 1
        BY <1>0, <1>2, <1>3, <1>4, <2>1, <2>3, <3>1, UsersStep DEF Taken
      <4>2. lost'[p] = lost[p] + 1
        BY <1>1, <1>4, <2>1, <2>3, <3>1
      <4>3. QED
        BY <1>0, <2>1, <4>1, <4>2 DEF SlotsOf
    <3>2. CASE mine[r] # p
      BY <1>2, <1>3, <1>4, <1>5, <2>1, <2>3, <3>2
    <3>3. QED
      BY <3>1, <3>2
  <2>4. QED
    BY <1>8, <2>2, <2>3 DEF Dial
<1>9. CASE StreamEnds(r)
  <2>1. pc[r] = "holding" /\ UNCHANGED idle
    BY <1>9 DEF StreamEnds
  <2>2. CASE mine[r] \in open
    <3>1. pc'[r] = "send" /\ mine'[r] = mine[r]
      BY <1>4, <1>9, <2>2 DEF StreamEnds
    <3>2. QED
      BY <1>2, <1>3, <1>5, <2>1, <3>1 DEF Taken
  <2>3. CASE mine[r] \notin open
    <3>1. Leave(r) /\ mine[r] # p
      BY <1>9, <2>3 DEF StreamEnds
    <3>2. QED
      BY <1>2, <1>3, <1>4, <1>5, <2>1, <3>1
  <2>4. QED
    BY <2>2, <2>3
<1>10. CASE SendBack(r)
  <2>1. /\ pc[r] = "send" /\ pc'[r] = "idle" /\ mine'[r] = NoPool
        /\ mine[r] = p => idle' = [idle EXCEPT ![p] = @ + 1]
        /\ mine[r] # p => idle'[p] = idle[p]
    BY <1>0, <1>4, <1>10 DEF SendBack, TableTyped, CallsTyped
  <2>2. CASE mine[r] = p
    <3>1. Cardinality(Users(p)') = Cardinality(Users(p)) - 1
      BY <1>0, <1>2, <1>3, <1>4, <2>1, <2>2, UsersStep DEF Taken
    <3>2. idle'[p] = idle[p] + 1 /\ lost'[p] = lost[p]
      BY <1>0, <1>1, <2>1, <2>2 DEF TableTyped
    <3>3. QED
      BY <1>0, <3>1, <3>2 DEF SlotsOf
  <2>3. CASE mine[r] # p
    BY <1>2, <1>3, <1>4, <1>5, <2>1, <2>3
  <2>4. QED
    BY <2>2, <2>3
<1>11. QED
  BY <1>6, <1>7, <1>8, <1>9, <1>10 DEF Serve, Acquire, ClientClose

LEMMA SlotsInit == Init => SlotsKept
BY DEF Init, Table!Init, SlotsKept

LEMMA SlotsStep == IInv /\ SlotsKept /\ [Next]_vars => SlotsKept'
<1> SUFFICES ASSUME IInv, SlotsKept, [Next]_vars, NEW p \in open'
             PROVE  SlotsOf(p)'
  BY DEF SlotsKept
<1>1. CASE Remember /\ (Registry \/ \E q \in Pools : Drain(q))
  <2>1. ClientsMove /\ UNCHANGED calls /\ TableTyped' /\ p \in Pools
    BY <1>1, RegistrySteps DEF IInv, TableTyped
  <2>2. Users(p)' = Users(p)
    BY <2>1 DEF Users, calls
  <2>3. CASE p \in open
    <3> DEFINE F == {r \in Requests : (pc[r] = "dial" /\ pc'[r] = "idle") /\ mine[r] = p}
    <3>1. lost[p] \in Nat /\ lost'[p] = lost[p] + Cardinality(F)
      BY <1>1, <2>1, <2>3 DEF Remember, IInv, TypeInv, HistoryTyped
    <3>2. F = {}
      BY <2>1 DEF calls
    <3>3. lost'[p] = lost[p]
      BY <3>1, <3>2, FS_EmptySet
    <3>4. QED
      BY <2>1, <2>2, <2>3, <3>3 DEF ClientsMove, SlotsKept, SlotsOf
  <2>4. CASE p \notin open
    <3>1. lost'[p] = 0 /\ idle'[p] = Capacity /\ Users(p) = {}
      BY <1>1, <2>1, <2>4 DEF Remember, ClientsMove, Users
    <3>2. QED
      BY <2>2, <3>1, FS_EmptySet, DirectorAssumption DEF SlotsOf
  <2>5. QED
    BY <2>3, <2>4
<1>2. ASSUME Remember, NEW r \in Requests, Arrive(r) \/ Cancel(r) \/ Serve(r)
      PROVE  SlotsOf(p)'
  <2>1. open' = open
    BY <1>2, CallSteps DEF IInv, registry
  <2>2. QED
    BY <1>2, <2>1, SlotsByCall DEF SlotsKept
<1>3. CASE UNCHANGED vars
  BY <1>3 DEF vars, registry, calls, history, SlotsKept, SlotsOf, Users
<1>4. QED
  BY <1>1, <1>2, <1>3 DEF Next

LEMMA SlotsInvariant == Spec => [](IInv /\ SlotsKept)
<1>1. Init => IInv /\ SlotsKept
  BY InvInit, SlotsInit
<1>2. IInv /\ SlotsKept /\ [Next]_vars => IInv' /\ SlotsKept'
  BY InvStep, SlotsStep
<1>3. QED
  BY <1>1, <1>2, PTL DEF Spec

\* No client of an open pool is lost but by a failed dial, and none is counted
\* twice, for any number of engines, pools and requests and any capacity.
THEOREM ClientsConserved == Spec => []SlotsKept
BY SlotsInvariant, PTL

\* What WaiterServedOrReleased rests on: nobody waits at an open pool for a
\* client that can come from nowhere.
THEOREM WaitersHaveGiver == Spec => []GiverThere
<1>1. IInv /\ SlotsKept => GiverThere
  <2>1. SUFFICES ASSUME IInv, SlotsKept, NEW r \in Requests, pc[r] = "wait", mine[r] \in open,
                        Users(mine[r]) = {}, lost[mine[r]] # Capacity
                 PROVE  idle[mine[r]] > 0
    BY DEF GiverThere
  <2>2. mine[r] \in Pools /\ idle[mine[r]] \in Nat /\ lost[mine[r]] \in Nat /\ Capacity \in Nat
    BY <2>1, DirectorAssumption DEF IInv, TypeInv, TableTyped, HistoryTyped
  <2>3. idle[mine[r]] + 0 + lost[mine[r]] = Capacity
    BY <2>1, FS_EmptySet DEF SlotsKept, SlotsOf
  <2>4. QED
    BY <2>1, <2>2, <2>3
<1>2. QED
  BY <1>1, SlotsInvariant, PTL

\* Giving a client back to an open pool never waits: SendBack needs no guard.
THEOREM GivingBackNeverWaits == Spec => []RoomToGiveBack
<1>1. IInv /\ SlotsKept => RoomToGiveBack
  <2>1. SUFFICES ASSUME IInv, SlotsKept, NEW r \in Requests, pc[r] = "send", mine[r] \in open
                 PROVE  idle[mine[r]] < Capacity
    BY DEF RoomToGiveBack
  <2>2. mine[r] \in Pools /\ idle[mine[r]] \in Nat /\ lost[mine[r]] \in Nat /\ Capacity \in Nat
    BY <2>1, DirectorAssumption DEF IInv, TypeInv, TableTyped, HistoryTyped
  <2>3. r \in Users(mine[r])
    BY <2>1 DEF Users, Taken
  <2>4. Cardinality(Users(mine[r])) \in Nat /\ Cardinality(Users(mine[r])) # 0
    BY <2>3, UsersFinite, FS_EmptySet
  <2>5. idle[mine[r]] + Cardinality(Users(mine[r])) + lost[mine[r]] = Capacity
    BY <2>1 DEF SlotsKept, SlotsOf
  <2>6. QED
    BY <2>2, <2>4, <2>5
<1>2. QED
  BY <1>1, SlotsInvariant, PTL

=============================================================================
