------------------------------ MODULE ConnLease ------------------------------
(***************************************************************************)
(* What a connection pool promises, without its channel, its goroutines    *)
(* and its closing protocol: it keeps at most Limit connections open, and  *)
(* while a request streams over one nobody else has it and nobody closes   *)
(* it.  ClientPool implements this specification (PoolLeases there).       *)
(***************************************************************************)
EXTENDS Integers, FiniteSets

CONSTANTS Requests, Clients, NoClient, Limit

VARIABLES
  open,   \* the clients with an open connection
  lease   \* the client each request streams over, or NoClient

leaseVars == <<open, lease>>

Leased == {lease[r] : r \in Requests} \ {NoClient}

Init ==
  /\ open \in SUBSET Clients
  /\ Cardinality(open) <= Limit
  /\ lease = [r \in Requests |-> NoClient]

\* A request starts to use a connection that is open and free ...
Grant(r, c) ==
  /\ lease[r] = NoClient
  /\ c \in open \ Leased
  /\ lease' = [lease EXCEPT ![r] = c]
  /\ UNCHANGED open

\* ... or one dialled for it.
GrantNew(r, c) ==
  /\ lease[r] = NoClient
  /\ c \in Clients \ open
  /\ open' = open \cup {c}
  /\ Cardinality(open') <= Limit
  /\ lease' = [lease EXCEPT ![r] = c]

Return(r) ==
  /\ lease[r] # NoClient
  /\ lease' = [lease EXCEPT ![r] = NoClient]
  /\ UNCHANGED open

\* A free connection is closed: it was idle too long, or the pool is closed.
Discard(c) ==
  /\ c \in open \ Leased
  /\ open' = open \ {c}
  /\ UNCHANGED lease

Next ==
  \/ \E r \in Requests, c \in Clients : Grant(r, c) \/ GrantNew(r, c)
  \/ \E r \in Requests : Return(r)
  \/ \E c \in Clients : Discard(c)

Spec == Init /\ [][Next]_leaseVars

=============================================================================
