----------------------------- MODULE EngineTable -----------------------------
(***************************************************************************)
(* What the table of engine pools is to those who only read it, without    *)
(* the cluster, the services and the goroutines that write it: a pool is   *)
(* in one entry at most, it is closed only while it is in the table, and   *)
(* it is entered once and never opened again.                              *)
(*                                                                         *)
(* With a single writer an engine has one pool at a time, and a pool       *)
(* leaves the table only after it was closed.  With several, which do not  *)
(* know of each other, an entry may be overwritten or removed while its    *)
(* pool is open; the pool then stays open outside the table for ever.      *)
(*                                                                         *)
(* EngineRegistry implements this specification, with a single writer      *)
(* while discovery alone writes (TableKept there); Director routes         *)
(* requests over it, whoever writes.                                       *)
(***************************************************************************)
CONSTANTS Scenes, Pools, NoPool,
          SingleWriter  \* nobody writes the table but one goroutine

VARIABLES
  table,  \* the pool of each scene, or NoPool
  open    \* the pools that were entered and are not closed

tableVars == <<table, open>>

Entered == {table[n] : n \in Scenes} \ {NoPool}

Init ==
  /\ table = [n \in Scenes |-> NoPool]
  /\ open = {}

\* A new pool is entered, by a single writer for an engine that has none.
Publish(n, p) ==
  /\ SingleWriter => table[n] = NoPool
  /\ p \in Pools \ (Entered \cup open)
  /\ table' = [table EXCEPT ![n] = p]
  /\ open' = open \cup {p}

Close(n) ==
  /\ table[n] \in open
  /\ open' = open \ {table[n]}
  /\ UNCHANGED table

\* An entry is removed, by a single writer after its pool was closed.
Remove(n) ==
  /\ table[n] \in Entered
  /\ SingleWriter => table[n] \notin open
  /\ table' = [table EXCEPT ![n] = NoPool]
  /\ UNCHANGED open

Next == \E n \in Scenes : Close(n) \/ Remove(n) \/ \E p \in Pools : Publish(n, p)

Spec == Init /\ [][Next]_tableVars

=============================================================================
