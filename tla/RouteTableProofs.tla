-------------------------- MODULE RouteTableProofs --------------------------
(***************************************************************************)
(* Theorems about RouteTable, for any file contents, routes of the gateway *)
(* and number of saves.                                                    *)
(***************************************************************************)
EXTENDS RouteTable, TLAPS

-----------------------------------------------------------------------------
(* Typing                                                                  *)

\* At most one save is under way, and each save is at most two events.
EventsInv ==
  /\ \A v, w \in saving : v = w
  /\ events <= 2 * saves /\ (saving # {} => events <= 2 * saves - 1)

TypeInv == TypeOK /\ EventsInv

\* A file that is cut short is still a list of lines.
LEMMA CutTyped ==
  ASSUME NEW v \in Seq(Line), NEW f \in Cut(v)
  PROVE  f \in Seq(Line)
<1>1. CASE f \in {SubSeq(v, 1, n) : n \in 0..(Len(v) - 1)}
  BY <1>1
<1>2. ASSUME NEW n \in 1..Len(v), NEW e \in Line, f = Append(SubSeq(v, 1, n - 1), e)
      PROVE  f \in Seq(Line)
  <2>1. SubSeq(v, 1, n - 1) \in Seq(Line)
    OBVIOUS
  <2>2. QED
    BY <1>2, <2>1
<1>3. ASSUME NEW e
      PROVE  Parts(e) \subseteq Line
  <2>1. ASSUME e \in Entry
        PROVE  /\ [path |-> e.path, method |-> e.method, to |-> NoTarget] \in Entry
               /\ [path |-> e.path, method |-> "other", to |-> NoTarget] \in Entry
    BY <2>1 DEF Entry
  <2>2. QED
    BY <2>1 DEF Parts, Line
<1>4. CASE \E n \in 1..Len(v) : \E part \in Parts(v[n]) : f = Append(SubSeq(v, 1, n - 1), part)
  BY <1>2, <1>3, <1>4
<1>5. QED
  BY <1>1, <1>4, Zenon DEF Cut

LEMMA TypeInit == Init => TypeInv
<1> SUFFICES ASSUME Init
             PROVE  TypeInv
  OBVIOUS
<1>1. tree \subseteq Entry
  <2>1. \A r \in Own : r[1] \in Paths /\ r[2] \in Methods
    BY RouteAssumption
  <2>2. QED
    BY <2>1 DEF Init, Entry
<1>2. QED
  BY <1>1, RouteAssumption DEF Init, TypeInv, TypeOK, EventsInv

LEMMA TypeStep == TypeInv /\ [Next]_vars => TypeInv'
<1> SUFFICES ASSUME TypeInv, [Next]_vars
             PROVE  TypeInv'
  OBVIOUS
<1> USE RouteAssumption DEF TypeInv, TypeOK, EventsInv, editor, table
<1>1. ASSUME NEW v \in Versions, SaveBegin(v)
      PROVE  TypeInv'
  <2>1. v \in Seq(Line) /\ file' \in Seq(Line)
    BY <1>1, CutTyped DEF SaveBegin
  <2>2. QED
    BY <1>1, <2>1 DEF SaveBegin, Notify
<1>2. CASE SaveEnd
  <2>1. file' \in Seq(Line)
    BY <1>2 DEF SaveEnd
  <2>2. events' \in Nat /\ events' <= 2 * saves' /\ saving' = {}
    BY <1>2 DEF SaveEnd, Notify
  <2>3. QED
    BY <1>2, <2>1, <2>2 DEF SaveEnd
<1>3. CASE AddFirst
  BY <1>3 DEF AddFirst, GetRouterTask
<1>4. CASE WatchConfig
  BY <1>4 DEF WatchConfig
<1>5. CASE OnConfigChange
  BY <1>5 DEF OnConfigChange
<1>6. CASE WatcherEvent
  BY <1>6 DEF WatcherEvent
<1>7. CASE Reload
  BY <1>7 DEF Reload, GetRouterTask
<1>8. CASE ReloadDone
  BY <1>8 DEF ReloadDone
<1>9. CASE AddRoute
  <2>1. Head(todo) \in Line /\ todo' \in Seq(Line)
    BY <1>9 DEF AddRoute
  <2>2. Head(todo) \in Entry =>
          Head(todo).path \in Paths /\ Head(todo).to \in Targets \cup {NoTarget}
    BY DEF Entry
  <2>3. /\ routeMap' \in [Paths -> Targets \cup {NoTarget, Unknown}]
        /\ tree' \subseteq Entry /\ process' \in {"running", "panicked"}
    BY <1>9, <2>2 DEF AddRoute, Register
  <2>4. QED
    BY <1>9, <2>1, <2>3 DEF AddRoute
<1>10. CASE UNCHANGED vars
  BY <1>10 DEF vars
<1>11. QED
  BY <1>1, <1>2, <1>3, <1>4, <1>5, <1>6, <1>7, <1>8, <1>9, <1>10
     DEF Next, Editor, Server, Watcher

\* Every variable keeps its type; no more events wait than saves have caused.
THEOREM TypeCorrect == Spec => []TypeOK
<1>1. TypeInv => TypeOK
  BY DEF TypeInv
<1>2. QED
  BY <1>1, TypeInit, TypeStep, PTL DEF Spec

-----------------------------------------------------------------------------
(* The table                                                               *)

\* Entries are added by one goroutine at a time, and while some are left to add
\* the settings they come from are not read again.
AddingInv ==
  /\ ToSet(todo) \subseteq ToSet(config)
  /\ todo # <<>> => watcher = "add" \/ (main = "add" /\ watcher = "off")
  /\ main \in {"init", "add"} <=> watcher = "off"

TableInv == TypeInv /\ AddingInv /\ TableAgrees /\ PanicsForAReason

\* What addRoute does with a line: nothing, a new route of a path nobody had,
\* or a panic, over a line that is no entry, a route of the gateway or a path gin
\* refuses.
LEMMA AddRouteFacts ==
  ASSUME TypeInv, TableAgrees, AddRoute
  PROVE  LET e == Head(todo)
         IN  /\ e \in Line
             /\ tree' \subseteq tree \cup {e}
             /\ \A p \in Paths : routeMap[p] # Unknown => routeMap'[p] = routeMap[p]
             /\ e \in Entry => routeMap'[e.path] # Unknown
             /\ e \notin tree /\ e \in tree' => routeMap'[e.path] = e.to
             /\ process' = "panicked" =>
                  \/ e \notin Entry
                  \/ <<e.path, e.method>> \in Own \/ e.path \in Refused
                  \/ \E s \in tree' : s.method = e.method /\ <<s.path, e.path>> \in Clashes
<1> DEFINE e == Head(todo)
<1>1. /\ e \in Line
      /\ e \in Entry => e.path \in Paths /\ e.to \in Targets \cup {NoTarget}
      /\ process = "running"
      /\ routeMap \in [Paths -> Targets \cup {NoTarget, Unknown}]
      /\ tree \subseteq Entry
  <2>1. e \in Line
    BY DEF AddRoute, TypeInv, TypeOK
  <2>2. QED
    BY <2>1 DEF AddRoute, TypeInv, TypeOK, Entry
<1>2. CASE e \notin Entry
  BY <1>1, <1>2 DEF AddRoute
<1>3. CASE e \in Entry /\ routeMap[e.path] # Unknown
  BY <1>1, <1>3 DEF AddRoute, table
<1>4. CASE e \in Entry /\ routeMap[e.path] = Unknown
  <2>1. routeMap' = [routeMap EXCEPT ![e.path] = e.to] /\ Register(e)
    BY <1>4 DEF AddRoute
  <2>2. \A s \in tree : s.path = e.path => <<s.path, s.method>> \in Own
    <3>1. \A s \in tree : s.to \in Targets \cup {NoTarget}
      BY <1>1 DEF Entry
    <3>2. QED
      BY <1>4, <3>1, RouteAssumption DEF TableAgrees
  <2>3. process' = "panicked" =>
          \/ <<e.path, e.method>> \in Own \/ e.path \in Refused
          \/ \E s \in tree' : s.method = e.method /\ <<s.path, e.path>> \in Clashes
    BY <1>1, <2>1, <2>2 DEF Register, GinRefuses
  <2>4. tree' \subseteq tree \cup {e}
    BY <2>1 DEF Register
  <2>5. e.to # Unknown
    BY <1>1, <1>4, RouteAssumption
  <2>6. QED
    BY <1>1, <1>4, <2>1, <2>3, <2>4, <2>5
<1>5. QED
  BY <1>2, <1>3, <1>4

LEMMA TableInit == Init => TableInv
<1> SUFFICES ASSUME Init
             PROVE  TableInv
  OBVIOUS
<1>1. ToSet(todo) = {}
  BY DEF Init, ToSet
<1>2. TableAgrees
  <2>1. \A r \in Own : r = <<r[1], r[2]>>
    BY RouteAssumption
  <2>2. QED
    BY <2>1 DEF Init, TableAgrees
<1>3. QED
  BY <1>1, <1>2, TypeInit DEF Init, TableInv, AddingInv, PanicsForAReason

LEMMA TableStep == TableInv /\ [Next]_vars => TableInv'
<1> SUFFICES ASSUME TableInv, [Next]_vars
             PROVE  TableInv'
  OBVIOUS
<1> USE DEF editor, table
<1>0. TypeInv /\ TypeInv'
  BY TypeStep DEF TableInv
<1>1. ASSUME UNCHANGED <<config, todo, table>>,
             main' = main \/ main \notin {"init", "add"} \/ (main = "add" /\ todo = <<>>),
             watcher' = watcher \/ todo = <<>>,
             main' \in {"init", "add"} <=> watcher' = "off"
      PROVE  TableInv'
  BY <1>0, <1>1 DEF TableInv, AddingInv, TableAgrees, PanicsForAReason
<1>2. CASE Editor
  BY <1>1, <1>2 DEF Editor, SaveBegin, SaveEnd, TableInv, AddingInv
<1>3. CASE WatchConfig \/ OnConfigChange
  BY <1>1, <1>3 DEF WatchConfig, OnConfigChange, TableInv, AddingInv
<1>4. CASE ReloadDone
  BY <1>1, <1>4 DEF ReloadDone, TableInv, AddingInv
<1>5. CASE WatcherEvent
  <2>1. todo = <<>> /\ watcher = "wait"
    BY <1>5 DEF WatcherEvent, TableInv, AddingInv
  <2>2. ToSet(todo') = {}
    BY <1>5, <2>1 DEF WatcherEvent, ToSet
  <2>3. QED
    BY <1>0, <1>5, <2>1, <2>2
       DEF WatcherEvent, TableInv, AddingInv, TableAgrees, PanicsForAReason
<1>6. CASE AddFirst \/ Reload
  <2>1. todo = <<>> /\ process = "running" /\ UNCHANGED <<config, routeMap, tree>>
    BY <1>6 DEF AddFirst, Reload, TableInv, AddingInv
  <2>2. CASE todo' = config /\ UNCHANGED process
    BY <1>0, <1>6, <2>1, <2>2
       DEF AddFirst, Reload, TableInv, AddingInv, TableAgrees, PanicsForAReason
  <2>3. CASE NoList \in ToSet(config) /\ UNCHANGED todo
    <3>1. ~(ToSet(config) \subseteq Entry)
      BY <2>3, RouteAssumption
    <3>2. QED
      BY <1>0, <1>6, <2>1, <2>3, <3>1
         DEF AddFirst, Reload, TableInv, AddingInv, TableAgrees, PanicsForAReason
  <2>4. QED
    BY <1>6, <2>2, <2>3 DEF AddFirst, Reload, GetRouterTask
<1>7. CASE AddRoute
  <2> DEFINE e == Head(todo)
  <2>1. /\ tree' \subseteq tree \cup {e}
        /\ \A p \in Paths : routeMap[p] # Unknown => routeMap'[p] = routeMap[p]
        /\ e \notin tree /\ e \in tree' => routeMap'[e.path] = e.to
        /\ process' = "panicked" =>
             \/ e \notin Entry
             \/ <<e.path, e.method>> \in Own \/ e.path \in Refused
             \/ \E s \in tree' : s.method = e.method /\ <<s.path, e.path>> \in Clashes
    BY <1>0, <1>7, AddRouteFacts DEF TableInv
  <2>2. /\ todo \in Seq(Line) /\ todo # <<>> /\ todo' = Tail(todo)
        /\ UNCHANGED <<config, main, watcher>> /\ process = "running"
    BY <1>0, <1>7 DEF AddRoute, TypeInv, TypeOK
  <2>3. e \in ToSet(todo) /\ ToSet(todo') \subseteq ToSet(todo)
    BY <2>2 DEF ToSet
  <2>4. AddingInv'
    <3>1. ToSet(todo)' \subseteq ToSet(config)'
      BY <2>2, <2>3 DEF TableInv, AddingInv, ToSet
    <3>2. QED
      BY <2>2, <3>1 DEF TableInv, AddingInv
  <2>5. TableAgrees'
    <3>1. \A s \in tree : s.path \in Paths /\ s.to # Unknown
      BY <1>0, RouteAssumption DEF TypeInv, TypeOK, Entry
    <3>2. QED
      BY <2>1, <3>1 DEF TableInv, TableAgrees
  <2>6. PanicsForAReason'
    <3>1. e \in ToSet(config)'
      BY <2>2, <2>3 DEF TableInv, AddingInv, ToSet
    <3>2. QED
      BY <2>1, <3>1 DEF PanicsForAReason
  <2>7. QED
    BY <1>0, <2>4, <2>5, <2>6 DEF TableInv
<1>8. CASE UNCHANGED vars
  BY <1>0, <1>8 DEF vars, TableInv, AddingInv, TableAgrees, PanicsForAReason
<1>9. QED
  BY <1>2, <1>3, <1>4, <1>5, <1>6, <1>7, <1>8 DEF Next, Server, Watcher

\* Beside the gateway's own routes gin serves what routeMap says, whatever the
\* file contains and however saves overlap with reloads.
THEOREM Agrees == Spec => []TableAgrees
<1>1. TableInv => TableAgrees
  BY DEF TableInv
<1>2. QED
  BY <1>1, TableInit, TableStep, PTL DEF Spec

\* The gateway ends over its route file only for a line that is no entry, a route
\* of its own or a path gin refuses, whatever is saved, however the file is cut
\* and however saves overlap with reloads.
THEOREM PanicsExplained == Spec => []PanicsForAReason
<1>1. TableInv => PanicsForAReason
  BY DEF TableInv
<1>2. QED
  BY <1>1, TableInit, TableStep, PTL DEF Spec

-----------------------------------------------------------------------------
(* What becomes of a save                                                  *)

\* What is no entry has no path.
Known(e) == e \in Entry => routeMap[e.path] # Unknown

AtRest == process = "running" /\ saving = {} /\ events = 0 /\ watcher = "wait"

\* Whenever the watcher has come to rest every path of the file is known.
RestKnowsFile == AtRest => \A e \in ToSet(file) : Known(e)

\* The safety half of SavedPathsKnown: after a save that ends with the callback
\* installed no save is ever missed, neither this one nor a later one.
SavesFollowed == [](main = "serving" /\ saving # {} => []RestKnowsFile)

\* Where the contents of the file are on their way into the table: in an event
\* to come, in the settings before a reload, in the entries left to add, or
\* there.
Following ==
  /\ main = "serving"
  /\ \/ process # "running" \/ saving # {} \/ events > 0
     \/ watcher = "sleep" /\ config = file
     \/ watcher = "add" /\ \A e \in ToSet(file) : Known(e) \/ e \in ToSet(todo)
     \/ \A e \in ToSet(file) : Known(e)

LEMMA EntryFacts ==
  ASSUME NEW s \in Seq(Line)
  PROVE  /\ ToSet(s) \subseteq Line
         /\ s # <<>> => \A d \in ToSet(s) : d = Head(s) \/ d \in ToSet(Tail(s))
<1>1. ToSet(s) \subseteq Line
  BY DEF ToSet
<1>2. ASSUME s # <<>>, NEW i \in 1..Len(s), i # 1
      PROVE  s[i] \in ToSet(Tail(s))
  <2>1. i - 1 \in 1..Len(Tail(s)) /\ Tail(s)[i - 1] = s[i]
    BY <1>2
  <2>2. i - 1 \in DOMAIN Tail(s)
    BY <1>2, <2>1
  <2>3. QED
    BY <2>1, <2>2 DEF ToSet
<1>3. ASSUME s # <<>>, NEW d \in ToSet(s)
      PROVE  d = Head(s) \/ d \in ToSet(Tail(s))
  <2>1. PICK i \in 1..Len(s) : d = s[i]
    BY <1>3 DEF ToSet
  <2>2. QED
    BY <1>2, <1>3, <2>1
<1>4. QED
  BY <1>1, <1>3

LEMMA FollowingStep == TableInv /\ Following /\ [Next]_vars => Following'
<1> SUFFICES ASSUME TableInv, Following, [Next]_vars
             PROVE  Following'
  OBVIOUS
<1> USE DEF editor, table
<1>0. /\ TypeInv /\ TypeInv' /\ AddingInv /\ TableAgrees
      /\ main = "serving" /\ watcher # "off" /\ events \in Nat
  BY TypeStep DEF TableInv, AddingInv, TypeInv, TypeOK, Following
<1>1. CASE Editor
  <2>1. main' = main /\ (saving' # {} \/ events' = events + 1)
    BY <1>0, <1>1 DEF Editor, SaveBegin, SaveEnd, Notify
  <2>2. QED
    BY <1>0, <2>1 DEF Following
<1>2. CASE Server
  BY <1>0, <1>2 DEF Server, AddFirst, WatchConfig, OnConfigChange
<1>3. CASE WatcherEvent
  BY <1>0, <1>3 DEF WatcherEvent, Following
<1>4. CASE Reload
  BY <1>0, <1>4 DEF Reload, GetRouterTask, Following, Known
<1>5. CASE ReloadDone
  <2>1. ToSet(todo) = {}
    BY <1>5 DEF ReloadDone, ToSet
  <2>2. QED
    BY <1>0, <1>5, <2>1 DEF ReloadDone, Following, Known
<1>6. CASE AddRoute
  <2> DEFINE e == Head(todo)
  <2>1. /\ \A p \in Paths : routeMap[p] # Unknown => routeMap'[p] # Unknown
        /\ e \in Entry => routeMap'[e.path] # Unknown
    BY <1>0, <1>6, AddRouteFacts
  <2>2. /\ todo \in Seq(Line) /\ todo # <<>> /\ todo' = Tail(todo)
        /\ UNCHANGED <<editor, events, config, main, watcher>>
    BY <1>0, <1>6 DEF AddRoute, TypeInv, TypeOK
  <2>3. watcher = "add" /\ process = "running"
    BY <1>0, <1>6, <2>2 DEF AddingInv, AddRoute
  <2>4. \A d \in ToSet(todo) : d = e \/ d \in ToSet(todo')
    BY <2>2, EntryFacts
  <2>5. \A d \in ToSet(file) : d \in Entry => d.path \in Paths
    BY DEF Entry
  <2>6. \A d \in ToSet(file) : Known(d) => Known(d)'
    BY <2>1, <2>2, <2>5 DEF Known
  <2>7. ToSet(file)' = ToSet(file)
    BY <2>2
  <2>8. CASE saving # {} \/ events > 0
    BY <1>0, <2>2, <2>8 DEF Following
  <2>9. CASE saving = {} /\ ~(events > 0)
    <3>1. \A d \in ToSet(file) : Known(d) \/ d \in ToSet(todo)
      BY <2>3, <2>9 DEF Following
    <3>2. \A d \in ToSet(file) : Known(d)' \/ d \in ToSet(todo')
      BY <2>1, <2>4, <2>6, <3>1 DEF Known
    <3>3. QED
      BY <1>0, <2>2, <2>3, <2>7, <3>2 DEF Following
  <2>10. QED
    BY <2>8, <2>9
<1>7. CASE UNCHANGED vars
  BY <1>7 DEF vars, Following, Known
<1>8. QED
  BY <1>1, <1>2, <1>3, <1>4, <1>5, <1>6, <1>7 DEF Next, Watcher

\* For any contents of the file and any overlap of saves, events, reloads and
\* the sleep between them.
THEOREM NoSaveMissed == Spec => SavesFollowed
<1>1. main = "serving" /\ saving # {} => Following
  BY DEF Following
<1>2. TableInv /\ Following => RestKnowsFile
  BY DEF Following, RestKnowsFile, AtRest, TableInv, TypeInv, TypeOK
<1>3. TableInv /\ [Next]_vars => TableInv'
  BY TableStep
<1>4. QED
  BY <1>1, <1>2, <1>3, TableInit, FollowingStep, PTL DEF Spec, SavesFollowed

=============================================================================
