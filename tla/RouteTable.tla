----------------------------- MODULE RouteTable -----------------------------
(***************************************************************************)
(* The routes of the HTTP reverse proxy and their hot reload               *)
(* (pkg/plugins/proxy/http.go).  The file RouteConfig.yaml is read when    *)
(* the package is initialised, its routes are added when the server        *)
(* starts, and a watcher adds the new ones whenever the file changes.      *)
(*                                                                         *)
(* An entry has a path, a method and a target; "other" is every method     *)
(* that addRoute ignores, an upper-case or a missing one.  What stands in  *)
(* the list instead of an entry, null or a scalar, is NoMap, and a file    *)
(* whose "route" is something else than a list is <<NoList>>.              *)
(* The editor of the file, the watcher inside viper and gin's tree are     *)
(* external: a save truncates the file before it writes it, each of the    *)
(* two is an event, viper reads the file again at an event and then calls  *)
(* back, and gin panics when a method and path are registered twice and at *)
(* paths it refuses or cannot have in one tree.                            *)
(***************************************************************************)
EXTENDS Integers, Sequences, SequencesExt

CONSTANTS
  Paths, Targets,
  NoTarget,  \* no value under the key "to"
  Own,       \* the routes of the gateway itself, <<path, method>>
  NoMap, NoList,
  Refused,   \* paths with a wildcard gin does not take
  Clashes,   \* pairs of paths gin joins to one ("a" and "/a"), or whose
             \* wildcards exclude each other
  Versions,  \* contents RouteConfig.yaml is saved with
  MaxSaves   \* bound on the saves

Methods == {"get", "post"}
Entry   == [path : Paths, method : Methods \cup {"other"}, to : Targets \cup {NoTarget}]
Line    == Entry \cup {NoMap, NoList}

Unknown == "unknown"  \* a path routeMap does not know

ASSUME RouteAssumption ==
  /\ Own \subseteq Paths \X Methods
  /\ Versions \subseteq Seq(Line)
  /\ NoMap \notin Entry /\ NoList \notin Entry
  /\ NoTarget \notin Targets /\ Unknown \notin Targets \cup {NoTarget}
  /\ MaxSaves \in Nat

VARIABLES
  file,      \* RouteConfig.yaml
  saving,    \* the versions a save under way will leave, none or one
  saves,     \* saves so far
  events,    \* events of the file system the watcher has not seen
  config,    \* the settings routerViper holds
  main,      \* where definitionRoute is
  watcher,   \* where viper's goroutine is
  todo,      \* entries getRouterTask has still to add
  routeMap,  \* the paths it knows, with their targets
  tree,      \* what gin serves: a set of [path, method, to]
  process    \* the gateway process

editor == <<file, saving, saves>>
table  == <<routeMap, tree, process>>
vars   == <<editor, events, config, main, watcher, todo, table>>

\* init() reads the file; the routes of the gateway come before the file's.
Init ==
  /\ file \in Versions /\ saving = {} /\ saves = 0 /\ events = 0
  /\ config = file
  /\ main = "init" /\ watcher = "off" /\ todo = <<>>
  /\ routeMap = [p \in Paths |-> Unknown]
  /\ tree = {[path |-> r[1], method |-> r[2], to |-> NoTarget] : r \in Own}
  /\ process = "running"

Notify == events' = IF watcher = "off" THEN 0 ELSE events + 1

-----------------------------------------------------------------------------
(* The editor.                                                             *)

\* What a cut may leave of its last entry: the start of a line, or an entry
\* without its target or without all that follows its path.  The values are
\* quoted, so a file that is cut inside one does not parse.
Parts(e) ==
  IF e \in Entry
    THEN {NoMap, [path |-> e.path, method |-> e.method, to |-> NoTarget],
          [path |-> e.path, method |-> "other", to |-> NoTarget]}
    ELSE {}

\* A file that is cut short.
Cut(v) ==
  {SubSeq(v, 1, n) : n \in 0..(Len(v) - 1)} \cup
  UNION {{Append(SubSeq(v, 1, n - 1), part) : part \in Parts(v[n])} : n \in 1..Len(v)}

SaveBegin(v) ==
  /\ process = "running" /\ saving = {} /\ saves < MaxSaves
  /\ saving' = {v} /\ saves' = saves + 1
  /\ file' \in Cut(v)
  /\ Notify
  /\ UNCHANGED <<config, main, watcher, todo, table>>

SaveEnd ==
  /\ process = "running" /\ saving # {}
  /\ file' \in saving /\ saving' = {}
  /\ Notify
  /\ UNCHANGED <<saves, config, main, watcher, todo, table>>

-----------------------------------------------------------------------------
(* definitionRoute and watchRouter                                         *)

\* rvMap.([]interface{}) panics unless the settings hold a list, or no route.
GetRouterTask ==
  IF NoList \in ToSet(config)
    THEN process' = "panicked" /\ UNCHANGED todo
    ELSE todo' = config /\ UNCHANGED process

\* getRouterTask(router), before anything is watched.
AddFirst ==
  /\ process = "running" /\ main = "init"
  /\ GetRouterTask
  /\ main' = "add"
  /\ UNCHANGED <<editor, events, config, watcher, routeMap, tree>>

\* routerViper.WatchConfig()
WatchConfig ==
  /\ process = "running" /\ main = "add" /\ todo = <<>>
  /\ watcher' = "wait" /\ main' = "watching"
  /\ UNCHANGED <<editor, events, config, todo, table>>

\* routerViper.OnConfigChange(...), while the watcher may already see events.
OnConfigChange ==
  /\ process = "running" /\ main = "watching"
  /\ main' = "serving"
  /\ UNCHANGED <<editor, events, config, watcher, todo, table>>

\* An event: the file is read, a cut one perhaps in vain, and the callback, if
\* there is one yet, goes to sleep for a second.
WatcherEvent ==
  /\ process = "running" /\ watcher = "wait" /\ events > 0
  /\ events' = events - 1
  /\ config' \in {file} \cup IF saving # {} THEN {config} ELSE {}
  /\ watcher' = IF main = "serving" THEN "sleep" ELSE "wait"
  /\ UNCHANGED <<editor, main, todo, table>>

\* Mutant of Reload: the events of the last second are thrown away.
ReloadDebounced ==
  /\ process = "running" /\ watcher = "sleep"
  /\ GetRouterTask
  /\ watcher' = "add" /\ events' = 0
  /\ UNCHANGED <<editor, config, main, routeMap, tree>>

\* Mutant of Reload: a file without routes is not allowed for.
ReloadUnchecked ==
  /\ process = "running" /\ watcher = "sleep"
  /\ todo' = config /\ watcher' = "add"
  /\ process' = IF config = <<>> THEN "panicked" ELSE process
  /\ UNCHANGED <<editor, events, config, main, routeMap, tree>>

\* time.Sleep, then getRouterTask: nothing at all when there is no route.
Reload ==
  /\ process = "running" /\ watcher = "sleep"
  /\ GetRouterTask
  /\ watcher' = "add"
  /\ UNCHANGED <<editor, events, config, main, routeMap, tree>>

ReloadDone ==
  /\ process = "running" /\ watcher = "add" /\ todo = <<>>
  /\ watcher' = "wait"
  /\ UNCHANGED <<editor, events, config, main, todo, table>>

-----------------------------------------------------------------------------
(* addRoute                                                                *)

\* Whether gin panics at e.
GinRefuses(e) ==
  \/ e.path \in Refused
  \/ \E s \in tree :
       s.method = e.method /\ (s.path = e.path \/ <<s.path, e.path>> \in Clashes)

\* r.GET or r.POST, or neither.
Register(e) ==
  CASE e.method \notin Methods -> UNCHANGED <<tree, process>>
    [] e.method \in Methods /\ GinRefuses(e) -> process' = "panicked" /\ UNCHANGED tree
    [] e.method \in Methods /\ ~GinRefuses(e) -> tree' = tree \cup {e} /\ UNCHANGED process

\* Mutant of AddRoute: the map is written before it is tested.
AddRouteWritesFirst ==
  /\ process = "running" /\ todo # <<>> /\ todo' = Tail(todo)
  /\ LET e == Head(todo) IN
       IF e \notin Entry
         THEN process' = "panicked" /\ UNCHANGED <<routeMap, tree>>
         ELSE /\ routeMap' = [routeMap EXCEPT ![e.path] = e.to]
              /\ IF routeMap[e.path] # Unknown THEN UNCHANGED <<tree, process>> ELSE Register(e)
  /\ UNCHANGED <<editor, events, config, main, watcher>>

\* The type assertion panics at what is no map.  The first entry with a path takes
\* it, whatever its method.
AddRoute ==
  /\ process = "running" /\ todo # <<>>
  /\ todo' = Tail(todo)
  /\ LET e == Head(todo) IN
       \/ e \notin Entry /\ process' = "panicked" /\ UNCHANGED <<routeMap, tree>>
       \/ e \in Entry /\ routeMap[e.path] # Unknown /\ UNCHANGED table
       \/ /\ e \in Entry /\ routeMap[e.path] = Unknown
          /\ routeMap' = [routeMap EXCEPT ![e.path] = e.to]
          /\ Register(e)
  /\ UNCHANGED <<editor, events, config, main, watcher>>

-----------------------------------------------------------------------------

Editor  == SaveEnd \/ \E v \in Versions : SaveBegin(v)
Server  == AddFirst \/ WatchConfig \/ OnConfigChange
Watcher == WatcherEvent \/ Reload \/ ReloadDone

Next == Editor \/ Server \/ Watcher \/ AddRoute

Spec == Init /\ [][Next]_vars

\* A save that was begun is finished, and the goroutines run.
FairSpec ==
  Spec /\ WF_vars(SaveEnd) /\ WF_vars(Server) /\ WF_vars(Watcher) /\ WF_vars(AddRoute)

-----------------------------------------------------------------------------
(* Properties                                                              *)

TypeOK ==
  /\ file \in Seq(Line) /\ config \in Seq(Line) /\ todo \in Seq(Line)
  /\ saving \subseteq Versions
  /\ saves \in 0..MaxSaves /\ events \in 0..(2 * MaxSaves)
  /\ main \in {"init", "add", "watching", "serving"}
  /\ watcher \in {"off", "wait", "sleep", "add"}
  /\ routeMap \in [Paths -> Targets \cup {NoTarget, Unknown}]
  /\ tree \subseteq Entry
  /\ process \in {"running", "panicked"}

\* What gin serves beside the gateway's own routes is what routeMap says, and
\* no path has two targets.
TableAgrees ==
  \A s \in tree : <<s.path, s.method>> \notin Own => routeMap[s.path] = s.to

\* The process ends over the route file only for what the file says: no list, a
\* line that is no entry (also one a save has just begun to write), a route of the
\* gateway, a path gin refuses or one that clashes with a path it has.  Reading a
\* route again, an empty file and one cut between two values or two entries do not
\* end it, however often and in whatever state of a save the file is read.
PanicsForAReason ==
  process = "panicked" =>
    \/ ~(ToSet(config) \subseteq Entry)
    \/ \E e \in ToSet(config) :
         \/ <<e.path, e.method>> \in Own \/ e.path \in Refused
         \/ \E s \in tree : s.method = e.method /\ <<s.path, e.path>> \in Clashes

\* A save that ends after the callback was installed is followed: every path of
\* the file becomes known, however saves, events and the sleep overlap, unless the
\* process ends.  What is known is the path: an entry that was read before it was
\* complete keeps its path, and the complete one is skipped.
SavedPathsKnown ==
  \A v \in Versions :
    (main = "serving" /\ saving = {v}) ~>
      \/ \A e \in ToSet(v) : e \in Entry => routeMap[e.path] # Unknown
      \/ saving # {} /\ saving # {v}
      \/ process # "running"

=============================================================================
