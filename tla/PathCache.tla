------------------------------ MODULE PathCache ------------------------------
(***************************************************************************)
(* pkg/adapter/zookeeper/pathcache.go: a cache of the children of one      *)
(* ZooKeeper node, kept up to date by one-shot watches.                    *)
(*                                                                         *)
(* One goroutine, the loop of NewPathCache, owns the cache and takes its   *)
(* work from three unbuffered channels.  Every value sent on a channel is  *)
(* sent by a goroutine of its own, handed to the worker pool, so values    *)
(* that wait to be received form a multiset and are received in any order: *)
(*   forwarding  zk events that fired and wait for watchCh                 *)
(*   adding      children that wait for addChildCh                         *)
(*   notifying   PathCacheEvents that wait for notifyCh                    *)
(*   stopping    Stop() calls that wait for stopCh                         *)
(* The owner (the registry client or the config center) takes the          *)
(* notifications one by one in a goroutine of its own.                     *)
(*                                                                         *)
(* isSvcPath selects one of the two modes of the cache: TRUE watches every *)
(* child and announces it ("/dubbo", "/dubbo/config/dubbo"), FALSE         *)
(* announces the whole list of children again whenever it changes          *)
(* ("/dubbo/<service>/providers" and ".../consumers").                     *)
(***************************************************************************)
EXTENDS Naturals, FiniteSets

CONSTANTS
  Children,       \* the names a child of the watched node can have
  Path,           \* the watched node itself
  AutoFillNode,   \* NewPathCache creates the node when it is absent
  MaxWrites,      \* bound: creations, deletions and data changes of children
  MaxFaults,      \* bound: failed requests, expired sessions, deletions of Path
  MaxStops        \* bound: calls of Stop

ASSUME PathCacheAssumption ==
  /\ Path \notin Children
  /\ AutoFillNode \in BOOLEAN
  /\ {MaxWrites, MaxFaults, MaxStops} \subseteq Nat

VARIABLES
  (* ZooKeeper *)
  pathExists,     \* does the watched node exist
  exists,         \* the children that exist
  births,         \* how often a child has existed
  changes,        \* how often the data of a child was written
  writes,         \* creations, deletions and data changes so far
  faults,         \* the disturbances so far: failed requests, expiries, Path deleted
  childWatch,     \* outstanding ChildrenW watchers on Path
  nodeWatch,      \* outstanding GetW watchers on each child
  (* the path cache *)
  loop,           \* the goroutine of NewPathCache
  isSvcPath,      \* the mode, an argument of NewPathCache
  cached,         \* PathCache.Cached, an absent key being FALSE
  forwarding, adding, notifying, stopping,
  (* the owner *)
  clearing        \* paths whose Cached flag its event loop is about to reset

zkVars == <<pathExists, exists, births, changes, writes, faults, childWatch, nodeWatch>>
cacheVars == <<loop, isSvcPath, cached, forwarding, adding, notifying, stopping>>
vars == <<zkVars, cacheVars, clearing>>

-----------------------------------------------------------------------------
(* Messages *)

Paths == Children \cup {Path}

\* The zk.Event values the cache can meet.
ZkEvents ==
  [type : {"NodeDataChanged", "NodeDeleted", "NodeChildrenChanged", "NotWatching"},
   path : Paths]

NodeDataChanged(c) == [type |-> "NodeDataChanged", path |-> c]
NodeDeleted(p) == [type |-> "NodeDeleted", path |-> p]
NotWatching(p) == [type |-> "NotWatching", path |-> p]
ChildrenChanged == [type |-> "NodeChildrenChanged", path |-> Path]

\* PathCacheEvent: Paths is used by ChildrenReplaced only, Path by the others.
PathCacheEvents ==
  [type : {"Added", "Deleted", "Changed"}, path : Paths, paths : {{}}]
    \cup [type : {"ChildrenReplaced"}, path : {Path}, paths : SUBSET Children]

Added(c) == [type |-> "Added", path |-> c, paths |-> {}]
Deleted(p) == [type |-> "Deleted", path |-> p, paths |-> {}]
Changed(c) == [type |-> "Changed", path |-> c, paths |-> {}]
ChildrenReplaced(S) == [type |-> "ChildrenReplaced", path |-> Path, paths |-> S]

\* A goroutine more, or one less, that waits to send x.
Plus(bag, x) == [bag EXCEPT ![x] = @ + 1]
Minus(bag, x) == [bag EXCEPT ![x] = @ - 1]

-----------------------------------------------------------------------------
(* ZooKeeper, as seen through the session of the adapter. *)

\* Firing the watchers of c's data and of Path's children: every watcher is
\* used up, and the goroutine that holds it goes on to forward the event.
FireChildren == [forwarding EXCEPT ![ChildrenChanged] = @ + childWatch]

\* One more write, within the bound.
Written == writes < MaxWrites /\ writes' = writes + 1

CreateChild(c) ==
  /\ pathExists
  /\ c \notin exists
  /\ Written
  /\ exists' = exists \cup {c}
  /\ births' = [births EXCEPT ![c] = @ + 1]
  /\ forwarding' = FireChildren
  /\ childWatch' = 0
  /\ UNCHANGED <<pathExists, changes, faults, nodeWatch>>

DeleteChild(c) ==
  /\ c \in exists
  /\ Written
  /\ exists' = exists \ {c}
  /\ forwarding' = [FireChildren EXCEPT ![NodeDeleted(c)] = @ + nodeWatch[c]]
  /\ childWatch' = 0
  /\ nodeWatch' = [nodeWatch EXCEPT ![c] = 0]
  /\ UNCHANGED <<pathExists, births, changes, faults>>

ChangeData(c) ==
  /\ c \in exists
  /\ Written
  /\ changes' = [changes EXCEPT ![c] = @ + 1]
  /\ forwarding' = [forwarding EXCEPT ![NodeDataChanged(c)] = @ + nodeWatch[c]]
  /\ nodeWatch' = [nodeWatch EXCEPT ![c] = 0]
  /\ UNCHANGED <<pathExists, exists, births, faults, childWatch>>

\* One more disturbance, within the bound.
Disturbed == faults < MaxFaults /\ faults' = faults + 1

\* Only a node without children can be deleted.
DeletePath ==
  /\ pathExists
  /\ exists = {}
  /\ Disturbed
  /\ pathExists' = FALSE
  /\ forwarding' = [forwarding EXCEPT ![NodeDeleted(Path)] = @ + childWatch]
  /\ childWatch' = 0
  /\ UNCHANGED <<exists, births, changes, writes, nodeWatch>>

CreatePath ==
  /\ ~pathExists
  /\ loop # "new"
  /\ pathExists' = TRUE
  /\ UNCHANGED <<exists, births, changes, writes, faults, childWatch, nodeWatch, forwarding>>

\* The client library gives up all watchers of an expired session, telling
\* each of them EventNotWatching.
ExpireSession ==
  /\ Disturbed
  /\ forwarding' = [e \in ZkEvents |->
       IF e = NotWatching(Path) THEN forwarding[e] + childWatch
       ELSE IF \E c \in Children : e = NotWatching(c)
            THEN forwarding[e] + nodeWatch[e.path]
            ELSE forwarding[e]]
  /\ childWatch' = 0
  /\ nodeWatch' = [c \in Children |-> 0]
  /\ UNCHANGED <<pathExists, exists, births, changes, writes>>

ZooKeeper ==
  /\ \/ \E c \in Children : CreateChild(c) \/ DeleteChild(c) \/ ChangeData(c)
     \/ DeletePath
     \/ CreatePath
     \/ ExpireSession
  /\ UNCHANGED <<loop, isSvcPath, cached, adding, notifying, stopping, clearing>>

-----------------------------------------------------------------------------
(* Reading the children and watching them again. *)

\* Mutant of WatchAndAddChildren: Children instead of ChildrenW.
AddChildrenUnwatched ==
  /\ adding' = [c \in Children |->
                  IF c \in exists /\ ~cached[c] THEN adding[c] + 1 ELSE adding[c]]
  /\ UNCHANGED <<childWatch, cached, notifying>>

\* watchAndAddChildren: a child that is not cached yet is handed to the loop.
WatchAndAddChildren ==
  /\ childWatch' = childWatch + 1
  /\ adding' = [c \in Children |->
                  IF c \in exists /\ ~cached[c] THEN adding[c] + 1 ELSE adding[c]]
  /\ UNCHANGED <<cached, notifying>>

\* Mutant of WatchChildren: the children are added to the map of before.
WatchChildrenMerged ==
  /\ childWatch' = childWatch + 1
  /\ cached' = [p \in Paths |-> cached[p] \/ p \in exists]
  /\ notifying' = Plus(notifying, ChildrenReplaced(exists))
  /\ UNCHANGED adding

\* Mutant of WatchChildren: Children instead of ChildrenW.
WatchChildrenUnwatched ==
  /\ cached' = [p \in Paths |-> p \in exists]
  /\ notifying' = Plus(notifying, ChildrenReplaced(exists))
  /\ UNCHANGED <<childWatch, adding>>

\* watchChildren: the cache becomes the list just read, which is announced.
WatchChildren ==
  /\ childWatch' = childWatch + 1
  /\ cached' = [p \in Paths |-> p \in exists]
  /\ notifying' = Plus(notifying, ChildrenReplaced(exists))
  /\ UNCHANGED adding

WatchPath == IF isSvcPath THEN WatchAndAddChildren ELSE WatchChildren

\* NewPathCache: without the node, or when the request fails, there is no cache.
NewPathCache ==
  /\ loop = "new"
  /\ \/ /\ pathExists \/ AutoFillNode
        /\ pathExists' = TRUE
        /\ WatchPath
        /\ loop' = "running"
        /\ UNCHANGED faults
     \/ /\ IF pathExists \/ AutoFillNode THEN Disturbed ELSE UNCHANGED faults
        /\ loop' = "failed"
        /\ UNCHANGED <<pathExists, childWatch, cached, adding, notifying>>
  /\ UNCHANGED <<exists, births, changes, writes, nodeWatch, isSvcPath, forwarding, stopping,
                 clearing>>

-----------------------------------------------------------------------------
(* The loop: one handler per channel, and per type of event. *)

\* Mutant of ReceiveEvent: a receive that does not wait for an event.
ReceiveAnything(e) == loop = "running" /\ forwarding' = Minus(forwarding, e)

ReceiveEvent(e) ==
  /\ loop = "running"
  /\ forwarding[e] > 0
  /\ forwarding' = Minus(forwarding, e)

\* onEvent, NodeChildrenChanged: the error of the two watch functions is not
\* looked at, so after a failure the cache has no watch on its children.
OnChildrenChanged ==
  /\ ReceiveEvent(ChildrenChanged)
  /\ \/ pathExists /\ WatchPath /\ UNCHANGED faults
     \/ /\ IF pathExists THEN Disturbed ELSE UNCHANGED faults
        /\ UNCHANGED <<childWatch, cached, adding, notifying>>
  /\ UNCHANGED <<pathExists, exists, births, changes, writes, nodeWatch, loop, isSvcPath,
                 stopping, clearing>>

\* Mutants of OnChildAdd: the flag is not set; the error of watch is ignored.
OnChildAddUncached(c) ==
  /\ loop = "running" /\ adding[c] > 0 /\ adding' = Minus(adding, c)
  /\ nodeWatch' = IF c \in exists THEN Plus(nodeWatch, c) ELSE nodeWatch
  /\ notifying' = Plus(notifying, Added(c))
  /\ UNCHANGED <<pathExists, exists, births, changes, writes, faults, childWatch, loop,
                 isSvcPath, cached, forwarding, stopping, clearing>>
OnChildAddUnwatched(c) ==
  /\ loop = "running" /\ adding[c] > 0 /\ adding' = Minus(adding, c)
  /\ nodeWatch' = IF c \in exists THEN Plus(nodeWatch, c) ELSE nodeWatch
  /\ cached' = [cached EXCEPT ![c] = TRUE]
  /\ notifying' = Plus(notifying, Added(c))
  /\ UNCHANGED <<pathExists, exists, births, changes, writes, faults, childWatch, loop,
                 isSvcPath, forwarding, stopping, clearing>>

\* onChildAdd: watch the child, then cache and announce it.
OnChildAdd(c) ==
  /\ loop = "running"
  /\ adding[c] > 0
  /\ adding' = Minus(adding, c)
  /\ \/ /\ c \in exists
        /\ nodeWatch' = Plus(nodeWatch, c)
        /\ cached' = [cached EXCEPT ![c] = TRUE]
        /\ notifying' = Plus(notifying, Added(c))
        /\ UNCHANGED faults
     \/ /\ IF c \in exists THEN Disturbed ELSE UNCHANGED faults
        /\ UNCHANGED <<nodeWatch, cached, notifying>>
  /\ UNCHANGED <<pathExists, exists, births, changes, writes, childWatch, loop, isSvcPath,
                 forwarding, stopping, clearing>>

\* Mutant of OnNodeChanged: Get instead of GetW.
OnNodeChangedUnwatched(c) ==
  /\ ReceiveEvent(NodeDataChanged(c))
  /\ notifying' = Plus(notifying, Changed(c))
  /\ UNCHANGED <<zkVars, loop, isSvcPath, cached, adding, stopping, clearing>>

\* onNodeChanged: the watch is renewed when the child can still be read; the
\* change is announced in both cases.
OnNodeChanged(c) ==
  /\ ReceiveEvent(NodeDataChanged(c))
  /\ \/ c \in exists /\ nodeWatch' = Plus(nodeWatch, c) /\ UNCHANGED faults
     \/ /\ IF c \in exists THEN Disturbed ELSE UNCHANGED faults
        /\ UNCHANGED nodeWatch
  /\ notifying' = Plus(notifying, Changed(c))
  /\ UNCHANGED <<pathExists, exists, births, changes, writes, childWatch, loop, isSvcPath,
                 cached, adding, stopping, clearing>>

\* Mutant of OnChildDeleted: the flag is left to the owner.
OnChildDeletedUncleared(p) ==
  /\ ReceiveEvent(NodeDeleted(p))
  /\ UNCHANGED <<zkVars, loop, isSvcPath, cached, adding, notifying, stopping, clearing>>

\* onChildDeleted, for a child or for the watched node itself.
OnChildDeleted(p) ==
  /\ ReceiveEvent(NodeDeleted(p))
  /\ cached' = [cached EXCEPT ![p] = FALSE]
  /\ notifying' = Plus(notifying, Deleted(p))
  /\ UNCHANGED <<zkVars, loop, isSvcPath, adding, stopping, clearing>>

\* onEvent, default: EventNotWatching is logged and forgotten.
OnNotWatching(p) ==
  /\ ReceiveEvent(NotWatching(p))
  /\ UNCHANGED <<zkVars, loop, isSvcPath, cached, adding, notifying, stopping, clearing>>

\* Mutant of OnStop: no return after the channel is closed.
OnStopLoops ==
  /\ loop = "running" /\ stopping > 0
  /\ stopping' = stopping - 1
  /\ notifying' = [n \in PathCacheEvents |-> 0]
  /\ UNCHANGED <<zkVars, loop, isSvcPath, cached, forwarding, adding, clearing>>

\* Closing notifyCh makes every blocked notify panic; the pool recovers them.
OnStop ==
  /\ loop = "running"
  /\ stopping > 0
  /\ stopping' = stopping - 1
  /\ loop' = "stopped"
  /\ notifying' = [n \in PathCacheEvents |-> 0]
  /\ UNCHANGED <<zkVars, isSvcPath, cached, forwarding, adding, clearing>>

Handler ==
  \/ OnChildrenChanged
  \/ \E c \in Children : OnChildAdd(c) \/ OnNodeChanged(c)
  \/ \E p \in Paths : OnChildDeleted(p) \/ OnNotWatching(p)

-----------------------------------------------------------------------------
(* The owner: RegistryClient.eventLoop and ConfigClient.eventLoop. *)

\* Stop(), from the owner's shutdown or when the service is deleted.
Stop ==
  /\ loop \in {"running", "stopped"}
  /\ stopping < MaxStops
  /\ stopping' = stopping + 1
  /\ UNCHANGED <<zkVars, loop, isSvcPath, cached, forwarding, adding, notifying, clearing>>

\* Taking a notification.  The owners of a cache in the service mode reset the
\* flag of a deleted path themselves, a moment later and without a lock.
OwnerReceive(n) ==
  /\ loop = "running"
  /\ clearing = {}
  /\ notifying[n] > 0
  /\ notifying' = Minus(notifying, n)
  /\ clearing' = IF isSvcPath /\ n.type = "Deleted" THEN {n.path} ELSE {}
  /\ UNCHANGED <<zkVars, loop, isSvcPath, cached, forwarding, adding, stopping>>

OwnerClear ==
  /\ loop \in {"running", "stopped"}
  /\ clearing # {}
  /\ cached' = [p \in Paths |-> cached[p] /\ p \notin clearing]
  /\ clearing' = {}
  /\ UNCHANGED <<zkVars, loop, isSvcPath, forwarding, adding, notifying, stopping>>

\* Cached is a plain map: the owner's write at the same time as an access of
\* the loop may be detected by the Go runtime, which ends the process.
MapRace ==
  /\ loop = "running"
  /\ clearing # {}
  /\ \/ forwarding[ChildrenChanged] > 0
     \/ \E c \in Children : adding[c] > 0
     \/ \E p \in Paths : forwarding[NodeDeleted(p)] > 0
  /\ loop' = "crashed"
  /\ UNCHANGED <<zkVars, isSvcPath, cached, forwarding, adding, notifying, stopping,
                 clearing>>

Owner == OwnerClear \/ \E n \in PathCacheEvents : OwnerReceive(n)

-----------------------------------------------------------------------------
Init ==
  /\ pathExists \in BOOLEAN
  /\ exists \in SUBSET Children
  /\ exists # {} => pathExists
  /\ births = [c \in Children |-> IF c \in exists THEN 1 ELSE 0]
  /\ changes = [c \in Children |-> 0]
  /\ writes = 0
  /\ faults = 0
  /\ childWatch = 0
  /\ nodeWatch = [c \in Children |-> 0]
  /\ loop = "new"
  /\ isSvcPath \in BOOLEAN
  /\ cached = [p \in Paths |-> FALSE]
  /\ forwarding = [e \in ZkEvents |-> 0]
  /\ adding = [c \in Children |-> 0]
  /\ notifying = [n \in PathCacheEvents |-> 0]
  /\ stopping = 0
  /\ clearing = {}

Next ==
  \/ ZooKeeper
  \/ NewPathCache
  \/ Handler
  \/ OnStop
  \/ Stop
  \/ Owner
  \/ MapRace

\* The loop and the owner are goroutines that never block for good on anything
\* but their channels, and a select takes each ready channel in the long run.
\* Nothing obliges ZooKeeper, or a caller of Stop, to do anything.
Fairness ==
  /\ WF_vars(NewPathCache)
  /\ WF_vars(Handler)
  /\ WF_vars(OnStop)
  /\ WF_vars(Owner)

Spec == Init /\ [][Next]_vars /\ Fairness

-----------------------------------------------------------------------------
(* Properties *)

\* The type invariant.
TypeOK ==
  /\ pathExists \in BOOLEAN
  /\ exists \in SUBSET Children
  /\ births \in [Children -> Nat]
  /\ changes \in [Children -> Nat]
  /\ writes \in Nat
  /\ faults \in Nat
  /\ childWatch \in Nat
  /\ nodeWatch \in [Children -> Nat]
  /\ loop \in {"new", "running", "failed", "stopped", "crashed"}
  /\ isSvcPath \in BOOLEAN
  /\ cached \in [Paths -> BOOLEAN]
  /\ forwarding \in [ZkEvents -> Nat]
  /\ adding \in [Children -> Nat]
  /\ notifying \in [PathCacheEvents -> Nat]
  /\ stopping \in Nat
  /\ clearing \in SUBSET Paths

Undisturbed == loop = "running" /\ faults = 0

\* The cache never has two watches on the children of its node, and as long as
\* nothing disturbed it, it has exactly one or is about to handle the event of
\* it: re-arming in onEvent neither forgets nor multiplies the watch.
ListensForChildren ==
  /\ childWatch + forwarding[ChildrenChanged] <= 1
  /\ Undisturbed => childWatch + forwarding[ChildrenChanged] = 1

\* Service mode: a child that exists for the first time is cached, or on its
\* way to be, whatever the order in which the channels were served.
EveryChildTracked ==
  Undisturbed /\ isSvcPath =>
    \A c \in exists : births[c] = 1 =>
      cached[c] \/ adding[c] > 0 \/ forwarding[ChildrenChanged] > 0

\* Service mode: a cached child whose data was never written has a watch that
\* will report its deletion, or that report is waiting to be handled.
DeletionWillBeSeen ==
  Undisturbed /\ isSvcPath =>
    \A c \in Children : cached[c] /\ changes[c] = 0 =>
      nodeWatch[c] > 0 \/ forwarding[NodeDeleted(c)] > 0

\* Service mode: a cached child that exists for the first time stays watched
\* across the changes of its data: the one-shot watch is out, or its event is
\* waiting for onNodeChanged, which renews it.
ExistingChildWatched ==
  Undisturbed /\ isSvcPath =>
    \A c \in exists : cached[c] /\ births[c] = 1 =>
      nodeWatch[c] > 0 \/ forwarding[NodeDataChanged(c)] > 0

\* Children mode: the cache is the list of children, or a change of that list
\* is waiting to be read.
SnapshotIsFresh ==
  Undisturbed /\ ~isSvcPath =>
    \/ forwarding[ChildrenChanged] > 0
    \/ \A c \in Children : cached[c] <=> c \in exists

\* Both modes: once ZooKeeper is quiet the cache is exactly the set of children,
\* if no child was created twice, no data was written and nothing disturbed it.
Calm == \A c \in Children : births[c] <= 1 /\ changes[c] = 0
CacheConverges ==
  <>[](Undisturbed /\ Calm => \A c \in Children : cached[c] <=> c \in exists)

\* A stopped cache ends its goroutine, whatever else waits for the loop.
StopTakesEffect == (loop = "running" /\ stopping > 0) ~> (loop # "running")

\* Nothing is under way between ZooKeeper, the cache and its owner.
Quiet ==
  /\ \A e \in ZkEvents : forwarding[e] = 0
  /\ \A c \in Children : adding[c] = 0
  /\ \A n \in PathCacheEvents : notifying[n] = 0
  /\ clearing = {}

\* registry/zk/client.go: "we should avoid to maintain a service's path cache
\* as true without the associated service node".  At rest, a flag that is TRUE
\* belongs to a node that exists.
NoFlagWithoutNode ==
  Undisturbed /\ Quiet => \A c \in Children : cached[c] => c \in exists

\* pathcache.go: "Remove the cache of this instance so that another instance
\* which has same host name can be added."  At rest, a child that exists was
\* added, be it the first of its name or not.
SameNameAddedAgain ==
  Undisturbed /\ Quiet => \A c \in exists : cached[c]
=============================================================================
