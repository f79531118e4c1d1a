--------------------------- MODULE ConfigSyncProofs ---------------------------
(***************************************************************************)
(* The safety properties of ConfigSync, for any configurations and bounds. *)
(***************************************************************************)
EXTENDS ConfigSync, SequenceTheorems, TLAPS

\* Nothing was disturbed since the process started.
Healthy == faults = 0 /\ loop \in {"new", "running"}

\* None of the things happened that leave the entry wrong, or the ServiceConfig.
NoCauseForEntry == causes \cap {"CreatedAgain", "DeletionUnseen", "RequestFailed"} = {}

\* A cache that was not started yet watches and caches nothing.
NotStarted ==
  loop = "new" =>
    /\ childWatch = 0
    /\ forwarding[P!ChildrenChanged] = 0
    /\ ~cached[Service]

\* As long as nothing was disturbed, the parent of the node exists.
NodeIsThere == P!Undisturbed => pathExists

\* The lives of the node since the process started: one that exists was created, and a
\* second one is a cause.
Lives ==
  /\ Exists => births[Service] > 0
  /\ "CreatedAgain" \notin causes => births[Service] <= 1

\* A node that was never deleted leaves no trace of a deletion, and one that never
\* existed is not cached.
NeverDeleted == births[Service] = 0 \/ (births[Service] = 1 /\ Exists)
NoFalseDeletion ==
  /\ NeverDeleted =>
       /\ forwarding[P!NodeDeleted(Service)] = 0
       /\ notifying[P!Deleted(Service)] = 0
       /\ Service \notin clearing
  /\ births[Service] = 0 => ~cached[Service]

\* The first node is cached, or on its way to be, and if it is cached it is watched.
Followed ==
  P!Undisturbed /\ Exists /\ births[Service] = 1 =>
    /\ cached[Service] \/ adding[Service] > 0 \/ forwarding[P!ChildrenChanged] > 0
    /\ cached[Service] =>
         nodeWatch[Service] > 0 \/ forwarding[P!NodeDataChanged(Service)] > 0

\* The invariant of the cache, which owes nothing to the rest.
CacheInv ==
  /\ P!TypeOK
  /\ isSvcPath
  /\ P!ListensForChildren
  /\ NotStarted
  /\ NodeIsThere
  /\ NoFalseDeletion
  /\ Followed

\* Will the data be read again, or the deletion be told?
ToBeRead ==
  \/ adding[Service] > 0
  \/ forwarding[P!NodeDataChanged(Service)] > 0
  \/ notifying[P!Added(Service)] > 0
  \/ notifying[P!Changed(Service)] > 0
ToBeTold ==
  \/ forwarding[P!NodeDeleted(Service)] > 0
  \/ notifying[P!Deleted(Service)] > 0

\* The last data was read, or the end of the node was heard of.
HasRead == Exists /\ cached[Service] /\ ~ToBeRead
HasHeard == ~Exists /\ ~ToBeTold

\* A configuration that follows the node.
Follows(config) ==
  /\ HasRead => data = Unusable \/ config = data
  /\ HasHeard => config = Gone

EntryFollows == Healthy /\ NoCauseForEntry => Follows(entry)

\* What the handler is doing with an event fits the event.
HandlerFits ==
  /\ handler.step = "idle" => handler = Idle
  /\ handler.step # "idle" => handler.event # Unusable
  /\ handler.step \in {"create", "update"} => handler.event # Gone
  /\ handler.step = "delete" => handler.event = Gone

\* What the ServiceConfig is once the handler has done with its event.
Outcome == IF handler.step = "idle" THEN sc ELSE handler.event

\* What the ServiceConfig becomes when the events are handled in their order: the last one
\* counts that says something, then the one that is being handled.
Becomes(config) ==
  \/ \E i \in 1..Len(out) :
       /\ out[i] = config
       /\ \A j \in 1..Len(out) : j > i => out[j] = Unusable
  \/ /\ \A j \in 1..Len(out) : out[j] = Unusable
     /\ config = Outcome

ServiceConfigFollows ==
  Healthy /\ causes = {} => \E config \in Usable \cup {Gone} : Becomes(config) /\ Follows(config)

\* The inductive invariant.
IInv ==
  /\ TypeOK
  /\ CacheInv
  /\ Lives
  /\ HandlerFits
  /\ EntryFollows
  /\ ServiceConfigFollows

-----------------------------------------------------------------------------
(* Messages *)

\* The cache has one child, which is not the node it watches.
LEMMA PathFacts ==
  /\ P!Paths = {Service, Root}
  /\ Service # Root
  BY ConfigSyncAssumption DEF P!Paths

\* The zk events about the node are different ones.
LEMMA EventFacts ==
  /\ P!ChildrenChanged \in P!ZkEvents
  /\ \A p \in P!Paths :
       /\ {P!NodeDeleted(p), P!NodeDataChanged(p), P!NotWatching(p)} \subseteq P!ZkEvents
       /\ P!ChildrenChanged \notin {P!NodeDeleted(p), P!NodeDataChanged(p), P!NotWatching(p)}
       /\ P!NotWatching(p).path = p
  /\ \A p, q \in P!Paths :
       /\ P!NodeDeleted(p) \notin {P!NodeDataChanged(q), P!NotWatching(q)}
       /\ P!NodeDataChanged(p) # P!NotWatching(q)
       /\ P!NodeDeleted(p) = P!NodeDeleted(q) => p = q
       /\ P!NodeDataChanged(p) = P!NodeDataChanged(q) => p = q
  BY DEF P!ChildrenChanged, P!NodeDeleted, P!NodeDataChanged, P!NotWatching, P!ZkEvents,
         P!Paths

\* And so are the PathCacheEvents.
LEMMA NotificationFacts ==
  /\ \A p \in P!Paths :
       {P!Added(p), P!Deleted(p), P!Changed(p)} \subseteq P!PathCacheEvents
  /\ \A p, q \in P!Paths :
       /\ P!Deleted(p) \notin {P!Added(q), P!Changed(q)}
       /\ P!Added(p) # P!Changed(q)
       /\ P!Deleted(p) = P!Deleted(q) => p = q
  /\ \A n \in P!PathCacheEvents :
       /\ n.path \in P!Paths
       /\ n.type = "Deleted" => n = P!Deleted(n.path)
       /\ n.type \in {"Added", "Changed"} => n.type # "Deleted"
  /\ \A p \in P!Paths : P!Deleted(p).type = "Deleted"
  BY DEF P!Added, P!Deleted, P!Changed, P!PathCacheEvents, P!Paths

\* One goroutine more, or one less, waits to send x.
LEMMA BagFacts ==
  ASSUME NEW X, NEW bag \in [X -> Nat], NEW x \in X
  PROVE  /\ P!Plus(bag, x) \in [X -> Nat]
         /\ P!Plus(bag, x)[x] = bag[x] + 1
         /\ \A y \in X : y # x => P!Plus(bag, x)[y] = bag[y]
         /\ bag[x] > 0 => P!Minus(bag, x) \in [X -> Nat]
         /\ P!Minus(bag, x)[x] = bag[x] - 1
         /\ \A y \in X : y # x => P!Minus(bag, x)[y] = bag[y]
  BY DEF P!Plus, P!Minus

\* The counts that concern the node are numbers.
LEMMA Counts ==
  ASSUME P!TypeOK
  PROVE  /\ childWatch \in Nat /\ faults \in Nat
         /\ births[Service] \in Nat /\ nodeWatch[Service] \in Nat /\ adding[Service] \in Nat
         /\ forwarding[P!ChildrenChanged] \in Nat
         /\ forwarding[P!NodeDeleted(Service)] \in Nat
         /\ forwarding[P!NodeDataChanged(Service)] \in Nat
         /\ notifying[P!Added(Service)] \in Nat
         /\ notifying[P!Changed(Service)] \in Nat
         /\ notifying[P!Deleted(Service)] \in Nat
  BY PathFacts, EventFacts, NotificationFacts DEF P!TypeOK

-----------------------------------------------------------------------------
(* ZooKeeper: every step keeps the invariant of the cache. *)

\* What the steps of ZooKeeper leave alone.
CacheUntouched ==
  UNCHANGED <<loop, isSvcPath, cached, adding, notifying, stopping, clearing>>

\* A node is created: the watch on its parent fires.
LEMMA CreateStep ==
  ASSUME CacheInv, Exists => births[Service] > 0, P!CreateChild(Service), CacheUntouched
  PROVE  /\ CacheInv'
         /\ ~Exists /\ Exists' /\ births'[Service] = births[Service] + 1
         /\ UNCHANGED <<faults, loop, cached>>
<1> USE PathFacts, EventFacts DEF CacheInv
<1>1. /\ pathExists' = pathExists /\ faults' = faults /\ nodeWatch' = nodeWatch
      /\ changes' = changes /\ writes' \in Nat
      /\ ~Exists /\ Exists' /\ exists' = exists \cup {Service}
      /\ childWatch' = 0
      /\ UNCHANGED <<loop, isSvcPath, cached, adding, notifying, stopping, clearing>>
  BY DEF P!CreateChild, P!Written, CacheUntouched, Exists, P!TypeOK
<1>2. births' \in [{Service} -> Nat] /\ births'[Service] = births[Service] + 1
  BY DEF P!CreateChild, P!TypeOK
<1>3. /\ forwarding' \in [P!ZkEvents -> Nat]
      /\ forwarding'[P!ChildrenChanged] = forwarding[P!ChildrenChanged] + childWatch
      /\ forwarding'[P!NodeDeleted(Service)] = forwarding[P!NodeDeleted(Service)]
      /\ forwarding'[P!NodeDataChanged(Service)] = forwarding[P!NodeDataChanged(Service)]
  BY DEF P!CreateChild, P!FireChildren, P!TypeOK
<1>4. P!TypeOK'
  BY <1>1, <1>2, <1>3 DEF P!TypeOK
<1>5. P!ListensForChildren' /\ NotStarted' /\ NodeIsThere'
  BY <1>1, <1>3, Counts DEF P!ListensForChildren, P!Undisturbed, NotStarted, NodeIsThere
<1>6. NoFalseDeletion'
  BY <1>1, <1>2, <1>3, Counts DEF NoFalseDeletion, NeverDeleted
<1>7. Followed'
  BY <1>1, <1>2, <1>3, Counts DEF Followed, P!ListensForChildren, P!Undisturbed,
     NoFalseDeletion
<1>8. QED
  BY <1>1, <1>2, <1>4, <1>5, <1>6, <1>7

\* A node is deleted: its watches turn into events of the deletion.
LEMMA DeleteStep ==
  ASSUME CacheInv, Exists => births[Service] > 0, P!DeleteChild(Service), CacheUntouched
  PROVE  /\ CacheInv'
         /\ Exists /\ ~Exists' /\ births' = births
         /\ UNCHANGED <<faults, loop>>
         /\ nodeWatch[Service] > 0 => forwarding'[P!NodeDeleted(Service)] > 0
<1> USE PathFacts, EventFacts DEF CacheInv
<1>1. /\ pathExists' = pathExists /\ faults' = faults /\ births' = births
      /\ changes' = changes /\ writes' \in Nat
      /\ Exists /\ ~Exists' /\ exists' = exists \ {Service}
      /\ childWatch' = 0
      /\ UNCHANGED <<loop, isSvcPath, cached, adding, notifying, stopping, clearing>>
  BY DEF P!DeleteChild, P!Written, CacheUntouched, Exists, P!TypeOK
<1>2. nodeWatch' \in [{Service} -> Nat]
  BY DEF P!DeleteChild, P!TypeOK
<1>3. /\ P!FireChildren \in [P!ZkEvents -> Nat]
      /\ \A e \in P!ZkEvents : e # P!ChildrenChanged => P!FireChildren[e] = forwarding[e]
      /\ P!FireChildren[P!ChildrenChanged] = forwarding[P!ChildrenChanged] + childWatch
  BY DEF P!FireChildren, P!TypeOK
<1>4. /\ forwarding' \in [P!ZkEvents -> Nat]
      /\ forwarding'[P!ChildrenChanged] = forwarding[P!ChildrenChanged] + childWatch
      /\ forwarding'[P!NodeDeleted(Service)]
           = forwarding[P!NodeDeleted(Service)] + nodeWatch[Service]
      /\ forwarding'[P!NodeDataChanged(Service)] = forwarding[P!NodeDataChanged(Service)]
  BY <1>3, Counts DEF P!DeleteChild, P!TypeOK
<1>5. P!TypeOK'
  BY <1>1, <1>2, <1>4 DEF P!TypeOK
<1>6. P!ListensForChildren' /\ NotStarted' /\ NodeIsThere'
  BY <1>1, <1>4, Counts DEF P!ListensForChildren, P!Undisturbed, NotStarted, NodeIsThere
<1>7. NoFalseDeletion' /\ Followed'
  BY <1>1, Counts DEF NoFalseDeletion, NeverDeleted, Followed
<1>8. QED
  BY <1>1, <1>4, <1>5, <1>6, <1>7, Counts

\* Its data is changed: its watches turn into events of the change.
LEMMA ChangeStep ==
  ASSUME CacheInv, P!ChangeData(Service), CacheUntouched
  PROVE  /\ CacheInv'
         /\ Exists /\ exists' = exists /\ births' = births /\ changes' # changes
         /\ UNCHANGED <<faults, loop, cached>>
         /\ nodeWatch[Service] > 0 \/ forwarding[P!NodeDataChanged(Service)] > 0
              => forwarding'[P!NodeDataChanged(Service)] > 0
<1> USE PathFacts, EventFacts DEF CacheInv
<1>1. /\ pathExists' = pathExists /\ faults' = faults /\ births' = births
      /\ writes' \in Nat /\ childWatch' = childWatch
      /\ Exists /\ exists' = exists
      /\ UNCHANGED <<loop, isSvcPath, cached, adding, notifying, stopping, clearing>>
  BY DEF P!ChangeData, P!Written, CacheUntouched, Exists, P!TypeOK
<1>2. /\ nodeWatch' \in [{Service} -> Nat] /\ changes' \in [{Service} -> Nat]
      /\ changes'[Service] = changes[Service] + 1 /\ changes[Service] \in Nat
  BY DEF P!ChangeData, P!TypeOK
<1>3. /\ forwarding' \in [P!ZkEvents -> Nat]
      /\ forwarding'[P!ChildrenChanged] = forwarding[P!ChildrenChanged]
      /\ forwarding'[P!NodeDeleted(Service)] = forwarding[P!NodeDeleted(Service)]
      /\ forwarding'[P!NodeDataChanged(Service)]
           = forwarding[P!NodeDataChanged(Service)] + nodeWatch[Service]
  BY Counts DEF P!ChangeData, P!TypeOK
<1>4. P!TypeOK'
  BY <1>1, <1>2, <1>3 DEF P!TypeOK
<1>5. P!ListensForChildren' /\ NotStarted' /\ NodeIsThere' /\ NoFalseDeletion'
  BY <1>1, <1>3 DEF P!ListensForChildren, P!Undisturbed, NotStarted, NodeIsThere,
     NoFalseDeletion, NeverDeleted, Exists
<1>6. Followed'
  BY <1>1, <1>3, Counts DEF Followed, P!Undisturbed, Exists
<1>7. QED
  BY <1>1, <1>2, <1>3, <1>4, <1>5, <1>6, Counts

\* The parent goes or comes back, or the session expires.
LEMMA DisturbStep ==
  ASSUME CacheInv, P!DeletePath \/ P!CreatePath \/ P!ExpireSession, CacheUntouched
  PROVE  /\ CacheInv'
         /\ UNCHANGED <<exists, births, changes>>
         /\ \/ faults' > 0
            \/ UNCHANGED <<faults, loop, cached, forwarding, adding, notifying>>
<1> USE PathFacts, EventFacts DEF CacheInv
<1>1. CASE P!DeletePath
  <2>1. /\ UNCHANGED <<exists, births, changes, writes, nodeWatch>>
        /\ childWatch' = 0 /\ faults' \in Nat /\ faults' > 0
        /\ UNCHANGED <<loop, isSvcPath, cached, adding, notifying, stopping, clearing>>
    BY <1>1 DEF P!DeletePath, P!Disturbed, CacheUntouched, P!TypeOK
  <2>2. pathExists' \in BOOLEAN
    BY <1>1 DEF P!DeletePath
  <2>3. ~Exists
    BY <1>1 DEF P!DeletePath, Exists
  <2>4. /\ forwarding' \in [P!ZkEvents -> Nat]
        /\ forwarding'[P!ChildrenChanged] = forwarding[P!ChildrenChanged]
        /\ forwarding'[P!NodeDeleted(Service)] = forwarding[P!NodeDeleted(Service)]
    BY <1>1 DEF P!DeletePath, P!TypeOK
  <2>5. P!TypeOK'
    BY <2>1, <2>2, <2>4 DEF P!TypeOK
  <2>6. P!ListensForChildren' /\ NotStarted' /\ NodeIsThere' /\ NoFalseDeletion' /\ Followed'
    BY <2>1, <2>3, <2>4, Counts DEF P!ListensForChildren, P!Undisturbed, NotStarted,
       NodeIsThere, NoFalseDeletion, NeverDeleted, Followed, Exists
  <2>7. QED
    BY <2>1, <2>5, <2>6
<1>2. CASE P!CreatePath
  <2>1. /\ UNCHANGED <<exists, births, changes, writes, faults, childWatch, nodeWatch,
                       forwarding>>
        /\ pathExists' = TRUE /\ loop # "new"
        /\ UNCHANGED <<loop, isSvcPath, cached, adding, notifying, stopping, clearing>>
    BY <1>2 DEF P!CreatePath, CacheUntouched
  <2>2. P!TypeOK'
    BY <2>1 DEF P!TypeOK
  <2>3. P!ListensForChildren' /\ NotStarted' /\ NodeIsThere' /\ NoFalseDeletion' /\ Followed'
    BY <2>1 DEF P!ListensForChildren, P!Undisturbed, NotStarted,
       NodeIsThere, NoFalseDeletion, NeverDeleted, Followed, Exists
  <2>4. QED
    BY <2>1, <2>2, <2>3
<1>3. CASE P!ExpireSession
  <2>1. /\ UNCHANGED <<pathExists, exists, births, changes, writes>>
        /\ childWatch' = 0 /\ faults' \in Nat /\ faults' > 0
        /\ UNCHANGED <<loop, isSvcPath, cached, adding, notifying, stopping, clearing>>
    BY <1>3 DEF P!ExpireSession, P!Disturbed, CacheUntouched, P!TypeOK
  <2>2. nodeWatch' \in [{Service} -> Nat]
    BY <1>3 DEF P!ExpireSession
  <2>3. /\ forwarding' \in [P!ZkEvents -> Nat]
        /\ forwarding'[P!ChildrenChanged] = forwarding[P!ChildrenChanged]
        /\ forwarding'[P!NodeDeleted(Service)] = forwarding[P!NodeDeleted(Service)]
    BY <1>3 DEF P!ExpireSession, P!TypeOK
  <2>4. P!TypeOK'
    BY <2>1, <2>2, <2>3 DEF P!TypeOK
  <2>5. P!ListensForChildren' /\ NotStarted' /\ NodeIsThere' /\ NoFalseDeletion' /\ Followed'
    BY <2>1, <2>3, Counts DEF P!ListensForChildren, P!Undisturbed, NotStarted,
       NodeIsThere, NoFalseDeletion, NeverDeleted, Followed, Exists
  <2>6. QED
    BY <2>1, <2>4, <2>5
<1>4. QED
  BY <1>1, <1>2, <1>3

-----------------------------------------------------------------------------
(* The goroutines of the cache and of its owner keep it too. *)

\* What none of them ever makes true: that the data was read, or the deletion heard of.
NothingReadUnseen == (HasRead' => HasRead) /\ (HasHeard' => HasHeard)

\* A new cache has a watch on the parent, and reads its children.
LEMMA NewPathCacheStep ==
  ASSUME CacheInv, P!NewPathCache
  PROVE  /\ CacheInv'
         /\ UNCHANGED <<exists, births>>
         /\ loop = "new"
         /\ Healthy' => NothingReadUnseen
<1> USE PathFacts, EventFacts, NotificationFacts DEF CacheInv
<1>1. /\ loop = "new"
      /\ UNCHANGED <<exists, births, changes, writes, nodeWatch, isSvcPath, forwarding,
                     stopping, clearing>>
  BY DEF P!NewPathCache
<1>2. CASE loop' = "running"
  <2>1. /\ pathExists' = TRUE /\ faults' = faults
        /\ childWatch' = childWatch + 1
        /\ adding' = [c \in {Service} |->
                        IF c \in exists /\ ~cached[c] THEN adding[c] + 1 ELSE adding[c]]
        /\ UNCHANGED <<cached, notifying>>
    BY <1>2 DEF P!NewPathCache, P!WatchPath, P!WatchAndAddChildren
  <2>2. /\ adding' \in [{Service} -> Nat]
        /\ Exists /\ ~cached[Service] => adding'[Service] > 0
        /\ adding'[Service] >= adding[Service]
    BY <2>1, Counts DEF P!TypeOK, Exists
  <2>3. P!TypeOK'
    BY <1>1, <1>2, <2>1, <2>2 DEF P!TypeOK
  <2>4. P!ListensForChildren'
    BY <1>1, <2>1, Counts DEF P!ListensForChildren, NotStarted
  <2>5. NotStarted' /\ NodeIsThere' /\ NoFalseDeletion'
    BY <1>1, <1>2, <2>1 DEF NotStarted, NodeIsThere, NoFalseDeletion, NeverDeleted, Exists
  <2>6. Followed'
    BY <1>1, <2>1, <2>2 DEF Followed, NotStarted, Exists
  <2>7. NothingReadUnseen
    BY <1>1, <2>1, <2>2, Counts DEF NothingReadUnseen, HasRead, HasHeard, ToBeRead, ToBeTold,
       Exists
  <2>8. QED
    BY <1>1, <2>3, <2>4, <2>5, <2>6, <2>7
<1>3. CASE loop' # "running"
  <2>1. /\ UNCHANGED <<pathExists, childWatch, cached, adding, notifying>>
        /\ faults' \in Nat /\ loop' = "failed"
    BY <1>3 DEF P!NewPathCache, P!Disturbed, P!TypeOK
  <2>2. P!TypeOK'
    BY <1>1, <2>1 DEF P!TypeOK
  <2>3. P!ListensForChildren' /\ NotStarted' /\ NodeIsThere' /\ NoFalseDeletion' /\ Followed'
    BY <1>1, <2>1 DEF P!ListensForChildren, P!Undisturbed, NotStarted, NodeIsThere,
       NoFalseDeletion, NeverDeleted, Followed, Exists
  <2>4. ~Healthy'
    BY <2>1 DEF Healthy
  <2>5. QED
    BY <1>1, <2>2, <2>3, <2>4
<1>4. QED
  BY <1>2, <1>3

\* The children are read again, with a new watch, or the cache is disturbed.
LEMMA OnChildrenChangedStep ==
  ASSUME CacheInv, P!OnChildrenChanged
  PROVE  /\ CacheInv'
         /\ UNCHANGED <<exists, births>>
         /\ Healthy' => NothingReadUnseen
<1> USE PathFacts, EventFacts, NotificationFacts DEF CacheInv
<1>1. /\ UNCHANGED <<pathExists, exists, births, changes, writes, nodeWatch, loop, isSvcPath,
                     stopping, clearing>>
      /\ loop = "running" /\ forwarding[P!ChildrenChanged] > 0
      /\ forwarding' = P!Minus(forwarding, P!ChildrenChanged)
      /\ UNCHANGED <<cached, notifying>>
  BY DEF P!OnChildrenChanged, P!ReceiveEvent, P!WatchPath, P!WatchAndAddChildren
<1>2. forwarding \in [P!ZkEvents -> Nat]
  BY DEF P!TypeOK
<1>3. /\ forwarding' \in [P!ZkEvents -> Nat]
      /\ forwarding'[P!ChildrenChanged] = forwarding[P!ChildrenChanged] - 1
      /\ forwarding'[P!NodeDeleted(Service)] = forwarding[P!NodeDeleted(Service)]
      /\ forwarding'[P!NodeDataChanged(Service)] = forwarding[P!NodeDataChanged(Service)]
  BY <1>1, <1>2, BagFacts
<1>4. CASE pathExists /\ P!WatchPath /\ UNCHANGED faults
  <2>1. /\ childWatch' = childWatch + 1
        /\ adding' = [c \in {Service} |->
                        IF c \in exists /\ ~cached[c] THEN adding[c] + 1 ELSE adding[c]]
        /\ faults' = faults
    BY <1>4 DEF P!WatchPath, P!WatchAndAddChildren
  <2>2. /\ adding' \in [{Service} -> Nat]
        /\ Exists /\ ~cached[Service] => adding'[Service] > 0
        /\ adding'[Service] >= adding[Service]
    BY <2>1, Counts DEF P!TypeOK, Exists
  <2>3. P!TypeOK'
    BY <1>1, <1>3, <2>1, <2>2 DEF P!TypeOK
  <2>4. P!ListensForChildren'
    BY <1>1, <1>3, <2>1, Counts DEF P!ListensForChildren, P!Undisturbed
  <2>5. NotStarted' /\ NodeIsThere' /\ NoFalseDeletion'
    BY <1>1, <1>3, <1>4 DEF NotStarted, NodeIsThere, NoFalseDeletion, NeverDeleted, Exists
  <2>6. Followed'
    BY <1>1, <1>3, <2>1, <2>2 DEF Followed, P!Undisturbed, Exists
  <2>7. NothingReadUnseen
    BY <1>1, <1>3, <2>2, Counts DEF NothingReadUnseen, HasRead, HasHeard, ToBeRead, ToBeTold,
       Exists
  <2>8. QED
    BY <1>1, <2>3, <2>4, <2>5, <2>6, <2>7
<1>5. CASE ~(pathExists /\ P!WatchPath /\ UNCHANGED faults)
  <2>1. /\ UNCHANGED <<childWatch, cached, adding, notifying>>
        /\ faults' \in Nat /\ (pathExists => faults' > 0) /\ faults' >= faults
    BY <1>5 DEF P!OnChildrenChanged, P!Disturbed, P!TypeOK
  <2>2. faults' > 0
    BY <1>1, <2>1, Counts DEF NodeIsThere, P!Undisturbed
  <2>3. P!TypeOK'
    BY <1>1, <1>3, <2>1 DEF P!TypeOK
  <2>4. P!ListensForChildren' /\ NotStarted' /\ NodeIsThere' /\ NoFalseDeletion' /\ Followed'
    BY <1>1, <1>3, <2>1, <2>2, Counts DEF P!ListensForChildren, P!Undisturbed, NotStarted,
       NodeIsThere, NoFalseDeletion, NeverDeleted, Followed, Exists
  <2>5. ~Healthy'
    BY <2>2 DEF Healthy
  <2>6. QED
    BY <1>1, <2>3, <2>4, <2>5
<1>6. QED
  BY <1>4, <1>5

\* A child is added together with a watch on it, and will be read.
LEMMA OnChildAddStep ==
  ASSUME CacheInv, Exists => births[Service] > 0, P!OnChildAdd(Service)
  PROVE  /\ CacheInv'
         /\ UNCHANGED <<exists, births>>
         /\ Healthy' => NothingReadUnseen
<1> USE PathFacts, EventFacts, NotificationFacts DEF CacheInv
<1>1. /\ UNCHANGED <<pathExists, exists, births, changes, writes, childWatch, loop, isSvcPath,
                     forwarding, stopping, clearing>>
      /\ loop = "running" /\ adding[Service] > 0
      /\ adding' = P!Minus(adding, Service)
  BY DEF P!OnChildAdd
<1>2. adding' \in [{Service} -> Nat]
  BY <1>1, BagFacts DEF P!TypeOK
<1>3. CASE Exists /\ nodeWatch' # nodeWatch
  <2>1. /\ nodeWatch' = P!Plus(nodeWatch, Service)
        /\ cached' = [cached EXCEPT ![Service] = TRUE]
        /\ notifying' = P!Plus(notifying, P!Added(Service))
        /\ faults' = faults
    BY <1>3 DEF P!OnChildAdd
  <2>2. /\ nodeWatch' \in [{Service} -> Nat] /\ nodeWatch'[Service] > 0
        /\ notifying' \in [P!PathCacheEvents -> Nat]
        /\ notifying'[P!Added(Service)] > 0
        /\ notifying'[P!Deleted(Service)] = notifying[P!Deleted(Service)]
    <3>1. /\ nodeWatch \in [{Service} -> Nat] /\ notifying \in [P!PathCacheEvents -> Nat]
          /\ P!Added(Service) \in P!PathCacheEvents /\ P!Deleted(Service) \in P!PathCacheEvents
          /\ P!Deleted(Service) # P!Added(Service)
      BY DEF P!TypeOK
    <3>2. QED
      BY ONLY <2>1, <3>1, BagFacts, Counts, CacheInv DEF CacheInv
  <2>3. cached' \in [P!Paths -> BOOLEAN] /\ cached'[Service]
    <3>1. cached \in [P!Paths -> BOOLEAN] /\ Service \in P!Paths /\ TRUE \in BOOLEAN
      BY DEF P!TypeOK
    <3>2. QED
      BY ONLY <2>1, <3>1, Zenon
  <2>4. P!TypeOK'
    BY <1>1, <1>2, <2>1, <2>2, <2>3 DEF P!TypeOK
  <2>5. P!ListensForChildren' /\ NotStarted' /\ NodeIsThere'
    BY <1>1, <2>1 DEF P!ListensForChildren, P!Undisturbed, NotStarted, NodeIsThere
  <2>6. NoFalseDeletion'
    BY <1>1, <1>3, <2>2, Counts DEF NoFalseDeletion, NeverDeleted, Exists
  <2>7. Followed'
    BY <2>2, <2>3 DEF Followed
  <2>8. NothingReadUnseen
    BY <1>1, <1>3, <2>2 DEF NothingReadUnseen, HasRead, HasHeard, ToBeRead, Exists
  <2>9. QED
    BY <1>1, <2>4, <2>5, <2>6, <2>7, <2>8
<1>4. CASE ~Exists \/ nodeWatch' = nodeWatch
  <2>1. /\ UNCHANGED <<nodeWatch, cached, notifying>>
        /\ faults' \in Nat /\ (Exists => faults' > 0) /\ faults' >= faults
    <3>1. nodeWatch' = P!Plus(nodeWatch, Service) => nodeWatch' # nodeWatch
      BY BagFacts, Counts DEF P!TypeOK
    <3>2. QED
      BY <1>4, <3>1 DEF P!OnChildAdd, P!Disturbed, P!TypeOK, Exists
  <2>2. P!TypeOK'
    BY <1>1, <1>2, <2>1 DEF P!TypeOK
  <2>3. P!ListensForChildren' /\ NotStarted' /\ NodeIsThere' /\ NoFalseDeletion' /\ Followed'
    BY <1>1, <2>1, Counts DEF P!ListensForChildren, P!Undisturbed, NotStarted, NodeIsThere,
       NoFalseDeletion, NeverDeleted, Followed, Exists
  <2>4. Healthy' => NothingReadUnseen
    BY <1>1, <2>1 DEF Healthy, NothingReadUnseen, HasRead, HasHeard, ToBeTold, Exists
  <2>5. QED
    BY <1>1, <2>2, <2>3, <2>4
<1>5. QED
  BY <1>3, <1>4

\* A change of data is announced, and the watch renewed if the node is there.
LEMMA OnNodeChangedStep ==
  ASSUME CacheInv, P!OnNodeChanged(Service)
  PROVE  /\ CacheInv'
         /\ UNCHANGED <<exists, births>>
         /\ Healthy' => NothingReadUnseen
<1> USE PathFacts, EventFacts, NotificationFacts DEF CacheInv
<1>1. /\ UNCHANGED <<pathExists, exists, births, changes, writes, childWatch, loop, isSvcPath,
                     cached, adding, stopping, clearing>>
      /\ loop = "running" /\ forwarding[P!NodeDataChanged(Service)] > 0
      /\ forwarding' = P!Minus(forwarding, P!NodeDataChanged(Service))
      /\ notifying' = P!Plus(notifying, P!Changed(Service))
      /\ faults' \in Nat /\ faults' >= faults
      /\ \/ Exists /\ nodeWatch' = P!Plus(nodeWatch, Service)
         \/ nodeWatch' = nodeWatch /\ (Exists => faults' > 0)
  BY DEF P!OnNodeChanged, P!ReceiveEvent, P!Disturbed, P!TypeOK, Exists
<1>2. forwarding \in [P!ZkEvents -> Nat] /\ notifying \in [P!PathCacheEvents -> Nat]
      /\ nodeWatch \in [{Service} -> Nat]
  BY DEF P!TypeOK
<1>3. /\ forwarding' \in [P!ZkEvents -> Nat]
      /\ forwarding'[P!ChildrenChanged] = forwarding[P!ChildrenChanged]
      /\ forwarding'[P!NodeDeleted(Service)] = forwarding[P!NodeDeleted(Service)]
  BY <1>1, <1>2, BagFacts
<1>4. /\ notifying' \in [P!PathCacheEvents -> Nat]
      /\ notifying'[P!Changed(Service)] > 0
      /\ notifying'[P!Deleted(Service)] = notifying[P!Deleted(Service)]
  BY <1>1, <1>2, BagFacts, Counts
<1>5. /\ nodeWatch' \in [{Service} -> Nat]
      /\ Exists /\ faults' = 0 => nodeWatch'[Service] > 0
  BY <1>1, <1>2, BagFacts, Counts
<1>6. P!TypeOK'
  BY <1>1, <1>3, <1>4, <1>5 DEF P!TypeOK
<1>7. P!ListensForChildren' /\ NotStarted' /\ NodeIsThere' /\ NoFalseDeletion'
  BY <1>1, <1>3, <1>4, Counts DEF P!ListensForChildren, P!Undisturbed, NotStarted,
     NodeIsThere, NoFalseDeletion, NeverDeleted, Exists
<1>8. Followed'
  BY <1>1, <1>3, <1>5, Counts DEF Followed, P!Undisturbed, Exists
<1>9. NothingReadUnseen
  BY <1>1, <1>3, <1>4 DEF NothingReadUnseen, HasRead, HasHeard, ToBeRead, ToBeTold, Exists
<1>10. QED
  BY <1>1, <1>6, <1>7, <1>8, <1>9

\* A deletion clears the flag and is announced; the deletion of the parent, which is a
\* disturbance, and an expired watch do not concern the node.
LEMMA OnDeletedOrExpiredStep ==
  ASSUME CacheInv, Exists => births[Service] > 0,
         NEW p \in P!Paths, P!OnChildDeleted(p) \/ P!OnNotWatching(p)
  PROVE  /\ CacheInv'
         /\ UNCHANGED <<exists, births>>
         /\ NothingReadUnseen
<1> USE PathFacts, EventFacts, NotificationFacts DEF CacheInv
<1>1. /\ UNCHANGED P!zkVars
      /\ UNCHANGED <<loop, isSvcPath, adding, stopping, clearing>>
      /\ loop = "running"
  BY DEF P!OnChildDeleted, P!OnNotWatching, P!ReceiveEvent
<1>2. forwarding \in [P!ZkEvents -> Nat] /\ notifying \in [P!PathCacheEvents -> Nat]
      /\ cached \in [P!Paths -> BOOLEAN]
  BY DEF P!TypeOK
<1>3. CASE P!OnChildDeleted(p)
  <2>1. /\ forwarding[P!NodeDeleted(p)] > 0
        /\ forwarding' = P!Minus(forwarding, P!NodeDeleted(p))
        /\ cached' = [cached EXCEPT ![p] = FALSE]
        /\ notifying' = P!Plus(notifying, P!Deleted(p))
    BY <1>3 DEF P!OnChildDeleted, P!ReceiveEvent
  <2>2. /\ forwarding' \in [P!ZkEvents -> Nat]
        /\ forwarding'[P!ChildrenChanged] = forwarding[P!ChildrenChanged]
        /\ forwarding'[P!NodeDataChanged(Service)] = forwarding[P!NodeDataChanged(Service)]
        /\ forwarding'[P!NodeDeleted(Service)] =
             IF p = Service THEN forwarding[P!NodeDeleted(Service)] - 1
             ELSE forwarding[P!NodeDeleted(Service)]
    BY <1>2, <2>1, BagFacts
  <2>3. /\ notifying' \in [P!PathCacheEvents -> Nat]
        /\ notifying'[P!Added(Service)] = notifying[P!Added(Service)]
        /\ notifying'[P!Changed(Service)] = notifying[P!Changed(Service)]
        /\ notifying'[P!Deleted(Service)] =
             IF p = Service THEN notifying[P!Deleted(Service)] + 1
             ELSE notifying[P!Deleted(Service)]
    BY <1>2, <2>1, BagFacts
  <2>4. cached' \in [P!Paths -> BOOLEAN]
    <3>1. FALSE \in BOOLEAN
      OBVIOUS
    <3>2. QED
      BY ONLY <1>2, <2>1, <3>1, Zenon
  <2>5. IF p = Service THEN ~cached'[Service] ELSE cached'[Service] = cached[Service]
    <3>1. Service \in P!Paths
      OBVIOUS
    <3>2. QED
      BY ONLY <1>2, <2>1, <3>1, Zenon
  <2>6. P!TypeOK'
    BY <1>1, <2>2, <2>3, <2>4 DEF P!TypeOK, P!zkVars
  <2>7. P!ListensForChildren' /\ NotStarted' /\ NodeIsThere'
    BY <1>1, <2>2 DEF P!ListensForChildren, P!Undisturbed, NotStarted, NodeIsThere, P!zkVars
  <2>8. CASE p = Service
    <3>1. ~NeverDeleted
      BY <2>1, <2>8 DEF NoFalseDeletion
    <3>2. NoFalseDeletion'
      BY <1>1, <2>5, <2>8, <3>1 DEF NoFalseDeletion, NeverDeleted, P!zkVars, Exists
    <3>3. Followed'
      BY <1>1, <3>1 DEF Followed, NeverDeleted, P!zkVars, Exists
    <3>4. NothingReadUnseen
      BY <1>1, <2>3, <2>5, <2>8, Counts DEF NothingReadUnseen, HasRead, HasHeard, ToBeTold,
         P!zkVars, Exists
    <3>5. QED
      BY <1>1, <2>6, <2>7, <3>2, <3>3, <3>4 DEF P!zkVars
  <2>9. CASE p # Service
    <3>1. cached'[Service] = cached[Service]
      BY <2>5, <2>9
    <3>2. NoFalseDeletion'
      BY <1>1, <2>2, <2>3, <2>9, <3>1 DEF NoFalseDeletion, NeverDeleted, P!zkVars, Exists
    <3>3. Followed'
      BY <1>1, <2>2, <2>9, <3>1 DEF Followed, P!Undisturbed, P!zkVars, Exists
    <3>4. NothingReadUnseen
      BY <1>1, <2>2, <2>3, <2>9, <3>1 DEF NothingReadUnseen, HasRead, HasHeard, ToBeRead,
         ToBeTold, P!zkVars, Exists
    <3>5. QED
      BY <1>1, <2>6, <2>7, <3>2, <3>3, <3>4 DEF P!zkVars
  <2>10. QED
    BY <2>8, <2>9
<1>4. CASE P!OnNotWatching(p)
  <2>1. /\ forwarding[P!NotWatching(p)] > 0
        /\ forwarding' = P!Minus(forwarding, P!NotWatching(p))
        /\ UNCHANGED <<cached, notifying>>
    BY <1>4 DEF P!OnNotWatching, P!ReceiveEvent
  <2>2. /\ forwarding' \in [P!ZkEvents -> Nat]
        /\ forwarding'[P!ChildrenChanged] = forwarding[P!ChildrenChanged]
        /\ forwarding'[P!NodeDataChanged(Service)] = forwarding[P!NodeDataChanged(Service)]
        /\ forwarding'[P!NodeDeleted(Service)] = forwarding[P!NodeDeleted(Service)]
    BY <1>2, <2>1, BagFacts
  <2>3. P!TypeOK'
    BY <1>1, <2>1, <2>2 DEF P!TypeOK, P!zkVars
  <2>4. P!ListensForChildren' /\ NotStarted' /\ NodeIsThere' /\ NoFalseDeletion' /\ Followed'
    BY <1>1, <2>1, <2>2 DEF P!ListensForChildren, P!Undisturbed, NotStarted, NodeIsThere,
       NoFalseDeletion, NeverDeleted, Followed, P!zkVars, Exists
  <2>5. NothingReadUnseen
    BY <1>1, <2>1, <2>2 DEF NothingReadUnseen, HasRead, HasHeard, ToBeRead, ToBeTold,
       P!zkVars, Exists
  <2>6. QED
    BY <1>1, <2>3, <2>4, <2>5 DEF P!zkVars
<1>5. QED
  BY <1>3, <1>4

\* The owner clears the flag of a deleted node only.
LEMMA OwnerClearStep ==
  ASSUME CacheInv, P!OwnerClear
  PROVE  /\ CacheInv'
         /\ UNCHANGED <<exists, births>>
         /\ NothingReadUnseen
<1> USE PathFacts DEF CacheInv
<1>1. /\ UNCHANGED P!zkVars
      /\ UNCHANGED <<loop, isSvcPath, forwarding, adding, notifying, stopping>>
      /\ cached' = [p \in P!Paths |-> cached[p] /\ p \notin clearing]
      /\ clearing' = {}
  BY DEF P!OwnerClear
<1>2. cached' \in [P!Paths -> BOOLEAN]
  BY <1>1
<1>3. cached'[Service] <=> cached[Service] /\ Service \notin clearing
  BY <1>1
<1>4. P!TypeOK'
  BY <1>1, <1>2 DEF P!TypeOK, P!zkVars
<1>5. P!ListensForChildren' /\ NotStarted' /\ NodeIsThere'
  BY <1>1, <1>3 DEF P!ListensForChildren, P!Undisturbed, NotStarted, NodeIsThere, P!zkVars
<1>6. NoFalseDeletion' /\ Followed'
  BY <1>1, <1>3 DEF NoFalseDeletion, NeverDeleted, Followed, P!Undisturbed, P!zkVars, Exists
<1>7. NothingReadUnseen
  BY <1>1, <1>3 DEF NothingReadUnseen, HasRead, HasHeard, ToBeRead, ToBeTold, P!zkVars,
     Exists
<1>8. QED
  BY <1>1, <1>4, <1>5, <1>6, <1>7 DEF P!zkVars

\* A crashed process promises nothing.
LEMMA MapRaceStep ==
  ASSUME CacheInv, P!MapRace
  PROVE  /\ CacheInv'
         /\ UNCHANGED <<exists, births>>
         /\ ~Healthy'
<1> USE DEF CacheInv
<1>1. /\ UNCHANGED P!zkVars
      /\ UNCHANGED <<isSvcPath, cached, forwarding, adding, notifying, stopping, clearing>>
      /\ loop' = "crashed"
  BY DEF P!MapRace
<1>2. P!TypeOK'
  BY <1>1 DEF P!TypeOK, P!zkVars
<1>3. P!ListensForChildren' /\ NotStarted' /\ NodeIsThere' /\ NoFalseDeletion' /\ Followed'
  BY <1>1 DEF P!ListensForChildren, P!Undisturbed, NotStarted, NodeIsThere, NoFalseDeletion,
     NeverDeleted, Followed, P!zkVars, Exists
<1>4. QED
  BY <1>1, <1>2, <1>3 DEF Healthy, P!zkVars

\* Taking an announcement.  The flag that will be cleared is that of a deleted node.
LEMMA OwnerReceiveStep ==
  ASSUME CacheInv, Exists => births[Service] > 0,
         NEW n \in P!PathCacheEvents, P!OwnerReceive(n)
  PROVE  /\ CacheInv'
         /\ UNCHANGED <<exists, births, faults, loop, cached, adding, forwarding>>
         /\ loop = "running"
         /\ \A m \in P!PathCacheEvents : m # n => notifying'[m] = notifying[m]
         /\ n = P!Deleted(Service) => ~NeverDeleted
<1> USE PathFacts, EventFacts, NotificationFacts DEF CacheInv
<1>1. /\ UNCHANGED P!zkVars
      /\ UNCHANGED <<loop, isSvcPath, cached, forwarding, adding, stopping>>
      /\ loop = "running"
      /\ notifying[n] > 0
      /\ notifying' = P!Minus(notifying, n)
      /\ clearing' = IF n.type = "Deleted" THEN {n.path} ELSE {}
  BY DEF P!OwnerReceive
<1>2. notifying \in [P!PathCacheEvents -> Nat]
  BY DEF P!TypeOK
<1>3. /\ notifying' \in [P!PathCacheEvents -> Nat]
      /\ notifying'[n] = notifying[n] - 1
      /\ \A m \in P!PathCacheEvents : m # n => notifying'[m] = notifying[m]
  BY <1>1, <1>2, BagFacts
<1>4. clearing' \in SUBSET P!Paths
  BY <1>1
<1>5. P!TypeOK'
  BY <1>1, <1>3, <1>4 DEF P!TypeOK, P!zkVars
<1>6. P!ListensForChildren' /\ NotStarted' /\ NodeIsThere' /\ Followed'
  BY <1>1 DEF P!ListensForChildren, P!Undisturbed, NotStarted, NodeIsThere, Followed,
     P!zkVars, Exists
<1>7. n = P!Deleted(Service) => ~NeverDeleted
  BY <1>1 DEF NoFalseDeletion
<1>8. NoFalseDeletion'
  <2>1. NeverDeleted' <=> NeverDeleted
    BY <1>1 DEF NeverDeleted, P!zkVars, Exists
  <2>2. NeverDeleted => notifying'[P!Deleted(Service)] = notifying[P!Deleted(Service)]
    BY <1>3, <1>7
  <2>3. NeverDeleted => Service \notin clearing'
    BY <1>1, <1>7
  <2>4. QED
    BY <1>1, <2>1, <2>2, <2>3 DEF NoFalseDeletion, P!zkVars
<1>9. QED
  BY <1>1, <1>3, <1>5, <1>6, <1>7, <1>8 DEF P!zkVars

\* Nothing happens to the cache.
LEMMA CacheStutter ==
  ASSUME CacheInv, UNCHANGED pathCacheVars
  PROVE  /\ CacheInv'
         /\ UNCHANGED <<exists, births>>
         /\ Healthy' <=> Healthy
         /\ HasRead' <=> HasRead
         /\ HasHeard' <=> HasHeard
<1>1. P!TypeOK'
  BY DEF pathCacheVars, CacheInv, P!TypeOK
<1>2. P!ListensForChildren' /\ NotStarted' /\ NodeIsThere' /\ NoFalseDeletion' /\ Followed'
      /\ isSvcPath'
  BY DEF pathCacheVars, CacheInv, P!ListensForChildren, P!Undisturbed, NotStarted,
     NodeIsThere, NoFalseDeletion, NeverDeleted, Followed, Exists
<1>3. QED
  BY <1>1, <1>2 DEF pathCacheVars, CacheInv, Healthy, HasRead, HasHeard, ToBeRead, ToBeTold,
     Exists

-----------------------------------------------------------------------------
(* The initial state *)

\* Nothing was announced yet, and the ServiceConfig is from before.
LEMMA InitIInv == Init => IInv
<1> SUFFICES ASSUME Init PROVE IInv
  OBVIOUS
<1> USE PathFacts, EventFacts, NotificationFacts
<1>1. /\ faults = 0 /\ childWatch = 0 /\ loop = "new" /\ isSvcPath /\ clearing = {}
      /\ forwarding[P!ChildrenChanged] = 0 /\ ~cached[Service]
      /\ forwarding[P!NodeDeleted(Service)] = 0 /\ notifying[P!Deleted(Service)] = 0
      /\ births[Service] = IF Exists THEN 1 ELSE 0
  BY DEF Init, P!Init, Exists
<1>2. P!TypeOK
  BY DEF Init, P!Init, P!TypeOK
<1>3. TypeOK
  <2>1. handler \in Handlers
    BY ConfigSyncAssumption DEF Init, Idle, Handlers
  <2>2. informer \in [exists : BOOLEAN, current : BOOLEAN]
    BY DEF Init
  <2>3. out \in Seq(Data \cup {Gone}) /\ entry \in Usable \cup {Gone} /\ data \in Data
        /\ sc \in Usable \cup {Gone} /\ troubles \in Nat /\ causes = {}
    BY DEF Init
  <2>4. QED
    BY <1>2, <2>1, <2>2, <2>3 DEF TypeOK
<1>4. CacheInv
  BY <1>1, <1>2 DEF CacheInv, P!ListensForChildren, P!Undisturbed, NotStarted, NodeIsThere,
     NoFalseDeletion, Followed
<1>5. Lives
  BY <1>1 DEF Lives
<1>6. HandlerFits
  BY DEF Init, HandlerFits, Idle
<1>7. \A config : (~Exists => config = Gone) => Follows(config)
  BY <1>1 DEF Follows, HasRead, HasHeard
<1>8. EntryFollows
  BY <1>7 DEF Init, EntryFollows
<1>9. ServiceConfigFollows
  <2>1. sc \in Usable \cup {Gone} /\ (~Exists => sc = Gone)
    BY DEF Init
  <2>2. Becomes(sc)
    BY DEF Init, Becomes, Outcome, Idle
  <2>3. QED
    BY <1>7, <2>1, <2>2 DEF ServiceConfigFollows
<1>10. QED
  BY <1>3, <1>4, <1>5, <1>6, <1>8, <1>9 DEF IInv

-----------------------------------------------------------------------------
(* Every action preserves the inductive invariant. *)

\* If the node says nothing new and nobody forgets what he was told, what followed the
\* node goes on to follow it.
LEMMA StillFollows ==
  ASSUME NothingReadUnseen, data' = data \/ ~HasRead', NEW config, Follows(config)
  PROVE  /\ HasRead' => data' = Unusable \/ config = data'
         /\ HasHeard' => config = Gone
  BY DEF NothingReadUnseen, Follows

\* What follows the node, when only the cache and the node take a step.
LEMMA CacheOnly ==
  ASSUME EntryFollows, ServiceConfigFollows,
         UNCHANGED <<entry, out, handler, sc>>,
         causes \subseteq causes',
         Healthy' /\ NoCauseForEntry' =>
           Healthy /\ NothingReadUnseen /\ (data' = data \/ ~HasRead')
  PROVE  EntryFollows' /\ ServiceConfigFollows'
<1>1. EntryFollows'
  <2> SUFFICES ASSUME Healthy', NoCauseForEntry' PROVE Follows(entry)'
    BY DEF EntryFollows
  <2>1. NoCauseForEntry
    BY DEF NoCauseForEntry
  <2>2. Follows(entry)
    BY <2>1 DEF EntryFollows
  <2>3. QED
    BY <2>2, StillFollows DEF Follows
<1>2. ServiceConfigFollows'
  <2> SUFFICES ASSUME Healthy', causes' = {}
               PROVE  \E config \in Usable \cup {Gone} : Becomes(config)' /\ Follows(config)'
    BY DEF ServiceConfigFollows
  <2>1. causes = {} /\ NoCauseForEntry'
    BY DEF NoCauseForEntry
  <2>2. PICK config \in Usable \cup {Gone} : Becomes(config) /\ Follows(config)
    BY <2>1 DEF ServiceConfigFollows
  <2>3. Becomes(config)'
    BY <2>2 DEF Becomes, Outcome
  <2>4. Follows(config)'
    BY <2>1, <2>2, StillFollows DEF Follows
  <2>5. QED
    BY <2>3, <2>4
<1>3. QED
  BY <1>1, <1>2

\* A change in the configuration center.
LEMMA ConfigureStep ==
  ASSUME IInv, Configure
  PROVE  IInv'
<1> USE DEF IInv
<1>1. /\ P!ZooKeeper /\ CacheUntouched
      /\ IF exists' \subseteq exists /\ changes' = changes
         THEN data' = data
         ELSE data' \in IF Exists THEN Data \ {data} ELSE Data
      /\ causes' = causes
           \cup (IF births'[Service] > 1 THEN {"CreatedAgain"} ELSE {})
           \cup (IF Exists /\ ~Exists' /\ nodeWatch[Service] = 0 THEN {"DeletionUnseen"}
                 ELSE {})
      /\ UNCHANGED <<entry, out, handler, kubeVars, troubles>>
  BY DEF Configure, Causes, P!ZooKeeper, CacheUntouched, Exists
<1>2. /\ CacheInv'
      /\ Exists' => births'[Service] > 0
      /\ Healthy' /\ NoCauseForEntry' =>
           Healthy /\ NothingReadUnseen /\ (data' = data \/ ~HasRead')
  <2>1. CASE P!CreateChild(Service)
    <3>1. /\ CacheInv' /\ ~Exists /\ Exists' /\ births'[Service] = births[Service] + 1
          /\ UNCHANGED <<faults, loop, cached>>
      BY <1>1, <2>1, CreateStep DEF Lives
    <3>2. births'[Service] > 1 => ~NoCauseForEntry'
      BY <1>1 DEF NoCauseForEntry
    <3>3. births[Service] = 0 => ~cached'[Service]
      BY <3>1 DEF CacheInv, NoFalseDeletion
    <3>4. births[Service] \in Nat
      BY Counts DEF CacheInv
    <3>5. births'[Service] > 1 \/ ~HasRead'
      BY <3>1, <3>3, <3>4 DEF HasRead
    <3>6. ~HasHeard'
      BY <3>1 DEF HasHeard
    <3>7. QED
      BY <3>1, <3>2, <3>4, <3>5, <3>6 DEF Healthy, NothingReadUnseen
  <2>2. CASE P!DeleteChild(Service)
    <3>1. /\ CacheInv' /\ Exists /\ ~Exists' /\ births' = births
          /\ UNCHANGED <<faults, loop>>
          /\ nodeWatch[Service] > 0 => forwarding'[P!NodeDeleted(Service)] > 0
      BY <1>1, <2>2, DeleteStep DEF Lives
    <3>2. nodeWatch[Service] = 0 => ~NoCauseForEntry'
      BY <1>1, <3>1 DEF NoCauseForEntry
    <3>3. nodeWatch[Service] \in Nat
      BY Counts DEF CacheInv
    <3>4. ~HasRead' /\ (NoCauseForEntry' => ~HasHeard')
      BY <3>1, <3>2, <3>3 DEF HasRead, HasHeard, ToBeTold
    <3>5. QED
      BY <3>1, <3>4 DEF Healthy, NothingReadUnseen
  <2>3. CASE P!ChangeData(Service)
    <3>1. /\ CacheInv' /\ Exists /\ exists' = exists /\ births' = births
          /\ UNCHANGED <<faults, loop, cached>>
          /\ nodeWatch[Service] > 0 \/ forwarding[P!NodeDataChanged(Service)] > 0
               => forwarding'[P!NodeDataChanged(Service)] > 0
      BY <1>1, <2>3, ChangeStep
    <3>2. births[Service] \in Nat /\ births[Service] > 0
      BY <3>1, Counts DEF CacheInv, Lives
    <3>3. births[Service] > 1 => ~NoCauseForEntry'
      BY <1>1, <3>1 DEF NoCauseForEntry
    <3>4. Healthy' /\ NoCauseForEntry' /\ cached[Service] =>
            nodeWatch[Service] > 0 \/ forwarding[P!NodeDataChanged(Service)] > 0
      BY <3>1, <3>2, <3>3 DEF CacheInv, Followed, NotStarted, Healthy, P!Undisturbed
    <3>5. Healthy' /\ NoCauseForEntry' => Healthy /\ ~HasRead' /\ ~HasHeard'
      BY <3>1, <3>4 DEF Healthy, HasRead, HasHeard, ToBeRead, Exists
    <3>6. QED
      BY <3>1, <3>2, <3>5 DEF NothingReadUnseen, Exists
  <2>4. CASE P!DeletePath \/ P!CreatePath \/ P!ExpireSession
    <3>1. /\ CacheInv' /\ UNCHANGED <<exists, births, changes>>
          /\ \/ faults' > 0
             \/ UNCHANGED <<faults, loop, cached, forwarding, adding, notifying>>
      BY <1>1, <2>4, DisturbStep
    <3>2. data' = data
      BY <1>1, <3>1
    <3>3. QED
      BY <3>1, <3>2 DEF Lives, Healthy, NothingReadUnseen, HasRead, HasHeard, ToBeRead,
         ToBeTold, Exists
  <2>5. QED
    BY <1>1, <2>1, <2>2, <2>3, <2>4 DEF P!ZooKeeper
<1>3. TypeOK'
  <2>1. data' \in Data
    BY <1>1 DEF TypeOK
  <2>2. causes' \subseteq {"CreatedAgain", "DeletionUnseen", "Overtaken", "RequestFailed",
                           "NotFound", "AlreadyExists", "RetriesUsedUp"}
    BY <1>1 DEF TypeOK
  <2>3. QED
    BY <1>1, <1>2, <2>1, <2>2 DEF TypeOK, CacheInv, kubeVars
<1>4. Lives'
  <2>1. births'[Service] \in Nat
    BY <1>3 DEF TypeOK, P!TypeOK
  <2>2. QED
    BY <1>1, <1>2, <2>1 DEF Lives
<1>5. HandlerFits'
  BY <1>1 DEF HandlerFits
<1>6. EntryFollows' /\ ServiceConfigFollows'
  BY <1>1, <1>2, CacheOnly DEF kubeVars
<1>7. QED
  BY <1>2, <1>3, <1>4, <1>5, <1>6

\* What a step of the cache alone does to the whole.
LEMMA CacheStepSuffices ==
  ASSUME IInv, CacheInv', UNCHANGED <<exists, births>>,
         UNCHANGED <<data, entry, out, handler, kubeVars, history>>,
         Healthy' => Healthy /\ NothingReadUnseen
  PROVE  IInv'
<1> USE DEF IInv
<1>1. TypeOK'
  BY DEF TypeOK, CacheInv, kubeVars, history
<1>2. Lives' /\ HandlerFits'
  BY DEF Lives, Exists, HandlerFits, history
<1>3. EntryFollows' /\ ServiceConfigFollows'
  BY CacheOnly DEF kubeVars, history
<1>4. QED
  BY <1>1, <1>2, <1>3

\* The cache is made, or there is none.
LEMMA StartStep ==
  ASSUME IInv, Start
  PROVE  IInv'
<1>1. /\ CacheInv' /\ UNCHANGED <<exists, births>>
      /\ loop = "new" /\ (Healthy' => NothingReadUnseen)
  BY NewPathCacheStep DEF IInv, Start
<1>2. faults \in Nat /\ (faults' = 0 => faults = 0)
  BY DEF Start, P!NewPathCache, P!Disturbed, IInv, TypeOK, P!TypeOK
<1>3. Healthy' => Healthy
  BY <1>1, <1>2 DEF Healthy
<1>4. QED
  BY <1>1, <1>3, CacheStepSuffices DEF Start

\* The loop of the cache handles an event, or the owner clears a flag.
LEMMA PathCacheStepStep ==
  ASSUME IInv, PathCacheStep
  PROVE  IInv'
<1>1. CacheInv /\ (Exists => births[Service] > 0)
  BY DEF IInv, Lives
<1>2. /\ CacheInv' /\ UNCHANGED <<exists, births>>
      /\ Healthy' => NothingReadUnseen
  <2>1. CASE P!OnChildrenChanged
    BY <1>1, <2>1, OnChildrenChangedStep
  <2>2. CASE P!OnChildAdd(Service)
    BY <1>1, <2>2, OnChildAddStep
  <2>3. CASE P!OnNodeChanged(Service)
    BY <1>1, <2>3, OnNodeChangedStep
  <2>4. CASE \E p \in P!Paths : P!OnChildDeleted(p) \/ P!OnNotWatching(p)
    BY <1>1, <2>4, OnDeletedOrExpiredStep
  <2>5. CASE P!OwnerClear
    BY <1>1, <2>5, OwnerClearStep
  <2>6. QED
    BY <2>1, <2>2, <2>3, <2>4, <2>5 DEF PathCacheStep, P!Handler
<1>3. faults \in Nat /\ (faults' = 0 => faults = 0) /\ loop' = loop
  <2>1. faults \in Nat
    BY DEF IInv, TypeOK, P!TypeOK
  <2>2. loop' = loop
    BY DEF PathCacheStep, P!Handler, P!OnChildrenChanged, P!OnChildAdd, P!OnNodeChanged,
       P!OnChildDeleted, P!OnNotWatching, P!OwnerClear
  <2>3. faults' = faults \/ P!Disturbed
    BY DEF PathCacheStep, P!Handler, P!OnChildrenChanged, P!OnChildAdd, P!OnNodeChanged,
       P!OnChildDeleted, P!OnNotWatching, P!OwnerClear, P!zkVars
  <2>4. QED
    BY <2>1, <2>2, <2>3 DEF P!Disturbed
<1>4. Healthy' => Healthy
  BY <1>3 DEF Healthy
<1>5. QED
  BY <1>2, <1>4, CacheStepSuffices DEF PathCacheStep

\* The runtime ends the process.
LEMMA CrashStep ==
  ASSUME IInv, Crash
  PROVE  IInv'
<1>1. CacheInv' /\ UNCHANGED <<exists, births>> /\ ~Healthy'
  BY MapRaceStep DEF IInv, Crash
<1>2. QED
  BY <1>1, CacheStepSuffices DEF Crash

-----------------------------------------------------------------------------
(* The event loop of the owner *)

\* An event is sent: it is the last that counts, unless it says nothing.
LEMMA BecomesAppended ==
  ASSUME TypeOK, NEW d \in Data \cup {Gone}, out' = Append(out, d), UNCHANGED <<handler, sc>>
  PROVE  /\ out' \in Seq(Data \cup {Gone})
         /\ Becomes(d)'
         /\ d = Unusable => \A config : Becomes(config) => Becomes(config)'
<1> DEFINE n == Len(out)
<1>1. out \in Seq(Data \cup {Gone}) /\ n \in Nat
  BY DEF TypeOK
<1>2. /\ out' \in Seq(Data \cup {Gone})
      /\ Len(out') = n + 1 /\ out'[n + 1] = d
      /\ \A i \in 1..n : out'[i] = out[i]
  BY <1>1
<1> HIDE DEF n
<1>3. Becomes(d)'
  <2>1. n + 1 \in 1..Len(out') /\ \A j \in 1..Len(out') : ~(j > n + 1)
    BY <1>1, <1>2
  <2>2. QED
    BY <1>2, <2>1 DEF Becomes
<1>4. ASSUME d = Unusable, NEW config, Becomes(config)
      PROVE  Becomes(config)'
  <2>1. CASE \E i \in 1..n : out[i] = config /\ \A j \in 1..n : j > i => out[j] = Unusable
    <3>1. PICK i \in 1..n : out[i] = config /\ \A j \in 1..n : j > i => out[j] = Unusable
      BY <2>1
    <3>2. i \in 1..Len(out') /\ out'[i] = config
      BY <1>1, <1>2, <3>1
    <3>3. \A j \in 1..Len(out') : j > i => out'[j] = Unusable
      BY <1>1, <1>2, <1>4, <3>1
    <3>4. QED
      BY <3>2, <3>3 DEF Becomes
  <2>2. CASE /\ \A j \in 1..n : out[j] = Unusable
             /\ config = Outcome
    <3>1. \A j \in 1..Len(out') : out'[j] = Unusable
      BY <1>1, <1>2, <1>4, <2>2
    <3>2. QED
      BY <2>2, <3>1 DEF Becomes, Outcome
  <2>3. QED
    BY <1>4, <2>1, <2>2 DEF Becomes, n
<1>5. QED
  BY <1>2, <1>3, <1>4

\* The data is read, as it is now, and sent on.
LEMMA OnWrittenStep ==
  ASSUME IInv, NEW n \in P!PathCacheEvents, OnWritten(n)
  PROVE  IInv'
<1> USE DEF IInv
<1>1. /\ CacheInv'
      /\ UNCHANGED <<exists, births, faults, loop, cached, adding, forwarding>>
      /\ notifying'[P!Deleted(Service)] = notifying[P!Deleted(Service)]
      /\ UNCHANGED <<data, handler, kubeVars>>
      /\ causes \subseteq causes' /\ causes' \subseteq causes \cup {"RequestFailed"}
  <2>1. n.type # "Deleted" /\ P!OwnerReceive(n)
    BY NotificationFacts DEF OnWritten
  <2>2. P!Deleted(Service) \in P!PathCacheEvents /\ n # P!Deleted(Service)
    BY <2>1, NotificationFacts, PathFacts
  <2>3. /\ UNCHANGED <<data, handler, kubeVars>>
        /\ causes' = causes \/ causes' = causes \cup {"RequestFailed"}
    BY DEF OnWritten, Causes
  <2>4. QED
    BY <2>1, <2>2, <2>3, OwnerReceiveStep DEF Lives
<1>2. PICK d \in Data : Read(d) /\ \/ d = IF Exists THEN data ELSE Unusable
                                   \/ "RequestFailed" \in causes'
  <2>1. Unusable \in Data /\ data \in Data
    BY DEF Data, TypeOK
  <2>2. QED
    BY <2>1 DEF OnWritten, Causes
<1>3. /\ out' \in Seq(Data \cup {Gone})
      /\ Becomes(d)'
      /\ d = Unusable => \A config : Becomes(config) => Becomes(config)'
  BY <1>1, <1>2, BecomesAppended DEF Read, kubeVars
<1>4. TypeOK'
  <2>1. entry' \in Usable \cup {Gone}
    BY <1>2 DEF Read, TypeOK, Data
  <2>2. troubles' \in Nat
    BY DEF OnWritten, Trouble, TypeOK
  <2>3. causes' \subseteq {"CreatedAgain", "DeletionUnseen", "Overtaken", "RequestFailed",
                           "NotFound", "AlreadyExists", "RetriesUsedUp"}
    BY <1>1 DEF TypeOK
  <2>4. QED
    BY <1>1, <1>3, <2>1, <2>2, <2>3 DEF TypeOK, CacheInv, kubeVars
<1>5. Lives' /\ HandlerFits'
  BY <1>1 DEF Lives, HandlerFits, Exists
<1>6. /\ Healthy' => Healthy
      /\ NoCauseForEntry' => /\ NoCauseForEntry
                             /\ d = IF Exists THEN data ELSE Unusable
      /\ Exists' = Exists
  BY <1>1, <1>2 DEF Healthy, NoCauseForEntry, Exists
<1>7. HasHeard' => HasHeard
  BY <1>1 DEF HasHeard, ToBeTold, Exists
<1>8. ASSUME Healthy', NoCauseForEntry'
      PROVE  /\ d # Unusable => Follows(d)'
             /\ d = Unusable => \A config : Follows(config) => Follows(config)'
  BY <1>1, <1>6, <1>7, <1>8 DEF Follows, HasRead, HasHeard
<1>9. EntryFollows'
  BY <1>2, <1>6, <1>8 DEF EntryFollows, Read, Follows
<1>10. ServiceConfigFollows'
  <2> SUFFICES ASSUME Healthy', causes' = {}
               PROVE  \E config \in Usable \cup {Gone} : Becomes(config)' /\ Follows(config)'
    BY DEF ServiceConfigFollows
  <2>1. causes = {} /\ NoCauseForEntry'
    BY <1>1 DEF NoCauseForEntry
  <2>2. CASE d = Unusable
    <3>1. PICK config \in Usable \cup {Gone} : Becomes(config) /\ Follows(config)
      BY <1>6, <2>1 DEF ServiceConfigFollows
    <3>2. QED
      BY <1>3, <1>8, <2>1, <2>2, <3>1
  <2>3. CASE d # Unusable
    BY <1>3, <1>8, <2>1, <2>3 DEF Data
  <2>4. QED
    BY <2>2, <2>3
<1>11. QED
  BY <1>1, <1>4, <1>5, <1>9, <1>10

\* The entry is forgotten, and the handler will be told.
LEMMA OnDeletedStep ==
  ASSUME IInv, NEW n \in P!PathCacheEvents, OnDeleted(n)
  PROVE  IInv'
<1> USE DEF IInv
<1>1. n = P!Deleted(n.path) /\ n.path \in P!Paths /\ P!OwnerReceive(n)
      /\ UNCHANGED <<data, handler, kubeVars, history>>
  BY NotificationFacts DEF OnDeleted
<1>2. /\ CacheInv'
      /\ UNCHANGED <<exists, births, faults, loop, cached, adding, forwarding>>
      /\ \A m \in P!PathCacheEvents : m # n => notifying'[m] = notifying[m]
      /\ n = P!Deleted(Service) => ~NeverDeleted
  BY <1>1, OwnerReceiveStep DEF Lives
<1>3. CASE n.path = Service
  <2>1. entry' = Gone /\ out' = Append(out, Gone)
    BY <1>3 DEF OnDeleted
  <2>2. out' \in Seq(Data \cup {Gone}) /\ Becomes(Gone)'
    BY <1>1, <2>1, BecomesAppended DEF kubeVars
  <2>3. TypeOK'
    BY <1>1, <1>2, <2>1, <2>2 DEF TypeOK, CacheInv, kubeVars, history
  <2>4. Lives' /\ HandlerFits'
    BY <1>1, <1>2 DEF Lives, HandlerFits, Exists, history
  <2>5. NoCauseForEntry' => Follows(Gone)'
    <3>1. ~NeverDeleted
      BY <1>1, <1>2, <1>3
    <3>2. births[Service] \in Nat
      BY Counts DEF CacheInv
    <3>3. NoCauseForEntry' => ~Exists
      BY <1>1, <3>1, <3>2 DEF NoCauseForEntry, NeverDeleted, Lives, history
    <3>4. QED
      BY <1>2, <3>3 DEF Follows, HasRead, Exists
  <2>6. EntryFollows' /\ ServiceConfigFollows'
    BY <2>1, <2>2, <2>5 DEF EntryFollows, ServiceConfigFollows, NoCauseForEntry
  <2>7. QED
    BY <1>2, <2>3, <2>4, <2>6
<1>4. CASE n.path # Service
  <2>1. UNCHANGED <<entry, out>>
    BY <1>4 DEF OnDeleted
  <2>2. /\ notifying'[P!Deleted(Service)] = notifying[P!Deleted(Service)]
        /\ notifying'[P!Added(Service)] = notifying[P!Added(Service)]
        /\ notifying'[P!Changed(Service)] = notifying[P!Changed(Service)]
    <3>1. n \notin {P!Deleted(Service), P!Added(Service), P!Changed(Service)}
      BY <1>1, <1>4, NotificationFacts, PathFacts
    <3>2. QED
      BY <1>2, <3>1, NotificationFacts, PathFacts
  <2>3. NothingReadUnseen /\ (Healthy' => Healthy)
    BY <1>2, <2>2 DEF NothingReadUnseen, HasRead, HasHeard, ToBeRead, ToBeTold, Exists,
       Healthy
  <2>4. QED
    BY <1>1, <1>2, <2>1, <2>3, CacheStepSuffices
<1>5. QED
  BY <1>3, <1>4

-----------------------------------------------------------------------------
(* The adapter and its handler *)

\* Nothing happens to the cache, the node or the entry.
LEMMA EntryUntouched ==
  ASSUME IInv, UNCHANGED <<pathCacheVars, data, entry>>, causes \subseteq causes'
  PROVE  /\ CacheInv' /\ P!TypeOK' /\ Lives' /\ EntryFollows'
         /\ Healthy' <=> Healthy
         /\ \A config : Follows(config) => Follows(config)'
<1> USE DEF IInv
<1>1. /\ CacheInv' /\ UNCHANGED <<exists, births>>
      /\ Healthy' <=> Healthy
      /\ HasRead' <=> HasRead
      /\ HasHeard' <=> HasHeard
  BY CacheStutter
<1>2. \A config : Follows(config) => Follows(config)'
  BY <1>1 DEF Follows
<1>3. NoCauseForEntry' => NoCauseForEntry
  BY DEF NoCauseForEntry
<1>4. Lives'
  BY <1>1 DEF Lives, Exists
<1>5. EntryFollows'
  BY <1>1, <1>3 DEF EntryFollows, Follows
<1>6. QED
  BY <1>1, <1>2, <1>4, <1>5 DEF CacheInv

\* What a step of the handler has to do: to stay on the way to the same outcome, or to
\* say why not.
LEMMA HandlerStepSuffices ==
  ASSUME IInv, UNCHANGED <<pathCacheVars, data, entry, out>>, causes \subseteq causes',
         causes' \subseteq causes \cup {"RequestFailed", "NotFound", "AlreadyExists",
                                        "RetriesUsedUp"},
         handler' \in Handlers, HandlerFits',
         sc' \in Usable \cup {Gone}, informer' \in [exists : BOOLEAN, current : BOOLEAN],
         troubles' \in Nat,
         causes' = {} => Outcome' = Outcome
  PROVE  IInv'
<1> USE DEF IInv
<1>1. /\ CacheInv' /\ P!TypeOK' /\ Lives' /\ EntryFollows'
      /\ Healthy' <=> Healthy
      /\ \A config : Follows(config) => Follows(config)'
  BY EntryUntouched
<1>2. TypeOK'
  BY <1>1 DEF TypeOK
<1>3. ServiceConfigFollows'
  <2> SUFFICES ASSUME Healthy', causes' = {}
               PROVE  \E config \in Usable \cup {Gone} : Becomes(config)' /\ Follows(config)'
    BY DEF ServiceConfigFollows
  <2>1. PICK config \in Usable \cup {Gone} : Becomes(config) /\ Follows(config)
    BY <1>1 DEF ServiceConfigFollows
  <2>2. Becomes(config)'
    BY <2>1 DEF Becomes
  <2>3. QED
    BY <1>1, <2>1, <2>2
<1>4. QED
  BY <1>1, <1>2, <1>3

\* One of the elements of a sequence is taken away.
LEMMA RemoveAtFacts ==
  ASSUME NEW S, NEW s \in Seq(S), NEW i \in 1..Len(s)
  PROVE  /\ RemoveAt(s, i) \in Seq(S)
         /\ i = 1 => /\ Len(RemoveAt(s, i)) = Len(s) - 1
                     /\ \A j \in 1..(Len(s) - 1) : RemoveAt(s, i)[j] = s[j + 1]
<1>1. /\ SubSeq(s, 1, i - 1) \in Seq(S) /\ SubSeq(s, i + 1, Len(s)) \in Seq(S)
      /\ RemoveAt(s, i) = SubSeq(s, 1, i - 1) \o SubSeq(s, i + 1, Len(s))
  BY DEF RemoveAt
<1>2. RemoveAt(s, i) \in Seq(S)
  BY <1>1
<1>3. ASSUME i = 1
      PROVE  /\ Len(RemoveAt(s, i)) = Len(s) - 1
             /\ \A j \in 1..(Len(s) - 1) : RemoveAt(s, i)[j] = s[j + 1]
  <2>1. s # <<>>
    OBVIOUS
  <2>2. SubSeq(s, 1, 0) = <<>> /\ SubSeq(s, 2, Len(s)) = Tail(s)
    BY <2>1, TailIsSubSeq
  <2>3. RemoveAt(s, i) = <<>> \o Tail(s)
    BY <1>1, <1>3, <2>2
  <2>4. Tail(s) \in Seq(S) /\ RemoveAt(s, i) = Tail(s)
    BY <2>1, <2>3
  <2>5. QED
    BY <2>1, <2>4
<1>4. QED
  BY <1>2, <1>3

\* The loop of the adapter takes an event.
LEMMA ReceiveStep ==
  ASSUME IInv, NEW i \in DOMAIN out, Receive(i)
  PROVE  IInv'
<1> USE DEF IInv
<1>1. /\ handler = Idle /\ out' = RemoveAt(out, i)
      /\ UNCHANGED <<pathCacheVars, data, entry, kubeVars, troubles>>
      /\ causes' = causes \cup (IF i > 1 THEN {"Overtaken"} ELSE {})
  BY DEF Receive, Causes
<1>2. out \in Seq(Data \cup {Gone}) /\ i \in 1..Len(out) /\ Len(out) \in Nat
  BY DEF TypeOK
<1>3. /\ out' \in Seq(Data \cup {Gone})
      /\ i = 1 => /\ Len(out') = Len(out) - 1
                  /\ \A j \in 1..(Len(out) - 1) : out'[j] = out[j + 1]
  BY <1>1, <1>2, RemoveAtFacts
<1>4. out[i] \in Data \cup {Gone}
  BY <1>2
<1>5. handler' = IF out[i] = Unusable THEN Idle ELSE Handling(out[i])
  BY <1>4, ConfigSyncAssumption DEF Receive, ToServiceConfig, Data
<1>6. /\ CacheInv' /\ P!TypeOK' /\ Lives' /\ EntryFollows'
      /\ Healthy' <=> Healthy
      /\ \A config : Follows(config) => Follows(config)'
  BY <1>1, EntryUntouched
<1>7. handler' \in Handlers
  BY <1>4, <1>5, ConfigSyncAssumption DEF Idle, Handling, Handlers
<1>8. HandlerFits'
  BY <1>5 DEF HandlerFits, Idle, Handling
<1>9. TypeOK'
  BY <1>1, <1>3, <1>6, <1>7 DEF TypeOK, kubeVars
<1>10. ASSUME i = 1, NEW config \in Usable \cup {Gone}, Becomes(config)
       PROVE  Becomes(config)'
  <2>1. Outcome = sc
    BY <1>1 DEF Outcome, Idle
  <2>2. Outcome' = IF out[1] = Unusable THEN sc ELSE out[1]
    BY <1>1, <1>5, <1>10 DEF Outcome, Idle, Handling, kubeVars
  <2>3. config # Unusable
    BY ConfigSyncAssumption
  <2>4. CASE \E k \in 2..Len(out) :
               out[k] = config /\ \A j \in 1..Len(out) : j > k => out[j] = Unusable
    <3>1. PICK k \in 2..Len(out) :
                 out[k] = config /\ \A j \in 1..Len(out) : j > k => out[j] = Unusable
      BY <2>4
    <3>2. k - 1 \in 1..Len(out') /\ out'[k - 1] = config
      BY <1>2, <1>3, <1>10, <3>1
    <3>3. \A j \in 1..Len(out') : j > k - 1 => out'[j] = Unusable
      BY <1>2, <1>3, <1>10, <3>1
    <3>4. QED
      BY <3>2, <3>3 DEF Becomes
  <2>5. CASE /\ out[1] = config \/ (out[1] = Unusable /\ config = sc)
             /\ \A j \in 1..Len(out) : j > 1 => out[j] = Unusable
    <3>1. \A j \in 1..Len(out') : out'[j] = Unusable
      BY <1>2, <1>3, <1>10, <2>5
    <3>2. config = Outcome'
      BY <2>2, <2>3, <2>5
    <3>3. QED
      BY <3>1, <3>2 DEF Becomes
  <2>6. QED
    BY <1>2, <1>10, <2>1, <2>4, <2>5 DEF Becomes
<1>11. ServiceConfigFollows'
  <2> SUFFICES ASSUME Healthy', causes' = {}
               PROVE  \E config \in Usable \cup {Gone} : Becomes(config)' /\ Follows(config)'
    BY DEF ServiceConfigFollows
  <2>1. causes = {} /\ i = 1
    BY <1>1, <1>2
  <2>2. PICK config \in Usable \cup {Gone} : Becomes(config) /\ Follows(config)
    BY <1>6, <2>1 DEF ServiceConfigFollows
  <2>3. QED
    BY <1>6, <1>10, <2>1, <2>2
<1>12. QED
  BY <1>6, <1>8, <1>9, <1>11

\* Whatever the handler does next, it is a call in one of its steps.
LEMMA HandlerFacts ==
  ASSUME TypeOK, HandlerFits
  PROVE  /\ Idle \in Handlers /\ Idle.step = "idle"
         /\ handler.event \in Data \cup {Gone}
         /\ handler.step # "idle" => handler.event \in Usable \cup {Gone}
  BY ConfigSyncAssumption DEF TypeOK, HandlerFits, Handlers, Idle, Data

\* The handler returns.
LEMMA ReturnStep ==
  ASSUME IInv, NEW step \in {"get", "create", "update", "delete"}, InHandler(step),
         NEW why \in SUBSET {"RequestFailed", "NotFound", "AlreadyExists", "RetriesUsedUp"},
         Return(why),
         sc' \in Usable \cup {Gone}, informer' \in [exists : BOOLEAN, current : BOOLEAN],
         troubles' \in Nat,
         why = {} => sc' = handler.event
  PROVE  IInv'
<1>1. /\ UNCHANGED <<pathCacheVars, data, entry, out>>
      /\ handler.step = step
      /\ handler' = Idle /\ causes' = causes \cup why
  BY DEF InHandler, Return, Causes
<1>2. handler' \in Handlers /\ HandlerFits'
  BY <1>1, HandlerFacts DEF IInv, HandlerFits, Idle
<1>3. why = {} => Outcome' = Outcome
  BY <1>1 DEF Outcome, Idle
<1>4. causes' = {} => why = {}
  BY <1>1
<1>5. QED
  BY <1>1, <1>2, <1>3, <1>4, HandlerStepSuffices

\* The handler goes on with the same event.
LEMMA GoOnStep ==
  ASSUME IInv, NEW step \in {"get", "create", "update", "delete"}, InHandler(step),
         UNCHANGED <<kubeVars, history>>,
         handler' \in Handlers, HandlerFits', handler'.step # "idle",
         handler'.event = handler.event
  PROVE  IInv'
<1>1. /\ UNCHANGED <<pathCacheVars, data, entry, out>>
      /\ handler.step = step
  BY DEF InHandler
<1>2. Outcome' = Outcome
  BY <1>1 DEF Outcome
<1>3. /\ sc' \in Usable \cup {Gone} /\ informer' \in [exists : BOOLEAN, current : BOOLEAN]
      /\ troubles' \in Nat /\ causes' = causes
  BY DEF IInv, TypeOK, kubeVars, history
<1>4. QED
  BY <1>1, <1>2, <1>3, HandlerStepSuffices

\* The informer is asked.
LEMMA GetStep ==
  ASSUME IInv, GetServiceConfig
  PROVE  IInv'
<1>1. /\ InHandler("get") /\ handler.step = "get" /\ UNCHANGED <<kubeVars, troubles>>
      /\ TypeOK /\ HandlerFits /\ handler \in Handlers
  BY DEF GetServiceConfig, InHandler, IInv, TypeOK
<1>2. CASE handler.event = Gone /\ Return(IF sc = Gone THEN {} ELSE {"NotFound"})
  <2>1. /\ sc' \in Usable \cup {Gone} /\ informer' \in [exists : BOOLEAN, current : BOOLEAN]
        /\ troubles' \in Nat /\ sc' = sc
    BY <1>1 DEF TypeOK, kubeVars
  <2>2. CASE sc = Gone
    BY <1>1, <1>2, <2>1, <2>2, ReturnStep
  <2>3. CASE sc # Gone
    BY <1>1, <1>2, <2>1, <2>3, ReturnStep
  <2>4. QED
    BY <2>2, <2>3
<1>3. ASSUME NEW next \in {"create", "update", "delete"},
             next = IF handler.event = Gone THEN "delete"
                    ELSE IF informer.exists THEN "update" ELSE "create",
             handler' = [handler EXCEPT !.step = next, !.current = informer.current],
             causes' = causes
      PROVE  IInv'
  <2>1. informer.current \in BOOLEAN
    BY <1>1 DEF TypeOK
  <2>2. /\ handler' \in Handlers /\ handler'.step = next
        /\ handler'.event = handler.event
    BY <1>1, <1>3, <2>1 DEF Handlers
  <2>3. handler.event # Unusable
    BY <1>1 DEF HandlerFits
  <2>4. HandlerFits'
    BY <1>3, <2>2, <2>3 DEF HandlerFits
  <2>5. QED
    BY <1>1, <1>3, <2>2, <2>4, GoOnStep DEF history
<1>4. QED
  BY <1>2, <1>3 DEF GetServiceConfig

\* The API server is asked to create, change or delete the object.
LEMMA WriteStep ==
  ASSUME IInv, CreateServiceConfig \/ UpdateServiceConfig \/ DeleteServiceConfig
  PROVE  IInv'
<1>1. /\ TypeOK /\ HandlerFits /\ handler \in Handlers /\ troubles \in Nat
      /\ sc \in Usable \cup {Gone} /\ informer \in [exists : BOOLEAN, current : BOOLEAN]
  BY DEF IInv, TypeOK
<1>2. PICK step \in {"create", "update", "delete"} :
        InHandler(step) /\ handler.step = step /\ troubles' = troubles
  BY DEF CreateServiceConfig, UpdateServiceConfig, DeleteServiceConfig, InHandler
<1>3. handler.event \in Usable \cup {Gone}
  BY <1>1, <1>2, HandlerFacts
<1>4. CASE Write(handler.event) /\ Return({})
  <2>1. sc' = handler.event /\ informer' \in [exists : BOOLEAN, current : BOOLEAN]
    BY <1>1, <1>4 DEF Write
  <2>2. QED
    BY <1>1, <1>2, <1>3, <1>4, <2>1, ReturnStep
<1>5. CASE /\ Return({"AlreadyExists"}) \/ Return({"NotFound"}) \/ Return({"RetriesUsedUp"})
           /\ UNCHANGED kubeVars
  <2>1. sc' = sc /\ informer' = informer
    BY <1>5 DEF kubeVars
  <2>2. QED
    BY <1>1, <1>2, <1>5, <2>1, ReturnStep
<1>6. CASE /\ step = "update" /\ handler.tries # RetrySteps
           /\ handler' = [Handling(handler.event) EXCEPT !.tries = handler.tries + 1]
           /\ UNCHANGED causes /\ UNCHANGED kubeVars
  <2>1. handler' = [step |-> "get", event |-> handler.event, current |-> FALSE,
                    tries |-> handler.tries + 1]
    BY <1>6 DEF Handling
  <2>2. handler.tries + 1 \in 0..RetrySteps
    BY <1>1, <1>6, ConfigSyncAssumption DEF Handlers
  <2>3. handler' \in Handlers
    BY <1>3, <2>1, <2>2 DEF Handlers, Data
  <2>4. HandlerFits'
    BY <1>1, <1>2, <2>1 DEF HandlerFits
  <2>5. QED
    BY <1>2, <1>6, <2>1, <2>3, <2>4, GoOnStep DEF history
<1>7. \/ Write(handler.event) /\ Return({})
      \/ /\ Return({"AlreadyExists"}) \/ Return({"NotFound"}) \/ Return({"RetriesUsedUp"})
         /\ UNCHANGED kubeVars
      \/ /\ step = "update" /\ handler.tries # RetrySteps
         /\ handler' = [Handling(handler.event) EXCEPT !.tries = handler.tries + 1]
         /\ UNCHANGED causes /\ UNCHANGED kubeVars
  <2>1. CASE CreateServiceConfig
    BY <2>1 DEF CreateServiceConfig
  <2>2. CASE UpdateServiceConfig
    BY <1>2, <2>2 DEF UpdateServiceConfig, InHandler
  <2>3. CASE DeleteServiceConfig
    <3>1. handler.event = Gone
      BY <1>1, <2>3 DEF DeleteServiceConfig, InHandler, HandlerFits
    <3>2. QED
      BY <2>3, <3>1 DEF DeleteServiceConfig
  <2>4. QED
    BY <2>1, <2>2, <2>3
<1>8. QED
  BY <1>4, <1>5, <1>6, <1>7

\* A request fails, and the handler gives up.
LEMMA RequestFailsStep ==
  ASSUME IInv, RequestFails
  PROVE  IInv'
<1>1. /\ sc' \in Usable \cup {Gone} /\ informer' \in [exists : BOOLEAN, current : BOOLEAN]
      /\ troubles' \in Nat /\ Return({"RequestFailed"})
      /\ \E step \in {"get", "create", "update", "delete"} : InHandler(step)
  BY DEF RequestFails, Trouble, IInv, TypeOK, kubeVars
<1>2. QED
  BY <1>1, ReturnStep

\* The informer is told of the last write.
LEMMA SyncStep ==
  ASSUME IInv, SyncInformer
  PROVE  IInv'
<1>1. /\ UNCHANGED <<pathCacheVars, data, entry, out>>
      /\ handler' = handler /\ sc' = sc /\ UNCHANGED history
      /\ informer' = [exists |-> sc # Gone, current |-> TRUE]
  BY DEF SyncInformer
<1>2. informer' \in [exists : BOOLEAN, current : BOOLEAN]
  BY <1>1
<1>3. /\ handler' \in Handlers /\ HandlerFits' /\ Outcome' = Outcome
      /\ sc' \in Usable \cup {Gone} /\ troubles' \in Nat /\ causes' = causes
  BY <1>1 DEF IInv, TypeOK, HandlerFits, Outcome, history
<1>4. QED
  BY <1>1, <1>2, <1>3, HandlerStepSuffices

\* Another controller writes the object.
LEMMA TouchStep ==
  ASSUME IInv, Touch
  PROVE  IInv'
<1>1. /\ UNCHANGED <<pathCacheVars, data, entry, out>> /\ UNCHANGED history
      /\ sc' = sc /\ informer' = [informer EXCEPT !.current = FALSE]
      /\ handler' = [handler EXCEPT !.current = FALSE]
  BY DEF Touch, Write
<1>2. handler \in Handlers /\ informer \in [exists : BOOLEAN, current : BOOLEAN]
  BY DEF IInv, TypeOK
<1>3. /\ handler' \in Handlers
      /\ handler'.step = handler.step /\ handler'.event = handler.event
  BY <1>1, <1>2 DEF Handlers
<1>4. handler = Idle => handler' = Idle
  <2> SUFFICES ASSUME handler = Idle PROVE handler' = Idle
    OBVIOUS
  <2>1. /\ handler'.step = "idle" /\ handler'.event = Gone
        /\ handler'.current = FALSE /\ handler'.tries = 0
    BY <1>1, <1>2 DEF Handlers, Idle
  <2>2. handler' = [step |-> handler'.step, event |-> handler'.event,
                    current |-> handler'.current, tries |-> handler'.tries]
    BY <1>3 DEF Handlers
  <2>3. QED
    BY <2>1, <2>2 DEF Idle
<1>5. HandlerFits'
  <2>1. HandlerFits
    BY DEF IInv
  <2>2. QED
    BY <1>3, <1>4, <2>1 DEF HandlerFits
<1>6. /\ informer' \in [exists : BOOLEAN, current : BOOLEAN] /\ Outcome' = Outcome
      /\ sc' \in Usable \cup {Gone} /\ troubles' \in Nat /\ causes' = causes
  BY <1>1, <1>2, <1>3 DEF IInv, TypeOK, Outcome, history
<1>7. QED
  BY <1>1, <1>3, <1>5, <1>6, HandlerStepSuffices

\* A new process knows of nothing, and is told of the node if there is one.
LEMMA RestartStep ==
  ASSUME IInv, Restart
  PROVE  IInv'
<1> USE DEF IInv
<1>1. /\ loop' = "new" /\ childWatch' = 0 /\ clearing' = {}
      /\ cached' = [p \in P!Paths |-> FALSE]
      /\ nodeWatch' = [c \in {Service} |-> 0]
      /\ forwarding' = [e \in P!ZkEvents |-> 0]
      /\ adding' = [c \in {Service} |-> 0]
      /\ notifying' = [n \in P!PathCacheEvents |-> 0]
      /\ births' = [c \in {Service} |-> IF Exists THEN 1 ELSE 0]
      /\ UNCHANGED <<pathExists, exists, changes, writes, faults, isSvcPath, stopping, data, sc>>
  BY DEF Restart
<1>2. /\ ~cached'[Service] /\ forwarding'[P!ChildrenChanged] = 0
      /\ forwarding'[P!NodeDeleted(Service)] = 0 /\ notifying'[P!Deleted(Service)] = 0
      /\ births'[Service] = IF Exists THEN 1 ELSE 0
  BY <1>1, PathFacts, EventFacts, NotificationFacts
<1>3. P!TypeOK'
  BY <1>1 DEF P!TypeOK, CacheInv
<1>4. CacheInv'
  BY <1>1, <1>2, <1>3 DEF CacheInv, P!ListensForChildren, P!Undisturbed, NotStarted,
     NodeIsThere, NoFalseDeletion, Followed, Exists
<1>5. /\ entry' = Gone /\ out' = <<>> /\ handler' = Idle
      /\ causes' = IF Exists \/ sc = Gone THEN {} ELSE {"DeletionUnseen"}
  BY DEF Restart
<1>6. TypeOK'
  <2>1. informer' \in [exists : BOOLEAN, current : BOOLEAN]
    BY DEF Restart
  <2>2. troubles' \in Nat
    BY DEF Restart, Trouble, TypeOK
  <2>3. handler' \in Handlers
    BY <1>5, HandlerFacts
  <2>4. QED
    BY <1>1, <1>3, <1>5, <2>1, <2>2, <2>3 DEF TypeOK
<1>7. Lives' /\ HandlerFits'
  BY <1>1, <1>2, <1>5 DEF Lives, HandlerFits, Exists, Idle
<1>8. EntryFollows'
  BY <1>2, <1>5 DEF EntryFollows, Follows, HasRead
<1>9. ServiceConfigFollows'
  <2> SUFFICES ASSUME causes' = {}
               PROVE  \E config \in Usable \cup {Gone} : Becomes(config)' /\ Follows(config)'
    BY DEF ServiceConfigFollows
  <2>1. sc \in Usable \cup {Gone} /\ (Exists \/ sc = Gone)
    BY <1>5 DEF TypeOK
  <2>2. Becomes(sc)'
    BY <1>1, <1>5 DEF Becomes, Outcome, Idle
  <2>3. Follows(sc)'
    BY <1>1, <1>2, <2>1 DEF Follows, HasRead, HasHeard, Exists
  <2>4. QED
    BY <1>1, <2>1, <2>2, <2>3
<1>10. QED
  BY <1>4, <1>6, <1>7, <1>8, <1>9

\* Nothing happens at all.
LEMMA StutterStep ==
  ASSUME IInv, UNCHANGED vars
  PROVE  IInv'
<1>1. /\ UNCHANGED <<pathCacheVars, data, entry, out>>
      /\ handler' = handler /\ UNCHANGED kubeVars /\ UNCHANGED history
  BY DEF vars
<1>2. /\ handler' \in Handlers /\ HandlerFits' /\ Outcome' = Outcome
      /\ sc' \in Usable \cup {Gone} /\ informer' \in [exists : BOOLEAN, current : BOOLEAN]
      /\ troubles' \in Nat /\ causes' = causes
  BY <1>1 DEF IInv, TypeOK, HandlerFits, Outcome, kubeVars, history
<1>3. QED
  BY <1>1, <1>2, HandlerStepSuffices

\* Every step keeps the inductive invariant.
LEMMA NextIInv == IInv /\ [Next]_vars => IInv'
<1> SUFFICES ASSUME IInv, [Next]_vars PROVE IInv'
  OBVIOUS
<1>1. CASE Configure
  BY <1>1, ConfigureStep
<1>2. CASE Start
  BY <1>2, StartStep
<1>3. CASE PathCacheStep
  BY <1>3, PathCacheStepStep
<1>4. CASE Crash
  BY <1>4, CrashStep
<1>5. CASE EventLoop
  BY <1>5, OnWrittenStep, OnDeletedStep DEF EventLoop
<1>6. CASE AdapterStep
  BY <1>6, ReceiveStep, GetStep, WriteStep DEF AdapterStep
<1>7. CASE RequestFails
  BY <1>7, RequestFailsStep
<1>8. CASE SyncInformer
  BY <1>8, SyncStep
<1>9. CASE Touch
  BY <1>9, TouchStep
<1>10. CASE Restart
  BY <1>10, RestartStep
<1>11. CASE UNCHANGED vars
  BY <1>11, StutterStep
<1>12. QED
  BY <1>1, <1>2, <1>3, <1>4, <1>5, <1>6, <1>7, <1>8, <1>9, <1>10, <1>11 DEF Next

-----------------------------------------------------------------------------
(* The theorems *)

\* The inductive invariant holds of every behaviour.
THEOREM AlwaysIInv == Spec => []IInv
  BY InitIInv, NextIInv, PTL DEF Spec

\* The variables have their types, whatever the order of watches, events and writes.
THEOREM TypeCorrect == Spec => []TypeOK
<1>1. IInv => TypeOK
  BY DEF IInv
<1>2. QED
  BY <1>1, AlwaysIInv, PTL

\* At rest the cache has read, or heard of, all there is.
LEMMA QuietFacts ==
  ASSUME IInv, P!Undisturbed, P!Quiet, NoCauseForEntry
  PROVE  /\ Healthy
         /\ Exists => HasRead
         /\ ~Exists => HasHeard
<1> USE PathFacts, EventFacts, NotificationFacts
<1>1. ~ToBeRead /\ ~ToBeTold /\ forwarding[P!ChildrenChanged] = 0 /\ adding[Service] = 0
  BY DEF P!Quiet, ToBeRead, ToBeTold
<1>2. Exists => cached[Service]
  <2>1. births[Service] \in Nat
    BY Counts DEF IInv, CacheInv
  <2>2. Exists => births[Service] = 1
    BY <2>1 DEF IInv, Lives, NoCauseForEntry
  <2>3. QED
    BY <1>1, <2>2 DEF IInv, CacheInv, Followed
<1>3. QED
  BY <1>1, <1>2 DEF Healthy, P!Undisturbed, HasRead, HasHeard

\* What follows the node at rest says what the node says.
LEMMA FollowsSays ==
  ASSUME IInv, P!Undisturbed, P!Quiet, NoCauseForEntry, NEW config, Follows(config)
  PROVE  Says(config)
  BY QuietFacts DEF Follows, Says

\* ConfigClient.configEntries is what the node holds once all events are handled, in
\* whatever order they came.
THEOREM EntryAlwaysCurrent == Spec => []EntryIsCurrent
<1>1. IInv => EntryIsCurrent
  <2> SUFFICES ASSUME IInv, P!Undisturbed, P!Quiet, NoCauseForEntry
               PROVE  Says(entry)
    BY DEF EntryIsCurrent, NoCauseForEntry
  <2>1. Follows(entry)
    BY QuietFacts DEF IInv, EntryFollows
  <2>2. QED
    BY <2>1, FollowsSays
<1>2. QED
  BY <1>1, AlwaysIInv, PTL

\* At rest the ServiceConfig is what the node holds, and there is none without a node,
\* unless one of the causes says why.
THEOREM InSyncAtRest == Spec => []SettledInSync
<1>1. IInv => SettledInSync
  <2> SUFFICES ASSUME IInv, P!Undisturbed, Settled, causes = {}
               PROVE  Says(sc)
    BY DEF SettledInSync
  <2>1. P!Quiet /\ NoCauseForEntry
    BY DEF Settled, NoCauseForEntry
  <2>2. PICK config \in Usable \cup {Gone} : Becomes(config) /\ Follows(config)
    BY <2>1, QuietFacts DEF IInv, ServiceConfigFollows
  <2>3. config = sc
    BY <2>2 DEF Becomes, Outcome, Settled, Idle
  <2>4. QED
    BY <2>1, <2>2, <2>3, FollowsSays
<1>2. QED
  BY <1>1, AlwaysIInv, PTL
=============================================================================
