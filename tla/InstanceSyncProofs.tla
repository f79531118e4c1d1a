-------------------------- MODULE InstanceSyncProofs --------------------------
(***************************************************************************)
(* The safety properties of InstanceSync, and that it implements           *)
(* InstanceMirror, for any set of instances and any bounds.                *)
(***************************************************************************)
EXTENDS InstanceSync, TLAPS

\* The places between ZooKeeper and the API server a list of instances passes.
InFlight(S) ==
  \/ notifying[P!ChildrenReplaced(S)] > 0
  \/ serviceOut[InstancesReplace(S)] > 0
  \/ queue[S] > 0
  \/ worker # Idle /\ worker.instances = S

\* A cache that was not started yet watches nothing, and nothing is on its way.
NotStarted ==
  loop = "new" =>
    /\ childWatch = 0
    /\ forwarding[P!ChildrenChanged] = 0
    /\ \A S \in SUBSET Instances : ~InFlight(S)
    /\ worker = Idle
    /\ ~inServices
    /\ serviceOut[ServiceDeleted] = 0
    /\ informer = cr

\* While the cache is undisturbed neither of the two nodes went away, and nobody
\* was told so.
NodesAreThere ==
  P!Undisturbed =>
    /\ pathExists
    /\ serviceNode = "present"
    /\ serviceOut[ServiceDeleted] = 0

\* Whatever is on its way was true since the adapter started.
OnlyThePast ==
  /\ exists \in past
  /\ \A S \in SUBSET Instances : InFlight(S) => S \in past

\* If changes wait for each other, nothing but the list of now is on its way.
OnlyTheCurrent ==
  ~overlapped => \A S \in SUBSET Instances : InFlight(S) => S = exists

\* How often the list of now, or the event that makes the cache read it, waits.
Waiting ==
  forwarding[P!ChildrenChanged] + notifying[P!ChildrenReplaced(exists)]
    + serviceOut[InstancesReplace(exists)] + queue[exists]

\* What ReplaceInstances has read is what the API server holds.
ReadIsCurrent ==
  /\ informer = cr
  /\ worker.step = "create" => cr.version = 0
  /\ worker.step = "update" => cr.version # 0 /\ worker.version = cr.version

\* If changes wait for each other, the list of now is in exactly one place: it
\* waits, or it is worked on, or it was delivered.
InOnePlace ==
  Following /\ ~overlapped =>
    \/ Waiting = 1 /\ worker = Idle /\ informer = cr
    \/ Waiting = 0 /\ worker # Idle /\ ReadIsCurrent
    \/ Waiting = 0 /\ worker = Idle /\ (failures = 0 => InSync)

\* The inductive invariant.
IInv ==
  /\ TypeOK
  /\ ~isSvcPath
  /\ P!ListensForChildren
  /\ NotStarted
  /\ NodesAreThere
  /\ OnlyThePast
  /\ OnlyTheCurrent
  /\ NothingDropped
  /\ InOnePlace

-----------------------------------------------------------------------------
(* Messages *)

\* The event of the children watch is one of the zk events and is no other one.
LEMMA EventFacts ==
  /\ P!ChildrenChanged \in P!ZkEvents
  /\ \A p \in P!Paths :
       /\ P!NodeDeleted(p) \in P!ZkEvents /\ P!NodeDeleted(p) # P!ChildrenChanged
       /\ P!NodeDataChanged(p) \in P!ZkEvents /\ P!NodeDataChanged(p) # P!ChildrenChanged
       /\ P!NotWatching(p) \in P!ZkEvents /\ P!NotWatching(p) # P!ChildrenChanged
       /\ P!NotWatching(p).path = p
  /\ Instances \subseteq P!Paths
  /\ Providers \in P!Paths
  BY DEF P!ChildrenChanged, P!NodeDeleted, P!NodeDataChanged, P!NotWatching, P!ZkEvents,
         P!Paths

\* So are PathCacheEvents, and an announcement of a list is known by the list.
LEMMA NotificationFacts ==
  /\ \A p \in P!Paths :
       {P!Added(p), P!Deleted(p), P!Changed(p)} \subseteq P!PathCacheEvents
  /\ \A S \in SUBSET Instances :
       /\ P!ChildrenReplaced(S) \in P!PathCacheEvents
       /\ P!ChildrenReplaced(S).paths = S
       /\ P!ChildrenReplaced(S).type = "ChildrenReplaced"
  /\ \A p \in P!Paths, S \in SUBSET Instances :
       P!ChildrenReplaced(S) \notin {P!Added(p), P!Deleted(p), P!Changed(p)}
  /\ \A S, R \in SUBSET Instances : P!ChildrenReplaced(S) = P!ChildrenReplaced(R) => S = R
  /\ \A n \in P!PathCacheEvents :
       n.type = "ChildrenReplaced" =>
         n.paths \in SUBSET Instances /\ n = P!ChildrenReplaced(n.paths)
  BY DEF P!Added, P!Deleted, P!Changed, P!ChildrenReplaced, P!PathCacheEvents, P!Paths

\* And ServiceEvents.
LEMMA ServiceEventFacts ==
  /\ {ServiceAdded, ServiceDeleted, InstanceDeleted} \subseteq ServiceEvents
  /\ ServiceAdded # ServiceDeleted
  /\ ServiceDeleted # InstanceDeleted
  /\ \A S \in SUBSET Instances :
       /\ InstancesReplace(S) \in ServiceEvents
       /\ InstancesReplace(S) \notin {ServiceAdded, ServiceDeleted, InstanceDeleted}
  /\ \A S, R \in SUBSET Instances : InstancesReplace(S) = InstancesReplace(R) => S = R
  BY DEF ServiceAdded, ServiceDeleted, InstanceDeleted, InstancesReplace, ServiceEvents

\* One goroutine more, or one less, waits to send x.
LEMMA BagFacts ==
  ASSUME NEW X, NEW bag \in [X -> Nat], NEW x \in X
  PROVE  /\ Plus(bag, x) \in [X -> Nat] /\ P!Plus(bag, x) = Plus(bag, x)
         /\ Plus(bag, x)[x] = bag[x] + 1
         /\ \A y \in X : y # x => Plus(bag, x)[y] = bag[y]
         /\ bag[x] > 0 => Minus(bag, x) \in [X -> Nat]
         /\ P!Minus(bag, x) = Minus(bag, x)
         /\ Minus(bag, x)[x] = bag[x] - 1
         /\ \A y \in X : y # x => Minus(bag, x)[y] = bag[y]
  BY DEF Plus, Minus, P!Plus, P!Minus

\* A map of flags.
LEMMA SetAsFlags ==
  ASSUME NEW S
  PROVE  [p \in P!Paths |-> p \in S] \in [P!Paths -> BOOLEAN]
<1>1. \A p \in P!Paths : (p \in S) \in BOOLEAN
  OBVIOUS
<1>2. QED
  BY <1>1, Zenon

-----------------------------------------------------------------------------
(* What the steps of the path cache do, in the children mode, as far as the *)
(* rest of the way is concerned.                                            *)

\* A step of ZooKeeper keeps the types of the path cache.
LEMMA ZooKeeperType ==
  ASSUME P!TypeOK, P!ZooKeeper
  PROVE  P!TypeOK'
<1> USE EventFacts DEF P!TypeOK
<1>0. UNCHANGED <<loop, isSvcPath, cached, adding, notifying, stopping, clearing>>
  BY DEF P!ZooKeeper
<1>1. CASE \E c \in Instances : P!CreateChild(c)
  <2>1. PICK c \in Instances : P!CreateChild(c)
    BY <1>1
  <2>2. forwarding' \in [P!ZkEvents -> Nat]
    BY <2>1 DEF P!CreateChild, P!FireChildren
  <2>3. births' \in [Instances -> Nat] /\ writes' \in Nat /\ childWatch' \in Nat
        /\ exists' \in SUBSET Instances
    BY <2>1 DEF P!CreateChild, P!Written
  <2>4. QED
    BY <1>0, <2>1, <2>2, <2>3 DEF P!CreateChild
<1>2. CASE \E c \in Instances : P!DeleteChild(c)
  <2>1. PICK c \in Instances : P!DeleteChild(c)
    BY <1>2
  <2>2. P!FireChildren \in [P!ZkEvents -> Nat]
    BY DEF P!FireChildren
  <2>3. forwarding' \in [P!ZkEvents -> Nat]
    BY <2>1, <2>2 DEF P!DeleteChild
  <2>4. nodeWatch' \in [Instances -> Nat] /\ writes' \in Nat /\ childWatch' \in Nat
        /\ exists' \in SUBSET Instances
    BY <2>1 DEF P!DeleteChild, P!Written
  <2>5. QED
    BY <1>0, <2>1, <2>3, <2>4 DEF P!DeleteChild
<1>3. CASE \E c \in Instances : P!ChangeData(c)
  <2>1. PICK c \in Instances : P!ChangeData(c)
    BY <1>3
  <2>2. forwarding' \in [P!ZkEvents -> Nat]
    BY <2>1 DEF P!ChangeData
  <2>3. QED
    BY <1>0, <2>1, <2>2 DEF P!ChangeData, P!Written
<1>4. CASE P!DeletePath
  <2>1. forwarding' \in [P!ZkEvents -> Nat]
    BY <1>4 DEF P!DeletePath
  <2>2. pathExists' \in BOOLEAN
    BY <1>4 DEF P!DeletePath
  <2>3. childWatch' \in Nat /\ faults' \in Nat
    BY <1>4 DEF P!DeletePath, P!Disturbed
  <2>4. UNCHANGED <<exists, births, changes, writes, nodeWatch>>
    BY <1>4 DEF P!DeletePath
  <2>5. QED
    BY <1>0, <2>1, <2>2, <2>3, <2>4
<1>5. CASE P!CreatePath
  BY <1>0, <1>5 DEF P!CreatePath
<1>6. CASE P!ExpireSession
  <2>1. forwarding' \in [P!ZkEvents -> Nat]
    BY <1>6 DEF P!ExpireSession
  <2>2. QED
    BY <1>0, <1>6, <2>1 DEF P!ExpireSession, P!Disturbed
<1>7. QED
  BY <1>1, <1>2, <1>3, <1>4, <1>5, <1>6 DEF P!ZooKeeper

\* When the list changes, the children watch turns into an event; it is lost in
\* disturbances only, and only they remove the node.
LEMMA ZooKeeperEffect ==
  ASSUME P!TypeOK, P!ZooKeeper
  PROVE  /\ UNCHANGED <<loop, isSvcPath, notifying>>
         /\ \/ /\ exists' # exists
               /\ forwarding'[P!ChildrenChanged] = forwarding[P!ChildrenChanged] + childWatch
               /\ childWatch' = 0
               /\ UNCHANGED <<faults, pathExists>>
            \/ /\ exists' = exists
               /\ forwarding'[P!ChildrenChanged] = forwarding[P!ChildrenChanged]
               /\ UNCHANGED <<childWatch, faults>>
               /\ pathExists => pathExists'
               /\ loop = "new" => pathExists' = pathExists
            \/ /\ exists' = exists
               /\ forwarding'[P!ChildrenChanged] = forwarding[P!ChildrenChanged]
               /\ childWatch' = 0
               /\ faults' > 0
<1> USE EventFacts DEF P!TypeOK
<1>0. UNCHANGED <<loop, isSvcPath, cached, adding, notifying, stopping, clearing>>
  BY DEF P!ZooKeeper
<1>1. ASSUME NEW c \in Instances, P!CreateChild(c) \/ P!DeleteChild(c) \/ P!ChangeData(c)
      PROVE  /\ UNCHANGED <<faults, pathExists>>
             /\ \/ /\ exists' # exists
                   /\ forwarding'[P!ChildrenChanged]
                        = forwarding[P!ChildrenChanged] + childWatch
                   /\ childWatch' = 0
                \/ /\ exists' = exists
                   /\ forwarding'[P!ChildrenChanged] = forwarding[P!ChildrenChanged]
                   /\ childWatch' = childWatch
  <2>1. c \in P!Paths
    BY DEF P!Paths
  <2>2. CASE P!CreateChild(c)
    BY <2>2 DEF P!CreateChild, P!FireChildren
  <2>3. CASE P!DeleteChild(c)
    BY <2>1, <2>3 DEF P!DeleteChild, P!FireChildren
  <2>4. CASE P!ChangeData(c)
    BY <2>1, <2>4 DEF P!ChangeData
  <2>5. QED
    BY <1>1, <2>2, <2>3, <2>4
<1>2. CASE P!DeletePath
  <2>1. forwarding'[P!ChildrenChanged] = forwarding[P!ChildrenChanged]
    BY <1>2 DEF P!DeletePath
  <2>2. childWatch' = 0 /\ faults' > 0 /\ exists' = exists
    BY <1>2 DEF P!DeletePath, P!Disturbed
  <2>3. QED
    BY <1>0, <2>1, <2>2
<1>3. CASE P!CreatePath
  BY <1>0, <1>3 DEF P!CreatePath
<1>4. CASE P!ExpireSession
  BY <1>0, <1>4 DEF P!ExpireSession, P!Disturbed, P!Paths
<1>5. QED
  BY <1>0, <1>1, <1>2, <1>3, <1>4 DEF P!ZooKeeper

\* So does a new cache in the children mode, which announces the list it has read.
LEMMA NewPathCacheEffect ==
  ASSUME P!TypeOK, ~isSvcPath, P!NewPathCache
  PROVE  /\ P!TypeOK'
         /\ loop = "new"
         /\ UNCHANGED <<exists, isSvcPath, forwarding>>
         /\ \/ /\ loop' = "running"
               /\ pathExists'
               /\ childWatch' = childWatch + 1
               /\ notifying' = P!Plus(notifying, P!ChildrenReplaced(exists))
            \/ /\ loop' = "failed"
               /\ UNCHANGED <<childWatch, notifying>>
<1> USE EventFacts, NotificationFacts DEF P!TypeOK
<1>0. UNCHANGED <<exists, births, changes, writes, nodeWatch, isSvcPath, forwarding,
                  stopping, clearing>>
  BY DEF P!NewPathCache
<1>1. CASE loop' = "running"
  <2>1. /\ pathExists' = TRUE /\ faults' = faults /\ adding' = adding /\ loop = "new"
        /\ childWatch' = childWatch + 1
        /\ cached' = [p \in P!Paths |-> p \in exists]
        /\ notifying' = P!Plus(notifying, P!ChildrenReplaced(exists))
    BY <1>1 DEF P!NewPathCache, P!WatchPath, P!WatchChildren
  <2>2. cached' \in [P!Paths -> BOOLEAN]
    BY <2>1, SetAsFlags
  <2>3. notifying' \in [P!PathCacheEvents -> Nat]
    BY <2>1 DEF P!Plus
  <2>4. pathExists' \in BOOLEAN /\ pathExists'
    BY <2>1
  <2>5. QED
    BY <1>0, <1>1, <2>1, <2>2, <2>3, <2>4
<1>2. CASE loop' # "running"
  <2>1. /\ faults' \in Nat
        /\ loop = "new" /\ loop' = "failed"
        /\ UNCHANGED <<pathExists, childWatch, cached, adding, notifying>>
    BY <1>2 DEF P!NewPathCache, P!Disturbed
  <2>2. QED
    BY <1>0, <2>1
<1>3. QED
  BY <1>1, <1>2

\* The loop reads the list and announces it, or is disturbed, or does nothing that
\* matters for the list, or stops; the node and its children are not touched.
LEMMA LoopEffect ==
  ASSUME P!TypeOK, ~isSvcPath, P!Handler \/ P!OnStop
  PROVE  /\ P!TypeOK'
         /\ UNCHANGED <<pathExists, exists, isSvcPath>>
         /\ loop = "running"
         /\ faults' >= faults
         /\ \/ /\ forwarding[P!ChildrenChanged] > 0
               /\ forwarding'[P!ChildrenChanged] = forwarding[P!ChildrenChanged] - 1
               /\ childWatch' = childWatch + 1
               /\ notifying' = P!Plus(notifying, P!ChildrenReplaced(exists))
               /\ loop' = loop
            \/ /\ forwarding[P!ChildrenChanged] > 0
               /\ forwarding'[P!ChildrenChanged] = forwarding[P!ChildrenChanged] - 1
               /\ UNCHANGED <<childWatch, notifying, loop>>
               /\ pathExists => faults' > 0
            \/ /\ forwarding'[P!ChildrenChanged] = forwarding[P!ChildrenChanged]
               /\ UNCHANGED <<childWatch, loop>>
               /\ \A S \in SUBSET Instances :
                    notifying'[P!ChildrenReplaced(S)] = notifying[P!ChildrenReplaced(S)]
            \/ /\ forwarding'[P!ChildrenChanged] = forwarding[P!ChildrenChanged]
               /\ childWatch' = childWatch
               /\ loop' = "stopped"
               /\ \A S \in SUBSET Instances : notifying'[P!ChildrenReplaced(S)] = 0
<1> USE EventFacts, NotificationFacts DEF P!TypeOK
<1>1. CASE P!OnChildrenChanged
  <2>1. /\ UNCHANGED <<pathExists, exists, births, changes, writes, nodeWatch, loop,
                       isSvcPath, stopping, clearing>>
        /\ loop = "running"
        /\ forwarding[P!ChildrenChanged] > 0
        /\ forwarding' = P!Minus(forwarding, P!ChildrenChanged)
        /\ adding' = adding
    BY <1>1 DEF P!OnChildrenChanged, P!ReceiveEvent, P!WatchPath, P!WatchChildren
  <2>2. /\ forwarding' \in [P!ZkEvents -> Nat]
        /\ forwarding'[P!ChildrenChanged] = forwarding[P!ChildrenChanged] - 1
    BY <2>1 DEF P!Minus
  <2>3. CASE P!WatchPath /\ UNCHANGED faults
    <3>1. /\ childWatch' = childWatch + 1
          /\ cached' = [p \in P!Paths |-> p \in exists]
          /\ notifying' = P!Plus(notifying, P!ChildrenReplaced(exists))
      BY <2>3 DEF P!WatchPath, P!WatchChildren
    <3>2. cached' \in [P!Paths -> BOOLEAN]
      BY <3>1, SetAsFlags
    <3>3. notifying' \in [P!PathCacheEvents -> Nat]
      BY <3>1 DEF P!Plus
    <3>4. QED
      BY <2>1, <2>2, <2>3, <3>1, <3>2, <3>3
  <2>4. CASE ~(P!WatchPath /\ UNCHANGED faults)
    <3>1. /\ UNCHANGED <<childWatch, cached, adding, notifying>>
          /\ faults' \in Nat /\ faults' >= faults
          /\ pathExists => faults' > 0
      BY <1>1, <2>4 DEF P!OnChildrenChanged, P!Disturbed
    <3>2. QED
      BY <2>1, <2>2, <3>1
  <2>5. QED
    BY <2>3, <2>4
<1>2. ASSUME NEW c \in Instances, P!OnChildAdd(c)
      PROVE  /\ P!TypeOK'
             /\ UNCHANGED <<pathExists, exists, isSvcPath, loop, forwarding, childWatch>>
             /\ loop = "running" /\ faults' >= faults
             /\ \A S \in SUBSET Instances :
                  notifying'[P!ChildrenReplaced(S)] = notifying[P!ChildrenReplaced(S)]
  <2>1. /\ UNCHANGED <<pathExists, exists, births, changes, writes, childWatch, loop,
                       isSvcPath, forwarding, stopping, clearing>>
        /\ loop = "running"
        /\ adding[c] > 0
        /\ adding' = P!Minus(adding, c)
    BY <1>2 DEF P!OnChildAdd
  <2>2. adding' \in [Instances -> Nat]
    BY <2>1 DEF P!Minus
  <2>3. nodeWatch' \in [Instances -> Nat] /\ faults' \in Nat /\ faults' >= faults
    BY <1>2 DEF P!OnChildAdd, P!Plus, P!Disturbed
  <2>4. cached' = [cached EXCEPT ![c] = TRUE] \/ cached' = cached
    BY <1>2 DEF P!OnChildAdd
  <2>5. cached' \in [P!Paths -> BOOLEAN]
    <3>1. cached \in [P!Paths -> BOOLEAN] /\ c \in P!Paths /\ TRUE \in BOOLEAN
      OBVIOUS
    <3>2. [cached EXCEPT ![c] = TRUE] \in [P!Paths -> BOOLEAN]
      BY ONLY <3>1, Zenon
    <3>3. QED
      BY ONLY <2>4, <3>1, <3>2, Zenon
  <2>6. notifying' = P!Plus(notifying, P!Added(c)) \/ notifying' = notifying
    BY <1>2 DEF P!OnChildAdd
  <2>7. /\ notifying' \in [P!PathCacheEvents -> Nat]
        /\ \A S \in SUBSET Instances :
             notifying'[P!ChildrenReplaced(S)] = notifying[P!ChildrenReplaced(S)]
    BY <2>6 DEF P!Plus
  <2>8. QED
    BY <2>1, <2>2, <2>3, <2>5, <2>7
<1>3. ASSUME NEW c \in Instances, P!OnNodeChanged(c)
      PROVE  /\ P!TypeOK'
             /\ UNCHANGED <<pathExists, exists, isSvcPath, loop, childWatch>>
             /\ loop = "running" /\ faults' >= faults
             /\ forwarding'[P!ChildrenChanged] = forwarding[P!ChildrenChanged]
             /\ \A S \in SUBSET Instances :
                  notifying'[P!ChildrenReplaced(S)] = notifying[P!ChildrenReplaced(S)]
  <2>1. /\ UNCHANGED <<pathExists, exists, births, changes, writes, childWatch, loop,
                       isSvcPath, cached, adding, stopping, clearing>>
        /\ loop = "running"
        /\ forwarding[P!NodeDataChanged(c)] > 0
        /\ forwarding' = P!Minus(forwarding, P!NodeDataChanged(c))
        /\ notifying' = P!Plus(notifying, P!Changed(c))
    BY <1>3 DEF P!OnNodeChanged, P!ReceiveEvent
  <2>2. nodeWatch' \in [Instances -> Nat] /\ faults' \in Nat /\ faults' >= faults
    BY <1>3 DEF P!OnNodeChanged, P!Plus, P!Disturbed
  <2>3. /\ forwarding' \in [P!ZkEvents -> Nat]
        /\ forwarding'[P!ChildrenChanged] = forwarding[P!ChildrenChanged]
    BY <2>1 DEF P!Minus
  <2>4. /\ notifying' \in [P!PathCacheEvents -> Nat]
        /\ \A S \in SUBSET Instances :
             notifying'[P!ChildrenReplaced(S)] = notifying[P!ChildrenReplaced(S)]
    BY <2>1 DEF P!Plus
  <2>5. QED
    BY <2>1, <2>2, <2>3, <2>4
<1>4. ASSUME NEW p \in P!Paths, P!OnChildDeleted(p) \/ P!OnNotWatching(p)
      PROVE  /\ P!TypeOK'
             /\ UNCHANGED <<pathExists, exists, isSvcPath, loop, childWatch>>
             /\ loop = "running" /\ faults' >= faults
             /\ forwarding'[P!ChildrenChanged] = forwarding[P!ChildrenChanged]
             /\ \A S \in SUBSET Instances :
                  notifying'[P!ChildrenReplaced(S)] = notifying[P!ChildrenReplaced(S)]
  <2>1. /\ UNCHANGED P!zkVars
        /\ UNCHANGED <<loop, isSvcPath, adding, stopping, clearing>>
        /\ loop = "running"
    BY <1>4 DEF P!OnChildDeleted, P!OnNotWatching, P!ReceiveEvent
  <2>2. \E e \in {P!NodeDeleted(p), P!NotWatching(p)} :
           forwarding[e] > 0 /\ forwarding' = P!Minus(forwarding, e)
    BY <1>4 DEF P!OnChildDeleted, P!OnNotWatching, P!ReceiveEvent
  <2>3. /\ forwarding' \in [P!ZkEvents -> Nat]
        /\ forwarding'[P!ChildrenChanged] = forwarding[P!ChildrenChanged]
    BY <2>2 DEF P!Minus
  <2>4. cached' = [cached EXCEPT ![p] = FALSE] \/ cached' = cached
    BY <1>4 DEF P!OnChildDeleted, P!OnNotWatching
  <2>5. cached' \in [P!Paths -> BOOLEAN]
    <3>1. cached \in [P!Paths -> BOOLEAN] /\ p \in P!Paths /\ FALSE \in BOOLEAN
      OBVIOUS
    <3>2. [cached EXCEPT ![p] = FALSE] \in [P!Paths -> BOOLEAN]
      BY ONLY <3>1, Zenon
    <3>3. QED
      BY ONLY <2>4, <3>1, <3>2, Zenon
  <2>6. notifying' = P!Plus(notifying, P!Deleted(p)) \/ notifying' = notifying
    BY <1>4 DEF P!OnChildDeleted, P!OnNotWatching
  <2>7. /\ notifying' \in [P!PathCacheEvents -> Nat]
        /\ \A S \in SUBSET Instances :
             notifying'[P!ChildrenReplaced(S)] = notifying[P!ChildrenReplaced(S)]
    BY <2>6 DEF P!Plus
  <2>8. QED
    BY <2>1, <2>3, <2>5, <2>7 DEF P!zkVars
<1>5. CASE P!OnStop
  <2>1. notifying' \in [P!PathCacheEvents -> Nat]
    BY <1>5 DEF P!OnStop
  <2>2. QED
    BY <1>5, <2>1 DEF P!OnStop, P!zkVars
<1>6. QED
  BY <1>1, <1>2, <1>3, <1>4, <1>5 DEF P!Handler

-----------------------------------------------------------------------------
(* Every action preserves the inductive invariant. *)

\* At the start of the adapter nothing is under way.
LEMMA InitIInv == Init => IInv
<1> SUFFICES ASSUME Init PROVE IInv
  OBVIOUS
<1> USE EventFacts, NotificationFacts, ServiceEventFacts
<1>1. P!TypeOK
  BY DEF Init, P!Init, P!TypeOK
<1>2. TypeOK
  <2>1. serviceOut \in [ServiceEvents -> Nat] /\ queue \in [SUBSET Instances -> Nat]
    BY DEF Init
  <2>2. worker \in Workers
    BY InstanceSyncAssumption DEF Init, Idle, Workers
  <2>3. cr \in Objects /\ informer \in Objects
    BY DEF Init, NoObject, Objects
  <2>4. past \in SUBSET SUBSET Instances /\ attempted \in SUBSET SUBSET Instances
    BY <1>1 DEF Init, P!TypeOK
  <2>5. QED
    BY <1>1, <2>1, <2>2, <2>3, <2>4 DEF Init, TypeOK
<1>3. ~isSvcPath /\ loop = "new" /\ childWatch = 0 /\ forwarding[P!ChildrenChanged] = 0
  BY DEF Init, P!Init
<1>4. \A S \in SUBSET Instances : ~InFlight(S)
  BY DEF Init, P!Init, InFlight
<1>5. P!ListensForChildren
  BY <1>3 DEF P!ListensForChildren, P!Undisturbed
<1>6. NotStarted
  BY <1>3, <1>4 DEF Init, NotStarted
<1>7. NodesAreThere /\ NothingDropped /\ InOnePlace
  BY <1>3 DEF NodesAreThere, NothingDropped, InOnePlace, Following, P!Undisturbed
<1>8. OnlyThePast /\ OnlyTheCurrent
  BY <1>4 DEF Init, OnlyThePast, OnlyTheCurrent
<1>9. QED
  BY <1>2, <1>3, <1>5, <1>6, <1>7, <1>8 DEF IInv

\* At rest nothing waits anywhere.
LEMMA SettledFacts ==
  ASSUME TypeOK, Settled
  PROVE  /\ forwarding[P!ChildrenChanged] = 0
         /\ worker = Idle
         /\ informer = cr
         /\ \A S \in SUBSET Instances :
              /\ ~InFlight(S)
              /\ notifying[P!ChildrenReplaced(S)] = 0
              /\ serviceOut[InstancesReplace(S)] = 0
              /\ queue[S] = 0
<1> USE EventFacts, NotificationFacts, ServiceEventFacts
<1>1. forwarding[P!ChildrenChanged] = 0
  BY DEF Settled, P!Quiet
<1>2. \A S \in SUBSET Instances : notifying[P!ChildrenReplaced(S)] = 0
  BY DEF Settled, P!Quiet
<1>3. \A S \in SUBSET Instances : serviceOut[InstancesReplace(S)] = 0
  BY DEF Settled, IsEmpty, TypeOK
<1>4. \A S \in SUBSET Instances : queue[S] = 0
  BY DEF Settled, IsEmpty, TypeOK
<1>5. QED
  BY <1>1, <1>2, <1>3, <1>4 DEF Settled, InFlight

\* The counts of what waits are numbers.
LEMMA Counts ==
  ASSUME TypeOK
  PROVE  /\ forwarding[P!ChildrenChanged] \in Nat
         /\ childWatch \in Nat /\ faults \in Nat /\ failures \in Nat
         /\ exists \in SUBSET Instances
         /\ \A S \in SUBSET Instances :
              /\ notifying[P!ChildrenReplaced(S)] \in Nat
              /\ serviceOut[InstancesReplace(S)] \in Nat
              /\ queue[S] \in Nat
  BY EventFacts, NotificationFacts, ServiceEventFacts DEF TypeOK, P!TypeOK

\* A change in ZooKeeper: the watch fires, and if something was still under way
\* the changes overlap.
LEMMA RegisterStep ==
  ASSUME IInv, Register
  PROVE  IInv'
<1> USE DEF IInv
<1>1. /\ UNCHANGED <<loop, isSvcPath, notifying, registryVars, adapterVars, kubeVars,
                     failures, restarts>>
      /\ past' = past \cup {exists'}
      /\ serviceNode # "present" => ~pathExists'
      /\ attempted' = IF exists' = exists THEN attempted ELSE {}
      /\ overlapped' = (overlapped \/ (exists' # exists /\ ~Settled))
  BY ZooKeeperEffect DEF Register, TypeOK
<1>2. P!TypeOK'
  BY ZooKeeperType DEF Register, TypeOK
<1>3. \/ /\ exists' # exists
         /\ forwarding'[P!ChildrenChanged] = forwarding[P!ChildrenChanged] + childWatch
         /\ childWatch' = 0
         /\ UNCHANGED <<faults, pathExists>>
      \/ /\ exists' = exists
         /\ forwarding'[P!ChildrenChanged] = forwarding[P!ChildrenChanged]
         /\ UNCHANGED <<childWatch, faults>>
         /\ pathExists => pathExists'
      \/ /\ exists' = exists
         /\ forwarding'[P!ChildrenChanged] = forwarding[P!ChildrenChanged]
         /\ childWatch' = 0
         /\ faults' > 0
  BY ZooKeeperEffect DEF Register, TypeOK
<1>4. TypeOK'
  <2>1. overlapped' \in BOOLEAN
    BY <1>1 DEF TypeOK
  <2>2. past' \in SUBSET SUBSET Instances /\ attempted' \in SUBSET SUBSET Instances
    BY <1>1, <1>2 DEF TypeOK, P!TypeOK
  <2>3. QED
    BY <1>1, <1>2, <2>1, <2>2 DEF TypeOK, registryVars, adapterVars, kubeVars
<1>5. \A S : InFlight(S)' <=> InFlight(S)
  BY <1>1 DEF InFlight, registryVars, adapterVars
<1>6. P!ListensForChildren'
  BY <1>1, <1>3, Counts DEF P!ListensForChildren, P!Undisturbed
<1>7. NotStarted'
  BY <1>1, <1>3, <1>5, Counts DEF NotStarted, registryVars, adapterVars, kubeVars
<1>8. NodesAreThere'
  BY <1>1, <1>3, Counts DEF NodesAreThere, P!Undisturbed, registryVars
<1>9. OnlyThePast'
  BY <1>1, <1>5 DEF OnlyThePast
<1>10. OnlyTheCurrent'
  BY <1>1, <1>5, SettledFacts DEF OnlyTheCurrent
<1>11. NothingDropped'
  <2>1. CASE Following' /\ exists' # exists
    BY <1>1, <1>3, <2>1, Counts DEF NothingDropped, Following, P!Undisturbed,
       P!ListensForChildren
  <2>2. CASE Following' /\ exists' = exists
    BY <1>1, <1>3, <2>2, Counts DEF NothingDropped, Following, P!Undisturbed,
       registryVars, adapterVars
  <2>3. QED
    BY <2>1, <2>2 DEF NothingDropped
<1>12. InOnePlace'
  <2> SUFFICES ASSUME Following', ~overlapped'
               PROVE  \/ Waiting' = 1 /\ worker' = Idle /\ informer' = cr'
                      \/ Waiting' = 0 /\ worker' # Idle /\ ReadIsCurrent'
                      \/ Waiting' = 0 /\ worker' = Idle /\ (failures' = 0 => InSync')
    BY DEF InOnePlace
  <2>1. Following /\ ~overlapped /\ faults = 0
    <3>1. ~overlapped
      BY <1>1
    <3>2. faults = 0
      BY <1>3, Counts DEF Following, P!Undisturbed
    <3>3. QED
      BY <1>1, <3>1, <3>2 DEF Following, P!Undisturbed, adapterVars
  <2>2. CASE exists' # exists
    <3>1. Settled
      BY <1>1, <2>2
    <3>2. forwarding'[P!ChildrenChanged] = 1
      BY <1>3, <2>1, <2>2, <3>1, SettledFacts, Counts
         DEF P!ListensForChildren, Following
    <3>3. exists' \in SUBSET Instances
      BY <1>2 DEF P!TypeOK
    <3>4. Waiting' = 1
      BY <1>1, <3>1, <3>2, <3>3, SettledFacts
         DEF Waiting, registryVars, adapterVars
    <3>5. QED
      BY <1>1, <3>1, <3>4, SettledFacts DEF adapterVars, kubeVars
  <2>3. CASE exists' = exists
    <3>1. forwarding'[P!ChildrenChanged] = forwarding[P!ChildrenChanged]
      BY <1>3, <2>3
    <3>2. QED
      BY <1>1, <2>1, <2>3, <3>1 DEF InOnePlace, Waiting, ReadIsCurrent, InSync,
         registryVars, adapterVars, kubeVars
  <2>4. QED
    BY <2>2, <2>3
<1>13. QED
  BY <1>1, <1>4, <1>6, <1>7, <1>8, <1>9, <1>10, <1>11, <1>12

\* The service node goes only after the providers node, and that is a disturbance.
LEMMA DeleteServiceNodeStep ==
  ASSUME IInv, DeleteServiceNode
  PROVE  IInv'
<1> USE DEF IInv
<1>1. /\ UNCHANGED <<pathCacheVars, inServices, serviceOut, adapterVars, kubeVars,
                     historyVars>>
      /\ serviceNode' = "deleted"
      /\ ~pathExists
  BY DEF DeleteServiceNode
<1>2. TypeOK'
  <2>1. P!TypeOK'
    BY <1>1 DEF TypeOK, P!TypeOK, pathCacheVars
  <2>2. QED
    BY <1>1, <2>1 DEF TypeOK, adapterVars, kubeVars, historyVars
<1>3. \A S : InFlight(S)' <=> InFlight(S)
  BY <1>1 DEF InFlight, pathCacheVars, adapterVars
<1>4. P!ListensForChildren' /\ ~isSvcPath'
  BY <1>1 DEF P!ListensForChildren, P!Undisturbed, pathCacheVars
<1>5. NotStarted'
  BY <1>1, <1>3 DEF NotStarted, pathCacheVars, adapterVars, kubeVars
<1>6. NodesAreThere'
  BY <1>1 DEF NodesAreThere, P!Undisturbed, pathCacheVars
<1>7. OnlyThePast' /\ OnlyTheCurrent'
  BY <1>1, <1>3 DEF OnlyThePast, OnlyTheCurrent, pathCacheVars, historyVars
<1>8. NothingDropped'
  BY <1>1 DEF NothingDropped, Following, P!Undisturbed, pathCacheVars, adapterVars,
     historyVars
<1>9. InOnePlace'
  BY <1>1 DEF InOnePlace, Following, P!Undisturbed, Waiting, ReadIsCurrent, InSync,
     pathCacheVars, adapterVars, kubeVars, historyVars
<1>10. QED
  BY <1>2, <1>4, <1>5, <1>6, <1>7, <1>8, <1>9

\* A new cache announces the list of now, of which nothing is on its way yet.
LEMMA WatchProvidersStep ==
  ASSUME IInv, WatchProviders
  PROVE  IInv'
<1> USE NotificationFacts DEF IInv
<1> DEFINE Now == P!ChildrenReplaced(exists)
<1>1. /\ UNCHANGED <<registryVars, adapterVars, kubeVars, historyVars>>
      /\ adapter = "running" /\ serviceNode = "present"
  BY DEF WatchProviders
<1>2. /\ P!TypeOK'
      /\ loop = "new" /\ loop' # "new"
      /\ UNCHANGED <<exists, isSvcPath, forwarding>>
      /\ \/ /\ loop' = "running"
            /\ pathExists'
            /\ childWatch' = childWatch + 1
            /\ notifying' = P!Plus(notifying, Now)
         \/ /\ loop' = "failed"
            /\ UNCHANGED <<childWatch, notifying>>
  BY NewPathCacheEffect DEF WatchProviders, TypeOK
<1>3. /\ childWatch = 0 /\ forwarding[P!ChildrenChanged] = 0
      /\ serviceOut[ServiceDeleted] = 0
      /\ worker = Idle /\ informer = cr
      /\ \A S \in SUBSET Instances : ~InFlight(S)
  BY <1>2 DEF NotStarted
<1>4. TypeOK'
  BY <1>1, <1>2 DEF TypeOK, registryVars, adapterVars, kubeVars, historyVars
<1>5. exists \in SUBSET Instances /\ Now \in P!PathCacheEvents
  BY Counts
<1>6. \A S \in SUBSET Instances :
        notifying[P!ChildrenReplaced(S)] = 0 /\ serviceOut[InstancesReplace(S)] = 0
        /\ queue[S] = 0
  BY <1>3, Counts DEF InFlight
<1>7. CASE loop' = "running"
  <2>0. /\ notifying' = P!Plus(notifying, Now)
        /\ notifying \in [P!PathCacheEvents -> Nat]
    BY <1>2, <1>7 DEF TypeOK, P!TypeOK
  <2>1. notifying'[Now] = 1
    BY <1>5, <1>6, <2>0, BagFacts
  <2>2. \A S \in SUBSET Instances : S # exists => notifying'[P!ChildrenReplaced(S)] = 0
    BY <1>5, <1>6, <2>0, BagFacts
  <2>3. \A S \in SUBSET Instances : InFlight(S)' => S = exists
    BY <1>1, <1>3, <1>6, <2>2 DEF InFlight, registryVars, adapterVars
  <2>4. P!ListensForChildren'
    BY <1>2, <1>3, <1>7 DEF P!ListensForChildren, P!Undisturbed
  <2>5. NodesAreThere' /\ NotStarted'
    BY <1>1, <1>2, <1>3, <1>7 DEF NodesAreThere, NotStarted, registryVars
  <2>6. OnlyThePast' /\ OnlyTheCurrent'
    BY <1>1, <1>2, <2>3 DEF OnlyThePast, OnlyTheCurrent, historyVars
  <2>7. NothingDropped'
    BY <1>2, <2>1 DEF NothingDropped
  <2>8. InOnePlace'
    <3>1. Waiting' = 1
      BY <1>1, <1>2, <1>3, <1>5, <1>6, <2>1 DEF Waiting, registryVars, adapterVars
    <3>2. QED
      BY <1>1, <1>3, <3>1 DEF InOnePlace, adapterVars, kubeVars
  <2>9. QED
    BY <1>2, <1>4, <2>4, <2>5, <2>6, <2>7, <2>8
<1>8. CASE loop' = "failed"
  <2>1. UNCHANGED <<childWatch, notifying>>
    BY <1>2, <1>8
  <2>2. ~P!Undisturbed' /\ loop' # "new"
    BY <1>8 DEF P!Undisturbed
  <2>3. \A S : InFlight(S)' <=> InFlight(S)
    BY <1>1, <2>1 DEF InFlight, registryVars, adapterVars
  <2>4. P!ListensForChildren'
    BY <1>2, <2>1, <2>2 DEF P!ListensForChildren
  <2>5. NotStarted' /\ NodesAreThere' /\ NothingDropped' /\ InOnePlace'
    BY <2>2 DEF NotStarted, NodesAreThere, NothingDropped, InOnePlace, Following
  <2>6. OnlyThePast' /\ OnlyTheCurrent'
    BY <1>1, <1>2, <2>3 DEF OnlyThePast, OnlyTheCurrent, historyVars
  <2>7. QED
    BY <1>2, <1>4, <2>4, <2>5, <2>6
<1>9. QED
  BY <1>2, <1>7, <1>8

\* The goroutine of the cache: the list moves from the event to the announcement.
LEMMA PathCacheStepStep ==
  ASSUME IInv, PathCacheStep
  PROVE  IInv'
<1> USE NotificationFacts DEF IInv
<1> DEFINE CC == P!ChildrenChanged
           Now == P!ChildrenReplaced(exists)
<1>1. UNCHANGED <<registryVars, adapterVars, kubeVars, historyVars>>
  BY DEF PathCacheStep
<1>2. /\ P!TypeOK'
      /\ UNCHANGED <<pathExists, exists, isSvcPath>>
      /\ loop = "running"
      /\ faults' >= faults
  BY LoopEffect DEF PathCacheStep, TypeOK
<1>3. TypeOK'
  BY <1>1, <1>2 DEF TypeOK, registryVars, adapterVars, kubeVars, historyVars
<1>4. exists \in SUBSET Instances /\ Now \in P!PathCacheEvents
  BY Counts
<1>5. P!Undisturbed' => P!Undisturbed
  BY <1>2, Counts DEF P!Undisturbed
<1>6. NodesAreThere'
  BY <1>1, <1>2, <1>5 DEF NodesAreThere, registryVars
<1>a. CASE /\ forwarding[CC] > 0
           /\ forwarding'[CC] = forwarding[CC] - 1
           /\ childWatch' = childWatch + 1
           /\ notifying' = P!Plus(notifying, Now)
           /\ loop' = loop
  <2>1. /\ notifying'[Now] = notifying[Now] + 1
        /\ \A S \in SUBSET Instances :
             S # exists =>
               notifying'[P!ChildrenReplaced(S)] = notifying[P!ChildrenReplaced(S)]
    BY <1>a, <1>4 DEF P!Plus, TypeOK, P!TypeOK
  <2>2. \A S \in SUBSET Instances : InFlight(S)' => InFlight(S) \/ S = exists
    BY <1>1, <2>1 DEF InFlight, registryVars, adapterVars
  <2>3. P!ListensForChildren'
    BY <1>a, <1>5, Counts DEF P!ListensForChildren
  <2>4. NotStarted'
    BY <1>a, <1>2 DEF NotStarted
  <2>5. OnlyThePast' /\ OnlyTheCurrent'
    BY <1>1, <1>2, <2>2 DEF OnlyThePast, OnlyTheCurrent, historyVars
  <2>6. NothingDropped'
    BY <1>2, <2>1, Counts DEF NothingDropped
  <2>7. InOnePlace'
    <3>1. Waiting' = Waiting
      BY <1>1, <1>2, <1>a, <1>4, <2>1, Counts DEF Waiting, registryVars, adapterVars
    <3>2. QED
      BY <1>1, <1>2, <1>5, <3>1 DEF InOnePlace, Following, ReadIsCurrent, InSync,
         adapterVars, kubeVars, historyVars
  <2>8. QED
    BY <1>2, <1>3, <1>6, <2>3, <2>4, <2>5, <2>6, <2>7
<1>b. CASE /\ forwarding[CC] > 0
           /\ forwarding'[CC] = forwarding[CC] - 1
           /\ UNCHANGED <<childWatch, notifying, loop>>
           /\ pathExists => faults' > 0
  <2>1. ~P!Undisturbed'
    BY <1>b, <1>5 DEF NodesAreThere, P!Undisturbed
  <2>2. \A S : InFlight(S)' <=> InFlight(S)
    BY <1>1, <1>b DEF InFlight, registryVars, adapterVars
  <2>3. P!ListensForChildren'
    BY <1>b, <2>1, Counts DEF P!ListensForChildren
  <2>4. NotStarted' /\ NothingDropped' /\ InOnePlace'
    BY <1>b, <1>2, <2>1 DEF NotStarted, NothingDropped, InOnePlace, Following
  <2>5. OnlyThePast' /\ OnlyTheCurrent'
    BY <1>1, <1>2, <2>2 DEF OnlyThePast, OnlyTheCurrent, historyVars
  <2>6. QED
    BY <1>2, <1>3, <1>6, <2>3, <2>4, <2>5
<1>c. CASE /\ forwarding'[CC] = forwarding[CC]
           /\ UNCHANGED <<childWatch, loop>>
           /\ \A S \in SUBSET Instances :
                notifying'[P!ChildrenReplaced(S)] = notifying[P!ChildrenReplaced(S)]
  <2>1. \A S \in SUBSET Instances : InFlight(S)' <=> InFlight(S)
    BY <1>1, <1>c DEF InFlight, registryVars, adapterVars
  <2>2. P!ListensForChildren'
    BY <1>c, <1>5 DEF P!ListensForChildren
  <2>3. NotStarted'
    BY <1>2, <1>c DEF NotStarted
  <2>4. OnlyThePast' /\ OnlyTheCurrent'
    BY <1>1, <1>2, <2>1 DEF OnlyThePast, OnlyTheCurrent, historyVars
  <2>5. NothingDropped'
    BY <1>1, <1>2, <1>c, <1>4, <1>5 DEF NothingDropped, Following, registryVars,
       adapterVars, historyVars
  <2>6. InOnePlace'
    <3>1. Waiting' = Waiting
      BY <1>1, <1>2, <1>c, <1>4 DEF Waiting, registryVars, adapterVars
    <3>2. QED
      BY <1>1, <1>2, <1>5, <3>1 DEF InOnePlace, Following, ReadIsCurrent, InSync,
         adapterVars, kubeVars, historyVars
  <2>7. QED
    BY <1>2, <1>3, <1>6, <2>2, <2>3, <2>4, <2>5, <2>6
<1>d. CASE /\ forwarding'[CC] = forwarding[CC]
           /\ childWatch' = childWatch
           /\ loop' = "stopped"
           /\ \A S \in SUBSET Instances : notifying'[P!ChildrenReplaced(S)] = 0
  <2>1. ~P!Undisturbed'
    BY <1>d DEF P!Undisturbed
  <2>2. \A S \in SUBSET Instances : InFlight(S)' => InFlight(S)
    BY <1>1, <1>d DEF InFlight, registryVars, adapterVars
  <2>3. P!ListensForChildren'
    BY <1>d, <2>1 DEF P!ListensForChildren
  <2>4. NotStarted' /\ NothingDropped' /\ InOnePlace'
    BY <1>d, <2>1 DEF NotStarted, NothingDropped, InOnePlace, Following
  <2>5. OnlyThePast' /\ OnlyTheCurrent'
    BY <1>1, <1>2, <2>2 DEF OnlyThePast, OnlyTheCurrent, historyVars
  <2>6. QED
    BY <1>2, <1>3, <1>6, <2>3, <2>4, <2>5
<1>7. QED
  BY <1>a, <1>b, <1>c, <1>d, LoopEffect DEF PathCacheStep, TypeOK

\* Receiving an announcement hands its list on to the adapter; receiving the
\* deletion of the providers node touches no list.
LEMMA ReceiveNotificationStep ==
  ASSUME IInv, ReceiveNotification
  PROVE  IInv'
<1> USE EventFacts, NotificationFacts, ServiceEventFacts DEF IInv
<1>1. PICK n \in P!PathCacheEvents :
        /\ P!OwnerReceive(n)
        /\ \/ n.type = "ChildrenReplaced" /\ ReplaceServiceInstances(n.paths)
           \/ n.type = "Deleted" /\ DeleteServiceInstance
  BY DEF ReceiveNotification
<1>2. /\ UNCHANGED <<serviceNode, adapterVars, kubeVars, historyVars>>
      /\ UNCHANGED P!zkVars
      /\ UNCHANGED <<loop, isSvcPath, cached, forwarding, adding, stopping>>
      /\ loop = "running"
      /\ notifying[n] > 0
      /\ notifying' = P!Minus(notifying, n)
      /\ clearing' = {}
  BY <1>1 DEF ReceiveNotification, P!OwnerReceive
<1>3. /\ notifying \in [P!PathCacheEvents -> Nat]
      /\ serviceOut \in [ServiceEvents -> Nat]
      /\ exists \in SUBSET Instances
  BY DEF TypeOK, P!TypeOK
<1>4. /\ notifying' \in [P!PathCacheEvents -> Nat]
      /\ notifying'[n] = notifying[n] - 1
      /\ \A m \in P!PathCacheEvents : m # n => notifying'[m] = notifying[m]
  BY <1>2, <1>3, BagFacts
<1>5. P!TypeOK'
  BY <1>2, <1>4 DEF TypeOK, P!TypeOK, P!zkVars
<1>6. inServices' \in BOOLEAN
  BY <1>1 DEF ReplaceServiceInstances, DeleteServiceInstance, TypeOK
<1>7. P!Undisturbed' <=> P!Undisturbed
  BY <1>2 DEF P!Undisturbed, P!zkVars
<1>8. P!ListensForChildren' /\ NotStarted'
  BY <1>2, <1>7 DEF P!ListensForChildren, NotStarted, P!zkVars
<1>9. TypeOK' <=> serviceOut' \in [ServiceEvents -> Nat]
  BY <1>2, <1>5, <1>6 DEF TypeOK, adapterVars, kubeVars, historyVars
<1>a. CASE n.type = "ChildrenReplaced"
  <2> DEFINE S == n.paths
             IR == InstancesReplace(S)
             CR == P!ChildrenReplaced(S)
  <2>1. S \in SUBSET Instances /\ n = CR
    BY <1>a
  <2>2. \/ serviceOut' = Plus(serviceOut, IR)
        \/ serviceOut' = Plus(Plus(serviceOut, ServiceAdded), IR)
    BY <1>1, <1>a DEF ReplaceServiceInstances
  <2> HIDE DEF S
  <2>3. /\ serviceOut' \in [ServiceEvents -> Nat]
        /\ serviceOut'[IR] = serviceOut[IR] + 1
        /\ \A e \in ServiceEvents : e \notin {IR, ServiceAdded} => serviceOut'[e] = serviceOut[e]
    <3>1. IR \in ServiceEvents /\ ServiceAdded \in ServiceEvents /\ IR # ServiceAdded
      BY <2>1
    <3>2. CASE serviceOut' = Plus(serviceOut, IR)
      BY <1>3, <3>1, <3>2, BagFacts
    <3>3. CASE serviceOut' = Plus(Plus(serviceOut, ServiceAdded), IR)
      <4>1. /\ Plus(serviceOut, ServiceAdded) \in [ServiceEvents -> Nat]
            /\ Plus(serviceOut, ServiceAdded)[IR] = serviceOut[IR]
            /\ \A e \in ServiceEvents : e # ServiceAdded =>
                 Plus(serviceOut, ServiceAdded)[e] = serviceOut[e]
        BY <1>3, <3>1, BagFacts
      <4>2. QED
        BY <3>1, <3>3, <4>1, BagFacts
    <3>4. QED
      BY <2>2, <3>2, <3>3
  <2>4. /\ notifying[CR] > 0 /\ notifying'[CR] = notifying[CR] - 1
        /\ \A R \in SUBSET Instances : R # S =>
             /\ notifying'[P!ChildrenReplaced(R)] = notifying[P!ChildrenReplaced(R)]
             /\ serviceOut'[InstancesReplace(R)] = serviceOut[InstancesReplace(R)]
    <3>1. notifying[CR] > 0 /\ notifying'[CR] = notifying[CR] - 1
      BY <1>2, <1>4, <2>1
    <3>2. \A R \in SUBSET Instances : R # S =>
            notifying'[P!ChildrenReplaced(R)] = notifying[P!ChildrenReplaced(R)]
      BY <1>4, <2>1
    <3>3. \A R \in SUBSET Instances : R # S =>
            serviceOut'[InstancesReplace(R)] = serviceOut[InstancesReplace(R)]
      BY <2>1, <2>3
    <3>4. QED
      BY <3>1, <3>2, <3>3
  <2>5. \A R \in SUBSET Instances : InFlight(R)' => InFlight(R)
    <3>1. InFlight(S)
      BY <2>4 DEF InFlight
    <3>2. QED
      BY <1>2, <2>4, <3>1 DEF InFlight, adapterVars
  <2>6. NodesAreThere'
    <3>1. serviceOut'[ServiceDeleted] = serviceOut[ServiceDeleted]
      BY <2>1, <2>3
    <3>2. QED
      BY <1>2, <1>7, <3>1 DEF NodesAreThere, P!zkVars
  <2>7. OnlyThePast' /\ OnlyTheCurrent'
    BY <1>2, <2>5 DEF OnlyThePast, OnlyTheCurrent, historyVars, P!zkVars
  <2>8. NothingDropped'
    <3>1. CASE S = exists
      BY <1>2, <1>3, <2>1, <2>3, <3>1, Counts DEF NothingDropped, P!zkVars
    <3>2. CASE S # exists
      BY <1>2, <1>3, <1>7, <2>4, <3>2 DEF NothingDropped, Following, adapterVars,
         historyVars, P!zkVars
    <3>3. QED
      BY <3>1, <3>2
  <2>9. InOnePlace'
    <3>1. Waiting' = Waiting
      <4>1. CASE S = exists
        BY <1>2, <2>3, <2>4, <4>1, Counts DEF Waiting, adapterVars, P!zkVars
      <4>2. CASE S # exists
        BY <1>2, <1>3, <2>4, <4>2 DEF Waiting, adapterVars, P!zkVars
      <4>3. QED
        BY <4>1, <4>2
    <3>2. QED
      BY <1>2, <1>7, <3>1 DEF InOnePlace, Following, ReadIsCurrent, InSync,
         adapterVars, kubeVars, historyVars, P!zkVars
  <2>10. QED
    BY <1>2, <1>8, <1>9, <2>3, <2>6, <2>7, <2>8, <2>9
<1>b. CASE n.type = "Deleted"
  <2>1. \A R \in SUBSET Instances :
          notifying'[P!ChildrenReplaced(R)] = notifying[P!ChildrenReplaced(R)]
    <3>1. \A R \in SUBSET Instances : P!ChildrenReplaced(R) # n
      BY <1>b
    <3>2. QED
      BY <1>4, <3>1
  <2>2. serviceOut' = serviceOut \/ serviceOut' = Plus(serviceOut, InstanceDeleted)
    BY <1>1, <1>b DEF DeleteServiceInstance
  <2>3. /\ serviceOut' \in [ServiceEvents -> Nat]
        /\ \A e \in ServiceEvents : e # InstanceDeleted => serviceOut'[e] = serviceOut[e]
    BY <1>3, <2>2, BagFacts
  <2>4. \A R \in SUBSET Instances :
          serviceOut'[InstancesReplace(R)] = serviceOut[InstancesReplace(R)]
    BY <2>3
  <2>5. \A R \in SUBSET Instances : InFlight(R)' <=> InFlight(R)
    BY <1>2, <2>1, <2>4 DEF InFlight, adapterVars
  <2>6. NodesAreThere'
    <3>1. serviceOut'[ServiceDeleted] = serviceOut[ServiceDeleted]
      BY <2>3
    <3>2. QED
      BY <1>2, <1>7, <3>1 DEF NodesAreThere, P!zkVars
  <2>7. OnlyThePast' /\ OnlyTheCurrent'
    BY <1>2, <2>5 DEF OnlyThePast, OnlyTheCurrent, historyVars, P!zkVars
  <2>8. NothingDropped'
    BY <1>2, <1>3, <1>7, <2>1, <2>4 DEF NothingDropped, Following, adapterVars,
       historyVars, P!zkVars
  <2>9. InOnePlace'
    <3>1. Waiting' = Waiting
      BY <1>2, <1>3, <2>1, <2>4 DEF Waiting, adapterVars, P!zkVars
    <3>2. QED
      BY <1>2, <1>7, <3>1 DEF InOnePlace, Following, ReadIsCurrent, InSync,
         adapterVars, kubeVars, historyVars, P!zkVars
  <2>10. QED
    BY <1>2, <1>8, <1>9, <2>3, <2>6, <2>7, <2>8, <2>9
<1>10. QED
  BY <1>1, <1>a, <1>b

\* The service is deleted only after its node went away.
LEMMA DeleteServiceStep ==
  ASSUME IInv, DeleteService
  PROVE  IInv'
<1> USE EventFacts, NotificationFacts, ServiceEventFacts DEF IInv
<1>1. /\ UNCHANGED <<adapterVars, kubeVars, historyVars>>
      /\ serviceNode = "deleted" /\ serviceNode' = "handled" /\ inServices' = FALSE
      /\ \/ serviceOut' = serviceOut
         \/ serviceOut' = Plus(serviceOut, ServiceDeleted) /\ inServices
  BY DEF DeleteService
<1>2. /\ UNCHANGED P!zkVars
      /\ UNCHANGED <<loop, isSvcPath, cached, forwarding, adding, notifying, clearing>>
      /\ stopping' = stopping \/ stopping' = stopping + 1
  BY DEF DeleteService, P!Stop, pathCacheVars, P!zkVars
<1>3. P!TypeOK'
  BY <1>2 DEF TypeOK, P!TypeOK, P!zkVars
<1>4. serviceOut \in [ServiceEvents -> Nat]
  BY DEF TypeOK
<1>5. /\ serviceOut' \in [ServiceEvents -> Nat]
      /\ \A e \in ServiceEvents : e # ServiceDeleted => serviceOut'[e] = serviceOut[e]
  BY <1>1, <1>4, BagFacts
<1>6. \A R \in SUBSET Instances :
        serviceOut'[InstancesReplace(R)] = serviceOut[InstancesReplace(R)]
  BY <1>5
<1>7. TypeOK'
  BY <1>1, <1>3, <1>5 DEF TypeOK, adapterVars, kubeVars, historyVars
<1>8. \A R \in SUBSET Instances : InFlight(R)' <=> InFlight(R)
  BY <1>1, <1>2, <1>6 DEF InFlight, adapterVars
<1>9. ~P!Undisturbed /\ ~P!Undisturbed'
  BY <1>1, <1>2 DEF NodesAreThere, P!Undisturbed, P!zkVars
<1>10. P!ListensForChildren' /\ NotStarted'
  <2>1. P!ListensForChildren'
    BY <1>2, <1>9 DEF P!ListensForChildren, P!zkVars
  <2>2. loop' = "new" => serviceOut' = serviceOut
    BY <1>1, <1>2 DEF NotStarted
  <2>3. NotStarted'
    BY <1>1, <1>2, <1>8, <2>2 DEF NotStarted, P!zkVars, adapterVars, kubeVars
  <2>4. QED
    BY <2>1, <2>3
<1>11. NodesAreThere' /\ NothingDropped' /\ InOnePlace'
  BY <1>9 DEF NodesAreThere, NothingDropped, InOnePlace, Following
<1>12. OnlyThePast' /\ OnlyTheCurrent'
  BY <1>1, <1>2, <1>8 DEF OnlyThePast, OnlyTheCurrent, historyVars, P!zkVars
<1>13. QED
  BY <1>2, <1>7, <1>10, <1>11, <1>12

\* What the loop of the adapter leaves alone, and what it receives.
LEMMA ReceiveFacts ==
  ASSUME TypeOK, NEW e \in ServiceEvents, Receive(e)
  PROVE  /\ UNCHANGED <<pathCacheVars, serviceNode, inServices, accelerated, restarts,
                        past, attempted, overlapped>>
         /\ P!TypeOK'
         /\ P!Undisturbed' <=> P!Undisturbed
         /\ adapter = "running"
         /\ accelerated \/ worker = Idle
         /\ serviceOut[e] > 0
         /\ serviceOut' \in [ServiceEvents -> Nat]
         /\ serviceOut'[e] = serviceOut[e] - 1
         /\ \A d \in ServiceEvents : d # e => serviceOut'[d] = serviceOut[d]
<1>1. /\ UNCHANGED <<pathCacheVars, serviceNode, inServices, accelerated, restarts,
                     past, attempted, overlapped>>
      /\ adapter = "running"
      /\ accelerated \/ worker = Idle
      /\ serviceOut[e] > 0
      /\ serviceOut' = Minus(serviceOut, e)
  BY DEF Receive
<1>2. P!TypeOK' /\ (P!Undisturbed' <=> P!Undisturbed)
  BY <1>1 DEF TypeOK, P!TypeOK, P!Undisturbed, pathCacheVars
<1>3. QED
  BY <1>1, <1>2, BagFacts DEF TypeOK

\* If nothing but the event received and what the API server holds changed, the
\* lists on their way are those of before.
LEMMA OnServiceAddedStep ==
  ASSUME IInv, OnServiceAdded
  PROVE  IInv'
<1> USE EventFacts, NotificationFacts, ServiceEventFacts DEF IInv
<1>1. UNCHANGED <<adapter, queue, worker, kubeVars, failures>> /\ Receive(ServiceAdded)
  BY DEF OnServiceAdded
<1>2. /\ UNCHANGED <<pathCacheVars, serviceNode, inServices, accelerated, restarts,
                     past, attempted, overlapped>>
      /\ P!TypeOK'
      /\ P!Undisturbed' <=> P!Undisturbed
      /\ serviceOut' \in [ServiceEvents -> Nat]
      /\ \A d \in ServiceEvents : d # ServiceAdded => serviceOut'[d] = serviceOut[d]
  BY <1>1, ReceiveFacts
<1>3. \A S \in SUBSET Instances :
        serviceOut'[InstancesReplace(S)] = serviceOut[InstancesReplace(S)]
  BY <1>2
<1>4. serviceOut'[ServiceDeleted] = serviceOut[ServiceDeleted]
  BY <1>2
<1>5. \A S \in SUBSET Instances : InFlight(S)' <=> InFlight(S)
  BY <1>1, <1>2, <1>3 DEF InFlight, pathCacheVars
<1>6. TypeOK'
  BY <1>1, <1>2 DEF TypeOK, kubeVars
<1>7. P!ListensForChildren' /\ NotStarted' /\ NodesAreThere'
  BY <1>1, <1>2, <1>4, <1>5 DEF P!ListensForChildren, NotStarted, NodesAreThere,
     pathCacheVars, kubeVars
<1>8. OnlyThePast' /\ OnlyTheCurrent'
  BY <1>2, <1>5 DEF OnlyThePast, OnlyTheCurrent, pathCacheVars
<1>9. exists \in SUBSET Instances
  BY Counts
<1>10. NothingDropped'
  BY <1>1, <1>2, <1>3, <1>9 DEF NothingDropped, Following, pathCacheVars
<1>11. InOnePlace'
  <2>1. Waiting' = Waiting
    BY <1>1, <1>2, <1>3, <1>9 DEF Waiting, pathCacheVars
  <2>2. QED
    BY <1>1, <1>2, <2>1 DEF InOnePlace, Following, ReadIsCurrent, InSync, pathCacheVars,
       kubeVars
<1>12. QED
  BY <1>2, <1>6, <1>7, <1>8, <1>10, <1>11 DEF pathCacheVars

\* The list received waits for the worker, or is worked on at once.
LEMMA OnInstancesReplaceStep ==
  ASSUME IInv, NEW S \in SUBSET Instances, OnInstancesReplace(S)
  PROVE  IInv'
<1> USE EventFacts, NotificationFacts, ServiceEventFacts DEF IInv
<1> DEFINE IR == InstancesReplace(S)
<1>1. /\ UNCHANGED <<adapter, kubeVars, failures>>
      /\ Receive(IR)
      /\ \/ accelerated /\ queue' = Plus(queue, S) /\ worker' = worker
         \/ ~accelerated /\ worker' = Replacing(S) /\ queue' = queue
  BY DEF OnInstancesReplace
<1>2. /\ UNCHANGED <<pathCacheVars, serviceNode, inServices, accelerated, restarts,
                     past, attempted, overlapped>>
      /\ P!TypeOK'
      /\ P!Undisturbed' <=> P!Undisturbed
      /\ accelerated \/ worker = Idle
      /\ serviceOut[IR] > 0
      /\ serviceOut' \in [ServiceEvents -> Nat]
      /\ serviceOut'[IR] = serviceOut[IR] - 1
      /\ \A d \in ServiceEvents : d # IR => serviceOut'[d] = serviceOut[d]
  BY <1>1, ReceiveFacts
<1>3. \A R \in SUBSET Instances : R # S =>
        serviceOut'[InstancesReplace(R)] = serviceOut[InstancesReplace(R)]
  BY <1>2
<1>4. serviceOut'[ServiceDeleted] = serviceOut[ServiceDeleted]
  BY <1>2
<1>5. InFlight(S)
  BY <1>2 DEF InFlight
<1>6. loop # "new" /\ loop' = loop
  BY <1>2, <1>5 DEF NotStarted, pathCacheVars
<1>7. exists \in SUBSET Instances /\ queue \in [SUBSET Instances -> Nat]
  BY Counts DEF TypeOK
<1>8. P!ListensForChildren' /\ NotStarted' /\ NodesAreThere'
  BY <1>1, <1>2, <1>4, <1>6 DEF P!ListensForChildren, NotStarted, NodesAreThere,
     pathCacheVars
<1>a. CASE accelerated /\ queue' = Plus(queue, S) /\ worker' = worker
  <2>1. /\ queue' \in [SUBSET Instances -> Nat]
        /\ queue'[S] = queue[S] + 1
        /\ \A R \in SUBSET Instances : R # S => queue'[R] = queue[R]
    BY <1>7, <1>a, BagFacts
  <2>2. TypeOK'
    BY <1>1, <1>2, <1>a, <2>1 DEF TypeOK, kubeVars
  <2>3. \A R \in SUBSET Instances : InFlight(R)' => InFlight(R)
    BY <1>2, <1>3, <1>5, <1>a, <2>1 DEF InFlight, pathCacheVars
  <2>4. OnlyThePast' /\ OnlyTheCurrent'
    BY <1>2, <2>3 DEF OnlyThePast, OnlyTheCurrent, pathCacheVars
  <2>5. NothingDropped'
    <3>1. CASE S = exists
      BY <1>2, <1>7, <2>1, <3>1, Counts DEF NothingDropped, pathCacheVars
    <3>2. CASE S # exists
      BY <1>1, <1>2, <1>3, <1>7, <1>a, <2>1, <3>2 DEF NothingDropped, Following,
         pathCacheVars
    <3>3. QED
      BY <3>1, <3>2
  <2>6. InOnePlace'
    <3>1. Waiting' = Waiting
      <4>1. CASE S = exists
        BY <1>2, <2>1, <4>1, Counts DEF Waiting, pathCacheVars
      <4>2. CASE S # exists
        BY <1>2, <1>3, <1>7, <2>1, <4>2 DEF Waiting, pathCacheVars
      <4>3. QED
        BY <4>1, <4>2
    <3>2. QED
      BY <1>1, <1>2, <1>a, <3>1 DEF InOnePlace, Following, ReadIsCurrent, InSync,
         pathCacheVars, kubeVars
  <2>7. QED
    BY <1>2, <1>8, <2>2, <2>4, <2>5, <2>6 DEF pathCacheVars
<1>b. CASE ~accelerated /\ worker' = Replacing(S) /\ queue' = queue
  <2>1. /\ worker = Idle /\ worker' # Idle /\ worker' \in Workers
        /\ worker'.instances = S /\ worker'.step = "get"
    BY <1>2, <1>b, InstanceSyncAssumption DEF Replacing, Idle, Workers
  <2>2. TypeOK'
    BY <1>1, <1>2, <1>b, <2>1 DEF TypeOK, kubeVars
  <2>3. \A R \in SUBSET Instances : InFlight(R)' => InFlight(R)
    BY <1>2, <1>3, <1>5, <1>b, <2>1 DEF InFlight, pathCacheVars
  <2>4. OnlyThePast' /\ OnlyTheCurrent'
    BY <1>2, <2>3 DEF OnlyThePast, OnlyTheCurrent, pathCacheVars
  <2>5. NothingDropped'
    <3>1. CASE S = exists
      BY <1>2, <2>1, <3>1 DEF NothingDropped, pathCacheVars
    <3>2. CASE S # exists
      BY <1>1, <1>2, <1>3, <1>7, <1>b, <2>1, <3>2 DEF NothingDropped, Following,
         pathCacheVars
    <3>3. QED
      BY <3>1, <3>2
  <2>6. InOnePlace'
    <3> SUFFICES ASSUME Following', ~overlapped'
                 PROVE  Waiting' = 0 /\ worker' # Idle /\ ReadIsCurrent'
      BY DEF InOnePlace
    <3>1. Following /\ ~overlapped
      BY <1>1, <1>2 DEF Following
    <3>2. S = exists
      BY <1>5, <3>1 DEF OnlyTheCurrent
    <3>3. Waiting > 0
      BY <1>2, <3>2, Counts DEF Waiting
    <3>4. Waiting = 1 /\ informer = cr
      BY <3>1, <3>3 DEF InOnePlace
    <3>5. Waiting' = 0
      BY <1>2, <1>b, <3>2, <3>4, Counts DEF Waiting, pathCacheVars
    <3>6. QED
      BY <1>1, <2>1, <3>4, <3>5 DEF ReadIsCurrent, kubeVars
  <2>7. QED
    BY <1>2, <1>8, <2>2, <2>4, <2>5, <2>6 DEF pathCacheVars
<1>9. QED
  BY <1>1, <1>a, <1>b

\* The event of a deletion exists only when the cache was disturbed.
LEMMA OnServiceDeletedStep ==
  ASSUME IInv, OnServiceDeleted
  PROVE  IInv'
<1> USE EventFacts, NotificationFacts, ServiceEventFacts DEF IInv
<1>1. /\ UNCHANGED <<adapter, queue, worker, informer, revision>>
      /\ Receive(ServiceDeleted)
      /\ \/ cr' = NoObject /\ failures' = failures
         \/ failures' = failures + 1 /\ cr' = cr
  BY DEF OnServiceDeleted
<1>2. /\ UNCHANGED <<pathCacheVars, serviceNode, inServices, accelerated, restarts,
                     past, attempted, overlapped>>
      /\ P!TypeOK'
      /\ P!Undisturbed' <=> P!Undisturbed
      /\ serviceOut[ServiceDeleted] > 0
      /\ serviceOut' \in [ServiceEvents -> Nat]
      /\ \A d \in ServiceEvents : d # ServiceDeleted => serviceOut'[d] = serviceOut[d]
  BY <1>1, ReceiveFacts
<1>3. ~P!Undisturbed /\ ~P!Undisturbed' /\ loop # "new" /\ loop' = loop
  BY <1>2 DEF NodesAreThere, NotStarted, pathCacheVars
<1>4. \A S \in SUBSET Instances :
        serviceOut'[InstancesReplace(S)] = serviceOut[InstancesReplace(S)]
  BY <1>2
<1>5. \A S \in SUBSET Instances : InFlight(S)' <=> InFlight(S)
  BY <1>1, <1>2, <1>4 DEF InFlight, pathCacheVars
<1>6. TypeOK'
  <2>1. cr' \in Objects /\ failures' \in Nat
    BY <1>1 DEF TypeOK, NoObject, Objects
  <2>2. QED
    BY <1>1, <1>2, <2>1 DEF TypeOK
<1>7. P!ListensForChildren' /\ NotStarted' /\ NodesAreThere'
  BY <1>2, <1>3 DEF P!ListensForChildren, NotStarted, NodesAreThere, pathCacheVars
<1>8. OnlyThePast' /\ OnlyTheCurrent'
  BY <1>2, <1>5 DEF OnlyThePast, OnlyTheCurrent, pathCacheVars
<1>9. NothingDropped' /\ InOnePlace'
  BY <1>3 DEF NothingDropped, InOnePlace, Following
<1>10. QED
  BY <1>2, <1>6, <1>7, <1>8, <1>9 DEF pathCacheVars

\* After a panic nothing is promised.
LEMMA OnInstanceDeletedStep ==
  ASSUME IInv, OnInstanceDeleted
  PROVE  IInv'
<1> USE EventFacts, NotificationFacts, ServiceEventFacts DEF IInv
<1>1. /\ UNCHANGED <<queue, worker, kubeVars, failures>>
      /\ Receive(InstanceDeleted)
      /\ adapter' = "crashed"
  BY DEF OnInstanceDeleted
<1>2. /\ UNCHANGED <<pathCacheVars, serviceNode, inServices, accelerated, restarts,
                     past, attempted, overlapped>>
      /\ P!TypeOK'
      /\ P!Undisturbed' <=> P!Undisturbed
      /\ serviceOut' \in [ServiceEvents -> Nat]
      /\ \A d \in ServiceEvents : d # InstanceDeleted => serviceOut'[d] = serviceOut[d]
  BY <1>1, ReceiveFacts
<1>3. \A S \in SUBSET Instances :
        serviceOut'[InstancesReplace(S)] = serviceOut[InstancesReplace(S)]
  BY <1>2
<1>4. serviceOut'[ServiceDeleted] = serviceOut[ServiceDeleted]
  BY <1>2
<1>5. \A S \in SUBSET Instances : InFlight(S)' <=> InFlight(S)
  BY <1>1, <1>2, <1>3 DEF InFlight, pathCacheVars
<1>6. TypeOK'
  BY <1>1, <1>2 DEF TypeOK, kubeVars
<1>7. P!ListensForChildren' /\ NotStarted' /\ NodesAreThere'
  BY <1>1, <1>2, <1>4, <1>5 DEF P!ListensForChildren, NotStarted, NodesAreThere,
     pathCacheVars, kubeVars
<1>8. OnlyThePast' /\ OnlyTheCurrent'
  BY <1>2, <1>5 DEF OnlyThePast, OnlyTheCurrent, pathCacheVars
<1>9. NothingDropped' /\ InOnePlace'
  BY <1>1 DEF NothingDropped, InOnePlace, Following
<1>10. QED
  BY <1>2, <1>6, <1>7, <1>8, <1>9 DEF pathCacheVars

\* The worker takes a list that waited for it.
LEMMA WorkerTakeStep ==
  ASSUME IInv, NEW S \in SUBSET Instances, WorkerTake(S)
  PROVE  IInv'
<1> USE EventFacts, NotificationFacts, ServiceEventFacts DEF IInv
<1>1. /\ UNCHANGED <<pathCacheVars, registryVars, adapter, accelerated, kubeVars,
                     historyVars>>
      /\ worker = Idle /\ queue[S] > 0
      /\ queue' = Minus(queue, S)
      /\ worker' = Replacing(S)
  BY DEF WorkerTake
<1>2. exists \in SUBSET Instances /\ queue \in [SUBSET Instances -> Nat]
  BY Counts DEF TypeOK
<1>3. /\ queue' \in [SUBSET Instances -> Nat]
      /\ queue'[S] = queue[S] - 1
      /\ \A R \in SUBSET Instances : R # S => queue'[R] = queue[R]
  BY <1>1, <1>2, BagFacts
<1>4. /\ worker' # Idle /\ worker' \in Workers
      /\ worker'.instances = S /\ worker'.step = "get"
  BY <1>1, InstanceSyncAssumption DEF Replacing, Idle, Workers
<1>5. InFlight(S)
  BY <1>1 DEF InFlight
<1>6. \A R \in SUBSET Instances : InFlight(R)' => InFlight(R)
  BY <1>1, <1>3, <1>4, <1>5 DEF InFlight, pathCacheVars, registryVars
<1>7. P!TypeOK' /\ (P!Undisturbed' <=> P!Undisturbed) /\ ~isSvcPath'
  BY <1>1 DEF TypeOK, P!TypeOK, P!Undisturbed, pathCacheVars
<1>8. TypeOK'
  BY <1>1, <1>3, <1>4, <1>7 DEF TypeOK, registryVars, kubeVars, historyVars
<1>9. P!ListensForChildren' /\ NotStarted' /\ NodesAreThere'
  BY <1>1, <1>5, <1>7 DEF P!ListensForChildren, NotStarted, NodesAreThere,
     pathCacheVars, registryVars
<1>10. OnlyThePast' /\ OnlyTheCurrent'
  BY <1>1, <1>6 DEF OnlyThePast, OnlyTheCurrent, pathCacheVars, historyVars
<1>11. NothingDropped'
  <2>1. CASE S = exists
    BY <1>1, <1>4, <2>1 DEF NothingDropped, pathCacheVars
  <2>2. CASE S # exists
    BY <1>1, <1>2, <1>3, <1>7, <2>2 DEF NothingDropped, Following, pathCacheVars,
       registryVars, historyVars
  <2>3. QED
    BY <2>1, <2>2
<1>12. InOnePlace'
  <2> SUFFICES ASSUME Following', ~overlapped'
               PROVE  Waiting' = 0 /\ worker' # Idle /\ ReadIsCurrent'
    BY DEF InOnePlace
  <2>1. Following /\ ~overlapped
    BY <1>1, <1>7 DEF Following, historyVars
  <2>2. S = exists
    BY <1>5, <2>1 DEF OnlyTheCurrent
  <2>3. Waiting > 0
    BY <1>1, <2>2, Counts DEF Waiting
  <2>4. Waiting = 1 /\ informer = cr
    BY <2>1, <2>3 DEF InOnePlace
  <2>5. Waiting' = 0
    BY <1>1, <1>3, <2>2, <2>4, Counts DEF Waiting, pathCacheVars, registryVars
  <2>6. QED
    BY <1>1, <1>4, <2>4, <2>5 DEF ReadIsCurrent, kubeVars
<1>13. QED
  BY <1>7, <1>8, <1>9, <1>10, <1>11, <1>12

\* What a step of ReplaceInstances leaves alone.
LEMMA WorkingFacts ==
  ASSUME IInv, NEW step \in {"get", "create", "update"}, Working(step)
  PROVE  /\ UNCHANGED <<pathCacheVars, registryVars, adapter, accelerated, queue, informer,
                        restarts, past, overlapped>>
         /\ P!TypeOK' /\ (P!Undisturbed' <=> P!Undisturbed) /\ ~isSvcPath'
         /\ P!ListensForChildren' /\ NotStarted' /\ NodesAreThere'
         /\ worker # Idle /\ worker \in Workers
         /\ worker.instances \in SUBSET Instances
         /\ Waiting' = Waiting
<1> USE DEF IInv
<1>1. UNCHANGED <<pathCacheVars, registryVars, adapter, accelerated, queue, informer,
                  restarts, past, overlapped>>
  BY DEF Working
<1>2. worker.step = step /\ worker # Idle /\ worker \in Workers
  BY DEF Working, Idle, TypeOK
<1>3. P!TypeOK' /\ (P!Undisturbed' <=> P!Undisturbed) /\ ~isSvcPath'
  BY <1>1 DEF TypeOK, P!TypeOK, P!Undisturbed, pathCacheVars
<1>4. P!ListensForChildren' /\ NodesAreThere'
  BY <1>1, <1>3 DEF P!ListensForChildren, NodesAreThere, pathCacheVars, registryVars
<1>5. NotStarted'
  BY <1>1, <1>2 DEF NotStarted, pathCacheVars
<1>6. Waiting' = Waiting
  BY <1>1 DEF Waiting, pathCacheVars, registryVars
<1>7. worker.instances \in SUBSET Instances
  BY <1>2 DEF Workers
<1>8. QED
  BY <1>1, <1>2, <1>3, <1>4, <1>5, <1>6, <1>7

\* When ReplaceInstances goes on with its list, and neither writes nor fails, only
\* what it has read is left to show.
LEMMA GoOnStep ==
  ASSUME IInv, NEW step \in {"get", "create", "update"}, Working(step),
         UNCHANGED <<cr, revision, failures, attempted>>,
         worker' \in Workers, worker' # Idle, worker'.instances = worker.instances,
         Following /\ ~overlapped => ReadIsCurrent'
  PROVE  IInv'
<1> USE DEF IInv
<1>1. /\ UNCHANGED <<pathCacheVars, registryVars, adapter, accelerated, queue, informer,
                     restarts, past, overlapped>>
      /\ P!TypeOK' /\ (P!Undisturbed' <=> P!Undisturbed) /\ ~isSvcPath'
      /\ P!ListensForChildren' /\ NotStarted' /\ NodesAreThere'
      /\ worker # Idle
      /\ Waiting' = Waiting
  BY WorkingFacts
<1>2. TypeOK'
  BY <1>1 DEF TypeOK, registryVars
<1>3. \A R : InFlight(R)' <=> InFlight(R)
  BY <1>1 DEF InFlight, pathCacheVars, registryVars
<1>4. OnlyThePast' /\ OnlyTheCurrent'
  BY <1>1, <1>3 DEF OnlyThePast, OnlyTheCurrent, pathCacheVars
<1>5. NothingDropped'
  BY <1>1 DEF NothingDropped, Following, pathCacheVars, registryVars
<1>6. InOnePlace'
  BY <1>1 DEF InOnePlace, Following
<1>7. QED
  BY <1>1, <1>2, <1>4, <1>5, <1>6

\* When it returns the list is done with, and either it was written or something
\* failed, unless changes overlapped or the cache was disturbed.
LEMMA ReturnStep ==
  ASSUME IInv, NEW step \in {"get", "create", "update"}, Working(step), Return,
         cr' \in Objects, revision' \in Nat, failures' \in Nat,
         Following /\ ~overlapped /\ failures' = 0 =>
           cr'.version # 0 /\ cr'.instances = worker.instances
  PROVE  IInv'
<1> USE DEF IInv
<1>1. /\ UNCHANGED <<pathCacheVars, registryVars, adapter, accelerated, queue, informer,
                     restarts, past, overlapped>>
      /\ P!TypeOK' /\ (P!Undisturbed' <=> P!Undisturbed) /\ ~isSvcPath'
      /\ P!ListensForChildren' /\ NotStarted' /\ NodesAreThere'
      /\ worker # Idle /\ worker.instances \in SUBSET Instances
      /\ Waiting' = Waiting
  BY WorkingFacts
<1>2. worker' = Idle /\ attempted' = attempted \cup {worker.instances}
  BY DEF Return
<1>3. TypeOK'
  <2>1. worker' \in Workers
    BY <1>2, InstanceSyncAssumption DEF Idle, Workers
  <2>2. attempted' \in SUBSET SUBSET Instances
    BY <1>1, <1>2 DEF TypeOK
  <2>3. QED
    BY <1>1, <2>1, <2>2 DEF TypeOK, registryVars
<1>4. \A R : InFlight(R)' => InFlight(R)
  BY <1>1, <1>2 DEF InFlight, pathCacheVars, registryVars
<1>5. OnlyThePast' /\ OnlyTheCurrent'
  BY <1>1, <1>4 DEF OnlyThePast, OnlyTheCurrent, pathCacheVars
<1>6. NothingDropped'
  BY <1>1, <1>2 DEF NothingDropped, Following, pathCacheVars, registryVars
<1>7. InOnePlace'
  <2> SUFFICES ASSUME Following', ~overlapped'
               PROVE  Waiting' = 0 /\ worker' = Idle /\ (failures' = 0 => InSync')
    BY DEF InOnePlace
  <2>1. Following /\ ~overlapped
    BY <1>1 DEF Following
  <2>2. Waiting = 0
    BY <1>1, <2>1 DEF InOnePlace
  <2>3. worker.instances = exists
    BY <1>1, <2>1 DEF OnlyTheCurrent, InFlight
  <2>4. QED
    BY <1>1, <1>2, <2>1, <2>2, <2>3 DEF InSync, pathCacheVars
<1>8. QED
  BY <1>1, <1>3, <1>5, <1>6, <1>7

\* Get: the informer is up to date when changes wait for each other.
LEMMA GetStep ==
  ASSUME IInv, GetConfiguredService
  PROVE  IInv'
<1> USE DEF IInv
<1>1. /\ Working("get")
      /\ UNCHANGED <<cr, revision, failures, attempted>>
      /\ \/ informer.version = 0 /\ worker' = [worker EXCEPT !.step = "create"]
         \/ /\ informer.version # 0
            /\ worker' = [worker EXCEPT !.step = "update", !.version = informer.version]
  BY DEF GetConfiguredService
<1>2. worker \in Workers /\ worker # Idle /\ informer' = informer
  BY <1>1, WorkingFacts
<1>3. informer.version \in Nat
  BY DEF TypeOK, Objects
<1>4. worker' \in Workers /\ worker' # Idle /\ worker'.instances = worker.instances
      /\ \/ informer.version = 0 /\ worker'.step = "create"
         \/ informer.version # 0 /\ worker'.step = "update"
              /\ worker'.version = informer.version
  <2>1. CASE informer.version = 0 /\ worker' = [worker EXCEPT !.step = "create"]
    BY <1>2, <2>1 DEF Workers, Idle
  <2>2. CASE /\ informer.version # 0
             /\ worker' = [worker EXCEPT !.step = "update", !.version = informer.version]
    <3>1. worker' \in Workers
      BY <1>2, <1>3, <2>2 DEF Workers
    <3>2. /\ worker'.step = "update" /\ worker'.version = informer.version
          /\ worker'.instances = worker.instances
      BY <1>2, <2>2 DEF Workers
    <3>3. QED
      BY <2>2, <3>1, <3>2 DEF Idle
  <2>3. QED
    BY <1>1, <2>1, <2>2
<1>5. Following /\ ~overlapped => ReadIsCurrent'
  BY <1>1, <1>2, <1>4 DEF InOnePlace, ReadIsCurrent
<1>6. QED
  BY <1>1, <1>4, <1>5, GoOnStep

\* What is written is the list ReplaceInstances works on.
LEMMA WriteFacts ==
  ASSUME TypeOK, worker.instances \in SUBSET Instances, Write
  PROVE  /\ cr' \in Objects /\ revision' \in Nat
         /\ cr'.version # 0 /\ cr'.instances = worker.instances
  BY DEF TypeOK, Write, Objects

\* Create: there is nothing yet when changes wait for each other.
LEMMA CreateStep ==
  ASSUME IInv, CreateConfiguredService
  PROVE  IInv'
<1> USE DEF IInv
<1>1. /\ Working("create") /\ Return /\ failures' = failures
      /\ \/ cr.version = 0 /\ Write
         \/ cr.version # 0 /\ UNCHANGED <<cr, revision>>
  BY DEF CreateConfiguredService
<1>2. worker # Idle /\ worker.instances \in SUBSET Instances
  BY <1>1, WorkingFacts
<1>3. worker.step = "create"
  BY <1>1 DEF Working
<1>4. cr' \in Objects /\ revision' \in Nat /\ failures' \in Nat
  BY <1>1, <1>2, WriteFacts DEF TypeOK
<1>5. Following /\ ~overlapped => cr.version = 0
  BY <1>2, <1>3 DEF InOnePlace, ReadIsCurrent
<1>6. Following /\ ~overlapped => cr'.version # 0 /\ cr'.instances = worker.instances
  BY <1>1, <1>2, <1>5, WriteFacts
<1>7. QED
  BY <1>1, <1>4, <1>6, ReturnStep

\* Update: the version is that of the object when changes wait for each other.
LEMMA UpdateStep ==
  ASSUME IInv, UpdateConfiguredService
  PROVE  IInv'
<1> USE DEF IInv
<1>1. Working("update") /\ failures' = failures
  BY DEF UpdateConfiguredService
<1>2. worker \in Workers /\ worker # Idle /\ worker.instances \in SUBSET Instances
      /\ informer' = informer
  BY <1>1, WorkingFacts
<1>3. worker.step = "update"
  BY <1>1 DEF Working
<1>4. Following /\ ~overlapped => cr.version # 0 /\ worker.version = cr.version
  BY <1>2, <1>3 DEF InOnePlace, ReadIsCurrent
<1>5. CASE Return /\ (Write \/ UNCHANGED <<cr, revision>>)
           /\ (cr.version # 0 /\ worker.version = cr.version => Write)
  <2>1. cr' \in Objects /\ revision' \in Nat /\ failures' \in Nat
    BY <1>1, <1>2, <1>5, WriteFacts DEF TypeOK
  <2>2. Following /\ ~overlapped => cr'.version # 0 /\ cr'.instances = worker.instances
    BY <1>2, <1>4, <1>5, WriteFacts
  <2>3. QED
    BY <1>1, <1>5, <2>1, <2>2, ReturnStep
<1>6. CASE /\ cr.version \notin {0, worker.version}
           /\ worker.tries < RetrySteps
           /\ worker' = [worker EXCEPT !.step = "get", !.version = 0, !.tries = @ + 1]
           /\ UNCHANGED <<cr, revision, attempted>>
  <2>1. worker' \in Workers /\ worker' # Idle /\ worker'.instances = worker.instances
    <3>1. worker.tries + 1 \in 0..RetrySteps
      BY <1>2, <1>6, InstanceSyncAssumption DEF Workers
    <3>2. QED
      BY <1>2, <1>6, <3>1 DEF Workers, Idle
  <2>2. ~(Following /\ ~overlapped)
    BY <1>4, <1>6
  <2>3. QED
    BY <1>1, <1>6, <2>1, <2>2, GoOnStep
<1>7. QED
  <2>1. \/ cr.version = 0 /\ Return /\ UNCHANGED <<cr, revision>>
        \/ cr.version = worker.version /\ Write /\ Return
        \/ /\ cr.version \notin {0, worker.version}
           /\ Return
           /\ UNCHANGED <<cr, revision>>
        \/ /\ cr.version \notin {0, worker.version}
           /\ worker.tries < RetrySteps
           /\ worker' = [worker EXCEPT !.step = "get", !.version = 0, !.tries = @ + 1]
           /\ UNCHANGED <<cr, revision, attempted>>
    BY DEF UpdateConfiguredService
  <2>2. QED
    BY <1>5, <1>6, <2>1

\* A request that failed is counted.
LEMMA RequestFailsStep ==
  ASSUME IInv, RequestFails
  PROVE  IInv'
<1> USE DEF IInv
<1>1. PICK step \in {"get", "create", "update"} : Working(step)
  BY DEF RequestFails
<1>2. Return /\ failures' = failures + 1 /\ UNCHANGED <<cr, revision>>
  BY DEF RequestFails
<1>3. cr' \in Objects /\ revision' \in Nat /\ failures' \in Nat /\ failures' # 0
  BY <1>2 DEF TypeOK
<1>4. QED
  BY <1>1, <1>2, <1>3, ReturnStep

\* The informer may catch up at any time.
LEMMA SyncInformerStep ==
  ASSUME IInv, SyncInformer
  PROVE  IInv'
<1> USE DEF IInv
<1>1. /\ UNCHANGED <<pathCacheVars, registryVars, adapterVars, cr, revision, historyVars>>
      /\ informer' = cr
  BY DEF SyncInformer
<1>2. P!TypeOK' /\ (P!Undisturbed' <=> P!Undisturbed) /\ ~isSvcPath'
  BY <1>1 DEF TypeOK, P!TypeOK, P!Undisturbed, pathCacheVars
<1>3. TypeOK'
  BY <1>1, <1>2 DEF TypeOK, registryVars, adapterVars, historyVars
<1>4. \A R : InFlight(R)' <=> InFlight(R)
  BY <1>1 DEF InFlight, pathCacheVars, registryVars, adapterVars
<1>5. P!ListensForChildren' /\ NotStarted' /\ NodesAreThere'
  BY <1>1, <1>2, <1>4 DEF P!ListensForChildren, NotStarted, NodesAreThere,
     pathCacheVars, registryVars, adapterVars
<1>6. OnlyThePast' /\ OnlyTheCurrent'
  BY <1>1, <1>4 DEF OnlyThePast, OnlyTheCurrent, pathCacheVars, historyVars
<1>7. NothingDropped'
  BY <1>1, <1>2 DEF NothingDropped, Following, pathCacheVars, registryVars, adapterVars,
     historyVars
<1>8. InOnePlace'
  <2>1. Waiting' = Waiting
    BY <1>1 DEF Waiting, pathCacheVars, registryVars, adapterVars
  <2>2. QED
    BY <1>1, <1>2, <2>1 DEF InOnePlace, Following, ReadIsCurrent, InSync, pathCacheVars,
       adapterVars, historyVars
<1>9. QED
  BY <1>2, <1>3, <1>5, <1>6, <1>7, <1>8

\* A new process starts as Init does.
LEMMA RestartStep ==
  ASSUME IInv, Restart
  PROVE  IInv'
<1> USE EventFacts, NotificationFacts, ServiceEventFacts DEF IInv
<1>1. /\ loop' = "new" /\ childWatch' = 0 /\ worker' = Idle /\ inServices' = FALSE
      /\ forwarding' = [e \in P!ZkEvents |-> 0]
      /\ notifying' = [n \in P!PathCacheEvents |-> 0]
      /\ serviceOut' = [e \in ServiceEvents |-> 0]
      /\ queue' = [S \in SUBSET Instances |-> 0]
      /\ informer' = cr /\ past' = {exists}
      /\ UNCHANGED <<pathExists, exists, births, changes, writes, faults, isSvcPath,
                     accelerated, cr, revision, failures>>
  BY DEF Restart
<1>2. P!TypeOK'
  <2>1. cached' \in [P!Paths -> BOOLEAN]
    BY DEF Restart
  <2>2. QED
    BY <1>1, <2>1 DEF Restart, TypeOK, P!TypeOK
<1>3. TypeOK'
  <2>1. worker' \in Workers
    BY <1>1, InstanceSyncAssumption DEF Idle, Workers
  <2>2. /\ serviceOut' \in [ServiceEvents -> Nat] /\ queue' \in [SUBSET Instances -> Nat]
        /\ past' \in SUBSET SUBSET Instances /\ attempted' \in SUBSET SUBSET Instances
    BY <1>1, Counts DEF Restart
  <2>3. /\ serviceNode' \in {"present", "deleted", "handled"} /\ inServices' \in BOOLEAN
        /\ adapter' \in {"running", "crashed"} /\ overlapped' \in BOOLEAN
    BY DEF Restart
  <2>4. informer' \in Objects /\ restarts' \in Nat
    BY <1>1 DEF Restart, TypeOK
  <2>5. QED
    BY <1>1, <1>2, <2>1, <2>2, <2>3, <2>4 DEF TypeOK
<1>4. \A S \in SUBSET Instances : ~InFlight(S)'
  BY <1>1 DEF InFlight
<1>5. P!ListensForChildren' /\ ~P!Undisturbed'
  BY <1>1 DEF P!ListensForChildren, P!Undisturbed
<1>6. NotStarted'
  BY <1>1, <1>4 DEF NotStarted
<1>7. NodesAreThere' /\ NothingDropped' /\ InOnePlace'
  BY <1>5 DEF NodesAreThere, NothingDropped, InOnePlace, Following
<1>8. OnlyThePast' /\ OnlyTheCurrent'
  BY <1>1, <1>4 DEF OnlyThePast, OnlyTheCurrent
<1>9. QED
  BY <1>1, <1>3, <1>5, <1>6, <1>7, <1>8

\* A step of the whole way, or none.
LEMMA NextIInv == IInv /\ [Next]_vars => IInv'
<1> SUFFICES ASSUME IInv, [Next]_vars PROVE IInv'
  OBVIOUS
<1>1. CASE UNCHANGED vars
  <2>1. /\ UNCHANGED <<pathCacheVars, registryVars, adapterVars, kubeVars, historyVars>>
    BY <1>1 DEF vars
  <2>2. P!TypeOK' /\ (P!Undisturbed' <=> P!Undisturbed)
    BY <2>1 DEF IInv, TypeOK, P!TypeOK, P!Undisturbed, pathCacheVars
  <2>3. TypeOK'
    BY <2>1, <2>2 DEF IInv, TypeOK, registryVars, adapterVars, kubeVars, historyVars
  <2>4. \A R : InFlight(R)' <=> InFlight(R)
    BY <2>1 DEF InFlight, pathCacheVars, registryVars, adapterVars
  <2>5. P!ListensForChildren' /\ ~isSvcPath' /\ NotStarted' /\ NodesAreThere'
    BY <2>1, <2>2, <2>4 DEF IInv, P!ListensForChildren, NotStarted, NodesAreThere,
       pathCacheVars, registryVars, adapterVars, kubeVars
  <2>6. OnlyThePast' /\ OnlyTheCurrent'
    BY <2>1, <2>4 DEF IInv, OnlyThePast, OnlyTheCurrent, pathCacheVars, historyVars
  <2>7. NothingDropped'
    BY <2>1, <2>2 DEF IInv, NothingDropped, Following, pathCacheVars, registryVars,
       adapterVars, historyVars
  <2>8. InOnePlace'
    BY <2>1, <2>2 DEF IInv, InOnePlace, Following, Waiting, ReadIsCurrent, InSync,
       pathCacheVars, registryVars, adapterVars, kubeVars, historyVars
  <2>9. QED
    BY <2>3, <2>5, <2>6, <2>7, <2>8 DEF IInv
<1>2. CASE Register
  BY <1>2, RegisterStep
<1>3. CASE DeleteServiceNode \/ DeleteService
  BY <1>3, DeleteServiceNodeStep, DeleteServiceStep
<1>4. CASE WatchProviders \/ PathCacheStep \/ ReceiveNotification
  BY <1>4, WatchProvidersStep, PathCacheStepStep, ReceiveNotificationStep
<1>5. CASE AdapterStep
  BY <1>5, OnServiceAddedStep, OnInstancesReplaceStep, OnServiceDeletedStep,
     OnInstanceDeletedStep DEF AdapterStep
<1>6. CASE WorkerStep
  BY <1>6, WorkerTakeStep, GetStep, CreateStep, UpdateStep DEF WorkerStep
<1>7. CASE RequestFails \/ SyncInformer \/ Restart
  BY <1>7, RequestFailsStep, SyncInformerStep, RestartStep
<1>8. QED
  BY <1>1, <1>2, <1>3, <1>4, <1>5, <1>6, <1>7 DEF Next

\* The inductive invariant holds in every behaviour.
THEOREM AlwaysIInv == Spec => []IInv
  BY InitIInv, NextIInv, PTL DEF Spec

-----------------------------------------------------------------------------
(* The safety properties of InstanceSync *)

\* Every variable keeps to its type.
THEOREM TypeCorrect == Spec => []TypeOK
<1>1. IInv => TypeOK
  BY DEF IInv
<1>2. QED
  BY <1>1, AlwaysIInv, PTL

\* Between an event of the children watch and the return of ReplaceInstances the
\* list of now is never lost, whatever the order in which the goroutines run.
THEOREM ListIsNeverDropped == Spec => []NothingDropped
<1>1. IInv => NothingDropped
  BY DEF IInv
<1>2. QED
  BY <1>1, AlwaysIInv, PTL

\* If changes wait for each other and no request fails, the ConfiguredService shows
\* the list of now whenever nothing is under way.
THEOREM InSyncAtRest == Spec => []SettledInSync
<1>1. IInv => SettledInSync
  <2> SUFFICES ASSUME IInv, Following, ~overlapped, failures = 0, Settled
               PROVE  InSync
    BY DEF SettledInSync
  <2>1. Waiting = 0 /\ worker = Idle
    BY SettledFacts, Counts DEF IInv, Waiting
  <2>2. QED
    BY <2>1 DEF IInv, InOnePlace
<1>2. QED
  BY <1>1, AlwaysIInv, PTL

-----------------------------------------------------------------------------
(* InstanceSync implements InstanceMirror. *)

\* The ConfiguredService as a mirror shows it.
Shown == IF cr.version = 0 THEN None ELSE cr.instances

\* The adapter starts as a mirror does.
LEMMA MirrorInit == Init => Mirror!Init
<1> SUFFICES ASSUME Init PROVE Mirror!Init
  OBVIOUS
<1>1. exists \in SUBSET Instances
  BY DEF Init, P!Init
<1>2. Shown \in (SUBSET Instances) \cup {None}
  BY DEF Init, NoObject, Shown
<1>3. QED
  BY <1>1, <1>2 DEF Init, Mirror!Init, Shown

\* A write publishes a list that was true, the list of now if nothing overlapped.
LEMMA MirrorWrite ==
  ASSUME IInv, NEW step \in {"get", "create", "update"}, Working(step), Write
  PROVE  Mirror!Publish
<1>1. UNCHANGED <<exists, past, overlapped>> /\ worker # Idle
      /\ worker.instances \in SUBSET Instances
  BY WorkingFacts DEF pathCacheVars
<1>2. InFlight(worker.instances)
  BY <1>1 DEF InFlight
<1>3. worker.instances \in IF overlapped THEN past ELSE {exists}
  BY <1>1, <1>2 DEF IInv, OnlyThePast, OnlyTheCurrent
<1>4. Shown' = worker.instances
  BY <1>1, WriteFacts DEF IInv, Shown
<1>5. QED
  BY <1>1, <1>3, <1>4 DEF Mirror!Publish, Shown

\* Every step of the whole way is a step of the mirror, or none: ZooKeeper changes
\* the truth, a successful Create or Update publishes, DeleteService retracts, the
\* process restarts, and nothing else is seen.
LEMMA MirrorNext == IInv /\ [Next]_vars => [Mirror!Next]_Mirror!vars
<1> SUFFICES ASSUME IInv, [Next]_vars PROVE Mirror!Next \/ UNCHANGED Mirror!vars
  OBVIOUS
<1> USE DEF Mirror!vars
<1>1. CASE UNCHANGED <<exists, past, overlapped, cr>>
  BY <1>1
<1>2. CASE Register
  <2>1. exists' \in SUBSET Instances
    BY <1>2, ZooKeeperType DEF Register, IInv, TypeOK, P!TypeOK
  <2>2. past' = past \cup {exists'} /\ cr' = cr
    BY <1>2 DEF Register, kubeVars
  <2>3. overlapped' \in {overlapped, TRUE}
    <3>1. overlapped' = (overlapped \/ (exists' # exists /\ ~Settled))
      BY <1>2 DEF Register
    <3>2. overlapped \in BOOLEAN
      BY DEF IInv, TypeOK
    <3>3. QED
      BY <3>1, <3>2
  <2>4. QED
    BY <2>1, <2>2, <2>3 DEF Mirror!Change, Mirror!Next
<1>3. CASE DeleteServiceNode \/ WatchProviders \/ SyncInformer
  <2>1. UNCHANGED <<exists, past, overlapped, cr>>
    BY <1>3 DEF DeleteServiceNode, WatchProviders, P!NewPathCache, SyncInformer,
       pathCacheVars, kubeVars, historyVars
  <2>2. QED
    BY <1>1, <2>1
<1>4. CASE PathCacheStep
  <2>1. exists' = exists
    BY <1>4, LoopEffect DEF PathCacheStep, IInv, TypeOK
  <2>2. QED
    BY <1>1, <1>4, <2>1 DEF PathCacheStep, kubeVars, historyVars
<1>5. CASE ReceiveNotification \/ DeleteService
  <2>1. UNCHANGED <<past, overlapped, cr>>
    BY <1>5 DEF ReceiveNotification, DeleteService, kubeVars, historyVars
  <2>2. exists' = exists
    BY <1>5 DEF ReceiveNotification, DeleteService, P!OwnerReceive, P!Stop, P!zkVars,
       pathCacheVars
  <2>3. QED
    BY <1>1, <2>1, <2>2
<1>6. CASE AdapterStep
  <2>1. UNCHANGED <<exists, past, overlapped>>
    BY <1>6 DEF AdapterStep, OnServiceAdded, OnInstancesReplace, OnServiceDeleted,
       OnInstanceDeleted, Receive, pathCacheVars
  <2>2. cr' = cr \/ cr' = NoObject
    BY <1>6 DEF AdapterStep, OnServiceAdded, OnInstancesReplace, OnServiceDeleted,
       OnInstanceDeleted, kubeVars
  <2>3. CASE cr' = NoObject
    BY <2>1, <2>3 DEF NoObject, Mirror!Retract, Mirror!Next
  <2>4. QED
    BY <1>1, <2>1, <2>2, <2>3
<1>7. CASE WorkerStep \/ RequestFails
  <2>1. CASE \E S \in SUBSET Instances : WorkerTake(S)
    BY <1>1, <2>1 DEF WorkerTake, pathCacheVars, kubeVars, historyVars
  <2>2. CASE \E step \in {"get", "create", "update"} :
               Working(step) /\ (Write \/ cr' = cr)
    <3>1. PICK step \in {"get", "create", "update"} :
            Working(step) /\ (Write \/ cr' = cr)
      BY <2>2
    <3>2. CASE Write
      BY <3>1, <3>2, MirrorWrite DEF Mirror!Next
    <3>3. CASE cr' = cr
      BY <1>1, <3>1, <3>3 DEF Working, pathCacheVars
    <3>4. QED
      BY <3>1, <3>2, <3>3
  <2>3. GetConfiguredService \/ CreateConfiguredService \/ UpdateConfiguredService
          \/ RequestFails
        => \E step \in {"get", "create", "update"} : Working(step) /\ (Write \/ cr' = cr)
    BY DEF GetConfiguredService, CreateConfiguredService, UpdateConfiguredService,
       RequestFails
  <2>4. QED
    BY <1>7, <2>1, <2>2, <2>3 DEF WorkerStep
<1>8. CASE Restart
  BY <1>8 DEF Restart, Mirror!Restart, Mirror!Next
<1>9. CASE UNCHANGED vars
  BY <1>1, <1>9 DEF vars, pathCacheVars, kubeVars, historyVars
<1>10. QED
  BY <1>2, <1>3, <1>4, <1>5, <1>6, <1>7, <1>8, <1>9 DEF Next

\* The ConfiguredService is a mirror of the list of instances: only lists that were
\* true are published, and only the list of now if changes wait for each other.
THEOREM SyncImplementsMirror == Spec => ImplementsMirror
<1>1. Init => Mirror!Init
  BY MirrorInit
<1>2. IInv /\ [Next]_vars => [Mirror!Next]_Mirror!vars
  BY MirrorNext
<1>3. QED
  BY <1>1, <1>2, AlwaysIInv, PTL DEF Spec, ImplementsMirror, Mirror!Spec
=============================================================================
