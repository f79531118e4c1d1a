--------------------------- MODULE PathCacheProofs ---------------------------
(***************************************************************************)
(* The safety properties of PathCache, for any set of children, any bound  *)
(* and both modes of the cache.                                            *)
(***************************************************************************)
EXTENDS PathCache, TLAPS

\* A cache that was not started yet holds nothing and watches nothing.
NotStarted ==
  loop = "new" =>
    /\ childWatch = 0
    /\ forwarding[ChildrenChanged] = 0
    /\ \A c \in Children : ~cached[c]

\* As long as nothing was disturbed, the watched node exists.
NodeIsThere == Undisturbed => pathExists

\* A child that exists was created.
BirthsCount == \A c \in exists : births[c] > 0

\* A child that was never deleted leaves no trace of a deletion, and one that
\* never existed is not cached.
NeverDeleted(c) == births[c] = 0 \/ (births[c] = 1 /\ c \in exists)
NoFalseDeletion ==
  \A c \in Children :
    /\ NeverDeleted(c) =>
         /\ forwarding[NodeDeleted(c)] = 0
         /\ notifying[Deleted(c)] = 0
         /\ c \notin clearing
    /\ births[c] = 0 => ~cached[c]

\* The children mode never watches or adds a single child.
ChildrenModeOnly ==
  ~isSvcPath =>
    /\ clearing = {}
    /\ \A c \in Children :
         /\ adding[c] = 0
         /\ nodeWatch[c] = 0
         /\ forwarding[NodeDeleted(c)] = 0
         /\ forwarding[NodeDataChanged(c)] = 0

\* The inductive invariant.
IInv ==
  /\ TypeOK
  /\ NotStarted
  /\ NodeIsThere
  /\ BirthsCount
  /\ NoFalseDeletion
  /\ ChildrenModeOnly
  /\ ListensForChildren
  /\ EveryChildTracked
  /\ DeletionWillBeSeen
  /\ ExistingChildWatched
  /\ SnapshotIsFresh

-----------------------------------------------------------------------------
(* Messages *)

\* zk events of different kinds, or about different children, are different.
LEMMA EventFacts ==
  /\ ChildrenChanged \in ZkEvents
  /\ \A p \in Paths :
       /\ NodeDeleted(p) \in ZkEvents \ {ChildrenChanged}
       /\ NodeDataChanged(p) \in ZkEvents \ {ChildrenChanged}
       /\ NotWatching(p) \in ZkEvents \ {ChildrenChanged}
  /\ \A p, q \in Paths :
       /\ NodeDeleted(p) # NodeDataChanged(q)
       /\ NodeDeleted(p) # NotWatching(q)
       /\ NodeDataChanged(p) # NotWatching(q)
       /\ NodeDeleted(p) = NodeDeleted(q) => p = q
       /\ NodeDataChanged(p) = NodeDataChanged(q) => p = q
  BY DEF ChildrenChanged, NodeDeleted, NodeDataChanged, NotWatching, ZkEvents, Paths

\* So are PathCacheEvents, and a Deleted event is known by its path.
LEMMA NotificationFacts ==
  /\ \A p \in Paths : {Added(p), Deleted(p), Changed(p)} \subseteq PathCacheEvents
  /\ \A S \in SUBSET Children : ChildrenReplaced(S) \in PathCacheEvents
  /\ \A p, q \in Paths :
       /\ Added(p) # Deleted(q)
       /\ Changed(p) # Deleted(q)
       /\ Deleted(p) = Deleted(q) => p = q
  /\ \A p \in Paths, S \in SUBSET Children : ChildrenReplaced(S) # Deleted(p)
  /\ \A n \in PathCacheEvents :
       /\ n.path \in Paths
       /\ n.paths \in SUBSET Children
       /\ n.type = "Deleted" => n = Deleted(n.path)
  BY DEF Added, Deleted, Changed, ChildrenReplaced, PathCacheEvents, Paths

\* The flags WatchChildren sets are a map from paths to BOOLEAN, as Cached is.
LEMMA SetAsFlags ==
  ASSUME NEW S
  PROVE  /\ [p \in Paths |-> p \in S] \in [Paths -> BOOLEAN]
         /\ \A c \in Children : [p \in Paths |-> p \in S][c] <=> c \in S
<1>1. \A p \in Paths : (p \in S) \in BOOLEAN
  OBVIOUS
<1>2. [p \in Paths |-> p \in S] \in [Paths -> BOOLEAN]
  BY <1>1, Zenon
<1>3. \A c \in Children : [p \in Paths |-> p \in S][c] <=> c \in S
  BY Zenon DEF Paths
<1>4. QED
  BY <1>2, <1>3

\* The watched node is none of its own children.
LEMMA PathIsNoChild == Path \notin Children
  BY PathCacheAssumption

-----------------------------------------------------------------------------
(* Every action preserves the inductive invariant. *)

\* Before NewPathCache has run nothing is watched, cached or under way.
LEMMA InitIInv == Init => IInv
<1> SUFFICES ASSUME Init PROVE IInv
  OBVIOUS
<1> USE EventFacts, NotificationFacts
<1>1. TypeOK
  BY DEF Init, TypeOK
<1>2. NotStarted /\ NodeIsThere /\ BirthsCount /\ NoFalseDeletion /\ ChildrenModeOnly
  BY DEF Init, NotStarted, NodeIsThere, Undisturbed, BirthsCount, NoFalseDeletion,
         NeverDeleted, ChildrenModeOnly, Paths
<1>3. ListensForChildren
  BY DEF Init, ListensForChildren, Undisturbed
<1>4. EveryChildTracked /\ DeletionWillBeSeen /\ ExistingChildWatched /\ SnapshotIsFresh
  BY DEF Init, EveryChildTracked, DeletionWillBeSeen, ExistingChildWatched,
         SnapshotIsFresh, Undisturbed
<1>5. QED
  BY <1>1, <1>2, <1>3, <1>4 DEF IInv

\* What the steps of ZooKeeper leave alone.
CacheUntouched ==
  UNCHANGED <<loop, isSvcPath, cached, adding, notifying, stopping, clearing>>

\* A child is created: the child watch fires, so the list will be read again.
LEMMA CreateChildStep ==
  ASSUME IInv, NEW c \in Children, CreateChild(c), CacheUntouched
  PROVE  IInv'
<1> USE EventFacts DEF IInv, CreateChild, Written, FireChildren, CacheUntouched, Paths
<1>1. TypeOK'
  <2>1. forwarding' \in [ZkEvents -> Nat]
    BY DEF TypeOK
  <2>2. births' \in [Children -> Nat] /\ writes' \in Nat /\ childWatch' \in Nat
    BY DEF TypeOK
  <2>3. exists' \in SUBSET Children
    BY DEF TypeOK
  <2>4. QED
    BY <2>1, <2>2, <2>3 DEF TypeOK
<1>2. (NotStarted /\ NodeIsThere)'
  BY DEF TypeOK, NotStarted, NodeIsThere, Undisturbed
<1>3. (BirthsCount /\ NoFalseDeletion)'
  BY DEF TypeOK, BirthsCount, NoFalseDeletion, NeverDeleted
<1>4. ChildrenModeOnly'
  BY DEF TypeOK, ChildrenModeOnly
<1>5. ListensForChildren'
  BY DEF TypeOK, ListensForChildren, Undisturbed
<1>6. EveryChildTracked'
  BY DEF TypeOK, EveryChildTracked, Undisturbed, ListensForChildren
<1>7. DeletionWillBeSeen'
  BY DEF TypeOK, DeletionWillBeSeen, Undisturbed
<1>8. ExistingChildWatched'
  BY DEF TypeOK, ExistingChildWatched, Undisturbed, NoFalseDeletion, BirthsCount
<1>9. SnapshotIsFresh'
  BY DEF TypeOK, SnapshotIsFresh, Undisturbed, ListensForChildren
<1>10. QED
  BY <1>1, <1>2, <1>3, <1>4, <1>5, <1>6, <1>7, <1>8, <1>9

\* A child is deleted: its watchers turn into NodeDeleted events.
LEMMA DeleteChildStep ==
  ASSUME IInv, NEW c \in Children, DeleteChild(c), CacheUntouched
  PROVE  IInv'
<1> USE EventFacts DEF IInv, DeleteChild, Written, FireChildren, CacheUntouched, Paths
<1>1. TypeOK'
  <2>1. FireChildren \in [ZkEvents -> Nat]
    BY DEF TypeOK, FireChildren
  <2>2. forwarding' \in [ZkEvents -> Nat]
    BY <2>1 DEF TypeOK
  <2>3. nodeWatch' \in [Children -> Nat]
    BY DEF TypeOK
  <2>4. QED
    BY <2>2, <2>3 DEF TypeOK
<1>2. (NotStarted /\ NodeIsThere)'
  BY DEF TypeOK, NotStarted, NodeIsThere, Undisturbed
<1>3. (BirthsCount /\ NoFalseDeletion)'
  BY DEF TypeOK, BirthsCount, NoFalseDeletion, NeverDeleted, Paths
<1>4. ChildrenModeOnly'
  BY DEF TypeOK, ChildrenModeOnly
<1>5. ListensForChildren'
  BY DEF TypeOK, ListensForChildren, Undisturbed
<1>6. EveryChildTracked'
  BY DEF TypeOK, EveryChildTracked, Undisturbed, ListensForChildren
<1>7. DeletionWillBeSeen'
  BY DEF TypeOK, DeletionWillBeSeen, Undisturbed
<1>8. ExistingChildWatched'
  BY DEF TypeOK, ExistingChildWatched, Undisturbed
<1>9. SnapshotIsFresh'
  BY DEF TypeOK, SnapshotIsFresh, Undisturbed, ListensForChildren
<1>10. QED
  BY <1>1, <1>2, <1>3, <1>4, <1>5, <1>6, <1>7, <1>8, <1>9

\* Data is written: the watchers of the child turn into NodeDataChanged events.
LEMMA ChangeDataStep ==
  ASSUME IInv, NEW c \in Children, ChangeData(c), CacheUntouched
  PROVE  IInv'
<1> USE EventFacts DEF IInv, ChangeData, Written, CacheUntouched, Paths
<1>1. TypeOK'
  BY DEF TypeOK
<1>2. (NotStarted /\ NodeIsThere)'
  BY DEF TypeOK, NotStarted, NodeIsThere, Undisturbed
<1>3. (BirthsCount /\ NoFalseDeletion)'
  BY DEF TypeOK, BirthsCount, NoFalseDeletion, NeverDeleted
<1>4. ChildrenModeOnly'
  BY DEF TypeOK, ChildrenModeOnly
<1>5. ListensForChildren'
  BY DEF TypeOK, ListensForChildren, Undisturbed
<1>6. EveryChildTracked'
  BY DEF TypeOK, EveryChildTracked, Undisturbed
<1>7. DeletionWillBeSeen'
  BY DEF TypeOK, DeletionWillBeSeen, Undisturbed
<1>8. ExistingChildWatched'
  BY DEF TypeOK, ExistingChildWatched, Undisturbed
<1>9. SnapshotIsFresh'
  BY DEF TypeOK, SnapshotIsFresh, Undisturbed
<1>10. QED
  BY <1>1, <1>2, <1>3, <1>4, <1>5, <1>6, <1>7, <1>8, <1>9

\* A deletion of the node is a disturbance.
LEMMA DeletePathStep ==
  ASSUME IInv, DeletePath, CacheUntouched
  PROVE  IInv'
<1> USE EventFacts, PathIsNoChild DEF IInv, DeletePath, Disturbed, CacheUntouched, Paths
<1>1. TypeOK'
  <2>1. forwarding' \in [ZkEvents -> Nat]
    BY DEF TypeOK
  <2>2. childWatch' \in Nat /\ faults' \in Nat
    BY DEF TypeOK
  <2>3. pathExists' \in BOOLEAN
    OBVIOUS
  <2>4. QED
    BY <2>1, <2>2, <2>3 DEF TypeOK
<1>2. (NotStarted /\ NodeIsThere)'
  BY DEF TypeOK, NotStarted, NodeIsThere, Undisturbed
<1>3. (BirthsCount /\ NoFalseDeletion)'
  BY DEF TypeOK, BirthsCount, NoFalseDeletion, NeverDeleted
<1>4. ChildrenModeOnly'
  BY DEF TypeOK, ChildrenModeOnly
<1>5. ListensForChildren'
  BY DEF TypeOK, ListensForChildren, Undisturbed
<1>6. EveryChildTracked'
  BY DEF TypeOK, EveryChildTracked, Undisturbed
<1>7. DeletionWillBeSeen'
  BY DEF TypeOK, DeletionWillBeSeen, Undisturbed
<1>8. ExistingChildWatched'
  BY DEF TypeOK, ExistingChildWatched, Undisturbed
<1>9. SnapshotIsFresh'
  BY DEF TypeOK, SnapshotIsFresh, Undisturbed
<1>10. QED
  BY <1>1, <1>2, <1>3, <1>4, <1>5, <1>6, <1>7, <1>8, <1>9

\* The node comes back, unwatched.
LEMMA CreatePathStep ==
  ASSUME IInv, CreatePath, CacheUntouched
  PROVE  IInv'
<1> USE EventFacts DEF IInv, CreatePath, CacheUntouched, Paths
<1>1. TypeOK'
  BY DEF TypeOK
<1>2. (NotStarted /\ NodeIsThere)'
  BY DEF TypeOK, NotStarted, NodeIsThere, Undisturbed
<1>3. (BirthsCount /\ NoFalseDeletion)'
  BY DEF TypeOK, BirthsCount, NoFalseDeletion, NeverDeleted
<1>4. ChildrenModeOnly'
  BY DEF TypeOK, ChildrenModeOnly
<1>5. ListensForChildren'
  BY DEF TypeOK, ListensForChildren, Undisturbed
<1>6. EveryChildTracked'
  BY DEF TypeOK, EveryChildTracked, Undisturbed
<1>7. DeletionWillBeSeen'
  BY DEF TypeOK, DeletionWillBeSeen, Undisturbed
<1>8. ExistingChildWatched'
  BY DEF TypeOK, ExistingChildWatched, Undisturbed
<1>9. SnapshotIsFresh'
  BY DEF TypeOK, SnapshotIsFresh, Undisturbed
<1>10. QED
  BY <1>1, <1>2, <1>3, <1>4, <1>5, <1>6, <1>7, <1>8, <1>9

\* An expiry is a disturbance: it takes every watch away.
LEMMA ExpireSessionStep ==
  ASSUME IInv, ExpireSession, CacheUntouched
  PROVE  IInv'
<1> USE EventFacts DEF IInv, ExpireSession, Disturbed, CacheUntouched, Paths
<1>1. TypeOK'
  <2>1. \A x \in Children : NotWatching(x).path = x
    BY DEF NotWatching
  <2>2. forwarding' \in [ZkEvents -> Nat]
    BY <2>1 DEF TypeOK
  <2>3. QED
    BY <2>2 DEF TypeOK
<1>2. (NotStarted /\ NodeIsThere)'
  BY DEF TypeOK, NotStarted, NodeIsThere, Undisturbed
<1>3. (BirthsCount /\ NoFalseDeletion)'
  BY DEF TypeOK, BirthsCount, NoFalseDeletion, NeverDeleted
<1>4. ChildrenModeOnly'
  BY DEF TypeOK, ChildrenModeOnly
<1>5. ListensForChildren'
  BY DEF TypeOK, ListensForChildren, Undisturbed
<1>6. EveryChildTracked'
  BY DEF TypeOK, EveryChildTracked, Undisturbed
<1>7. DeletionWillBeSeen'
  BY DEF TypeOK, DeletionWillBeSeen, Undisturbed
<1>8. ExistingChildWatched'
  BY DEF TypeOK, ExistingChildWatched, Undisturbed
<1>9. SnapshotIsFresh'
  BY DEF TypeOK, SnapshotIsFresh, Undisturbed
<1>10. QED
  BY <1>1, <1>2, <1>3, <1>4, <1>5, <1>6, <1>7, <1>8, <1>9

\* A new cache has one watch, and has read the list.
LEMMA NewPathCacheStep ==
  ASSUME IInv, NewPathCache
  PROVE  IInv'
<1> USE EventFacts, NotificationFacts, PathIsNoChild DEF IInv, NewPathCache, Disturbed, Plus, WatchPath, WatchAndAddChildren,
        WatchChildren, Paths
<1>1. TypeOK'
  <2>1. adding' \in [Children -> Nat] /\ childWatch' \in Nat /\ faults' \in Nat
    BY DEF TypeOK
  <2>2. cached' = cached \/ cached' = [p \in Paths |-> p \in exists]
    OBVIOUS
  <2>3. cached' \in [Paths -> BOOLEAN]
    <3>1. CASE cached' = cached
      BY <3>1 DEF TypeOK
    <3>2. CASE cached' = [p \in Paths |-> p \in exists]
      BY ONLY <3>2, SetAsFlags, Zenon
    <3>3. QED
      BY <2>2, <3>1, <3>2
  <2>4. notifying' \in [PathCacheEvents -> Nat]
    BY DEF TypeOK
  <2>5. pathExists' \in BOOLEAN /\ loop' \in {"running", "failed"}
    BY DEF TypeOK
  <2>6. QED
    BY <2>1, <2>3, <2>4, <2>5 DEF TypeOK
<1>2. (NotStarted /\ NodeIsThere)'
  BY DEF TypeOK, NotStarted, NodeIsThere, Undisturbed
<1>3. (BirthsCount /\ NoFalseDeletion)'
  BY DEF TypeOK, BirthsCount, NoFalseDeletion, NeverDeleted
<1>4. ChildrenModeOnly'
  BY DEF TypeOK, ChildrenModeOnly
<1>5. ListensForChildren'
  BY DEF TypeOK, ListensForChildren, Undisturbed, NotStarted
<1>6. EveryChildTracked'
  BY DEF TypeOK, EveryChildTracked, Undisturbed, NotStarted
<1>7. DeletionWillBeSeen'
  BY DEF TypeOK, DeletionWillBeSeen, Undisturbed, NotStarted
<1>8. ExistingChildWatched'
  BY DEF TypeOK, ExistingChildWatched, Undisturbed, NotStarted
<1>9. SnapshotIsFresh'
  <2>1. CASE loop' = "running" /\ ~isSvcPath
    <3>1. cached' = [p \in Paths |-> p \in exists'] /\ ~isSvcPath'
      BY <2>1
    <3>2. QED
      BY <3>1, SetAsFlags DEF SnapshotIsFresh
  <2>2. CASE ~(loop' = "running" /\ ~isSvcPath)
    BY <2>2 DEF SnapshotIsFresh, Undisturbed
  <2>3. QED
    BY <2>1, <2>2
<1>10. QED
  BY <1>1, <1>2, <1>3, <1>4, <1>5, <1>6, <1>7, <1>8, <1>9

\* The list is read again with a new watch, or the cache is disturbed.
LEMMA OnChildrenChangedStep ==
  ASSUME IInv, OnChildrenChanged
  PROVE  IInv'
<1> USE EventFacts, NotificationFacts, PathIsNoChild DEF IInv, OnChildrenChanged, ReceiveEvent, Disturbed, Plus, Minus, WatchPath,
        WatchAndAddChildren, WatchChildren, Paths
<1>1. TypeOK'
  BY DEF TypeOK
<1>2. (NotStarted /\ NodeIsThere)'
  BY DEF TypeOK, NotStarted, NodeIsThere, Undisturbed
<1>3. (BirthsCount /\ NoFalseDeletion)'
  BY DEF TypeOK, BirthsCount, NoFalseDeletion, NeverDeleted
<1>4. ChildrenModeOnly'
  BY DEF TypeOK, ChildrenModeOnly
<1>5. ListensForChildren'
  BY DEF TypeOK, ListensForChildren, Undisturbed, NodeIsThere, ListensForChildren
<1>6. EveryChildTracked'
  BY DEF TypeOK, EveryChildTracked, Undisturbed, NodeIsThere, ListensForChildren
<1>7. DeletionWillBeSeen'
  BY DEF TypeOK, DeletionWillBeSeen, Undisturbed
<1>8. ExistingChildWatched'
  BY DEF TypeOK, ExistingChildWatched, Undisturbed
<1>9. SnapshotIsFresh'
  BY DEF TypeOK, SnapshotIsFresh, Undisturbed, NodeIsThere, ListensForChildren
<1>10. QED
  BY <1>1, <1>2, <1>3, <1>4, <1>5, <1>6, <1>7, <1>8, <1>9

\* A child is added together with a watch on it.
LEMMA OnChildAddStep ==
  ASSUME IInv, NEW c \in Children, OnChildAdd(c)
  PROVE  IInv'
<1> USE EventFacts, NotificationFacts, PathIsNoChild DEF IInv, OnChildAdd, Disturbed, Plus, Minus, Paths
<1>1. TypeOK'
  <2>1. adding' \in [Children -> Nat] /\ nodeWatch' \in [Children -> Nat]
    BY DEF TypeOK
  <2>2. cached' \in [Paths -> BOOLEAN]
    BY DEF TypeOK
  <2>3. notifying' \in [PathCacheEvents -> Nat]
    BY NotificationFacts DEF TypeOK
  <2>4. QED
    BY <2>1, <2>2, <2>3 DEF TypeOK
<1>2. (NotStarted /\ NodeIsThere)'
  BY DEF TypeOK, NotStarted, NodeIsThere, Undisturbed
<1>3. (BirthsCount /\ NoFalseDeletion)'
  <2>1. \A x \in Children : cached'[x] => cached[x] \/ (x = c /\ c \in exists)
    BY DEF TypeOK
  <2>2. \A x \in Children : notifying'[Deleted(x)] = notifying[Deleted(x)]
    BY DEF TypeOK
  <2>3. QED
    BY <2>1, <2>2 DEF TypeOK, BirthsCount, NoFalseDeletion, NeverDeleted
<1>4. ChildrenModeOnly'
  BY DEF TypeOK, ChildrenModeOnly
<1>5. ListensForChildren'
  BY DEF TypeOK, ListensForChildren, Undisturbed
<1>6. EveryChildTracked'
  BY DEF TypeOK, EveryChildTracked, Undisturbed
<1>7. DeletionWillBeSeen'
  BY DEF TypeOK, DeletionWillBeSeen, Undisturbed
<1>8. ExistingChildWatched'
  <2>1. \A x \in Children : cached'[x] => cached[x] \/ (x = c /\ nodeWatch'[x] > 0)
    BY DEF TypeOK
  <2>2. \A x \in Children : nodeWatch'[x] >= nodeWatch[x]
    BY DEF TypeOK
  <2>3. nodeWatch' \in [Children -> Nat]
    BY <1>1 DEF TypeOK
  <2>4. Undisturbed' => Undisturbed
    BY DEF TypeOK, Undisturbed
  <2>5. SUFFICES ASSUME Undisturbed', isSvcPath', NEW x \in exists', cached'[x], births'[x] = 1
                 PROVE  nodeWatch'[x] > 0 \/ forwarding'[NodeDataChanged(x)] > 0
    BY DEF ExistingChildWatched
  <2>6. CASE x = c
    <3>1. CASE c \in exists
      BY <2>5, <2>6, <3>1 DEF TypeOK, Undisturbed
    <3>2. CASE c \notin exists
      BY <2>5, <2>6, <3>2
    <3>3. QED
      BY <3>1, <3>2
  <2>7. CASE x # c
    BY <2>1, <2>2, <2>3, <2>4, <2>5, <2>7 DEF TypeOK, ExistingChildWatched
  <2>8. QED
    BY <2>6, <2>7
<1>9. SnapshotIsFresh'
  BY DEF TypeOK, SnapshotIsFresh, Undisturbed, ChildrenModeOnly
<1>10. QED
  BY <1>1, <1>2, <1>3, <1>4, <1>5, <1>6, <1>7, <1>8, <1>9

\* A change of data renews the watch unless the child is gone.
LEMMA OnNodeChangedStep ==
  ASSUME IInv, NEW c \in Children, OnNodeChanged(c)
  PROVE  IInv'
<1> USE EventFacts, NotificationFacts DEF IInv, OnNodeChanged, ReceiveEvent, Disturbed, Plus, Minus, Paths
<1>1. TypeOK'
  BY DEF TypeOK
<1>2. (NotStarted /\ NodeIsThere)'
  BY DEF TypeOK, NotStarted, NodeIsThere, Undisturbed
<1>3. (BirthsCount /\ NoFalseDeletion)'
  BY DEF TypeOK, BirthsCount, NoFalseDeletion, NeverDeleted
<1>4. ChildrenModeOnly'
  BY DEF TypeOK, ChildrenModeOnly
<1>5. ListensForChildren'
  BY DEF TypeOK, ListensForChildren, Undisturbed
<1>6. EveryChildTracked'
  BY DEF TypeOK, EveryChildTracked, Undisturbed
<1>7. DeletionWillBeSeen'
  BY DEF TypeOK, DeletionWillBeSeen, Undisturbed
<1>8. ExistingChildWatched'
  BY DEF TypeOK, ExistingChildWatched, Undisturbed
<1>9. SnapshotIsFresh'
  BY DEF TypeOK, SnapshotIsFresh, Undisturbed
<1>10. QED
  BY <1>1, <1>2, <1>3, <1>4, <1>5, <1>6, <1>7, <1>8, <1>9

\* A deletion clears the flag of a child that was there and is gone.
LEMMA OnChildDeletedStep ==
  ASSUME IInv, NEW p \in Paths, OnChildDeleted(p)
  PROVE  IInv'
<1> USE EventFacts, NotificationFacts, PathIsNoChild DEF IInv, OnChildDeleted, ReceiveEvent, Plus, Minus, zkVars, Paths
<1>1. TypeOK'
  BY DEF TypeOK
<1>2. (NotStarted /\ NodeIsThere)'
  BY DEF TypeOK, NotStarted, NodeIsThere, Undisturbed
<1>3. (BirthsCount /\ NoFalseDeletion)'
  BY DEF TypeOK, BirthsCount, NoFalseDeletion, NeverDeleted
<1>4. ChildrenModeOnly'
  BY DEF TypeOK, ChildrenModeOnly
<1>5. ListensForChildren'
  BY DEF TypeOK, ListensForChildren, Undisturbed
<1>6. EveryChildTracked'
  BY DEF TypeOK, EveryChildTracked, Undisturbed, NoFalseDeletion, NeverDeleted
<1>7. DeletionWillBeSeen'
  BY DEF TypeOK, DeletionWillBeSeen, Undisturbed
<1>8. ExistingChildWatched'
  BY DEF TypeOK, ExistingChildWatched, Undisturbed
<1>9. SnapshotIsFresh'
  BY DEF TypeOK, SnapshotIsFresh, Undisturbed, ChildrenModeOnly
<1>10. QED
  BY <1>1, <1>2, <1>3, <1>4, <1>5, <1>6, <1>7, <1>8, <1>9

\* EventNotWatching is dropped.
LEMMA OnNotWatchingStep ==
  ASSUME IInv, NEW p \in Paths, OnNotWatching(p)
  PROVE  IInv'
<1> USE EventFacts DEF IInv, OnNotWatching, ReceiveEvent, Minus, zkVars, Paths
<1>1. TypeOK'
  BY DEF TypeOK
<1>2. (NotStarted /\ NodeIsThere)'
  BY DEF TypeOK, NotStarted, NodeIsThere, Undisturbed
<1>3. (BirthsCount /\ NoFalseDeletion)'
  BY DEF TypeOK, BirthsCount, NoFalseDeletion, NeverDeleted
<1>4. ChildrenModeOnly'
  BY DEF TypeOK, ChildrenModeOnly
<1>5. ListensForChildren'
  BY DEF TypeOK, ListensForChildren, Undisturbed
<1>6. EveryChildTracked'
  BY DEF TypeOK, EveryChildTracked, Undisturbed
<1>7. DeletionWillBeSeen'
  BY DEF TypeOK, DeletionWillBeSeen, Undisturbed
<1>8. ExistingChildWatched'
  BY DEF TypeOK, ExistingChildWatched, Undisturbed
<1>9. SnapshotIsFresh'
  BY DEF TypeOK, SnapshotIsFresh, Undisturbed
<1>10. QED
  BY <1>1, <1>2, <1>3, <1>4, <1>5, <1>6, <1>7, <1>8, <1>9

\* The owner takes a notification: it clears only what was deleted.
LEMMA OwnerReceiveStep ==
  ASSUME IInv, NEW n \in PathCacheEvents, OwnerReceive(n)
  PROVE  IInv'
<1> USE EventFacts, NotificationFacts DEF IInv, OwnerReceive, Minus, zkVars, Paths
<1>1. TypeOK'
  <2>1. notifying' \in [PathCacheEvents -> Nat]
    BY DEF TypeOK
  <2>2. clearing' \in SUBSET Paths
    BY NotificationFacts DEF TypeOK
  <2>3. QED
    BY <2>1, <2>2 DEF TypeOK
<1>2. (NotStarted /\ NodeIsThere)'
  BY DEF TypeOK, NotStarted, NodeIsThere, Undisturbed
<1>3. (BirthsCount /\ NoFalseDeletion)'
  BY DEF TypeOK, BirthsCount, NoFalseDeletion, NeverDeleted
<1>4. ChildrenModeOnly'
  BY DEF TypeOK, ChildrenModeOnly
<1>5. ListensForChildren'
  BY DEF TypeOK, ListensForChildren, Undisturbed
<1>6. EveryChildTracked'
  BY DEF TypeOK, EveryChildTracked, Undisturbed
<1>7. DeletionWillBeSeen'
  BY DEF TypeOK, DeletionWillBeSeen, Undisturbed
<1>8. ExistingChildWatched'
  BY DEF TypeOK, ExistingChildWatched, Undisturbed
<1>9. SnapshotIsFresh'
  BY DEF TypeOK, SnapshotIsFresh, Undisturbed
<1>10. QED
  BY <1>1, <1>2, <1>3, <1>4, <1>5, <1>6, <1>7, <1>8, <1>9

\* The owner's late clear never hits a child that was not deleted.
LEMMA OwnerClearStep ==
  ASSUME IInv, OwnerClear
  PROVE  IInv'
<1> USE EventFacts DEF IInv, OwnerClear, zkVars, Paths
<1>1. TypeOK'
  BY DEF TypeOK
<1>2. (NotStarted /\ NodeIsThere)'
  BY DEF TypeOK, NotStarted, NodeIsThere, Undisturbed
<1>3. (BirthsCount /\ NoFalseDeletion)'
  BY DEF TypeOK, BirthsCount, NoFalseDeletion, NeverDeleted
<1>4. ChildrenModeOnly'
  BY DEF TypeOK, ChildrenModeOnly
<1>5. ListensForChildren'
  BY DEF TypeOK, ListensForChildren, Undisturbed
<1>6. EveryChildTracked'
  BY DEF TypeOK, EveryChildTracked, Undisturbed, NoFalseDeletion, NeverDeleted
<1>7. DeletionWillBeSeen'
  BY DEF TypeOK, DeletionWillBeSeen, Undisturbed
<1>8. ExistingChildWatched'
  BY DEF TypeOK, ExistingChildWatched, Undisturbed
<1>9. SnapshotIsFresh'
  BY DEF TypeOK, SnapshotIsFresh, Undisturbed, ChildrenModeOnly
<1>10. QED
  BY <1>1, <1>2, <1>3, <1>4, <1>5, <1>6, <1>7, <1>8, <1>9

\* Once the loop ended, nothing is promised.
LEMMA OnStopStep ==
  ASSUME IInv, OnStop
  PROVE  IInv'
<1> USE NotificationFacts DEF IInv, OnStop, zkVars, Paths
<1>1. TypeOK'
  BY DEF TypeOK
<1>2. (NotStarted /\ NodeIsThere /\ BirthsCount /\ NoFalseDeletion /\ ChildrenModeOnly)'
  BY DEF TypeOK, NotStarted, NodeIsThere, Undisturbed, BirthsCount, NoFalseDeletion,
         NeverDeleted, ChildrenModeOnly
<1>3. (ListensForChildren /\ EveryChildTracked /\ DeletionWillBeSeen)'
  BY DEF ListensForChildren, EveryChildTracked, DeletionWillBeSeen, Undisturbed
<1>4. (ExistingChildWatched /\ SnapshotIsFresh)'
  BY DEF ExistingChildWatched, SnapshotIsFresh, Undisturbed
<1>5. QED
  BY <1>1, <1>2, <1>3, <1>4

\* A Stop only waits.
LEMMA StopStep ==
  ASSUME IInv, Stop
  PROVE  IInv'
<1> USE NotificationFacts DEF IInv, Stop, zkVars, Paths
<1>1. TypeOK'
  BY DEF TypeOK
<1>2. (NotStarted /\ NodeIsThere /\ BirthsCount /\ NoFalseDeletion /\ ChildrenModeOnly)'
  BY DEF TypeOK, NotStarted, NodeIsThere, Undisturbed, BirthsCount, NoFalseDeletion,
         NeverDeleted, ChildrenModeOnly
<1>3. (ListensForChildren /\ EveryChildTracked /\ DeletionWillBeSeen)'
  BY DEF ListensForChildren, EveryChildTracked, DeletionWillBeSeen, Undisturbed
<1>4. (ExistingChildWatched /\ SnapshotIsFresh)'
  BY DEF ExistingChildWatched, SnapshotIsFresh, Undisturbed
<1>5. QED
  BY <1>1, <1>2, <1>3, <1>4

\* Nor is anything promised of a crashed process.
LEMMA MapRaceStep ==
  ASSUME IInv, MapRace
  PROVE  IInv'
<1> USE NotificationFacts DEF IInv, MapRace, zkVars, Paths
<1>1. TypeOK'
  BY DEF TypeOK
<1>2. (NotStarted /\ NodeIsThere /\ BirthsCount /\ NoFalseDeletion /\ ChildrenModeOnly)'
  BY DEF TypeOK, NotStarted, NodeIsThere, Undisturbed, BirthsCount, NoFalseDeletion,
         NeverDeleted, ChildrenModeOnly
<1>3. (ListensForChildren /\ EveryChildTracked /\ DeletionWillBeSeen)'
  BY DEF ListensForChildren, EveryChildTracked, DeletionWillBeSeen, Undisturbed
<1>4. (ExistingChildWatched /\ SnapshotIsFresh)'
  BY DEF ExistingChildWatched, SnapshotIsFresh, Undisturbed
<1>5. QED
  BY <1>1, <1>2, <1>3, <1>4

\* Nothing happens.
LEMMA StutterStep ==
  ASSUME IInv, UNCHANGED vars
  PROVE  IInv'
<1> USE DEF vars, zkVars, cacheVars
<1>1. (TypeOK /\ NotStarted /\ NodeIsThere /\ BirthsCount)'
  BY DEF IInv, TypeOK, NotStarted, NodeIsThere, Undisturbed, BirthsCount
<1>2. (NoFalseDeletion /\ ChildrenModeOnly)'
  BY DEF IInv, NoFalseDeletion, NeverDeleted, ChildrenModeOnly
<1>3. (ListensForChildren /\ EveryChildTracked /\ DeletionWillBeSeen)'
  BY DEF IInv, ListensForChildren, EveryChildTracked, DeletionWillBeSeen, Undisturbed
<1>4. (ExistingChildWatched /\ SnapshotIsFresh)'
  BY DEF IInv, ExistingChildWatched, SnapshotIsFresh, Undisturbed
<1>5. QED
  BY <1>1, <1>2, <1>3, <1>4 DEF IInv

\* One step per action of ZooKeeper, the loop and the owner.
LEMMA NextIInv == IInv /\ [Next]_vars => IInv'
<1> SUFFICES ASSUME IInv, [Next]_vars PROVE IInv'
  OBVIOUS
<1>1. CASE ZooKeeper
  <2>1. CacheUntouched
    BY <1>1 DEF ZooKeeper, CacheUntouched
  <2>2. ASSUME NEW c \in Children, CreateChild(c) \/ DeleteChild(c) \/ ChangeData(c)
        PROVE  IInv'
    BY <2>1, <2>2, CreateChildStep, DeleteChildStep, ChangeDataStep
  <2>3. ASSUME DeletePath \/ CreatePath \/ ExpireSession
        PROVE  IInv'
    BY <2>1, <2>3, DeletePathStep, CreatePathStep, ExpireSessionStep
  <2>4. QED
    BY <1>1, <2>2, <2>3 DEF ZooKeeper
<1>2. CASE NewPathCache
  BY <1>2, NewPathCacheStep
<1>3. CASE Handler
  <2>1. ASSUME NEW c \in Children, OnChildAdd(c) \/ OnNodeChanged(c)
        PROVE  IInv'
    BY <2>1, OnChildAddStep, OnNodeChangedStep
  <2>2. ASSUME NEW p \in Paths, OnChildDeleted(p) \/ OnNotWatching(p)
        PROVE  IInv'
    BY <2>2, OnChildDeletedStep, OnNotWatchingStep
  <2>3. QED
    BY <1>3, <2>1, <2>2, OnChildrenChangedStep DEF Handler
<1>4. CASE OnStop \/ Stop \/ MapRace
  BY <1>4, OnStopStep, StopStep, MapRaceStep
<1>5. CASE Owner
  BY <1>5, OwnerClearStep, OwnerReceiveStep DEF Owner
<1>6. CASE UNCHANGED vars
  BY <1>6, StutterStep
<1>7. QED
  BY <1>1, <1>2, <1>3, <1>4, <1>5, <1>6 DEF Next

-----------------------------------------------------------------------------
(* The theorems. *)

\* The inductive invariant holds in every reachable state of a path cache.
THEOREM Invariance == Spec => []IInv
  BY InitIInv, NextIInv, PTL DEF Spec

\* The channels, watches and flags of NewPathCache keep their types; above all
\* no counted goroutine or watch is ever taken twice.
THEOREM TypeCorrect == Spec => []TypeOK
<1>1. IInv => TypeOK
  BY DEF IInv
<1>2. QED
  BY <1>1, Invariance, PTL

\* onEvent keeps exactly one watch on the children alive.
THEOREM Listening == Spec => []ListensForChildren
<1>1. IInv => ListensForChildren
  BY DEF IInv
<1>2. QED
  BY <1>1, Invariance, PTL

\* watchAndAddChildren and onChildAdd lose no child that appears for the first time.
THEOREM ChildrenTracked == Spec => []EveryChildTracked
<1>1. IInv => EveryChildTracked
  BY DEF IInv
<1>2. QED
  BY <1>1, Invariance, PTL

\* What onChildAdd caches it will hear the deletion of, as long as the data of
\* the child is left alone.
THEOREM DeletionsSeen == Spec => []DeletionWillBeSeen
<1>1. IInv => DeletionWillBeSeen
  BY DEF IInv
<1>2. QED
  BY <1>1, Invariance, PTL

\* onNodeChanged renews the watch of a child that is still the first of its name.
THEOREM ChildrenWatched == Spec => []ExistingChildWatched
<1>1. IInv => ExistingChildWatched
  BY DEF IInv
<1>2. QED
  BY <1>1, Invariance, PTL

\* The list watchChildren keeps is current, or is about to be read again.
THEOREM SnapshotsFresh == Spec => []SnapshotIsFresh
<1>1. IInv => SnapshotIsFresh
  BY DEF IInv
<1>2. QED
  BY <1>1, Invariance, PTL
=============================================================================
