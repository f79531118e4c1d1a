------------------------- MODULE ClusterManagerProofs -------------------------
(***************************************************************************)
(* The safety properties of ClusterManager, for any clusters, kubeconfigs  *)
(* and bounds.                                                             *)
(***************************************************************************)
EXTENDS ClusterManager, TLAPS

\* A process that does not run has no clusters.
NotRunning == phase # "running" => clusters = {} /\ leaked = {} /\ query = NoQuery

\* A query that no check overtook will find running caches only.
QueryLive ==
  ~addFailed /\ ~query.overtaken => \A c \in query.todo : c.open

\* The inductive invariant.
IInv ==
  /\ TypeOK
  /\ NotRunning
  /\ CachesAccounted
  /\ QueryLive
  /\ AnswersAreLive

-----------------------------------------------------------------------------
(* Data *)

\* A cluster that is set to maintenance, or stopped, is the same but for that.
LEMMA ClusterFacts ==
  ASSUME NEW c \in Clusters
  PROVE  /\ LET m == [c EXCEPT !.status = "Maintaining"]
            IN m \in Clusters /\ m.name = c.name /\ m.open = c.open
         /\ LET m == [c EXCEPT !.open = FALSE]
            IN m \in Clusters /\ m.name = c.name
  BY DEF Clusters

\* Marked gives every cluster back as it was, but for the status.
LEMMA MarkedFacts ==
  ASSUME NEW S \in SUBSET Clusters
  PROVE  /\ Marked(S) \in SUBSET Clusters
         /\ \A m \in Marked(S) : \E c \in S :
              /\ m.name = c.name /\ m.open = c.open
              /\ m = IF c \in InMaintenance THEN [c EXCEPT !.status = "Maintaining"] ELSE c
  BY ClusterFacts DEF Marked

\* Closed gives every cluster back, stopped.
LEMMA ClosedFacts ==
  ASSUME NEW S \in SUBSET Clusters
  PROVE  /\ Closed(S) \in SUBSET Clusters
         /\ \A m \in Closed(S) : \E c \in S :
              m.name = c.name /\ m = [c EXCEPT !.open = FALSE]
  BY ClusterFacts DEF Closed

\* A query is its three parts.
LEMMA QueryFacts ==
  ASSUME NEW todo \in SUBSET Clusters, NEW stale \in BOOLEAN, NEW overtaken \in BOOLEAN
  PROVE  /\ Query(todo, stale, overtaken) \in Queries
         /\ Query(todo, stale, overtaken).todo = todo
         /\ Query(todo, stale, overtaken).stale = stale
         /\ Query(todo, stale, overtaken).overtaken = overtaken
  BY DEF Query, Queries

\* There is nothing in no query.
LEMMA NoQueryFacts ==
  NoQuery \in Queries /\ NoQuery.todo = {} /\ ~NoQuery.stale /\ ~NoQuery.overtaken
  BY DEF NoQuery, Query, Queries

OneEach(S) == \A c, d \in S : c.name = d.name => c = d

\* The clusters that stay are some of those that were there, one of each name; those that
\* are added have other names, and those that are dropped too.
LEMMA RemainingFacts ==
  ASSUME TypeOK
  PROVE  /\ Remaining \in SUBSET Clusters
         /\ OneEach(Remaining)
         /\ \A m \in Remaining : \E c \in Kept \cup InMaintenance : m.name = c.name /\ m.open = c.open
         /\ Kept \cup InMaintenance \subseteq clusters
<1>1. Kept \subseteq clusters /\ InMaintenance \subseteq clusters /\ clusters \subseteq Clusters
  BY DEF TypeOK, Kept, InMaintenance
<1>2. /\ Marked(InMaintenance) \in SUBSET Clusters
      /\ \A m \in Marked(InMaintenance) : \E c \in InMaintenance :
           /\ m.name = c.name /\ m.open = c.open
           /\ m = [c EXCEPT !.status = "Maintaining"]
  BY <1>1, MarkedFacts
<1>3. Kept \cap InMaintenance = {}
  <2> SUFFICES ASSUME NEW c \in Kept, c \in InMaintenance PROVE FALSE
    OBVIOUS
  <2>1. c.conf \in Kubeconfigs
    BY <1>1 DEF Clusters
  <2>2. c.conf = NoKubeconfig
    BY DEF Kept, InMaintenance
  <2>3. QED
    BY <2>1, <2>2, ClusterManagerAssumption
<1>4. OneEach(clusters)
  BY DEF TypeOK, OneEach
<1>5. OneEach(Remaining)
  <2> SUFFICES ASSUME NEW x \in Remaining, NEW y \in Remaining, x.name = y.name PROVE x = y
    BY DEF OneEach
  <2>1. CASE x \in Kept /\ y \in Kept
    BY <1>1, <1>4, <2>1 DEF OneEach
  <2>2. CASE x \in Marked(InMaintenance) /\ y \in Marked(InMaintenance)
    <3>1. PICK c \in InMaintenance : x.name = c.name /\ x = [c EXCEPT !.status = "Maintaining"]
      BY <1>2, <2>2
    <3>2. PICK d \in InMaintenance : y.name = d.name /\ y = [d EXCEPT !.status = "Maintaining"]
      BY <1>2, <2>2
    <3>3. c = d
      BY <1>1, <1>4, <3>1, <3>2 DEF OneEach
    <3>4. QED
      BY <3>1, <3>2, <3>3
  <2>3. ASSUME NEW k \in Kept, NEW m \in Marked(InMaintenance), k.name = m.name PROVE FALSE
    BY <1>1, <1>2, <1>3, <1>4, <2>3 DEF OneEach
  <2>4. QED
    BY <2>1, <2>2, <2>3 DEF Remaining
<1>6. QED
  BY <1>1, <1>2, <1>5 DEF Remaining

-----------------------------------------------------------------------------
(* Steps *)

\* Nothing runs at first.
LEMMA InitIInv == Init => IInv
<1> SUFFICES ASSUME Init PROVE IInv
  OBVIOUS
<1>1. seen \in [Names -> Kubeconfigs \cup {NoKubeconfig, Absent}]
  BY DEF Init
<1>2. configmap \in [Names -> Kubeconfigs \cup {NoKubeconfig, Absent}] /\ reachable \in SUBSET Names
  BY DEF Init
<1>3. /\ clusters \in SUBSET Clusters
      /\ \A c, d \in clusters : c.name = d.name => c = d
      /\ leaked \in SUBSET Names
  BY DEF Init
<1>4. phase \in {"new", "running", "stopped", "panicked"} /\ {edits, outages} \subseteq Nat
  BY DEF Init
<1>5. query \in Queries
  BY NoQueryFacts DEF Init
<1>6. addFailed \in BOOLEAN
  BY DEF Init
<1>7. TypeOK
  BY <1>1, <1>2, <1>3, <1>4, <1>5, <1>6 DEF TypeOK
<1>8. QED
  BY <1>7, NoQueryFacts DEF Init, IInv, NotRunning, CachesAccounted, QueryLive, AnswersAreLive

\* What the environment does changes nothing the manager has.
LEMMA EnvironmentStep ==
  ASSUME IInv, NEW n \in Names, EditConfigMap(n) \/ Outage(n) \/ Recover(n)
  PROVE  IInv'
<1>1. TypeOK'
  <2>1. CASE EditConfigMap(n)
    BY <2>1 DEF IInv, TypeOK, EditConfigMap, managerVars
  <2>2. CASE Outage(n)
    BY <2>2 DEF IInv, TypeOK, Outage, managerVars
  <2>3. CASE Recover(n)
    BY <2>3 DEF IInv, TypeOK, Recover, managerVars
  <2>4. QED
    BY <2>1, <2>2, <2>3
<1>2. UNCHANGED <<phase, clusters, leaked, addFailed, query>>
  BY DEF EditConfigMap, Outage, Recover, managerVars
<1>3. QED
  BY <1>1, <1>2 DEF IInv, NotRunning, CachesAccounted, QueryLive, AnswersAreLive

\* The start connects what answers.
LEMMA PreStartStep ==
  ASSUME IInv, PreStart
  PROVE  IInv'
<1> DEFINE answer == {m \in Names : Connects(m, configmap[m])}
<1>1. \A n \in answer : /\ NewCluster(n, configmap[n], "Ready") \in Clusters
                        /\ NewCluster(n, configmap[n], "Ready").name = n
                        /\ NewCluster(n, configmap[n], "Ready").open
  BY DEF Connects, NewCluster, Clusters
<1>2. clusters' = {NewCluster(n, configmap[n], "Ready") : n \in answer}
  BY DEF PreStart
<1>3. /\ clusters' \in SUBSET Clusters
      /\ OneEach(clusters')
      /\ \A c \in clusters' : c.open
  BY <1>1, <1>2 DEF OneEach
<1>4. TypeOK'
  BY <1>3 DEF IInv, TypeOK, PreStart, environmentVars, OneEach
<1>5. QED
  BY <1>3, <1>4, NoQueryFacts
     DEF IInv, PreStart, NotRunning, CachesAccounted, QueryLive, AnswersAreLive

\* What remains, with clusters of other names beside it.
LEMMA Beside ==
  ASSUME TypeOK, NEW S \in SUBSET Clusters, OneEach(S),
         \A c \in S : c.name \notin NamesOf(Kept \cup InMaintenance)
  PROVE  Remaining \cup S \in SUBSET Clusters /\ OneEach(Remaining \cup S)
<1>1. \A m \in Remaining : m.name \in NamesOf(Kept \cup InMaintenance)
  BY RemainingFacts DEF NamesOf
<1>2. QED
  BY <1>1, RemainingFacts DEF OneEach

\* What a check adds has a name of its own, and runs.
LEMMA AddedFacts ==
  ASSUME TypeOK, \A n \in Added : Connects(n, seen[n])
  PROVE  LET new == {NewCluster(n, seen[n], "") : n \in Added}
         IN /\ new \in SUBSET Clusters /\ OneEach(new)
            /\ \A c \in new : c.open /\ c.name \notin NamesOf(Kept \cup InMaintenance)
<1> DEFINE new == {NewCluster(n, seen[n], "") : n \in Added}
<1>1. \A n \in Added : n \in Names
  BY DEF Added, Expected
<1>2. \A n \in Added : /\ NewCluster(n, seen[n], "") \in Clusters
                       /\ NewCluster(n, seen[n], "").name = n
                       /\ NewCluster(n, seen[n], "").open
  BY <1>1 DEF Connects, NewCluster, Clusters
<1>3. \A n \in Added : n \notin NamesOf(Kept \cup InMaintenance)
  BY DEF Added
<1>4. \A c \in new : \E n \in Added : c = NewCluster(n, seen[n], "")
  OBVIOUS
<1> HIDE DEF new
<1>5. new \in SUBSET Clusters
  BY <1>2, <1>4
<1>6. OneEach(new)
  <2> SUFFICES ASSUME NEW x \in new, NEW y \in new, x.name = y.name PROVE x = y
    BY DEF OneEach
  <2>1. PICK n \in Added : x = NewCluster(n, seen[n], "")
    BY <1>4
  <2>2. PICK m \in Added : y = NewCluster(m, seen[m], "")
    BY <1>4
  <2>3. n = m
    BY <1>2, <2>1, <2>2
  <2>4. QED
    BY <2>1, <2>2, <2>3
<1>7. \A c \in new : c.open /\ c.name \notin NamesOf(Kept \cup InMaintenance)
  BY <1>2, <1>3, <1>4
<1>8. QED
  BY <1>5, <1>6, <1>7 DEF new

\* What a check drops has a name of its own.
LEMMA DroppedFacts ==
  ASSUME TypeOK
  PROVE  /\ Dropped \in SUBSET Clusters
         /\ Closed(Dropped) \in SUBSET Clusters /\ OneEach(Closed(Dropped))
         /\ \A c \in Closed(Dropped) : c.name \notin NamesOf(Kept \cup InMaintenance)
<1>1. /\ Dropped \subseteq clusters /\ clusters \subseteq Clusters
      /\ OneEach(clusters) /\ Kept \cup InMaintenance \subseteq clusters
      /\ Dropped \cap (Kept \cup InMaintenance) = {}
  BY DEF TypeOK, OneEach, Dropped, Kept, InMaintenance
<1>2. /\ Closed(Dropped) \in SUBSET Clusters
      /\ \A m \in Closed(Dropped) : \E c \in Dropped :
           m.name = c.name /\ m = [c EXCEPT !.open = FALSE]
  BY <1>1, ClosedFacts
<1>3. OneEach(Closed(Dropped))
  <2> SUFFICES ASSUME NEW x \in Closed(Dropped), NEW y \in Closed(Dropped), x.name = y.name
               PROVE  x = y
    BY DEF OneEach
  <2>1. PICK c \in Dropped : x.name = c.name /\ x = [c EXCEPT !.open = FALSE]
    BY <1>2
  <2>2. PICK d \in Dropped : y.name = d.name /\ y = [d EXCEPT !.open = FALSE]
    BY <1>2
  <2>3. c = d
    BY <1>1, <2>1, <2>2 DEF OneEach
  <2>4. QED
    BY <2>1, <2>2, <2>3
<1>4. \A c \in Closed(Dropped) : c.name \notin NamesOf(Kept \cup InMaintenance)
  BY <1>1, <1>2 DEF NamesOf, OneEach
<1>5. QED
  BY <1>1, <1>2, <1>3, <1>4

\* Statuses change, for the manager and for the query alike.
LEMMA CheckStatusStep ==
  ASSUME IInv, CheckStatus
  PROVE  IInv'
<1> USE DEF IInv
<1>1. query.todo \in SUBSET Clusters /\ query.stale \in BOOLEAN /\ query.overtaken \in BOOLEAN
  BY DEF TypeOK, Queries
<1>2. /\ Marked(query.todo) \in SUBSET Clusters
      /\ \A m \in Marked(query.todo) : \E c \in query.todo : m.open = c.open
  BY <1>1, MarkedFacts
<1>3. /\ query' \in Queries
      /\ query'.todo = Marked(query.todo)
      /\ query'.stale = query.stale /\ query'.overtaken = query.overtaken
  BY <1>1, <1>2, QueryFacts DEF CheckStatus
<1>4. TypeOK'
  BY <1>3, RemainingFacts DEF TypeOK, CheckStatus, Checking, environmentVars, OneEach
<1>5. QED
  BY <1>2, <1>3, <1>4, RemainingFacts
     DEF NotRunning, CachesAccounted, QueryLive, AnswersAreLive, CheckStatus, Checking

\* What a check does to a query: if it stops a cluster, it has overtaken it.
LEMMA StoppingFacts ==
  ASSUME IInv, Stopping
  PROVE  /\ query' \in Queries
         /\ AnswersAreLive => (query'.stale => query'.overtaken \/ addFailed)
         /\ ~addFailed /\ ~query'.overtaken => \A c \in query'.todo : c.open
<1> DEFINE todo == Marked(query.todo \ Dropped) \cup Closed(query.todo \cap Dropped)
           overtaken == query.overtaken \/ Dropped # {}
<1>1. query.todo \in SUBSET Clusters /\ query.stale \in BOOLEAN /\ query.overtaken \in BOOLEAN
  BY DEF IInv, TypeOK, Queries
<1>2. /\ Marked(query.todo \ Dropped) \in SUBSET Clusters
      /\ \A m \in Marked(query.todo \ Dropped) : \E c \in query.todo : m.open = c.open
  BY <1>1, MarkedFacts
<1>3. Closed(query.todo \cap Dropped) \in SUBSET Clusters
  BY <1>1, ClosedFacts
<1>4. Dropped = {} => Closed(query.todo \cap Dropped) = {}
  BY DEF Closed
<1>5. todo \in SUBSET Clusters /\ overtaken \in BOOLEAN
  BY <1>1, <1>2, <1>3
<1>6. query' = Query(todo, query.stale, overtaken)
  BY DEF Stopping
<1>7. ~query.overtaken /\ Dropped = {} => \A c \in todo : \E d \in query.todo : c.open = d.open
  BY <1>2, <1>4
<1>8. ~overtaken => ~query.overtaken /\ Dropped = {}
  OBVIOUS
<1>9. query.overtaken => overtaken
  OBVIOUS
<1> HIDE DEF todo, overtaken
<1>10. /\ query' \in Queries
       /\ query'.todo = todo
       /\ query'.stale = query.stale
       /\ query'.overtaken = overtaken
  BY <1>1, <1>5, <1>6, QueryFacts
<1>11. QED
  BY <1>7, <1>8, <1>9, <1>10 DEF IInv, QueryLive, AnswersAreLive

\* All that is to be added runs, and what is dropped is gone.
LEMMA CheckStep ==
  ASSUME IInv, Check
  PROVE  IInv'
<1> DEFINE new == {NewCluster(n, seen[n], "") : n \in Added}
<1>1. TypeOK /\ Stopping /\ Checking /\ \A n \in Added : Connects(n, seen[n])
  BY DEF IInv, Check, Stopping
<1>2. /\ new \in SUBSET Clusters /\ OneEach(new)
      /\ \A c \in new : c.open /\ c.name \notin NamesOf(Kept \cup InMaintenance)
  BY <1>1, AddedFacts
<1>3. clusters' = Remaining \cup new
  BY DEF Check
<1> HIDE DEF new
<1>4. clusters' \in SUBSET Clusters /\ OneEach(clusters')
  BY <1>1, <1>2, <1>3, Beside
<1>5. UNCHANGED <<environmentVars, seen, phase, leaked, addFailed>> /\ phase = "running"
  BY <1>1 DEF Check, Checking
<1>6. TypeOK'
  BY <1>1, <1>4, <1>5, StoppingFacts DEF TypeOK, environmentVars, OneEach
<1>7. CachesAccounted'
  <2>1. \A m \in Remaining : \E c \in clusters : m.open = c.open
    BY <1>1, RemainingFacts
  <2>2. QED
    BY <1>2, <1>3, <1>5, <2>1 DEF IInv, CachesAccounted
<1>8. NotRunning'
  BY <1>5 DEF NotRunning
<1>9. QueryLive' /\ AnswersAreLive'
  BY <1>1, <1>5, StoppingFacts DEF IInv, QueryLive, AnswersAreLive
<1>10. QED
  BY <1>6, <1>7, <1>8, <1>9 DEF IInv

\* A check that fails leaves closed clusters in the list, which nothing forbids from then on.
LEMMA CheckFailsStep ==
  ASSUME IInv, CheckFails
  PROVE  IInv'
<1>1. TypeOK /\ Stopping /\ Checking
  BY DEF IInv, CheckFails, Stopping
<1>2. clusters' \in SUBSET Clusters /\ OneEach(clusters')
  BY <1>1, DroppedFacts, Beside DEF CheckFails
<1>3. leaked' \in SUBSET Names
  BY <1>1 DEF TypeOK, CheckFails, Added, Expected
<1>4. UNCHANGED <<environmentVars, seen, phase>> /\ phase = "running" /\ addFailed' = TRUE
  BY <1>1 DEF CheckFails, Checking
<1>5. TypeOK'
  BY <1>1, <1>2, <1>3, <1>4, StoppingFacts DEF TypeOK, environmentVars, OneEach
<1>6. QED
  BY <1>4, <1>5 DEF IInv, NotRunning, CachesAccounted, QueryLive, AnswersAreLive

\* The process ends when a cluster is stopped twice, which takes a check that failed.
LEMMA StopTwiceStep ==
  ASSUME IInv, StopTwice
  PROVE  IInv'
<1>1. addFailed /\ addFailed' = addFailed
  BY DEF IInv, CachesAccounted, StopTwice, Dropped
<1>2. UNCHANGED <<environmentVars, seen>> /\ clusters' = {} /\ leaked' = {}
      /\ query' = NoQuery /\ phase' = "panicked"
  BY DEF StopTwice, Checking
<1>3. TypeOK'
  BY <1>1, <1>2, NoQueryFacts DEF IInv, TypeOK, environmentVars
<1>4. QED
  BY <1>1, <1>2, <1>3, NoQueryFacts
     DEF IInv, NotRunning, CachesAccounted, QueryLive, AnswersAreLive

\* So does the end of Start, when a check has failed.
LEMMA StopStep ==
  ASSUME IInv, Stop
  PROVE  IInv'
<1>1. UNCHANGED <<environmentVars, seen, addFailed>> /\ clusters' = {} /\ leaked' = {}
      /\ query' = NoQuery
  BY DEF Stop
<1>2. phase' \in {"stopped", "panicked"} /\ (phase' = "panicked" => \E c \in clusters : ~c.open)
  BY DEF Stop
<1>3. phase' = "panicked" => addFailed
  BY <1>2 DEF IInv, CachesAccounted
<1>4. TypeOK'
  BY <1>1, <1>2, NoQueryFacts DEF IInv, TypeOK, environmentVars
<1>5. QED
  BY <1>1, <1>3, <1>4, NoQueryFacts
     DEF IInv, NotRunning, CachesAccounted, QueryLive, AnswersAreLive

\* A process that starts again has nothing of the one before.
LEMMA RestartStep ==
  ASSUME IInv, Restart
  PROVE  IInv'
<1>1. clusters = {} /\ leaked = {} /\ query = NoQuery
  BY DEF IInv, NotRunning, Restart
<1>2. UNCHANGED <<configmap, reachable, edits, clusters, leaked, query>>
      /\ phase' = "new" /\ addFailed' = FALSE /\ outages' = outages + 1
      /\ seen' = [n \in Names |-> Absent]
  BY DEF Restart
<1>3. seen' \in [Names -> Kubeconfigs \cup {NoKubeconfig, Absent}]
  BY <1>2
<1>4. {edits, outages}' \subseteq Nat
  BY <1>2 DEF IInv, TypeOK
<1>5. TypeOK'
  BY <1>1, <1>2, <1>3, <1>4, NoQueryFacts DEF IInv, TypeOK
<1>6. QED
  BY <1>1, <1>2, <1>5, NoQueryFacts
     DEF IInv, NotRunning, CachesAccounted, QueryLive, AnswersAreLive

\* A query starts with clusters that are listed, and goes on with fewer.
LEMMA QueryStep ==
  ASSUME IInv, GetAll \/ List \/ ListFails
  PROVE  IInv'
<1>1. UNCHANGED <<environmentVars, seen, managerVars>>
  BY DEF GetAll, List, ListFails
<1>2. ASSUME query' \in Queries,
             ~addFailed /\ ~query'.overtaken => \A c \in query'.todo : c.open,
             query'.stale => query'.overtaken \/ addFailed,
             phase # "running" => query' = NoQuery
      PROVE  IInv'
  <2>1. TypeOK'
    BY <1>1, <1>2 DEF IInv, TypeOK, environmentVars, managerVars
  <2>2. QED
    BY <1>1, <1>2, <2>1
       DEF IInv, managerVars, NotRunning, CachesAccounted, QueryLive, AnswersAreLive
<1>3. /\ query.todo \in SUBSET Clusters /\ query.stale \in BOOLEAN
      /\ query.overtaken \in BOOLEAN /\ clusters \in SUBSET Clusters
  BY DEF IInv, TypeOK, Queries
<1>4. CASE GetAll
  <2>1. PICK todo \in SUBSET clusters : query' = Query(todo, FALSE, FALSE)
    BY <1>4 DEF GetAll
  <2>2. /\ query' \in Queries /\ query'.todo = todo
        /\ query'.stale = FALSE /\ query'.overtaken = FALSE
    BY <1>3, <2>1, QueryFacts
  <2>3. QED
    BY <1>2, <1>4, <2>2 DEF IInv, GetAll, CachesAccounted
<1>5. CASE List
  <2>1. PICK c \in query.todo :
          query' = Query(query.todo \ {c}, query.stale \/ ~c.open, query.overtaken)
    BY <1>5 DEF List
  <2> DEFINE todo == query.todo \ {c}
             stale == query.stale \/ ~c.open
  <2>2. todo \in SUBSET Clusters /\ stale \in BOOLEAN
    BY <1>3
  <2>3. query' = Query(todo, stale, query.overtaken)
    BY <2>1
  <2>4. stale => query.stale \/ ~c.open
    OBVIOUS
  <2>5. todo \subseteq query.todo
    OBVIOUS
  <2> HIDE DEF todo, stale
  <2>6. /\ query' \in Queries /\ query'.todo = todo
        /\ query'.stale = stale /\ query'.overtaken = query.overtaken
    BY <1>3, <2>2, <2>3, QueryFacts
  <2>7. phase = "running"
    BY <2>1, NoQueryFacts DEF IInv, NotRunning
  <2>8. QED
    BY <1>2, <2>1, <2>4, <2>5, <2>6, <2>7 DEF IInv, QueryLive, AnswersAreLive
<1>6. CASE ListFails
  BY <1>2, <1>6, NoQueryFacts DEF ListFails
<1>7. QED
  BY <1>4, <1>5, <1>6

\* Every step preserves the invariant.
LEMMA NextIInv == IInv /\ [Next]_vars => IInv'
<1> SUFFICES ASSUME IInv, [Next]_vars PROVE IInv'
  OBVIOUS
<1>1. CASE \E n \in Names : EditConfigMap(n) \/ Outage(n) \/ Recover(n)
  BY <1>1, EnvironmentStep
<1>2. CASE SyncCache
  <2>1. TypeOK'
    BY <1>2 DEF IInv, TypeOK, SyncCache, managerVars, environmentVars
  <2>2. QED
    BY <1>2, <2>1 DEF IInv, SyncCache, managerVars, NotRunning, CachesAccounted, QueryLive,
                      AnswersAreLive
<1>3. CASE PreStart
  BY <1>3, PreStartStep
<1>4. CASE CluterCheck
  BY <1>4, CheckStatusStep, StopTwiceStep, CheckStep, CheckFailsStep DEF CluterCheck
<1>5. CASE Stop
  BY <1>5, StopStep
<1>6. CASE Restart
  BY <1>6, RestartStep
<1>7. CASE GetAll \/ List \/ ListFails
  BY <1>7, QueryStep
<1>8. CASE UNCHANGED vars
  <2>1. TypeOK'
    BY <1>8 DEF IInv, TypeOK, vars, managerVars, environmentVars
  <2>2. QED
    BY <1>8, <2>1 DEF IInv, vars, managerVars, NotRunning, CachesAccounted, QueryLive,
                      AnswersAreLive
<1>9. QED
  BY <1>1, <1>2, <1>3, <1>4, <1>5, <1>6, <1>7, <1>8 DEF Next

-----------------------------------------------------------------------------
(* Theorems *)

\* The inductive invariant holds throughout.
THEOREM Invariance == Spec => []IInv
  BY InitIInv, NextIInv, PTL DEF Spec

\* The state is of its types, and no name is ever listed twice, however ConfigMaps change
\* and checks fail (cluterCheck's comparison of the lists).
THEOREM TypeCorrect == Spec => []TypeOK
  BY Invariance, PTL DEF IInv

\* Until a check fails to add a cluster (cluterCheck's early return), exactly the caches of
\* the listed clusters run, and the process never closes a channel twice.
THEOREM CachesAreAccounted == Spec => []CachesAccounted
  BY Invariance, PTL DEF IInv

\* A query that no check overtakes reads running caches only, until a check fails, although
\* it goes through its list of clusters without the lock (GetAll).
THEOREM AnswersLive == Spec => []AnswersAreLive
  BY Invariance, PTL DEF IInv

===============================================================================
