---------------------------- MODULE ClusterManager ----------------------------
(***************************************************************************)
(* pkg/k8s/manager: the clusters that ConfigMaps name, each with a client  *)
(* and a cache of its own.  The clusters are connected once when the       *)
(* process starts, and compared with the ConfigMaps every minute from then *)
(* on; queries run over all of them.                                       *)
(*                                                                         *)
(* cluterCheck and the start hold the manager's lock, or run alone, so     *)
(* each is one step.  A query takes its list of clusters under the lock    *)
(* and reads them one by one without it.                                   *)
(*                                                                         *)
(* Only the start and GetAll are used by the adapter (handler/init.go);    *)
(* Start, with the check, and the queries are there for other programs.    *)
(***************************************************************************)
EXTENDS Naturals

CONSTANTS
  Names,          \* of clusters, and of their ConfigMaps
  Kubeconfigs,
  NoKubeconfig,   \* what convertToKubeconfig gives for a cluster in maintenance
  Absent,         \* no ConfigMap
  MaxEdits,       \* bound: changes of ConfigMaps
  MaxOutages      \* bound: clusters that become unreachable, and restarts

ASSUME ClusterManagerAssumption ==
  /\ {NoKubeconfig, Absent} \cap Kubeconfigs = {} /\ NoKubeconfig # Absent
  /\ {MaxEdits, MaxOutages} \subseteq Nat

VARIABLES
  configmap,      \* what the ConfigMap of each name holds
  seen,           \* the copy in the cache that getClusterConfigmap reads
  reachable,      \* the clusters whose API servers answer
  phase,          \* of the process
  clusters,       \* ClusterManager.clusters
  leaked,         \* names of clusters whose caches run on although they are in no list
  query,          \* a query that is under way
  edits, outages,
  addFailed       \* has a check of this process failed to add a cluster

managerVars == <<phase, clusters, leaked, addFailed>>
environmentVars == <<configmap, reachable, edits, outages>>
vars == <<environmentVars, seen, managerVars, query>>

\* open: the cache runs, its internalStopper is not closed.
Clusters == [name : Names, conf : Kubeconfigs, status : {"", "Ready", "Maintaining"},
             open : BOOLEAN]

NamesOf(S) == {c.name : c \in S}

\* NewCluster, when the kubeconfig can be parsed and the API server answers.
Connects(n, conf) == conf \in Kubeconfigs /\ n \in reachable
NewCluster(n, conf, status) == [name |-> n, conf |-> conf, status |-> status, open |-> TRUE]

\* A query: clusters to be read, whether one was read whose cache had been stopped, and
\* whether a check has stopped clusters since the query took its list.
Query(todo, stale, overtaken) == [todo |-> todo, stale |-> stale, overtaken |-> overtaken]
NoQuery == Query({}, FALSE, FALSE)
Queries == [todo : SUBSET Clusters, stale : BOOLEAN, overtaken : BOOLEAN]

-----------------------------------------------------------------------------
(* The environment *)

EditConfigMap(n) ==
  /\ edits < MaxEdits /\ edits' = edits + 1
  /\ \E conf \in (Kubeconfigs \cup {NoKubeconfig, Absent}) \ {configmap[n]} :
       configmap' = [configmap EXCEPT ![n] = conf]
  /\ UNCHANGED <<seen, reachable, outages, managerVars, query>>

Outage(n) ==
  /\ n \in reachable
  /\ outages < MaxOutages /\ outages' = outages + 1
  /\ reachable' = reachable \ {n}
  /\ UNCHANGED <<configmap, seen, edits, managerVars, query>>

Recover(n) ==
  /\ n \notin reachable
  /\ reachable' = reachable \cup {n}
  /\ UNCHANGED <<configmap, seen, edits, outages, managerVars, query>>

SyncCache ==
  /\ phase = "running"
  /\ seen # configmap
  /\ seen' = configmap
  /\ UNCHANGED <<environmentVars, managerVars, query>>

-----------------------------------------------------------------------------
(* The manager *)

\* NewClusterManager: preStart reads the ConfigMaps from the API server; clusters that do
\* not answer are left out.
PreStart ==
  /\ phase = "new"
  /\ phase' = "running"
  /\ clusters' = {NewCluster(n, configmap[n], "Ready") :
                    n \in {m \in Names : Connects(m, configmap[m])}}
  /\ leaked' = {}
  /\ addFailed' = FALSE
  /\ UNCHANGED <<environmentVars, seen, query>>

\* How the check tells what to do: expectList against currentList.
Expected == {n \in Names : seen[n] # Absent}
\* Mutant of Kept: by the name alone.
KeptByName == {c \in clusters : seen[c.name] \in Kubeconfigs}
Kept == {c \in clusters : seen[c.name] = c.conf}
InMaintenance == {c \in clusters : seen[c.name] = NoKubeconfig}
Dropped == clusters \ (Kept \cup InMaintenance)
Added == Expected \ NamesOf(Kept \cup InMaintenance)

\* What the check does to clusters, wherever they are listed; a status once set to
\* Maintaining is never set back.
Marked(S) == {IF c \in InMaintenance THEN [c EXCEPT !.status = "Maintaining"] ELSE c : c \in S}
Closed(S) == {[c EXCEPT !.open = FALSE] : c \in S}

\* Mutants of Remaining: the whole list, and clusters in maintenance that are stopped.
RemainingAll == clusters
RemainingStopped == Kept \cup Closed(Marked(InMaintenance))

\* Those that stay.
Remaining == Kept \cup Marked(InMaintenance)

Checking ==
  /\ phase = "running"
  /\ Expected # {}
  /\ UNCHANGED <<environmentVars, seen>>

\* Nothing to connect or to disconnect.
CheckStatus ==
  /\ Checking
  /\ Dropped = {} /\ Added = {}
  /\ clusters' = Remaining
  /\ query' = Query(Marked(query.todo), query.stale, query.overtaken)
  /\ UNCHANGED <<phase, leaked, addFailed>>

\* Closing a channel that is closed is a panic, and ends the process.
StopTwice ==
  /\ Checking
  /\ \E c \in Dropped : ~c.open
  /\ phase' = "panicked"
  /\ clusters' = {}
  /\ leaked' = {}
  /\ query' = NoQuery
  /\ UNCHANGED addFailed

Stopping ==
  /\ Checking
  /\ Dropped # {} \/ Added # {}
  /\ \A c \in Dropped : c.open
  /\ query' = Query(Marked(query.todo \ Dropped) \cup Closed(query.todo \cap Dropped),
                   query.stale, query.overtaken \/ Dropped # {})

\* Mutant of Check: clusters that are gone are not stopped.
CheckUnstopped ==
  /\ Checking
  /\ Dropped # {} \/ Added # {}
  /\ \A n \in Added : Connects(n, seen[n])
  /\ clusters' = Remaining \cup {NewCluster(n, seen[n], "") : n \in Added}
  /\ leaked' = leaked \cup NamesOf(Dropped)
  /\ UNCHANGED <<phase, addFailed, query>>

\* All that is to be added can be; the list is replaced.
Check ==
  /\ Stopping
  /\ \A n \in Added : Connects(n, seen[n])
  /\ clusters' = Remaining \cup {NewCluster(n, seen[n], "") : n \in Added}
  /\ UNCHANGED <<phase, leaked, addFailed>>

\* The first cluster that cannot be added ends the check.  Clusters were stopped and others
\* were connected before, in no particular order; the list is that of before.
CheckFails ==
  /\ Stopping
  /\ \E n \in Added : ~Connects(n, seen[n])
  /\ clusters' = Remaining \cup Closed(Dropped)
  /\ \E early \in SUBSET {n \in Added : Connects(n, seen[n])} : leaked' = leaked \cup early
  /\ addFailed' = TRUE
  /\ UNCHANGED phase

\* Start returns when its channel is closed: all are stopped, once more.
Stop ==
  /\ phase = "running"
  /\ phase' = IF \E c \in clusters : ~c.open THEN "panicked" ELSE "stopped"
  /\ clusters' = {}
  /\ leaked' = {}
  /\ query' = NoQuery
  /\ UNCHANGED <<environmentVars, seen, addFailed>>

Restart ==
  /\ phase \in {"panicked", "stopped"}
  /\ outages < MaxOutages /\ outages' = outages + 1
  /\ phase' = "new"
  /\ seen' = [n \in Names |-> Absent]
  /\ addFailed' = FALSE
  /\ UNCHANGED <<configmap, reachable, edits, clusters, leaked, query>>

-----------------------------------------------------------------------------
(* GetPods and the other queries *)

\* GetAll, for all clusters or for one of them; no cluster in the list is Offline.
GetAll ==
  /\ phase = "running"
  /\ query.todo = {}
  /\ \E todo \in {clusters} \cup {{c} : c \in clusters} :
       query' = Query(todo, FALSE, FALSE)
  /\ UNCHANGED <<environmentVars, seen, managerVars>>

\* A stopped cache goes on to answer, with what it had.
List ==
  \E c \in query.todo :
    /\ query' = Query(query.todo \ {c}, query.stale \/ ~c.open, query.overtaken)
    /\ UNCHANGED <<environmentVars, seen, managerVars>>

\* The first error ends the query.
ListFails ==
  /\ query.todo # {}
  /\ query' = NoQuery
  /\ UNCHANGED <<environmentVars, seen, managerVars>>

-----------------------------------------------------------------------------
Init ==
  /\ configmap \in [Names -> Kubeconfigs \cup {NoKubeconfig, Absent}]
  /\ seen = [n \in Names |-> Absent]
  /\ reachable \in SUBSET Names
  /\ phase = "new"
  /\ clusters = {}
  /\ leaked = {}
  /\ query = NoQuery
  /\ edits = 0
  /\ outages = 0
  /\ addFailed = FALSE

CluterCheck == CheckStatus \/ StopTwice \/ Check \/ CheckFails

Next ==
  \/ \E n \in Names : EditConfigMap(n) \/ Outage(n) \/ Recover(n)
  \/ SyncCache
  \/ PreStart
  \/ CluterCheck
  \/ Stop
  \/ Restart
  \/ GetAll
  \/ List
  \/ ListFails

\* The process starts, its cache follows, and wait.Until calls the check every minute.
Fairness == WF_vars(PreStart) /\ WF_vars(SyncCache) /\ WF_vars(CluterCheck)

Spec == Init /\ [][Next]_vars /\ Fairness

-----------------------------------------------------------------------------
(* Properties *)

\* The type invariant; no name is listed twice.
TypeOK ==
  /\ configmap \in [Names -> Kubeconfigs \cup {NoKubeconfig, Absent}]
  /\ seen \in [Names -> Kubeconfigs \cup {NoKubeconfig, Absent}]
  /\ reachable \in SUBSET Names
  /\ phase \in {"new", "running", "stopped", "panicked"}
  /\ clusters \in SUBSET Clusters
  /\ \A c, d \in clusters : c.name = d.name => c = d
  /\ leaked \in SUBSET Names
  /\ query \in Queries
  /\ {edits, outages} \subseteq Nat
  /\ addFailed \in BOOLEAN

\* The caches that run are those of the listed clusters, whatever was added, removed and
\* changed; only a check that failed half-way leaves stopped clusters listed, which the next
\* one stops again and so panics, or caches behind.
CachesAccounted ==
  ~addFailed => /\ \A c \in clusters : c.open
                /\ leaked = {}
                /\ phase # "panicked"

\* A query reads a stopped cache only if a check overtook it, or failed before.
AnswersAreLive == query.stale => query.overtaken \/ addFailed

\* What the list should be, if there is anything in it.
Follows ==
  \A n \in Names :
    CASE configmap[n] \in Kubeconfigs ->
           \E c \in clusters : c.name = n /\ c.conf = configmap[n] /\ (c.open \/ addFailed)
      [] configmap[n] = Absent -> n \notin NamesOf(clusters)
      [] OTHER -> TRUE

\* A manager that goes on running ends up with the clusters of the ConfigMaps if all of them
\* answer, none of them is in maintenance, and there is at least one.  After a failed check
\* one of them may be stopped: its kubeconfig has become what it was before, so that the
\* next check finds nothing to do.
EventuallyFollows ==
  <>[](/\ phase = "running"
       /\ \E n \in Names : configmap[n] \in Kubeconfigs
       /\ \A n \in Names : configmap[n] # Absent => Connects(n, configmap[n])
       => Follows)
===============================================================================
