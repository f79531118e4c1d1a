------------------------------ MODULE ConfigSync ------------------------------
(***************************************************************************)
(* The way of the configuration of one service from the configuration      *)
(* center to its ServiceConfig:                                            *)
(*                                                                         *)
(*   /dubbo/config/dubbo --watch--> PathCache (service mode)               *)
(*     --notifyCh--> ConfigClient.eventLoop, which reads the data          *)
(*     --out--> Adapter.Start, which calls the handler itself              *)
(*     --Get, Create, Update, Delete--> API server, read via an informer   *)
(*                                                                         *)
(* Every event for "out" is sent by a goroutine of its own, so "out" is    *)
(* the list of those that wait, in the order they were started, and any of *)
(* them can be received next.  An addition and a change are one and the    *)
(* same to the handler, so an event is the configuration it carries, or    *)
(* Gone.  Data that cannot be parsed sends no event, data without a key    *)
(* one that the handler ignores: both are Unusable.  The key is taken to   *)
(* be the name of the node.                                                *)
(*                                                                         *)
(* pkg/adapter/configcenter/zk/client.go, pkg/adapter/adapter.go,          *)
(* pkg/adapter/handler/kube_singlecluster_handler.go, crd_handler.go,      *)
(* pkg/adapter/convert/dubbo_converter.go                                  *)
(***************************************************************************)
EXTENDS Naturals, Sequences, SequencesExt

CONSTANTS
  Service,        \* the node of the service's configuration
  Root,           \* its parent, ConfiguratorPath
  Usable,         \* the configurations the node can hold
  Unusable,       \* one without a key, and what reading a missing node gives
  Gone,           \* no configuration, or the event that tells of its deletion
  MaxWrites,      \* bound: creations, deletions and changes of the node
  MaxTroubles,    \* bound: disturbances of the cache, failed requests and restarts, together
  RetrySteps      \* retry.DefaultRetry.Steps, 5 in client-go

ASSUME ConfigSyncAssumption ==
  /\ {MaxWrites, MaxTroubles} \subseteq Nat
  /\ RetrySteps \in Nat \ {0}
  /\ Service # Root
  /\ Gone \notin Usable /\ Unusable \notin Usable \cup {Gone}

Data == Usable \cup {Unusable}

VARIABLES
  (* ZooKeeper and the path cache, see PathCache *)
  pathExists, exists, births, changes, writes, faults, childWatch, nodeWatch,
  loop, isSvcPath, cached, forwarding, adding, notifying, stopping, clearing,
  data,           \* what the node holds, while it exists
  (* the adapter *)
  entry,          \* ConfigClient.configEntries of the service
  out,            \* events that wait to be received
  handler,        \* the call of the handler that the adapter's loop is busy with
  (* Kubernetes *)
  sc,             \* the configuration in the ServiceConfig of the API server, or Gone
  informer,       \* what Get sees: is there a ServiceConfig, and is that its last version
  (* history *)
  troubles,
  causes          \* what has happened that can leave the ServiceConfig wrong

P == INSTANCE PathCache WITH
       Children <- {Service}, Path <- Root, AutoFillNode <- FALSE,
       MaxFaults <- MaxTroubles, MaxStops <- 0

pathCacheVars == <<pathExists, exists, births, changes, writes, faults, childWatch,
                   nodeWatch, loop, isSvcPath, cached, forwarding, adding, notifying,
                   stopping, clearing>>
kubeVars == <<sc, informer>>
history == <<troubles, causes>>
vars == <<pathCacheVars, data, entry, out, handler, kubeVars, history>>

Exists == Service \in exists

\* The handler's call; current: has the object not been written since it was read.
Idle == [step |-> "idle", event |-> Gone, current |-> FALSE, tries |-> 0]
Handling(e) == [step |-> "get", event |-> e, current |-> FALSE, tries |-> 1]
Handlers ==
  [step : {"idle", "get", "create", "update", "delete"}, event : Data \cup {Gone},
   current : BOOLEAN, tries : 0..RetrySteps]

\* One more trouble, within the bound, which the disturbances of the cache count for too.
Bounded == faults' + troubles' <= MaxTroubles
Trouble == faults + troubles < MaxTroubles /\ troubles' = troubles + 1

Causes(S) == causes' = causes \cup S

-----------------------------------------------------------------------------
(* The configuration center *)

\* A change of the node, or of the watches on it.  A deletion that no watch reports is
\* never heard of.
Configure ==
  /\ P!ZooKeeper
  /\ IF exists' \subseteq exists /\ changes' = changes
     THEN data' = data
     ELSE data' \in IF Exists THEN Data \ {data} ELSE Data
  /\ Causes((IF births'[Service] > 1 THEN {"CreatedAgain"} ELSE {})
            \cup (IF Exists /\ Service \notin exists' /\ nodeWatch[Service] = 0
                  THEN {"DeletionUnseen"} ELSE {}))
  /\ UNCHANGED <<entry, out, handler, kubeVars, troubles>>
  /\ Bounded

\* Start: without the node there is no cache, and the adapter ends.
Start ==
  /\ P!NewPathCache
  /\ UNCHANGED <<data, entry, out, handler, kubeVars, history>>
  /\ Bounded

PathCacheStep ==
  /\ P!Handler \/ P!OwnerClear
  /\ UNCHANGED <<data, entry, out, handler, kubeVars, history>>
  /\ Bounded

\* The unsynchronised map ends the process; it is started anew.
Crash ==
  /\ P!MapRace
  /\ UNCHANGED <<data, entry, out, handler, kubeVars, history>>

-----------------------------------------------------------------------------
(* ConfigClient.eventLoop *)

\* getData, and what becomes of it: a configuration is kept under its key and sent on.
Read(d) ==
  /\ entry' = IF d = Unusable THEN entry ELSE d
  /\ out' = Append(out, d)

\* PathCacheEventAdded and PathCacheEventChanged: the data is read only now.
OnWritten(n) ==
  /\ n.type \in {"Added", "Changed"}
  /\ P!OwnerReceive(n)
  /\ \/ Read(IF Exists THEN data ELSE Unusable) /\ UNCHANGED <<troubles, causes>>
     \/ Exists /\ Read(Unusable) /\ Trouble /\ Causes({"RequestFailed"})
  /\ UNCHANGED <<data, handler, kubeVars>>

\* Mutant of OnDeleted: the entry is kept.
OnDeletedKept(n) ==
  /\ n.type = "Deleted"
  /\ P!OwnerReceive(n)
  /\ out' = IF n.path = Service THEN Append(out, Gone) ELSE out
  /\ UNCHANGED <<entry, data, handler, kubeVars, history>>

\* Mutant of OnDeleted: the entry is forgotten and nobody is told.
OnDeletedUntold(n) ==
  /\ n.type = "Deleted"
  /\ P!OwnerReceive(n)
  /\ entry' = IF n.path = Service THEN Gone ELSE entry
  /\ UNCHANGED <<out, data, handler, kubeVars, history>>

\* PathCacheEventDeleted.  The deletion of the root is taken for that of a service "dubbo".
OnDeleted(n) ==
  /\ n.type = "Deleted"
  /\ P!OwnerReceive(n)
  /\ IF n.path = Service
     THEN entry' = Gone /\ out' = Append(out, Gone)
     ELSE UNCHANGED <<entry, out>>
  /\ UNCHANGED <<data, handler, kubeVars, history>>

EventLoop == \E n \in P!PathCacheEvents : OnWritten(n) \/ OnDeleted(n)

-----------------------------------------------------------------------------
(* Adapter.Start, and the handler it calls *)

Running == loop = "running"

\* ToServiceConfig: no ServiceConfig without a key.  The members of Usable stand for
\* configurations of which it makes different ones.
ToServiceConfig(d) == IF d = Unusable THEN Gone ELSE d

\* The loop takes one of the events; ChangeConfigEntry gives up one without ServiceConfig.
Receive(i) ==
  /\ Running /\ handler = Idle
  /\ out' = RemoveAt(out, i)
  /\ handler' = IF out[i] # Gone /\ ToServiceConfig(out[i]) = Gone
                THEN Idle ELSE Handling(out[i])
  /\ Causes(IF i > 1 THEN {"Overtaken"} ELSE {})
  /\ UNCHANGED <<pathCacheVars, data, entry, kubeVars, troubles>>

InHandler(step) ==
  /\ Running /\ handler.step = step
  /\ UNCHANGED <<pathCacheVars, data, entry, out>>

\* RetryOnConflict returns; the error, if there is one, is not looked at.
Return(why) == handler' = Idle /\ Causes(why)

\* The informer tells whether there is a ServiceConfig to change, or to delete.
GetServiceConfig ==
  /\ InHandler("get")
  /\ \/ /\ handler.event = Gone /\ ~informer.exists
        /\ Return(IF sc = Gone THEN {} ELSE {"NotFound"})
     \/ /\ handler.event # Gone \/ informer.exists
        /\ handler' = [handler EXCEPT
             !.step = IF handler.event = Gone THEN "delete"
                      ELSE IF informer.exists THEN "update" ELSE "create",
             !.current = informer.current]
        /\ UNCHANGED causes
  /\ UNCHANGED <<kubeVars, troubles>>

\* The informer is behind after every write.
Write(config) ==
  /\ sc' = config
  /\ informer' = [informer EXCEPT !.current = FALSE]

\* AlreadyExists is no conflict and is not retried.
CreateServiceConfig ==
  /\ InHandler("create")
  /\ IF sc = Gone
     THEN Write(handler.event) /\ Return({})
     ELSE Return({"AlreadyExists"}) /\ UNCHANGED kubeVars
  /\ UNCHANGED troubles

\* Mutant of UpdateServiceConfig: no retry.
UpdateServiceConfigOnce ==
  /\ InHandler("update")
  /\ IF sc # Gone /\ handler.current THEN Write(handler.event) ELSE UNCHANGED kubeVars
  /\ Return({})
  /\ UNCHANGED troubles

\* Mutant of UpdateServiceConfig: conflicts are retried without an end.
UpdateServiceConfigForever ==
  /\ InHandler("update")
  /\ IF sc # Gone /\ handler.current
     THEN Write(handler.event) /\ Return({})
     ELSE /\ handler' = [Handling(handler.event) EXCEPT !.tries = handler.tries + 1]
          /\ UNCHANGED <<kubeVars, causes>>
  /\ UNCHANGED troubles

\* The ServiceConfig is gone, is the one that was read, or has been written since.
UpdateServiceConfig ==
  /\ InHandler("update")
  /\ \/ sc = Gone /\ Return({"NotFound"}) /\ UNCHANGED kubeVars
     \/ sc # Gone /\ handler.current /\ Write(handler.event) /\ Return({})
     \/ /\ sc # Gone /\ ~handler.current
        /\ IF handler.tries = RetrySteps
           THEN Return({"RetriesUsedUp"})
           ELSE /\ handler' = [Handling(handler.event) EXCEPT !.tries = handler.tries + 1]
                /\ UNCHANGED causes
        /\ UNCHANGED kubeVars
  /\ UNCHANGED troubles

\* Delete names the object, not its version.
DeleteServiceConfig ==
  /\ InHandler("delete")
  /\ Write(Gone)
  /\ Return({})
  /\ UNCHANGED troubles

RequestFails ==
  /\ \E step \in {"get", "create", "update", "delete"} : InHandler(step)
  /\ Trouble
  /\ Return({"RequestFailed"})
  /\ UNCHANGED kubeVars

AdapterStep ==
  \/ \E i \in DOMAIN out : Receive(i)
  \/ GetServiceConfig
  \/ CreateServiceConfig
  \/ UpdateServiceConfig
  \/ DeleteServiceConfig

-----------------------------------------------------------------------------
(* Around the adapter *)

SyncInformer ==
  /\ ~informer.current
  /\ informer' = [exists |-> sc # Gone, current |-> TRUE]
  /\ UNCHANGED <<pathCacheVars, data, entry, out, handler, sc, history>>

\* A controller writes the status or the generation of the MeshConfig.
Touch ==
  /\ sc # Gone
  /\ Write(sc)
  /\ handler' = [handler EXCEPT !.current = FALSE]
  /\ UNCHANGED <<pathCacheVars, data, entry, out, history>>

\* The process ends, by itself or from outside, and a new one starts.  What it would have
\* done is done by the new one, which is told of the node, but not that there is none.
Restart ==
  /\ Trouble
  /\ loop' = "new"
  /\ cached' = [p \in P!Paths |-> FALSE]
  /\ childWatch' = 0
  /\ nodeWatch' = [c \in {Service} |-> 0]
  /\ forwarding' = [e \in P!ZkEvents |-> 0]
  /\ adding' = [c \in {Service} |-> 0]
  /\ notifying' = [n \in P!PathCacheEvents |-> 0]
  /\ clearing' = {}
  /\ entry' = Gone
  /\ out' = <<>>
  /\ handler' = Idle
  /\ informer' = [exists |-> sc # Gone, current |-> TRUE]
  /\ causes' = IF Exists \/ sc = Gone THEN {} ELSE {"DeletionUnseen"}
  \* what existed before this process does not count
  /\ births' = [c \in {Service} |-> IF Exists THEN 1 ELSE 0]
  /\ UNCHANGED <<pathExists, exists, changes, writes, faults, isSvcPath, stopping, data,
                 sc>>

-----------------------------------------------------------------------------
\* There may be a ServiceConfig from before, if there is a node to tell its contents.
Init ==
  /\ P!Init
  /\ isSvcPath
  /\ data \in Data
  /\ entry = Gone
  /\ out = <<>>
  /\ handler = Idle
  /\ sc \in {Gone} \cup (IF Exists THEN Usable ELSE {})
  /\ informer = [exists |-> sc # Gone, current |-> TRUE]
  /\ troubles = 0
  /\ causes = {}

Next ==
  \/ Configure
  \/ Start
  \/ PathCacheStep
  \/ Crash
  \/ EventLoop
  \/ AdapterStep
  \/ RequestFails
  \/ SyncInformer
  \/ Touch
  \/ Restart

\* The goroutines of the adapter go on, and the watch of the informer delivers.  Nothing
\* obliges anybody to write configurations, or the process to be restarted.
Fairness ==
  /\ WF_vars(Start)
  /\ WF_vars(PathCacheStep)
  /\ WF_vars(EventLoop)
  /\ WF_vars(AdapterStep)
  /\ WF_vars(SyncInformer)

Spec == Init /\ [][Next]_vars /\ Fairness

-----------------------------------------------------------------------------
(* Properties *)

\* The type invariant.
TypeOK ==
  /\ P!TypeOK
  /\ data \in Data
  /\ entry \in Usable \cup {Gone}
  /\ out \in Seq(Data \cup {Gone})
  /\ handler \in Handlers
  /\ sc \in Usable \cup {Gone}
  /\ informer \in [exists : BOOLEAN, current : BOOLEAN]
  /\ troubles \in Nat
  /\ causes \subseteq {"CreatedAgain", "DeletionUnseen", "Overtaken", "RequestFailed",
                       "NotFound", "AlreadyExists", "RetriesUsedUp"}

\* What the node says of the service, if anything.
Says(config) ==
  IF Exists THEN data = Unusable \/ config = data ELSE config = Gone

\* ConfigClient.configEntries, which FindConfiguratorConfig reads, is never left wrong by
\* the order of the events, as each reads the data anew: once all are handled, the entry
\* is what the node holds, unless its deletion went unseen or it was created twice.
EntryIsCurrent ==
  P!Undisturbed /\ P!Quiet
    /\ causes \cap {"CreatedAgain", "DeletionUnseen", "RequestFailed"} = {}
  => Says(entry)

Settled ==
  /\ P!Quiet /\ out = <<>> /\ handler = Idle /\ informer.current

\* At rest the ServiceConfig is what the node holds, and there is none without a node.
\* There are no other reasons for it to be wrong than those in "causes": events that
\* overtook each other, an object that the informer did not show yet, more conflicts than
\* retries, a failed request, a deletion without a watch, and a node that was created anew.
SettledInSync ==
  P!Undisturbed /\ Settled /\ causes = {} => Says(sc)

\* And that state of rest is reached.
EventuallyInSync ==
  <>[](P!Undisturbed /\ causes = {} => Says(sc))
===============================================================================
