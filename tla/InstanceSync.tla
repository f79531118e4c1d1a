----------------------------- MODULE InstanceSync -----------------------------
(***************************************************************************)
(* The way of the instances of one service from ZooKeeper to its           *)
(* ConfiguredService:                                                      *)
(*                                                                         *)
(*   providers node --watch--> PathCache (children mode)                   *)
(*     --notifyCh--> RegistryClient, a goroutine per cache                 *)
(*     --serviceOut--> Adapter.Start, one goroutine                        *)
(*     --accelerator channel--> the worker of the service's channel        *)
(*     --Get, Create, Update--> API server, read through an informer       *)
(*                                                                         *)
(* serviceOut and the accelerator's channels are unbuffered and every send *)
(* has a goroutine of its own (go c.notifyServiceEvent, go func(fn)), so   *)
(* here too what waits to be received is a multiset.                       *)
(*                                                                         *)
(* pkg/adapter/registry/zk/client.go, pkg/adapter/adapter.go,              *)
(* pkg/adapter/accelerate/accelerator.go,                                  *)
(* pkg/adapter/handler/kube_singlecluster_handler.go, crd_handler.go       *)
(***************************************************************************)
EXTENDS Naturals, FiniteSets

CONSTANTS
  Instances,      \* the URLs that can be registered under the providers node
  Providers,      \* the providers node
  MaxWrites,      \* bound: creations and deletions of instance nodes
  MaxTroubles,    \* bound: disturbances of the path cache, requests to the API
                  \* server that fail by themselves, and restarts, together
  RetrySteps,     \* retry.DefaultRetry.Steps, 5 in client-go
  None            \* stands for a ConfiguredService that does not exist

ASSUME InstanceSyncAssumption ==
  /\ {MaxWrites, MaxTroubles} \subseteq Nat
  /\ RetrySteps \in Nat \ {0}
  /\ \A S \in SUBSET Instances : S # None

VARIABLES
  (* ZooKeeper and the path cache of the providers node, see PathCache *)
  pathExists, exists, births, changes, writes, faults, childWatch, nodeWatch,
  loop, isSvcPath, cached, forwarding, adding, notifying, stopping, clearing,
  (* the registry client *)
  serviceNode,    \* the parent of the providers node
  inServices,     \* is the service in RegistryClient.services
  serviceOut,     \* ServiceEvents that wait to be received
  (* the adapter *)
  adapter,        \* the process
  accelerated,    \* an accelerator with channels, or none (AcceleratorSize <= 0)
  queue,          \* ReplaceInstances calls that wait for the accelerator's worker
  worker,         \* the call of ReplaceInstances that is under way
  (* Kubernetes *)
  cr,             \* the ConfiguredService in the API server
  informer,       \* the copy that Get reads
  revision,       \* the last resourceVersion given out
  (* history *)
  failures, restarts,
  past,           \* the lists of instances since the adapter started
  attempted,      \* the lists ReplaceInstances is done with since the last change
  overlapped      \* was something changed before the last change had settled

P == INSTANCE PathCache WITH
       Children <- Instances, Path <- Providers, AutoFillNode <- TRUE,
       MaxFaults <- MaxTroubles, MaxStops <- 1

pathCacheVars == <<pathExists, exists, births, changes, writes, faults, childWatch,
                   nodeWatch, loop, isSvcPath, cached, forwarding, adding, notifying,
                   stopping, clearing>>
registryVars == <<serviceNode, inServices, serviceOut>>
adapterVars == <<adapter, accelerated, queue, worker>>
kubeVars == <<cr, informer, revision>>
historyVars == <<failures, restarts, past, attempted, overlapped>>
vars == <<pathCacheVars, registryVars, adapterVars, kubeVars, historyVars>>

-----------------------------------------------------------------------------
(* Messages and records *)

\* types.ServiceEvent.  A deletion of an instance carries no Service.
ServiceEvents ==
  [type : {"ServiceAdded", "ServiceDeleted", "ServiceInstanceDeleted"}, instances : {{}}]
    \cup [type : {"ServiceInstancesReplace"}, instances : SUBSET Instances]

ServiceAdded == [type |-> "ServiceAdded", instances |-> {}]
ServiceDeleted == [type |-> "ServiceDeleted", instances |-> {}]
InstanceDeleted == [type |-> "ServiceInstanceDeleted", instances |-> {}]
InstancesReplace(S) == [type |-> "ServiceInstancesReplace", instances |-> S]

\* The call of ReplaceInstances under way, and the resourceVersion it has read.
Idle == [step |-> "idle", instances |-> {}, version |-> 0, tries |-> 0]
Replacing(S) == [step |-> "get", instances |-> S, version |-> 0, tries |-> 1]
Workers ==
  [step : {"idle", "get", "create", "update"}, instances : SUBSET Instances,
   version : Nat, tries : 0..RetrySteps]

\* A ConfiguredService, version 0 standing for "there is none".
Objects == [version : Nat, instances : SUBSET Instances]
NoObject == [version |-> 0, instances |-> {}]

Plus(bag, x) == [bag EXCEPT ![x] = @ + 1]
Minus(bag, x) == [bag EXCEPT ![x] = @ - 1]
IsEmpty(bag) == \A x \in DOMAIN bag : bag[x] = 0

\* Nothing is under way anywhere between ZooKeeper and the informer.
Settled ==
  /\ P!Quiet
  /\ IsEmpty(serviceOut)
  /\ IsEmpty(queue)
  /\ worker = Idle
  /\ informer = cr

\* The bound on what goes wrong.
Bounded == faults' + failures' + restarts' <= MaxTroubles

-----------------------------------------------------------------------------
(* The registry's nodes *)

\* A change of the instances, or of the watches on them.  The data of an instance
\* is not watched, and the providers node cannot be created without its parent.
Register ==
  /\ P!ZooKeeper
  /\ changes' = changes
  /\ serviceNode # "present" => ~pathExists'
  /\ past' = past \cup {exists'}
  /\ attempted' = IF exists' = exists THEN attempted ELSE {}
  /\ overlapped' = (overlapped \/ (exists' # exists /\ ~Settled))
  /\ UNCHANGED <<registryVars, adapterVars, kubeVars, failures, restarts>>
  /\ Bounded

DeleteServiceNode ==
  /\ serviceNode = "present"
  /\ ~pathExists
  /\ serviceNode' = "deleted"
  /\ UNCHANGED <<pathCacheVars, inServices, serviceOut, adapterVars, kubeVars, historyVars>>

-----------------------------------------------------------------------------
(* RegistryClient *)

\* eventLoop, PathCacheEventAdded of the service: the cache of its providers.
WatchProviders ==
  /\ adapter = "running"
  /\ serviceNode = "present"
  /\ P!NewPathCache
  /\ UNCHANGED <<registryVars, adapterVars, kubeVars, historyVars>>
  /\ Bounded

\* The goroutine of the providers' cache itself.
PathCacheStep ==
  /\ adapter = "running"
  /\ P!Handler \/ P!OnStop
  /\ UNCHANGED <<registryVars, adapterVars, kubeVars, historyVars>>
  /\ Bounded

\* Mutant of ReplaceServiceInstances: the list that adds the service is not sent.
ReplaceKnownInstances(S) ==
  /\ inServices' = TRUE
  /\ serviceOut' = Plus(serviceOut, IF inServices THEN InstancesReplace(S) ELSE ServiceAdded)

\* replaceServiceInstances, with addService: the first list adds the service.
ReplaceServiceInstances(S) ==
  /\ inServices' = TRUE
  /\ serviceOut' = IF inServices
                   THEN Plus(serviceOut, InstancesReplace(S))
                   ELSE Plus(Plus(serviceOut, ServiceAdded), InstancesReplace(S))

\* deleteServiceInstance: the only deletion a cache in the children mode can
\* announce is that of the providers node itself.
DeleteServiceInstance ==
  /\ serviceOut' = IF inServices THEN Plus(serviceOut, InstanceDeleted) ELSE serviceOut
  /\ UNCHANGED inServices

\* The goroutine that ranges over pcache.Events().
ReceiveNotification ==
  /\ adapter = "running"
  /\ \E n \in P!PathCacheEvents :
       /\ P!OwnerReceive(n)
       /\ \/ n.type = "ChildrenReplaced" /\ ReplaceServiceInstances(n.paths)
          \/ n.type = "Deleted" /\ DeleteServiceInstance
  /\ UNCHANGED <<serviceNode, adapterVars, kubeVars, historyVars>>

\* eventLoop, PathCacheEventDeleted of the service: deleteService.
DeleteService ==
  /\ adapter = "running"
  /\ serviceNode = "deleted"
  /\ serviceNode' = "handled"
  /\ inServices' = FALSE
  /\ serviceOut' = IF inServices THEN Plus(serviceOut, ServiceDeleted) ELSE serviceOut
  /\ IF loop \in {"running", "stopped"} THEN P!Stop ELSE UNCHANGED pathCacheVars
  /\ UNCHANGED <<adapterVars, kubeVars, historyVars>>

-----------------------------------------------------------------------------
(* Adapter.Start *)

\* Without an accelerator the loop itself is busy until ReplaceInstances returns.
Receive(e) ==
  /\ adapter = "running"
  /\ accelerated \/ worker = Idle
  /\ serviceOut[e] > 0
  /\ serviceOut' = Minus(serviceOut, e)
  /\ UNCHANGED <<pathCacheVars, serviceNode, inServices, accelerated, restarts, past,
                 attempted, overlapped>>

\* AddService of the handlers does nothing.
OnServiceAdded ==
  /\ Receive(ServiceAdded)
  /\ UNCHANGED <<adapter, queue, worker, kubeVars, failures>>

\* Handing ReplaceInstances to the accelerator, or calling it.
OnInstancesReplace(S) ==
  /\ Receive(InstancesReplace(S))
  /\ IF accelerated
     THEN queue' = Plus(queue, S) /\ UNCHANGED worker
     ELSE worker' = Replacing(S) /\ UNCHANGED queue
  /\ UNCHANGED <<adapter, kubeVars, failures>>

\* DeleteService of the handler, called by the loop itself, deletes by name; an
\* error is not looked at.
OnServiceDeleted ==
  /\ Receive(ServiceDeleted)
  /\ \/ cr' = NoObject /\ UNCHANGED failures
     \/ failures' = failures + 1 /\ Bounded /\ UNCHANGED cr
  /\ UNCHANGED <<adapter, queue, worker, informer, revision>>

\* The loop logs se.Service.Name before it looks at the type of the event:
\* the Service of this event is nil, and the panic ends the process.
OnInstanceDeleted ==
  /\ Receive(InstanceDeleted)
  /\ adapter' = "crashed"
  /\ UNCHANGED <<queue, worker, kubeVars, failures>>

AdapterStep ==
  \/ OnServiceAdded
  \/ \E S \in SUBSET Instances : OnInstancesReplace(S)
  \/ OnServiceDeleted
  \/ OnInstanceDeleted

-----------------------------------------------------------------------------
(* ReplaceInstances, in the worker or in the adapter's loop *)

\* The accelerator's worker takes the next call.
WorkerTake(S) ==
  /\ adapter = "running"
  /\ worker = Idle
  /\ queue[S] > 0
  /\ queue' = Minus(queue, S)
  /\ worker' = Replacing(S)
  /\ UNCHANGED <<pathCacheVars, registryVars, adapter, accelerated, kubeVars, historyVars>>

Working(step) ==
  /\ adapter = "running"
  /\ worker.step = step
  /\ UNCHANGED <<pathCacheVars, registryVars, adapter, accelerated, queue, informer,
                 restarts, past, overlapped>>

\* RetryOnConflict returns: the error, if there is one, is not looked at.
Return ==
  /\ worker' = Idle
  /\ attempted' = attempted \cup {worker.instances}

\* Mutant of GetConfiguredService: the object is always created.
GetForgotten ==
  /\ Working("get")
  /\ worker' = [worker EXCEPT !.step = "create"]
  /\ UNCHANGED <<cr, revision, failures, attempted>>

\* getConfiguredService reads the informer.
GetConfiguredService ==
  /\ Working("get")
  /\ worker' = IF informer.version = 0
               THEN [worker EXCEPT !.step = "create"]
               ELSE [worker EXCEPT !.step = "update", !.version = informer.version]
  /\ UNCHANGED <<cr, revision, failures, attempted>>

\* Mutant of Write: the instances are added to those of the object.
WriteMerged ==
  /\ revision' = revision + 1
  /\ cr' = [version |-> revision + 1, instances |-> cr.instances \cup worker.instances]

Write ==
  /\ revision' = revision + 1
  /\ cr' = [version |-> revision + 1, instances |-> worker.instances]

\* createConfiguredService: AlreadyExists is no conflict and is not retried.
CreateConfiguredService ==
  /\ Working("create")
  /\ IF cr.version = 0 THEN Write ELSE UNCHANGED <<cr, revision>>
  /\ Return
  /\ UNCHANGED failures

\* Mutant of UpdateConfiguredService: a conflict is retried without a limit.
UpdateUnlimited ==
  /\ Working("update")
  /\ \/ cr.version = 0 /\ Return /\ UNCHANGED <<cr, revision>>
     \/ cr.version = worker.version /\ Write /\ Return
     \/ /\ cr.version \notin {0, worker.version}
        /\ worker' = [worker EXCEPT !.step = "get", !.version = 0, !.tries = @ + 1]
        /\ UNCHANGED <<cr, revision, attempted>>
  /\ UNCHANGED failures

\* updateConfiguredService, with the resourceVersion that Get has returned: the
\* object is gone, or it was written since, or it is replaced.
UpdateConfiguredService ==
  /\ Working("update")
  /\ \/ cr.version = 0 /\ Return /\ UNCHANGED <<cr, revision>>
     \/ cr.version = worker.version /\ Write /\ Return
     \/ /\ cr.version \notin {0, worker.version}
        /\ worker.tries = RetrySteps
        /\ Return
        /\ UNCHANGED <<cr, revision>>
     \/ /\ cr.version \notin {0, worker.version}
        /\ worker.tries < RetrySteps
        /\ worker' = [worker EXCEPT !.step = "get", !.version = 0, !.tries = @ + 1]
        /\ UNCHANGED <<cr, revision, attempted>>
  /\ UNCHANGED failures

\* A request fails for a reason of its own: that is not retried either.
RequestFails ==
  /\ \E step \in {"get", "create", "update"} : Working(step)
  /\ failures' = failures + 1
  /\ Return
  /\ UNCHANGED <<cr, revision>>
  /\ Bounded

WorkerStep ==
  \/ \E S \in SUBSET Instances : WorkerTake(S)
  \/ GetConfiguredService
  \/ CreateConfiguredService
  \/ UpdateConfiguredService

-----------------------------------------------------------------------------
(* Around the adapter *)

\* The watch of the informer delivers the latest object.
SyncInformer ==
  /\ informer # cr
  /\ informer' = cr
  /\ UNCHANGED <<pathCacheVars, registryVars, adapterVars, cr, revision, historyVars>>

\* The process ends, by the panic or from outside, and a new one starts: its
\* session, caches, goroutines and informer are new.  A service node that is
\* already gone is never announced to it.
Restart ==
  /\ restarts' = restarts + 1
  /\ adapter' = "running"
  /\ loop' = "new"
  /\ cached' = [p \in P!Paths |-> FALSE]
  /\ childWatch' = 0
  /\ nodeWatch' = [i \in Instances |-> 0]
  /\ forwarding' = [e \in P!ZkEvents |-> 0]
  /\ adding' = [i \in Instances |-> 0]
  /\ notifying' = [n \in P!PathCacheEvents |-> 0]
  /\ stopping' = 0
  /\ clearing' = {}
  /\ serviceNode' = IF serviceNode = "present" THEN "present" ELSE "handled"
  /\ inServices' = FALSE
  /\ serviceOut' = [e \in ServiceEvents |-> 0]
  /\ queue' = [S \in SUBSET Instances |-> 0]
  /\ worker' = Idle
  /\ informer' = cr
  /\ past' = {exists}
  /\ attempted' = {}
  /\ overlapped' = FALSE
  /\ UNCHANGED <<pathExists, exists, births, changes, writes, faults, isSvcPath,
                 accelerated, cr, revision, failures>>
  /\ Bounded

-----------------------------------------------------------------------------
Init ==
  /\ P!Init
  /\ ~isSvcPath
  /\ serviceNode = "present"
  /\ inServices = FALSE
  /\ serviceOut = [e \in ServiceEvents |-> 0]
  /\ adapter = "running"
  /\ accelerated \in BOOLEAN
  /\ queue = [S \in SUBSET Instances |-> 0]
  /\ worker = Idle
  \* the ConfiguredService an earlier run of the adapter may have left
  /\ cr \in {NoObject} \cup [version : {1}, instances : SUBSET Instances]
  /\ informer = cr
  /\ revision = 1
  /\ failures = 0
  /\ restarts = 0
  /\ past = {exists}
  /\ attempted = {}
  /\ overlapped = FALSE

Next ==
  \/ Register
  \/ DeleteServiceNode
  \/ WatchProviders
  \/ PathCacheStep
  \/ ReceiveNotification
  \/ DeleteService
  \/ AdapterStep
  \/ WorkerStep
  \/ RequestFails
  \/ SyncInformer
  \/ Restart

\* Every goroutine of the adapter goes on, and so does the informer's watch.
\* Nothing obliges providers to come and go, requests to fail, or the process
\* to be restarted; and the deletion of a service may never be announced (see
\* NoFlagWithoutNode of PathCache).
Fairness ==
  /\ WF_vars(WatchProviders)
  /\ WF_vars(PathCacheStep)
  /\ WF_vars(ReceiveNotification)
  /\ WF_vars(AdapterStep)
  /\ WF_vars(WorkerStep)
  /\ WF_vars(SyncInformer)

Spec == Init /\ [][Next]_vars /\ Fairness

-----------------------------------------------------------------------------
(* Properties *)

\* The type invariant.
TypeOK ==
  /\ P!TypeOK
  /\ serviceNode \in {"present", "deleted", "handled"}
  /\ inServices \in BOOLEAN
  /\ serviceOut \in [ServiceEvents -> Nat]
  /\ adapter \in {"running", "crashed"}
  /\ accelerated \in BOOLEAN
  /\ queue \in [SUBSET Instances -> Nat]
  /\ worker \in Workers
  /\ cr \in Objects
  /\ informer \in Objects
  /\ revision \in Nat
  /\ failures \in Nat
  /\ restarts \in Nat
  /\ past \in SUBSET SUBSET Instances
  /\ attempted \in SUBSET SUBSET Instances
  /\ overlapped \in BOOLEAN

\* The path cache was not disturbed and its owner did not give it up.
Following == adapter = "running" /\ P!Undisturbed

\* The list of now is never lost on the way: it is still to be read, or waits
\* in one of the channels, or ReplaceInstances works on it or is done with it.
NothingDropped ==
  Following =>
    \/ forwarding[P!ChildrenChanged] > 0
    \/ notifying[P!ChildrenReplaced(exists)] > 0
    \/ serviceOut[InstancesReplace(exists)] > 0
    \/ queue[exists] > 0
    \/ worker # Idle /\ worker.instances = exists
    \/ exists \in attempted

\* The mirror the adapter promises: nothing but lists that were true is ever
\* written, and if changes wait for each other, nothing but the list of now.
Mirror == INSTANCE InstanceMirror WITH
            truth <- exists,
            racing <- overlapped,
            mirror <- IF cr.version = 0 THEN None ELSE cr.instances
ImplementsMirror == Mirror!Spec

\* If changes wait for each other and no request fails, then at rest the
\* ConfiguredService exists and shows the list of now.
InSync == cr.version # 0 /\ cr.instances = exists
SettledInSync ==
  Following /\ ~overlapped /\ failures = 0 /\ Settled => InSync

\* And this state of rest is reached.
EventuallyInSync ==
  <>[](Following /\ ~overlapped /\ failures = 0 => InSync)

\* docs/chinese.md says of the ConfiguredService that it is updated in real
\* time according to the data in zk.  At rest it shows the list of now.
AlwaysInSync ==
  Following /\ failures = 0 /\ Settled => InSync

\* component.EventHandler: "DeleteInstance you should handle the event describe
\* that an instance has been unregistered".  The adapter survives such an event.
DeletionsAreHandled == adapter # "crashed"
=============================================================================
