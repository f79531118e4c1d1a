------------------------------ MODULE AccessScope ------------------------------
(***************************************************************************)
(* What one application may call: the services it consumes, the           *)
(* ServiceAccessor that lists them, and the Sidecar whose egress hosts     *)
(* they become.                                                            *)
(*                                                                         *)
(*   /dubbo/<service>/consumers --watch--> RegistryClient, which adds the  *)
(*     service to scopedAccessorsMapping, and sends an event               *)
(*   --accessorOut, accelerator--> ReplaceAccessorInstances, which reads   *)
(*     the mapping and writes the ServiceAccessor                          *)
(*   --cache and queue--> the ServiceAccessor controller writes the        *)
(*     Sidecar; the ConfiguredService controller creates a default one     *)
(*                                                                         *)
(* A list of consumers without the application changes nothing of this and *)
(* is left out once it is read; so an event is just its service.  Events   *)
(* that wait are a bag, as every one is sent by a goroutine of its own.    *)
(*                                                                         *)
(* pkg/adapter/registry/zk/client.go, pkg/adapter/adapter.go,              *)
(* pkg/adapter/handler/kube_singlecluster_handler.go, crd_handler.go,      *)
(* controllers/serviceaccessor, controllers/configuredservice/sidecar.go   *)
(***************************************************************************)
EXTENDS Naturals

CONSTANTS
  Services,
  Channels,       \* of the accelerator; one if the adapter's loop does the work
  Hashes,         \* the ways to distribute the services among them
  SidecarDefaultHosts,  \* of the MeshConfig: what every application may call
  None,           \* hosts of an object that does not exist
  MaxWrites,      \* bound: changes of the consumers, and writes by others to the objects
  MaxTroubles,    \* bound: failed requests, crashes and restarts, pods that come late
  RetrySteps      \* retry.DefaultRetry.Steps, 5 in client-go

ASSUME AccessScopeAssumption ==
  /\ {MaxWrites, MaxTroubles} \subseteq Nat
  /\ RetrySteps \in Nat \ {0}
  /\ SidecarDefaultHosts # {}
  /\ Hashes \subseteq [Services -> Channels]
  /\ \A S \in SUBSET (Services \cup SidecarDefaultHosts) : S # None

VARIABLES
  (* ZooKeeper and the caches of the consumers, see PathCache *)
  consumes,       \* the services among whose consumers the application is
  unread,         \* services whose consumers changed since the registry client saw them
  (* the adapter *)
  mapping,        \* RegistryClient.scopedAccessorsMapping of the application
  pending,        \* events that wait for the worker of their channel
  channelOf,      \* FNV32a(service) modulo the size of the accelerator
  workers,
  (* Kubernetes *)
  accessor,       \* the ServiceAccessor
  informer,       \* the adapter's copy of it
  sidecar,        \* the hosts of the Sidecar, or None
  pods,           \* has the application any pods
  (* the ServiceAccessor controller *)
  accessorCache, sidecarCache, queued,
  (* history *)
  granted,        \* hosts this process has written to the ServiceAccessor
  writes, troubles,
  causes          \* what has happened that can keep hosts from the Sidecar

zkVars == <<consumes, unread>>
adapterVars == <<mapping, pending, channelOf, workers>>
accessorVars == <<accessor, informer, accessorCache>>
sidecarVars == <<sidecar, sidecarCache>>
history == <<granted, writes, troubles, causes>>
vars == <<zkVars, adapterVars, accessorVars, sidecarVars, pods, queued, history>>

Hosts == {None} \cup SUBSET Services
SidecarHosts == {None} \cup SUBSET (Services \cup SidecarDefaultHosts)

\* ServiceAccessorSpec; stamped: has it a MeshConfigGeneration.
Accessors == [hosts : Hosts, stamped : BOOLEAN]
NoAccessor == [hosts |-> None, stamped |-> FALSE]

\* A copy of an object, and whether the object was not written since.
Copies(S) == [object : S, current : BOOLEAN]
Copy(x) == [object |-> x, current |-> TRUE]
Behind(copy) == [copy EXCEPT !.current = FALSE]

\* A call of ReplaceAccessorInstances; current: not written since it was read.
Call(step, hosts, current, tries) ==
  [step |-> step, hosts |-> hosts, current |-> current, tries |-> tries]
Idle == Call("idle", {}, FALSE, 0)
Workers == [step : {"idle", "read", "get", "create", "update"}, hosts : SUBSET Services,
            current : BOOLEAN, tries : 0..RetrySteps]

OneChannel == \A s, t \in Services : channelOf[s] = channelOf[t]

Written == writes < MaxWrites /\ writes' = writes + 1
Trouble == troubles < MaxTroubles /\ troubles' = troubles + 1
Cause(c) == causes' = causes \cup {c}

-----------------------------------------------------------------------------
(* ZooKeeper *)

\* Consumers of s come or go, the application may be among them.
ChangeConsumers(s) ==
  /\ Written
  /\ consumes' \in {consumes \cup {s}, consumes \ {s}}
  /\ unread' = unread \cup {s}
  /\ UNCHANGED <<adapterVars, accessorVars, sidecarVars, pods, queued, granted,
                 troubles, causes>>

-----------------------------------------------------------------------------
(* The registry client *)

\* Mutant of ReplaceAccessors: the mapping is that of the service alone.
ReplaceAccessorsAnew(s) ==
  /\ s \in unread
  /\ unread' = unread \ {s}
  /\ IF s \in consumes
     THEN mapping' = {s} /\ pending' = [pending EXCEPT ![s] = @ + 1]
     ELSE UNCHANGED <<mapping, pending>>
  /\ UNCHANGED <<consumes, channelOf, workers, accessorVars, sidecarVars, pods, queued, history>>

\* The path cache reads the consumers of s and announces them; replaceAccessorInstances only
\* ever adds services to a scope.
ReplaceAccessors(s) ==
  /\ s \in unread
  /\ unread' = unread \ {s}
  /\ IF s \in consumes
     THEN /\ mapping' = mapping \cup {s}
          /\ pending' = [pending EXCEPT ![s] = @ + 1]
     ELSE UNCHANGED <<mapping, pending>>
  /\ UNCHANGED <<consumes, channelOf, workers, accessorVars, sidecarVars, pods, queued, history>>

-----------------------------------------------------------------------------
(* KubeSingleClusterEventHandler.ReplaceAccessorInstances *)

Take(s) ==
  LET ch == channelOf[s]
  IN /\ pending[s] > 0
     /\ workers[ch] = Idle
     /\ pending' = [pending EXCEPT ![s] = @ - 1]
     /\ workers' = [workers EXCEPT ![ch] = Call("read", {}, FALSE, 1)]
     /\ UNCHANGED <<zkVars, mapping, channelOf, accessorVars, sidecarVars, pods, queued, history>>

AtStep(ch, step) ==
  /\ workers[ch].step = step
  /\ UNCHANGED <<zkVars, mapping, pending, channelOf, sidecarVars, pods, queued, writes>>

\* GetCachedScopedMapping: the hosts are fixed here, for every attempt to come.
GetCachedScopedMapping(ch) ==
  /\ AtStep(ch, "read")
  /\ workers' = [workers EXCEPT ![ch] = Call("get", mapping, FALSE, @.tries)]
  /\ UNCHANGED <<accessorVars, granted, troubles, causes>>

\* The call returns; its error, if there is one, is not looked at.
Return(ch) == workers' = [workers EXCEPT ![ch] = Idle]

\* Mutant of GetScopedAccessServices: whatever is found is good enough.
GetFound(ch) ==
  /\ AtStep(ch, "get")
  /\ IF informer.object.hosts = None
     THEN workers' = [workers EXCEPT ![ch] = Call("create", @.hosts, FALSE, @.tries)]
     ELSE Return(ch)
  /\ UNCHANGED <<accessorVars, granted, troubles, causes>>

\* Nothing is written if the copy is as the object should be: a stamp is not, and the copy
\* may be an old one.
GetScopedAccessServices(ch) ==
  LET found == informer.object
      wanted == [hosts |-> workers[ch].hosts, stamped |-> FALSE]
  IN /\ AtStep(ch, "get")
     /\ \/ /\ found.hosts = None
           /\ workers' = [workers EXCEPT ![ch] = Call("create", @.hosts, FALSE, @.tries)]
           /\ UNCHANGED causes
        \/ /\ found = wanted
           /\ Return(ch)
           /\ IF accessor.hosts = wanted.hosts THEN UNCHANGED causes ELSE Cause("OldCopy")
        \/ /\ found \notin {NoAccessor, wanted}
           /\ workers' = [workers EXCEPT
                           ![ch] = Call("update", @.hosts, informer.current, @.tries)]
           /\ UNCHANGED causes
     /\ UNCHANGED <<accessorVars, granted, troubles>>

\* All copies are behind after a write, and so are the other workers'.
WriteAccessor(hosts, stamped) ==
  /\ accessor' = [hosts |-> hosts, stamped |-> stamped]
  /\ informer' = Behind(informer)
  /\ accessorCache' = Behind(accessorCache)

\* A worker's write succeeds, and its call returns.
Replace(ch) ==
  /\ WriteAccessor(workers[ch].hosts, FALSE)
  /\ workers' = [c \in Channels |-> IF c = ch THEN Idle ELSE Behind(workers[c])]
  /\ granted' = granted \cup workers[ch].hosts

\* AlreadyExists is no conflict and is not retried.
CreateScopedAccessServices(ch) ==
  /\ AtStep(ch, "create")
  /\ IF accessor = NoAccessor
     THEN Replace(ch) /\ UNCHANGED causes
     ELSE Return(ch) /\ Cause("AlreadyExists") /\ UNCHANGED <<accessorVars, granted>>
  /\ UNCHANGED troubles

\* Mutant of UpdateScopedAccessServices: conflicts are retried without an end.
UpdateForever(ch) ==
  /\ AtStep(ch, "update")
  /\ \/ workers[ch].current /\ Replace(ch)
     \/ /\ ~workers[ch].current
        /\ workers' = [workers EXCEPT ![ch] = Call("get", @.hosts, FALSE, @.tries + 1)]
        /\ UNCHANGED <<accessorVars, granted>>
  /\ UNCHANGED <<troubles, causes>>

\* The ServiceAccessor is what was read, or has been written since.
UpdateScopedAccessServices(ch) ==
  /\ AtStep(ch, "update")
  /\ \/ workers[ch].current /\ Replace(ch) /\ UNCHANGED causes
     \/ /\ ~workers[ch].current
        /\ IF workers[ch].tries = RetrySteps
           THEN Return(ch) /\ Cause("RetriesUsedUp")
           ELSE /\ workers' = [workers EXCEPT ![ch] = Call("get", @.hosts, FALSE, @.tries + 1)]
                /\ UNCHANGED causes
        /\ UNCHANGED <<accessorVars, granted>>
  /\ UNCHANGED troubles

RequestFails(ch) ==
  /\ \E step \in {"get", "create", "update"} : AtStep(ch, step)
  /\ Trouble
  /\ Return(ch)
  /\ Cause("RequestFailed")
  /\ UNCHANGED <<accessorVars, granted>>

Worker(ch) ==
  \/ \E s \in Services : ch = channelOf[s] /\ Take(s)
  \/ GetCachedScopedMapping(ch)
  \/ GetScopedAccessServices(ch)
  \/ CreateScopedAccessServices(ch)
  \/ UpdateScopedAccessServices(ch)

Adapter ==
  \/ \E s \in Services : ReplaceAccessors(s)
  \/ \E ch \in Channels : Worker(ch)

\* The process starts with nothing but what is in ZooKeeper and in the API server.
Started ==
  /\ unread' = Services
  /\ mapping' = {}
  /\ pending' = [s \in Services |-> 0]
  /\ workers' = [ch \in Channels |-> Idle]
  /\ informer' = Copy(accessor)
  /\ granted' = {}

\* The process is restarted; or it has crashed, as the map is written to while a worker
\* goes through it: GetCachedScopedMapping returns the map itself, not a copy.
Restart ==
  /\ Trouble
  /\ Started
  /\ causes' \in {causes \cup {"Restarted"}} \cup
       (IF unread \cap consumes # {} /\ \E ch \in Channels : workers[ch].step = "read"
        THEN {causes \cup {"MapRace"}} ELSE {})
  /\ UNCHANGED <<consumes, channelOf, accessor, accessorCache, sidecarVars, pods, queued, writes>>

SyncInformer ==
  /\ ~informer.current
  /\ informer' = Copy(accessor)
  /\ UNCHANGED <<zkVars, adapterVars, accessor, accessorCache, sidecarVars, pods, queued, history>>

-----------------------------------------------------------------------------
(* The controllers *)

\* Mutant of Deliver: the controller does not watch Sidecars.
DeliverAccessor ==
  /\ \/ /\ ~accessorCache.current
        /\ accessorCache' = Copy(accessor)
        /\ queued' = TRUE
        /\ UNCHANGED sidecarCache
     \/ /\ ~sidecarCache.current
        /\ sidecarCache' = Copy(sidecar)
        /\ UNCHANGED <<accessorCache, queued>>
  /\ UNCHANGED <<zkVars, adapterVars, accessor, informer, sidecar, pods, history>>

\* The caches of the controllers get to know of a write, which queues the application.
Deliver ==
  /\ \/ /\ ~accessorCache.current
        /\ accessorCache' = Copy(accessor)
        /\ UNCHANGED sidecarCache
     \/ /\ ~sidecarCache.current
        /\ sidecarCache' = Copy(sidecar)
        /\ UNCHANGED accessorCache
  /\ queued' = TRUE
  /\ UNCHANGED <<zkVars, adapterVars, accessor, informer, sidecar, pods, history>>

\* All objects are listed anew every SyncPeriod.
Resync ==
  /\ queued' = TRUE
  /\ UNCHANGED <<zkVars, adapterVars, accessorVars, sidecarVars, pods, history>>

WriteSidecar(hosts) ==
  /\ sidecar' = hosts
  /\ sidecarCache' = Behind(sidecarCache)

\* buildSidecar: the egress hosts for the hosts of a ServiceAccessor.
BuildSidecar(hosts) == SidecarDefaultHosts \cup hosts

\* Mutant of ReconcileSidecar: an existing Sidecar is left alone.
CreateSidecar(hosts) ==
  IF sidecarCache.object = None /\ sidecar = None
  THEN WriteSidecar(BuildSidecar(hosts))
  ELSE UNCHANGED sidecarVars

\* reconcileSidecar.  Create says AlreadyExists, or Update conflicts on every attempt, as the
\* object is not read again, when the cache is behind; both errors are dropped.
ReconcileSidecar(hosts) ==
  LET found == sidecarCache.object
      wanted == BuildSidecar(hosts)
  IN IF \/ found = None /\ sidecar = None
        \/ found \notin {None, wanted} /\ sidecarCache.current
     THEN WriteSidecar(wanted)
     ELSE UNCHANGED sidecarVars

\* Without an accessor or pods there is nothing to do.  Errors are not returned, so
\* nothing is queued again for them.
Reconcile ==
  /\ queued
  /\ queued' = FALSE
  /\ IF accessorCache.object.hosts = None \/ ~pods
     THEN UNCHANGED <<sidecarVars, troubles, causes>>
     ELSE \/ /\ ReconcileSidecar(accessorCache.object.hosts)
             /\ UNCHANGED <<troubles, causes>>
          \/ /\ Trouble
             /\ Cause("RequestFailed")
             /\ UNCHANGED sidecarVars
  /\ UNCHANGED <<zkVars, adapterVars, accessorVars, pods, granted, writes>>

\* buildDefaultEgress; without default hosts it would be "istio-system/*".
BuildDefaultEgress == SidecarDefaultHosts

\* The ConfiguredService controller: initDefaultSidecarsByDeploy does not look before it
\* creates, reconcileSidecar does.
DefaultSidecar ==
  /\ pods
  /\ sidecar = None
  /\ WriteSidecar(BuildDefaultEgress)
  /\ UNCHANGED <<zkVars, adapterVars, accessorVars, pods, queued, history>>

-----------------------------------------------------------------------------
(* Others *)

\* The MeshConfig controller stamps the ServiceAccessor, see MeshReconcile.
Stamp ==
  /\ accessor # NoAccessor
  /\ Written
  /\ WriteAccessor(accessor.hosts, TRUE)
  /\ workers' = [c \in Channels |-> Behind(workers[c])]
  /\ UNCHANGED <<zkVars, mapping, pending, channelOf, sidecarVars, pods, queued, granted,
                 troubles, causes>>

\* Somebody deletes or changes the Sidecar.
Tamper ==
  /\ sidecar # None
  /\ Written
  /\ \E hosts \in {None, SidecarDefaultHosts} : WriteSidecar(hosts)
  /\ UNCHANGED <<zkVars, adapterVars, accessorVars, pods, queued, granted, troubles, causes>>

\* The first pods of the application start; no controller watches them.
StartPods ==
  /\ ~pods
  /\ Trouble
  /\ pods' = TRUE
  /\ Cause("PodsLate")
  /\ UNCHANGED <<zkVars, adapterVars, accessorVars, sidecarVars, queued, granted, writes>>

-----------------------------------------------------------------------------
\* An adapter that ran before may have seen the application consume everything.
Init ==
  /\ consumes \in SUBSET Services
  /\ unread = Services
  /\ mapping = {}
  /\ pending = [s \in Services |-> 0]
  /\ channelOf \in Hashes
  /\ workers = [ch \in Channels |-> Idle]
  /\ \E hosts \in {None, Services} : accessor = [hosts |-> hosts, stamped |-> FALSE]
  /\ informer = Copy(accessor)
  /\ pods \in BOOLEAN
  /\ sidecar = IF pods /\ accessor.hosts # None THEN BuildSidecar(accessor.hosts) ELSE None
  /\ accessorCache = Copy(accessor)
  /\ sidecarCache = Copy(sidecar)
  /\ queued = TRUE
  /\ granted = {}
  /\ writes = 0
  /\ troubles = 0
  /\ causes = {}

Next ==
  \/ \E s \in Services : ChangeConsumers(s)
  \/ Adapter
  \/ \E ch \in Channels : RequestFails(ch)
  \/ Restart
  \/ SyncInformer
  \/ Deliver
  \/ Resync
  \/ Reconcile
  \/ DefaultSidecar
  \/ Stamp
  \/ Tamper
  \/ StartPods

\* Goroutines go on, watches deliver, and objects are listed anew from time to time.
\* Nothing obliges ZooKeeper, the ConfiguredService controller or anybody else to act.
Fairness ==
  /\ WF_vars(Adapter)
  /\ WF_vars(SyncInformer)
  /\ WF_vars(Deliver)
  /\ WF_vars(Resync)
  /\ WF_vars(Reconcile)

Spec == Init /\ [][Next]_vars /\ Fairness

-----------------------------------------------------------------------------
(* Properties *)

\* The type invariant.
TypeOK ==
  /\ {consumes, unread, mapping, granted} \subseteq SUBSET Services
  /\ pending \in [Services -> Nat]
  /\ channelOf \in Hashes
  /\ workers \in [Channels -> Workers]
  /\ accessor \in Accessors
  /\ {informer, accessorCache} \subseteq Copies(Accessors)
  /\ sidecar \in SidecarHosts
  /\ sidecarCache \in Copies(SidecarHosts)
  /\ {pods, queued} \subseteq BOOLEAN
  /\ {writes, troubles} \subseteq Nat
  /\ causes \subseteq {"AlreadyExists", "OldCopy", "RetriesUsedUp", "RequestFailed",
                       "Restarted", "MapRace", "PodsLate"}

Lost == causes \cap {"AlreadyExists", "OldCopy", "RetriesUsedUp", "RequestFailed"} # {}

\* An application keeps the hosts it was given: although the events are handled in any
\* order, the ServiceAccessor never loses a host that this process wrote, if one worker
\* does all the writes.
HostsKept == OneChannel /\ granted # {} => granted \subseteq accessor.hosts

AdapterQuiet ==
  /\ unread = {}
  /\ \A s \in Services : pending[s] = 0
  /\ \A ch \in Channels : workers[ch] = Idle

\* When the adapter is done, the ServiceAccessor lists every service the application
\* consumes, if no request was lost: the last worker to write has read the mapping after
\* the last service was added to it.
SettledScopes ==
  AdapterQuiet /\ OneChannel /\ ~Lost /\ mapping # {} =>
    accessor.hosts = mapping /\ consumes \subseteq mapping

\* When the controllers are done too, the Sidecar allows what the ServiceAccessor lists,
\* whoever created or changed it in between, without waiting for a resync.
SettledSidecar ==
  /\ ~queued /\ accessorCache.current /\ sidecarCache.current
  /\ pods /\ accessor # NoAccessor
  /\ causes \cap {"RequestFailed", "PodsLate"} = {}
  => sidecar = BuildSidecar(accessor.hosts)

\* In the end the application may call all that it consumes; of what goes wrong on the way
\* only a loss by the adapter, or two workers that overtake each other, is for good.
EventuallyReachable ==
  <>[](OneChannel /\ ~Lost /\ pods /\ consumes # {} =>
         sidecar # None /\ consumes \subseteq sidecar)
===============================================================================
