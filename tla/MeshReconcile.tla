----------------------------- MODULE MeshReconcile -----------------------------
(***************************************************************************)
(* How the ConfiguredService and the ServiceConfig of one service become   *)
(* Istio objects:                                                          *)
(*                                                                         *)
(*   ConfiguredService controller: a WorkloadEntry per instance, the       *)
(*     ServiceEntry and, while there is no ServiceConfig, the              *)
(*     DestinationRule and the VirtualService;                             *)
(*   ServiceConfig controller: the weights of the WorkloadEntries, the     *)
(*     DestinationRule and the VirtualService, and its own status;         *)
(*   MeshConfig controller: writes the generation of the MeshConfig into   *)
(*     the two, which is what makes the other controllers run again.       *)
(*                                                                         *)
(* The three run in one process.  They write to the API server and read    *)
(* from one cache that follows it object by object, with no order between  *)
(* the objects, and each has one worker and a work queue that holds the    *)
(* service at most once.  A cached copy that is not the newest one makes   *)
(* an update fail with a conflict.                                         *)
(*                                                                         *)
(* A Reconcile is two steps, one up to the routes and one from there.      *)
(* Within a step all copies are read and all writes are made at once: as   *)
(* a copy may be old at any time, reading it earlier or later gives no     *)
(* other outcome, and a write disturbed half-way is one of the outcomes.   *)
(* A cached copy jumps to the newest version, as the work queue merges     *)
(* what is announced in between.  The labels that make subsets are among   *)
(* the workloadEntryLabelKeys, as in the sample configuration.             *)
(*                                                                         *)
(* controllers/configuredservice, controllers/serviceconfig,               *)
(* controllers/meshconfig                                                  *)
(***************************************************************************)
EXTENDS Naturals, FiniteSets

CONSTANTS
  Instances,      \* host and port of the instances that can be registered
  Groups,         \* the subsets of the MeshConfig an instance can belong to
  MaxTroubles,    \* bound: changes made from outside, and requests to the API server
                  \* that fail by themselves, together
  None            \* stands for an object that does not exist, and for no run

\* The DestinationRule and the VirtualService, which both controllers treat alike and
\* one after the other, are followed as one object, the routes.
Objects == Instances \cup {"se", "routes"}
Controllers == {"cs", "sc", "mesh"}
Names == Controllers \cup Objects

ASSUME MeshReconcileAssumption ==
  /\ MaxTroubles \in Nat
  /\ Instances \cap ({"se", "routes"} \cup Controllers) = {}

VARIABLES
  store,      \* what the API server holds under a name
  cache,      \* what Get and List return
  stale,      \* the names whose cached copy is not the newest one
  queue,      \* the controllers with work in their queue
  csRun,      \* what the ConfiguredService controller has still to do, or None
  scRun,      \* what the ServiceConfig controller has still to do, or None
  troubles,   \* see MaxTroubles
  missed      \* history: what happened and woke no controller, see SettledInSync

kubeVars == <<store, cache, stale>>
runVars == <<csRun, scRun>>
vars == <<kubeVars, queue, runVars, troubles, missed>>

-----------------------------------------------------------------------------
(* Objects *)

\* An instance that is not registered has no group.
Services == [uid : Nat, group : [Instances -> Groups \cup {None}], gen : Nat]
\* The weight stands for the whole configuration.
Configs == [uid : Nat, weight : Nat, gen : Nat,
            phase : {"", "Undistributed", "Distributing", "Distributed"}]

\* The objects made of them, by name, and what the two controllers with a run in two steps
\* remember in between.
WorkloadEntries == [mesh : Nat, group : Groups, weight : Nat]
Routes == [form : {"cs", "sc"}, mesh : Nat, subsets : SUBSET Groups, weight : Nat]
ObjectsOf(n) ==
  CASE n \in Instances -> [owner : {"cs"}, uid : Nat, spec : WorkloadEntries]
    [] n = "se"        -> [owner : {"cs"}, uid : Nat, spec : {"StaticMeshInternal"}]
    [] n = "routes"    -> [owner : {"cs", "sc"}, uid : Nat, spec : Routes]
CsRuns == [cs : Services, mesh : Nat]
ScRuns == [sc : Configs, mesh : Nat]

\* None is something else.
ASSUME NoneAssumption ==
  /\ None \notin Groups
  /\ None \notin Services /\ None \notin Configs
  /\ None \notin CsRuns /\ None \notin ScRuns
  /\ \A n \in Objects : None \notin ObjectsOf(n)

Registered(s) == {i \in Instances : s.group[i] # None}

\* getSubset: the subsets that some instance belongs to
Subsets(s) == IF s = None THEN {} ELSE {s.group[i] : i \in Registered(s)}

\* What the builders make of a ConfiguredService s or a ServiceConfig c under the
\* MeshConfig of version m.  The group of an instance is a label of its WorkloadEntry
\* (workloadEntryLabelKeys), and buildWorkloadEntry leaves the weight out.
Owned(kind, o, spec) == [owner |-> kind, uid |-> o.uid, spec |-> spec]
WorkloadEntry(s, i, m, w) == [mesh |-> m, group |-> s.group[i], weight |-> w]
ServiceEntry == "StaticMeshInternal"
CsRoute(s, m) == [form |-> "cs", mesh |-> m, subsets |-> Subsets(s), weight |-> 0]
ScRoute(c, s, m) == [form |-> "sc", mesh |-> m, subsets |-> Subsets(s), weight |-> c.weight]

Exists(n) == store[n] # None

-----------------------------------------------------------------------------
(* The API server and the cache *)

\* Mutant of Write: the watches do not announce the change.
WriteUnannounced(n, v) ==
  /\ store' = [store EXCEPT ![n] = v]
  /\ stale' = stale

\* A request that changes nothing gives no new version.
Write(n, v) ==
  /\ store' = [store EXCEPT ![n] = v]
  /\ stale' = IF store[n] = v THEN stale ELSE stale \cup {n}

\* The ConfiguredService controller listens to the objects it owns, but its event filter
\* drops their creation.  (old and new None: what was created is gone already.)
CsHears(old, new) ==
  \/ old = None /\ new = None
  \/ old # None /\ "cs" \in {o.owner : o \in {old, new} \ {None}}

\* Mutant of Woken: the ServiceConfig controller does not hear of what the other owns.
WokenByOwner(n, old, new) ==
  IF n \in Controllers THEN {n}
  ELSE IF CsHears(old, new) THEN {"cs"}
  ELSE IF \E o \in {old, new} \ {None} : o.owner = "sc" THEN {"sc"} ELSE {}

\* The watches of SetupWithManager.  The ServiceConfig controller listens to the objects
\* of both owners.
Woken(n, old, new) ==
  IF n \in Controllers THEN {n}
  ELSE IF CsHears(old, new) THEN {"cs", "sc"} ELSE {"sc"}

\* The cache receives the newest version of an object.
Sync(n) ==
  /\ n \in stale
  /\ stale' = stale \ {n}
  /\ cache' = [cache EXCEPT ![n] = store[n]]
  /\ queue' = queue \cup Woken(n, cache[n], store[n])
  /\ UNCHANGED <<store, runVars, troubles, missed>>

\* The owner of the object is gone, or is another one of the same name.
Garbage(n) ==
  /\ n \in Objects /\ Exists(n)
  /\ ~(Exists(store[n].owner) /\ store[store[n].owner].uid = store[n].uid)

Collect ==
  LET garbage == {n \in Names : Garbage(n)}
  IN /\ garbage # {}
     /\ store' = [n \in Names |-> IF n \in garbage THEN None ELSE store[n]]
     /\ stale' = stale \cup garbage
     /\ UNCHANGED <<cache, queue, runVars, troubles, missed>>

\* Nothing is on its way, and no controller has work.
Settled ==
  /\ stale = {} /\ queue = {}
  /\ csRun = None /\ scRun = None
  /\ \A n \in Names : ~Garbage(n)

\* Mutant of Resync: the objects of the ConfiguredService are not announced.
ResyncConfigs ==
  /\ Settled
  /\ queue' = {"sc"}
  /\ missed' = {}
  /\ UNCHANGED <<kubeVars, runVars, troubles>>

\* Every SyncPeriod the cache announces all its objects again.  The MeshConfig
\* controller ignores updates that leave the generation as it was.  The period is so
\* long (two hours) that the system has settled.
Resync ==
  /\ Settled
  /\ queue' = {"cs", "sc"}
  /\ missed' = {}
  /\ UNCHANGED <<kubeVars, runVars, troubles>>

-----------------------------------------------------------------------------
(* Changes from outside *)

Trouble ==
  /\ troubles < MaxTroubles
  /\ troubles' = troubles + 1

Change(n, v) ==
  /\ Trouble
  /\ Write(n, v)
  /\ UNCHANGED <<cache, queue, runVars>>

\* The adapter replaces the whole Spec, MeshConfigGeneration included.
ReplaceInstances(group) ==
  /\ Change("cs", [uid |-> IF Exists("cs") THEN store["cs"].uid ELSE troubles + 1,
                   group |-> group, gen |-> 0])
  /\ UNCHANGED missed

ChangeConfigEntry(w) ==
  /\ Change("sc", [uid |-> IF Exists("sc") THEN store["sc"].uid ELSE troubles + 1,
                   weight |-> w, gen |-> 0,
                   phase |-> IF Exists("sc") THEN store["sc"].phase ELSE ""])
  /\ UNCHANGED missed

DeleteService ==
  /\ Exists("cs")
  /\ Change("cs", None)
  /\ UNCHANGED missed

\* No watch of the ConfiguredService controller sees a ServiceConfig go.
DeleteConfigEntry ==
  /\ Exists("sc")
  /\ Change("sc", None)
  /\ missed' = missed \cup {"ConfigDeleted"}

EditMeshConfig ==
  /\ Change("mesh", store["mesh"] + 1)
  /\ UNCHANGED missed

\* Somebody deletes the DestinationRule or the VirtualService by hand.
DeleteRoutes ==
  /\ Exists("routes")
  /\ Change("routes", None)
  /\ UNCHANGED missed

-----------------------------------------------------------------------------
(* What the reconcilers have in common *)

\* What the cache has is what was built.
Current(n, spec) == cache[n] # None /\ cache[n].spec = spec

\* Creates what the cache does not have, "AlreadyExists" counting as done, and updates
\* what differs.
Applied(n, same, created, spec) ==
  CASE cache[n] = None /\ ~Exists(n) -> created
    [] cache[n] # None /\ ~same      -> [cache[n] EXCEPT !.spec = spec]
    [] OTHER                         -> store[n]

Conflicts(n, same) == cache[n] # None /\ ~same /\ n \in stale

\* The writes f of one step of a Reconcile: all of them, or those before the first that
\* fails, and then the request is in the queue again.  Those of "refused" do fail.
Writes(f, refused, done, inOrder) ==
  /\ done \cap refused = {} /\ inOrder
  /\ store' = [n \in Names |-> IF n \in done THEN f[n] ELSE store[n]]
  /\ stale' = stale \cup {n \in done : f[n] # store[n]}
  /\ IF done = DOMAIN f \/ refused # {} THEN UNCHANGED troubles
     ELSE Trouble

\* The ConfiguredService controller passes over an object the cache does not have yet,
\* and its event filter drops the creation.
Overlooks(done) ==
  missed' = IF \E n \in done : cache[n] = None /\ Exists(n)
            THEN missed \cup {"CreationUnseen"} ELSE missed

-----------------------------------------------------------------------------
(* ConfiguredService controller *)

InstanceWeight == IF cache["sc"] = None THEN 0 ELSE cache["sc"].weight

\* Mutant of CsWorkloadEntry: the update does not put the weight back in.
CsWorkloadEntryUnweighted(s, i) ==
  LET built == WorkloadEntry(s, i, cache["mesh"], 0)
  IN Applied(i, Current(i, built), Owned("cs", s, built), built)

\* Comparing two WorkloadEntries includes the weight, which the new one lacks: an entry
\* with a weight is written on every run, and a new one is created without.
CsWorkloadEntry(s, i) ==
  LET built == WorkloadEntry(s, i, cache["mesh"], 0)
  IN Applied(i, Current(i, built), Owned("cs", s, built),
             [built EXCEPT !.weight = InstanceWeight])

CsServiceEntry(s) == Applied("se", TRUE, Owned("cs", s, ServiceEntry), ServiceEntry)

CsDefaultRoutes(s, spec) == Applied("routes", Current("routes", spec), Owned("cs", s, spec), spec)

\* An update with an old copy is a conflict, the deletion of what is gone an error.
CsRefused(s) ==
  {i \in Instances :
     IF i \in Registered(s)
     THEN Conflicts(i, Current(i, WorkloadEntry(s, i, cache["mesh"], 0)))
     ELSE cache[i] # None /\ ~Exists(i)}

\* The Get of the ServiceConfig found none.
Unconfigured == cache["sc"] = None

\* Reconcile up to the Get of the ServiceConfig: the WorkloadEntries of the registered
\* instances, the deletion of the others, the ServiceEntry.
CsReconcile ==
  LET s == cache["cs"]
      f == [n \in Instances \cup {"se"} |->
              CASE n = "se"            -> CsServiceEntry(s)
                [] n \in Registered(s) -> CsWorkloadEntry(s, n)
                [] OTHER               -> IF cache[n] = None THEN store[n] ELSE None]
  IN /\ csRun = None /\ "cs" \in queue /\ s # None
     /\ \E done \in SUBSET DOMAIN f :
          /\ queue' = IF done = DOMAIN f THEN queue \ {"cs"} ELSE queue
          /\ Writes(f, CsRefused(s), done, "se" \in done => Instances \subseteq done)
          /\ csRun' = IF done = DOMAIN f /\ Unconfigured
                      THEN [cs |-> s, mesh |-> cache["mesh"]] ELSE None
          /\ Overlooks(done \ {"se"})
     /\ UNCHANGED <<cache, scRun>>

\* Then the routes, as there is no ServiceConfig.  A service without subsets keeps the
\* routes it has.
CsRoutes ==
  LET s == csRun.cs
      spec == CsRoute(s, csRun.mesh)
      wanted == IF Subsets(s) = {} THEN {} ELSE {"routes"}
      f == [n \in wanted |-> CsDefaultRoutes(s, spec)]
  IN /\ csRun # None
     /\ \E done \in SUBSET DOMAIN f :
          /\ queue' = IF done = DOMAIN f THEN queue ELSE queue \cup {"cs"}
          /\ Writes(f, {n \in wanted : Conflicts(n, Current(n, spec))}, done, TRUE)
          /\ Overlooks(done)
     /\ csRun' = None
     /\ UNCHANGED <<cache, scRun>>

-----------------------------------------------------------------------------
(* ServiceConfig controller *)

\* The weights of the entries the cache has, whatever they were.
ScWorkloadEntries(c) ==
  [i \in {j \in Instances : cache[j] # None} |-> [cache[i] EXCEPT !.spec.weight = c.weight]]

ScReconcile ==
  LET c == cache["sc"]
      f == ScWorkloadEntries(c)
  IN /\ scRun = None /\ "sc" \in queue /\ c # None
     /\ \E done \in SUBSET DOMAIN f :
          /\ queue' = IF done = DOMAIN f THEN queue \ {"sc"} ELSE queue
          /\ Writes(f, {i \in DOMAIN f : i \in stale}, done, TRUE)
          /\ scRun' = IF done = DOMAIN f THEN [sc |-> c, mesh |-> cache["mesh"]] ELSE None
     /\ UNCHANGED <<cache, csRun, missed>>

\* What the status counts: how many there should be, and how many the cache has.
Status(desired, counted) ==
  [desired |-> desired, distributed |-> Cardinality({n \in counted : cache[n] # None})]

ServiceEntryStatus == Status(1, {"se"})

WorkloadEntryStatus(s) ==
  LET wanted == IF s = None THEN {} ELSE Registered(s)
  IN Status(Cardinality(wanted), IF wanted = {} THEN {} ELSE Instances)

RoutesStatus(s) == IF Subsets(s) = {} THEN Status(0, {}) ELSE Status(1, {"routes"})

\* calcPhase compares sums, so that one entry too many makes up for a missing one.
Phase ==
  LET statuses == <<ServiceEntryStatus, WorkloadEntryStatus(cache["cs"]), RoutesStatus(cache["cs"])>>
      Sum(part) == statuses[1][part] + statuses[2][part] + statuses[3][part]
  IN IF Sum("distributed") = 0 THEN "Undistributed"
     ELSE IF Sum("distributed") = Sum("desired") THEN "Distributed" ELSE "Distributing"

ScRoutesApplied(c, spec) == Applied("routes", Current("routes", spec), Owned("sc", c, spec), spec)

\* (Where the code reads the ServiceConfig again after a conflict, here the next run does.)
ScStatus == [cache["sc"] EXCEPT !.phase = Phase]

\* A WorkloadEntry is there to stay, and its event was delivered: it will not wake the
\* controller when it belongs to a subset again.
Lasting(i) == Exists(i) /\ i \notin stale /\ ~Garbage(i)

\* Then the routes, unless the service has no subsets, and the status.
ScRoutes ==
  LET c == scRun.sc
      s == cache["cs"]
      spec == ScRoute(c, s, scRun.mesh)
      wanted == (IF Subsets(s) = {} THEN {} ELSE {"routes"})
                  \cup (IF cache["sc"] = None \/ c.phase = Phase THEN {} ELSE {"sc"})
      f == [n \in wanted |-> IF n = "sc" THEN ScStatus ELSE ScRoutesApplied(c, spec)]
  IN /\ scRun # None
     /\ \E done \in SUBSET DOMAIN f :
          /\ queue' = IF done = DOMAIN f THEN queue ELSE queue \cup {"sc"}
          /\ Writes(f, {n \in wanted : Conflicts(n, n = "routes" /\ Current(n, spec))}, done,
                    "sc" \in done => wanted \subseteq done)
     /\ scRun' = None
     /\ missed' = IF Subsets(s) = {} /\ \E i \in Instances : Lasting(i)
                  THEN missed \cup {"SubsetsUnseen"} ELSE missed
     /\ UNCHANGED <<cache, csRun>>

-----------------------------------------------------------------------------
(* The MeshConfig controller, and requests for what is gone *)

\* Writes the generation of the MeshConfig into both.  On a conflict the variable that
\* holds it is read again, so that the next attempt writes back what is there: the stamp
\* is lost.  An error is logged, and that is all.
MeshConfigReconcile ==
  LET due == {n \in {"sc", "cs"} : cache[n] # None /\ cache[n].gen # cache["mesh"]}
  IN /\ "mesh" \in queue
     /\ queue' = queue \ {"mesh"}
     /\ \E done \in SUBSET (due \ stale) :
          /\ store' = [n \in Names |-> IF n \in done THEN [store[n] EXCEPT !.gen = cache["mesh"]]
                                       ELSE store[n]]
          /\ stale' = stale \cup done
          /\ IF done = due \ stale THEN UNCHANGED <<troubles, missed>>
             ELSE /\ Trouble
                  /\ missed' = missed \cup {"StampFailed"}
     /\ UNCHANGED <<cache, csRun, scRun>>

\* Not found: nothing is done.
Skip(controller) ==
  /\ controller \in queue /\ cache[controller] = None
  /\ controller = "cs" => csRun = None
  /\ controller = "sc" => scRun = None
  /\ queue' = queue \ {controller}
  /\ UNCHANGED <<kubeVars, csRun, scRun, troubles, missed>>

ConfiguredServiceController == CsReconcile \/ CsRoutes \/ Skip("cs")
ServiceConfigController == ScReconcile \/ ScRoutes \/ Skip("sc")
MeshConfigController == MeshConfigReconcile

-----------------------------------------------------------------------------
(* Specification *)

\* What the objects should be, given the ConfiguredService s, the ServiceConfig c and
\* the version m of the MeshConfig.
WeightOf(c) == IF c = None THEN 0 ELSE c.weight
Target(s, c, m) ==
  [n \in Objects |->
     IF s = None THEN None
     ELSE CASE n \in Instances -> IF s.group[n] = None THEN None
                                  ELSE Owned("cs", s, WorkloadEntry(s, n, m, WeightOf(c)))
            [] n = "se" -> Owned("cs", s, ServiceEntry)
            [] n = "routes" -> IF Subsets(s) = {} THEN None
                               ELSE IF c = None THEN Owned("cs", s, CsRoute(s, m))
                               ELSE Owned("sc", c, ScRoute(c, s, m))]

\* At first everything is in order: the service has its instances, and perhaps a
\* configuration of weight 1.
Init ==
  \E group \in [Instances -> Groups], hasConfig \in BOOLEAN :
    LET s == [uid |-> 0, group |-> group, gen |-> 1]
        c == IF hasConfig THEN [uid |-> 0, weight |-> 1, gen |-> 1, phase |-> "Distributed"]
             ELSE None
    IN /\ store = [n \in Names |-> CASE n = "cs" -> s [] n = "sc" -> c [] n = "mesh" -> 1
                                     [] OTHER -> Target(s, c, 1)[n]]
       /\ cache = store /\ stale = {} /\ queue = {}
       /\ csRun = None /\ scRun = None
       /\ troubles = 0 /\ missed = {}

Environment ==
  \/ \E group \in [Instances -> Groups \cup {None}] : ReplaceInstances(group)
  \/ ChangeConfigEntry(2)
  \/ DeleteService \/ DeleteConfigEntry \/ EditMeshConfig \/ DeleteRoutes

Deliver == \E n \in Objects : Sync(n)
Work == ConfiguredServiceController \/ ServiceConfigController \/ MeshConfigController

Next ==
  \/ Environment
  \/ \E n \in Names : Sync(n)
  \/ Collect \/ Resync \/ Work

\* The watch of each of the controllers' own objects delivers; of the Istio objects,
\* something is delivered while there is something to deliver.  Of all the rest - the
\* workers, the garbage collector and the periodic announcement - it is enough that one of
\* them goes on while one of them can.
Fairness ==
  /\ \A n \in Controllers : WF_vars(Sync(n))
  /\ WF_vars(Deliver)
  /\ WF_vars(Collect \/ Resync \/ Work)

Spec == Init /\ [][Next]_vars /\ Fairness

-----------------------------------------------------------------------------
(* Properties *)

\* The variables have their types, and a copy that is not stale is the newest one.
TypeOK ==
  /\ DOMAIN store = Names /\ DOMAIN cache = Names
  /\ \A f \in {store, cache} :
       /\ f["cs"] \in Services \cup {None}
       /\ f["sc"] \in Configs \cup {None}
       /\ f["mesh"] \in Nat
       /\ \A n \in Objects : f[n] \in ObjectsOf(n) \cup {None}
  /\ stale \subseteq Names /\ \A n \in Names \ stale : cache[n] = store[n]
  /\ queue \subseteq Controllers
  /\ csRun \in CsRuns \cup {None}
  /\ scRun \in ScRuns \cup {None}
  /\ troubles \in Nat
  /\ missed \subseteq {"ConfigDeleted", "StampFailed", "CreationUnseen", "SubsetsUnseen"}

\* Does the object look as it should, but for the subsets if "loosely"?
Matches(n, loosely) ==
  LET wanted == Target(store["cs"], store["sc"], store["mesh"])[n]
  IN IF wanted = None \/ ~Exists(n) THEN store[n] = wanted
     ELSE \/ store[n].spec = wanted.spec
          \/ loosely /\ [store[n].spec EXCEPT !.subsets = wanted.spec.subsets] = wanted.spec

WorkloadsInSync == \A n \in Instances \cup {"se"} : Matches(n, FALSE)
\* Nobody removes the routes of a service that lost its subsets.
RoutesInSync(loosely) == Subsets(store["cs"]) # {} => Matches("routes", loosely)

\* When everything has come to rest, the WorkloadEntries and the ServiceEntry are those of
\* the ConfiguredService under the current MeshConfig, with the weights of the
\* ServiceConfig, and the routes are those of the ServiceConfig, or the default ones if
\* there is none: whatever the order in which the controllers ran, with whatever copies,
\* and although the MeshConfig controller loses stamps.  That needs no resync unless the
\* ServiceConfig was deleted, a stamp failed, or a WorkloadEntry or a route was overlooked
\* as the cache did not have it yet.  The routes of a ServiceConfig may show old subsets,
\* as its controller does not listen to the ConfiguredService itself; and they may be
\* missing or old altogether if it saw a service without instances, in passing, whose
\* WorkloadEntries outlived that moment.
SettledInSync ==
  Settled /\ missed = {} => WorkloadsInSync /\ RoutesInSync(Exists("sc"))

\* Once changes and failures stop, the Istio objects become what they should be and stay
\* so, also after what woke no controller, as all are announced again; and the phase of
\* the ServiceConfig tells whether its service has them all.
InSync ==
  /\ WorkloadsInSync /\ RoutesInSync(FALSE)
  /\ Exists("sc") => (store["sc"].phase = "Distributed" <=> Exists("cs"))
EventuallyInSync == <>[]InSync

\* Once changes and failures stop, the controllers stop writing: the two that write the
\* same WorkloadEntries and routes do not undo each other's work for ever.
ComesToRest == <>[][FALSE]_store
=============================================================================
