-------------------------- MODULE MeshReconcileProofs --------------------------
(***************************************************************************)
(* The safety properties of MeshReconcile, for any instances and groups,   *)
(* and any number of changes, failures and conflicts.                      *)
(***************************************************************************)
EXTENDS MeshReconcile, TLAPS

\* What will make the controllers run: a request in the queue, an announcement under way,
\* or, after what woke nobody, the next resync.
CsPending == "cs" \in queue \/ "cs" \in stale \/ missed # {}
ScPending == "sc" \in queue \/ "sc" \in stale \/ missed # {}
MeshPending == "mesh" \in queue \/ "mesh" \in stale

\* The delivery of n will wake the ConfiguredService controller.
Announced(n) == n \in stale /\ CsHears(cache[n], store[n])

\* The copies of the MeshConfig only go forward, and no object has a stamp of its future:
\* while the MeshConfig controller has work, all stamps are old.
StampsOf(f) ==
  \A n \in {"cs", "sc"} : f[n] # None =>
    /\ f[n].gen <= cache["mesh"]
    /\ "mesh" \in queue => f[n].gen < cache["mesh"]
Stamps ==
  /\ 0 < cache["mesh"] /\ cache["mesh"] <= store["mesh"]
  /\ "mesh" \in stale => cache["mesh"] < store["mesh"]
  /\ StampsOf(store) /\ StampsOf(cache)

\* A uid is the number of the change that made it.
UidsOf(f) == \A n \in Instances \cup {"cs"} : f[n] # None => f[n].uid <= troubles
Uids == UidsOf(store) /\ UidsOf(cache)

\* What a controller remembers from its first step is what the cache has, or it will run
\* again.
RunsFit ==
  /\ csRun # None =>
       /\ CsPending \/ csRun.cs = cache["cs"]
       /\ CsPending \/ MeshPending \/ csRun.mesh = cache["mesh"]
  /\ scRun # None =>
       /\ ScPending \/ scRun.sc = cache["sc"]
       /\ ScPending \/ MeshPending \/ scRun.mesh = cache["mesh"]

\* Without a ServiceConfig nothing is left of one, but after a deletion that woke nobody.
Without ==
  (store["sc"] = None \/ cache["sc"] = None) /\ missed = {} =>
    /\ cache["sc"] = None /\ scRun = None
    /\ Exists("routes") => store["routes"].owner = "cs"
    /\ cache["routes"] # None => cache["routes"].owner = "cs"

\* The WorkloadEntries, but for their weights, and the ServiceEntry are there, as the
\* cached copies have it.
Right(n) ==
  IF n = "se" THEN Exists(n)
  ELSE IF cache["cs"].group[n] = None THEN ~Exists(n)
  ELSE /\ Exists(n)
       /\ store[n].spec.mesh = cache["mesh"]
       /\ store[n].spec.group = cache["cs"].group[n]
EntriesFollow ==
  cache["cs"] # None =>
    \/ CsPending \/ MeshPending
    \/ \A n \in Instances \cup {"se"} : Announced(n) \/ Right(n)

\* And the weights are those of the ServiceConfig, or none if there is none.
WeightsFollow ==
  cache["sc"] # None =>
    \/ ScPending
    \/ \A i \in Instances : i \notin stale /\ Exists(i) =>
         store[i].spec.weight = cache["sc"].weight
NoWeights ==
  cache["cs"] # None /\ cache["sc"] = None =>
    \/ CsPending
    \/ \A i \in Instances : Exists(i) => Announced(i) \/ store[i].spec.weight = 0

\* The default routes are there if there is no ServiceConfig, or will be.
CsRight == Exists("routes") /\ store["routes"].spec = CsRoute(cache["cs"], cache["mesh"])
DefaultRoutesFollow ==
  cache["cs"] # None /\ cache["sc"] = None /\ Subsets(cache["cs"]) # {} =>
    CsPending \/ MeshPending \/ csRun # None \/ Announced("routes") \/ CsRight

\* Those of a ServiceConfig are there, but for the subsets, unless there is nothing to
\* route to: a WorkloadEntry that is yet to come will wake its controller.
ScRight ==
  /\ Exists("routes")
  /\ store["routes"].spec.form = "sc"
  /\ store["routes"].spec.mesh = cache["mesh"]
  /\ store["routes"].spec.weight = cache["sc"].weight
RoutesFollow ==
  cache["sc"] # None =>
    \/ ScPending \/ MeshPending \/ scRun # None \/ "routes" \in stale
    \/ ScRight
    \/ \A i \in Instances : ~Lasting(i)

\* The inductive invariant.
IInv ==
  /\ TypeOK
  /\ Stamps
  /\ Uids
  /\ RunsFit
  /\ Without
  /\ EntriesFollow
  /\ WeightsFollow
  /\ NoWeights
  /\ DefaultRoutesFollow
  /\ RoutesFollow

-----------------------------------------------------------------------------
(* Objects *)

\* The names are different ones.
LEMMA NameFacts ==
  /\ \A n \in Objects : n \notin Controllers
  /\ \A i \in Instances : i \notin {"se", "routes", "cs", "sc", "mesh"}
  /\ Names = Instances \cup {"se", "routes", "cs", "sc", "mesh"}
  /\ Objects = Instances \cup {"se", "routes"}
  BY MeshReconcileAssumption DEF Names, Objects, Controllers

\* The objects of the three kinds.
LEMMA ObjectFacts ==
  /\ \A i \in Instances : ObjectsOf(i) = [owner : {"cs"}, uid : Nat, spec : WorkloadEntries]
  /\ ObjectsOf("se") = [owner : {"cs"}, uid : Nat, spec : {"StaticMeshInternal"}]
  /\ ObjectsOf("routes") = [owner : {"cs", "sc"}, uid : Nat, spec : Routes]
<1>1. \A i \in Instances : i \notin {"se", "routes"}
  BY NameFacts
<1>2. "se" \notin Instances /\ "routes" \notin Instances
  BY NameFacts
<1>3. ASSUME NEW i \in Instances
      PROVE  ObjectsOf(i) = [owner : {"cs"}, uid : Nat, spec : WorkloadEntries]
  BY <1>1, <1>3 DEF ObjectsOf
<1>4. QED
  BY <1>2, <1>3 DEF ObjectsOf

\* An object is of its owner, and is what it was built to be.
LEMMA OwnedFacts ==
  ASSUME NEW o, o.uid \in Nat, NEW kind \in {"cs", "sc"}, NEW spec
  PROVE  /\ Owned(kind, o, spec).owner = kind
         /\ Owned(kind, o, spec).uid = o.uid
         /\ Owned(kind, o, spec).spec = spec
         /\ kind = "cs" /\ spec \in WorkloadEntries =>
              \A i \in Instances : Owned(kind, o, spec) \in ObjectsOf(i)
         /\ kind = "cs" /\ spec = ServiceEntry => Owned(kind, o, spec) \in ObjectsOf("se")
         /\ spec \in Routes => Owned(kind, o, spec) \in ObjectsOf("routes")
<1>1. Owned(kind, o, spec) = [owner |-> kind, uid |-> o.uid, spec |-> spec]
  BY DEF Owned
<1>2. kind = "cs" /\ spec \in WorkloadEntries =>
        Owned(kind, o, spec) \in [owner : {"cs"}, uid : Nat, spec : WorkloadEntries]
  BY <1>1
<1>3. kind = "cs" /\ spec = ServiceEntry =>
        Owned(kind, o, spec) \in [owner : {"cs"}, uid : Nat, spec : {"StaticMeshInternal"}]
  BY <1>1 DEF ServiceEntry
<1>4. spec \in Routes =>
        Owned(kind, o, spec) \in [owner : {"cs", "sc"}, uid : Nat, spec : Routes]
  BY <1>1
<1>5. /\ Owned(kind, o, spec).owner = kind
      /\ Owned(kind, o, spec).uid = o.uid
      /\ Owned(kind, o, spec).spec = spec
  BY <1>1
<1>6. kind = "cs" /\ spec \in WorkloadEntries =>
        \A i \in Instances : Owned(kind, o, spec) \in ObjectsOf(i)
  BY <1>2, ObjectFacts, Zenon
<1>7. /\ kind = "cs" /\ spec = ServiceEntry => Owned(kind, o, spec) \in ObjectsOf("se")
      /\ spec \in Routes => Owned(kind, o, spec) \in ObjectsOf("routes")
  BY <1>3, <1>4, ObjectFacts, Zenon
<1>8. QED
  BY <1>5, <1>6, <1>7

\* What is known of an object.
LEMMA ObjectFields ==
  \A n \in Objects : \A x \in ObjectsOf(n) :
       /\ x # None /\ x.uid \in Nat /\ x.owner \in {"cs", "sc"}
       /\ n # "routes" => x.owner = "cs"
       /\ n \in Instances => x.spec \in WorkloadEntries
       /\ n = "se" => x.spec = ServiceEntry
       /\ n = "routes" => x.spec \in Routes
<1> SUFFICES ASSUME NEW n \in Objects, NEW x \in ObjectsOf(n)
             PROVE  /\ x # None /\ x.uid \in Nat /\ x.owner \in {"cs", "sc"}
                    /\ n # "routes" => x.owner = "cs"
                    /\ n \in Instances => x.spec \in WorkloadEntries
                    /\ n = "se" => x.spec = ServiceEntry
                    /\ n = "routes" => x.spec \in Routes
  OBVIOUS
<1>1. x # None
  BY NoneAssumption
<1>2. CASE n \in Instances
  <2>1. x \in [owner : {"cs"}, uid : Nat, spec : WorkloadEntries]
    BY <1>2, ObjectFacts, Zenon
  <2>2. x.owner = "cs" /\ x.uid \in Nat /\ x.spec \in WorkloadEntries
    BY ONLY <2>1
  <2>3. n # "se" /\ n # "routes"
    BY <1>2, NameFacts
  <2>4. QED
    BY <1>1, <2>2, <2>3
<1>3. CASE n = "se"
  <2>1. x \in [owner : {"cs"}, uid : Nat, spec : {"StaticMeshInternal"}]
    BY <1>3, ObjectFacts, Zenon
  <2>2. x.owner = "cs" /\ x.uid \in Nat /\ x.spec = "StaticMeshInternal"
    BY ONLY <2>1
  <2>3. n \notin Instances /\ n # "routes"
    BY <1>3, NameFacts
  <2>4. QED
    BY <1>1, <2>2, <2>3 DEF ServiceEntry
<1>4. CASE n = "routes"
  <2>1. x \in [owner : {"cs", "sc"}, uid : Nat, spec : Routes]
    BY <1>4, ObjectFacts, Zenon
  <2>2. x.owner \in {"cs", "sc"} /\ x.uid \in Nat /\ x.spec \in Routes
    BY ONLY <2>1
  <2>3. n \notin Instances /\ n # "se"
    BY <1>4, NameFacts
  <2>4. QED
    BY <1>1, <1>4, <2>2, <2>3
<1>5. QED
  BY <1>2, <1>3, <1>4, NameFacts

\* What TypeOK says, name by name.
LEMMA Types ==
  ASSUME TypeOK
  PROVE  /\ store["cs"] \in Services \cup {None} /\ cache["cs"] \in Services \cup {None}
         /\ store["sc"] \in Configs \cup {None} /\ cache["sc"] \in Configs \cup {None}
         /\ store["mesh"] \in Nat /\ cache["mesh"] \in Nat
         /\ \A n \in Objects : /\ store[n] \in ObjectsOf(n) \cup {None}
                               /\ cache[n] \in ObjectsOf(n) \cup {None}
         /\ stale \subseteq Names /\ \A n \in Names : n \notin stale => cache[n] = store[n]
  BY DEF TypeOK

\* And back.
LEMMA TypesSuffice ==
  ASSUME DOMAIN store = Names, DOMAIN cache = Names,
         store["cs"] \in Services \cup {None}, cache["cs"] \in Services \cup {None},
         store["sc"] \in Configs \cup {None}, cache["sc"] \in Configs \cup {None},
         store["mesh"] \in Nat, cache["mesh"] \in Nat,
         \A n \in Objects : /\ store[n] \in ObjectsOf(n) \cup {None}
                            /\ cache[n] \in ObjectsOf(n) \cup {None},
         stale \subseteq Names, \A n \in Names : n \notin stale => cache[n] = store[n],
         queue \subseteq Controllers,
         csRun \in CsRuns \cup {None}, scRun \in ScRuns \cup {None},
         troubles \in Nat,
         missed \subseteq {"ConfigDeleted", "StampFailed", "CreationUnseen", "SubsetsUnseen"}
  PROVE  TypeOK
  BY DEF TypeOK

\* The controller that owns an object hears of its changes, but not of its creation.
LEMMA Hearing ==
  ASSUME NEW old, NEW new
  PROVE  /\ old # None /\ old.owner = "cs" => CsHears(old, new)
         /\ old = None /\ new = None => CsHears(old, new)
         /\ old = None /\ new # None => ~CsHears(old, new)
  BY DEF CsHears

\* Everything that is not a controller wakes the ServiceConfig controller.
LEMMA Waking ==
  ASSUME NEW n, NEW old, NEW new
  PROVE  /\ n \in Controllers => Woken(n, old, new) = {n}
         /\ n \notin Controllers => "sc" \in Woken(n, old, new)
         /\ n \notin Controllers /\ CsHears(old, new) => "cs" \in Woken(n, old, new)
         /\ n \notin Controllers => Woken(n, old, new) \subseteq {"cs", "sc"}
         /\ n # "mesh" => "mesh" \notin Woken(n, old, new)
  BY DEF Woken

-----------------------------------------------------------------------------
(* The initial state *)

\* Initially everything is in order, and nothing is under way.
LEMMA InitIInv == Init => IInv
<1> SUFFICES ASSUME Init PROVE IInv
  OBVIOUS
<1> USE NameFacts, NoneAssumption
<1>1. PICK group \in [Instances -> Groups], hasConfig \in BOOLEAN :
        LET s == [uid |-> 0, group |-> group, gen |-> 1]
            c == IF hasConfig THEN [uid |-> 0, weight |-> 1, gen |-> 1, phase |-> "Distributed"]
                 ELSE None
        IN /\ store = [n \in Names |-> CASE n = "cs" -> s [] n = "sc" -> c [] n = "mesh" -> 1
                                         [] OTHER -> Target(s, c, 1)[n]]
           /\ cache = store /\ stale = {} /\ queue = {}
           /\ csRun = None /\ scRun = None
           /\ troubles = 0 /\ missed = {}
  BY DEF Init
<1> DEFINE s == [uid |-> 0, group |-> group, gen |-> 1]
           c == IF hasConfig THEN [uid |-> 0, weight |-> 1, gen |-> 1, phase |-> "Distributed"]
                ELSE None
<1>2. /\ store = [n \in Names |-> CASE n = "cs" -> s [] n = "sc" -> c [] n = "mesh" -> 1
                                    [] OTHER -> Target(s, c, 1)[n]]
      /\ cache = store /\ stale = {} /\ queue = {}
      /\ csRun = None /\ scRun = None
      /\ troubles = 0 /\ missed = {}
  BY <1>1
<1>3. /\ s \in Services /\ s # None /\ s.group = group /\ s.uid = 0 /\ s.gen = 1
      /\ \A i \in Instances : group[i] \in Groups /\ group[i] # None
  BY DEF Services
<1>4. /\ c \in Configs \cup {None}
      /\ c # None => c.uid = 0 /\ c.gen = 1 /\ c.weight = 1 /\ c \in Configs
      /\ WeightOf(c) \in Nat
      /\ c = None => WeightOf(c) = 0
      /\ c # None => WeightOf(c) = c.weight
  BY DEF Configs, WeightOf
<1> HIDE DEF s, c
<1>5. /\ DOMAIN store = Names
      /\ store["cs"] = s /\ store["sc"] = c /\ store["mesh"] = 1
      /\ \A n \in Objects : store[n] = Target(s, c, 1)[n]
  BY <1>2 DEF Controllers
<1>6. /\ \A i \in Instances :
           store[i] = Owned("cs", s, WorkloadEntry(s, i, 1, WeightOf(c)))
      /\ store["se"] = Owned("cs", s, ServiceEntry)
      /\ store["routes"] = IF Subsets(s) = {} THEN None
                           ELSE IF c = None THEN Owned("cs", s, CsRoute(s, 1))
                           ELSE Owned("sc", c, ScRoute(c, s, 1))
  BY <1>3, <1>5 DEF Target
<1>7. Subsets(s) \subseteq Groups
  BY <1>3 DEF Subsets, Registered
<1>8. \A i \in Instances :
        /\ store[i] \in ObjectsOf(i)
        /\ store[i].spec.mesh = 1 /\ store[i].spec.group = group[i]
        /\ store[i].spec.weight = WeightOf(c)
        /\ store[i].uid = 0
  <2> SUFFICES ASSUME NEW i \in Instances
               PROVE  /\ store[i] \in ObjectsOf(i)
                      /\ store[i].spec.mesh = 1 /\ store[i].spec.group = group[i]
        /\ store[i].spec.weight = WeightOf(c)
                      /\ store[i].uid = 0
    OBVIOUS
  <2>1. WorkloadEntry(s, i, 1, WeightOf(c))
          = [mesh |-> 1, group |-> group[i], weight |-> WeightOf(c)]
    BY <1>3 DEF WorkloadEntry
  <2>2. WorkloadEntry(s, i, 1, WeightOf(c)) \in WorkloadEntries
    BY <1>3, <1>4, <2>1 DEF WorkloadEntries
  <2>3. QED
    BY <1>3, <1>6, <2>1, <2>2, OwnedFacts
<1>9. /\ store["se"] \in ObjectsOf("se")
      /\ store["routes"] \in ObjectsOf("routes") \cup {None}
      /\ store["routes"] # None => IF c = None
           THEN store["routes"].owner = "cs" /\ store["routes"].spec = CsRoute(s, 1)
           ELSE store["routes"].spec = ScRoute(c, s, 1)
      /\ Subsets(s) # {} => store["routes"] # None
  <2>1. store["se"] \in ObjectsOf("se")
    BY <1>3, <1>6, OwnedFacts
  <2>2. CsRoute(s, 1) \in Routes
    BY <1>7 DEF CsRoute, Routes
  <2>3. c # None => ScRoute(c, s, 1) \in Routes
    BY <1>4, <1>7 DEF ScRoute, Routes
  <2>4. /\ Owned("cs", s, CsRoute(s, 1)) \in ObjectsOf("routes")
        /\ Owned("cs", s, CsRoute(s, 1)).owner = "cs"
        /\ Owned("cs", s, CsRoute(s, 1)).spec = CsRoute(s, 1)
    BY <1>3, <2>2, OwnedFacts
  <2>5. c # None =>
          /\ Owned("sc", c, ScRoute(c, s, 1)) \in ObjectsOf("routes")
          /\ Owned("sc", c, ScRoute(c, s, 1)).spec = ScRoute(c, s, 1)
    <3>1. c # None => c.uid \in Nat
      BY <1>4
    <3>2. QED
      BY <2>3, <3>1, OwnedFacts
  <2>6. \A x \in ObjectsOf("routes") : x # None
    BY ObjectFields
  <2>7. QED
    BY <1>6, <2>1, <2>4, <2>5, <2>6
<1>10. TypeOK
  <2>1. \A n \in Objects : store[n] \in ObjectsOf(n) \cup {None}
    BY <1>8, <1>9
  <2>2. QED
    BY <1>2, <1>3, <1>4, <1>5, <2>1, TypesSuffice
<1>11. Stamps
  BY <1>2, <1>3, <1>4, <1>5 DEF Stamps, StampsOf
<1>12. Uids
  <2>1. UidsOf(store)
    BY <1>2, <1>3, <1>5, <1>8 DEF UidsOf
  <2>2. QED
    BY <1>2, <2>1 DEF Uids
<1>13. RunsFit /\ Without
  BY <1>2, <1>5, <1>9 DEF RunsFit, Without, Exists
<1>14. \A n \in Instances \cup {"se"} : Exists(n)
  <2>1. \A i \in Instances : store[i] # None
    BY <1>8, ObjectFields
  <2>2. store["se"] # None
    BY <1>9, ObjectFields
  <2>3. QED
    BY <2>1, <2>2 DEF Exists
<1>15. EntriesFollow
  <2>1. \A i \in Instances :
          cache["cs"].group[i] = group[i] /\ group[i] # None /\ cache["mesh"] = 1
          /\ store[i].spec.mesh = 1 /\ store[i].spec.group = group[i]
    BY <1>2, <1>3, <1>5, <1>8
  <2>2. QED
    BY <1>14, <2>1 DEF EntriesFollow, Right
<1>16. WeightsFollow /\ NoWeights
  <2>1. \A i \in Instances : store[i].spec.weight = WeightOf(c)
    BY <1>8
  <2>2. QED
    BY <1>2, <1>4, <1>5, <2>1 DEF WeightsFollow, NoWeights
<1>17. DefaultRoutesFollow
  BY <1>2, <1>5, <1>9 DEF DefaultRoutesFollow, CsRight, Exists
<1>18. RoutesFollow
  <2>1. CASE Subsets(s) = {}
    <3>1. Instances = {}
      BY <1>3, <2>1 DEF Subsets, Registered
    <3>2. QED
      BY <3>1 DEF RoutesFollow
  <2>2. CASE Subsets(s) # {}
    BY <1>2, <1>5, <1>9, <2>2 DEF RoutesFollow, ScRight, Exists, ScRoute
  <2>3. QED
    BY <2>1, <2>2
<1>19. QED
  BY <1>10, <1>11, <1>12, <1>13, <1>15, <1>16, <1>17, <1>18 DEF IInv

-----------------------------------------------------------------------------
(* What a step that writes may do to each part of the invariant. *)

\* Objects are written, and the watches will announce what changed.
Writing ==
  /\ DOMAIN store' = Names /\ cache' = cache
  /\ stale \subseteq stale' /\ stale' \subseteq Names
  /\ \A n \in Names : store'[n] # store[n] => n \in stale'
  /\ missed \subseteq missed'

\* What was announced of the objects of the ConfiguredService still is, and changes of
\* those that the cache has are announced too.
LEMMA AnnouncedStays ==
  ASSUME TypeOK, Writing, NEW n \in Objects,
         cache[n] # None => cache[n].owner = "cs"
  PROVE  /\ store'[n] = store[n] /\ Announced(n) => Announced(n)'
         /\ store'[n] # store[n] => Announced(n)' \/ (cache[n] = None /\ store'[n] # None)
<1>1. n \in Names
  BY DEF Names
<1>2. n \in stale => n \in stale'
  BY DEF Writing
<1>3. CsHears(cache[n], store'[n]) \/ (cache[n] = None /\ store'[n] # None)
  BY Hearing
<1>4. store'[n] # store[n] => n \in stale'
  BY <1>1 DEF Writing
<1>5. cache'[n] = cache[n]
  BY DEF Writing
<1>6. QED
  BY <1>2, <1>3, <1>4, <1>5 DEF Announced

\* The runs go on, or end.
LEMMA RunsFitWritten ==
  ASSUME RunsFit, TypeOK, Writing,
         csRun' \in {csRun, None}, scRun' \in {scRun, None},
         csRun' # None /\ CsPending => CsPending',
         scRun' # None /\ ScPending => ScPending',
         MeshPending => MeshPending' \/ (/\ cache["cs"] # None => CsPending'
                                         /\ cache["sc"] # None => ScPending')
  PROVE  RunsFit'
<1>1. csRun # None => csRun.cs # None
  BY NoneAssumption DEF TypeOK, CsRuns
<1>2. scRun # None => scRun.sc # None
  BY NoneAssumption DEF TypeOK, ScRuns
<1>3. cache' = cache
  BY DEF Writing
<1>4. QED
  BY <1>1, <1>2, <1>3 DEF RunsFit

\* Entries that are created are the right ones.
LEMMA EntriesWritten ==
  ASSUME EntriesFollow, TypeOK, Writing,
         cache["cs"] # None =>
           /\ CsPending \/ MeshPending => CsPending' \/ MeshPending'
           /\ \A n \in Instances \cup {"se"} :
                store'[n] # store[n] /\ cache[n] = None /\ store'[n] # None
                  => CsPending' \/ Right(n)'
  PROVE  EntriesFollow'
<1> SUFFICES ASSUME cache["cs"] # None, ~CsPending', ~MeshPending',
                    NEW n \in Instances \cup {"se"}
             PROVE  Announced(n)' \/ Right(n)'
  BY DEF EntriesFollow, Writing
<1>1. Announced(n) \/ Right(n)
  BY DEF EntriesFollow
<1>2. n \in Objects /\ (cache[n] # None => cache[n].owner = "cs")
  BY Types, ObjectFields, NameFacts
<1>3. CASE store'[n] = store[n]
  BY <1>1, <1>2, <1>3, AnnouncedStays DEF Right, Exists, Writing
<1>4. CASE store'[n] # store[n]
  BY <1>2, <1>4, AnnouncedStays
<1>5. QED
  BY <1>3, <1>4

\* Entries that are changed are announced to the ServiceConfig controller.
LEMMA WeightsWritten ==
  ASSUME WeightsFollow, Writing,
         cache["sc"] # None /\ ScPending => ScPending'
  PROVE  WeightsFollow'
<1> SUFFICES ASSUME cache["sc"] # None, ~ScPending',
                    NEW i \in Instances, i \notin stale', Exists(i)'
             PROVE  store'[i].spec.weight = cache["sc"].weight
  BY DEF WeightsFollow, Writing
<1>1. i \in Names /\ store'[i] = store[i] /\ i \notin stale
  BY NameFacts DEF Writing
<1>2. QED
  BY <1>1 DEF WeightsFollow, Exists

\* Entries that are created have no weight.
LEMMA NoWeightsWritten ==
  ASSUME NoWeights, TypeOK, Writing,
         cache["cs"] # None /\ cache["sc"] = None =>
           /\ CsPending => CsPending'
           /\ \A i \in Instances :
                store'[i] # store[i] /\ cache[i] = None /\ store'[i] # None
                  => CsPending' \/ store'[i].spec.weight = 0
  PROVE  NoWeights'
<1> SUFFICES ASSUME cache["cs"] # None, cache["sc"] = None, ~CsPending',
                    NEW i \in Instances, Exists(i)'
             PROVE  Announced(i)' \/ store'[i].spec.weight = 0
  BY DEF NoWeights, Writing
<1>1. i \in Objects /\ (cache[i] # None => cache[i].owner = "cs")
  BY Types, ObjectFields, NameFacts
<1>2. CASE store'[i] = store[i]
  BY <1>1, <1>2, AnnouncedStays DEF NoWeights, Exists
<1>3. CASE store'[i] # store[i]
  BY <1>1, <1>3, AnnouncedStays
<1>4. QED
  BY <1>2, <1>3

\* The default routes that are created are the right ones.
LEMMA DefaultRoutesWritten ==
  ASSUME DefaultRoutesFollow, Without, TypeOK, Writing,
         cache["cs"] # None /\ cache["sc"] = None =>
           /\ CsPending \/ MeshPending \/ csRun # None
                => CsPending' \/ MeshPending' \/ csRun' # None
           /\ store'["routes"] # store["routes"] /\ cache["routes"] = None
              /\ store'["routes"] # None => CsPending' \/ CsRight'
  PROVE  DefaultRoutesFollow'
<1> SUFFICES ASSUME cache["cs"] # None, cache["sc"] = None, Subsets(cache["cs"]) # {},
                    ~CsPending', ~MeshPending', csRun' = None
             PROVE  Announced("routes")' \/ CsRight'
  BY DEF DefaultRoutesFollow, Writing
<1>1. "routes" \in Objects
  BY NameFacts
<1>2. missed = {}
  BY DEF CsPending, Writing
<1>3. cache["routes"] # None => cache["routes"].owner = "cs"
  BY <1>2 DEF Without
<1>4. CASE store'["routes"] = store["routes"]
  BY <1>1, <1>3, <1>4, AnnouncedStays DEF DefaultRoutesFollow, CsRight, Exists, Writing
<1>5. CASE store'["routes"] # store["routes"]
  BY <1>1, <1>3, <1>5, AnnouncedStays
<1>6. QED
  BY <1>4, <1>5

\* A new ConfiguredService has a new uid, so that what was garbage remains so.
LEMMA NothingLasts ==
  ASSUME TypeOK, Uids, Writing, NEW i \in Instances, ~Lasting(i),
         store'["cs"] # None =>
           \/ store["cs"] # None /\ store'["cs"].uid = store["cs"].uid
           \/ store'["cs"].uid > troubles
  PROVE  ~Lasting(i)'
<1> SUFFICES ASSUME Exists(i)', i \notin stale'
             PROVE  Garbage(i)'
  BY DEF Lasting
<1>1. i \in Names /\ i \in Objects /\ store'[i] = store[i] /\ i \notin stale /\ Exists(i)
  BY NameFacts DEF Writing, Exists
<1>2. Garbage(i)
  BY <1>1 DEF Lasting
<1>3. store[i].owner = "cs" /\ store[i].uid \in Nat /\ store[i].uid <= troubles
  BY <1>1, Types, ObjectFields, NameFacts DEF Uids, UidsOf, Exists
<1>4. troubles \in Nat
  BY DEF TypeOK
<1>5. ~(store["cs"] # None /\ store["cs"].uid = store[i].uid)
  BY <1>2, <1>3 DEF Garbage, Exists
<1>6. ~(store'["cs"] # None /\ store'["cs"].uid = store[i].uid)
  BY <1>3, <1>4, <1>5
<1>7. QED
  BY <1>1, <1>3, <1>6 DEF Garbage, Exists

\* Routes that are changed are announced to the ServiceConfig controller.
LEMMA RoutesWritten ==
  ASSUME RoutesFollow, TypeOK, Uids, Writing,
         cache["sc"] # None /\ (ScPending \/ MeshPending \/ scRun # None)
           => ScPending' \/ MeshPending' \/ scRun' # None,
         store'["cs"] # None =>
           \/ store["cs"] # None /\ store'["cs"].uid = store["cs"].uid
           \/ store'["cs"].uid > troubles
  PROVE  RoutesFollow'
<1> SUFFICES ASSUME cache["sc"] # None,
                    ~ScPending', ~MeshPending', scRun' = None, "routes" \notin stale'
             PROVE  ScRight' \/ \A i \in Instances : ~Lasting(i)'
  BY DEF RoutesFollow, Writing
<1>1. store'["routes"] = store["routes"] /\ "routes" \notin stale
  BY NameFacts DEF Writing
<1>2. ScRight \/ \A i \in Instances : ~Lasting(i)
  BY <1>1 DEF RoutesFollow
<1>3. ScRight => ScRight'
  BY <1>1 DEF ScRight, Exists, Writing
<1>4. QED
  BY <1>2, <1>3, NothingLasts

-----------------------------------------------------------------------------
(* Changes from outside *)

\* A change of one object from outside.
LEMMA ChangeSuffices ==
  ASSUME IInv, NEW n \in {"cs", "sc", "mesh", "routes"}, NEW v, Change(n, v),
         missed \subseteq missed', missed' \subseteq missed \cup {"ConfigDeleted"},
         n = "cs" => v = None \/ (/\ v \in Services /\ v.gen = 0
                                  /\ v.uid = IF Exists("cs") THEN store["cs"].uid
                                             ELSE troubles + 1),
         n = "sc" => (v = None /\ missed' # {}) \/ (v \in Configs /\ v.gen = 0),
         n = "mesh" => v = store["mesh"] + 1,
         n = "routes" => v = None
  PROVE  IInv'
<1>0. /\ TypeOK /\ Stamps /\ Uids /\ RunsFit /\ Without /\ EntriesFollow
      /\ WeightsFollow /\ NoWeights /\ DefaultRoutesFollow /\ RoutesFollow
  BY DEF IInv
<1>1. /\ store' = [store EXCEPT ![n] = v]
      /\ stale' = IF store[n] = v THEN stale ELSE stale \cup {n}
      /\ troubles' = troubles + 1 /\ troubles \in Nat
      /\ cache' = cache /\ queue' = queue /\ csRun' = csRun /\ scRun' = scRun
  BY <1>0 DEF Change, Trouble, Write, runVars, TypeOK
<1>2. DOMAIN store = Names /\ DOMAIN cache = Names /\ n \in Names
  BY <1>0, NameFacts DEF TypeOK
<1>3. /\ DOMAIN store' = Names /\ store'[n] = v
      /\ \A m \in Names : m # n => store'[m] = store[m]
  BY <1>1, <1>2
<1>4. Writing
  BY <1>0, <1>1, <1>2, <1>3, Types DEF Writing
<1>5. TypeOK'
  <2>1. store'["cs"] \in Services \cup {None}
    BY <1>0, <1>2, <1>3, NameFacts, Types
  <2>2. store'["sc"] \in Configs \cup {None}
    BY <1>0, <1>2, <1>3, NameFacts, Types
  <2>3. store'["mesh"] \in Nat
    BY <1>0, <1>2, <1>3, NameFacts, Types
  <2>4. \A m \in Objects : store'[m] \in ObjectsOf(m) \cup {None}
    BY <1>0, <1>2, <1>3, NameFacts, Types
  <2>5. \A m \in Names : m \notin stale' => cache'[m] = store'[m]
    BY <1>0, <1>1, <1>3, <1>4, Types DEF Writing
  <2>6. queue' \subseteq Controllers /\ csRun' \in CsRuns \cup {None}
        /\ scRun' \in ScRuns \cup {None} /\ troubles' \in Nat
        /\ missed' \subseteq {"ConfigDeleted", "StampFailed", "CreationUnseen", "SubsetsUnseen"}
    BY <1>0, <1>1 DEF TypeOK
  <2>7. DOMAIN cache' = Names /\ cache'["cs"] \in Services \cup {None}
        /\ cache'["sc"] \in Configs \cup {None} /\ cache'["mesh"] \in Nat
        /\ \A m \in Objects : cache'[m] \in ObjectsOf(m) \cup {None}
    BY <1>0, <1>1, <1>2, Types
  <2>8. QED
    BY <1>0, <1>3, <1>4, <2>1, <2>2, <2>3, <2>4, <2>5, <2>6, <2>7 DEF TypeOK, Writing
<1>6. Stamps'
  <2>1. cache["mesh"] \in Nat /\ store["mesh"] \in Nat
    BY <1>0, Types
  <2>2. store'["mesh"] = store["mesh"] \/ store'["mesh"] = store["mesh"] + 1
    BY <1>3, NameFacts
  <2>3. "mesh" \in stale' => cache["mesh"] < store'["mesh"]
    <3>1. CASE n = "mesh"
      BY <1>0, <1>3, <2>1, <3>1 DEF Stamps
    <3>2. CASE n # "mesh"
      BY <1>0, <1>1, <1>3, <3>2, NameFacts DEF Stamps
    <3>3. QED
      BY <3>1, <3>2
  <2>4. StampsOf(store)'
    <3>1. \A m \in {"cs", "sc"} : store'[m] = store[m] \/ store'[m] = None \/ store'[m].gen = 0
      BY <1>3, NameFacts
    <3>2. 0 < cache["mesh"]
      BY <1>0 DEF Stamps
    <3>3. QED
      BY <1>0, <1>1, <2>1, <3>1, <3>2 DEF Stamps, StampsOf
  <2>5. QED
    BY <1>0, <1>1, <2>1, <2>2, <2>3, <2>4 DEF Stamps, StampsOf
<1>7. Uids'
  <2>1. \A m \in Instances \cup {"cs"} : store[m] # None => store[m].uid \in Nat
    BY <1>0, Types, ObjectFields, NameFacts DEF Services
  <2>2. \A m \in Instances \cup {"cs"} : cache[m] # None => cache[m].uid \in Nat
    BY <1>0, Types, ObjectFields, NameFacts DEF Services
  <2>3. \A m \in Instances : store'[m] = store[m]
    BY <1>3, NameFacts
  <2>4. UidsOf(store)'
    <3>1. store'["cs"] # None =>
            \/ store["cs"] # None /\ store'["cs"].uid = store["cs"].uid
            \/ store'["cs"].uid = troubles + 1
      BY <1>3, NameFacts DEF Exists
    <3>2. QED
      BY <1>0, <1>1, <2>1, <2>3, <3>1 DEF Uids, UidsOf
  <2>5. UidsOf(cache)'
    BY <1>0, <1>1, <2>2 DEF Uids, UidsOf
  <2>6. QED
    BY <1>0, <2>4, <2>5 DEF Uids
<1>8. /\ CsPending => CsPending'
      /\ ScPending => ScPending'
      /\ MeshPending => MeshPending'
  BY <1>1 DEF CsPending, ScPending, MeshPending
<1>9. Without'
  <2>1. store'["routes"] = store["routes"] \/ store'["routes"] = None
    BY <1>3, NameFacts
  <2>2. store'["sc"] = None => store["sc"] = None \/ missed' # {}
    BY <1>3, NameFacts, NoneAssumption
  <2>3. missed' = {} => missed = {}
    OBVIOUS
  <2>4. QED
    BY <1>0, <1>1, <2>1, <2>2, <2>3 DEF Without, Exists
<1>10. RunsFit'
  BY <1>0, <1>1, <1>4, <1>8, RunsFitWritten
<1>11. \A m \in Instances \cup {"se"} : store'[m] = store[m]
  BY <1>3, NameFacts
<1>12. EntriesFollow' /\ WeightsFollow' /\ NoWeights'
  <2>1. EntriesFollow'
    BY <1>0, <1>4, <1>8, <1>11, EntriesWritten
  <2>2. WeightsFollow'
    BY <1>0, <1>4, <1>8, WeightsWritten
  <2>3. NoWeights'
    BY <1>0, <1>4, <1>8, <1>11, NoWeightsWritten
  <2>4. QED
    BY <2>1, <2>2, <2>3
<1>13. DefaultRoutesFollow'
  <2>1. store'["routes"] # store["routes"] => store'["routes"] = None
    BY <1>3, NameFacts
  <2>2. CsPending \/ MeshPending \/ csRun # None => CsPending' \/ MeshPending' \/ csRun' # None
    BY <1>1, <1>8
  <2>3. QED
    BY <1>0, <1>4, <2>1, <2>2, DefaultRoutesWritten
<1>14. RoutesFollow'
  <2>1. store'["cs"] # None =>
          \/ store["cs"] # None /\ store'["cs"].uid = store["cs"].uid
          \/ store'["cs"].uid > troubles
    BY <1>1, <1>3, NameFacts DEF Exists
  <2>2. QED
    BY <1>0, <1>1, <1>4, <1>8, <2>1, RoutesWritten
<1>15. QED
  BY <1>5, <1>6, <1>7, <1>9, <1>10, <1>12, <1>13, <1>14 DEF IInv

\* The adapter, the administrator or anybody else changes something.
LEMMA EnvironmentStep ==
  ASSUME IInv, Environment
  PROVE  IInv'
<1>1. troubles \in Nat /\ missed \subseteq missed \cup {"ConfigDeleted"}
  BY DEF IInv, TypeOK
<1>0. TypeOK
  BY DEF IInv
<1>2. ASSUME NEW group \in [Instances -> Groups \cup {None}], ReplaceInstances(group)
      PROVE  IInv'
  <2> DEFINE v == [uid |-> IF Exists("cs") THEN store["cs"].uid ELSE troubles + 1,
                   group |-> group, gen |-> 0]
  <2>1. Change("cs", v) /\ missed' = missed
    BY <1>2 DEF ReplaceInstances
  <2>2. Exists("cs") => store["cs"].uid \in Nat
    BY <1>0, Types DEF Exists, Services
  <2>3. v.gen = 0 /\ v.uid = IF Exists("cs") THEN store["cs"].uid ELSE troubles + 1
    OBVIOUS
  <2>4. v.uid \in Nat
    BY <1>1, <2>2, <2>3
  <2>5. v \in Services
    BY <2>4 DEF Services
  <2> HIDE DEF v
  <2>6. QED
    BY <2>1, <2>3, <2>5, ChangeSuffices
<1>3. ASSUME ChangeConfigEntry(2)
      PROVE  IInv'
  <2> DEFINE v == [uid |-> IF Exists("sc") THEN store["sc"].uid ELSE troubles + 1,
                   weight |-> 2, gen |-> 0,
                   phase |-> IF Exists("sc") THEN store["sc"].phase ELSE ""]
  <2>1. Change("sc", v) /\ missed' = missed
    BY <1>3 DEF ChangeConfigEntry
  <2>2. Exists("sc") => /\ store["sc"].uid \in Nat
                        /\ store["sc"].phase \in {"", "Undistributed", "Distributing",
                                                  "Distributed"}
    BY <1>0, Types DEF Exists, Configs
  <2>3. v.gen = 0 /\ v.weight = 2
        /\ v.uid = (IF Exists("sc") THEN store["sc"].uid ELSE troubles + 1)
        /\ v.phase = (IF Exists("sc") THEN store["sc"].phase ELSE "")
    OBVIOUS
  <2>4. v.uid \in Nat /\ v.phase \in {"", "Undistributed", "Distributing", "Distributed"}
    <3>1. v.uid \in Nat
      <4>1. troubles + 1 \in Nat
        BY <1>1
      <4>2. QED
        BY ONLY <2>2, <2>3, <4>1, Zenon
    <3>2. v.phase \in {"", "Undistributed", "Distributing", "Distributed"}
      <4>1. CASE Exists("sc")
        BY ONLY <2>2, <2>3, <4>1, Zenon
      <4>2. CASE ~Exists("sc")
        BY ONLY <2>3, <4>2, Zenon
      <4>3. QED
        BY <4>1, <4>2
    <3>3. QED
      BY <3>1, <3>2
  <2>5. v \in Configs
    BY <2>4 DEF Configs
  <2> HIDE DEF v
  <2>6. QED
    BY <2>1, <2>3, <2>5, ChangeSuffices
<1>4. CASE DeleteService
  BY <1>4, ChangeSuffices DEF DeleteService
<1>5. CASE DeleteConfigEntry
  BY <1>5, ChangeSuffices DEF DeleteConfigEntry
<1>6. CASE EditMeshConfig
  BY <1>6, ChangeSuffices DEF EditMeshConfig
<1>7. CASE DeleteRoutes
  BY <1>7, ChangeSuffices DEF DeleteRoutes
<1>8. QED
  BY <1>2, <1>3, <1>4, <1>5, <1>6, <1>7 DEF Environment

-----------------------------------------------------------------------------
(* The API server and the cache *)

\* The cache receives an object, and those who listen are woken.
LEMMA SyncStep ==
  ASSUME IInv, NEW n \in Names, Sync(n)
  PROVE  IInv'
<1>0. /\ TypeOK /\ Stamps /\ Uids /\ RunsFit /\ Without /\ EntriesFollow
      /\ WeightsFollow /\ NoWeights /\ DefaultRoutesFollow /\ RoutesFollow
  BY DEF IInv
<1>1. /\ n \in stale /\ stale' = stale \ {n}
      /\ cache' = [cache EXCEPT ![n] = store[n]]
      /\ queue' = queue \cup Woken(n, cache[n], store[n])
      /\ store' = store /\ csRun' = csRun /\ scRun' = scRun
      /\ troubles' = troubles /\ missed' = missed
  BY DEF Sync, runVars
<1>2. /\ DOMAIN cache' = Names /\ cache'[n] = store[n]
      /\ \A m \in Names : m # n => cache'[m] = cache[m]
  BY <1>0, <1>1 DEF TypeOK
<1>3. /\ {"cs", "sc", "mesh", "routes", "se"} \subseteq Names /\ Instances \subseteq Names
      /\ "cs" \in Controllers /\ "sc" \in Controllers /\ "mesh" \in Controllers
      /\ "routes" \notin Controllers
      /\ n \in Controllers \/ n \in Objects
      /\ n \in Objects => n \notin {"cs", "sc", "mesh"} /\ n \notin Controllers
      /\ \A i \in Instances : i \notin {"cs", "sc", "mesh", "routes", "se"} /\ i \in Objects
  BY NameFacts DEF Names, Controllers
<1>4. /\ n = "cs" \/ (n \in Objects /\ Announced(n)) => "cs" \in queue'
      /\ n = "sc" \/ n \in Objects => "sc" \in queue'
      /\ n = "mesh" => "mesh" \in queue'
      /\ "mesh" \in queue' => n = "mesh" \/ "mesh" \in queue
      /\ queue \subseteq queue' /\ queue' \subseteq Controllers
  <2>1. n = "cs" \/ (n \in Objects /\ Announced(n)) => "cs" \in queue'
    BY <1>1, <1>3, Waking DEF Announced
  <2>2. n = "sc" \/ n \in Objects => "sc" \in queue'
    BY <1>1, <1>3, Waking
  <2>3. n = "mesh" => "mesh" \in queue'
    BY <1>1, <1>3, Waking
  <2>4. "mesh" \in queue' => n = "mesh" \/ "mesh" \in queue
    BY <1>1, <1>3, Waking
  <2>5. queue' \subseteq Controllers
    BY <1>0, <1>1, <1>3, Waking DEF TypeOK
  <2>6. QED
    BY <1>1, <2>1, <2>2, <2>3, <2>4, <2>5
<1>5. /\ CsPending => CsPending'
      /\ ScPending => ScPending'
      /\ MeshPending => MeshPending'
  BY <1>1, <1>4 DEF CsPending, ScPending, MeshPending
<1>6. /\ n = "cs" \/ (n \in Objects /\ Announced(n)) => CsPending'
      /\ n = "sc" \/ n \in Objects => ScPending'
      /\ n = "mesh" => MeshPending'
  BY <1>4 DEF CsPending, ScPending, MeshPending
<1>7. /\ n # "cs" => cache'["cs"] = cache["cs"]
      /\ n # "sc" => cache'["sc"] = cache["sc"]
      /\ n # "mesh" => cache'["mesh"] = cache["mesh"]
      /\ n # "routes" => cache'["routes"] = cache["routes"]
      /\ n \in {"cs", "sc", "mesh", "routes"} => cache'[n] = store[n]
  BY <1>2, <1>3
<1>8. \A m \in Names : m # n => (Announced(m)' <=> Announced(m))
  BY <1>1, <1>2 DEF Announced
<1>9. TypeOK'
  <2>1. /\ cache'["cs"] \in Services \cup {None} /\ cache'["sc"] \in Configs \cup {None}
        /\ cache'["mesh"] \in Nat
    BY <1>0, <1>2, <1>7, Types
  <2>2. \A m \in Objects : cache'[m] \in ObjectsOf(m) \cup {None}
    BY <1>0, <1>2, Types DEF Names
  <2>3. \A m \in Names : m \notin stale' => cache'[m] = store'[m]
    BY <1>0, <1>1, <1>2, Types
  <2>4. /\ DOMAIN store' = Names /\ store'["cs"] \in Services \cup {None}
        /\ store'["sc"] \in Configs \cup {None} /\ store'["mesh"] \in Nat
        /\ \A m \in Objects : store'[m] \in ObjectsOf(m) \cup {None}
    BY <1>0, <1>1 DEF TypeOK
  <2>5. /\ stale' \subseteq Names /\ queue' \subseteq Controllers
        /\ csRun' \in CsRuns \cup {None} /\ scRun' \in ScRuns \cup {None} /\ troubles' \in Nat
        /\ missed' \subseteq {"ConfigDeleted", "StampFailed", "CreationUnseen", "SubsetsUnseen"}
    BY <1>0, <1>1, <1>4 DEF TypeOK
  <2>6. QED
    BY <1>2, <2>1, <2>2, <2>3, <2>4, <2>5 DEF TypeOK
<1>10. Stamps'
  <2>0. /\ cache["mesh"] \in Nat /\ store["mesh"] \in Nat
        /\ \A m \in {"cs", "sc"} : /\ store[m] # None => store[m].gen \in Nat
                                   /\ cache[m] # None => cache[m].gen \in Nat
    BY <1>0, Types DEF Services, Configs
  <2>1. CASE n = "mesh"
    BY <1>0, <1>1, <1>7, <2>0, <2>1 DEF Stamps, StampsOf
  <2>2. CASE n # "mesh"
    <3>1. \A m \in {"cs", "sc"} : cache'[m] \in {cache[m], store[m]}
      BY <1>7
    <3>2. QED
      BY <1>0, <1>1, <1>4, <1>7, <2>0, <2>2, <3>1 DEF Stamps, StampsOf
  <2>3. QED
    BY <2>1, <2>2
<1>11. Uids'
  <2>1. \A m \in Instances \cup {"cs"} : cache'[m] \in {cache[m], store[m]}
    BY <1>2, <1>3
  <2>2. QED
    BY <1>0, <1>1, <2>1 DEF Uids, UidsOf
<1>12. RunsFit'
  <2>1. csRun # None =>
          /\ CsPending' \/ csRun.cs = cache'["cs"]
          /\ CsPending' \/ MeshPending' \/ csRun.mesh = cache'["mesh"]
    BY <1>0, <1>5, <1>6, <1>7 DEF RunsFit
  <2>2. scRun # None =>
          /\ ScPending' \/ scRun.sc = cache'["sc"]
          /\ ScPending' \/ MeshPending' \/ scRun.mesh = cache'["mesh"]
    BY <1>0, <1>5, <1>6, <1>7 DEF RunsFit
  <2>3. QED
    BY <1>1, <2>1, <2>2 DEF RunsFit
<1>13. cache'["sc"] = None => cache["sc"] = None \/ missed # {}
  BY <1>0, <1>7 DEF Without
<1>14. Without'
  BY <1>0, <1>1, <1>7 DEF Without, Exists
<1>15. EntriesFollow'
  <2> SUFFICES ASSUME cache'["cs"] # None, ~CsPending', ~MeshPending',
                      NEW m \in Instances \cup {"se"}
               PROVE  Announced(m)' \/ Right(m)'
    BY DEF EntriesFollow
  <2>1. cache'["cs"] = cache["cs"] /\ cache'["mesh"] = cache["mesh"]
    BY <1>6, <1>7
  <2>2. Announced(m) \/ Right(m)
    BY <1>0, <1>5, <2>1 DEF EntriesFollow
  <2>3. Right(m) => Right(m)'
    BY <1>1, <2>1 DEF Right, Exists
  <2>4. m \in Names /\ m \in Objects
    BY NameFacts
  <2>5. QED
    BY <1>6, <1>8, <2>2, <2>3, <2>4
<1>16. WeightsFollow'
  <2>1. CASE n \in {"cs", "mesh"}
    <3>1. \A i \in Instances : i \notin stale' => i \notin stale
      BY <1>1, <1>3, <2>1
    <3>2. QED
      BY <1>0, <1>1, <1>5, <1>7, <2>1, <3>1 DEF WeightsFollow, Exists
  <2>2. CASE n \notin {"cs", "mesh"}
    BY <1>3, <1>6, <2>2 DEF WeightsFollow, Controllers
  <2>3. QED
    BY <2>1, <2>2
<1>17. NoWeights'
  <2> SUFFICES ASSUME cache'["cs"] # None, cache'["sc"] = None, ~CsPending',
                      NEW i \in Instances, Exists(i)'
               PROVE  Announced(i)' \/ store'[i].spec.weight = 0
    BY DEF NoWeights
  <2>1. cache'["cs"] = cache["cs"] /\ cache["sc"] = None
    BY <1>1, <1>6, <1>7, <1>13 DEF CsPending
  <2>2. Announced(i) \/ store[i].spec.weight = 0
    BY <1>0, <1>1, <1>5, <2>1 DEF NoWeights, Exists
  <2>3. QED
    BY <1>1, <1>3, <1>6, <1>8, <2>2
<1>18. DefaultRoutesFollow'
  <2> SUFFICES ASSUME cache'["cs"] # None, cache'["sc"] = None, Subsets(cache'["cs"]) # {},
                      ~CsPending', ~MeshPending', csRun' = None
               PROVE  Announced("routes")' \/ CsRight'
    BY DEF DefaultRoutesFollow
  <2>1. cache'["cs"] = cache["cs"] /\ cache["sc"] = None /\ cache'["mesh"] = cache["mesh"]
    BY <1>1, <1>6, <1>7, <1>13 DEF CsPending
  <2>2. Announced("routes") \/ CsRight
    BY <1>0, <1>1, <1>5, <2>1 DEF DefaultRoutesFollow
  <2>3. CsRight => CsRight'
    BY <1>1, <2>1 DEF CsRight, Exists
  <2>4. "routes" \in Names /\ "routes" \in Objects
    BY NameFacts
  <2>5. QED
    BY <1>6, <1>8, <2>2, <2>3, <2>4
<1>19. RoutesFollow'
  <2> SUFFICES ASSUME cache'["sc"] # None, ~ScPending', ~MeshPending', scRun' = None,
                      "routes" \notin stale'
               PROVE  ScRight' \/ \A i \in Instances : ~Lasting(i)'
    BY DEF RoutesFollow
  <2>1. n = "cs"
    BY <1>3, <1>6 DEF Controllers
  <2>2. cache'["sc"] = cache["sc"] /\ cache'["mesh"] = cache["mesh"] /\ "routes" \notin stale
    BY <1>1, <1>7, <2>1
  <2>3. ScRight \/ \A i \in Instances : ~Lasting(i)
    BY <1>0, <1>1, <1>5, <2>2 DEF RoutesFollow
  <2>4. ScRight => ScRight'
    BY <1>1, <2>2 DEF ScRight, Exists
  <2>5. \A i \in Instances : Lasting(i)' => Lasting(i)
    <3>1. \A i \in Instances : i \notin stale' => i \notin stale
      BY <1>1, <1>3, <2>1
    <3>2. QED
      BY <1>1, <3>1 DEF Lasting, Exists, Garbage
  <2>6. QED
    BY <2>3, <2>4, <2>5
<1>20. QED
  BY <1>9, <1>10, <1>11, <1>12, <1>14, <1>15, <1>16, <1>17, <1>18, <1>19 DEF IInv

\* The garbage collector deletes what lost its owner.
LEMMA CollectStep ==
  ASSUME IInv, Collect
  PROVE  IInv'
<1>0. /\ TypeOK /\ Stamps /\ Uids /\ RunsFit /\ Without /\ EntriesFollow
      /\ WeightsFollow /\ NoWeights /\ DefaultRoutesFollow /\ RoutesFollow
  BY DEF IInv
<1> DEFINE garbage == {n \in Names : Garbage(n)}
<1>1. /\ store' = [n \in Names |-> IF n \in garbage THEN None ELSE store[n]]
      /\ stale' = stale \cup garbage
      /\ cache' = cache /\ queue' = queue /\ csRun' = csRun /\ scRun' = scRun
      /\ troubles' = troubles /\ missed' = missed
  BY DEF Collect, runVars
<1>2. /\ garbage \subseteq Names /\ garbage \subseteq Objects
  BY DEF Garbage
<1> HIDE DEF garbage
<1>3. /\ DOMAIN store' = Names
      /\ \A n \in Names : store'[n] = store[n] \/ (store'[n] = None /\ n \in garbage)
  BY <1>1
<1>4. store'["cs"] = store["cs"] /\ store'["sc"] = store["sc"] /\ store'["mesh"] = store["mesh"]
  BY <1>2, <1>3, NameFacts DEF Controllers
<1>5. Writing
  BY <1>0, <1>1, <1>2, <1>3, Types DEF Writing
<1>6. TypeOK'
  <2>1. \A n \in Objects : store'[n] \in ObjectsOf(n) \cup {None}
    BY <1>0, <1>3, Types DEF Names
  <2>2. \A m \in Names : m \notin stale' => cache'[m] = store'[m]
    BY <1>0, <1>1, <1>3, Types
  <2>3. /\ store'["cs"] \in Services \cup {None} /\ store'["sc"] \in Configs \cup {None}
        /\ store'["mesh"] \in Nat
    BY <1>0, <1>4, Types
  <2>4. /\ DOMAIN cache' = Names /\ cache'["cs"] \in Services \cup {None}
        /\ cache'["sc"] \in Configs \cup {None} /\ cache'["mesh"] \in Nat
        /\ \A m \in Objects : cache'[m] \in ObjectsOf(m) \cup {None}
    BY <1>0, <1>1 DEF TypeOK
  <2>5. /\ stale' \subseteq Names /\ queue' \subseteq Controllers
        /\ csRun' \in CsRuns \cup {None} /\ scRun' \in ScRuns \cup {None} /\ troubles' \in Nat
        /\ missed' \subseteq {"ConfigDeleted", "StampFailed", "CreationUnseen", "SubsetsUnseen"}
    BY <1>0, <1>1, <1>2 DEF TypeOK
  <2>6. QED
    BY <1>3, <2>1, <2>2, <2>3, <2>4, <2>5 DEF TypeOK
<1>7. Stamps'
  <2>1. "mesh" \in stale' => "mesh" \in stale
    BY <1>1, <1>2, NameFacts DEF Controllers
  <2>2. \A m \in {"cs", "sc"} : store'[m] = store[m]
    BY <1>4
  <2>3. QED
    BY <1>0, <1>1, <1>4, <2>1, <2>2 DEF Stamps, StampsOf
<1>8. Uids'
  <2>1. \A m \in Instances \cup {"cs"} : store'[m] = store[m] \/ store'[m] = None
    BY <1>3, NameFacts
  <2>2. QED
    BY <1>0, <1>1, <2>1 DEF Uids, UidsOf
<1>9. /\ CsPending => CsPending'
      /\ ScPending => ScPending'
      /\ MeshPending => MeshPending'
  BY <1>1 DEF CsPending, ScPending, MeshPending
<1>10. RunsFit'
  BY <1>0, <1>1, <1>5, <1>9, RunsFitWritten
<1>11. \A n \in Objects : store'[n] # store[n] => store'[n] = None
  BY <1>3 DEF Names
<1>12. Without'
  <2>1. store'["routes"] = store["routes"] \/ store'["routes"] = None
    BY <1>11, NameFacts
  <2>2. QED
    BY <1>0, <1>1, <1>4, <2>1 DEF Without, Exists
<1>13. EntriesFollow'
  <2>1. \A n \in Instances \cup {"se"} : n \in Objects
    BY NameFacts
  <2>2. QED
    BY <1>0, <1>5, <1>9, <1>11, <2>1, EntriesWritten
<1>14. WeightsFollow'
  BY <1>0, <1>5, <1>9, WeightsWritten
<1>15. NoWeights'
  <2>1. \A n \in Instances : n \in Objects
    BY NameFacts
  <2>2. QED
    BY <1>0, <1>5, <1>9, <1>11, <2>1, NoWeightsWritten
<1>16. DefaultRoutesFollow'
  <2>1. store'["routes"] # store["routes"] => store'["routes"] = None
    BY <1>11, NameFacts
  <2>2. CsPending \/ MeshPending \/ csRun # None => CsPending' \/ MeshPending' \/ csRun' # None
    BY <1>1, <1>9
  <2>3. QED
    BY <1>0, <1>5, <2>1, <2>2, DefaultRoutesWritten
<1>17. RoutesFollow'
  BY <1>0, <1>1, <1>4, <1>5, <1>9, RoutesWritten
<1>18. QED
  BY <1>6, <1>7, <1>8, <1>10, <1>12, <1>13, <1>14, <1>15, <1>16, <1>17 DEF IInv

\* All objects are announced again: everything will be looked at.
LEMMA ResyncStep ==
  ASSUME IInv, Resync
  PROVE  IInv'
<1>0. /\ TypeOK /\ Stamps /\ Uids /\ RunsFit /\ Without /\ EntriesFollow
      /\ WeightsFollow /\ NoWeights /\ DefaultRoutesFollow /\ RoutesFollow
  BY DEF IInv
<1>1. /\ store' = store /\ cache' = cache /\ stale' = stale /\ csRun' = csRun /\ scRun' = scRun
      /\ troubles' = troubles /\ queue' = {"cs", "sc"} /\ missed' = {}
      /\ stale = {} /\ csRun = None /\ scRun = None
      /\ \A n \in Names : ~Garbage(n)
  BY DEF Resync, Settled, kubeVars, runVars
<1>2. TypeOK'
  BY <1>0, <1>1 DEF TypeOK, Controllers
<1>3. Stamps'
  BY <1>0, <1>1 DEF Stamps, StampsOf
<1>4. Uids'
  BY <1>0, <1>1 DEF Uids, UidsOf
<1>5. RunsFit'
  BY <1>1 DEF RunsFit
<1>6. Without'
  <2>1. cache["sc"] = store["sc"] /\ cache["routes"] = store["routes"]
    BY <1>0, <1>1, Types, NameFacts
  <2>2. store["routes"] # None => store["routes"].owner \in {"cs", "sc"}
    BY <1>0, Types, ObjectFields, NameFacts
  <2>3. store["routes"] # None => store[store["routes"].owner] # None
    BY <1>1, NameFacts DEF Garbage, Exists
  <2>4. QED
    BY <1>1, <2>1, <2>2, <2>3 DEF Without, Exists
<1>7. CsPending' /\ ScPending'
  BY <1>1 DEF CsPending, ScPending
<1>8. QED
  BY <1>2, <1>3, <1>4, <1>5, <1>6, <1>7
     DEF IInv, EntriesFollow, WeightsFollow, NoWeights, DefaultRoutesFollow, RoutesFollow

-----------------------------------------------------------------------------
(* What the controllers write *)

\* What the cache and the API server hold is of the type of its name, the controllers'
\* own objects included.
LEMMA OwnFields ==
  /\ \A x \in Services : x # None /\ x.uid \in Nat /\ x.gen \in Nat
                         /\ x.group \in [Instances -> Groups \cup {None}]
  /\ \A x \in Configs : x # None /\ x.uid \in Nat /\ x.gen \in Nat /\ x.weight \in Nat
<1>1. /\ \A x \in Services : x # None
      /\ \A x \in Configs : x # None
  BY NoneAssumption
<1>2. \A x \in Services : x.uid \in Nat /\ x.gen \in Nat
                          /\ x.group \in [Instances -> Groups \cup {None}]
  BY DEF Services
<1>3. \A x \in Configs : x.uid \in Nat /\ x.gen \in Nat /\ x.weight \in Nat
  BY DEF Configs
<1>4. QED
  BY <1>1, <1>2, <1>3

\* The subsets of a ConfiguredService are groups.
LEMMA SubsetsAreGroups ==
  ASSUME NEW s \in Services \cup {None}
  PROVE  Subsets(s) \subseteq Groups
  BY OwnFields DEF Subsets, Registered

\* The routes that the two controllers build.
LEMMA RoutesBuilt ==
  ASSUME NEW s \in Services \cup {None}, NEW c \in Configs, NEW m \in Nat
  PROVE  /\ CsRoute(s, m) \in Routes
         /\ ScRoute(c, s, m) \in Routes
         /\ ScRoute(c, s, m).form = "sc" /\ ScRoute(c, s, m).mesh = m
         /\ ScRoute(c, s, m).weight = c.weight
<1>1. Subsets(s) \subseteq Groups /\ c.weight \in Nat
  BY SubsetsAreGroups, OwnFields
<1>2. QED
  BY <1>1 DEF CsRoute, ScRoute, Routes

\* An update of an object leaves its owner and its uid.
LEMMA Updated ==
  ASSUME NEW n \in Objects, NEW x \in ObjectsOf(n), NEW spec,
         n \in Instances => spec \in WorkloadEntries,
         n = "se" => spec = ServiceEntry,
         n = "routes" => spec \in Routes
  PROVE  /\ [x EXCEPT !.spec = spec] \in ObjectsOf(n)
         /\ [x EXCEPT !.spec = spec].owner = x.owner
         /\ [x EXCEPT !.spec = spec].uid = x.uid
         /\ [x EXCEPT !.spec = spec].spec = spec
<1>1. CASE n \in Instances
  <2>1. ObjectsOf(n) = [owner : {"cs"}, uid : Nat, spec : WorkloadEntries]
    BY <1>1, ObjectFacts, Zenon
  <2>2. x \in [owner : {"cs"}, uid : Nat, spec : WorkloadEntries] /\ spec \in WorkloadEntries
    BY <1>1, <2>1
  <2>3. /\ [x EXCEPT !.spec = spec] \in [owner : {"cs"}, uid : Nat, spec : WorkloadEntries]
        /\ [x EXCEPT !.spec = spec].owner = x.owner
        /\ [x EXCEPT !.spec = spec].uid = x.uid
        /\ [x EXCEPT !.spec = spec].spec = spec
    BY ONLY <2>2
  <2>4. QED
    BY ONLY <2>1, <2>3, Zenon
<1>2. CASE n = "se"
  <2>1. ObjectsOf(n) = [owner : {"cs"}, uid : Nat, spec : {"StaticMeshInternal"}]
    BY <1>2, ObjectFacts, Zenon
  <2>2. x \in [owner : {"cs"}, uid : Nat, spec : {"StaticMeshInternal"}]
        /\ spec \in {"StaticMeshInternal"}
    BY <1>2, <2>1 DEF ServiceEntry
  <2>3. /\ [x EXCEPT !.spec = spec]
             \in [owner : {"cs"}, uid : Nat, spec : {"StaticMeshInternal"}]
        /\ [x EXCEPT !.spec = spec].owner = x.owner
        /\ [x EXCEPT !.spec = spec].uid = x.uid
        /\ [x EXCEPT !.spec = spec].spec = spec
    BY ONLY <2>2
  <2>4. QED
    BY ONLY <2>1, <2>3, Zenon
<1>3. CASE n = "routes"
  <2>1. ObjectsOf(n) = [owner : {"cs", "sc"}, uid : Nat, spec : Routes]
    BY <1>3, ObjectFacts, Zenon
  <2>2. x \in [owner : {"cs", "sc"}, uid : Nat, spec : Routes] /\ spec \in Routes
    BY <1>3, <2>1
  <2>3. /\ [x EXCEPT !.spec = spec] \in [owner : {"cs", "sc"}, uid : Nat, spec : Routes]
        /\ [x EXCEPT !.spec = spec].owner = x.owner
        /\ [x EXCEPT !.spec = spec].uid = x.uid
        /\ [x EXCEPT !.spec = spec].spec = spec
    BY ONLY <2>2
  <2>4. QED
    BY ONLY <2>1, <2>3, Zenon
<1>4. QED
  BY <1>1, <1>2, <1>3, NameFacts

\* What Applied makes of an object: what the cache lacks is created if it is not there
\* already, and what differs is updated.
LEMMA AppliedFacts ==
  ASSUME TypeOK, NEW n \in Objects, NEW same \in BOOLEAN, NEW created \in ObjectsOf(n), NEW spec,
         n \in Instances => spec \in WorkloadEntries,
         n = "se" => spec = ServiceEntry,
         n = "routes" => spec \in Routes
  PROVE  /\ Applied(n, same, created, spec) \in ObjectsOf(n) \cup {None}
         /\ cache[n] = None /\ store[n] = None => Applied(n, same, created, spec) = created
         /\ cache[n] = None /\ store[n] # None => Applied(n, same, created, spec) = store[n]
         /\ cache[n] # None /\ same => Applied(n, same, created, spec) = store[n]
         /\ cache[n] # None /\ ~same =>
              /\ Applied(n, same, created, spec) \in ObjectsOf(n)
              /\ Applied(n, same, created, spec).owner = cache[n].owner
              /\ Applied(n, same, created, spec).uid = cache[n].uid
              /\ Applied(n, same, created, spec).spec = spec
<1>1. cache[n] # None => cache[n] \in ObjectsOf(n)
  BY Types
<1>2. cache[n] = None /\ store[n] = None => Applied(n, same, created, spec) = created
  BY DEF Applied, Exists
<1>3. cache[n] = None /\ store[n] # None => Applied(n, same, created, spec) = store[n]
  BY DEF Applied, Exists
<1>4. cache[n] # None /\ same => Applied(n, same, created, spec) = store[n]
  BY DEF Applied, Exists
<1>5. cache[n] # None /\ ~same =>
        Applied(n, same, created, spec) = [cache[n] EXCEPT !.spec = spec]
  BY DEF Applied, Exists
<1>6. cache[n] # None =>
        /\ [cache[n] EXCEPT !.spec = spec] \in ObjectsOf(n)
        /\ [cache[n] EXCEPT !.spec = spec].owner = cache[n].owner
        /\ [cache[n] EXCEPT !.spec = spec].uid = cache[n].uid
        /\ [cache[n] EXCEPT !.spec = spec].spec = spec
  BY <1>1, Updated
<1>7. store[n] \in ObjectsOf(n) \cup {None}
  BY Types
<1> DEFINE applied == Applied(n, same, created, spec)
           updated == [cache[n] EXCEPT !.spec = spec]
<1> HIDE DEF applied, updated
<1>8. cache[n] # None /\ ~same =>
        /\ applied \in ObjectsOf(n) /\ applied.owner = cache[n].owner
        /\ applied.uid = cache[n].uid /\ applied.spec = spec
  BY <1>5, <1>6 DEF applied, updated
<1>9. applied \in ObjectsOf(n) \cup {None}
  BY <1>2, <1>3, <1>4, <1>7, <1>8 DEF applied
<1>10. QED
  BY <1>2, <1>3, <1>4, <1>8, <1>9 DEF applied

\* The writes of one step of a Reconcile.
LEMMA WritesFacts ==
  ASSUME TypeOK, NEW f, NEW refused, NEW done, NEW inOrder, done \subseteq Names,
         Writes(f, refused, done, inOrder), cache' = cache, missed \subseteq missed'
  PROVE  /\ Writing
         /\ done \cap refused = {}
         /\ \A n \in Names : /\ n \in done => store'[n] = f[n]
                             /\ n \notin done => store'[n] = store[n] /\ (n \in stale' => n \in stale)
         /\ troubles' \in Nat /\ troubles <= troubles'
<1>1. /\ done \cap refused = {}
      /\ store' = [n \in Names |-> IF n \in done THEN f[n] ELSE store[n]]
      /\ stale' = stale \cup {n \in done : f[n] # store[n]}
      /\ troubles' = troubles \/ troubles' = troubles + 1
  BY DEF Writes, Trouble
<1>2. troubles \in Nat /\ stale \subseteq Names
  BY DEF TypeOK
<1>3. /\ DOMAIN store' = Names
      /\ \A n \in Names : store'[n] = IF n \in done THEN f[n] ELSE store[n]
  BY <1>1
<1>4. Writing
  BY <1>1, <1>2, <1>3 DEF Writing
<1>5. QED
  BY <1>1, <1>2, <1>3, <1>4

\* A step that writes what is well-formed, no object with a stamp or a uid of its future,
\* and leaves the MeshConfig and the ConfiguredService.
LEMMA TypesWritten ==
  ASSUME TypeOK, Stamps, Uids, Writing,
         queue' \subseteq queue \cup {"cs", "sc"},
         store'["cs"] = store["cs"], store'["mesh"] = store["mesh"],
         "mesh" \in stale' => "mesh" \in stale,
         store'["sc"] \in Configs \cup {None},
         store'["sc"] # None => store["sc"] # None /\ store'["sc"].gen = store["sc"].gen,
         \A n \in Objects : store'[n] \in ObjectsOf(n) \cup {None},
         \A n \in Instances : store'[n] # None => store'[n].uid <= troubles,
         troubles' \in Nat, troubles <= troubles',
         csRun' \in CsRuns \cup {None}, scRun' \in ScRuns \cup {None},
         missed' \subseteq missed \cup {"CreationUnseen", "SubsetsUnseen"}
  PROVE  TypeOK' /\ Stamps' /\ Uids'
<1>1. cache' = cache /\ DOMAIN store' = Names /\ stale' \subseteq Names
  BY DEF Writing
<1>2. TypeOK'
  <2>1. \A n \in Names : n \notin stale' => cache'[n] = store'[n]
    BY <1>1, Types DEF Writing
  <2>2. /\ DOMAIN cache' = Names /\ cache'["cs"] \in Services \cup {None}
        /\ cache'["sc"] \in Configs \cup {None} /\ cache'["mesh"] \in Nat
        /\ \A n \in Objects : cache'[n] \in ObjectsOf(n) \cup {None}
    BY <1>1 DEF TypeOK
  <2>3. store'["cs"] \in Services \cup {None} /\ store'["mesh"] \in Nat
    BY Types
  <2>4. /\ queue' \subseteq Controllers
        /\ missed' \subseteq {"ConfigDeleted", "StampFailed", "CreationUnseen", "SubsetsUnseen"}
    BY DEF TypeOK, Controllers
  <2>5. QED
    BY <1>1, <2>1, <2>2, <2>3, <2>4 DEF TypeOK
<1>3. Stamps'
  BY <1>1 DEF Stamps, StampsOf
<1>4. Uids'
  <2>1. \A n \in Instances \cup {"cs"} :
          /\ store[n] # None => store[n].uid \in Nat
          /\ cache[n] # None => cache[n].uid \in Nat
          /\ store'[n] # None => store'[n].uid \in Nat
    BY Types, ObjectFields, OwnFields, NameFacts
  <2>2. troubles \in Nat
    BY DEF TypeOK
  <2>3. UidsOf(store)'
    BY <2>1, <2>2 DEF Uids, UidsOf
  <2>4. UidsOf(cache)'
    BY <1>1, <2>1, <2>2 DEF Uids, UidsOf
  <2>5. QED
    BY <2>3, <2>4 DEF Uids
<1>5. QED
  BY <1>2, <1>3, <1>4

-----------------------------------------------------------------------------
(* ConfiguredService controller *)

\* What the first step makes of the WorkloadEntry of an instance.
CsWrites(s) ==
  [n \in Instances \cup {"se"} |->
     CASE n = "se"            -> CsServiceEntry(s)
       [] n \in Registered(s) -> CsWorkloadEntry(s, n)
       [] OTHER               -> IF cache[n] = None THEN store[n] ELSE None]

\* A WorkloadEntry is written so that it is the one wanted, or an old copy will be announced.
LEMMA CsEntryFacts ==
  ASSUME TypeOK, Uids, NEW s \in Services, cache["cs"] = s, NEW i \in Instances
  PROVE  /\ CsWrites(s)[i] \in ObjectsOf(i) \cup {None}
         /\ CsWrites(s)[i] # None => CsWrites(s)[i].uid <= troubles
         /\ cache[i] = None /\ store[i] # None => CsWrites(s)[i] = store[i]
         /\ cache[i] = None /\ store[i] = None =>
              IF s.group[i] = None THEN CsWrites(s)[i] = None
              ELSE /\ CsWrites(s)[i] # None
                   /\ CsWrites(s)[i].spec.mesh = cache["mesh"]
                   /\ CsWrites(s)[i].spec.group = s.group[i]
                   /\ CsWrites(s)[i].spec.weight = 0
         /\ cache[i] # None /\ i \notin CsRefused(s) =>
              IF s.group[i] = None THEN CsWrites(s)[i] = None
              ELSE \/ i \in stale
                   \/ /\ CsWrites(s)[i] # None
                      /\ CsWrites(s)[i].spec.mesh = cache["mesh"]
                      /\ CsWrites(s)[i].spec.group = s.group[i]
                      /\ CsWrites(s)[i].spec.weight \in {0, InstanceWeight}
<1> DEFINE built == WorkloadEntry(s, i, cache["mesh"], 0)
           respecified == [built EXCEPT !.weight = InstanceWeight]
           same == Current(i, built)
           created == Owned("cs", s, built)
<1>1. /\ i \in Objects /\ i # "se" /\ i \notin {"se", "routes"} /\ i \in Names
      /\ store[i] \in ObjectsOf(i) \cup {None} /\ cache[i] \in ObjectsOf(i) \cup {None}
      /\ None \notin ObjectsOf(i)
      /\ store[i] # None => store[i].uid <= troubles
      /\ cache[i] # None => cache[i].uid <= troubles
      /\ s # None /\ s.uid \in Nat /\ s.uid <= troubles
      /\ cache["mesh"] \in Nat
  BY Types, NameFacts, NoneAssumption, OwnFields DEF Uids, UidsOf
<1>2. InstanceWeight \in Nat
  BY Types, OwnFields DEF InstanceWeight
<1>3. s.group[i] # None => s.group[i] \in Groups
  BY OwnFields
<1>4. CASE s.group[i] = None
  <2>1. CsWrites(s)[i] = IF cache[i] = None THEN store[i] ELSE None
    BY <1>1, <1>4 DEF CsWrites, Registered
  <2>2. QED
    BY <1>1, <1>4, <2>1
<1>5. CASE s.group[i] # None
  <2>1. CsWrites(s)[i] = CsWorkloadEntry(s, i)
    BY <1>1, <1>5 DEF CsWrites, Registered
  <2>2. built = [mesh |-> cache["mesh"], group |-> s.group[i], weight |-> 0]
    BY DEF WorkloadEntry
  <2>3. /\ built \in WorkloadEntries
        /\ built.mesh = cache["mesh"] /\ built.group = s.group[i] /\ built.weight = 0
    BY <1>1, <1>3, <1>5, <2>2 DEF WorkloadEntries
  <2>4. /\ respecified \in WorkloadEntries
        /\ respecified.mesh = cache["mesh"] /\ respecified.group = s.group[i]
        /\ respecified.weight = InstanceWeight
    BY <1>1, <1>2, <1>3, <1>5, <2>2 DEF WorkloadEntries
  <2>5. /\ created \in ObjectsOf(i) /\ created.uid = s.uid /\ created.spec = built
    BY <1>1, <2>3, OwnedFacts
  <2>6. /\ same \in BOOLEAN
        /\ cache[i] # None /\ same => cache[i].spec = built
        /\ cache[i] # None /\ ~same /\ i \notin CsRefused(s) => i \notin stale
    BY <1>5 DEF Current, CsRefused, Conflicts, Registered
  <2>7. CsWorkloadEntry(s, i) = Applied(i, same, created, respecified)
    BY DEF CsWorkloadEntry
  <2> HIDE DEF built, respecified, same, created
  <2> DEFINE applied == Applied(i, same, created, respecified)
  <2>8. /\ applied \in ObjectsOf(i) \cup {None}
        /\ cache[i] = None /\ store[i] = None => applied = created
        /\ cache[i] = None /\ store[i] # None => applied = store[i]
        /\ cache[i] # None /\ same => applied = store[i]
        /\ cache[i] # None /\ ~same =>
             /\ applied \in ObjectsOf(i)
             /\ applied.uid = cache[i].uid
             /\ applied.spec = respecified
    BY <1>1, <2>4, <2>5, <2>6, AppliedFacts
  <2>9. CsWrites(s)[i] = applied
    BY <2>1, <2>7
  <2> HIDE DEF applied
  <2>10. applied # None => applied.uid <= troubles
    BY <1>1, <2>5, <2>6, <2>8
  <2>11. cache[i] = None /\ store[i] = None =>
           /\ applied # None /\ applied.spec.mesh = cache["mesh"]
           /\ applied.spec.group = s.group[i] /\ applied.spec.weight = 0
    BY <1>1, <2>3, <2>5, <2>8
  <2>12. cache[i] # None /\ i \notin stale =>
           /\ applied # None /\ applied.spec.mesh = cache["mesh"]
           /\ applied.spec.group = s.group[i] /\ applied.spec.weight \in {0, InstanceWeight}
    <3>1. i \notin stale => cache[i] = store[i]
      BY <1>1, Types
    <3>2. CASE same
      BY <1>1, <2>3, <2>6, <2>8, <3>1, <3>2
    <3>3. CASE ~same
      BY <1>1, <2>4, <2>8, <3>3
    <3>4. QED
      BY <3>2, <3>3
  <2>13. QED
    BY <1>5, <2>8, <2>9, <2>10, <2>11, <2>12
<1>6. QED
  BY <1>4, <1>5

\* What it makes of the ServiceEntry.
LEMMA CsServiceEntryFacts ==
  ASSUME TypeOK, NEW s \in Services
  PROVE  /\ CsWrites(s)["se"] \in ObjectsOf("se") \cup {None}
         /\ store["se"] # None => CsWrites(s)["se"] = store["se"]
         /\ cache["se"] = None => CsWrites(s)["se"] # None
<1>1. "se" \in Objects /\ "se" \notin Instances /\ s.uid \in Nat /\ None \notin ObjectsOf("se")
  BY NameFacts, OwnFields, NoneAssumption
<1>2. CsWrites(s)["se"] = CsServiceEntry(s)
  BY <1>1 DEF CsWrites, Registered
<1>3. Owned("cs", s, ServiceEntry) \in ObjectsOf("se")
  BY <1>1, OwnedFacts
<1>4. /\ cache["se"] = None /\ store["se"] = None => CsServiceEntry(s) = Owned("cs", s, ServiceEntry)
      /\ cache["se"] # None \/ store["se"] # None => CsServiceEntry(s) = store["se"]
  BY DEF CsServiceEntry, Applied, Exists
<1>5. store["se"] \in ObjectsOf("se") \cup {None}
  BY <1>1, Types
<1>6. QED
  BY <1>1, <1>2, <1>3, <1>4, <1>5

\* The first step.  When all its writes succeed, every WorkloadEntry and the ServiceEntry
\* is what it should be or its announcement is under way; else there will be another run.
LEMMA CsReconcileStep ==
  ASSUME IInv, CsReconcile
  PROVE  IInv'
<1>0. /\ TypeOK /\ Stamps /\ Uids /\ RunsFit /\ Without /\ EntriesFollow
      /\ WeightsFollow /\ NoWeights /\ DefaultRoutesFollow /\ RoutesFollow
  BY DEF IInv
<1> DEFINE s == cache["cs"]
           f == CsWrites(s)
<1>1. PICK done \in SUBSET (Instances \cup {"se"}) :
        /\ queue' = IF done = Instances \cup {"se"} THEN queue \ {"cs"} ELSE queue
        /\ Writes(f, CsRefused(s), done, "se" \in done => Instances \subseteq done)
        /\ csRun' = IF done = Instances \cup {"se"} /\ Unconfigured
                    THEN [cs |-> s, mesh |-> cache["mesh"]] ELSE None
        /\ Overlooks(done \ {"se"})
  BY DEF CsReconcile, CsWrites
<1>2. /\ csRun = None /\ "cs" \in queue /\ s # None /\ s \in Services
      /\ cache' = cache /\ scRun' = scRun
  BY <1>0, Types DEF CsReconcile
<1>3. /\ missed \subseteq missed' /\ missed' \subseteq missed \cup {"CreationUnseen"}
      /\ missed' = {} => \A i \in done : i # "se" /\ cache[i] = None => store[i] = None
  BY <1>1 DEF Overlooks, Exists
<1>4. done \subseteq Names /\ done \subseteq Objects
  BY NameFacts
<1> HIDE DEF f
<1>5. /\ Writing
      /\ done \cap CsRefused(s) = {}
      /\ \A n \in Names : /\ n \in done => store'[n] = f[n]
                          /\ n \notin done => store'[n] = store[n] /\ (n \in stale' => n \in stale)
      /\ troubles' \in Nat /\ troubles <= troubles'
  BY <1>0, <1>1, <1>2, <1>3, <1>4, WritesFacts
<1>6. /\ \A n \in {"cs", "sc", "mesh", "routes"} :
           n \in Names /\ store'[n] = store[n] /\ (n \in stale' => n \in stale)
      /\ \A i \in Instances : i \in Names /\ i # "se"
      /\ "se" \in Names
  BY <1>5, NameFacts
<1>7. /\ store'["cs"] = store["cs"] /\ store'["sc"] = store["sc"]
      /\ store'["mesh"] = store["mesh"] /\ store'["routes"] = store["routes"]
      /\ "mesh" \in stale' => "mesh" \in stale
      /\ cache' = cache /\ stale \subseteq stale'
  BY <1>5, <1>6 DEF Writing
<1>8. TypeOK' /\ Stamps' /\ Uids'
  <2>1. \A n \in Objects : store'[n] \in ObjectsOf(n) \cup {None}
    <3>1. ASSUME NEW i \in Instances PROVE store'[i] \in ObjectsOf(i) \cup {None}
      BY <1>0, <1>2, <1>5, <1>6, CsEntryFacts, Types, NameFacts DEF f
    <3>2. store'["se"] \in ObjectsOf("se") \cup {None}
      BY <1>0, <1>2, <1>5, <1>6, CsServiceEntryFacts, Types, NameFacts DEF f
    <3>3. store'["routes"] \in ObjectsOf("routes") \cup {None}
      BY <1>0, <1>7, Types, NameFacts
    <3>4. QED
      BY <3>1, <3>2, <3>3, NameFacts
  <2>2. \A n \in Instances : store'[n] # None => store'[n].uid <= troubles
    <3>1. \A i \in Instances : store[i] # None => store[i].uid <= troubles
      BY <1>0 DEF Uids, UidsOf
    <3>2. QED
      BY <1>0, <1>2, <1>5, <1>6, <3>1, CsEntryFacts DEF f
  <2>3. csRun' \in CsRuns \cup {None}
    BY <1>0, <1>1, <1>2, Types DEF CsRuns
  <2>4. /\ store'["sc"] \in Configs \cup {None}
        /\ store'["sc"] # None => store["sc"] # None /\ store'["sc"].gen = store["sc"].gen
        /\ scRun' \in ScRuns \cup {None}
        /\ queue' \subseteq queue \cup {"cs", "sc"}
    BY <1>0, <1>1, <1>2, <1>7 DEF TypeOK
  <2>5. QED
    BY <1>0, <1>3, <1>5, <1>7, <2>1, <2>2, <2>3, <2>4, TypesWritten
<1>9. /\ ScPending => ScPending'
      /\ MeshPending => MeshPending'
  BY <1>1, <1>3, <1>7 DEF ScPending, MeshPending
<1>10. Without'
  BY <1>0, <1>2, <1>3, <1>7 DEF Without, Exists
<1>11. WeightsFollow'
  BY <1>0, <1>5, <1>9, WeightsWritten
<1>12. RoutesFollow'
  BY <1>0, <1>2, <1>5, <1>7, <1>9, RoutesWritten
<1>13. RunsFit'
  <2>1. scRun' # None =>
          /\ ScPending' \/ scRun'.sc = cache'["sc"]
          /\ ScPending' \/ MeshPending' \/ scRun'.mesh = cache'["mesh"]
    BY <1>0, <1>2, <1>9 DEF RunsFit
  <2>2. csRun' # None => csRun'.cs = cache'["cs"] /\ csRun'.mesh = cache'["mesh"]
    BY <1>1, <1>2
  <2>3. QED
    BY <2>1, <2>2 DEF RunsFit
<1>14. EntriesFollow' /\ NoWeights' /\ DefaultRoutesFollow'
  <2>1. CASE done # Instances \cup {"se"}
    <3>1. CsPending'
      BY <1>1, <1>2, <2>1 DEF CsPending
    <3>2. QED
      BY <3>1 DEF EntriesFollow, NoWeights, DefaultRoutesFollow
  <2>2. CASE done = Instances \cup {"se"}
    <3>1. DefaultRoutesFollow'
      <4>1. cache'["sc"] = None => csRun' = [cs |-> s, mesh |-> cache["mesh"]]
        BY <1>1, <1>2, <2>2 DEF Unconfigured
      <4>2. [cs |-> s, mesh |-> cache["mesh"]] # None
        BY <1>0, <1>2, Types, NoneAssumption DEF CsRuns
      <4>3. QED
        BY <4>1, <4>2 DEF DefaultRoutesFollow
    <3>2. ASSUME NEW i \in Instances, missed' = {}
          PROVE  \/ Announced(i)'
                 \/ /\ Right(i)'
                    /\ store'[i] # None => store'[i].spec.weight \in {0, InstanceWeight}
      <4>1. store'[i] = f[i] /\ i \notin CsRefused(s) /\ i \in Objects
        BY <1>5, <1>6, <2>2, NameFacts
      <4>2. CASE cache[i] = None
        <5>1. store[i] = None
          BY <1>3, <1>6, <2>2, <3>2, <4>2
        <5>2. IF s.group[i] = None THEN f[i] = None
              ELSE /\ f[i] # None /\ f[i].spec.mesh = cache["mesh"]
                   /\ f[i].spec.group = s.group[i] /\ f[i].spec.weight = 0
          BY <1>0, <1>2, <4>2, <5>1, CsEntryFacts DEF f
        <5>3. QED
          BY <1>2, <1>6, <4>1, <5>2 DEF Right, Exists
      <4>3. CASE cache[i] # None
        <5>1. IF s.group[i] = None THEN f[i] = None
              ELSE \/ i \in stale
                   \/ /\ f[i] # None /\ f[i].spec.mesh = cache["mesh"]
                      /\ f[i].spec.group = s.group[i]
                      /\ f[i].spec.weight \in {0, InstanceWeight}
          BY <1>0, <1>2, <4>1, <4>3, CsEntryFacts DEF f
        <5>2. i \in stale => Announced(i)'
          <6>1. cache[i].owner = "cs"
            BY <1>0, <4>1, <4>3, Types, ObjectFields, NameFacts
          <6>2. QED
            BY <1>7, <4>3, <6>1, Hearing DEF Announced
        <5>3. QED
          BY <1>2, <1>6, <4>1, <5>1, <5>2 DEF Right, Exists
      <4>4. QED
        BY <4>2, <4>3
    <3>3. EntriesFollow'
      <4> SUFFICES ASSUME missed' = {}
                   PROVE  \A n \in Instances \cup {"se"} : Announced(n)' \/ Right(n)'
        BY DEF EntriesFollow, CsPending
      <4>1. Announced("se")' \/ Right("se")'
        <5>1. store'["se"] = f["se"] /\ "se" \in Objects
          BY <1>5, <1>6, <2>2, NameFacts
        <5>2. /\ store["se"] # None => f["se"] = store["se"]
              /\ cache["se"] = None => f["se"] # None
          BY <1>0, <1>2, CsServiceEntryFacts DEF f
        <5>3. CASE cache["se"] # None /\ "se" \in stale
          <6>1. cache["se"].owner = "cs"
            BY <1>0, <5>1, <5>3, Types, ObjectFields
          <6>2. QED
            BY <1>7, <5>3, <6>1, Hearing DEF Announced
        <5>4. CASE cache["se"] = None \/ "se" \notin stale
          <6>1. "se" \notin stale => store["se"] = cache["se"]
            BY <1>0, <1>6, Types
          <6>2. QED
            BY <5>1, <5>2, <5>4, <6>1 DEF Right, Exists
        <5>5. QED
          BY <5>3, <5>4
      <4>2. QED
        BY <3>2, <4>1
    <3>4. NoWeights'
      <4> SUFFICES ASSUME missed' = {}, cache["sc"] = None, NEW i \in Instances, store'[i] # None
                   PROVE  Announced(i)' \/ store'[i].spec.weight = 0
        BY <1>2 DEF NoWeights, CsPending, Exists
      <4>1. InstanceWeight = 0
        BY DEF InstanceWeight
      <4>2. QED
        BY <3>2, <4>1
    <3>5. QED
      BY <3>1, <3>3, <3>4
  <2>3. QED
    BY <2>1, <2>2
<1>15. QED
  BY <1>8, <1>10, <1>11, <1>12, <1>13, <1>14 DEF IInv

\* The second step.  While there is no ServiceConfig, and the run is one for what the cache
\* has, the routes that it leaves are the default ones, or their announcement is under way.
LEMMA CsRoutesStep ==
  ASSUME IInv, CsRoutes
  PROVE  IInv'
<1>0. /\ TypeOK /\ Stamps /\ Uids /\ RunsFit /\ Without /\ EntriesFollow
      /\ WeightsFollow /\ NoWeights /\ DefaultRoutesFollow /\ RoutesFollow
  BY DEF IInv
<1> DEFINE s == csRun.cs
           spec == CsRoute(s, csRun.mesh)
           wanted == IF Subsets(s) = {} THEN {} ELSE {"routes"}
           written == CsDefaultRoutes(s, spec)
           f == [n \in wanted |-> written]
           refused == {n \in wanted : Conflicts(n, Current(n, spec))}
           same == Current("routes", spec)
           created == Owned("cs", s, spec)
<1>1. PICK done \in SUBSET wanted :
        /\ queue' = IF done = wanted THEN queue ELSE queue \cup {"cs"}
        /\ Writes(f, refused, done, TRUE)
        /\ Overlooks(done)
  BY DEF CsRoutes
<1>2. /\ csRun # None /\ csRun' = None /\ cache' = cache /\ scRun' = scRun
  BY DEF CsRoutes
<1>3. /\ s \in Services /\ s.uid \in Nat /\ csRun.mesh \in Nat
  BY <1>0, <1>2, OwnFields DEF TypeOK, CsRuns
<1>4. spec \in Routes
  BY <1>3, SubsetsAreGroups DEF CsRoute, Routes
<1>5. /\ created \in ObjectsOf("routes") /\ created.owner = "cs" /\ created.spec = spec
  BY <1>3, <1>4, OwnedFacts
<1>6. /\ same \in BOOLEAN
      /\ cache["routes"] # None /\ same => cache["routes"].spec = spec
      /\ "routes" \in wanted /\ "routes" \notin refused /\ cache["routes"] # None /\ ~same
           => "routes" \notin stale
  BY DEF Current, Conflicts
<1>7. written = Applied("routes", same, created, spec)
  BY DEF CsDefaultRoutes
<1>8. /\ missed \subseteq missed' /\ missed' \subseteq missed \cup {"CreationUnseen"}
      /\ missed' = {} /\ "routes" \in done /\ cache["routes"] = None => store["routes"] = None
  BY <1>1 DEF Overlooks, Exists
<1>9. done \subseteq {"routes"} /\ done \subseteq Names
      /\ ("routes" \in done => "routes" \in wanted /\ f["routes"] = written)
      /\ (Subsets(s) # {} /\ done = wanted => "routes" \in done)
  BY NameFacts
<1> HIDE DEF f, refused, wanted, spec, same, created, written
<1>10. /\ "routes" \in Objects /\ "routes" \in Names /\ "routes" \notin Instances /\ "routes" # "se"
       /\ store["routes"] \in ObjectsOf("routes") \cup {None}
       /\ cache["routes"] \in ObjectsOf("routes") \cup {None}
       /\ "routes" \notin stale => cache["routes"] = store["routes"]
       /\ None \notin ObjectsOf("routes")
  BY <1>0, Types, NameFacts, NoneAssumption
<1>11. /\ written \in ObjectsOf("routes") \cup {None}
       /\ cache["routes"] = None /\ store["routes"] = None => written = created
       /\ cache["routes"] = None /\ store["routes"] # None => written = store["routes"]
       /\ cache["routes"] # None /\ same => written = store["routes"]
       /\ cache["routes"] # None /\ ~same =>
            /\ written \in ObjectsOf("routes")
            /\ written.owner = cache["routes"].owner
            /\ written.spec = spec
  BY <1>0, <1>4, <1>5, <1>6, <1>7, <1>10, AppliedFacts
<1>12. /\ Writing
       /\ done \cap refused = {}
       /\ \A n \in Names : /\ n \in done => store'[n] = f[n]
                           /\ n \notin done => store'[n] = store[n] /\ (n \in stale' => n \in stale)
       /\ troubles' \in Nat /\ troubles <= troubles'
  BY <1>0, <1>1, <1>2, <1>8, <1>9, WritesFacts
<1>13. /\ \A n \in {"cs", "sc", "mesh"} :
            n \in Names /\ store'[n] = store[n] /\ (n \in stale' => n \in stale)
       /\ \A n \in Instances \cup {"se"} : n \in Names /\ store'[n] = store[n]
  BY <1>9, <1>12, NameFacts
<1>14. /\ store'["cs"] = store["cs"] /\ store'["sc"] = store["sc"]
       /\ store'["mesh"] = store["mesh"]
       /\ "mesh" \in stale' => "mesh" \in stale
       /\ stale \subseteq stale'
  BY <1>12, <1>13 DEF Writing
<1>15. TypeOK' /\ Stamps' /\ Uids'
  <2>1. \A n \in Objects : store'[n] \in ObjectsOf(n) \cup {None}
    <3>1. store'["routes"] \in ObjectsOf("routes") \cup {None}
      BY <1>9, <1>10, <1>11, <1>12
    <3>2. QED
      BY <1>0, <1>13, <3>1, Types, NameFacts
  <2>2. \A n \in Instances : store'[n] # None => store'[n].uid <= troubles
    BY <1>0, <1>13 DEF Uids, UidsOf
  <2>3. /\ csRun' \in CsRuns \cup {None} /\ scRun' \in ScRuns \cup {None}
        /\ store'["sc"] \in Configs \cup {None}
        /\ store'["sc"] # None => store["sc"] # None /\ store'["sc"].gen = store["sc"].gen
        /\ queue' \subseteq queue \cup {"cs", "sc"}
    BY <1>0, <1>1, <1>2, <1>14 DEF TypeOK
  <2>4. QED
    BY <1>0, <1>8, <1>12, <1>14, <2>1, <2>2, <2>3, TypesWritten
<1>16. /\ CsPending => CsPending'
       /\ ScPending => ScPending'
       /\ MeshPending => MeshPending'
  BY <1>1, <1>8, <1>14 DEF CsPending, ScPending, MeshPending
<1>17. RunsFit'
  BY <1>0, <1>2, <1>12, <1>16, RunsFitWritten
<1>18. EntriesFollow'
  BY <1>0, <1>12, <1>13, <1>16, EntriesWritten
<1>19. WeightsFollow'
  BY <1>0, <1>12, <1>16, WeightsWritten
<1>20. NoWeights'
  BY <1>0, <1>12, <1>13, <1>16, NoWeightsWritten
<1>21. RoutesFollow'
  BY <1>0, <1>2, <1>12, <1>14, <1>16, RoutesWritten
<1>22. Without'
  <2> SUFFICES ASSUME missed' = {}, store["sc"] = None \/ cache["sc"] = None
               PROVE  /\ cache["sc"] = None /\ scRun = None
                      /\ store'["routes"] # None => store'["routes"].owner = "cs"
                      /\ cache["routes"] # None => cache["routes"].owner = "cs"
    BY <1>2, <1>14 DEF Without, Exists
  <2>1. /\ cache["sc"] = None /\ scRun = None
        /\ store["routes"] # None => store["routes"].owner = "cs"
        /\ cache["routes"] # None => cache["routes"].owner = "cs"
    BY <1>0, <1>8 DEF Without, Exists
  <2>2. store'["routes"] = store["routes"] \/ store'["routes"] = written
    BY <1>9, <1>10, <1>12
  <2>3. QED
    BY <1>5, <1>6, <1>11, <2>1, <2>2
<1>23. DefaultRoutesFollow'
  <2> SUFFICES ASSUME cache["cs"] # None, cache["sc"] = None, Subsets(cache["cs"]) # {},
                      ~CsPending', ~MeshPending'
               PROVE  Announced("routes")' \/ CsRight'
    BY <1>2 DEF DefaultRoutesFollow
  <2>1. s = cache["cs"] /\ csRun.mesh = cache["mesh"]
    BY <1>0, <1>2, <1>16 DEF RunsFit
  <2>2. spec = CsRoute(cache["cs"], cache["mesh"])
    BY <2>1 DEF spec
  <2>3. missed' = {} /\ missed = {}
    BY <1>8 DEF CsPending
  <2>4. "routes" \in done /\ "routes" \notin refused /\ store'["routes"] = written
    <3>1. done = wanted
      BY <1>1 DEF CsPending
    <3>2. "routes" \in done
      BY <1>9, <2>1, <3>1
    <3>3. QED
      BY <1>9, <1>10, <1>12, <3>2
  <2>5. CASE cache["routes"] = None
    <3>1. written = created
      BY <1>8, <1>11, <2>3, <2>4, <2>5
    <3>2. QED
      BY <1>2, <1>5, <1>10, <2>2, <2>4, <3>1 DEF CsRight, Exists
  <2>6. CASE cache["routes"] # None
    <3>1. cache["routes"].owner = "cs"
      BY <1>0, <2>3, <2>6 DEF Without
    <3>2. "routes" \in stale => Announced("routes")'
      BY <1>2, <1>14, <2>6, <3>1, Hearing DEF Announced
    <3>3. "routes" \notin stale => written # None /\ written.spec = spec
      BY <1>6, <1>10, <1>11, <2>6
    <3>4. "routes" \notin stale => CsRight'
      BY <1>2, <2>2, <2>4, <3>3 DEF CsRight, Exists
    <3>5. QED
      BY <3>2, <3>4
  <2>7. QED
    BY <2>5, <2>6
<1>24. QED
  BY <1>15, <1>17, <1>18, <1>19, <1>20, <1>21, <1>22, <1>23 DEF IInv

-----------------------------------------------------------------------------
(* ServiceConfig controller *)

\* What an update of the weight does to a WorkloadEntry.
LEMMA Reweighted ==
  ASSUME NEW i \in Instances, NEW x \in ObjectsOf(i), NEW w \in Nat
  PROVE  /\ [x EXCEPT !.spec.weight = w] \in ObjectsOf(i)
         /\ [x EXCEPT !.spec.weight = w].uid = x.uid
         /\ [x EXCEPT !.spec.weight = w].spec.weight = w
<1>1. ObjectsOf(i) = [owner : {"cs"}, uid : Nat, spec : [mesh : Nat, group : Groups, weight : Nat]]
  BY ObjectFacts DEF WorkloadEntries
<1>2. x \in [owner : {"cs"}, uid : Nat, spec : [mesh : Nat, group : Groups, weight : Nat]]
  BY <1>1
<1>3. /\ [x EXCEPT !.spec.weight = w]
           \in [owner : {"cs"}, uid : Nat, spec : [mesh : Nat, group : Groups, weight : Nat]]
      /\ [x EXCEPT !.spec.weight = w].uid = x.uid
      /\ [x EXCEPT !.spec.weight = w].spec.weight = w
  BY ONLY <1>2, w \in Nat
<1>4. QED
  BY ONLY <1>1, <1>3, Zenon

\* The first step.  When all its writes succeed, every WorkloadEntry that the cache knows
\* has the weight.
LEMMA ScReconcileStep ==
  ASSUME IInv, ScReconcile
  PROVE  IInv'
<1>0. /\ TypeOK /\ Stamps /\ Uids /\ RunsFit /\ Without /\ EntriesFollow
      /\ WeightsFollow /\ NoWeights /\ DefaultRoutesFollow /\ RoutesFollow
  BY DEF IInv
<1> DEFINE c == cache["sc"]
           f == ScWorkloadEntries(c)
           known == {j \in Instances : cache[j] # None}
           refused == {i \in DOMAIN f : i \in stale}
<1>1. /\ DOMAIN f = known
      /\ \A i \in known : f[i] = [cache[i] EXCEPT !.spec.weight = c.weight]
  BY DEF ScWorkloadEntries
<1>2. PICK done \in SUBSET known :
        /\ queue' = IF done = known THEN queue \ {"sc"} ELSE queue
        /\ Writes(f, refused, done, TRUE)
        /\ scRun' = IF done = known THEN [sc |-> c, mesh |-> cache["mesh"]] ELSE None
  BY <1>1 DEF ScReconcile
<1>3. /\ "sc" \in queue /\ c # None /\ c \in Configs /\ c.weight \in Nat
      /\ cache' = cache /\ csRun' = csRun /\ missed' = missed
  BY <1>0, Types, OwnFields DEF ScReconcile
<1>4. refused = known \cap stale
  BY <1>1
<1> HIDE DEF f, refused
<1>5. done \subseteq Names
  BY NameFacts
<1>6. /\ Writing
      /\ done \cap refused = {}
      /\ \A n \in Names : /\ n \in done => store'[n] = f[n]
                          /\ n \notin done => store'[n] = store[n] /\ (n \in stale' => n \in stale)
      /\ troubles' \in Nat /\ troubles <= troubles'
  BY <1>0, <1>2, <1>3, <1>5, WritesFacts
<1>7. /\ \A n \in {"cs", "sc", "mesh", "routes", "se"} :
           n \in Names /\ store'[n] = store[n] /\ (n \in stale' => n \in stale)
      /\ \A i \in Instances : i \in Names /\ i \in Objects
  BY <1>6, NameFacts
<1>8. /\ store'["cs"] = store["cs"] /\ store'["sc"] = store["sc"]
      /\ store'["mesh"] = store["mesh"] /\ store'["routes"] = store["routes"]
      /\ "mesh" \in stale' => "mesh" \in stale
      /\ stale \subseteq stale'
  BY <1>6, <1>7 DEF Writing
<1>9. \A i \in done : /\ i \in Instances /\ cache[i] # None /\ cache[i] \in ObjectsOf(i)
                      /\ store[i] = cache[i]
                      /\ store'[i] = [cache[i] EXCEPT !.spec.weight = c.weight]
  BY <1>0, <1>1, <1>4, <1>6, <1>7, Types
<1>10. \A i \in done : /\ store'[i] \in ObjectsOf(i) /\ store'[i].uid = cache[i].uid
                       /\ store'[i].spec.weight = c.weight
  <2> TAKE i \in done
  <2>1. /\ i \in Instances /\ cache[i] \in ObjectsOf(i)
        /\ store'[i] = [cache[i] EXCEPT !.spec.weight = c.weight]
    BY <1>9
  <2> DEFINE x == cache[i]
             w == c.weight
  <2>2. x \in ObjectsOf(i) /\ w \in Nat /\ store'[i] = [x EXCEPT !.spec.weight = w]
    BY <1>3, <2>1
  <2> HIDE DEF x, w
  <2>3. /\ [x EXCEPT !.spec.weight = w] \in ObjectsOf(i)
        /\ [x EXCEPT !.spec.weight = w].uid = x.uid
        /\ [x EXCEPT !.spec.weight = w].spec.weight = w
    BY <2>1, <2>2, Reweighted
  <2>4. store'[i] \in ObjectsOf(i) /\ store'[i].uid = x.uid /\ store'[i].spec.weight = w
    BY ONLY <2>2, <2>3, Zenon
  <2>5. QED
    BY <2>4 DEF x, w
<1>11. TypeOK' /\ Stamps' /\ Uids'
  <2>1. \A n \in Objects : store'[n] \in ObjectsOf(n) \cup {None}
    BY <1>0, <1>6, <1>7, <1>10, Types, NameFacts
  <2>2. \A n \in Instances : store'[n] # None => store'[n].uid <= troubles
    BY <1>0, <1>6, <1>7, <1>9, <1>10 DEF Uids, UidsOf
  <2>3. /\ csRun' \in CsRuns \cup {None} /\ scRun' \in ScRuns \cup {None}
        /\ store'["sc"] \in Configs \cup {None}
        /\ store'["sc"] # None => store["sc"] # None /\ store'["sc"].gen = store["sc"].gen
        /\ queue' \subseteq queue \cup {"cs", "sc"}
    BY <1>0, <1>2, <1>3, <1>8 DEF TypeOK, ScRuns
  <2>4. QED
    BY <1>0, <1>3, <1>6, <1>8, <2>1, <2>2, <2>3, TypesWritten
<1>12. /\ CsPending => CsPending'
       /\ MeshPending => MeshPending'
  BY <1>2, <1>3, <1>8 DEF CsPending, MeshPending
<1>13. \A n \in Instances \cup {"se"} : store'[n] # store[n] => cache[n] # None
  BY <1>6, <1>7, <1>9
<1>14. Without'
  BY <1>0, <1>3, <1>8 DEF Without
<1>15. EntriesFollow'
  BY <1>0, <1>6, <1>12, <1>13, EntriesWritten
<1>16. NoWeights' /\ DefaultRoutesFollow'
  BY <1>3 DEF NoWeights, DefaultRoutesFollow
<1>17. RunsFit'
  <2>1. csRun' # None =>
          /\ CsPending' \/ csRun'.cs = cache'["cs"]
          /\ CsPending' \/ MeshPending' \/ csRun'.mesh = cache'["mesh"]
    BY <1>0, <1>3, <1>12 DEF RunsFit
  <2>2. scRun' # None => scRun'.sc = cache'["sc"] /\ scRun'.mesh = cache'["mesh"]
    BY <1>2, <1>3
  <2>3. QED
    BY <2>1, <2>2 DEF RunsFit
<1>18. WeightsFollow' /\ RoutesFollow'
  <2>1. CASE done # known
    <3>1. ScPending'
      BY <1>2, <1>3, <2>1 DEF ScPending
    <3>2. QED
      BY <3>1 DEF WeightsFollow, RoutesFollow
  <2>2. CASE done = known
    <3>1. RoutesFollow'
      <4>1. scRun' = [sc |-> c, mesh |-> cache["mesh"]]
        BY <1>2, <2>2
      <4>2. [sc |-> c, mesh |-> cache["mesh"]] # None
        BY <1>0, <1>3, Types, NoneAssumption DEF ScRuns
      <4>3. QED
        BY <4>1, <4>2 DEF RoutesFollow
    <3>2. ASSUME NEW i \in Instances, i \notin stale', Exists(i)'
          PROVE  store'[i].spec.weight = c.weight
      <4>1. i \notin stale /\ cache[i] = store[i]
        BY <1>0, <1>7, <1>8, <3>2, Types
      <4>2. i \in done
        BY <1>6, <1>7, <2>2, <3>2, <4>1 DEF Exists
      <4>3. QED
        BY <1>10, <4>2
    <3>3. QED
      BY <1>3, <3>1, <3>2 DEF WeightsFollow
  <2>3. QED
    BY <2>1, <2>2
<1>19. QED
  BY <1>11, <1>14, <1>15, <1>16, <1>17, <1>18 DEF IInv

\* A new status leaves the rest of a ServiceConfig.
LEMMA StatusFacts ==
  ASSUME NEW x \in Configs, cache["sc"] = x
  PROVE  /\ ScStatus \in Configs /\ ScStatus # None
         /\ ScStatus.uid = x.uid /\ ScStatus.gen = x.gen
<1>1. Phase \in {"", "Undistributed", "Distributing", "Distributed"}
  BY DEF Phase
<1>2. ScStatus = [x EXCEPT !.phase = Phase]
  BY DEF ScStatus
<1> DEFINE phase == Phase
<1> HIDE DEF phase
<1>3. x \in [uid : Nat, weight : Nat, gen : Nat,
             phase : {"", "Undistributed", "Distributing", "Distributed"}]
  BY DEF Configs
<1>4. /\ phase \in {"", "Undistributed", "Distributing", "Distributed"}
      /\ ScStatus = [x EXCEPT !.phase = phase]
  BY <1>1, <1>2 DEF phase
<1>5. /\ ScStatus \in [uid : Nat, weight : Nat, gen : Nat,
                       phase : {"", "Undistributed", "Distributing", "Distributed"}]
      /\ ScStatus.uid = x.uid /\ ScStatus.gen = x.gen
  BY ONLY <1>3, <1>4
<1>6. ScStatus \in Configs
  BY <1>5 DEF Configs
<1>7. QED
  BY <1>5, <1>6, OwnFields

\* The second step.  When the service has subsets and the run is one for what the cache
\* has, the routes that it leaves are those of the ServiceConfig, or their announcement is
\* under way.
LEMMA ScRoutesStep ==
  ASSUME IInv, ScRoutes
  PROVE  IInv'
<1>0. /\ TypeOK /\ Stamps /\ Uids /\ RunsFit /\ Without /\ EntriesFollow
      /\ WeightsFollow /\ NoWeights /\ DefaultRoutesFollow /\ RoutesFollow
  BY DEF IInv
<1> DEFINE c == scRun.sc
           s == cache["cs"]
           spec == ScRoute(c, s, scRun.mesh)
           wanted == (IF Subsets(s) = {} THEN {} ELSE {"routes"})
                       \cup (IF cache["sc"] = None \/ c.phase = Phase THEN {} ELSE {"sc"})
           written == ScRoutesApplied(c, spec)
           f == [n \in wanted |-> IF n = "sc" THEN ScStatus ELSE written]
           refused == {n \in wanted : Conflicts(n, n = "routes" /\ Current(n, spec))}
           same == Current("routes", spec)
           created == Owned("sc", c, spec)
<1>1. PICK done \in SUBSET wanted :
        /\ queue' = IF done = wanted THEN queue ELSE queue \cup {"sc"}
        /\ Writes(f, refused, done, "sc" \in done => wanted \subseteq done)
  BY DEF ScRoutes
<1>2. /\ scRun # None /\ scRun' = None /\ cache' = cache /\ csRun' = csRun
      /\ missed \subseteq missed' /\ missed' \subseteq missed \cup {"SubsetsUnseen"}
      /\ missed' = {} /\ Subsets(s) = {} => \A i \in Instances : ~Lasting(i)
  BY DEF ScRoutes
<1>3. /\ c \in Configs /\ c.uid \in Nat /\ scRun.mesh \in Nat /\ s \in Services \cup {None}
  BY <1>0, <1>2, Types, OwnFields DEF TypeOK, ScRuns
<1>4. /\ spec \in Routes
      /\ spec.form = "sc" /\ spec.mesh = scRun.mesh /\ spec.weight = c.weight
  BY <1>3, RoutesBuilt
<1>5. /\ created \in ObjectsOf("routes") /\ created.spec = spec
  BY <1>3, <1>4, OwnedFacts
<1>6. /\ same \in BOOLEAN
      /\ cache["routes"] # None /\ same => cache["routes"].spec = spec
      /\ "sc" \in wanted => cache["sc"] # None
      /\ "sc" \in wanted /\ "sc" \notin refused => "sc" \notin stale
  BY DEF Current, Conflicts
<1>7. written = Applied("routes", same, created, spec)
  BY DEF ScRoutesApplied
<1>8. done \subseteq {"routes", "sc"} /\ done \subseteq Names
      /\ ("routes" \in done => f["routes"] = written)
      /\ ("sc" \in done => "sc" \in wanted /\ f["sc"] = ScStatus)
      /\ (Subsets(s) # {} /\ done = wanted => "routes" \in done)
  BY NameFacts
<1> HIDE DEF f, refused, wanted, spec, same, created, written
<1>9. /\ "routes" \in Objects /\ "routes" \in Names /\ "routes" \notin Instances /\ "routes" # "se"
      /\ "sc" \in Names
      /\ store["routes"] \in ObjectsOf("routes") \cup {None}
      /\ cache["routes"] \in ObjectsOf("routes") \cup {None}
      /\ "routes" \notin stale => cache["routes"] = store["routes"]
      /\ "sc" \notin stale => cache["sc"] = store["sc"]
      /\ None \notin ObjectsOf("routes")
  BY <1>0, Types, NameFacts, NoneAssumption
<1>10. /\ written \in ObjectsOf("routes") \cup {None}
       /\ cache["routes"] = None /\ store["routes"] = None => written = created
       /\ cache["routes"] = None /\ store["routes"] # None => written = store["routes"]
       /\ cache["routes"] # None /\ same => written = store["routes"]
       /\ cache["routes"] # None /\ ~same => written \in ObjectsOf("routes") /\ written.spec = spec
  BY <1>0, <1>4, <1>5, <1>6, <1>7, <1>9, AppliedFacts
<1>11. /\ Writing
       /\ done \cap refused = {}
       /\ \A n \in Names : /\ n \in done => store'[n] = f[n]
                           /\ n \notin done => store'[n] = store[n] /\ (n \in stale' => n \in stale)
       /\ troubles' \in Nat /\ troubles <= troubles'
  BY <1>0, <1>1, <1>2, <1>8, WritesFacts
<1>12. /\ \A n \in {"cs", "mesh"} :
            n \in Names /\ store'[n] = store[n] /\ (n \in stale' => n \in stale)
       /\ \A n \in Instances \cup {"se"} : n \in Names /\ store'[n] = store[n]
  BY <1>8, <1>11, NameFacts
<1>13. /\ store'["cs"] = store["cs"] /\ store'["mesh"] = store["mesh"]
       /\ "mesh" \in stale' => "mesh" \in stale
       /\ stale \subseteq stale'
  BY <1>11, <1>12 DEF Writing
<1>14. /\ store'["sc"] \in Configs \cup {None}
       /\ store'["sc"] # None => store["sc"] # None /\ store'["sc"].gen = store["sc"].gen
       /\ store["sc"] # None => store'["sc"] # None
  <2>1. CASE "sc" \in done
    <3>1. store["sc"] = cache["sc"] /\ store["sc"] \in Configs
      BY <1>0, <1>6, <1>8, <1>9, <1>11, <2>1, Types
    <3>2. store'["sc"] = ScStatus
      BY <1>8, <1>9, <1>11, <2>1
    <3>3. cache["sc"] \in Configs
      BY <3>1
    <3>4. /\ ScStatus \in Configs /\ ScStatus # None
          /\ ScStatus.gen = cache["sc"].gen
      BY <3>3, StatusFacts
    <3>5. store["sc"] # None
      BY <3>1, OwnFields
    <3>6. QED
      BY <3>1, <3>2, <3>4, <3>5
  <2>2. CASE "sc" \notin done
    BY <1>0, <1>9, <1>11, <2>2, Types
  <2>3. QED
    BY <2>1, <2>2
<1>15. TypeOK' /\ Stamps' /\ Uids'
  <2>1. \A n \in Objects : store'[n] \in ObjectsOf(n) \cup {None}
    <3>1. store'["routes"] \in ObjectsOf("routes") \cup {None}
      BY <1>8, <1>9, <1>10, <1>11
    <3>2. QED
      BY <1>0, <1>12, <3>1, Types, NameFacts
  <2>2. \A n \in Instances : store'[n] # None => store'[n].uid <= troubles
    BY <1>0, <1>12 DEF Uids, UidsOf
  <2>3. /\ csRun' \in CsRuns \cup {None} /\ scRun' \in ScRuns \cup {None}
        /\ queue' \subseteq queue \cup {"cs", "sc"}
    BY <1>0, <1>1, <1>2 DEF TypeOK
  <2>4. QED
    BY <1>0, <1>2, <1>11, <1>13, <1>14, <2>1, <2>2, <2>3, TypesWritten
<1>16. /\ CsPending => CsPending'
       /\ ScPending => ScPending'
       /\ MeshPending => MeshPending'
  BY <1>1, <1>2, <1>13 DEF CsPending, ScPending, MeshPending
<1>17. RunsFit'
  BY <1>0, <1>2, <1>11, <1>16, RunsFitWritten
<1>18. EntriesFollow'
  BY <1>0, <1>11, <1>12, <1>16, EntriesWritten
<1>19. WeightsFollow'
  BY <1>0, <1>11, <1>16, WeightsWritten
<1>20. NoWeights'
  BY <1>0, <1>11, <1>12, <1>16, NoWeightsWritten
<1>21. missed' = {} => store["sc"] # None /\ cache["sc"] # None
  BY <1>0, <1>2 DEF Without
<1>22. Without' /\ DefaultRoutesFollow'
  BY <1>2, <1>14, <1>21 DEF Without, DefaultRoutesFollow, CsPending
<1>23. RoutesFollow'
  <2> SUFFICES ASSUME cache["sc"] # None, ~ScPending', ~MeshPending', "routes" \notin stale'
               PROVE  ScRight' \/ \A i \in Instances : ~Lasting(i)'
    BY <1>2 DEF RoutesFollow
  <2>1. c = cache["sc"] /\ scRun.mesh = cache["mesh"]
    BY <1>0, <1>2, <1>16 DEF RunsFit
  <2>2. missed' = {}
    BY DEF ScPending
  <2>3. CASE Subsets(s) = {}
    BY <1>0, <1>2, <1>11, <1>13, <2>2, <2>3, NothingLasts
  <2>4. CASE Subsets(s) # {}
    <3>1. "routes" \in done /\ store'["routes"] = written
      <4>1. done = wanted
        BY <1>1 DEF ScPending
      <4>2. QED
        BY <1>8, <1>9, <1>11, <2>4, <4>1
    <3>2. store'["routes"] = store["routes"] /\ "routes" \notin stale
      BY <1>9, <1>11 DEF Writing
    <3>3. written # None /\ written.spec = spec
      BY <1>5, <1>6, <1>9, <1>10, <3>1, <3>2
    <3>4. QED
      BY <1>2, <1>4, <2>1, <3>1, <3>3 DEF ScRight, Exists
  <2>5. QED
    BY <2>3, <2>4
<1>24. QED
  BY <1>15, <1>17, <1>18, <1>19, <1>20, <1>22, <1>23 DEF IInv

-----------------------------------------------------------------------------
(* The MeshConfig controller, and requests for what is gone *)

\* A stamp leaves the rest of what it is put on.
LEMMA Stamped ==
  ASSUME NEW g \in Nat
  PROVE  /\ \A x \in Services : /\ [x EXCEPT !.gen = g] \in Services
                                /\ [x EXCEPT !.gen = g].gen = g
                                /\ [x EXCEPT !.gen = g].uid = x.uid
         /\ \A x \in Configs : /\ [x EXCEPT !.gen = g] \in Configs
                               /\ [x EXCEPT !.gen = g].gen = g
  BY DEF Services, Configs

\* While the MeshConfig controller has work, the ConfiguredService and the ServiceConfig
\* have old stamps: it writes both, and that wakes their controllers, or it notes the
\* failure.
LEMMA MeshConfigStep ==
  ASSUME IInv, MeshConfigReconcile
  PROVE  IInv'
<1>0. /\ TypeOK /\ Stamps /\ Uids /\ RunsFit /\ Without /\ EntriesFollow
      /\ WeightsFollow /\ NoWeights /\ DefaultRoutesFollow /\ RoutesFollow
  BY DEF IInv
<1> DEFINE m == cache["mesh"]
           due == {n \in {"sc", "cs"} : cache[n] # None /\ cache[n].gen # cache["mesh"]}
<1>1. PICK done \in SUBSET (due \ stale) :
        /\ store' = [n \in Names |-> IF n \in done THEN [store[n] EXCEPT !.gen = m] ELSE store[n]]
        /\ stale' = stale \cup done
        /\ IF done = due \ stale THEN troubles' = troubles /\ missed' = missed
           ELSE /\ troubles' = troubles + 1
                /\ missed' = missed \cup {"StampFailed"}
  BY DEF MeshConfigReconcile, Trouble
<1>2. /\ "mesh" \in queue /\ queue' = queue \ {"mesh"}
      /\ cache' = cache /\ csRun' = csRun /\ scRun' = scRun
  BY DEF MeshConfigReconcile
<1>3. /\ m \in Nat /\ troubles \in Nat /\ troubles' \in Nat /\ troubles <= troubles'
      /\ missed \subseteq missed' /\ missed' \subseteq missed \cup {"StampFailed"}
  BY <1>0, <1>1, Types DEF TypeOK
<1>4. /\ {"cs", "sc", "mesh", "routes", "se"} \subseteq Names /\ Instances \subseteq Names
      /\ Objects \subseteq Names
      /\ \A n \in Objects : n \notin {"cs", "sc", "mesh"}
  BY NameFacts DEF Controllers
<1>5. /\ DOMAIN store' = Names
      /\ \A n \in Names : /\ n \in done => store'[n] = [store[n] EXCEPT !.gen = m]
                          /\ n \notin done => store'[n] = store[n]
  BY <1>1
<1>6. /\ done \subseteq {"cs", "sc"}
      /\ \A n \in done : store[n] = cache[n] /\ cache[n] # None
  BY <1>0, <1>4, Types
<1>7. Writing
  BY <1>0, <1>1, <1>2, <1>3, <1>4, <1>5, <1>6, Types DEF Writing
<1>8. /\ store'["mesh"] = store["mesh"]
      /\ \A n \in Objects : store'[n] = store[n]
      /\ "mesh" \in stale' => "mesh" \in stale
  BY <1>1, <1>4, <1>5, <1>6
<1>9. /\ store'["cs"] \in Services \cup {None}
      /\ store["cs"] = None <=> store'["cs"] = None
      /\ store["cs"] # None => store'["cs"].uid = store["cs"].uid
      /\ store["cs"] # None => store'["cs"].gen \in {m, store["cs"].gen}
  <2>1. store["cs"] \in Services \cup {None} /\ None \notin Services
    BY <1>0, Types, NoneAssumption
  <2>2. CASE "cs" \in done
    <3> DEFINE x == [store["cs"] EXCEPT !.gen = m]
    <3>1. store["cs"] \in Services /\ store'["cs"] = x
      BY <1>4, <1>5, <1>6, <2>1, <2>2
    <3>2. /\ x \in Services /\ x.gen = m
          /\ x.uid = store["cs"].uid
      BY <1>3, <3>1, Stamped
    <3> HIDE DEF x
    <3>3. QED
      BY <2>1, <3>1, <3>2
  <2>3. CASE "cs" \notin done
    BY <1>4, <1>5, <2>1, <2>3
  <2>4. QED
    BY <2>2, <2>3
<1>10. /\ store'["sc"] \in Configs \cup {None}
       /\ store["sc"] = None <=> store'["sc"] = None
       /\ store["sc"] # None => store'["sc"].gen \in {m, store["sc"].gen}
  <2>1. store["sc"] \in Configs \cup {None} /\ None \notin Configs
    BY <1>0, Types, NoneAssumption
  <2>2. CASE "sc" \in done
    <3> DEFINE x == [store["sc"] EXCEPT !.gen = m]
    <3>1. store["sc"] \in Configs /\ store'["sc"] = x
      BY <1>4, <1>5, <1>6, <2>1, <2>2
    <3>2. /\ x \in Configs /\ x.gen = m
      BY <1>3, <3>1, Stamped
    <3> HIDE DEF x
    <3>3. QED
      BY <2>1, <3>1, <3>2
  <2>3. CASE "sc" \notin done
    BY <1>4, <1>5, <2>1, <2>3
  <2>4. QED
    BY <2>2, <2>3
<1>11. TypeOK'
  <2>1. \A n \in Names : n \notin stale' => cache'[n] = store'[n]
    BY <1>0, <1>7, Types DEF Writing
  <2>2. /\ DOMAIN cache' = Names /\ cache'["cs"] \in Services \cup {None}
        /\ cache'["sc"] \in Configs \cup {None} /\ cache'["mesh"] \in Nat
        /\ \A n \in Objects : cache'[n] \in ObjectsOf(n) \cup {None}
    BY <1>0, <1>2 DEF TypeOK
  <2>3. store'["mesh"] \in Nat /\ \A n \in Objects : store'[n] \in ObjectsOf(n) \cup {None}
    BY <1>0, <1>8, Types
  <2>4. /\ queue' \subseteq Controllers /\ stale' \subseteq Names
        /\ csRun' \in CsRuns \cup {None} /\ scRun' \in ScRuns \cup {None}
        /\ missed' \subseteq {"ConfigDeleted", "StampFailed", "CreationUnseen", "SubsetsUnseen"}
    BY <1>0, <1>2, <1>3, <1>7 DEF TypeOK, Writing
  <2>5. QED
    BY <1>3, <1>5, <1>9, <1>10, <2>1, <2>2, <2>3, <2>4 DEF TypeOK
<1>12. Stamps'
  <2>1. StampsOf(store)'
    BY <1>0, <1>2, <1>3, <1>9, <1>10 DEF Stamps, StampsOf
  <2>2. StampsOf(cache)'
    BY <1>0, <1>2 DEF Stamps, StampsOf
  <2>3. QED
    BY <1>0, <1>2, <1>8, <2>1, <2>2 DEF Stamps
<1>13. Uids'
  <2>1. \A n \in Instances \cup {"cs"} : store'[n] # None =>
          store[n] # None /\ store'[n].uid = store[n].uid /\ store[n].uid \in Nat
    BY <1>0, <1>8, <1>9, Types, ObjectFields, OwnFields, NameFacts
  <2>2. \A n \in Instances \cup {"cs"} : cache[n] # None => cache[n].uid \in Nat
    BY <1>0, Types, ObjectFields, OwnFields, NameFacts
  <2>3. QED
    BY <1>0, <1>2, <1>3, <2>1, <2>2 DEF Uids, UidsOf
<1>14. /\ CsPending => CsPending'
       /\ ScPending => ScPending'
       /\ cache["cs"] # None => CsPending'
       /\ cache["sc"] # None => ScPending'
  <2>1. /\ CsPending => CsPending'
        /\ ScPending => ScPending'
    BY <1>1, <1>2, <1>3 DEF CsPending, ScPending
  <2>2. /\ cache["cs"] # None => "cs" \in due
        /\ cache["sc"] # None => "sc" \in due
    <3>1. \A n \in {"cs", "sc"} : cache[n] # None => cache[n].gen < m /\ cache[n].gen \in Nat
      BY <1>0, <1>2, Types, OwnFields DEF Stamps, StampsOf
    <3>2. QED
      BY <1>3, <3>1
  <2>3. /\ "cs" \in due => CsPending'
        /\ "sc" \in due => ScPending'
    BY <1>1 DEF CsPending, ScPending
  <2>4. QED
    BY <2>1, <2>2, <2>3
<1>15. RunsFit'
  BY <1>0, <1>2, <1>7, <1>14, RunsFitWritten
<1>16. Without'
  BY <1>0, <1>2, <1>3, <1>4, <1>8, <1>10, NameFacts DEF Without, Exists
<1>17. \A n \in Instances \cup {"se", "routes"} : store'[n] = store[n]
  BY <1>8, NameFacts
<1>18. EntriesFollow'
  BY <1>0, <1>7, <1>14, <1>17, EntriesWritten
<1>19. WeightsFollow'
  BY <1>0, <1>7, <1>14, WeightsWritten
<1>20. NoWeights'
  BY <1>0, <1>7, <1>14, <1>17, NoWeightsWritten
<1>21. DefaultRoutesFollow'
  BY <1>2, <1>14 DEF DefaultRoutesFollow
<1>22. RoutesFollow'
  BY <1>2, <1>14 DEF RoutesFollow
<1>23. QED
  BY <1>11, <1>12, <1>13, <1>15, <1>16, <1>18, <1>19, <1>20, <1>21, <1>22 DEF IInv

\* A request for what the cache does not have any more is done with.
LEMMA SkipStep ==
  ASSUME IInv, NEW controller \in {"cs", "sc"}, Skip(controller)
  PROVE  IInv'
<1>0. /\ TypeOK /\ Stamps /\ Uids /\ RunsFit /\ Without /\ EntriesFollow
      /\ WeightsFollow /\ NoWeights /\ DefaultRoutesFollow /\ RoutesFollow
  BY DEF IInv
<1>1. /\ cache[controller] = None /\ queue' = queue \ {controller}
      /\ controller = "cs" => csRun = None
      /\ controller = "sc" => scRun = None
      /\ store' = store /\ cache' = cache /\ stale' = stale
      /\ csRun' = csRun /\ scRun' = scRun /\ troubles' = troubles /\ missed' = missed
  BY DEF Skip, kubeVars
<1>2. TypeOK'
  BY <1>0, <1>1 DEF TypeOK
<1>3. Stamps'
  BY <1>0, <1>1 DEF Stamps, StampsOf
<1>4. Uids'
  BY <1>0, <1>1 DEF Uids, UidsOf
<1>5. Without'
  BY <1>0, <1>1 DEF Without, Exists
<1>6. /\ controller = "sc" => (CsPending' <=> CsPending)
      /\ controller = "cs" => (ScPending' <=> ScPending)
      /\ MeshPending' <=> MeshPending
  BY <1>1 DEF CsPending, ScPending, MeshPending
<1>7. RunsFit'
  BY <1>0, <1>1, <1>6 DEF RunsFit
<1>8. \A n \in Names : Announced(n)' <=> Announced(n)
  BY <1>1 DEF Announced
<1>9. EntriesFollow' /\ NoWeights' /\ DefaultRoutesFollow'
  <2>1. CASE controller = "cs"
    BY <1>1, <2>1 DEF EntriesFollow, NoWeights, DefaultRoutesFollow
  <2>2. CASE controller = "sc"
    <3>1. \A n \in Instances \cup {"se", "routes"} : n \in Names
      BY NameFacts
    <3>2. \A n \in Instances \cup {"se"} : Right(n) => Right(n)'
      BY <1>1 DEF Right, Exists
    <3>3. EntriesFollow'
      BY <1>0, <1>1, <1>6, <1>8, <2>2, <3>1, <3>2 DEF EntriesFollow
    <3>4. NoWeights'
      BY <1>0, <1>1, <1>6, <1>8, <2>2, <3>1 DEF NoWeights, Exists
    <3>5. DefaultRoutesFollow'
      BY <1>0, <1>1, <1>6, <1>8, <2>2, <3>1 DEF DefaultRoutesFollow, CsRight, Exists
    <3>6. QED
      BY <3>3, <3>4, <3>5
  <2>3. QED
    BY <2>1, <2>2
<1>10. WeightsFollow' /\ RoutesFollow'
  <2>1. CASE controller = "sc"
    BY <1>1, <2>1 DEF WeightsFollow, RoutesFollow
  <2>2. CASE controller = "cs"
    <3>1. WeightsFollow'
      BY <1>0, <1>1, <1>6, <2>2 DEF WeightsFollow, Exists
    <3>2. RoutesFollow'
      BY <1>0, <1>1, <1>6, <2>2 DEF RoutesFollow, ScRight, Lasting, Garbage, Exists
    <3>3. QED
      BY <3>1, <3>2
  <2>3. QED
    BY <2>1, <2>2
<1>11. QED
  BY <1>2, <1>3, <1>4, <1>5, <1>7, <1>9, <1>10 DEF IInv

-----------------------------------------------------------------------------
(* Theorems *)

\* Every step keeps the invariant.
LEMMA NextIInv ==
  IInv /\ [Next]_vars => IInv'
<1> SUFFICES ASSUME IInv, [Next]_vars
             PROVE  IInv'
  OBVIOUS
<1>1. CASE Environment
  BY <1>1, EnvironmentStep
<1>2. CASE \E n \in Names : Sync(n)
  BY <1>2, SyncStep
<1>3. CASE Collect
  BY <1>3, CollectStep
<1>4. CASE Resync
  BY <1>4, ResyncStep
<1>5. CASE ConfiguredServiceController
  BY <1>5, CsReconcileStep, CsRoutesStep, SkipStep DEF ConfiguredServiceController
<1>6. CASE ServiceConfigController
  BY <1>6, ScReconcileStep, ScRoutesStep, SkipStep DEF ServiceConfigController
<1>7. CASE MeshConfigController
  BY <1>7, MeshConfigStep DEF MeshConfigController
<1>8. CASE UNCHANGED vars
  <2>1. /\ store' = store /\ cache' = cache /\ stale' = stale /\ queue' = queue
        /\ csRun' = csRun /\ scRun' = scRun /\ troubles' = troubles /\ missed' = missed
    BY <1>8 DEF vars, kubeVars, runVars
  <2>2. TypeOK' /\ Stamps' /\ Uids' /\ RunsFit' /\ Without'
    BY <2>1 DEF IInv, TypeOK, Stamps, StampsOf, Uids, UidsOf, RunsFit, CsPending, ScPending,
                MeshPending, Without, Exists
  <2>3. EntriesFollow' /\ WeightsFollow' /\ NoWeights'
    BY <2>1 DEF IInv, EntriesFollow, WeightsFollow, NoWeights, CsPending, ScPending,
                MeshPending, Announced, Right, Exists
  <2>4. DefaultRoutesFollow' /\ RoutesFollow'
    BY <2>1 DEF IInv, DefaultRoutesFollow, RoutesFollow, CsPending, ScPending, MeshPending,
                Announced, CsRight, ScRight, Lasting, Garbage, Exists
  <2>5. QED
    BY <2>2, <2>3, <2>4 DEF IInv
<1>9. QED
  BY <1>1, <1>2, <1>3, <1>4, <1>5, <1>6, <1>7, <1>8 DEF Next, Work

\* The inductive invariant holds at all times.
THEOREM AlwaysIInv == Spec => []IInv
<1>1. Init => IInv
  BY InitIInv
<1>2. IInv /\ [Next]_vars => IInv'
  BY NextIInv
<1>3. QED
  BY <1>1, <1>2, PTL DEF Spec

\* The variables have their types, and a cached copy that is not stale is the newest one.
THEOREM TypeCorrect == Spec => []TypeOK
<1>1. IInv => TypeOK
  BY DEF IInv
<1>2. QED
  BY <1>1, AlwaysIInv, PTL

\* What the invariant says when nothing is under way: the copies are the objects, and what
\* is there is what the controllers left.
LEMMA AtRest ==
  ASSUME IInv, Settled, missed = {}
  PROVE  /\ \A n \in Names : cache[n] = store[n]
         /\ stale = {} /\ csRun = None /\ scRun = None
         /\ ~CsPending /\ ~ScPending /\ ~MeshPending
         /\ \A n \in Objects : ~Announced(n) /\ ~Garbage(n)
<1>1. \A n \in Names : cache[n] = store[n]
  BY Types DEF IInv, Settled
<1>2. QED
  BY <1>1 DEF Settled, CsPending, ScPending, MeshPending, Announced, Names

\* What a WorkloadEntry says is known by its three fields.
LEMMA EntryFields ==
  ASSUME NEW x \in WorkloadEntries, NEW s, NEW i, NEW m, NEW w,
         x.mesh = m, x.group = s.group[i], x.weight = w
  PROVE  x = WorkloadEntry(s, i, m, w)
<1>1. x = [mesh |-> x.mesh, group |-> x.group, weight |-> x.weight]
  BY DEF WorkloadEntries
<1>2. QED
  BY <1>1 DEF WorkloadEntry

\* Routes are known by their four fields.
LEMMA RouteFields ==
  ASSUME NEW x \in Routes, NEW s, NEW c, NEW m,
         x.form = "sc", x.mesh = m, x.weight = c.weight
  PROVE  [x EXCEPT !.subsets = ScRoute(c, s, m).subsets] = ScRoute(c, s, m)
<1> DEFINE subsets == Subsets(s)
<1>1. ScRoute(c, s, m) = [form |-> "sc", mesh |-> m, subsets |-> subsets, weight |-> c.weight]
  BY DEF ScRoute
<1>2. x = [form |-> x.form, mesh |-> x.mesh, subsets |-> x.subsets, weight |-> x.weight]
  BY DEF Routes
<1> HIDE DEF subsets
<1>3. ScRoute(c, s, m).subsets = subsets
  BY <1>1
<1>4. [x EXCEPT !.subsets = subsets]
        = [form |-> x.form, mesh |-> x.mesh, subsets |-> subsets, weight |-> x.weight]
  BY <1>2
<1>5. QED
  BY <1>1, <1>3, <1>4

\* At rest, the WorkloadEntries and the ServiceEntry are what they should be.
LEMMA WorkloadsAtRest ==
  ASSUME IInv, Settled, missed = {}
  PROVE  WorkloadsInSync
<1>0. /\ TypeOK /\ EntriesFollow /\ WeightsFollow /\ NoWeights
  BY DEF IInv
<1> DEFINE s == store["cs"]
           c == store["sc"]
           m == store["mesh"]
<1>1. cache["cs"] = s /\ cache["sc"] = c /\ cache["mesh"] = m
  BY AtRest, NameFacts
<1>2. s \in Services \cup {None} /\ c \in Configs \cup {None} /\ m \in Nat
  BY <1>0, Types
<1> SUFFICES ASSUME NEW n \in Instances \cup {"se"}
             PROVE  Matches(n, FALSE)
  BY DEF WorkloadsInSync
<1>3. /\ n \in Objects /\ n # "routes" /\ (n = "se" => n \notin Instances)
      /\ store[n] \in ObjectsOf(n) \cup {None}
      /\ store[n] # None => store[n].owner = "cs"
      /\ n = "se" /\ store[n] # None => store[n].spec = ServiceEntry
      /\ n \in Instances /\ store[n] # None => store[n].spec \in WorkloadEntries
  BY <1>0, Types, ObjectFields, NameFacts
<1> DEFINE wanted == Target(s, c, m)[n]
<1>4. CASE s = None
  <2>1. wanted = None
    BY <1>3, <1>4 DEF Target
  <2>2. store[n] = None
    BY <1>3, <1>4, AtRest DEF Garbage, Exists
  <2>3. QED
    BY <2>1, <2>2 DEF Matches
<1>5. CASE s # None
  <2>1. Right(n)
    BY <1>0, <1>1, <1>3, <1>5, AtRest DEF EntriesFollow
  <2>2. CASE n = "se"
    <3>1. wanted = Owned("cs", s, ServiceEntry)
      BY <1>3, <1>5, <2>2 DEF Target
    <3>2. wanted.spec = ServiceEntry
      BY <3>1 DEF Owned
    <3>3. Exists(n) /\ wanted # None
      <4>1. s.uid \in Nat
        BY <1>2, <1>5, OwnFields
      <4>2. Owned("cs", s, ServiceEntry) \in ObjectsOf("se")
        BY <4>1, OwnedFacts
      <4>3. QED
        BY <2>1, <2>2, <3>1, <4>2, NoneAssumption, NameFacts DEF Right
    <3>4. QED
      BY <1>3, <2>2, <3>2, <3>3 DEF Matches, Exists
  <2>3. CASE n \in Instances /\ s.group[n] = None
    <3>1. wanted = None
      BY <1>3, <1>5, <2>3 DEF Target
    <3>2. store[n] = None
      BY <1>1, <1>3, <2>1, <2>3 DEF Right, Exists
    <3>3. QED
      BY <3>1, <3>2 DEF Matches
  <2>4. CASE n \in Instances /\ s.group[n] # None
    <3>1. wanted = Owned("cs", s, WorkloadEntry(s, n, m, WeightOf(c)))
      BY <1>3, <1>5, <2>4 DEF Target
    <3>2. Exists(n) /\ store[n].spec.mesh = m /\ store[n].spec.group = s.group[n]
      BY <1>1, <1>3, <2>1, <2>4 DEF Right
    <3>3. store[n].spec.weight = WeightOf(c)
      <4>1. CASE c = None
        BY <1>0, <1>1, <1>3, <1>5, <2>4, <3>2, <4>1, AtRest DEF NoWeights, WeightOf
      <4>2. CASE c # None
        BY <1>0, <1>1, <2>4, <3>2, <4>2, AtRest DEF WeightsFollow, WeightOf
      <4>3. QED
        BY <4>1, <4>2
    <3>4. store[n].spec \in WorkloadEntries
      BY <1>3, <2>4, <3>2 DEF Exists
    <3>5. store[n].spec = WorkloadEntry(s, n, m, WeightOf(c))
      BY <3>2, <3>3, <3>4, EntryFields
    <3>6. wanted.spec = store[n].spec
      BY <3>1, <3>5 DEF Owned
    <3>7. wanted # None
      <4>1. s.uid \in Nat
        BY <1>2, <1>5, OwnFields
      <4>2. wanted \in ObjectsOf(n)
        BY <2>4, <3>1, <3>4, <3>5, <4>1, OwnedFacts
      <4>3. QED
        BY <1>3, <4>2, NoneAssumption
    <3>8. QED
      BY <3>2, <3>6, <3>7 DEF Matches
  <2>5. QED
    BY <2>2, <2>3, <2>4
<1>6. QED
  BY <1>4, <1>5

\* At rest, a service with subsets has its routes.
LEMMA RoutesAtRest ==
  ASSUME IInv, Settled, missed = {}
  PROVE  RoutesInSync(Exists("sc"))
<1>0. /\ TypeOK /\ EntriesFollow /\ DefaultRoutesFollow /\ RoutesFollow
  BY DEF IInv
<1> DEFINE s == store["cs"]
           c == store["sc"]
           m == store["mesh"]
<1>1. cache["cs"] = s /\ cache["sc"] = c /\ cache["mesh"] = m
  BY AtRest, NameFacts
<1> SUFFICES ASSUME Subsets(s) # {}
             PROVE  Matches("routes", c # None)
  BY DEF RoutesInSync, Exists
<1>2. s # None /\ s \in Services /\ s.uid \in Nat /\ c \in Configs \cup {None} /\ m \in Nat
  BY <1>0, Types, OwnFields DEF Subsets
<1>3. /\ "routes" \in Objects /\ "routes" \notin Instances
      /\ store["routes"] # None => store["routes"].spec \in Routes
      /\ None \notin ObjectsOf("routes")
  BY <1>0, Types, ObjectFields, NameFacts, NoneAssumption
<1> DEFINE wanted == Target(s, c, m)["routes"]
<1>4. CASE c = None
  <2>1. wanted = Owned("cs", s, CsRoute(s, m))
    BY <1>2, <1>3, <1>4 DEF Target
  <2>2. CsRoute(s, m) \in Routes
    BY <1>2, SubsetsAreGroups DEF CsRoute, Routes
  <2>3. wanted # None /\ wanted.spec = CsRoute(s, m)
    BY <1>2, <1>3, <2>1, <2>2, OwnedFacts
  <2>4. Exists("routes") /\ store["routes"].spec = CsRoute(s, m)
    BY <1>0, <1>1, <1>2, <1>3, <1>4, AtRest DEF DefaultRoutesFollow, CsRight
  <2>5. QED
    BY <2>3, <2>4 DEF Matches
<1>5. CASE c # None
  <2>1. wanted = Owned("sc", c, ScRoute(c, s, m))
    BY <1>2, <1>3, <1>5 DEF Target
  <2>2. wanted # None /\ wanted.spec = ScRoute(c, s, m)
    <3>1. ScRoute(c, s, m) \in Routes /\ c.uid \in Nat
      BY <1>2, <1>5, RoutesBuilt, OwnFields
    <3>2. QED
      BY <1>3, <2>1, <3>1, OwnedFacts
  <2>3. \E i \in Instances : Lasting(i)
    <3>1. PICK i \in Instances : s.group[i] # None
      BY <1>2 DEF Subsets, Registered
    <3>2. i \in Objects /\ i # "se"
      BY NameFacts
    <3>3. Right(i)
      BY <1>0, <1>1, <1>2, <3>2, AtRest DEF EntriesFollow
    <3>4. QED
      BY <1>1, <3>1, <3>2, <3>3, AtRest DEF Right, Lasting
  <2>4. ScRight
    BY <1>0, <1>1, <1>5, <2>3, AtRest DEF RoutesFollow
  <2>5. /\ store["routes"] # None /\ store["routes"].spec \in Routes
        /\ store["routes"].spec.form = "sc" /\ store["routes"].spec.mesh = m
        /\ store["routes"].spec.weight = c.weight
    BY <1>1, <1>3, <2>4 DEF ScRight, Exists
  <2>6. [store["routes"].spec EXCEPT !.subsets = wanted.spec.subsets] = wanted.spec
    BY <2>2, <2>5, RouteFields
  <2>7. QED
    BY <1>5, <2>2, <2>5, <2>6 DEF Matches, Exists
<1>6. QED
  BY <1>4, <1>5

\* When everything has come to rest and nothing happened that wakes no controller, the
\* WorkloadEntries, the ServiceEntry and the routes are those of the ConfiguredService and
\* the ServiceConfig under the current MeshConfig: for any number of changes, conflicts
\* and failures, and in whatever order the controllers and the cache got there.
THEOREM InSyncAtRest == Spec => []SettledInSync
<1>1. IInv => SettledInSync
  BY WorkloadsAtRest, RoutesAtRest DEF SettledInSync
<1>2. QED
  BY <1>1, AlwaysIInv, PTL
=============================================================================
