----------------------------- MODULE RouteWeights -----------------------------
(***************************************************************************)
(* How the traffic of a service is divided: for every subset of consumers  *)
(* in MeshConfig.Spec.GlobalSubsets the VirtualService has one HTTP route, *)
(* a list of destinations with weights.  A subset whose providers are all  *)
(* gone has its consumers rerouted to other subsets.                       *)
(*                                                                         *)
(* Two controllers build that list for the same VirtualService: that of    *)
(* ConfiguredService as long as the service has no ServiceConfig, that of  *)
(* ServiceConfig afterwards.                                               *)
(*                                                                         *)
(* controllers/configuredservice/virtualservice.go,                        *)
(* controllers/serviceconfig/virtualservice.go                             *)
(***************************************************************************)
EXTENDS Naturals, FiniteSets, FiniteSetsExt

CONSTANTS
  Size,           \* len(GlobalSubsets)
  DynamicRoutes   \* the lists ServiceConfig.Spec.Route can hold, but for the empty one

\* A subset is its position in GlobalSubsets, which getSubset keeps.
Subsets == 1..Size

\* A list of destinations: no subset is in it twice, and its order is that of
\* the subsets, so it is the function from the subsets in it to their weights.
NoRoute == [s \in {} |-> 0]

ASSUME RouteWeightsAssumption ==
  /\ Size \in Nat
  /\ NoRoute \notin DynamicRoutes

VARIABLES
  canary,     \* the subsets with IsCanary
  actual,     \* actualSubsets: those that some instance belongs to
  specRoute   \* ServiceConfig.Spec.Route

vars == <<canary, actual, specRoute>>

-----------------------------------------------------------------------------
(* What both controllers do *)

DefaultDestination(s) == [d \in {s} |-> 100]

\* Mutant of SplitCanary: nothing makes up for what the division drops.
SplitCanaryTruncated == [d \in actual |-> 100 \div Cardinality(actual)]

\* The consumers of a canary subset without providers: an even split, in which
\* the last destination gets what the division leaves over.
SplitCanary ==
  [d \in actual |->
     IF d = Max(actual) /\ Cardinality(actual) > 1
     THEN 100 - (100 \div Cardinality(actual)) * (Cardinality(actual) - 1)
     ELSE 100 \div Cardinality(actual)]

\* Mutant of SplitNormal: the canary subsets take part.
SplitNormalToAll(s) ==
  [d \in {s} \cup actual |-> IF d = s THEN 0 ELSE 100 \div Cardinality(actual)]

\* The consumers of another subset s without providers: s itself at 0, then a
\* split among the subsets that are no canaries.  If the last of all subsets is
\* one of those, it gets what one single share leaves over.
SplitNormal(s) ==
  LET share == 100 \div Cardinality(actual \ canary) IN
  [d \in {s} \cup (actual \ canary) |->
     IF d = s THEN 0
     ELSE IF d = Max(actual) /\ Cardinality(actual) > 1 THEN 100 - share
     ELSE share]

Reroute(s) ==
  IF s \in actual THEN DefaultDestination(s)
  ELSE IF s \in canary THEN SplitCanary
  ELSE SplitNormal(s)

-----------------------------------------------------------------------------
(* The two controllers; both leave the VirtualService alone if actual is {}. *)

\* configuredservice: buildHTTPRoute.
ConfiguredServiceRoute(s) == Reroute(s)

OnlyMissingCanary == Subsets \ actual \subseteq canary

\* Mutant of ServiceConfigRoute: if only canaries are missing, nothing is rerouted.
ServiceConfigRouteNoCanary(s) ==
  IF specRoute # NoRoute /\ s \notin canary /\ OnlyMissingCanary THEN specRoute
  ELSE IF Cardinality(actual) < Size /\ ~OnlyMissingCanary THEN Reroute(s)
  ELSE DefaultDestination(s)

\* serviceconfig: buildHTTPRoute.  The dynamic route of the ServiceConfig holds
\* for all but canaries, and only if no other subset is missing.
ServiceConfigRoute(s) ==
  IF specRoute # NoRoute /\ s \notin canary /\ OnlyMissingCanary THEN specRoute
  ELSE IF Cardinality(actual) < Size /\ (~OnlyMissingCanary \/ s \in canary)
  THEN Reroute(s)
  ELSE DefaultDestination(s)

-----------------------------------------------------------------------------
(* Everything the routes are built from may change. *)

\* Instances come and go.
ChangeInstances ==
  /\ actual' \in SUBSET Subsets
  /\ UNCHANGED <<canary, specRoute>>

\* The ServiceConfig is edited.
ChangeServiceConfig ==
  /\ specRoute' \in DynamicRoutes \cup {NoRoute}
  /\ UNCHANGED <<canary, actual>>

\* The MeshConfig is edited.
ChangeMeshConfig ==
  /\ canary' \in SUBSET Subsets
  /\ UNCHANGED <<actual, specRoute>>

Init ==
  /\ canary \in SUBSET Subsets
  /\ actual = {}
  /\ specRoute = NoRoute

Next == ChangeInstances \/ ChangeServiceConfig \/ ChangeMeshConfig

Spec == Init /\ [][Next]_vars

-----------------------------------------------------------------------------
(* Properties *)

\* The type invariant.
TypeOK ==
  /\ canary \subseteq Subsets
  /\ actual \subseteq Subsets
  /\ specRoute \in DynamicRoutes \cup {NoRoute}

\* Consumers of a canary subset without providers are spread over all subsets,
\* and their weights are 100 together, with none left out.
CanarySplitWhole ==
  \A s \in canary \ actual : actual # {} =>
    /\ SumFunction(ServiceConfigRoute(s)) = 100
    /\ \A d \in actual : ServiceConfigRoute(s)[d] > 0

\* Without a dynamic route, consumers that are no canaries never reach the
\* providers of a canary subset, whichever subsets are missing.
CanaryIsolated ==
  specRoute = NoRoute =>
    \A s \in Subsets \ canary :
      /\ DOMAIN ServiceConfigRoute(s) \cap canary = {}
      /\ DOMAIN ConfiguredServiceRoute(s) \cap canary = {}

\* Without a dynamic route the two controllers, which decide differently when
\* to reroute, want the same routes: neither undoes what the other wrote.
ControllersAgree ==
  specRoute = NoRoute =>
    \A s \in Subsets : ServiceConfigRoute(s) = ConfiguredServiceRoute(s)

\* api/v1alpha1/serviceconfig_types.go: "Sum of weights across destinations
\* SHOULD BE == 100.  If there is only one destination in a rule, the weight
\* value is assumed to be 100."
WeightsSumTo100 ==
  specRoute = NoRoute /\ actual # {} =>
    \A s \in Subsets :
      LET route == ServiceConfigRoute(s) IN
      Cardinality(DOMAIN route) > 1 => SumFunction(route) = 100
=============================================================================
