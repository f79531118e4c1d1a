-------------------------- MODULE RouteWeightsProofs --------------------------
(***************************************************************************)
(* For any number of subsets, any canaries among them and any instances:   *)
(* the two controllers want the same routes, and consumers that are no     *)
(* canaries are kept away from canaries.  For up to 100 subsets: the       *)
(* traffic of a canary without providers is divided completely.            *)
(*                                                                         *)
(* The type invariant is all the induction over steps that is needed; the  *)
(* rest is the case analysis of the two versions of buildHTTPRoute, and a  *)
(* sum, for which a smallest counterexample is refuted.                    *)
(***************************************************************************)
EXTENDS RouteWeights, FiniteSetTheorems, WellFoundedInduction, TLAPS

\* len(actualSubsets) < len(GlobalSubsets), the test of buildHTTPRoute, is true
\* when a subset is missing.
LEMMA MissingIsFewer ==
  ASSUME TypeOK, NEW s \in Subsets, s \notin actual
  PROVE  Cardinality(actual) < Size
<1>1. IsFiniteSet(Subsets) /\ Cardinality(Subsets) = Size
  BY FS_Interval, RouteWeightsAssumption DEF Subsets
<1>2. actual \subseteq Subsets /\ actual # Subsets
  BY DEF TypeOK
<1>3. Cardinality(actual) <= Cardinality(Subsets) /\ IsFiniteSet(actual)
  BY <1>1, <1>2, FS_Subset
<1>4. Cardinality(actual) # Cardinality(Subsets)
  BY <1>1, <1>2, FS_Subset
<1>5. Cardinality(actual) \in Nat
  BY <1>3, FS_CardinalityType
<1> QED
  BY <1>1, <1>3, <1>4, <1>5, RouteWeightsAssumption

\* Without a dynamic route ServiceConfig's buildHTTPRoute comes down to the
\* reroute of ConfiguredService's.
LEMMA SameRoute ==
  ASSUME TypeOK, specRoute = NoRoute, NEW s \in Subsets
  PROVE  ServiceConfigRoute(s) = Reroute(s)
<1>1. CASE s \in actual
  BY <1>1 DEF ServiceConfigRoute, Reroute
<1>2. CASE s \notin actual
  <2>1. Cardinality(actual) < Size
    BY <1>2, MissingIsFewer
  <2>2. ~OnlyMissingCanary \/ s \in canary
    BY <1>2 DEF OnlyMissingCanary
  <2> QED
    BY <2>1, <2>2 DEF ServiceConfigRoute
<1> QED
  BY <1>1, <1>2

\* What is built for a subset that is no canary has no canary in it.
LEMMA RerouteAvoidsCanaries ==
  ASSUME NEW s \in Subsets \ canary
  PROVE  DOMAIN Reroute(s) \cap canary = {}
<1>1. CASE s \in actual
  BY <1>1 DEF Reroute, DefaultDestination
<1>2. CASE s \notin actual
  <2>1. Reroute(s) = SplitNormal(s)
    BY <1>2 DEF Reroute
  <2>2. DOMAIN SplitNormal(s) = {s} \cup (actual \ canary)
    BY DEF SplitNormal
  <2> QED
    BY <2>1, <2>2
<1> QED
  BY <1>1, <1>2

\* The sum of a function over a set is taken element by element.
SumFrom(f, S) ==
  CHOOSE g : g = [s \in SUBSET S |->
                    IF s = {} THEN 0
                    ELSE f[CHOOSE x \in s : TRUE] + g[s \ {CHOOSE x \in s : TRUE}]]

\* That is how SumFunction is defined.
LEMMA SumFunctionIsSumFrom ==
  ASSUME NEW S, NEW f, DOMAIN f = S
  PROVE  SumFunction(f) = SumFrom(f, S)[S]
  BY DEF SumFunction, SumFunctionOnSet, FoldFunctionOnSet, MapThenFoldSet, SumFrom

\* A set of naturals has a least element.
LEMMA Least ==
  ASSUME NEW T \in SUBSET Nat, T # {}
  PROVE  \E n \in T : \A k \in T : n <= k
<1>1. \E n \in T : \A k \in T : ~ (<<k, n>> \in OpToRel(<, Nat))
  BY NatLessThanWellFounded, WFMin
<1>2. \A k, n \in T : k < n => <<k, n>> \in OpToRel(<, Nat)
  BY DEF OpToRel
<1>3. PICK n \in T : \A k \in T : ~ (k < n)
  BY <1>1, <1>2
<1>4. QED
  BY <1>3

\* A set of subsets has a last one.
LEMMA LastSubset ==
  ASSUME NEW S \in SUBSET Subsets, S # {}
  PROVE  Max(S) \in S
<1> DEFINE T == {Size - x : x \in S}
<1>1. Size \in Nat /\ \A x \in S : x \in 1..Size
  BY RouteWeightsAssumption DEF Subsets
<1>2. T \in SUBSET Nat /\ T # {}
  BY <1>1
<1>3. PICK n \in T : \A k \in T : n <= k
  BY <1>2, Least
<1>4. PICK x \in S : n = Size - x
  BY <1>3
<1>5. \A y \in S : x >= y
  <2> SUFFICES ASSUME NEW y \in S PROVE x >= y
    OBVIOUS
  <2>1. Size - y \in T
    OBVIOUS
  <2>2. Size - x <= Size - y
    BY <1>3, <1>4, <2>1
  <2>3. QED
    BY <1>1, <2>2
<1>6. QED
  BY <1>4, <1>5 DEF Max

\* The sum of n weights, all of which are b but for one.
LEMMA SumOfShares ==
  ASSUME NEW S, IsFiniteSet(S), NEW m \in S, NEW a \in Int, NEW b \in Int,
         NEW f, f = [d \in S |-> IF d = m THEN a ELSE b]
  PROVE  SumFunction(f) = a + b * (Cardinality(S) - 1)
<1> DEFINE card(s) == Cardinality(s)
           closed == [s \in SUBSET S |-> IF m \in s THEN a + b * (card(s) - 1) ELSE b * card(s)]
           chosen(s) == CHOOSE x \in s : TRUE
           step(g, s) == IF s = {} THEN 0 ELSE f[chosen(s)] + g[s \ {chosen(s)}]
           g == SumFrom(f, S)
<1>1. \A s \in SUBSET S : IsFiniteSet(s) /\ card(s) \in Nat
  BY FS_Subset, FS_CardinalityType
<1>2. \A s \in SUBSET S : s # {} => /\ chosen(s) \in s
                                    /\ s \ {chosen(s)} \in SUBSET S
                                    /\ card(s \ {chosen(s)}) = card(s) - 1
  <2> SUFFICES ASSUME NEW s \in SUBSET S, s # {}
               PROVE  /\ chosen(s) \in s
                      /\ s \ {chosen(s)} \in SUBSET S
                      /\ card(s \ {chosen(s)}) = card(s) - 1
    OBVIOUS
  <2>1. chosen(s) \in s
    OBVIOUS
  <2>2. card(s \ {chosen(s)}) = card(s) - 1
    BY <1>1, <2>1, FS_RemoveElement
  <2>3. QED
    BY <2>1, <2>2
<1>3. card({}) = 0
  BY FS_EmptySet
<1>4. \A s \in SUBSET S : closed[s] = IF m \in s THEN a + b * (card(s) - 1) ELSE b * card(s)
  OBVIOUS
<1>5. \A d \in S : f[d] = IF d = m THEN a ELSE b
  OBVIOUS
<1> HIDE DEF card, chosen, closed
<1>6. \A s \in SUBSET S : closed[s] = step(closed, s)
  <2> TAKE s \in SUBSET S
  <2>1. CASE s = {}
    BY <1>3, <1>4, <2>1
  <2>2. CASE s # {}
    <3> DEFINE x == chosen(s)
               rest == s \ {chosen(s)}
    <3>1. /\ x \in s /\ x \in S /\ rest \in SUBSET S /\ card(s) \in Nat
          /\ card(rest) = card(s) - 1
          /\ m \in rest <=> m \in s /\ x # m
      BY <1>1, <1>2, <2>2
    <3>2. f[x] = IF x = m THEN a ELSE b
      BY <1>5, <3>1
    <3>3. closed[rest] = IF m \in rest THEN a + b * (card(s) - 1 - 1) ELSE b * (card(s) - 1)
      BY <1>4, <3>1
    <3>4. closed[s] = IF m \in s THEN a + b * (card(s) - 1) ELSE b * card(s)
      BY <1>4
    <3> HIDE DEF x, rest
    <3>5. closed[s] = f[x] + closed[rest]
      <4> DEFINE c == card(s)
      <4>1. c \in Nat
        BY <3>1
      <4> HIDE DEF c
      <4>2. b * (c - 1) = b + b * (c - 1 - 1) /\ b * c = b + b * (c - 1)
        BY <4>1
      <4>3. b * (c - 1) \in Int /\ b * (c - 1 - 1) \in Int
        BY <4>1
      <4>4. QED
        BY <3>1, <3>2, <3>3, <3>4, <4>2, <4>3 DEF c
    <3>6. QED
      BY <2>2, <3>5 DEF x, rest
  <2>3. QED
    BY <2>1, <2>2
<1>7. g = [s \in SUBSET S |-> step(g, s)]
  <2>1. closed = [s \in SUBSET S |-> step(closed, s)]
    BY <1>6 DEF closed
  <2>2. QED
    BY <2>1 DEF SumFrom, chosen
<1>8. \A s \in SUBSET S : g[s] = step(g, s)
  BY <1>7
<1> HIDE DEF g
<1> DEFINE wrong == {k \in Nat : \E s \in SUBSET S : card(s) = k /\ g[s] # closed[s]}
<1>9. wrong = {}
  <2> SUFFICES ASSUME wrong # {} PROVE FALSE
    OBVIOUS
  <2>1. PICK n \in wrong : \A k \in wrong : n <= k
    BY Least
  <2>2. PICK s \in SUBSET S : card(s) = n /\ g[s] # closed[s]
    BY <2>1
  <2>3. s # {}
    BY <1>6, <1>8, <2>2
  <2>4. s \ {chosen(s)} \in SUBSET S /\ card(s \ {chosen(s)}) = n - 1 /\ n - 1 \in Nat
    BY <1>1, <1>2, <2>2, <2>3
  <2>5. n - 1 \notin wrong
    BY <2>1
  <2>6. g[s \ {chosen(s)}] = closed[s \ {chosen(s)}]
    BY <2>4, <2>5
  <2>7. QED
    BY <1>6, <1>8, <2>2, <2>3, <2>6
<1>10. g[S] = closed[S]
  BY <1>1, <1>9
<1>11. QED
  BY <1>4, <1>10, SumFunctionIsSumFrom DEF g, card

\* The inputs stay what they are, whoever edits them.
THEOREM TypeCorrect == Spec => []TypeOK
<1>1. Init => TypeOK
  BY DEF Init, TypeOK
<1>2. TypeOK /\ [Next]_vars => TypeOK'
  BY DEF TypeOK, Next, ChangeInstances, ChangeServiceConfig, ChangeMeshConfig, vars
<1> QED
  BY <1>1, <1>2, PTL DEF Spec

\* The VirtualService of a service without a dynamic route is the same whether
\* the controller of ConfiguredService or that of ServiceConfig builds it.
THEOREM Agreement == Spec => []ControllersAgree
<1>1. TypeOK => ControllersAgree
  BY SameRoute DEF ControllersAgree, ConfiguredServiceRoute
<1> QED
  BY <1>1, TypeCorrect, PTL

\* Without a dynamic route no consumer that is no canary is sent to a canary,
\* however many subsets are missing.
THEOREM Isolation == Spec => []CanaryIsolated
<1>1. TypeOK => CanaryIsolated
  <2> SUFFICES ASSUME TypeOK, specRoute = NoRoute, NEW s \in Subsets \ canary
               PROVE  /\ DOMAIN ServiceConfigRoute(s) \cap canary = {}
                      /\ DOMAIN ConfiguredServiceRoute(s) \cap canary = {}
    BY DEF CanaryIsolated
  <2>1. ServiceConfigRoute(s) = Reroute(s)
    BY SameRoute
  <2> QED
    BY <2>1, RerouteAvoidsCanaries DEF ConfiguredServiceRoute
<1> QED
  BY <1>1, TypeCorrect, PTL

\* A canary without providers is rerouted, with or without a dynamic route.
LEMMA CanaryIsSplit ==
  ASSUME TypeOK, NEW s \in canary \ actual
  PROVE  ServiceConfigRoute(s) = SplitCanary
<1>1. s \in Subsets /\ s \in canary /\ s \notin actual
  BY DEF TypeOK
<1>2. Cardinality(actual) < Size
  BY <1>1, MissingIsFewer
<1> QED
  BY <1>1, <1>2 DEF ServiceConfigRoute, Reroute

\* Of n destinations, 100 at the most, n - 1 get the share 100 \div n; what is
\* left for the last one is no less.
LEMMA Shares ==
  ASSUME NEW n \in 1..100
  PROVE  /\ 100 \div n \in Nat \ {0}
         /\ 100 - (100 \div n) * (n - 1) >= 100 \div n
<1> DEFINE share == 100 \div n
<1>1. share \in Nat /\ n * share <= 100 /\ 100 < n * share + n
  OBVIOUS
<1> HIDE DEF share
<1>2. share # 0
  BY <1>1
<1>3. n * share = share * (n - 1) + share
  BY <1>1
<1>4. share * (n - 1) \in Int
  BY <1>1
<1>5. 100 - share * (n - 1) >= share
  BY <1>1, <1>3, <1>4
<1> QED
  BY <1>1, <1>2, <1>5 DEF share

\* With 100 subsets or fewer, the consumers of a canary subset without providers
\* are spread over all subsets there are, and the weights are 100 together.  (With
\* more providing subsets than that the share itself is 0.)
THEOREM SplitIsWhole == Size <= 100 => (Spec => []CanarySplitWhole)
<1>1. Size <= 100 /\ TypeOK => CanarySplitWhole
  <2> SUFFICES ASSUME Size <= 100, TypeOK, NEW s \in canary \ actual, actual # {}
               PROVE  /\ SumFunction(ServiceConfigRoute(s)) = 100
                      /\ \A d \in actual : ServiceConfigRoute(s)[d] > 0
    BY DEF CanarySplitWhole
  <2> DEFINE n == Cardinality(actual)
             share == 100 \div n
             last == Max(actual)
             rest == 100 - share * (n - 1)
  <2>1. actual \in SUBSET Subsets /\ IsFiniteSet(actual) /\ last \in actual
    <3>1. IsFiniteSet(Subsets)
      BY FS_Interval, RouteWeightsAssumption DEF Subsets
    <3> QED
      BY <3>1, FS_Subset, LastSubset DEF TypeOK
  <2>2. n \in 1..100
    <3>1. s \in Subsets /\ s \notin actual
      BY DEF TypeOK
    <3>2. n < Size
      BY <3>1, MissingIsFewer
    <3>3. n \in Nat /\ n # 0
      BY <2>1, FS_CardinalityType, FS_EmptySet
    <3> QED
      BY <3>2, <3>3, RouteWeightsAssumption
  <2>3. share \in Nat \ {0} /\ rest >= share
    BY <2>2, Shares
  <2>4. SplitCanary = [d \in actual |-> IF d = last /\ n > 1 THEN rest ELSE share]
    BY DEF SplitCanary
  <2>5. n > 1 \/ rest = share
    <3>1. CASE n = 1
      BY <3>1
    <3> QED
      BY <2>2, <3>1
  <2> HIDE DEF n, share, last, rest
  <2>6. SplitCanary = [d \in actual |-> IF d = last THEN rest ELSE share]
    BY <2>4, <2>5
  <2>7. rest \in Int /\ rest + share * (n - 1) = 100
    <3>1. share * (n - 1) \in Int
      BY <2>2, <2>3
    <3> QED
      BY <3>1 DEF rest
  <2>8. SumFunction(SplitCanary) = 100
    <3>1. SumFunction(SplitCanary) = rest + share * (Cardinality(actual) - 1)
      BY <2>1, <2>3, <2>6, <2>7, SumOfShares
    <3> QED
      BY <2>7, <3>1 DEF n
  <2>9. \A d \in actual : SplitCanary[d] > 0
    BY <2>3, <2>6, <2>7
  <2> QED
    BY <2>8, <2>9, CanaryIsSplit
<1>2. CASE Size <= 100
  <2>1. TypeOK => CanarySplitWhole
    BY <1>1, <1>2
  <2> QED
    BY <2>1, TypeCorrect, PTL
<1> QED
  BY <1>2
===============================================================================
