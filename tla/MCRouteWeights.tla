---------------------------- MODULE MCRouteWeights ----------------------------
(***************************************************************************)
(* Four subsets, canaries or not in every way.  With three that are left,  *)
(* 100 is not divisible, and the last of them may or may not be a canary.  *)
(***************************************************************************)
EXTENDS RouteWeights

\* One dynamic route, by which two subsets share the traffic.
TwoWays == {[s \in {1, 2} |-> IF s = 1 THEN 80 ELSE 20]}
=============================================================================
