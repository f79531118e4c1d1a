-------------------------- MODULE MCClusterManager --------------------------
(***************************************************************************)
(* Two clusters with two kubeconfigs each, three changes of the ConfigMaps *)
(* and one outage or restart.                                              *)
(***************************************************************************)
EXTENDS ClusterManager
===============================================================================
