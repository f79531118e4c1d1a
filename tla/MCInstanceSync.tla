---------------------------- MODULE MCInstanceSync ----------------------------
(***************************************************************************)
(* One service with two instances: some are registered when the adapter    *)
(* starts, then one comes or goes, and there is one of: a disturbance of   *)
(* the path cache, a failed request, a restart.  The ConfiguredService an  *)
(* earlier run of the adapter left behind may show anything.               *)
(***************************************************************************)
EXTENDS InstanceSync
=============================================================================
