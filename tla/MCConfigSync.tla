----------------------------- MODULE MCConfigSync -----------------------------
(***************************************************************************)
(* One configuration that is written up to two times, with one of: a       *)
(* disturbance of the path cache, a failed request, a restart; and any     *)
(* number of foreign writes to the ServiceConfig.                          *)
(***************************************************************************)
EXTENDS ConfigSync
===============================================================================
