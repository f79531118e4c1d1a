----------------------------- MODULE MCPathCache -----------------------------
(***************************************************************************)
(* Two children, two writes (so that a child can come and go, or be        *)
(* written and deleted), one disturbance, one call of Stop.                *)
(***************************************************************************)
EXTENDS PathCache
=============================================================================
