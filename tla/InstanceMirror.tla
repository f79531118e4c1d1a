---------------------------- MODULE InstanceMirror ----------------------------
(***************************************************************************)
(* What the adapter promises for one service: its ConfiguredService is a   *)
(* mirror of the list of instances in the registry.                        *)
(*                                                                         *)
(* The mirror may lag behind, but it only ever shows a list the registry   *)
(* really held since the adapter started; and as long as the list was only *)
(* changed while the mirror had nothing left to do, whatever is published  *)
(* is the list of now.                                                     *)
(***************************************************************************)
CONSTANTS
  Instances,
  None       \* no list: not a subset of Instances

VARIABLES
  truth,     \* the list of the registry
  past,      \* the lists it held since the adapter started
  racing,    \* was the list ever changed before the last change was mirrored
  mirror     \* the ConfiguredService: a list, or None when it does not exist

vars == <<truth, past, racing, mirror>>

TypeOK ==
  /\ truth \in SUBSET Instances
  /\ past \in SUBSET SUBSET Instances
  /\ racing \in BOOLEAN
  /\ mirror \in (SUBSET Instances) \cup {None}

Init ==
  /\ truth \in SUBSET Instances
  /\ past = {truth}
  /\ racing = FALSE
  /\ mirror \in (SUBSET Instances) \cup {None}

\* The registry changes, in time or too early.
Change ==
  /\ truth' \in SUBSET Instances
  /\ past' = past \cup {truth'}
  /\ racing' \in {racing, TRUE}
  /\ UNCHANGED mirror

Publish ==
  /\ mirror' \in IF racing THEN past ELSE {truth}
  /\ UNCHANGED <<truth, past, racing>>

\* The service is deleted.
Retract ==
  /\ mirror' = None
  /\ UNCHANGED <<truth, past, racing>>

\* A new process starts from the list of now.
Restart ==
  /\ past' = {truth}
  /\ racing' = FALSE
  /\ UNCHANGED <<truth, mirror>>

Next == Change \/ Publish \/ Retract \/ Restart

Spec == Init /\ [][Next]_vars
=============================================================================
