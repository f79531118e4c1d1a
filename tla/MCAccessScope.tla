---------------------------- MODULE MCAccessScope ----------------------------
(***************************************************************************)
(* Two services, in one channel of the accelerator or in one each; one     *)
(* change from outside and one trouble, in any order.                      *)
(***************************************************************************)
EXTENDS AccessScope

CONSTANTS s1, s2, c1, c2

MCServices == {s1, s2}
MCChannels == {c1, c2}
MCHashes == {[s \in MCServices |-> c1],
             [s \in MCServices |-> IF s = s1 THEN c1 ELSE c2]}
===============================================================================
