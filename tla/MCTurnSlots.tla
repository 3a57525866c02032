---- MODULE MCTurnSlots ----
(***************************************************************************)
(* A small instance of TurnSlots for TLC: four sessions and two slots, so  *)
(* that two permits can be on their way while two sessions still wait.     *)
(***************************************************************************)
EXTENDS TurnSlots

CONSTANTS s1, s2, s3, s4

Four == {s1, s2, s3, s4}
====
