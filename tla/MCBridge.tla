---- MODULE MCBridge ----
(***************************************************************************)
(* Small instances of Bridge for TLC: two sessions that share one slot, so *)
(* that each is the other's competitor.  The configurations choose which   *)
(* sessions are compatible and which tools the client calls.               *)
(***************************************************************************)
EXTENDS Bridge

CONSTANTS s1, s2

Both == {s1, s2}
Nobody == {}
OnlyFirst == {s1}
====
