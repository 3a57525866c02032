---- MODULE MCHandshake ----
(***************************************************************************)
(* A small instance of Handshake for TLC.  The ids and names are           *)
(* interchangeable.                                                        *)
(***************************************************************************)
EXTENDS Handshake, TLC

Interchangeable == Permutations(Models) \cup Permutations(Names)
====
