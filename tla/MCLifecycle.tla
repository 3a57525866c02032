---- MODULE MCLifecycle ----
(***************************************************************************)
(* A small instance of Lifecycle for TLC: a local session and one over     *)
(* ssh.  Only the local one is prompted, and shutdown joins the two.       *)
(***************************************************************************)
EXTENDS Lifecycle

CONSTANTS s1, s2

BothSessions == {s1, s2}
OverSsh == {s2}
OnlyLocal == {s1}
====
