---- MODULE SlotPool ----
(***************************************************************************)
(* What the bridge promises about its global turn slots, without saying    *)
(* how: at most MaxConcurrency sessions use a slot at the same time, and a *)
(* session takes one slot and gives it back.  TurnSlots implements it.     *)
(***************************************************************************)
EXTENDS Integers, FiniteSets

CONSTANTS Sessions,       \* the bridge sessions
          MaxConcurrency  \* max_concurrency of the configuration file

VARIABLE users            \* the sessions a slot is reserved for

PoolInit == users = {}

Take(s) == /\ s \notin users
           /\ Cardinality(users) < MaxConcurrency
           /\ users' = users \cup {s}

\* A released slot may go straight to a session that waits for one.
Give(s) == /\ s \in users
           /\ users' = users \ {s}

Pass(s, r) == /\ s \in users
              /\ r \notin users
              /\ users' = (users \ {s}) \cup {r}

PoolNext == \E s \in Sessions :
              \/ Take(s)
              \/ Give(s)
              \/ \E r \in Sessions : Pass(s, r)

PoolSpec == PoolInit /\ [][PoolNext]_users
====
