---- MODULE MCAcpTurn ----
(***************************************************************************)
(* A small instance of AcpTurn for TLC: two turns, so that the first one   *)
(* can be late in the second, and two requests of which only the first can *)
(* be rejected.                                                            *)
(***************************************************************************)
EXTENDS AcpTurn

OnlyFirst == {1}

\* What the steps and properties can still tell apart: no action asks what was
\* answered to a request that has an answer, for the turn of such a request, for a
\* turn that was captured by a call that is over, or for the history of turns that
\* have ended, were cancelled in order or belong to a process that is gone.
Unfinished(i) == alive /\ i > told /\ agent[i] # "ended"

Captured == [t \in Tasks |-> IF pc[t] \in {"wait", "drain"} THEN target[t] ELSE 0]

AskedFor == [p \in Requests |-> IF answers[p] = <<>> /\ alive THEN turnOf[p]
                                                              ELSE IF turnOf[p] = 0 THEN 0 ELSE 1]

History == IF alive THEN <<overruns, told, agent>> ELSE <<>>

Relevant == <<approval, pc, Captured, current, last, reply, text, alive, pending, queue, wire, said,
              AskedFor, History,
              {p \in Requests : answers[p] = <<>>},
              {p \in decided : answers[p] = <<>>},
              {i \in overtaken : Unfinished(i)},
              {i \in left : (alive /\ i = current) \/ Unfinished(i)}>>
====
