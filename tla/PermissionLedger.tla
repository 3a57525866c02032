---- MODULE PermissionLedger ----
(***************************************************************************)
(* What the bridge promises the agent and the MCP client about permission  *)
(* requests, without saying how: a request that was asked is settled at    *)
(* most once, a choice is only ever given to the request it was made for,  *)
(* and what is settled stays settled.  AcpTurn implements it.              *)
(***************************************************************************)
EXTENDS Integers

CONSTANT Requests    \* the agent's permission requests

VARIABLES fate,      \* what became of each request
          decided    \* the requests a decision of the MCP client has named

ledger == <<fate, decided>>

Fates == {"unasked", "open", "chosen", "rejected", "dropped"}

LedgerInit == /\ fate = [p \in Requests |-> "unasked"]
              /\ decided = {}

Settle(p, f) == fate[p] = "open" /\ fate' = [fate EXCEPT ![p] = f]

Ask(p) == /\ fate[p] = "unasked"
          /\ fate' = [fate EXCEPT ![p] = "open"]
          /\ UNCHANGED decided

\* The MCP client decides about p.  The decision may come too late, or fit
\* no pending request: then no request is answered.
Decide(p) == /\ decided' = decided \cup {p}
             /\ Settle(p, "chosen") \/ UNCHANGED fate

\* The bridge itself rejects a request of a turn it cancels.
Reject(p) == Settle(p, "rejected") /\ UNCHANGED decided

\* Requests of turns that are over are forgotten together, possibly when the
\* MCP client has just decided about one.
Drop(ps, ds) == /\ decided' = decided \cup ds
                /\ \A p \in ps : fate[p] = "open"
                /\ fate' = [p \in Requests |-> IF p \in ps THEN "dropped" ELSE fate[p]]

LedgerNext == \/ \E ps, ds \in SUBSET Requests : Drop(ps, ds)
              \/ \E p \in Requests : Ask(p) \/ Decide(p) \/ Reject(p)

LedgerSpec == LedgerInit /\ [][LedgerNext]_ledger
====
