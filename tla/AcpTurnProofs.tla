---- MODULE AcpTurnProofs ----
(***************************************************************************)
(* Proofs about AcpTurn for any bounds, any tolerance and any requests     *)
(* that offer a reject option.  TurnInv is the inductive invariant.  Most  *)
(* of it is about who is in charge of the newest turn (OpWaits, Drains,    *)
(* LiveTurnIsTended) and about what the agent knows of it (Informed,       *)
(* EndedOrTold, NoSilentDrop).                                             *)
(***************************************************************************)
EXTENDS AcpTurn, SequenceLemmas

(***************************************************************************)
(* The inductive invariant                                                 *)
(***************************************************************************)
\* Turns are numbered as they begin, each after the one before has ended, and
\* the agent works only on those it was sent.
Numbered ==
  /\ current \in {0, last}
  /\ current = 0 /\ last > 0 => Done(last)
  /\ \A i \in Turns : i < last => Done(i)
  /\ \A i \in Turns : reply[i] = "none" <=> i > last
  /\ \A i \in Turns : reply[i] \in {"none", "starting"} => agent[i] = "none"
  /\ \A p \in Requests : turnOf[p] <= last

\* A response on the wire is one the agent is done with.
RepliesAreLast ==
  \A l \in Range(wire) : l.kind \in {"result", "error"} => agent[l.of] = "ended"

\* The agent knows nothing of a turn before its prompt, but a session/cancel may
\* have overtaken that prompt.
Informed ==
  /\ told <= Sent
  /\ \A i \in overtaken : i <= told + 1
  /\ \A p \in Requests : turnOf[p] <= Sent

\* A session/cancel was written for turn i, in time or too early.
Warned(i) == i <= told \/ i \in overtaken

\* A turn that is over for the bridge is over for the agent, or the agent was
\* told so.
EndedOrTold == \A i \in Turns : Done(i) => agent[i] = "ended" \/ Warned(i) \/ ~alive

\* The session's call waits for the newest turn, with nothing pending, and
\* only while it waits can that turn be without its request.
OpWaits ==
  /\ pc["op"] = "wait" => /\ target["op"] = last /\ last > 0 /\ pending = 0
                          /\ Done(last) \/ current = last
  /\ pc["op"] = "drain" => target["op"] = last
  /\ \A i \in Turns : reply[i] = "starting" => i = current /\ pc["op"] = "wait"

\* A cancel drains the turn there is, or one that has ended while a newer turn
\* is in the hands of its own call or left; the agent was told of every turn it
\* has asked a permission for.
Drained(t) == /\ target[t] \in 1..last
              /\ target[t] = current \/ Done(target[t])
              /\ alive => Warned(target[t]) /\ \A p \in Requests : Warned(turnOf[p])
              /\ (target[t] # last /\ TurnActive) => pc["op"] \in {"wait", "queue"} \/ current \in left

Drains == \A t \in Tasks : pc[t] = "drain" => Drained(t)

TurnInv == /\ TypeOK /\ Numbered /\ Informed /\ RepliesAreLast /\ EndedOrTold /\ OpWaits /\ Drains
           /\ OwnResult /\ PendingHasTurn /\ LiveTurnIsTended /\ NoSilentDrop

(***************************************************************************)
(* Types and places                                                        *)
(***************************************************************************)
\* The types of everything but the sequences, for the steps that do not look
\* into those.
ScalarTypes ==
  /\ approval \in {"elicitation", "compatible"}
  /\ pc \in [Tasks -> {"idle", "wait", "elicit", "queue", "drain"}]
  /\ target \in [Tasks -> 0..MaxTurns]
  /\ last \in Nat /\ last <= MaxTurns
  /\ current \in Nat /\ current <= last
  /\ reply \in [Turns -> {"none", "starting", "waiting", "result", "error", "cancelled"}]
  /\ pending \in 0..MaxAsks
  /\ overruns \in Nat
  /\ alive \in BOOLEAN
  /\ agent \in [Turns -> {"none", "working", "ended"}]
  /\ turnOf \in [Requests -> 0..MaxTurns]
  /\ told \in Nat /\ told <= last
  /\ overtaken \subseteq 1..last /\ left \subseteq 1..last

\* The types of the state, without those of the wire and the queue.
LEMMA TypesAreScalar == TypeOK => ScalarTypes
BY TurnAssumption DEF TypeOK, CallTypes, ClientTypes, GateTypes, AgentTypes, ScalarTypes

\* The prompt of the newest turn may be unwritten, no other.
LEMMA SentIsNewest ==
  ASSUME ScalarTypes
  PROVE  /\ Sent \in Int /\ Sent <= last /\ last <= Sent + 1
         /\ (current = 0 \/ reply[current] # "starting") => Sent = last
BY DEF ScalarTypes, Sent

\* An answer is put behind those there are.
LEMMA AnswersAreSequences ==
  ASSUME answers \in [Requests -> Seq({"chosen", "rejected"})],
         NEW p, NEW a \in {"chosen", "rejected"}
  PROVE  [answers EXCEPT ![p] = Append(@, a)] \in [Requests -> Seq({"chosen", "rejected"})]
<1>1. ASSUME NEW q \in Requests
      PROVE  [answers EXCEPT ![p] = Append(@, a)][q] \in Seq({"chosen", "rejected"})
  <2>1. answers[q] \in Seq({"chosen", "rejected"})
    OBVIOUS
  <2>2. Append(answers[q], a) \in Seq({"chosen", "rejected"})
    BY <2>1
  <2> QED BY <2>1, <2>2
<1> QED BY <1>1

\* Where a request is, before and after a step.
LEMMA WhereItIs ==
  ASSUME NEW p
  PROVE  /\ OnWire(p) <=> Line("ask", p) \in Range(wire)
         /\ Known(p) <=> p = pending \/ p \in Range(queue)
         /\ OnWire(p)' <=> Line("ask", p) \in Range(wire')
         /\ Known(p)' <=> p = pending' \/ p \in Range(queue')
BY DEF OnWire, Known, Range, ToSet

\* A request that nobody waits for any more is no loss.
LEMMA NothingLost ==
  ASSUME \A p \in Requests :
           turnOf'[p] # 0 => agent'[turnOf'[p]] = "ended" \/ Warned(turnOf[p])' \/ ~alive'
                             \/ turnOf'[p] \in left'
  PROVE  NoSilentDrop'
BY DEF NoSilentDrop, Warned

(***************************************************************************)
(* cancel_turn is called                                                   *)
(***************************************************************************)
\* What the calls of cancel_turn leave alone.
CancelFrame == UNCHANGED <<approval, current, last, reply, overruns, text, alive, wire, agent, said,
                           turnOf, decided>>

\* A call that stops waiting for its turn has had its request written.
NoLongerStarting(t) == t = "op" /\ pc["op"] = "wait" => reply[last] # "starting"

\* cancel_turn is entered with its lock.
LEMMA EnterKeepsInv ==
  ASSUME TurnInv, NEW t \in Tasks, EnterCancel(t), CancelFrame,
         \A u \in Tasks : pc[u] # "drain", NoLongerStarting(t)
  PROVE  TurnInv'
<1> USE TurnAssumption DEF Turns, Requests
<1>1. TypeOK /\ ScalarTypes
  BY TypesAreScalar DEF TurnInv
<1>2. /\ told' = IF alive THEN Sent ELSE told
      /\ overtaken' = IF alive /\ Sent # last THEN overtaken \cup {last} ELSE overtaken
  BY DEF EnterCancel, Tell
<1>3. /\ pending' = 0 \/ pending' = pending
      /\ queue' = queue \/ queue' = <<>>
  BY DEF EnterCancel, Drain, Leave
<1>4. \/ /\ pc' = [pc EXCEPT ![t] = "idle"] /\ target' = target
         /\ left' = IF current = 0 THEN left ELSE left \cup {current}
      \/ /\ pc' = [pc EXCEPT ![t] = "idle"] /\ target' = target /\ left' = left
         /\ current = 0
      \/ /\ pc' = [pc EXCEPT ![t] = "drain"] /\ target' = [target EXCEPT ![t] = current]
         /\ left' = left /\ current # 0
  BY DEF EnterCancel, Drain, Leave, Goto
<1>5. UNCHANGED <<approval, current, last, reply, overruns, text, alive, wire, agent, said,
                  turnOf, decided>>
  BY DEF CancelFrame
<1>6. answers' = answers \/ (pending # 0 /\ answers' = [answers EXCEPT ![pending] = Append(@, "rejected")])
  BY DEF EnterCancel, Answer, TurnAssumption
<1>7. answers' \in [Requests -> Seq({"chosen", "rejected"})]
  BY <1>1, <1>6, AnswersAreSequences DEF TypeOK, GateTypes
<1>8. /\ Sent \in Int /\ Sent <= last /\ last <= Sent + 1
      /\ Sent' = Sent /\ told <= Sent
  BY <1>1, <1>5, SentIsNewest DEF TurnInv, Informed, Sent
<1>9. Sent # last => last > 0
  BY <1>1, <1>8, SentIsNewest DEF ScalarTypes
<1>10. alive => /\ \A i \in 1..last : Warned(i)'
                /\ \A p \in Requests : Warned(turnOf[p])'
  <2> SUFFICES ASSUME alive PROVE /\ \A i \in 1..last : Warned(i)'
                                  /\ \A p \in Requests : Warned(turnOf[p])'
    OBVIOUS
  <2>1. told' = Sent /\ (Sent # last => last \in overtaken')
    BY <1>2
  <2>2. \A i \in 1..last : i <= Sent \/ (i = last /\ Sent # last)
    BY <1>1, <1>8 DEF ScalarTypes
  <2>3. \A p \in Requests : turnOf[p] <= Sent
    BY DEF TurnInv, Informed
  <2> QED BY <1>5, <2>1, <2>2, <2>3 DEF Warned
<1>11. \A i \in Turns : Warned(i) => Warned(i)'
  BY <1>1, <1>2, <1>8 DEF Warned, ScalarTypes
<1>12. TypeOK'
  <2>1. CallTypes'
    BY <1>1, <1>4, <1>5 DEF TypeOK, CallTypes, ScalarTypes, Tasks
  <2>2. ClientTypes' /\ AgentTypes'
    BY <1>1, <1>5 DEF TypeOK, ClientTypes, AgentTypes
  <2>3. queue' \in Seq(Requests) /\ decided' \subseteq Requests
    <3>1. queue \in Seq(Requests) /\ decided \subseteq Requests
      BY <1>1 DEF TypeOK, GateTypes
    <3>2. <<>> \in Seq(Requests)
      OBVIOUS
    <3> QED BY <1>3, <1>5, <3>1, <3>2
  <2>4. pending' \in 0..MaxAsks
    BY <1>1, <1>3 DEF ScalarTypes, TurnAssumption
  <2>5. told' \in 0..last'
    <3>1. told \in 0..last /\ last' = last /\ (alive => told' = Sent) /\ (~alive => told' = told)
      BY <1>1, <1>2, <1>5 DEF ScalarTypes
    <3>2. Sent \in 0..last
      BY <1>1, <1>8, <3>1 DEF ScalarTypes
    <3> QED BY <3>1, <3>2
  <2>6. overtaken' \subseteq 1..last' /\ left' \subseteq 1..last'
    <3>1. last \in Nat /\ overtaken \subseteq 1..last /\ left \subseteq 1..last /\ last' = last
      BY <1>1, <1>5 DEF ScalarTypes
    <3>2. (last > 0 => last \in 1..last) /\ (current # 0 => current \in 1..last)
      BY <1>1 DEF ScalarTypes
    <3>3. overtaken' \subseteq 1..last'
      BY <1>2, <1>9, <3>1, <3>2
    <3>4. left' \subseteq 1..last'
      BY <1>4, <3>1, <3>2
    <3> QED BY <3>3, <3>4
  <2>7. GateTypes'
    BY <1>7, <2>3, <2>4, <2>5, <2>6 DEF GateTypes
  <2> QED BY <2>1, <2>2, <2>7 DEF TypeOK
<1>13. Numbered' /\ RepliesAreLast' /\ OwnResult'
  BY <1>5 DEF TurnInv, Numbered, RepliesAreLast, OwnResult, Done
<1>14. Informed'
  <2>1. told' <= Sent'
    BY <1>1, <1>2, <1>8 DEF ScalarTypes
  <2>2. \A i \in overtaken' : i <= told' + 1
    <3>1. \A i \in overtaken : i <= told + 1 /\ i \in Int
      BY <1>1 DEF TurnInv, Informed, ScalarTypes
    <3>2. told \in Int /\ told' \in Int /\ told <= told' /\ (alive => told' = Sent)
      BY <1>1, <1>2, <1>8 DEF ScalarTypes
    <3>3. \A i \in overtaken : i <= told' + 1
      BY <3>1, <3>2
    <3>4. \A i \in overtaken' : i \in overtaken \/ (alive /\ i = last)
      BY <1>2
    <3>5. alive => last <= told' + 1
      BY <1>8, <3>2
    <3> QED BY <3>3, <3>4, <3>5
  <2>3. \A p \in Requests : turnOf'[p] <= Sent'
    BY <1>5, <1>8 DEF TurnInv, Informed
  <2> QED BY <2>1, <2>2, <2>3 DEF Informed
<1>15. EndedOrTold'
  BY <1>5, <1>11 DEF TurnInv, EndedOrTold, Done
<1>16. OpWaits'
  <2>1. (pc["op"] = "wait")' => pc["op"] = "wait" /\ t # "op" /\ target'["op"] = target["op"]
    BY <1>1, <1>4 DEF ScalarTypes, Tasks
  <2>2. (pc["op"] = "drain")' => (target["op"] = last)'
    BY <1>1, <1>4, <1>5 DEF TurnInv, Numbered, ScalarTypes, Tasks
  <2>3. ASSUME NEW i \in Turns, reply[i] = "starting" PROVE i = current /\ t # "op" /\ pc'["op"] = "wait"
    <3>1. i = current /\ pc["op"] = "wait" /\ i = last
      BY <1>1, <2>3 DEF TurnInv, OpWaits, Numbered, ScalarTypes
    <3>2. t # "op"
      BY <2>3, <3>1 DEF NoLongerStarting
    <3> QED BY <1>1, <1>4, <3>1, <3>2 DEF ScalarTypes, Tasks
  <2> QED BY <1>3, <1>5, <2>1, <2>2, <2>3 DEF TurnInv, OpWaits, Done
<1>17. Drains'
  <2> SUFFICES ASSUME NEW u \in Tasks, pc'[u] = "drain" PROVE Drained(u)'
    BY DEF Drains
  <2>1. u = t /\ current # 0 /\ target'[u] = current
    BY <1>1, <1>4 DEF ScalarTypes
  <2>2. current = last /\ last \in 1..last
    BY <1>1, <2>1 DEF TurnInv, Numbered, ScalarTypes
  <2>3. alive => Warned(last)' /\ \A p \in Requests : Warned(turnOf[p])'
    BY <1>5, <1>10, <2>2 DEF Warned
  <2> QED BY <1>5, <2>1, <2>2, <2>3 DEF Drained, Warned
<1>18. PendingHasTurn'
  BY <1>3, <1>5 DEF TurnInv, PendingHasTurn
<1>19. LiveTurnIsTended'
  <2>1. current # 0 => pc'[t] = "drain" \/ current \in left'
    BY <1>1, <1>4 DEF ScalarTypes
  <2>2. t \in {"op", "tool"}
    BY DEF Tasks
  <2> QED BY <1>5, <2>1, <2>2 DEF LiveTurnIsTended, TurnActive
<1>20. NoSilentDrop'
  BY <1>5, <1>10, NothingLost DEF Warned
<1> QED BY <1>12, <1>13, <1>14, <1>15, <1>16, <1>17, <1>18, <1>19, <1>20 DEF TurnInv

\* cancel_turn waits for its lock.
LEMMA QueueKeepsInv ==
  ASSUME TurnInv, NEW t \in Tasks, pc[t] # "drain", Goto(t, "queue"), UNCHANGED <<target, gate>>,
         CancelFrame, NoLongerStarting(t)
  PROVE  TurnInv'
<1> USE TurnAssumption DEF Turns, Requests
<1>1. TypeOK /\ ScalarTypes
  BY TypesAreScalar DEF TurnInv
<1>2. pc' = [pc EXCEPT ![t] = "queue"]
  BY DEF Goto
<1>3. UNCHANGED <<approval, target, current, last, reply, overruns, text, alive, wire, agent, said,
                  turnOf, decided, pending, queue, answers, told, overtaken, left>>
  BY DEF CancelFrame, gate
<1>4. TypeOK'
  BY <1>1, <1>2, <1>3 DEF TypeOK, CallTypes, ClientTypes, GateTypes, AgentTypes
<1>5. /\ Numbered' /\ Informed' /\ RepliesAreLast' /\ OwnResult' /\ EndedOrTold'
      /\ PendingHasTurn'
  BY <1>3 DEF TurnInv, Numbered, Informed, Sent, RepliesAreLast, OwnResult, Done,
              EndedOrTold, Warned, PendingHasTurn
<1>6. OpWaits'
  <2>1. pc'["op"] = "wait" => pc["op"] = "wait"
    BY <1>1, <1>2 DEF ScalarTypes, Tasks
  <2>2. pc'["op"] = "drain" => pc["op"] = "drain"
    BY <1>1, <1>2 DEF ScalarTypes, Tasks
  <2>3. ASSUME NEW i \in Turns, reply[i] = "starting" PROVE i = current /\ pc'["op"] = "wait"
    <3>1. i = current /\ pc["op"] = "wait" /\ i = last
      BY <1>1, <2>3 DEF TurnInv, OpWaits, Numbered, ScalarTypes
    <3>2. t # "op"
      BY <2>3, <3>1 DEF NoLongerStarting
    <3> QED BY <1>1, <1>2, <3>1, <3>2 DEF ScalarTypes, Tasks
  <2> QED BY <1>3, <2>1, <2>2, <2>3 DEF TurnInv, OpWaits, Done
<1>7. Drains'
  <2> SUFFICES ASSUME NEW u \in Tasks, pc'[u] = "drain" PROVE Drained(u)'
    BY DEF Drains
  <2>1. pc[u] = "drain" /\ (pc["op"] \in {"wait", "queue"} => pc'["op"] \in {"wait", "queue"})
    BY <1>1, <1>2 DEF ScalarTypes, Tasks
  <2>2. Drained(u)
    BY <2>1 DEF TurnInv, Drains
  <2> QED BY <1>3, <2>1, <2>2 DEF Drained, Warned, TurnActive, Done
<1>8. LiveTurnIsTended'
  BY <1>1, <1>2, <1>3 DEF TurnInv, LiveTurnIsTended, TurnActive, Done, Tasks, ScalarTypes
<1>9. NoSilentDrop'
  <2>1. pc["op"] = "queue" => pc'["op"] = "queue"
    BY <1>1, <1>2 DEF ScalarTypes, Tasks
  <2> QED BY <1>3, <2>1 DEF TurnInv, NoSilentDrop, OnWire, Known
<1> QED BY <1>4, <1>5, <1>6, <1>7, <1>8, <1>9 DEF TurnInv

\* Whoever calls cancel_turn does one or the other.
LEMMA CancelKeepsInv ==
  ASSUME TurnInv, NEW t \in Tasks, pc[t] # "drain", CancelTurn(t), CancelFrame, NoLongerStarting(t)
  PROVE  TurnInv'
<1>1. CASE LockFree /\ EnterCancel(t)
  BY <1>1, EnterKeepsInv DEF LockFree
<1>2. CASE ~LockFree /\ Goto(t, "queue") /\ UNCHANGED <<target, gate>>
  BY <1>2, QueueKeepsInv
<1> QED BY <1>1, <1>2 DEF CancelTurn

\* The callers of cancel_turn.
LEMMA CallersKeepInv ==
  ASSUME TurnInv,
         \/ PromptRefused \/ TurnFails \/ WaitTimesOut \/ Cancelled \/ ElicitFails \/ PermissionExpires
         \/ CancelTool \/ \E t \in Tasks : LeaveQueue(t)
  PROVE  TurnInv'
<1>1. pc["op"] = "wait" => target["op"] = last
  BY DEF TurnInv, OpWaits
<1>2. CASE PromptRefused \/ TurnFails \/ WaitTimesOut \/ Cancelled \/ ElicitFails \/ PermissionExpires
  <2>1. CancelTurn("op") /\ CancelFrame
    BY <1>2 DEF PromptRefused, TurnFails, WaitTimesOut, Cancelled, ElicitFails, PermissionExpires, CancelFrame,
                client, agentSide
  <2>2. pc["op"] # "drain" /\ NoLongerStarting("op")
    BY <1>1, <1>2 DEF PromptRefused, TurnFails, WaitTimesOut, Cancelled, ElicitFails, PermissionExpires,
                      NoLongerStarting, OpTurn
  <2> QED BY <2>1, <2>2, CancelKeepsInv DEF Tasks
<1>3. CASE CancelTool
  <2>1. CancelTurn("tool") /\ CancelFrame /\ pc["tool"] # "drain" /\ NoLongerStarting("tool")
    BY <1>3 DEF CancelTool, CancelFrame, client, agentSide, NoLongerStarting
  <2> QED BY <2>1, CancelKeepsInv DEF Tasks
<1>4. ASSUME NEW t \in Tasks, LeaveQueue(t) PROVE TurnInv'
  <2>1. EnterCancel(t) /\ CancelFrame /\ (\A u \in Tasks : pc[u] # "drain") /\ NoLongerStarting(t)
    BY <1>4 DEF LeaveQueue, CancelFrame, client, agentSide, NoLongerStarting
  <2> QED BY <2>1, EnterKeepsInv
<1> QED BY <1>2, <1>3, <1>4

\* A caller is cancelled inside cancel_turn: the turn there is, is left, and all
\* before it have ended.
LEMMA InterruptKeepsInv ==
  ASSUME TurnInv, NEW t \in Tasks, Interrupt(t)
  PROVE  TurnInv'
<1> USE TurnAssumption DEF Turns, Requests
<1>1. TypeOK /\ ScalarTypes
  BY TypesAreScalar DEF TurnInv
<1>2. /\ pc[t] \in {"queue", "drain"} /\ pc' = [pc EXCEPT ![t] = "idle"]
      /\ left' = IF current = 0 THEN left ELSE left \cup {current}
  BY DEF Interrupt, Leave, Goto
<1>3. UNCHANGED <<approval, target, current, last, reply, overruns, text, alive, wire, agent, said,
                  turnOf, decided, pending, queue, answers, told, overtaken>>
  BY DEF Interrupt, Leave, client, agentSide
<1>4. current # 0 => current \in 1..last
  BY <1>1 DEF ScalarTypes
<1>5. TypeOK'
  <2>1. CallTypes'
    BY <1>1, <1>2, <1>3 DEF TypeOK, CallTypes
  <2>2. ClientTypes' /\ AgentTypes'
    BY <1>1, <1>3 DEF TypeOK, ClientTypes, AgentTypes
  <2>3. left' \subseteq 1..last
    BY <1>1, <1>2, <1>4 DEF ScalarTypes
  <2>4. GateTypes'
    BY <1>1, <1>3, <2>3 DEF TypeOK, GateTypes
  <2> QED BY <2>1, <2>2, <2>4 DEF TypeOK
<1>6. /\ Numbered' /\ Informed' /\ RepliesAreLast' /\ OwnResult' /\ EndedOrTold' /\ PendingHasTurn'
  BY <1>3 DEF TurnInv, Numbered, Informed, Sent, RepliesAreLast, OwnResult, EndedOrTold, Warned, Done,
              PendingHasTurn
<1>7. pc'["op"] = IF t = "op" THEN "idle" ELSE pc["op"]
  BY <1>1, <1>2 DEF ScalarTypes, Tasks
<1>8. OpWaits'
  BY <1>2, <1>3, <1>7 DEF TurnInv, OpWaits, Done
<1>9. Drains'
  <2> SUFFICES ASSUME NEW u \in Tasks, pc'[u] = "drain" PROVE Drained(u)'
    BY DEF Drains
  <2>1. pc[u] = "drain" /\ Drained(u)
    BY <1>1, <1>2 DEF TurnInv, Drains, ScalarTypes
  <2>2. TurnActive' => TurnActive /\ current \in left'
    BY <1>2, <1>3 DEF TurnActive, Done
  <2> QED BY <1>3, <2>1, <2>2 DEF Drained, Warned, Done
<1>10. LiveTurnIsTended'
  BY <1>2, <1>3 DEF LiveTurnIsTended, TurnActive
<1>11. NoSilentDrop'
  <2> SUFFICES ASSUME NEW p \in Requests, turnOf[p] # 0
               PROVE  \/ agent[turnOf[p]] = "ended" \/ Warned(turnOf[p])' \/ ~alive
                      \/ turnOf[p] \in left'
    BY <1>3, NothingLost
  <2>1. turnOf[p] \in Turns /\ turnOf[p] <= last /\ last \in Nat
    BY <1>1 DEF TurnInv, Numbered, ScalarTypes
  <2>2. CASE Done(turnOf[p])
    BY <1>3, <2>1, <2>2 DEF TurnInv, EndedOrTold, Warned
  <2>3. CASE ~Done(turnOf[p])
    <3>1. turnOf[p] = last
      BY <2>1, <2>3 DEF TurnInv, Numbered
    <3>2. current = last /\ current # 0
      BY <2>1, <2>3, <3>1 DEF TurnInv, Numbered
    <3> QED BY <1>2, <3>1, <3>2
  <2> QED BY <2>2, <2>3
<1> QED BY <1>5, <1>6, <1>8, <1>9, <1>10, <1>11 DEF TurnInv

(***************************************************************************)
(* A decision of the MCP client                                            *)
(***************************************************************************)
\* The pending request is answered, or the process is gone.
LEMMA ResolveKeepsInv ==
  ASSUME TurnInv, Resolve, pc["op"] \in {"idle", "elicit"}, pending # 0,
         UNCHANGED <<approval, client, agentSide>>,
         NEW p \in Requests, decided' = decided \cup {p}
  PROVE  TurnInv'
<1> USE TurnAssumption DEF Turns, Requests
<1>1. TypeOK /\ ScalarTypes
  BY TypesAreScalar DEF TurnInv
<1>2. UNCHANGED <<approval, current, last, reply, overruns, text, alive, wire, agent, said,
                  turnOf, queue, told, overtaken, left>>
  BY DEF Resolve, client, agentSide
<1>3. pending' = 0
  BY DEF Resolve
<1>4. \/ /\ alive
         /\ answers' = [answers EXCEPT ![pending] = Append(@, "chosen")]
         /\ pc' = [pc EXCEPT !["op"] = "wait"] /\ target' = [target EXCEPT !["op"] = current]
      \/ /\ ~alive
         /\ pc' = [pc EXCEPT !["op"] = "idle"] /\ UNCHANGED <<answers, target>>
  BY DEF Resolve, Goto, Answer
<1>5. current = last /\ last \in 1..last /\ last > 0
  BY <1>1 DEF TurnInv, PendingHasTurn, Numbered, ScalarTypes
<1>6. answers' \in [Requests -> Seq({"chosen", "rejected"})]
  <2>1. answers \in [Requests -> Seq({"chosen", "rejected"})]
    BY <1>1 DEF TypeOK, GateTypes
  <2>2. [answers EXCEPT ![pending] = Append(@, "chosen")] \in [Requests -> Seq({"chosen", "rejected"})]
    BY <2>1, AnswersAreSequences
  <2> QED BY <1>4, <2>1, <2>2
<1>7. TypeOK'
  <2>1. CallTypes'
    BY <1>1, <1>2, <1>4 DEF TypeOK, CallTypes, ScalarTypes, Tasks
  <2>2. ClientTypes' /\ AgentTypes'
    BY <1>1, <1>2 DEF TypeOK, ClientTypes, AgentTypes
  <2>3. pending' \in 0..MaxAsks
    BY <1>3
  <2>4. GateTypes'
    BY <1>1, <1>2, <1>6, <2>3 DEF TypeOK, GateTypes
  <2> QED BY <2>1, <2>2, <2>4 DEF TypeOK
<1>8. Numbered' /\ Informed' /\ RepliesAreLast' /\ OwnResult' /\ EndedOrTold'
  BY <1>2 DEF TurnInv, Numbered, Informed, Sent, RepliesAreLast, OwnResult, Done,
              EndedOrTold, Warned
<1>9. OpWaits'
  <2>1. pc'["op"] # "drain" /\ (pc'["op"] = "wait" => target'["op"] = last)
    BY <1>1, <1>4, <1>5 DEF ScalarTypes, Tasks
  <2>2. \A i \in Turns : reply[i] # "starting"
    BY DEF TurnInv, OpWaits
  <2> QED BY <1>2, <1>3, <1>5, <2>1, <2>2 DEF OpWaits
<1>10. Drains'
  <2> SUFFICES ASSUME NEW u \in Tasks, pc'[u] = "drain" PROVE Drained(u)'
    BY DEF Drains
  <2>1. u # "op" /\ pc[u] = "drain" /\ target'[u] = target[u]
    BY <1>1, <1>4 DEF ScalarTypes, Tasks
  <2>2. Drained(u) /\ target[u] \in 1..last
    BY <2>1 DEF TurnInv, Drains, Drained
  <2>3. pc["op"] \notin {"wait", "queue"}
    OBVIOUS
  <2> QED BY <1>2, <2>1, <2>2, <2>3 DEF Drained, Warned, TurnActive, Done
<1>11. PendingHasTurn'
  BY <1>3 DEF PendingHasTurn
<1>12. LiveTurnIsTended'
  BY <1>1, <1>2, <1>4 DEF LiveTurnIsTended, ScalarTypes, Tasks
<1>13. NoSilentDrop'
  <2>1. CASE ~alive
    BY <1>2, <2>1 DEF NoSilentDrop
  <2>2. CASE alive
    <3>1. \A q \in Requests : answers'[q] = <<>> => answers[q] = <<>> /\ q # pending
      BY <1>1, <1>4, <2>2 DEF TypeOK, GateTypes
    <3>2. \A q \in Requests : /\ Known(q) /\ ~Known(q)' => q = pending
                              /\ OnWire(q)' = OnWire(q)
      BY <1>2, WhereItIs DEF OnWire
    <3>3. NoSilentDrop /\ pc["op"] # "queue"
      BY DEF TurnInv
    <3> QED BY <1>2, <3>1, <3>2, <3>3 DEF NoSilentDrop
  <2> QED BY <2>1, <2>2
<1> QED BY <1>7, <1>8, <1>9, <1>10, <1>11, <1>12, <1>13 DEF TurnInv

\* The gate is opened, but whether the answer was sent is not certain: the
\* handler goes on to cancel the turn.
LEMMA CutKeepsInv ==
  ASSUME TurnInv, ResolveCut, pc["op"] \in {"idle", "elicit"},
         UNCHANGED <<approval, client, agentSide>>,
         NEW p \in Requests, decided' = decided \cup {p}
  PROVE  TurnInv'
<1> USE TurnAssumption DEF Turns, Requests
<1>1. TypeOK /\ ScalarTypes
  BY TypesAreScalar DEF TurnInv
<1>2. UNCHANGED <<approval, target, current, last, reply, overruns, text, alive, wire, agent, said,
                  turnOf, queue, answers, told, overtaken, left>>
  BY DEF ResolveCut, client, agentSide
<1>3. pending' = 0 /\ pc' = [pc EXCEPT !["op"] = "queue"]
  BY DEF ResolveCut, Goto
<1>4. pc'["op"] = "queue" /\ pc'["tool"] = pc["tool"]
  BY <1>1, <1>3 DEF ScalarTypes, Tasks
<1>5. TypeOK'
  <2>1. CallTypes'
    BY <1>1, <1>2, <1>3 DEF TypeOK, CallTypes
  <2>2. ClientTypes' /\ AgentTypes'
    BY <1>1, <1>2 DEF TypeOK, ClientTypes, AgentTypes
  <2>3. pending' \in 0..MaxAsks
    BY <1>3
  <2>4. GateTypes'
    BY <1>1, <1>2, <2>3 DEF TypeOK, GateTypes
  <2> QED BY <2>1, <2>2, <2>4 DEF TypeOK
<1>6. Numbered' /\ Informed' /\ RepliesAreLast' /\ OwnResult' /\ EndedOrTold'
  BY <1>2 DEF TurnInv, Numbered, Informed, Sent, RepliesAreLast, OwnResult, Done,
              EndedOrTold, Warned
<1>7. OpWaits'
  <2>1. \A i \in Turns : reply[i] # "starting"
    BY DEF TurnInv, OpWaits
  <2> QED BY <1>2, <1>4, <2>1 DEF OpWaits
<1>8. Drains'
  <2> SUFFICES ASSUME NEW u \in Tasks, pc'[u] = "drain" PROVE Drained(u)'
    BY DEF Drains
  <2>1. pc[u] = "drain"
    BY <1>4 DEF Tasks
  <2>2. Drained(u)
    BY <2>1 DEF TurnInv, Drains
  <2> QED BY <1>2, <1>4, <2>2 DEF Drained, Warned, TurnActive, Done
<1>9. PendingHasTurn' /\ LiveTurnIsTended' /\ NoSilentDrop'
  BY <1>3, <1>4 DEF PendingHasTurn, LiveTurnIsTended, NoSilentDrop
<1> QED BY <1>5, <1>6, <1>7, <1>8, <1>9 DEF TurnInv

\* Every decision, also one that meets no pending request.
LEMMA DecisionsKeepInv ==
  ASSUME TurnInv, Elicited \/ \E p \in Requests : Respond(p) \/ RespondRefused(p)
  PROVE  TurnInv'
<1>1. TypeOK
  BY DEF TurnInv
<1>2. CASE Elicited
  <2>1. pending \in Requests
    BY <1>1, <1>2, TurnAssumption DEF TypeOK, GateTypes, Elicited, Requests
  <2> QED BY <1>2, <2>1, ResolveKeepsInv, CutKeepsInv DEF Elicited
<1>3. ASSUME NEW p \in Requests, Respond(p) PROVE TurnInv'
  <2>1. pending # 0
    BY <1>3, TurnAssumption DEF Respond, Requests
  <2> QED BY <1>3, <2>1, ResolveKeepsInv, CutKeepsInv DEF Respond
<1>4. ASSUME NEW p \in Requests, RespondRefused(p) PROVE TurnInv'
  <2>1. UNCHANGED <<approval, pc, target, current, last, reply, overruns, text, alive, wire, agent,
                    said, turnOf, pending, queue, answers, told, overtaken, left>>
    BY <1>4 DEF RespondRefused, client, agentSide, gate
  <2>2. TypeOK'
    BY <1>1, <1>4, <2>1 DEF TypeOK, CallTypes, ClientTypes, GateTypes, AgentTypes, RespondRefused
  <2>3. Numbered' /\ Informed' /\ RepliesAreLast' /\ OwnResult' /\ EndedOrTold'
    BY <2>1 DEF TurnInv, Numbered, Informed, Sent, RepliesAreLast, OwnResult, Done,
                EndedOrTold, Warned
  <2>4. OpWaits' /\ Drains' /\ PendingHasTurn' /\ LiveTurnIsTended'
    BY <2>1 DEF TurnInv, OpWaits, Drains, Drained, Warned, PendingHasTurn, LiveTurnIsTended, TurnActive, Done
  <2>5. NoSilentDrop'
    BY <2>1 DEF TurnInv, NoSilentDrop, OnWire, Known
  <2> QED BY <2>2, <2>3, <2>4, <2>5 DEF TurnInv
<1> QED BY <1>2, <1>3, <1>4

(***************************************************************************)
(* The agent                                                               *)
(***************************************************************************)
\* What the agent's steps leave to the client.
AgentFrame == UNCHANGED <<approval, pc, target, current, last, reply, overruns, text, alive,
                          pending, queue, answers, told, overtaken, left, decided>>

\* A turn the agent works on has begun, and all before it have ended.
LEMMA WorkIsOnBegunTurns ==
  ASSUME TurnInv, NEW i \in Turns, agent[i] = "working"
  PROVE  i <= last /\ i \in 1..MaxTurns
<1>1. i \in 1..MaxTurns /\ last \in Nat
  BY TypesAreScalar DEF TurnInv, ScalarTypes, Turns
<1>2. ~(i > last)
  BY DEF TurnInv, Numbered
<1> QED BY <1>1, <1>2

\* A line is put on the wire: the rest is as it was, but for the work on the
\* turn that it is about, which goes on or ends.
LEMMA WritingKeepsInv ==
  ASSUME TurnInv, AgentFrame, NEW i \in Turns, agent[i] = "working",
         NEW l \in Lines, wire' = Append(wire, l),
         NEW a \in {"working", "ended"}, agent' = [agent EXCEPT ![i] = a],
         l.kind \in {"result", "error"} => l.of = i /\ a = "ended",
         said' \in [Turns -> Nat], turnOf' = turnOf
  PROVE  TurnInv'
<1> USE TurnAssumption DEF Turns, Requests
<1>1. TypeOK /\ ScalarTypes
  BY TypesAreScalar DEF TurnInv
<1>2. UNCHANGED <<approval, pc, target, current, last, reply, overruns, text, alive,
                  pending, queue, answers, told, overtaken, left, decided, turnOf>>
  BY DEF AgentFrame
<1>3. wire \in Seq(Lines) /\ wire' \in Seq(Lines) /\ Range(wire') = Range(wire) \cup {l}
  BY <1>1, RangeOfAppend DEF TypeOK, AgentTypes
<1>4. \A j \in Turns : agent[j] = "ended" => agent'[j] = "ended"
  BY <1>1 DEF ScalarTypes
<1>5. \A j \in Turns : agent'[j] # agent[j] => j = i /\ agent'[j] = "ended"
  BY <1>1 DEF ScalarTypes
<1>6. TypeOK'
  <2>1. AgentTypes'
    BY <1>1, <1>2, <1>3 DEF AgentTypes, ScalarTypes
  <2>2. CallTypes' /\ ClientTypes' /\ GateTypes'
    BY <1>1, <1>2 DEF TypeOK, CallTypes, ClientTypes, GateTypes
  <2> QED BY <2>1, <2>2 DEF TypeOK
<1>7. Numbered'
  <2>1. reply[i] \notin {"none", "starting"}
    BY DEF TurnInv, Numbered
  <2> QED BY <1>2, <1>5, <2>1 DEF TurnInv, Numbered, Done
<1>8. RepliesAreLast'
  <2>1. ASSUME NEW m \in Range(wire), m.kind \in {"result", "error"} PROVE agent'[m.of] = "ended"
    <3>1. agent[m.of] = "ended"
      BY <2>1 DEF TurnInv, RepliesAreLast
    <3>2. m \in Lines
      BY <1>3, <2>1 DEF Range
    <3>3. m.of \in Turns
      BY <2>1, <3>2 DEF Lines
    <3> QED BY <1>4, <3>1, <3>3
  <2>2. l.kind \in {"result", "error"} => agent'[l.of] = "ended"
    BY <1>1 DEF ScalarTypes
  <2> QED BY <1>3, <2>1, <2>2 DEF RepliesAreLast
<1>9. Informed' /\ EndedOrTold' /\ OwnResult'
  BY <1>2, <1>4 DEF TurnInv, Informed, Sent, EndedOrTold, Warned, OwnResult, Done
<1>10. OpWaits' /\ Drains' /\ PendingHasTurn' /\ LiveTurnIsTended'
  BY <1>2 DEF TurnInv, OpWaits, Drains, Drained, Warned, PendingHasTurn,
              LiveTurnIsTended, TurnActive, Done
<1>11. NoSilentDrop'
  <2>1. \A p \in Requests : OnWire(p) => OnWire(p)'
    BY <1>3, WhereItIs
  <2>2. \A p \in Requests : Known(p)' = Known(p)
    BY <1>2 DEF Known
  <2>3. \A p \in Requests : turnOf[p] # 0 => turnOf[p] \in Turns
    BY <1>1 DEF ScalarTypes
  <2> QED BY <1>2, <1>4, <2>1, <2>2, <2>3 DEF TurnInv, NoSilentDrop
<1> QED BY <1>6, <1>7, <1>8, <1>9, <1>10, <1>11 DEF TurnInv

\* The agent speaks of its turn only while it works on it,
LEMMA SaysKeepsInv ==
  ASSUME TurnInv, NEW i \in Turns, AgentSays(i)
  PROVE  TurnInv'
<1>1. AgentFrame /\ agent[i] = "working" /\ wire' = Append(wire, Line("text", i))
      /\ agent' = agent /\ turnOf' = turnOf /\ said' = [said EXCEPT ![i] = @ + 1]
  BY DEF AgentSays, Works, Writes, AgentFrame, client, gate
<1>2. TypeOK
  BY DEF TurnInv
<1>3. Line("text", i) \in Lines /\ Line("text", i).kind = "text"
  BY DEF Line, Lines
<1>4. agent' = [agent EXCEPT ![i] = "working"] /\ said' \in [Turns -> Nat]
  BY <1>1, <1>2 DEF TypeOK, AgentTypes
<1> QED BY <1>1, <1>3, <1>4, WritingKeepsInv

\* answers its request once,
LEMMA RepliesKeepsInv ==
  ASSUME TurnInv, NEW i \in Turns, AgentReplies(i)
  PROVE  TurnInv'
<1>1. AgentFrame /\ agent[i] = "working" /\ agent' = [agent EXCEPT ![i] = "ended"]
      /\ turnOf' = turnOf /\ said' = said
  BY DEF AgentReplies, Works, Writes, AgentFrame, client, gate
<1>2. PICK r \in {"result", "error"} : wire' = Append(wire, Line(r, i))
  BY DEF AgentReplies, Writes
<1>3. Line(r, i) \in Lines /\ Line(r, i).of = i
  BY DEF Line, Lines
<1>4. said' \in [Turns -> Nat]
  BY <1>1 DEF TurnInv, TypeOK, AgentTypes
<1> QED BY <1>1, <1>2, <1>3, <1>4, WritingKeepsInv

\* and a line that is too long is no message of any turn.
LEMMA OverrunsKeepsInv ==
  ASSUME TurnInv, NEW i \in Turns, AgentOverruns(i)
  PROVE  TurnInv'
<1>1. AgentFrame /\ agent[i] = "working" /\ wire' = Append(wire, Line("long", i))
      /\ turnOf' = turnOf /\ said' = said
  BY DEF AgentOverruns, Works, Writes, AgentFrame, client, gate
<1>2. PICK a \in {"working", "ended"} : agent' = [agent EXCEPT ![i] = a]
  BY DEF AgentOverruns
<1>3. Line("long", i) \in Lines /\ Line("long", i).kind = "long"
  BY DEF Line, Lines
<1>4. said' \in [Turns -> Nat]
  BY <1>1 DEF TurnInv, TypeOK, AgentTypes
<1> QED BY <1>1, <1>2, <1>3, <1>4, WritingKeepsInv

\* A request of a turn that the agent works on while a cancel drains: the
\* drained turn is the newest one, and the agent has been told of it.
LEMMA AsksKeepsInv ==
  ASSUME TurnInv, NEW i \in Turns, NEW p \in Requests, AgentAsks(i, p)
  PROVE  TurnInv'
<1> USE TurnAssumption DEF Turns, Requests
<1>1. TypeOK /\ ScalarTypes
  BY TypesAreScalar DEF TurnInv
<1>2. /\ agent[i] = "working" /\ wire' = Append(wire, Line("ask", p))
      /\ alive /\ Settled /\ turnOf[p] = 0 /\ turnOf' = [turnOf EXCEPT ![p] = i]
  BY DEF AgentAsks, Works, Writes
<1>3. UNCHANGED <<approval, pc, target, current, last, reply, overruns, text, alive,
                  pending, queue, answers, told, overtaken, left, decided, agent, said>>
  BY DEF AgentAsks, Writes, client, gate
<1>4. i <= last
  BY <1>2, WorkIsOnBegunTurns
<1>5. Line("ask", p) \in Lines /\ Line("ask", p).kind = "ask"
  BY DEF Line, Lines
<1>6. wire' \in Seq(Lines) /\ Range(wire') = Range(wire) \cup {Line("ask", p)}
  BY <1>1, <1>2, <1>5, RangeOfAppend DEF TypeOK, AgentTypes
<1>7. turnOf' \in [Requests -> 0..MaxTurns]
  BY <1>1, <1>2 DEF ScalarTypes
<1>8. TypeOK'
  <2>1. AgentTypes'
    BY <1>1, <1>3, <1>6, <1>7 DEF TypeOK, AgentTypes
  <2>2. CallTypes' /\ ClientTypes' /\ GateTypes'
    BY <1>1, <1>3 DEF TypeOK, CallTypes, ClientTypes, GateTypes
  <2> QED BY <2>1, <2>2 DEF TypeOK
<1>9. Numbered'
  <2>1. \A q \in Requests : turnOf'[q] <= last
    BY <1>1, <1>2, <1>4 DEF TurnInv, Numbered, ScalarTypes
  <2> QED BY <1>3, <2>1 DEF TurnInv, Numbered, Done
<1>10. RepliesAreLast'
  BY <1>3, <1>5, <1>6 DEF TurnInv, RepliesAreLast
<1>11. /\ EndedOrTold' /\ OwnResult' /\ OpWaits' /\ PendingHasTurn'
       /\ LiveTurnIsTended'
  BY <1>3 DEF TurnInv, EndedOrTold, Warned, OwnResult, OpWaits, PendingHasTurn,
              LiveTurnIsTended, TurnActive, Done
<1>14. Informed'
  <2>1. i <= Sent
    <3>1. reply[i] \notin {"none", "starting"}
      BY <1>2 DEF TurnInv, Numbered
    <3>2. Sent # last => Sent = last - 1 /\ reply[last] = "starting"
      BY <1>1 DEF Sent, TurnInv, Numbered, ScalarTypes
    <3> QED BY <1>1, <1>4, <3>1, <3>2 DEF ScalarTypes
  <2>2. Sent' = Sent
    BY <1>3 DEF Sent
  <2>3. \A q \in Requests : turnOf'[q] = turnOf[q] \/ turnOf'[q] = i
    BY <1>1, <1>2 DEF ScalarTypes
  <2> QED BY <1>3, <2>1, <2>2, <2>3 DEF TurnInv, Informed
<1>12. Drains'
  <2> SUFFICES ASSUME NEW t \in Tasks, pc[t] = "drain" PROVE Drained(t)'
    BY <1>3 DEF Drains
  <2>1. Drained(t)
    BY DEF TurnInv, Drains
  <2>2. target[t] = last
    <3>1. target[t] # last => ~Done(target[t])
      BY <1>2 DEF Settled
    <3>2. current \in {0, last} /\ target[t] \in 1..last
      BY <2>1 DEF TurnInv, Numbered, Drained
    <3> QED BY <1>1, <2>1, <3>1, <3>2 DEF Drained, ScalarTypes
  <2>3. \A q \in Requests : Warned(turnOf'[q])
    <3>1. Warned(last) /\ \A q \in Requests : Warned(turnOf[q])
      BY <1>2, <2>1, <2>2 DEF Drained
    <3>2. last <= told \/ last <= told + 1
      BY <3>1 DEF Warned, TurnInv, Informed
    <3>3. Warned(i)
      BY <1>1, <1>4, <3>1, <3>2 DEF ScalarTypes, Warned
    <3>4. \A q \in Requests : turnOf'[q] = turnOf[q] \/ turnOf'[q] = i
      BY <1>1, <1>2 DEF ScalarTypes
    <3> QED BY <3>1, <3>3, <3>4
  <2> QED BY <1>3, <2>1, <2>3 DEF Drained, Warned, TurnActive, Done
<1>13. NoSilentDrop'
  <2>1. OnWire(p)'
    BY <1>6, WhereItIs
  <2>2. \A q \in Requests : OnWire(q) => OnWire(q)'
    BY <1>6, WhereItIs
  <2>3. \A q \in Requests : Known(q)' = Known(q)
    BY <1>3 DEF Known
  <2>4. \A q \in Requests : q # p => turnOf'[q] = turnOf[q]
    BY <1>1, <1>2 DEF ScalarTypes
  <2> QED BY <1>3, <2>1, <2>2, <2>3, <2>4 DEF TurnInv, NoSilentDrop
<1> QED BY <1>8, <1>9, <1>10, <1>11, <1>12, <1>13, <1>14 DEF TurnInv

\* Every step of the agent keeps the invariant.
LEMMA AgentKeepsInv ==
  ASSUME TurnInv, AgentStep
  PROVE  TurnInv'
BY SaysKeepsInv, RepliesKeepsInv, OverrunsKeepsInv, AsksKeepsInv DEF AgentStep

(***************************************************************************)
(* The reader                                                              *)
(***************************************************************************)
\* A reply that is waited for has been told of, or its turn has not ended.
LEMMA WaitingIsNewest ==
  ASSUME TurnInv, NEW i \in Turns, reply[i] \in {"starting", "waiting"}
  PROVE  i = last /\ current = last /\ last \in 1..MaxTurns
<1>1. i \in 1..MaxTurns /\ last \in Nat /\ current \in {0, last}
  BY TypesAreScalar DEF TurnInv, ScalarTypes, Turns, Numbered
<1>2. ~(i < last) /\ ~(i > last)
  BY DEF TurnInv, Numbered, Done
<1>3. ~(current = 0 /\ last > 0)
  BY <1>1, <1>2 DEF TurnInv, Numbered, Done
<1> QED BY <1>1, <1>2, <1>3

\* What taking a line off the wire does to its contents.
LEMMA TakenLine ==
  ASSUME TurnInv, wire # <<>>, wire' = Tail(wire)
  PROVE  /\ wire' \in Seq(Lines)
         /\ Head(wire) \in Lines
         /\ Head(wire) \in Range(wire)
         /\ Range(wire) = Range(wire') \cup {Head(wire)}
<1>1. wire \in Seq(Lines)
  BY DEF TurnInv, TypeOK, AgentTypes
<1> QED BY <1>1, RangeOfTail

\* Text is counted for the turn it was sent in.
LEMMA ReadTextKeepsInv ==
  ASSUME TurnInv, ReadText
  PROVE  TurnInv'
<1> USE TurnAssumption DEF Turns, Requests
<1>1. TypeOK /\ ScalarTypes
  BY TypesAreScalar DEF TurnInv
<1>2. wire # <<>> /\ Head(wire).kind = "text" /\ wire' = Tail(wire)
      /\ text' = [text EXCEPT ![Head(wire).of] = @ + 1]
  BY DEF ReadText, Reads, Consume
<1>3. UNCHANGED <<approval, pc, target, current, last, reply, overruns, alive, agent, said,
                  turnOf, decided, pending, queue, answers, told, overtaken, left>>
  BY DEF ReadText, Consume, gate
<1>4. /\ wire' \in Seq(Lines) /\ Range(wire) = Range(wire') \cup {Head(wire)}
  BY <1>2, TakenLine
<1>5. TypeOK'
  <2>1. text' \in [Turns -> Nat]
    <3>1. text \in [Turns -> Nat]
      BY <1>1 DEF TypeOK, ClientTypes
    <3>2. \A i \in Turns : [text EXCEPT ![i] = @ + 1] \in [Turns -> Nat]
      BY <3>1
    <3>3. Head(wire).of \in Turns
      BY <1>2, TakenLine DEF Lines
    <3> QED BY <1>2, <3>2, <3>3
  <2> QED BY <1>1, <1>3, <1>4, <2>1 DEF TypeOK, CallTypes, ClientTypes, GateTypes, AgentTypes
<1>6. Numbered' /\ Informed' /\ RepliesAreLast' /\ EndedOrTold' /\ OpWaits' /\ Drains'
  BY <1>3, <1>4 DEF TurnInv, Numbered, Informed, Sent, RepliesAreLast, EndedOrTold, Warned, OpWaits,
                    Drains, Drained, Done, TurnActive
<1>7. OwnResult' /\ PendingHasTurn' /\ LiveTurnIsTended'
  BY <1>3 DEF TurnInv, OwnResult, PendingHasTurn, LiveTurnIsTended, TurnActive, Done
<1>8. NoSilentDrop'
  <2>1. \A p \in Requests : OnWire(p) => OnWire(p)'
    <3>1. \A p \in Requests : Line("ask", p) # Head(wire)
      BY <1>2 DEF Line
    <3> QED BY <1>4, <3>1, WhereItIs
  <2>2. \A p \in Requests : Known(p)' = Known(p)
    BY <1>3 DEF Known
  <2> QED BY <1>3, <2>1, <2>2 DEF TurnInv, NoSilentDrop
<1> QED BY <1>5, <1>6, <1>7, <1>8 DEF TurnInv

\* A request leaves the wire for the queue.
LEMMA ReadAskKeepsInv ==
  ASSUME TurnInv, ReadAsk
  PROVE  TurnInv'
<1> USE TurnAssumption DEF Turns, Requests
<1>1. TypeOK /\ ScalarTypes
  BY TypesAreScalar DEF TurnInv
<1>2. wire # <<>> /\ Head(wire).kind = "ask" /\ wire' = Tail(wire)
      /\ queue' = Append(queue, Head(wire).of)
  BY DEF ReadAsk, Reads, Consume
<1>3. UNCHANGED <<approval, pc, target, current, last, reply, overruns, text, alive, agent, said,
                  turnOf, decided, pending, answers, told, overtaken, left>>
  BY DEF ReadAsk, Consume, client
<1>4. /\ wire' \in Seq(Lines) /\ Head(wire) \in Lines /\ Range(wire) = Range(wire') \cup {Head(wire)}
  BY <1>2, TakenLine
<1>5. Head(wire).of \in Requests /\ Head(wire) = Line("ask", Head(wire).of)
  BY <1>2, <1>4 DEF Lines, Line
<1>6. queue \in Seq(Requests)
  BY <1>1 DEF TypeOK, GateTypes
<1>7. queue' \in Seq(Requests) /\ Range(queue') = Range(queue) \cup {Head(wire).of}
  BY <1>2, <1>5, <1>6, RangeOfAppend
<1>8. TypeOK'
  BY <1>1, <1>3, <1>4, <1>7 DEF TypeOK, CallTypes, ClientTypes, GateTypes, AgentTypes
<1>9. Numbered' /\ Informed' /\ RepliesAreLast' /\ EndedOrTold' /\ OpWaits' /\ Drains'
  BY <1>3, <1>4 DEF TurnInv, Numbered, Informed, Sent, RepliesAreLast, EndedOrTold, Warned, OpWaits,
                    Drains, Drained, Done, TurnActive
<1>10. OwnResult' /\ PendingHasTurn' /\ LiveTurnIsTended'
  BY <1>3 DEF TurnInv, OwnResult, PendingHasTurn, LiveTurnIsTended, TurnActive, Done
<1>11. NoSilentDrop'
  <2>1. \A p \in Requests : OnWire(p) => OnWire(p)' \/ Line("ask", p) = Head(wire)
    BY <1>4, WhereItIs
  <2>2. \A p \in Requests : Line("ask", p) = Head(wire) => p = Head(wire).of
    BY DEF Line
  <2>3. \A p \in Requests : p = Head(wire).of => Known(p)'
    BY <1>7, WhereItIs
  <2>4. \A p \in Requests : Known(p) => Known(p)'
    BY <1>3, <1>7, WhereItIs
  <2> QED BY <1>3, <2>1, <2>2, <2>3, <2>4 DEF TurnInv, NoSilentDrop
<1> QED BY <1>8, <1>9, <1>10, <1>11 DEF TurnInv

\* A response ends its own turn, which the agent has ended.
LEMMA ReadReplyKeepsInv ==
  ASSUME TurnInv, ReadReply
  PROVE  TurnInv'
<1> USE TurnAssumption DEF Turns, Requests
<1>1. TypeOK /\ ScalarTypes
  BY TypesAreScalar DEF TurnInv
<1> DEFINE h == Head(wire)
<1>2. wire # <<>> /\ h.kind \in {"result", "error"} /\ wire' = Tail(wire)
      /\ reply' = [reply EXCEPT ![h.of] = IF @ = "waiting" THEN h.kind ELSE @]
  BY DEF ReadReply, Reads, Consume
<1>3. UNCHANGED <<approval, pc, target, current, last, overruns, text, alive, agent, said,
                  turnOf, decided, pending, queue, answers, told, overtaken, left>>
  BY DEF ReadReply, Consume, gate
<1>4. /\ wire' \in Seq(Lines) /\ h \in Lines /\ h \in Range(wire)
      /\ Range(wire) = Range(wire') \cup {h}
  BY <1>2, TakenLine
<1>5. h.of \in Turns /\ agent[h.of] = "ended"
  BY <1>2, <1>4 DEF TurnInv, RepliesAreLast, Lines
<1> HIDE DEF h
<1>6. \A i \in Turns :
         \/ reply'[i] = reply[i]
         \/ i = h.of /\ reply[i] = "waiting" /\ reply'[i] \in {"result", "error"}
  BY <1>1, <1>2, <1>5 DEF ScalarTypes
<1>7. \A i \in Turns : Done(i) => Done(i)'
  BY <1>6 DEF Done
<1>8. TypeOK'
  <2>1. reply' \in [Turns -> {"none", "starting", "waiting", "result", "error", "cancelled"}]
    BY <1>1, <1>2, <1>5 DEF ScalarTypes
  <2> QED BY <1>1, <1>3, <1>4, <2>1 DEF TypeOK, CallTypes, ClientTypes, GateTypes, AgentTypes
<1>9. Numbered'
  <2>1. \A i \in Turns : reply'[i] \in {"none", "starting"} <=> reply[i] \in {"none", "starting"}
    BY <1>6
  <2>2. \A i \in Turns : reply'[i] = "none" <=> reply[i] = "none"
    BY <1>6
  <2>3. last > 0 => last \in Turns
    BY <1>1 DEF ScalarTypes
  <2> QED BY <1>3, <1>7, <2>1, <2>2, <2>3 DEF TurnInv, Numbered
<1>10. RepliesAreLast' /\ PendingHasTurn'
  BY <1>3, <1>4 DEF TurnInv, RepliesAreLast, PendingHasTurn
<1>17. Informed'
  <2>1. current # 0 => (reply'[current] = "starting" <=> reply[current] = "starting")
    BY <1>1, <1>6 DEF ScalarTypes
  <2>2. Sent' = Sent
    BY <1>3, <2>1 DEF Sent
  <2> QED BY <1>3, <2>2 DEF TurnInv, Informed
<1>11. EndedOrTold' /\ OwnResult'
  BY <1>3, <1>5, <1>6 DEF TurnInv, EndedOrTold, Warned, OwnResult, Done
<1>12. OpWaits'
  <2>1. \A i \in Turns : reply'[i] = "starting" => reply[i] = "starting"
    BY <1>6
  <2>2. last > 0 => last \in Turns
    BY <1>1 DEF ScalarTypes
  <2> QED BY <1>3, <1>7, <2>1, <2>2 DEF TurnInv, OpWaits
<1>13. TurnActive' => TurnActive
  <2>1. current # 0 => current \in Turns
    BY <1>1 DEF ScalarTypes
  <2> QED BY <1>3, <1>7, <2>1 DEF TurnActive
<1>14. Drains'
  <2> SUFFICES ASSUME NEW t \in Tasks, pc[t] = "drain" PROVE Drained(t)'
    BY <1>3 DEF Drains
  <2>1. Drained(t) /\ target[t] \in Turns
    BY <1>1 DEF TurnInv, Drains, Drained, ScalarTypes
  <2> QED BY <1>3, <1>7, <1>13, <2>1 DEF Drained, Warned
<1>15. LiveTurnIsTended'
  BY <1>3, <1>13 DEF TurnInv, LiveTurnIsTended
<1>16. NoSilentDrop'
  <2>1. \A p \in Requests : OnWire(p) => OnWire(p)'
    <3>1. \A p \in Requests : Line("ask", p) # h
      BY <1>2 DEF Line
    <3> QED BY <1>4, <3>1, WhereItIs
  <2>2. \A p \in Requests : Known(p)' = Known(p)
    BY <1>3 DEF Known
  <2> QED BY <1>3, <2>1, <2>2 DEF TurnInv, NoSilentDrop
<1> QED BY <1>8, <1>9, <1>10, <1>11, <1>12, <1>14, <1>15, <1>16, <1>17 DEF TurnInv

\* An overrun or the end of the output fails every prompt that waits.  What
\* the two have in common: the process is gone or has been told of the newest
\* turn.
LEMMA FailingKeepsInv ==
  ASSUME TurnInv, FailPending, wire' \in Seq(Lines), Range(wire') \subseteq Range(wire),
         UNCHANGED <<approval, pc, target, current, last, text, agent, said, turnOf, decided, answers>>,
         UNCHANGED <<overtaken, left>>,
         alive' \in BOOLEAN, alive' => alive /\ told' = Sent,
         ~alive' => told' = told,
         UNCHANGED <<pending, queue>> \/ (pending' = 0 /\ queue' = <<>>),
         overruns' \in Nat
  PROVE  TurnInv'
<1> USE TurnAssumption DEF Turns, Requests
<1>1. TypeOK /\ ScalarTypes
  BY TypesAreScalar DEF TurnInv
<1>16. /\ Sent \in Int /\ Sent <= last /\ last <= Sent + 1
       /\ (current = 0 \/ reply[current] # "starting") => Sent = last
  BY <1>1, SentIsNewest
<1>17. told <= told' /\ told \in Int /\ told' \in 0..last
  BY <1>1, <1>16 DEF TurnInv, Informed, ScalarTypes
<1>2. \A i \in Turns : \/ reply'[i] = reply[i] /\ reply[i] # "waiting"
                       \/ reply[i] = "waiting" /\ reply'[i] = "error"
  BY <1>1 DEF FailPending
<1>3. \A i \in Turns : Done(i) => Done(i)'
  BY <1>2 DEF Done
<1>4. last > 0 => last \in Turns
  BY <1>1 DEF ScalarTypes
<1>5. TypeOK'
  <2>1. reply' \in [Turns -> {"none", "starting", "waiting", "result", "error", "cancelled"}]
    BY <1>1 DEF FailPending, ScalarTypes
  <2>2. CallTypes' /\ ClientTypes' /\ AgentTypes'
    BY <1>1, <2>1 DEF TypeOK, CallTypes, ClientTypes, AgentTypes
  <2>3. pending' \in 0..MaxAsks /\ queue' \in Seq(Requests)
    <3>1. pending \in 0..MaxAsks /\ queue \in Seq(Requests) /\ <<>> \in Seq(Requests) /\ 0 \in 0..MaxAsks
      BY <1>1 DEF TypeOK, GateTypes
    <3> QED BY <3>1
  <2>4. told' \in 0..last'
    BY <1>17
  <2>5. GateTypes'
    BY <1>1, <2>3, <2>4 DEF TypeOK, GateTypes
  <2> QED BY <2>2, <2>5 DEF TypeOK
<1>6. Numbered'
  <2>1. \A i \in Turns : /\ reply'[i] \in {"none", "starting"} <=> reply[i] \in {"none", "starting"}
                         /\ reply'[i] = "none" <=> reply[i] = "none"
    BY <1>2
  <2> QED BY <1>3, <1>4, <2>1 DEF TurnInv, Numbered
<1>18. Informed'
  <2>1. current # 0 => (reply'[current] = "starting" <=> reply[current] = "starting")
    BY <1>1, <1>2 DEF ScalarTypes
  <2>2. Sent' = Sent
    BY <2>1 DEF Sent
  <2>3. \A i \in overtaken : i \in Int /\ i <= told + 1
    BY <1>1 DEF TurnInv, Informed, ScalarTypes
  <2>4. told' <= Sent
    BY <1>16 DEF TurnInv, Informed
  <2>5. \A i \in overtaken : i <= told' + 1
    BY <1>17, <2>3
  <2> QED BY <2>2, <2>4, <2>5 DEF TurnInv, Informed
<1>7. RepliesAreLast'
  BY DEF TurnInv, RepliesAreLast
<1>8. EndedOrTold' /\ OwnResult'
  <2>2. \A i \in Turns : reply'[i] = "result" => reply[i] = "result"
    BY <1>2
  <2>3. \A i \in Turns : Warned(i) => Warned(i)'
    BY <1>1, <1>17 DEF Warned, ScalarTypes
  <2>4. ASSUME NEW i \in Turns, Done(i)', ~Done(i) PROVE Warned(i)' \/ ~alive'
    <3>1. reply[i] = "waiting"
      BY <1>2, <2>4 DEF Done
    <3>2. i = last /\ current = last
      BY <3>1, WaitingIsNewest
    <3>3. Sent = last
      BY <1>16, <3>1, <3>2
    <3> QED BY <1>1, <3>2, <3>3 DEF Warned, ScalarTypes
  <2>5. OwnResult'
    BY <2>2 DEF TurnInv, OwnResult
  <2>6. EndedOrTold'
    BY <2>3, <2>4 DEF TurnInv, EndedOrTold
  <2> QED BY <2>5, <2>6
<1>9. OpWaits'
  <2>1. \A i \in Turns : reply'[i] = "starting" => reply[i] = "starting"
    BY <1>2
  <2>2. pending = 0 => pending' = 0
    OBVIOUS
  <2> QED BY <1>3, <1>4, <2>1, <2>2 DEF TurnInv, OpWaits
<1>10. TurnActive' => TurnActive
  <2>1. current # 0 => current \in Turns
    BY <1>1 DEF ScalarTypes
  <2> QED BY <1>3, <2>1 DEF TurnActive
<1>11. Drains'
  <2> SUFFICES ASSUME NEW t \in Tasks, pc[t] = "drain" PROVE Drained(t)'
    BY DEF Drains
  <2>1. Drained(t) /\ target[t] \in Turns
    BY <1>1 DEF TurnInv, Drains, Drained, ScalarTypes
  <2>2. alive' => Warned(target[t])' /\ \A p \in Requests : Warned(turnOf[p])'
    <3>1. \A i \in Turns : Warned(i) => Warned(i)'
      BY <1>1, <1>17 DEF Warned, ScalarTypes
    <3> QED BY <2>1, <3>1 DEF TurnInv, Informed, Drained, Warned
  <2> QED BY <1>3, <1>10, <2>1, <2>2 DEF Drained
<1>12. PendingHasTurn'
  BY DEF TurnInv, PendingHasTurn
<1>13. TurnActive' => pc["op"] = "wait"
  <2> SUFFICES ASSUME TurnActive' PROVE pc["op"] = "wait"
    OBVIOUS
  <2>1. current # 0 /\ current = last /\ current \in Turns
    BY <1>1 DEF TurnActive, TurnInv, Numbered, ScalarTypes
  <2>2. reply[current] # "none" /\ reply'[current] \notin {"waiting", "result", "error", "cancelled"}
    BY <1>1, <1>2, <2>1 DEF TurnActive, Done, TurnInv, Numbered, ScalarTypes
  <2>3. reply[current] \in {"none", "starting", "waiting", "result", "error", "cancelled"}
    BY <1>1, <2>1 DEF ScalarTypes
  <2>4. reply[current] = "starting"
    BY <1>2, <2>1, <2>2, <2>3
  <2> QED BY <2>1, <2>4 DEF TurnInv, OpWaits
<1>14. LiveTurnIsTended'
  BY <1>13 DEF LiveTurnIsTended
<1>15. NoSilentDrop'
  <2>1. \A p \in Requests : turnOf[p] <= Sent
    BY DEF TurnInv, Informed
  <2> QED BY <2>1 DEF NoSilentDrop
<1> QED BY <1>5, <1>6, <1>7, <1>8, <1>9, <1>11, <1>12, <1>14, <1>15, <1>18 DEF TurnInv

\* Every line that the reader takes keeps the invariant.
LEMMA ReaderKeepsInv ==
  ASSUME TurnInv, ReaderStep \/ ReaderEnds
  PROVE  TurnInv'
<1>1. TypeOK /\ ScalarTypes
  BY TypesAreScalar DEF TurnInv
<1>2. CASE ReadText \/ ReadAsk \/ ReadReply
  BY <1>2, ReadTextKeepsInv, ReadAskKeepsInv, ReadReplyKeepsInv
<1>3. CASE ReadOverrun
  <2>1. wire # <<>> /\ alive /\ wire' = Tail(wire) /\ FailPending
        /\ overruns' = overruns + 1
        /\ pending' = 0 /\ queue' = <<>>
        /\ alive' = (overruns' <= Tolerance) /\ told' = IF alive' THEN Sent ELSE told
    BY <1>3 DEF ReadOverrun, Reads, Consume
  <2>2. UNCHANGED <<approval, pc, target, current, last, text, agent, said, turnOf, decided, answers,
                    overtaken, left>>
    BY <1>3 DEF ReadOverrun, Consume
  <2>3. wire' \in Seq(Lines) /\ Range(wire') \subseteq Range(wire)
    BY <2>1, TakenLine
  <2>4. overruns' \in Nat
    BY <1>1, <2>1 DEF ScalarTypes
  <2>5. alive' \in BOOLEAN /\ (alive' => overruns' <= Tolerance)
    <3>1. CASE overruns' <= Tolerance
      BY <2>1, <3>1
    <3>2. CASE ~(overruns' <= Tolerance)
      <4>1. (overruns' <= Tolerance) = FALSE
        BY <3>2
      <4>2. alive' = FALSE
        BY <2>1, <4>1
      <4> QED BY <4>2
    <3> QED BY <3>1, <3>2
  <2> QED BY <2>1, <2>2, <2>3, <2>4, <2>5, FailingKeepsInv
<1>4. CASE ReaderEnds
  <2>1. wire' = <<>> /\ FailPending /\ alive' = FALSE
        /\ UNCHANGED <<approval, pc, target, current, last, text, agent, said, turnOf, decided,
                      answers, overruns, pending, queue, told, overtaken, left>>
    BY <1>4 DEF ReaderEnds, gate
  <2>2. wire' \in Seq(Lines) /\ Range(wire') \subseteq Range(wire)
    BY <2>1, RangeOfEmpty
  <2>3. overruns' \in Nat
    BY <1>1, <2>1 DEF ScalarTypes
  <2> QED BY <2>1, <2>2, <2>3, FailingKeepsInv
<1> QED BY <1>2, <1>3, <1>4 DEF ReaderStep

(***************************************************************************)
(* Turns begin, are returned and are given up                              *)
(***************************************************************************)
\* When every turn has ended, whatever permission is forgotten is one that the
\* agent does not wait for.
LEMMA NobodyWaits ==
  ASSUME TurnInv, \A i \in Turns : i <= last => Done(i)
  PROVE  /\ \A p \in Requests :
              turnOf[p] # 0 => agent[turnOf[p]] = "ended" \/ Warned(turnOf[p]) \/ ~alive
         /\ \A i \in Turns : reply[i] # "starting"
<1> USE TurnAssumption DEF Turns, Requests
<1>1. TypeOK /\ ScalarTypes
  BY TypesAreScalar DEF TurnInv
<1>2. \A p \in Requests : turnOf[p] # 0 => turnOf[p] \in Turns /\ turnOf[p] <= last
  BY <1>1 DEF TurnInv, Numbered, ScalarTypes
<1>3. \A i \in Turns : reply[i] = "starting" => ~(i > last)
  BY DEF TurnInv, Numbered
<1>4. \A i \in Turns : reply[i] = "starting" => i <= last
  BY <1>1, <1>3 DEF ScalarTypes
<1> QED BY <1>2, <1>4 DEF TurnInv, EndedOrTold, Done

\* A new turn begins when the one before has ended, in the hands of its call.
LEMMA BeginKeepsInv ==
  ASSUME TurnInv, BeginPrompt
  PROVE  TurnInv'
<1> USE TurnAssumption DEF Turns, Requests
<1>1. TypeOK /\ ScalarTypes
  BY TypesAreScalar DEF TurnInv
<1>2. /\ last < MaxTurns /\ alive /\ ~TurnActive /\ pending = 0
      /\ last' = last + 1 /\ current' = last + 1
      /\ reply' = [reply EXCEPT ![last + 1] = "starting"]
      /\ text' = [i \in Turns |-> 0] /\ queue' = <<>>
      /\ pc' = [pc EXCEPT !["op"] = "wait"] /\ target' = [target EXCEPT !["op"] = last + 1]
  BY DEF BeginPrompt, Goto
<1>3. UNCHANGED <<approval, overruns, alive, wire, agent, said, turnOf, decided, pending,
                  answers, told, overtaken, left>>
  BY DEF BeginPrompt, agentSide
<1>4. \A i \in Turns : i <= last => Done(i)
  <2>1. last > 0 => Done(last)
    BY <1>1, <1>2 DEF TurnInv, Numbered, TurnActive, ScalarTypes
  <2> QED BY <1>1, <2>1 DEF TurnInv, Numbered, ScalarTypes
<1>5. last + 1 \in Turns /\ \A i \in Turns : i <= last <=> i # last + 1 /\ ~(i > last')
  BY <1>1, <1>2 DEF ScalarTypes
<1>6. \A i \in Turns : i # last + 1 => reply'[i] = reply[i] /\ (Done(i)' <=> Done(i))
  BY <1>1, <1>2 DEF ScalarTypes, Done
<1>7. \A i \in Turns : i = last + 1 => reply'[i] = "starting" /\ ~Done(i)'
  BY <1>1, <1>2, <1>5 DEF ScalarTypes, Done
<1>8. TypeOK'
  <2>1. CallTypes'
    BY <1>1, <1>2, <1>3, <1>5 DEF CallTypes, ScalarTypes, Tasks
  <2>2. reply' \in [Turns -> {"none", "starting", "waiting", "result", "error", "cancelled"}]
    BY <1>1, <1>2 DEF ScalarTypes
  <2>3. text' \in [Turns -> Nat]
    BY <1>2
  <2>4. /\ last' \in 0..MaxTurns /\ current' \in 0..last' /\ told' \in 0..last'
        /\ overtaken' \subseteq 1..last' /\ left' \subseteq 1..last'
    BY <1>1, <1>2, <1>3 DEF ScalarTypes
  <2>5. ClientTypes' /\ AgentTypes'
    BY <1>1, <1>3, <2>2, <2>3, <2>4 DEF TypeOK, ClientTypes, AgentTypes
  <2>6. queue' \in Seq(Requests)
    BY <1>2
  <2>7. GateTypes'
    BY <1>1, <1>3, <2>4, <2>6 DEF TypeOK, GateTypes
  <2> QED BY <2>1, <2>5, <2>7 DEF TypeOK
<1>9. Numbered'
  <2>1. \A i \in Turns : i < last' => Done(i)'
    BY <1>1, <1>2, <1>4, <1>5, <1>6 DEF ScalarTypes
  <2>2. \A i \in Turns : reply'[i] = "none" <=> i > last'
    <3>1. \A i \in Turns : i # last + 1 => (i > last <=> i > last')
      BY <1>1, <1>2 DEF ScalarTypes
    <3>2. ~(last + 1 > last')
      BY <1>1, <1>2 DEF ScalarTypes
    <3> QED BY <1>6, <1>7, <3>1, <3>2 DEF TurnInv, Numbered
  <2>3. \A i \in Turns : reply'[i] \in {"none", "starting"} => agent'[i] = "none"
    <3>1. last + 1 > last
      BY <1>1 DEF ScalarTypes
    <3>2. agent[last + 1] = "none"
      BY <1>5, <3>1 DEF TurnInv, Numbered
    <3> QED BY <1>3, <1>6, <3>2 DEF TurnInv, Numbered
  <2>4. \A p \in Requests : turnOf'[p] <= last'
    <3>1. \A p \in Requests : turnOf[p] <= last
      BY DEF TurnInv, Numbered
    <3> QED BY <1>1, <1>2, <1>3, <3>1 DEF ScalarTypes
  <2>5. current' \in {0, last'} /\ current' # 0
    BY <1>1, <1>2 DEF ScalarTypes
  <2> QED BY <2>1, <2>2, <2>3, <2>4, <2>5 DEF Numbered
<1>16. Informed'
  <2>1. Sent <= last /\ Sent' = last /\ last \in Int
    <3>1. current' # 0 /\ reply'[current'] = "starting"
      BY <1>1, <1>2, <1>5, <1>7 DEF ScalarTypes
    <3>2. Sent' = last' - 1
      BY <3>1 DEF Sent
    <3> QED BY <1>1, <1>2, <3>2, SentIsNewest DEF ScalarTypes
  <2>2. told' <= Sent'
    BY <1>1, <1>3, <2>1 DEF ScalarTypes
  <2>3. \A p \in Requests : turnOf'[p] <= Sent'
    <3>1. \A p \in Requests : turnOf[p] <= last
      BY DEF TurnInv, Numbered
    <3> QED BY <1>3, <2>1, <3>1
  <2> QED BY <1>3, <2>2, <2>3 DEF TurnInv, Informed
<1>10. RepliesAreLast'
  BY <1>3 DEF TurnInv, RepliesAreLast
<1>11. EndedOrTold' /\ OwnResult'
  BY <1>3, <1>6, <1>7 DEF TurnInv, EndedOrTold, Warned, OwnResult
<1>12. OpWaits'
  <2>1. target'["op"] = last' /\ last' > 0 /\ pending' = 0 /\ current' = last' /\ pc'["op"] = "wait"
    BY <1>1, <1>2, <1>3 DEF ScalarTypes, Tasks
  <2>2. \A i \in Turns : reply'[i] = "starting" => i = last + 1
    BY <1>4, <1>6, NobodyWaits
  <2> QED BY <1>2, <2>1, <2>2 DEF OpWaits
<1>13. Drains'
  <2> SUFFICES ASSUME NEW t \in Tasks, pc'[t] = "drain" PROVE Drained(t)'
    BY DEF Drains
  <2>1. pc[t] = "drain" /\ target'[t] = target[t] /\ pc'["op"] = "wait"
    BY <1>1, <1>2 DEF ScalarTypes, Tasks
  <2>2. Drained(t)
    BY <2>1 DEF TurnInv, Drains
  <2>3. target[t] \in 1..last' /\ target[t] \in Turns /\ target[t] # last + 1 /\ target[t] <= last
    BY <1>1, <1>2, <2>2 DEF Drained, ScalarTypes
  <2>4. Done(target[t])'
    BY <1>4, <1>6, <2>1, <2>3
  <2> QED BY <1>3, <2>1, <2>2, <2>3, <2>4 DEF Drained, Warned
<1>14. PendingHasTurn' /\ LiveTurnIsTended'
  BY <1>1, <1>2, <1>3 DEF PendingHasTurn, LiveTurnIsTended, ScalarTypes, Tasks
<1>15. NoSilentDrop'
  BY <1>3, <1>4, NobodyWaits, NothingLost DEF Warned
<1> QED BY <1>8, <1>9, <1>10, <1>11, <1>12, <1>13, <1>14, <1>15, <1>16 DEF TurnInv

\* The prompt is written, or fails for want of a process.
LEMMA SendKeepsInv ==
  ASSUME TurnInv, NEW i \in Turns, SendPrompt(i)
  PROVE  TurnInv'
<1> USE TurnAssumption DEF Turns, Requests
<1>1. TypeOK /\ ScalarTypes
  BY TypesAreScalar DEF TurnInv
<1>2. /\ reply[i] = "starting"
      /\ reply' = [reply EXCEPT ![i] = IF alive THEN "waiting" ELSE "error"]
      /\ agent' = [agent EXCEPT ![i] = IF alive THEN "working" ELSE @]
  BY DEF SendPrompt
<1>3. UNCHANGED <<approval, pc, target, current, last, overruns, text, alive, wire, said, turnOf,
                  decided, pending, queue, answers, told, overtaken, left>>
  BY DEF SendPrompt, gate
<1>4. i = current /\ i = last /\ pc["op"] = "wait" /\ agent[i] = "none"
  BY <1>2, WaitingIsNewest DEF TurnInv, OpWaits, Numbered
<1>5. \A j \in Turns : j # i => reply'[j] = reply[j] /\ agent'[j] = agent[j]
  BY <1>1, <1>2 DEF ScalarTypes
<1>6. (alive /\ reply'[i] = "waiting") \/ (~alive /\ reply'[i] = "error")
  BY <1>1, <1>2 DEF ScalarTypes
<1>7. \A j \in Turns : Done(j) => Done(j)' /\ j # i
  BY <1>2, <1>5 DEF Done
<1>8. TypeOK'
  <2>1. /\ reply' \in [Turns -> {"none", "starting", "waiting", "result", "error", "cancelled"}]
        /\ agent' \in [Turns -> {"none", "working", "ended"}]
    BY <1>1, <1>2 DEF ScalarTypes
  <2> QED BY <1>1, <1>3, <2>1 DEF TypeOK, CallTypes, ClientTypes, GateTypes, AgentTypes
<1>9. Numbered'
  <2>1. last > 0 => last \in Turns
    BY <1>1 DEF ScalarTypes
  <2>2. \A j \in Turns : reply'[j] = "none" <=> reply[j] = "none"
    BY <1>2, <1>5, <1>6
  <2>3. \A j \in Turns : reply'[j] \in {"none", "starting"} => agent'[j] = "none"
    BY <1>5, <1>6 DEF TurnInv, Numbered
  <2> QED BY <1>3, <1>7, <2>1, <2>2, <2>3 DEF TurnInv, Numbered
<1>16. Informed'
  <2>1. Sent' = last /\ Sent <= last /\ last \in Int /\ Sent \in Int
    BY <1>1, <1>3, <1>4, <1>6, SentIsNewest DEF Sent, ScalarTypes
  <2>2. told' <= Sent'
    BY <1>1, <1>3, <2>1 DEF ScalarTypes
  <2>3. \A p \in Requests : turnOf'[p] <= Sent'
    <3>1. \A p \in Requests : turnOf[p] <= last
      BY DEF TurnInv, Numbered
    <3> QED BY <1>3, <2>1, <3>1
  <2> QED BY <1>3, <2>2, <2>3 DEF TurnInv, Informed
<1>10. RepliesAreLast'
  <2>1. \A m \in Range(wire) : m \in Lines
    BY <1>1 DEF TypeOK, AgentTypes, Range
  <2>2. \A m \in Range(wire) : m.kind \in {"result", "error"} => m.of \in Turns /\ m.of # i
    BY <1>4, <2>1 DEF TurnInv, RepliesAreLast, Lines
  <2> QED BY <1>3, <1>5, <2>2 DEF TurnInv, RepliesAreLast
<1>11. EndedOrTold' /\ OwnResult'
  BY <1>3, <1>5, <1>6 DEF TurnInv, EndedOrTold, Warned, OwnResult, Done
<1>12. OpWaits'
  <2>1. \A j \in Turns : reply'[j] # "starting" \/ reply[j] = "starting"
    BY <1>2, <1>5, <1>6
  <2> QED BY <1>3, <1>4, <2>1 DEF TurnInv, OpWaits
<1>13. Drains'
  <2> SUFFICES ASSUME NEW t \in Tasks, pc[t] = "drain" PROVE Drained(t)'
    BY <1>3 DEF Drains
  <2>1. Drained(t) /\ target[t] \in Turns
    BY <1>1 DEF TurnInv, Drains, Drained, ScalarTypes
  <2> QED BY <1>3, <1>4, <1>7, <2>1 DEF Drained, Warned
<1>14. PendingHasTurn' /\ LiveTurnIsTended'
  BY <1>3, <1>4 DEF TurnInv, PendingHasTurn, LiveTurnIsTended
<1>15. NoSilentDrop'
  <2>1. \A p \in Requests : agent[turnOf[p]] = "ended" /\ turnOf[p] # 0 => agent'[turnOf[p]] = "ended"
    BY <1>1, <1>4, <1>5 DEF ScalarTypes
  <2> QED BY <1>3, <2>1 DEF TurnInv, NoSilentDrop, OnWire, Known
<1> QED BY <1>8, <1>9, <1>10, <1>11, <1>12, <1>13, <1>14, <1>15, <1>16 DEF TurnInv

\* A turn is returned to its caller when it has ended.
LEMMA ReturnKeepsInv ==
  ASSUME TurnInv, TurnReturns
  PROVE  TurnInv'
<1> USE TurnAssumption DEF Turns, Requests
<1>1. TypeOK /\ ScalarTypes
  BY TypesAreScalar DEF TurnInv
<1>2. /\ pc["op"] = "wait" /\ reply[target["op"]] \in {"result", "cancelled"}
      /\ current' = (IF current = target["op"] THEN 0 ELSE current)
      /\ pending' = 0 /\ overruns' = 0
      /\ pc' = [pc EXCEPT !["op"] = "idle"]
  BY DEF TurnReturns, OpTurn, Goto
<1>3. queue' = queue \/ (queue # <<>> /\ queue' = Tail(queue))
  BY DEF TurnReturns
<1>4. UNCHANGED <<approval, target, last, reply, text, alive, wire, agent, said, turnOf,
                  decided, answers, told, overtaken, left>>
  BY DEF TurnReturns, agentSide
<1>5. target["op"] = last /\ last > 0 /\ Done(last) /\ last \in Turns
  BY <1>1, <1>2 DEF TurnInv, OpWaits, Done, ScalarTypes
<1>6. current' = 0
  BY <1>2, <1>5 DEF TurnInv, Numbered
<1>7. \A i \in Turns : i <= last => Done(i)
  BY <1>1, <1>5 DEF TurnInv, Numbered, ScalarTypes
<1>8. \A i \in Turns : Done(i)' <=> Done(i)
  BY <1>4 DEF Done
<1>9. TypeOK'
  <2>1. CallTypes' /\ AgentTypes'
    BY <1>1, <1>2, <1>4 DEF TypeOK, CallTypes, AgentTypes
  <2>2. current' \in 0..last'
    BY <1>1, <1>4, <1>6 DEF ScalarTypes
  <2>3. ClientTypes'
    BY <1>1, <1>2, <1>4, <2>2 DEF TypeOK, ClientTypes
  <2>4. queue \in Seq(Requests)
    BY <1>1 DEF TypeOK, GateTypes
  <2>5. queue' \in Seq(Requests) /\ pending' \in 0..MaxAsks
    BY <1>2, <1>3, <2>4, RangeOfTail
  <2>6. GateTypes'
    BY <1>1, <1>4, <2>5 DEF TypeOK, GateTypes
  <2> QED BY <2>1, <2>3, <2>6 DEF TypeOK
<1>10. Numbered' /\ RepliesAreLast' /\ EndedOrTold' /\ OwnResult'
  BY <1>4, <1>5, <1>6, <1>8 DEF TurnInv, Numbered, RepliesAreLast, EndedOrTold, Warned, OwnResult
<1>11. Informed'
  <2>1. Sent = last /\ Sent' = last
    <3>1. reply[last] # "starting"
      BY <1>2, <1>5
    <3>2. current \in {0, last}
      BY DEF TurnInv, Numbered
    <3> QED BY <1>4, <1>6, <3>1, <3>2 DEF Sent
  <2> QED BY <1>4, <2>1 DEF TurnInv, Informed
<1>12. OpWaits'
  <2>1. pc'["op"] = "idle"
    BY <1>1, <1>2 DEF ScalarTypes, Tasks
  <2> QED BY <1>4, <1>7, <2>1, NobodyWaits DEF OpWaits
<1>13. Drains'
  <2> SUFFICES ASSUME NEW t \in Tasks, pc'[t] = "drain" PROVE Drained(t)'
    BY DEF Drains
  <2>1. Drained(t)
    BY <1>1, <1>2 DEF TurnInv, Drains, ScalarTypes
  <2>2. target[t] \in Turns /\ target[t] <= last
    BY <1>1, <2>1 DEF Drained, ScalarTypes
  <2> QED BY <1>4, <1>6, <1>7, <1>8, <2>1, <2>2 DEF Drained, Warned, TurnActive
<1>14. PendingHasTurn' /\ LiveTurnIsTended'
  BY <1>2, <1>6 DEF PendingHasTurn, LiveTurnIsTended, TurnActive
<1>15. NoSilentDrop'
  BY <1>4, <1>7, NobodyWaits, NothingLost DEF Warned
<1> QED BY <1>9, <1>10, <1>11, <1>12, <1>13, <1>14, <1>15 DEF TurnInv

\* A request that is taken from the queue belongs to the turn there is, which
\* any cancel at work drains.
LEMMA TakeKeepsInv ==
  ASSUME TurnInv, TakeRequest
  PROVE  TurnInv'
<1> USE TurnAssumption DEF Turns, Requests
<1>1. TypeOK /\ ScalarTypes
  BY TypesAreScalar DEF TurnInv
<1>2. /\ pc["op"] = "wait" /\ Settled /\ reply[target["op"]] = "waiting" /\ queue # <<>>
      /\ pending' = Head(queue) /\ queue' = Tail(queue)
      /\ pc' = [pc EXCEPT !["op"] = IF approval = "compatible" THEN "idle" ELSE "elicit"]
  BY DEF TakeRequest, OpTurn, Goto
<1>3. UNCHANGED <<approval, target, current, last, reply, overruns, text, alive, wire, agent, said,
                  turnOf, decided, answers, told, overtaken, left>>
  BY DEF TakeRequest, client, agentSide
<1>4. target["op"] = last /\ last > 0 /\ pending = 0 /\ reply[last] = "waiting" /\ current = last
  BY <1>2 DEF TurnInv, OpWaits, Done
<1>5. queue \in Seq(Requests)
  BY <1>1 DEF TypeOK, GateTypes
<1>6. /\ queue' \in Seq(Requests) /\ pending' \in Requests
      /\ Range(queue) = Range(queue') \cup {pending'}
  BY <1>2, <1>5, RangeOfTail
<1>7. pending' # 0
  BY <1>6
<1>8. TypeOK'
  <2>1. CallTypes'
    BY <1>1, <1>2, <1>3 DEF TypeOK, CallTypes
  <2>2. ClientTypes' /\ AgentTypes'
    BY <1>1, <1>3 DEF TypeOK, ClientTypes, AgentTypes
  <2>3. pending' \in 0..MaxAsks
    BY <1>6
  <2>4. GateTypes'
    BY <1>1, <1>3, <1>6, <2>3 DEF TypeOK, GateTypes
  <2> QED BY <2>1, <2>2, <2>4 DEF TypeOK
<1>9. Numbered' /\ Informed' /\ RepliesAreLast' /\ EndedOrTold' /\ OwnResult'
  BY <1>3 DEF TurnInv, Numbered, Informed, Sent, RepliesAreLast, EndedOrTold, Warned, OwnResult,
              Done
<1>10. pc'["op"] \in {"idle", "elicit"} /\ (pc'["op"] = "idle" => approval = "compatible")
  BY <1>1, <1>2 DEF ScalarTypes, Tasks
<1>11. OpWaits'
  <2>1. \A i \in Turns : reply[i] # "starting"
    BY <1>4, WaitingIsNewest
  <2> QED BY <1>3, <1>10, <2>1 DEF OpWaits
<1>12. Drains'
  <2> SUFFICES ASSUME NEW t \in Tasks, pc'[t] = "drain" PROVE Drained(t)'
    BY DEF Drains
  <2>1. pc[t] = "drain"
    BY <1>1, <1>2 DEF ScalarTypes
  <2>2. Drained(t)
    BY <2>1 DEF TurnInv, Drains
  <2>3. target[t] = last
    BY <1>2, <1>4, <2>1, <2>2 DEF Settled, Drained
  <2> QED BY <1>3, <2>2, <2>3 DEF Drained, Warned, Done
<1>13. PendingHasTurn'
  BY <1>1, <1>3, <1>4 DEF PendingHasTurn, ScalarTypes
<1>14. LiveTurnIsTended'
  BY <1>3, <1>7, <1>10 DEF LiveTurnIsTended
<1>15. NoSilentDrop'
  <2>1. \A p \in Requests : OnWire(p)' = OnWire(p)
    BY <1>3 DEF OnWire
  <2>2. \A p \in Requests : Known(p) => Known(p)'
    BY <1>4, <1>6, WhereItIs
  <2> QED BY <1>2, <1>3, <2>1, <2>2 DEF TurnInv, NoSilentDrop
<1> QED BY <1>8, <1>9, <1>11, <1>12, <1>13, <1>14, <1>15 DEF TurnInv

\* A cancel leaves: its turn is over, and what it drops with it the agent has
\* been told to cancel.
LEMMA LeaveKeepsInv ==
  ASSUME TurnInv, NEW t \in Tasks, LeaveCancel(t)
  PROVE  TurnInv'
<1> USE TurnAssumption DEF Turns, Requests
<1>1. TypeOK /\ ScalarTypes
  BY TypesAreScalar DEF TurnInv
<1> DEFINE g == target[t]
<1>2. /\ pc[t] = "drain" /\ reply[g] # "starting"
      /\ reply' = [reply EXCEPT ![g] = IF @ = "waiting" THEN "cancelled" ELSE @]
      /\ current' = (IF current = g THEN 0 ELSE current)
      /\ pending' = 0 /\ queue' = <<>>
      /\ pc' = [pc EXCEPT ![t] = "idle"] /\ target' = [target EXCEPT ![t] = 0]
  BY DEF LeaveCancel, Goto
<1>3. UNCHANGED <<approval, last, overruns, text, alive, wire, agent, said, turnOf, decided,
                  answers, told, overtaken, left>>
  BY DEF LeaveCancel, agentSide
<1>4. Drained(t)
  BY <1>2 DEF TurnInv, Drains
<1>5. g \in 1..last /\ g \in Turns
  BY <1>1, <1>4 DEF Drained, ScalarTypes
<1> HIDE DEF g
<1>6. reply[g] # "none"
  <2>1. ~(g > last)
    BY <1>1, <1>5 DEF ScalarTypes
  <2> QED BY <1>5, <2>1 DEF TurnInv, Numbered
<1>7. \A i \in Turns : \/ reply'[i] = reply[i]
                       \/ i = g /\ reply[i] = "waiting" /\ reply'[i] = "cancelled"
  BY <1>1, <1>2 DEF ScalarTypes
<1>8. \A i \in Turns : i = g => Done(i)'
  <2>1. reply[g] \in {"none", "starting", "waiting", "result", "error", "cancelled"}
    BY <1>1, <1>5 DEF ScalarTypes
  <2>2. reply[g] = "waiting" => reply'[g] = "cancelled"
    BY <1>1, <1>2, <1>5 DEF ScalarTypes
  <2> QED BY <1>2, <1>5, <1>6, <1>7, <2>1, <2>2 DEF Done
<1>9. \A i \in Turns : Done(i) => Done(i)'
  BY <1>7 DEF Done
<1>10. alive => Warned(g) /\ \A p \in Requests : Warned(turnOf[p])
  BY <1>4 DEF Drained, g
<1>11. TurnActive' => TurnActive /\ current' = current /\ current # g
  <2>1. current # 0 => current \in Turns
    BY <1>1 DEF ScalarTypes
  <2> QED BY <1>2, <1>9, <2>1 DEF TurnActive
<1>12. TurnActive' => /\ t # "op"
                      /\ g # last => pc["op"] \in {"wait", "queue"} \/ current \in left
  <2>1. TurnActive' /\ t = "op" => g = last /\ current = last
    BY <1>2, <1>11 DEF TurnInv, OpWaits, Numbered, TurnActive, g
  <2> QED BY <1>4, <1>11, <2>1 DEF Drained, g
<1>13. TypeOK'
  <2>1. CallTypes'
    BY <1>1, <1>2, <1>3 DEF CallTypes, ScalarTypes
  <2>2. reply' \in [Turns -> {"none", "starting", "waiting", "result", "error", "cancelled"}]
    BY <1>1, <1>2 DEF ScalarTypes
  <2>3. current' \in 0..last'
    BY <1>1, <1>2, <1>3 DEF ScalarTypes
  <2>4. ClientTypes' /\ AgentTypes'
    BY <1>1, <1>3, <2>2, <2>3 DEF TypeOK, ClientTypes, AgentTypes
  <2>5. queue' \in Seq(Requests) /\ pending' \in 0..MaxAsks
    BY <1>2
  <2>6. GateTypes'
    BY <1>1, <1>3, <2>5 DEF TypeOK, GateTypes
  <2> QED BY <2>1, <2>4, <2>6 DEF TypeOK
<1>14. Numbered'
  <2>1. last > 0 => last \in Turns
    BY <1>1 DEF ScalarTypes
  <2>2. current' \in {0, last} /\ (current' = 0 /\ last > 0 => Done(last)')
    BY <1>2, <1>3, <1>8, <1>9, <2>1 DEF TurnInv, Numbered, Done
  <2>3. \A i \in Turns : /\ reply'[i] = "none" <=> reply[i] = "none"
                         /\ reply'[i] \in {"none", "starting"} <=> reply[i] \in {"none", "starting"}
    BY <1>7
  <2> QED BY <1>3, <1>9, <2>2, <2>3 DEF TurnInv, Numbered
<1>15. RepliesAreLast'
  BY <1>3 DEF TurnInv, RepliesAreLast
<1>22. Informed'
  <2>1. current' # 0 => current' = current /\ current # g /\ current \in Turns
    BY <1>1, <1>2 DEF ScalarTypes
  <2>2. current' # 0 => reply'[current] = reply[current]
    BY <1>7, <2>1
  <2>3. ASSUME current' = 0, current # 0 PROVE reply[current] # "starting"
    BY <1>2, <2>3
  <2>4. Sent' = Sent
    BY <1>3, <2>1, <2>2, <2>3 DEF Sent
  <2> QED BY <1>3, <2>4 DEF TurnInv, Informed
<1>16. EndedOrTold' /\ OwnResult'
  BY <1>3, <1>7, <1>10 DEF TurnInv, EndedOrTold, Warned, OwnResult, Done
<1>17. OpWaits'
  <2>1. pc'["op"] \in {"wait", "drain"} => pc'["op"] = pc["op"] /\ t # "op" /\ target'["op"] = target["op"]
    BY <1>1, <1>2 DEF ScalarTypes, Tasks
  <2>2. last > 0 => last \in Turns
    BY <1>1 DEF ScalarTypes
  <2>3. ASSUME NEW i \in Turns, reply'[i] = "starting" PROVE i = current' /\ pc'["op"] = "wait"
    <3>1. reply[i] = "starting" /\ i # g
      BY <1>2, <1>7, <2>3
    <3>2. i = current /\ pc["op"] = "wait"
      BY <3>1 DEF TurnInv, OpWaits
    <3>3. t # "op"
      BY <1>2, <3>2
    <3> QED BY <1>1, <1>2, <3>1, <3>2, <3>3 DEF ScalarTypes, Tasks
  <2>4. pc'["op"] = "wait" => Done(last)' \/ current' = last
    BY <1>2, <1>3, <1>8, <1>9, <2>1, <2>2 DEF TurnInv, OpWaits, Done
  <2> QED BY <1>2, <1>3, <2>1, <2>3, <2>4 DEF TurnInv, OpWaits
<1>18. Drains'
  <2> SUFFICES ASSUME NEW u \in Tasks, pc'[u] = "drain" PROVE Drained(u)'
    BY DEF Drains
  <2>1. u # t /\ pc[u] = "drain" /\ target'[u] = target[u]
    BY <1>1, <1>2 DEF ScalarTypes
  <2>2. Drained(u) /\ target[u] \in Turns
    BY <1>1, <2>1 DEF TurnInv, Drains, Drained, ScalarTypes
  <2>3. target[u] = current' \/ Done(target[u])'
    BY <1>2, <1>8, <1>9, <2>1, <2>2 DEF Drained, Done
  <2>4. target[u] # last /\ TurnActive' => pc'["op"] \in {"wait", "queue"} \/ current' \in left
    <3>1. t # "op" => pc'["op"] = pc["op"]
      BY <1>1, <1>2 DEF ScalarTypes, Tasks
    <3> QED BY <1>11, <1>12, <2>2, <3>1 DEF Drained
  <2> QED BY <1>3, <2>1, <2>2, <2>3, <2>4 DEF Drained, Warned
<1>19. PendingHasTurn'
  BY <1>2 DEF PendingHasTurn
<1>20. LiveTurnIsTended'
  <2> SUFFICES ASSUME TurnActive' PROVE pc'["op"] # "idle" \/ current' \in left'
    BY DEF LiveTurnIsTended
  <2>1. g # last /\ t # "op"
    BY <1>11, <1>12 DEF TurnInv, Numbered, TurnActive
  <2>2. pc'["op"] = pc["op"]
    BY <1>1, <1>2, <2>1 DEF ScalarTypes, Tasks
  <2> QED BY <1>3, <1>11, <1>12, <2>1, <2>2
<1>21. NoSilentDrop'
  BY <1>3, <1>10, NothingLost DEF Warned
<1> QED BY <1>13, <1>14, <1>15, <1>16, <1>17, <1>18, <1>19, <1>20, <1>21, <1>22 DEF TurnInv

(***************************************************************************)
(* The invariant holds                                                     *)
(***************************************************************************)
LEMMA TurnInit == Init => TurnInv
<1> SUFFICES ASSUME Init PROVE TurnInv
  OBVIOUS
<1> USE TurnAssumption DEF Turns, Requests
<1>1. TypeOK
  <2>1. CallTypes /\ ClientTypes
    BY DEF Init, CallTypes, ClientTypes, Tasks
  <2>2. queue \in Seq(Requests) /\ wire \in Seq(Lines) /\ <<>> \in Seq({"chosen", "rejected"})
    BY DEF Init
  <2>3. GateTypes /\ AgentTypes
    BY <2>2 DEF Init, GateTypes, AgentTypes
  <2> QED BY <2>1, <2>3 DEF TypeOK
<1>2. Numbered
  BY DEF Init, Numbered
<1>3. RepliesAreLast
  BY RangeOfEmpty DEF Init, RepliesAreLast
<1>4. EndedOrTold /\ OwnResult /\ PendingHasTurn /\ LiveTurnIsTended
  BY DEF Init, EndedOrTold, Done, OwnResult, PendingHasTurn, LiveTurnIsTended, TurnActive
<1>5. OpWaits /\ Drains
  BY DEF Init, OpWaits, Drains, Tasks
<1>6. Informed /\ NoSilentDrop
  BY DEF Init, Informed, Sent, NoSilentDrop
<1> QED BY <1>1, <1>2, <1>3, <1>4, <1>5, <1>6 DEF TurnInv

\* So does every step.
LEMMA TurnStep == TurnInv /\ [Next]_vars => TurnInv'
<1> SUFFICES ASSUME TurnInv, [Next]_vars PROVE TurnInv'
  OBVIOUS
<1>1. CASE ClientStep
  BY <1>1, BeginKeepsInv, CallersKeepInv, DecisionsKeepInv DEF ClientStep
<1>2. CASE OpStep
  BY <1>2, ReturnKeepsInv, CallersKeepInv, TakeKeepsInv DEF OpStep
<1>3. CASE ElicitStep \/ PermissionExpires
  BY <1>3, DecisionsKeepInv, CallersKeepInv DEF ElicitStep
<1>4. ASSUME NEW t \in Tasks, CancelStep(t) PROVE TurnInv'
  BY <1>4, CallersKeepInv, LeaveKeepsInv, InterruptKeepsInv DEF CancelStep
<1>5. ASSUME NEW i \in Turns, SendPrompt(i) PROVE TurnInv'
  BY <1>5, SendKeepsInv
<1>6. CASE AgentStep
  BY <1>6, AgentKeepsInv
<1>7. CASE ReaderStep \/ ReaderEnds
  BY <1>7, ReaderKeepsInv
<1>8. CASE UNCHANGED vars
  <2>1. UNCHANGED <<approval, pc, target, current, last, reply, overruns, text, alive, wire, agent,
                    said, turnOf, decided, pending, queue, answers, told, overtaken, left>>
    BY <1>8 DEF vars, client, agentSide, gate
  <2>2. TypeOK'
    BY <2>1 DEF TurnInv, TypeOK, CallTypes, ClientTypes, GateTypes, AgentTypes
  <2>3. Numbered' /\ Informed' /\ RepliesAreLast' /\ OwnResult' /\ EndedOrTold'
    BY <2>1 DEF TurnInv, Numbered, Informed, Sent, RepliesAreLast, OwnResult, Done,
                EndedOrTold, Warned
  <2>4. OpWaits' /\ Drains' /\ PendingHasTurn' /\ LiveTurnIsTended'
    BY <2>1 DEF TurnInv, OpWaits, Drains, Drained, Warned, PendingHasTurn, LiveTurnIsTended, TurnActive, Done
  <2>5. NoSilentDrop'
    BY <2>1 DEF TurnInv, NoSilentDrop, OnWire, Known
  <2> QED BY <2>2, <2>3, <2>4, <2>5 DEF TurnInv
<1> QED BY <1>1, <1>2, <1>3, <1>4, <1>5, <1>6, <1>7, <1>8 DEF Next

\* The invariant holds in every reachable state.
LEMMA TurnInvariance == Spec => []TurnInv
BY TurnInit, TurnStep, PTL DEF Spec

\* Every variable keeps its type.
THEOREM TurnTypeCorrect == Spec => []TypeOK
<1>1. TurnInv => TypeOK
  BY DEF TurnInv
<1> QED BY <1>1, TurnInvariance, PTL

\* No turn ends with a result the agent did not send for it.
THEOREM ResultsAreOwn == Spec => []OwnResult
<1>1. TurnInv => OwnResult
  BY DEF TurnInv
<1> QED BY <1>1, TurnInvariance, PTL

\* No live agent waits for an answer in a turn it believes in while the bridge
\* has forgotten the request.
THEOREM NothingDropsSilently == Spec => []NoSilentDrop
<1>1. TurnInv => NoSilentDrop
  BY DEF TurnInv
<1> QED BY <1>1, TurnInvariance, PTL

\* A pending permission has a turn that a cancel can reach.
THEOREM PendingIsOfATurn == Spec => []PendingHasTurn
<1>1. TurnInv => PendingHasTurn
  BY DEF TurnInv
<1> QED BY <1>1, TurnInvariance, PTL

\* A turn that can still run has somebody who waits for it or will cancel it.
THEOREM LiveTurnsAreTended == Spec => []LiveTurnIsTended
<1>1. TurnInv => LiveTurnIsTended
  BY DEF TurnInv
<1> QED BY <1>1, TurnInvariance, PTL
====
