---- MODULE BridgeProofs ----
(***************************************************************************)
(* Proofs about Bridge for any sessions, tools, bounds and max_concurrency. *)
(* Every step of the handlers is reduced to what it does to the slots and   *)
(* to the op task of one session (SlotMove); with that, the inductive       *)
(* invariant of TurnSlots carries over to the whole bridge.  The later      *)
(* parts add who may be inside cancel_turn, who gives a slot back, and who  *)
(* answers a permission.                                                    *)
(***************************************************************************)
EXTENDS Bridge, TurnSlotsProofs

PcType == pc \in [Sessions -> [Tasks -> Labels]]

\* Only session s moves, and its op task ends up at l if t is that task.
Moves(s, t, l) == /\ PcType'
                  /\ \A r \in Sessions \ {s} : pc'[r] = pc[r]
                  /\ pc'[s]["op"] = IF t = "op" THEN l ELSE pc[s]["op"]

\* The next task of s is inside acquire_turn if and only if it was.
SameAcquire(s) == pc'[s]["op"] = "acquire" <=> pc[s]["op"] = "acquire"

\* All that a step of session s can do to the slots.
SlotMove(s) ==
  /\ PcType'
  /\ \A r \in Sessions \ {s} : pc'[r] = pc[r]
  /\ \/ UNCHANGED slots /\ SameAcquire(s)
     \/ ReleaseSlot(s) /\ SameAcquire(s)
     \/ TakeSlot(s) /\ pc[s]["op"] # "acquire" /\ pc'[s]["op"] # "acquire"
     \/ JoinQueue(s) /\ pc[s]["op"] # "acquire" /\ pc'[s]["op"] = "acquire"
     \/ Resume(s) /\ pc[s]["op"] = "acquire" /\ pc'[s]["op"] # "acquire"
     \/ Withdraw(s) /\ pc[s]["op"] = "acquire" /\ pc'[s]["op"] # "acquire"

\* Disarming the timer touches no other task.
LEMMA DisarmedFacts ==
  ASSUME NEW p \in [Tasks -> Labels]
  PROVE  /\ Disarmed(p) \in [Tasks -> Labels]
         /\ \A t \in Tasks \ {"timer"} : Disarmed(p)[t] = p[t]
<1> DEFINE l == CASE p["timer"] \in {"sleep", "lock"} -> "idle"
                  [] p["timer"] = "queue" -> "quit"
                  [] p["timer"] \in {"tell", "reject", "drain"} -> "abort"
                  [] OTHER -> p["timer"]
<1>1. Disarmed(p) = [p EXCEPT !["timer"] = l]
  BY DEF Disarmed
<1>2. l \in Labels
  BY DEF Labels, Tasks
<1> HIDE DEF l
<1> QED BY <1>1, <1>2

\* Goto moves only the op task it names.
LEMMA GotoMoves ==
  ASSUME PcType, NEW s \in Sessions, NEW t \in Tasks, NEW l \in Labels, Goto(s, t, l)
  PROVE  Moves(s, t, l)
<1>1. pc' = [pc EXCEPT ![s][t] = l]
  BY DEF Goto
<1>2. PcType'
  BY <1>1 DEF PcType
<1>3. \A r \in Sessions \ {s} : pc'[r] = pc[r]
  BY <1>1 DEF PcType
<1>4. pc'[s]["op"] = IF t = "op" THEN l ELSE pc[s]["op"]
  BY <1>1 DEF PcType, Tasks
<1> QED BY <1>2, <1>3, <1>4 DEF Moves

\* DisarmAndGoto is such a move.
LEMMA DisarmAndGotoMoves ==
  ASSUME PcType, NEW s \in Sessions, NEW t \in Tasks, NEW l \in Labels,
         DisarmAndGoto(s, t, l)
  PROVE  Moves(s, t, l)
<1> DEFINE p == Disarmed(pc[s])
<1>1. pc' = [pc EXCEPT ![s] = [p EXCEPT ![t] = l]]
  BY DEF DisarmAndGoto
<1>2. p \in [Tasks -> Labels] /\ p["op"] = pc[s]["op"]
  BY DisarmedFacts DEF PcType, Tasks
<1> HIDE DEF p
<1>3. PcType' /\ \A r \in Sessions \ {s} : pc'[r] = pc[r]
  BY <1>1, <1>2 DEF PcType
<1>4. pc'[s]["op"] = IF t = "op" THEN l ELSE pc[s]["op"]
  BY <1>1, <1>2 DEF PcType, Tasks
<1> QED BY <1>3, <1>4 DEF Moves

\* And so is ArmAndGoto, which starts a new timer.
LEMMA ArmAndGotoMoves ==
  ASSUME PcType, NEW s \in Sessions, NEW t \in Tasks, NEW l \in Labels,
         ArmAndGoto(s, t, l)
  PROVE  Moves(s, t, l)
<1> DEFINE p == Disarmed(pc[s])
           a == [p EXCEPT !["timer"] = "sleep"]
<1>1. pc' = [pc EXCEPT ![s] = [a EXCEPT ![t] = l]]
  BY DEF ArmAndGoto
<1>2. p \in [Tasks -> Labels] /\ p["op"] = pc[s]["op"]
  BY DisarmedFacts DEF PcType, Tasks
<1>3. a \in [Tasks -> Labels] /\ a["op"] = pc[s]["op"]
  <2> HIDE DEF p
  <2> QED BY <1>2 DEF Tasks, Labels
<1> HIDE DEF a
<1>4. PcType' /\ \A r \in Sessions \ {s} : pc'[r] = pc[r]
  BY <1>1, <1>3 DEF PcType
<1>5. pc'[s]["op"] = IF t = "op" THEN l ELSE pc[s]["op"]
  BY <1>1, <1>3 DEF PcType, Tasks
<1> QED BY <1>4, <1>5 DEF Moves

\* A step that moves a task, but not into or out of acquire_turn, and at most
\* releases the session's slot.
LEMMA PlainMove ==
  ASSUME NEW s \in Sessions, NEW t \in Tasks, NEW l \in Labels, Moves(s, t, l),
         t = "op" => l # "acquire" /\ pc[s]["op"] # "acquire",
         UNCHANGED slots \/ ReleaseSlot(s)
  PROVE  SlotMove(s)
  BY DEF Moves, SlotMove, SameAcquire

\* A failing handler goes to its cleanup.
LEMMA FailMoves ==
  ASSUME PcType, NEW s \in Sessions, NEW c, NEW e, Fail(s, c, e)
  PROVE  Moves(s, "op", "cancel")
  BY GotoMoves DEF Fail, Tasks, Labels

\* release_turn from any task but the timer is a plain move,
LEMMA ReleaseTurnMoves ==
  ASSUME PcType, NEW s \in Sessions, NEW t \in Tasks, NEW l \in Labels,
         ReleaseTurn(s, t, l), t = "op" => l # "acquire" /\ pc[s]["op"] # "acquire"
  PROVE  SlotMove(s)
<1>1. Moves(s, t, l)
  BY DisarmAndGotoMoves DEF ReleaseTurn
<1>2. UNCHANGED slots \/ ReleaseSlot(s)
  BY DEF ReleaseTurn
<1> QED BY <1>1, <1>2, PlainMove

\* and so it is from the timer,
LEMMA TimerReleasesMoves ==
  ASSUME PcType, NEW s \in Sessions, TimerReleases(s)
  PROVE  SlotMove(s)
<1>1. Moves(s, "timer", "idle") /\ "timer" \in Tasks /\ "idle" \in Labels
  BY GotoMoves DEF TimerReleases, Tasks, Labels
<1>2. UNCHANGED slots \/ ReleaseSlot(s)
  BY DEF TimerReleases
<1> QED BY <1>1, <1>2, PlainMove

\* and from a handler that returns its result.
LEMMA ReturnMoves ==
  ASSUME PcType, NEW s \in Sessions, Return(s), pc[s]["op"] # "acquire"
  PROVE  SlotMove(s)
<1>1. PICK l \in {"idle", "publish"} : ReleaseTurn(s, "op", l)
  BY DEF Return
<1>2. l \in Labels /\ l # "acquire" /\ "op" \in Tasks
  BY DEF Labels, Tasks
<1> QED BY <1>1, <1>2, ReleaseTurnMoves

\* A handler that has its slot never goes back into acquire_turn.
LEMMA ProceedMoves ==
  ASSUME PcType, NEW s \in Sessions, NEW c, Proceed(s, c)
  PROVE  /\ PcType'
         /\ \A r \in Sessions \ {s} : pc'[r] = pc[r]
         /\ pc'[s]["op"] # "acquire"
<1>1. ASSUME NEW l \in Labels, l # "acquire", Moves(s, "op", l)
      PROVE  /\ PcType'
             /\ \A r \in Sessions \ {s} : pc'[r] = pc[r]
             /\ pc'[s]["op"] # "acquire"
  BY <1>1 DEF Moves
<1>2. {"cancel", "wait", "idle", "answer"} \subseteq Labels /\ "op" \in Tasks
  BY DEF Labels, Tasks
<1>3. CASE BeginPrompt(s)
  <2>1. CASE Fail(s, "prompt", "error")
    BY <2>1, <1>1, <1>2, FailMoves
  <2>2. CASE ~Fail(s, "prompt", "error")
    <3> DEFINE l(t) == CASE t = "op" -> IF s \in registered THEN "wait" ELSE "cancel"
                         [] t # "op" /\ pc[s][t] = "drain" -> "stale"
                         [] OTHER -> pc[s][t]
    <3>1. pc' = [pc EXCEPT ![s] = [t \in Tasks |-> l(t)]]
      BY <1>3, <2>2 DEF BeginPrompt
    <3>2. \A t \in Tasks : l(t) \in Labels
      BY DEF PcType, Labels
    <3>3. l("op") # "acquire"
      OBVIOUS
    <3> HIDE DEF l
    <3>4. [t \in Tasks |-> l(t)] \in [Tasks -> Labels]
      BY <3>2
    <3>5. PcType' /\ \A r \in Sessions \ {s} : pc'[r] = pc[r]
      BY <3>1, <3>4 DEF PcType
    <3>6. pc'[s]["op"] = l("op")
      BY <3>1, <1>2 DEF PcType
    <3> QED BY <3>3, <3>5, <3>6
  <2> QED BY <2>1, <2>2
<1>4. CASE RespondSent(s)
  <2>1. Moves(s, "op", "answer")
    BY <1>4, <1>2, DisarmAndGotoMoves DEF RespondSent
  <2> QED BY <2>1, <1>1, <1>2
<1>5. CASE RespondRefused(s)
  <2>1. Moves(s, "op", "idle")
    BY <1>5, <1>2, ArmAndGotoMoves DEF RespondRefused
  <2> QED BY <2>1, <1>1, <1>2
<1> QED BY <1>3, <1>4, <1>5 DEF Proceed

\* Whatever a caller of cancel_turn does afterwards, it is a plain move.
LEMMA AfterCancelMoves ==
  ASSUME PcType, NEW s \in Sessions, NEW t \in Tasks,
         AfterCancel(s, t), pc[s]["op"] # "acquire" \/ t # "op"
  PROVE  SlotMove(s)
<1>1. {"idle", "cancel", "terminate"} \subseteq Labels
  BY DEF Labels
<1>2. CASE t = "op"
  <2>1. CASE ReleaseTurn(s, t, "idle") \/ ReleaseTurn(s, t, "cancel")
    BY <2>1, <1>1, <1>2, ReleaseTurnMoves
  <2>2. CASE Return(s)
    BY <2>2, <1>2, ReturnMoves
  <2> QED BY <2>1, <2>2, <1>2 DEF AfterCancel
<1>3. CASE t = "tool"
  BY <1>1, <1>3, ReleaseTurnMoves DEF AfterCancel
<1>4. CASE t = "timer"
  BY <1>4, TimerReleasesMoves DEF AfterCancel
<1>5. CASE t = "closer"
  <2>1. Goto(s, t, "terminate") /\ UNCHANGED slots
    BY <1>5 DEF AfterCancel
  <2> QED BY <2>1, <1>1, <1>5, GotoMoves, PlainMove
<1> QED BY <1>2, <1>3, <1>4, <1>5 DEF Tasks

\* The same holds when cancel_turn raised,
LEMMA AfterRaiseMoves ==
  ASSUME PcType, NEW s \in Sessions, NEW t \in Tasks,
         AfterRaise(s, t), pc[s]["op"] # "acquire" \/ t # "op"
  PROVE  SlotMove(s)
<1>1. {"idle", "cancel"} \subseteq Labels /\ "op" \in Tasks
  BY DEF Labels, Tasks
<1>2. CASE t = "op" /\ ReleaseTurn(s, t, "idle")
  BY <1>1, <1>2, ReleaseTurnMoves
<1>3. CASE t = "op" /\ Fail(s, call[s], "error") /\ UNCHANGED slots
  BY <1>1, <1>3, FailMoves, PlainMove
<1>4. CASE AfterCancel(s, t)
  BY <1>4, AfterCancelMoves
<1> QED BY <1>2, <1>3, <1>4 DEF AfterRaise

\* and when the caller was cancelled inside it.
LEMMA AfterInterruptMoves ==
  ASSUME PcType, NEW s \in Sessions, NEW t \in Tasks,
         AfterInterrupt(s, t), pc[s]["op"] # "acquire" \/ t # "op"
  PROVE  SlotMove(s)
<1>1. {"idle", "cancel"} \subseteq Labels /\ "op" \in Tasks
  BY DEF Labels, Tasks
<1>2. CASE t = "op" /\ (ReleaseTurn(s, t, "idle") \/ ReleaseTurn(s, t, "cancel"))
  BY <1>1, <1>2, ReleaseTurnMoves
<1>3. CASE t = "op" /\ Fail(s, call[s], "cancelled") /\ UNCHANGED slots
  BY <1>1, <1>3, FailMoves, PlainMove
<1>4. CASE AfterCancel(s, t)
  BY <1>4, AfterCancelMoves
<1> QED BY <1>2, <1>3, <1>4 DEF AfterInterrupt

\* The answers a call writes, and all that its op task does once it runs.
AnswerStep(s) == AnswerWritten(s) \/ AnswerLost(s) \/ ConfirmWritten(s) \/ ConfirmLost(s)

CallStep(s) == OpStep(s) \/ UserStep(s) \/ AnswerStep(s)

\* All that a task does inside cancel_turn.
CancelTurnStep(s, t) == \/ CancelStep(s, t)
                        \/ Told(s, t) \/ Rejected(s, t) \/ CancelUnsent(s, t)

\* A step of the op task is a SlotMove.
LEMMA CallStepMoves ==
  ASSUME PcType, NEW s \in Sessions, CallStep(s)
  PROVE  SlotMove(s)
<1>1. {"idle", "cancel", "wait", "elicit", "confirm", "publish"} \subseteq Labels /\ "op" \in Tasks
  BY DEF Labels, Tasks
<1>2. ASSUME NEW c, NEW e, Fail(s, c, e), pc[s]["op"] # "acquire", UNCHANGED slots
      PROVE  SlotMove(s)
  BY <1>1, <1>2, FailMoves, PlainMove
<1>3. ASSUME NEW l \in {"idle", "cancel", "wait", "elicit", "confirm", "publish"},
             Goto(s, "op", l) \/ ArmAndGoto(s, "op", l),
             pc[s]["op"] # "acquire", UNCHANGED slots
      PROVE  SlotMove(s)
  <2>1. l \in Labels /\ l # "acquire"
    BY <1>1
  <2>2. Moves(s, "op", l)
    BY <1>1, <1>3, <2>1, GotoMoves, ArmAndGotoMoves
  <2> QED BY <1>1, <1>3, <2>1, <2>2, PlainMove
<1>4. CASE ResumeAcquire(s)
  BY <1>4, ProceedMoves DEF ResumeAcquire, SlotMove, At
<1>5. CASE AcquireGivenUp(s)
  <2>1. Fail(s, call[s], "cancelled") /\ Withdraw(s) /\ pc[s]["op"] = "acquire"
    BY <1>5 DEF AcquireGivenUp, At
  <2>2. Moves(s, "op", "cancel")
    BY <2>1, FailMoves
  <2> QED BY <2>1, <2>2 DEF SlotMove, Moves
<1>6. CASE TurnCompletes(s)
  BY <1>6, ReturnMoves DEF TurnCompletes, At
<1>7. CASE TurnFails(s)
  BY <1>7, <1>2 DEF TurnFails, At
<1>8. CASE WaitTimesOut(s)
  BY <1>8, <1>2 DEF WaitTimesOut, At
<1>9. CASE TakeRequest(s)
  <2>1. pc[s]["op"] # "acquire" /\ UNCHANGED slots
    BY <1>9 DEF TakeRequest, At
  <2>2. \/ Goto(s, "op", "publish") \/ Goto(s, "op", "elicit") \/ ArmAndGoto(s, "op", "idle")
        \/ Fail(s, call[s], "error")
    BY <1>9 DEF TakeRequest
  <2> QED BY <2>1, <2>2, <1>2, <1>3
<1>10. CASE ElicitAnswered(s)
  <2>1. pc[s]["op"] # "acquire" /\ UNCHANGED slots
    BY <1>10 DEF ElicitAnswered, At
  <2>2. Goto(s, "op", "confirm") \/ Fail(s, call[s], "error")
    BY <1>10 DEF ElicitAnswered
  <2> QED BY <2>1, <2>2, <1>2, <1>3
<1>11. CASE ElicitDeclined(s)
  <2>1. pc[s]["op"] # "acquire" /\ UNCHANGED slots /\ Goto(s, "op", "cancel")
    BY <1>11 DEF ElicitDeclined, At
  <2> QED BY <2>1, <1>1, GotoMoves, PlainMove
<1>12. CASE ElicitFails(s)
  BY <1>12, <1>2 DEF ElicitFails, At
<1>13. CASE Published(s)
  <2>1. pc[s]["op"] # "acquire" /\ UNCHANGED slots
    BY <1>13 DEF Published, At
  <2>2. Goto(s, "op", "idle") \/ ArmAndGoto(s, "op", "idle")
    BY <1>13 DEF Published
  <2> QED BY <2>1, <2>2, <1>3
<1>14. CASE PublishFails(s)
  BY <1>14, <1>2 DEF PublishFails, At
<1>15. CASE SwitchEnds(s)
  BY <1>15, <1>3 DEF SwitchEnds, At
<1>16. CASE AnswerStep(s)
  <2>1. pc[s]["op"] # "acquire" /\ UNCHANGED slots
    BY <1>16 DEF AnswerStep, AnswerWritten, AnswerLost, ConfirmWritten, ConfirmLost, At
  <2>2. \/ Goto(s, "op", "cancel") \/ Goto(s, "op", "wait") \/ ArmAndGoto(s, "op", "idle")
        \/ Fail(s, call[s], "error")
    BY <1>16 DEF AnswerStep, AnswerWritten, AnswerLost, ConfirmWritten, ConfirmLost
  <2> QED BY <2>1, <2>2, <1>2, <1>3
<1> QED BY <1>4, <1>5, <1>6, <1>7, <1>8, <1>9, <1>10, <1>11, <1>12, <1>13, <1>14, <1>15, <1>16
        DEF CallStep, OpStep, UserStep

\* A task in cancel_turn gets to its next suspension, or its caller goes on.
Passes(s, t, l) == Goto(s, t, l) /\ UNCHANGED <<slots, then, turn>>

\* Every step inside cancel_turn is one of these.
LEMMA CancelTurnEffect ==
  ASSUME NEW s \in Sessions, NEW t \in Tasks, CancelTurnStep(s, t)
  PROVE  /\ UNCHANGED <<registered, call, proc, events>>
         /\ pc[s][t] \in {"cancel", "queue", "tell", "reject", "drain", "stale"}
         /\ \/ \E l \in {"queue", "tell", "reject", "drain"} : Passes(s, t, l)
            \/ AfterCancel(s, t)
            \/ AfterRaise(s, t)
<1>1. CASE QueueForCancel(s, t)
  BY <1>1 DEF QueueForCancel, Passes, client
<1>2. ASSUME NEW p, Drain(s, t, p), turn' = turn
      PROVE  Passes(s, t, "drain") \/ AfterCancel(s, t)
  BY <1>2 DEF Drain, Passes
<1>3. ASSUME Settle(s, t), turn' = turn
      PROVE  \/ Passes(s, t, "drain") \/ Passes(s, t, "reject")
             \/ AfterCancel(s, t) \/ AfterRaise(s, t)
  BY <1>2, <1>3 DEF Settle, Passes
<1>4. CASE EnterCancel(s, t)
  BY <1>3, <1>4 DEF EnterCancel, TakesCancelLock, At, Passes
<1>5. CASE Told(s, t)
  BY <1>3, <1>5 DEF Told, At
<1>6. CASE Rejected(s, t)
  BY <1>2, <1>6 DEF Rejected, At
<1>7. CASE CancelUnsent(s, t)
  BY <1>7 DEF CancelUnsent, At, client
<1>8. CASE LeaveCancel(s, t)
  BY <1>8 DEF LeaveCancel, At
<1> QED BY <1>1, <1>4, <1>5, <1>6, <1>7, <1>8 DEF CancelTurnStep, CancelStep

\* So it is a SlotMove.
LEMMA CancelTurnMoves ==
  ASSUME PcType, NEW s \in Sessions, NEW t \in Tasks, CancelTurnStep(s, t)
  PROVE  SlotMove(s)
<1>1. {"queue", "tell", "reject", "drain"} \subseteq Labels
  BY DEF Labels
<1>2. pc[s]["op"] # "acquire" \/ t # "op"
  BY CancelTurnEffect
<1>3. ASSUME NEW l \in {"queue", "tell", "reject", "drain"}, Passes(s, t, l)
      PROVE  SlotMove(s)
  <2>1. l \in Labels /\ l # "acquire"
    BY <1>1
  <2>2. Goto(s, t, l) /\ UNCHANGED slots
    BY <1>3 DEF Passes
  <2> QED BY <1>2, <2>1, <2>2, GotoMoves, PlainMove
<1> QED BY <1>2, <1>3, CancelTurnEffect, AfterCancelMoves, AfterRaiseMoves

\* A step of the permission timer is a SlotMove.
LEMMA TimerStepMoves ==
  ASSUME PcType, NEW s \in Sessions, TimerStep(s)
  PROVE  SlotMove(s)
<1>1. {"idle", "cancel", "lock"} \subseteq Labels /\ "timer" \in Tasks
  BY DEF Labels, Tasks
<1>2. ASSUME NEW l \in {"idle", "cancel", "lock"}, Goto(s, "timer", l), UNCHANGED slots
      PROVE  SlotMove(s)
  BY <1>1, <1>2, GotoMoves, PlainMove
<1>3. CASE TimerFires(s)
  BY <1>2, <1>3 DEF TimerFires
<1>4. CASE TimerLocks(s)
  BY <1>2, <1>4 DEF TimerLocks
<1>5. CASE TimerAborts(s)
  BY <1>5, TimerReleasesMoves DEF TimerAborts
<1> QED BY <1>3, <1>4, <1>5 DEF TimerStep

\* A call that takes the session lock is a SlotMove.
LEMMA CallMoves ==
  ASSUME PcType, NEW s \in Sessions, NEW c, Call(s, c)
  PROVE  SlotMove(s)
<1>1. pc[s]["op"] = "idle"
  BY DEF Call, Callable, Locked
<1>2. CASE UNCHANGED slots /\ Proceed(s, c)
  BY <1>1, <1>2, ProceedMoves DEF SlotMove, SameAcquire
<1>3. CASE TakeSlot(s) /\ Proceed(s, c)
  BY <1>1, <1>3, ProceedMoves DEF SlotMove
<1>4. CASE JoinQueue(s) /\ Goto(s, "op", "acquire")
  <2>1. Moves(s, "op", "acquire")
    BY <1>4, GotoMoves DEF Tasks, Labels
  <2> QED BY <1>1, <1>4, <2>1 DEF SlotMove, Moves
<1> QED BY <1>2, <1>3, <1>4 DEF Call

\* What the MCP client can cause in one step is a SlotMove.
LEMMA ClientStepMoves ==
  ASSUME PcType, NEW s \in Sessions, ClientStep(s)
  PROVE  SlotMove(s)
<1>1. /\ {"cancel", "terminate", "switch", "done"} \subseteq Labels
      /\ {"op", "tool", "closer"} \subseteq Tasks
  BY DEF Labels, Tasks
<1>2. CASE Prompt(s) \/ Respond(s)
  BY <1>2, CallMoves DEF Prompt, Respond
<1>3. CASE Switch(s)
  <2>1. pc[s]["op"] = "idle" /\ Goto(s, "op", "switch") /\ UNCHANGED slots
    BY <1>3 DEF Switch, Callable, Locked
  <2> QED BY <2>1, <1>1, GotoMoves, PlainMove
<1>4. CASE Cancelled(s)
  <2>1. pc[s]["op"] # "acquire" /\ Fail(s, call[s], "cancelled") /\ UNCHANGED slots
    BY <1>4 DEF Cancelled, At
  <2> QED BY <2>1, <1>1, FailMoves, PlainMove
<1>5. CASE StartCancelTool(s)
  <2>1. DisarmAndGoto(s, "tool", "cancel") /\ UNCHANGED slots
    BY <1>5 DEF StartCancelTool
  <2> QED BY <2>1, <1>1, DisarmAndGotoMoves, PlainMove
<1>6. CASE StartClose(s)
  <2>1. PICK l \in {"cancel", "terminate"} : ReleaseTurn(s, "closer", l)
    BY <1>6 DEF StartClose
  <2> QED BY <2>1, <1>1, ReleaseTurnMoves
<1>7. CASE TerminateCut(s)
  <2>1. Goto(s, "closer", "done") /\ UNCHANGED slots
    BY <1>7 DEF TerminateCut
  <2> QED BY <2>1, <1>1, GotoMoves, PlainMove
<1>8. ASSUME NEW t \in Tasks, Interrupt(s, t)
      PROVE  SlotMove(s)
  BY <1>8, AfterInterruptMoves DEF Interrupt, At
<1> QED BY <1>2, <1>3, <1>4, <1>5, <1>6, <1>7, <1>8 DEF ClientStep

\* The steps of the tasks of session s, of its client and of its process.
StepOf(s) == \/ CallStep(s)
             \/ \E t \in Tasks : CancelTurnStep(s, t)
             \/ TimerStep(s)
             \/ Terminate(s)
             \/ ClientStep(s)
             \/ ProcessStep(s)

\* Every step of the bridge is one of them.
LEMMA NextIsStep ==
  ASSUME Next
  PROVE  \E s \in Sessions : StepOf(s)
BY DEF Next, StepOf, CallStep, AnswerStep, CancelTurnStep, AgentReads, WriteFails

\* So is every step of the bridge a SlotMove.
LEMMA StepMoves ==
  ASSUME PcType, NEW s \in Sessions, StepOf(s)
  PROVE  SlotMove(s)
<1>1. CASE Terminate(s)
  <2>1. Goto(s, "closer", "done") /\ UNCHANGED slots /\ "closer" \in Tasks /\ "done" \in Labels
    BY <1>1 DEF Terminate, Tasks, Labels
  <2> QED BY <2>1, GotoMoves, PlainMove
<1>2. CASE ProcessStep(s)
  <2>1. UNCHANGED <<slots, pc>>
    BY <1>2 DEF ProcessStep, AgentAsks, AgentEnds, Overflow, ReaderEnds, ProcExits
  <2> QED BY <2>1 DEF SlotMove, SameAcquire, PcType
<1> QED BY <1>1, <1>2, CallStepMoves, CancelTurnMoves, TimerStepMoves, ClientStepMoves DEF StepOf

\* A step of the bridge is one of some session.
LEMMA NextMoves ==
  ASSUME PcType, Next
  PROVE  \E s \in Sessions : SlotMove(s)
<1>1. PICK s \in Sessions : StepOf(s)
  BY NextIsStep
<1> QED BY <1>1, StepMoves

(***************************************************************************)
(* The slots of the bridge                                                 *)
(***************************************************************************)
Acquiring == Queued \cup granted

\* A permit handed to the first waiter moves it from the queue to the grants.
LEMMA HandOverAcquiring ==
  ASSUME SlotInv, NEW g \in SUBSET granted, HandOver(g)
  PROVE  Acquiring' = Queued \cup g
<1>1. CASE waiters = <<>>
  BY <1>1 DEF HandOver, Acquiring, Queued
<1>2. CASE waiters # <<>>
  <2>1. ToSet(Tail(waiters)) = Queued \ {Head(waiters)} /\ Head(waiters) \in Queued
    BY <1>2, TailOfQueue DEF SlotInv, SlotTypes, OnePlacePerSession, Queued
  <2>2. Queued' = Queued \ {Head(waiters)} /\ granted' = g \cup {Head(waiters)}
    BY <1>2, <2>1 DEF HandOver, Queued
  <2> QED BY <2>1, <2>2 DEF Acquiring
<1> QED BY <1>1, <1>2

\* Queueing adds the session to those that acquire, and only it.
LEMMA JoinQueueAcquiring ==
  ASSUME SlotInv, NEW s \in Sessions, JoinQueue(s)
  PROVE  Acquiring' = Acquiring \cup {s}
<1>1. waiters' = Append(waiters, s) /\ granted' = granted
  BY DEF JoinQueue
<1>2. /\ DOMAIN waiters = 1 .. Len(waiters) /\ Len(waiters) \in Nat
      /\ DOMAIN Append(waiters, s) = 1 .. (Len(waiters) + 1)
      /\ \A i \in 1 .. Len(waiters) : Append(waiters, s)[i] = waiters[i]
      /\ Append(waiters, s)[Len(waiters) + 1] = s
  BY AppendProperties, LenProperties DEF SlotInv, SlotTypes
<1>3. Queued' = Queued \cup {s}
  BY <1>1, <1>2 DEF Queued, ToSet
<1> QED BY <1>1, <1>3 DEF Acquiring

\* Giving up takes the session out, and only it.
LEMMA WithdrawAcquiring ==
  ASSUME SlotInv, NEW s \in Sessions, Withdraw(s)
  PROVE  Acquiring' = Acquiring \ {s}
<1>1. CASE WithdrawQueued(s)
  <2>1. s \in Queued /\ granted' = granted
    BY <1>1 DEF WithdrawQueued, Queued, ToSet
  <2>2. Queued' = Queued \ {s}
    BY <1>1, WithdrawQueuedKeepsInv
  <2> QED BY <2>1, <2>2 DEF Acquiring, SlotInv, OnePlacePerSession
<1>2. CASE WithdrawGranted(s)
  <2>1. s \in granted /\ HandOver(granted \ {s})
    BY <1>2 DEF WithdrawGranted
  <2>2. Acquiring' = Queued \cup (granted \ {s})
    BY <2>1, HandOverAcquiring
  <2> QED BY <2>1, <2>2 DEF Acquiring, SlotInv, OnePlacePerSession
<1> QED BY <1>1, <1>2 DEF Withdraw

\* The inductive invariant of the bridge's slots: a session acquires exactly
\* while its op task is inside acquire_turn, so no session acquires twice.
BridgeInv == PcType /\ SlotInv /\ AcquirerWaits

\* A SlotMove is a step of TurnSlots and keeps the invariant.
LEMMA SlotMoveIsSlotStep ==
  ASSUME BridgeInv, NEW s \in Sessions, SlotMove(s)
  PROVE  BridgeInv' /\ [SlotNext]_slots
<1> DEFINE Others == /\ PcType'
                     /\ \A r \in Sessions \ {s} : pc'[r] = pc[r]
<1>1. Others /\ SlotInv /\ AcquirerWaits
  BY DEF SlotMove, BridgeInv
<1>2. AcquirerWaits <=> \A r \in Sessions : r \in Acquiring <=> pc[r]["op"] = "acquire"
  BY DEF AcquirerWaits, Acquiring
<1>3. AcquirerWaits' <=> \A r \in Sessions : r \in Acquiring' <=> pc'[r]["op"] = "acquire"
  BY DEF AcquirerWaits, Acquiring
<1>4. CASE UNCHANGED slots /\ SameAcquire(s)
  <2>1. Acquiring' = Acquiring
    BY <1>4 DEF Acquiring, Queued, slots
  <2>2. AcquirerWaits'
    BY <1>1, <1>2, <1>3, <1>4, <2>1 DEF SameAcquire
  <2>3. [SlotNext]_slots
    BY <1>4
  <2> QED BY <1>1, <2>2, <2>3, SlotStepInv DEF BridgeInv
<1>5. CASE ReleaseSlot(s) /\ SameAcquire(s)
  <2>1. Acquiring' = Acquiring
    BY <1>1, <1>5, HandOverAcquiring DEF ReleaseSlot, Acquiring
  <2>2. AcquirerWaits'
    BY <1>1, <1>2, <1>3, <1>5, <2>1 DEF SameAcquire
  <2>3. SlotNext
    BY <1>5 DEF SlotNext
  <2> QED BY <1>1, <2>2, <2>3, SlotStepInv DEF BridgeInv
<1>6. CASE TakeSlot(s) /\ pc[s]["op"] # "acquire" /\ pc'[s]["op"] # "acquire"
  <2>1. Acquiring' = Acquiring /\ s \notin Queued \cup granted
    BY <1>1, <1>2, <1>6 DEF TakeSlot, Acquiring, Queued
  <2>2. AcquirerWaits'
    BY <1>1, <1>2, <1>3, <1>6, <2>1
  <2>3. SlotNext
    BY <1>6, <2>1 DEF SlotNext
  <2> QED BY <1>1, <2>2, <2>3, SlotStepInv DEF BridgeInv
<1>7. CASE JoinQueue(s) /\ pc[s]["op"] # "acquire" /\ pc'[s]["op"] = "acquire"
  <2>1. Acquiring' = Acquiring \cup {s} /\ s \notin Queued \cup granted
    BY <1>1, <1>2, <1>7, JoinQueueAcquiring DEF Acquiring
  <2>2. AcquirerWaits'
    BY <1>1, <1>2, <1>3, <1>7, <2>1
  <2>3. SlotNext
    BY <1>7, <2>1 DEF SlotNext
  <2> QED BY <1>1, <2>2, <2>3, SlotStepInv DEF BridgeInv
<1>8. CASE Resume(s) /\ pc[s]["op"] = "acquire" /\ pc'[s]["op"] # "acquire"
  <2>1. Acquiring' = Acquiring \ {s}
    BY <1>1, <1>8 DEF Resume, Acquiring, Queued, SlotInv, OnePlacePerSession
  <2>2. AcquirerWaits'
    BY <1>1, <1>2, <1>3, <1>8, <2>1
  <2>3. SlotNext
    BY <1>8 DEF SlotNext
  <2> QED BY <1>1, <2>2, <2>3, SlotStepInv DEF BridgeInv
<1>9. CASE Withdraw(s) /\ pc[s]["op"] = "acquire" /\ pc'[s]["op"] # "acquire"
  <2>1. Acquiring' = Acquiring \ {s}
    BY <1>1, <1>9, WithdrawAcquiring
  <2>2. AcquirerWaits'
    BY <1>1, <1>2, <1>3, <1>9, <2>1
  <2>3. SlotNext
    BY <1>9 DEF SlotNext
  <2> QED BY <1>1, <2>2, <2>3, SlotStepInv DEF BridgeInv
<1> QED BY <1>4, <1>5, <1>6, <1>7, <1>8, <1>9 DEF SlotMove

\* The invariant holds before the first call.
LEMMA BridgeInitInv == Init => BridgeInv
<1> SUFFICES ASSUME Init PROVE BridgeInv
  OBVIOUS
<1>1. SlotInit /\ pc = [s \in Sessions |-> [t \in Tasks |-> "idle"]]
  BY DEF Init
<1>2. PcType /\ \A s \in Sessions : pc[s]["op"] = "idle"
  BY <1>1 DEF PcType, Labels, Tasks
<1>3. Queued \cup granted = {}
  BY <1>1 DEF SlotInit, Queued, ToSet
<1> QED BY <1>1, <1>2, <1>3, SlotInitInv DEF BridgeInv, AcquirerWaits

\* Every step keeps it and is a step, or a stutter, of the slots.
LEMMA BridgeStep == BridgeInv /\ [Next]_vars => BridgeInv' /\ [SlotNext]_slots
<1> SUFFICES ASSUME BridgeInv, [Next]_vars PROVE BridgeInv' /\ [SlotNext]_slots
  OBVIOUS
<1>1. CASE Next
  BY <1>1, NextMoves, SlotMoveIsSlotStep DEF BridgeInv
<1>2. CASE UNCHANGED vars
  <2>1. UNCHANGED <<slots, pc>>
    BY <1>2 DEF vars
  <2>2. PcType' /\ AcquirerWaits'
    BY <2>1 DEF BridgeInv, PcType, AcquirerWaits, Queued, slots
  <2> QED BY <2>1, <2>2, SlotStepInv DEF BridgeInv
<1> QED BY <1>1, <1>2

\* The invariant holds in every reachable state.
THEOREM BridgeInvariant == Spec => []BridgeInv
<1> QED BY BridgeInitInv, BridgeStep, PTL DEF Spec

\* A session queues for a slot, or was handed one, exactly while one of its
\* calls is inside acquire_turn: cleanups never strand a permit.
THEOREM AcquirersWait == Spec => []AcquirerWaits
<1>1. BridgeInv => AcquirerWaits
  BY DEF BridgeInv
<1> QED BY <1>1, BridgeInvariant, PTL

\* The handlers keep to the discipline TurnSlots asks of its callers: no
\* session acquires while it is queued or granted, whatever interleaves.
THEOREM BridgeImplementsSlots == Spec => SlotSpec
<1>1. Init => SlotInit
  BY DEF Init
<1> QED BY <1>1, BridgeStep, BridgeInvariant, PTL DEF Spec, SlotSpec

\* Hence no interleaving of tools, timers, closes, cancellations and failures
\* loses, doubles or makes up a turn slot.
THEOREM BridgeConservesSlots == Spec => [](SlotConservation /\ SlotTypeOK /\ OnePlacePerSession)
<1> QED BY BridgeImplementsSlots, SlotsConserved, OnePlace, PTL

(***************************************************************************)
(* Types                                                                   *)
(***************************************************************************)
ThenType == then \in [Sessions -> {"end", "again", "inner", "declined", "arm"}]

TurnType == turn \in [Sessions -> {"none", "active", "finished", "failed"}]

ClientType == /\ TurnType
              /\ pending \in [Sessions -> Kinds \cup {"none"}]
              /\ asked \in [Sessions -> Kinds \cup {"none"}]
              /\ proc \in [Sessions -> {"up", "exiting", "dead"}]

CallType == /\ registered \subseteq Sessions
            /\ call \in [Sessions -> {"none", "prompt", "respond", "switch"}]
            /\ events \in 0..MaxEvents

DataOK == ThenType /\ ClientType /\ CallType

\* What the endings of a handler write to then.
LEMMA EndingsKeepThen ==
  ASSUME ThenType, NEW s \in Sessions, NEW t, NEW c, NEW error,
         \/ Fail(s, c, error) \/ Return(s)
         \/ AfterCancel(s, t) \/ AfterRaise(s, t) \/ AfterInterrupt(s, t)
  PROVE  ThenType'
<1>1. ASSUME NEW d, NEW e, Fail(s, d, e)
      PROVE  ThenType'
  BY <1>1 DEF Fail, ThenType
<1>2. CASE Return(s)
  BY <1>2 DEF Return, ThenType
<1>3. CASE AfterCancel(s, t)
  BY <1>3 DEF AfterCancel, Return, ThenType
<1>4. CASE AfterRaise(s, t)
  BY <1>1, <1>4 DEF AfterRaise, AfterCancel, Return, ThenType
<1>5. CASE AfterInterrupt(s, t)
  BY <1>1, <1>5 DEF AfterInterrupt, AfterCancel, Return, ThenType
<1> QED BY <1>1, <1>2, <1>3, <1>4, <1>5

\* A handler that has its slot keeps the types and may begin a turn.
LEMMA ProceedKeepsData ==
  ASSUME DataOK, NEW s \in Sessions, NEW c, Proceed(s, c), s \in held'
  PROVE  ThenType' /\ ClientType'
<1>1. CASE BeginPrompt(s)
  <2>1. CASE Fail(s, "prompt", "error") /\ UNCHANGED client
    BY <2>1, EndingsKeepThen DEF DataOK, ClientType, TurnType, client
  <2>2. CASE ~(Fail(s, "prompt", "error") /\ UNCHANGED client)
    <3>1. /\ turn' = [turn EXCEPT ![s] = "active"]
          /\ asked' = [asked EXCEPT ![s] = "none"]
          /\ then' = [then EXCEPT ![s] = "end"]
          /\ UNCHANGED <<pending, proc>>
      BY <1>1, <2>2 DEF BeginPrompt
    <3> QED BY <3>1 DEF DataOK, ThenType, ClientType, TurnType
  <2> QED BY <2>1, <2>2
<1>2. CASE RespondSent(s)
  BY <1>2 DEF RespondSent, DataOK, ThenType, ClientType, TurnType
<1>3. CASE RespondRefused(s)
  BY <1>3 DEF RespondRefused, DataOK, ThenType, ClientType, TurnType
<1> QED BY <1>1, <1>2, <1>3 DEF Proceed

\* A new call does the same, or queues.
LEMMA CallKeepsData ==
  ASSUME DataOK, NEW s \in Sessions, NEW c \in {"prompt", "respond"}, Call(s, c)
  PROVE  DataOK'
<1>1. CallType'
  BY BridgeAssumption DEF Call, Callable, DataOK, CallType
<1>2. CASE Proceed(s, c) /\ s \in held'
  BY <1>1, <1>2, ProceedKeepsData DEF DataOK
<1>3. CASE UNCHANGED <<then, client>>
  BY <1>1, <1>3 DEF DataOK, ThenType, ClientType, TurnType, client
<1> QED BY <1>2, <1>3 DEF Call, TakeSlot, slots

\* The steps of a suspended call.
LEMMA CallStepKeepsData ==
  ASSUME DataOK, NEW s \in Sessions, CallStep(s)
  PROVE  DataOK'
<1>1. ASSUME UNCHANGED <<registered, call, events>>
      PROVE  CallType'
  BY <1>1 DEF DataOK, CallType
<1>2. ASSUME NEW c, NEW error, Fail(s, c, error), UNCHANGED <<registered, call, client, events>>
      PROVE  DataOK'
  BY <1>1, <1>2, EndingsKeepThen DEF DataOK, ClientType, TurnType, client
<1>3. CASE ResumeAcquire(s)
  BY <1>1, <1>3, ProceedKeepsData DEF ResumeAcquire, Resume, DataOK
<1>4. CASE AcquireGivenUp(s)
  BY <1>2, <1>4 DEF AcquireGivenUp
<1>5. CASE TurnCompletes(s)
  <2>1. ThenType'
    BY <1>5, EndingsKeepThen DEF TurnCompletes, DataOK
  <2> QED BY <1>1, <1>5, <2>1 DEF TurnCompletes, DataOK, ClientType, TurnType
<1>6. CASE TurnFails(s) \/ WaitTimesOut(s) \/ ElicitFails(s) \/ PublishFails(s)
  BY <1>2, <1>6 DEF TurnFails, WaitTimesOut, ElicitFails, PublishFails
<1>7. CASE TakeRequest(s)
  <2>1. ThenType'
    BY <1>7, EndingsKeepThen DEF TakeRequest, DataOK, ThenType
  <2> QED BY <1>1, <1>7, <2>1 DEF TakeRequest, DataOK, ClientType, TurnType
<1>8. CASE ElicitAnswered(s)
  <2>1. ThenType'
    BY <1>8, EndingsKeepThen DEF ElicitAnswered, DataOK, ThenType
  <2> QED BY <1>1, <1>8, <2>1 DEF ElicitAnswered, DataOK, ClientType, TurnType
<1>9. CASE ElicitDeclined(s) \/ Published(s) \/ SwitchEnds(s)
  <2>1. ThenType'
    BY <1>9 DEF ElicitDeclined, Published, SwitchEnds, DataOK, ThenType
  <2>2. UNCHANGED <<registered, call, client, events>>
    BY <1>9 DEF ElicitDeclined, Published, SwitchEnds
  <2> QED BY <1>1, <2>1, <2>2 DEF DataOK, ClientType, TurnType, client
<1>10. CASE AnswerStep(s)
  <2>1. UNCHANGED <<registered, call, client, events>>
    BY <1>10 DEF AnswerStep, AnswerWritten, AnswerLost, ConfirmWritten, ConfirmLost
  <2>2. CASE Fail(s, call[s], "error")
    BY <1>2, <2>1, <2>2
  <2>3. CASE ~Fail(s, call[s], "error")
    <3>1. ThenType'
      BY <1>10, <2>3 DEF AnswerStep, AnswerWritten, AnswerLost, ConfirmWritten, ConfirmLost, DataOK, ThenType
    <3> QED BY <1>1, <2>1, <3>1 DEF DataOK, ClientType, TurnType, client
  <2> QED BY <2>2, <2>3
<1> QED BY <1>3, <1>4, <1>5, <1>6, <1>7, <1>8, <1>9, <1>10
        DEF CallStep, OpStep, UserStep

\* What cancel_turn does to the turn and to the permissions: it leaves them or
\* ends them.
LEMMA CancelTurnClears ==
  ASSUME DataOK, NEW s \in Sessions, NEW t \in Tasks, CancelTurnStep(s, t)
  PROVE  /\ turn' = turn \/ turn' = [turn EXCEPT ![s] = "none"]
         /\ pending' = pending \/ pending' = [pending EXCEPT ![s] = "none"]
         /\ asked' = asked \/ asked' = [asked EXCEPT ![s] = "none"]
<1> DEFINE Cleared == /\ pending' = pending \/ pending' = [pending EXCEPT ![s] = "none"]
                      /\ asked' = asked \/ asked' = [asked EXCEPT ![s] = "none"]
<1>1. pending = [pending EXCEPT ![s] = pending[s]] /\ turn = [turn EXCEPT ![s] = turn[s]]
  BY DEF DataOK, ClientType, TurnType
<1>2. ASSUME Drain(s, t, "none") \/ Drain(s, t, pending[s])
      PROVE  Cleared
  BY <1>1, <1>2 DEF Drain
<1>3. ASSUME Settle(s, t)
      PROVE  Cleared
  BY <1>2, <1>3 DEF Settle
<1>4. CASE QueueForCancel(s, t) \/ CancelUnsent(s, t)
  BY <1>4 DEF QueueForCancel, CancelUnsent, client
<1>5. CASE EnterCancel(s, t)
  BY <1>3, <1>5 DEF EnterCancel
<1>6. CASE Told(s, t) \/ Rejected(s, t)
  BY <1>2, <1>3, <1>6 DEF Told, Rejected
<1>7. CASE LeaveCancel(s, t)
  <2>1. turn' = turn \/ turn' = [turn EXCEPT ![s] = "none"]
    BY <1>1, <1>7 DEF LeaveCancel
  <2> QED BY <1>7, <2>1 DEF LeaveCancel
<1> QED BY <1>4, <1>5, <1>6, <1>7 DEF CancelTurnStep, CancelStep

\* The steps of cancel_turn.
LEMMA CancelTurnKeepsData ==
  ASSUME DataOK, NEW s \in Sessions, NEW t \in Tasks, CancelTurnStep(s, t)
  PROVE  DataOK'
<1>1. UNCHANGED <<registered, call, proc, events>>
  BY CancelTurnEffect
<1>2. ThenType'
  BY CancelTurnEffect, EndingsKeepThen DEF Passes, DataOK, ThenType
<1>3. ClientType'
  BY <1>1, CancelTurnClears DEF DataOK, ClientType, TurnType
<1> QED BY <1>1, <1>2, <1>3 DEF DataOK, CallType

\* What the MCP client starts or cancels.
LEMMA ClientStepKeepsData ==
  ASSUME DataOK, NEW s \in Sessions, ClientStep(s)
  PROVE  DataOK'
<1>1. CASE Prompt(s) \/ Respond(s)
  BY <1>1, CallKeepsData DEF Prompt, Respond
<1>2. ASSUME UNCHANGED client
      PROVE  ClientType'
  BY <1>2 DEF DataOK, ClientType, TurnType, client
<1>3. CASE Switch(s)
  BY <1>2, <1>3, BridgeAssumption DEF Switch, Callable, DataOK, ThenType, CallType
<1>4. CASE Cancelled(s)
  BY <1>2, <1>4, EndingsKeepThen DEF Cancelled, DataOK, CallType
<1>5. CASE StartCancelTool(s) \/ StartClose(s)
  BY <1>2, <1>5, BridgeAssumption DEF StartCancelTool, StartClose, DataOK, ThenType, CallType
<1>6. CASE TerminateCut(s)
  BY <1>6 DEF TerminateCut, DataOK, ThenType, ClientType, TurnType, CallType
<1>7. ASSUME NEW t \in Tasks, Interrupt(s, t)
      PROVE  DataOK'
  BY <1>2, <1>7, EndingsKeepThen DEF Interrupt, DataOK, CallType
<1> QED BY <1>1, <1>3, <1>4, <1>5, <1>6, <1>7 DEF ClientStep

\* Every step of the bridge.
LEMMA NextKeepsData ==
  ASSUME DataOK, Next
  PROVE  DataOK'
<1>1. PICK s \in Sessions : StepOf(s)
  BY NextIsStep
<1>2. CASE TimerStep(s)
  BY <1>2 DEF TimerStep, TimerFires, TimerLocks, TimerAborts, DataOK, ThenType, ClientType,
              TurnType, CallType, client
<1>3. CASE Terminate(s)
  BY <1>3 DEF Terminate, DataOK, ThenType, ClientType, TurnType, CallType
<1>4. CASE ProcessStep(s)
  <2>1. CASE AgentAsks(s)
    BY <2>1, BridgeAssumption DEF AgentAsks, DataOK, ThenType, ClientType, TurnType, CallType
  <2>2. CASE AgentEnds(s)
    BY <2>2 DEF AgentEnds, DataOK, ThenType, ClientType, TurnType, CallType
  <2>3. CASE Overflow(s)
    BY <2>3 DEF Overflow, FailTurn, DataOK, ThenType, ClientType, TurnType, CallType
  <2>4. CASE ReaderEnds(s) \/ ProcExits(s)
    BY <2>4 DEF ReaderEnds, ProcExits, FailTurn, DataOK, ThenType, ClientType, TurnType, CallType
  <2> QED BY <1>4, <2>1, <2>2, <2>3, <2>4 DEF ProcessStep
<1> QED BY <1>1, <1>2, <1>3, <1>4, CallStepKeepsData, CancelTurnKeepsData, ClientStepKeepsData DEF StepOf

\* The types hold at first and are kept.
LEMMA DataInvariant == Spec => []DataOK
<1>1. Init => DataOK
  BY BridgeAssumption DEF Init, DataOK, ThenType, ClientType, TurnType, CallType
<1>2. DataOK /\ [Next]_vars => DataOK'
  <2> SUFFICES ASSUME DataOK, UNCHANGED vars PROVE DataOK'
    BY NextKeepsData
  <2> QED BY DEF vars, client, DataOK, ThenType, ClientType, TurnType, CallType
<1> QED BY <1>1, <1>2, PTL DEF Spec

\* Every variable of the bridge keeps its type.
THEOREM BridgeTypeCorrect == Spec => []TypeOK
<1>1. BridgeInv /\ SlotTypeOK /\ DataOK => TypeOK
  BY DEF BridgeInv, PcType, DataOK, ThenType, ClientType, TurnType, CallType, TypeOK
<1> QED BY <1>1, BridgeInvariant, BridgeConservesSlots, DataInvariant, PTL

(***************************************************************************)
(* One task at a time cancels a turn                                       *)
(***************************************************************************)
HasSessionLock == {"cancel", "queue", "tell", "reject", "drain", "abort", "quit"}

\* CancelsOneAtATime, for the tasks p of one session.
OneCanceller(p) ==
  /\ \A t, u \in Tasks : p[t] \in HasCancelLock /\ p[u] \in HasCancelLock => t = u
  /\ p["timer"] \in HasSessionLock => p["op"] = "idle"

CancelInv == PcType /\ \A s \in Sessions : OneCanceller(pc[s])

\* Task t may go to l: a call starts, and the timer gets to work, only while
\* the other one has not got the session lock.
MayGo(p, t, l) ==
  /\ t = "op" /\ l # "idle" => p["op"] # "idle" \/ p["timer"] \notin HasSessionLock
  /\ t = "timer" /\ l \in HasSessionLock => p["op"] = "idle"

\* Moving one task keeps the row's invariant, into the cancel lock only if it
\* is free or this task's.
LEMMA RowMoves ==
  ASSUME NEW p \in [Tasks -> Labels], OneCanceller(p),
         NEW t \in Tasks, NEW l \in Labels, MayGo(p, t, l),
         \/ l \notin HasCancelLock \/ p[t] \in HasCancelLock
         \/ \A u \in Tasks : p[u] \notin HasCancelLock
  PROVE  OneCanceller([p EXCEPT ![t] = l])
<1> DEFINE q == [p EXCEPT ![t] = l]
<1>1. q[t] = l /\ \A u \in Tasks \ {t} : q[u] = p[u]
  OBVIOUS
<1> HIDE DEF q
<1>2. ASSUME NEW u \in Tasks, NEW v \in Tasks, q[u] \in HasCancelLock, q[v] \in HasCancelLock
      PROVE  u = v
  BY <1>1, <1>2 DEF OneCanceller
<1>3. q["timer"] \in HasSessionLock => q["op"] = "idle"
  BY <1>1 DEF OneCanceller, MayGo, Tasks
<1>4. OneCanceller(q)
  BY <1>2, <1>3 DEF OneCanceller
<1> QED BY <1>4 DEF q

\* Disarming keeps it, and frees or keeps the session lock.
LEMMA RowDisarms ==
  ASSUME NEW p \in [Tasks -> Labels], OneCanceller(p)
  PROVE  /\ Disarmed(p) \in [Tasks -> Labels]
         /\ OneCanceller(Disarmed(p))
         /\ Disarmed(p)["timer"] \in HasSessionLock => p["timer"] \in HasSessionLock
         /\ \A t \in Tasks \ {"timer"} : Disarmed(p)[t] = p[t]
<1> DEFINE l == CASE p["timer"] \in {"sleep", "lock"} -> "idle"
                  [] p["timer"] = "queue" -> "quit"
                  [] p["timer"] \in {"tell", "reject", "drain"} -> "abort"
                  [] OTHER -> p["timer"]
<1>1. Disarmed(p) = [p EXCEPT !["timer"] = l]
  BY DEF Disarmed
<1>2. l \in HasSessionLock => p["timer"] \in HasSessionLock
  BY DEF HasSessionLock
<1>3. l \in HasCancelLock => p["timer"] \in HasCancelLock
  BY DEF HasCancelLock
<1> HIDE DEF l
<1>4. "timer" \in Tasks /\ "op" \in Tasks /\ "timer" # "op"
  BY DEF Tasks
<1>5. Disarmed(p)["timer"] = l /\ \A t \in Tasks \ {"timer"} : Disarmed(p)[t] = p[t]
  BY <1>1, <1>4
<1>6. OneCanceller(Disarmed(p))
  BY <1>2, <1>3, <1>4, <1>5 DEF OneCanceller
<1> QED BY <1>2, <1>5, <1>6, DisarmedFacts

\* Only the row of session s changes, and it keeps its invariant.
LEMMA RowChanges ==
  ASSUME CancelInv, NEW s \in Sessions, NEW p \in [Tasks -> Labels], OneCanceller(p),
         pc' = [pc EXCEPT ![s] = p]
  PROVE  CancelInv'
<1>1. PcType' /\ pc'[s] = p /\ \A r \in Sessions \ {s} : pc'[r] = pc[r]
  BY DEF CancelInv, PcType
<1>2. ASSUME NEW r \in Sessions
      PROVE  OneCanceller(pc'[r])
  BY <1>1 DEF CancelInv
<1> QED BY <1>1, <1>2 DEF CancelInv, OneCanceller

\* A move outside the cancel lock keeps the invariant,
LEMMA QuietGoto ==
  ASSUME CancelInv, NEW s \in Sessions, NEW t \in Tasks,
         NEW l \in Labels, l \notin HasCancelLock, MayGo(pc[s], t, l), Goto(s, t, l)
  PROVE  CancelInv'
<1>1. pc[s] \in [Tasks -> Labels] /\ OneCanceller(pc[s])
  BY DEF CancelInv, PcType
<1>2. pc' = [pc EXCEPT ![s] = [pc[s] EXCEPT ![t] = l]]
  BY DEF Goto
<1>3. [pc[s] EXCEPT ![t] = l] \in [Tasks -> Labels]
  BY <1>1
<1>4. OneCanceller([pc[s] EXCEPT ![t] = l])
  BY <1>1, RowMoves
<1> QED BY <1>2, <1>3, <1>4, RowChanges

\* also when the timer is disarmed with it,
LEMMA QuietDisarm ==
  ASSUME CancelInv, NEW s \in Sessions, NEW t \in Tasks,
         NEW l \in Labels, l \notin HasCancelLock, MayGo(pc[s], t, l), DisarmAndGoto(s, t, l)
  PROVE  CancelInv'
<1> DEFINE d == Disarmed(pc[s])
<1>1. pc[s] \in [Tasks -> Labels] /\ OneCanceller(pc[s])
  BY DEF CancelInv, PcType
<1>2. /\ d \in [Tasks -> Labels] /\ OneCanceller(d)
      /\ d["timer"] \in HasSessionLock => pc[s]["timer"] \in HasSessionLock
      /\ \A u \in Tasks \ {"timer"} : d[u] = pc[s][u]
  BY <1>1, RowDisarms
<1>3. MayGo(d, t, l)
  BY <1>2 DEF MayGo, Tasks
<1>4. pc' = [pc EXCEPT ![s] = [d EXCEPT ![t] = l]]
  BY DEF DisarmAndGoto
<1> HIDE DEF d
<1>5. [d EXCEPT ![t] = l] \in [Tasks -> Labels] /\ OneCanceller([d EXCEPT ![t] = l])
  BY <1>2, <1>3, RowMoves
<1> QED BY <1>4, <1>5, RowChanges

\* or armed.
LEMMA QuietMoves ==
  ASSUME CancelInv, NEW s \in Sessions, NEW t \in Tasks,
         NEW l \in Labels \ HasCancelLock, MayGo(pc[s], t, l),
         Goto(s, t, l) \/ DisarmAndGoto(s, t, l) \/ (ArmAndGoto(s, t, l) /\ t # "timer")
  PROVE  CancelInv'
<1> DEFINE p == pc[s]
           d == Disarmed(pc[s])
<1>1. p \in [Tasks -> Labels] /\ OneCanceller(p)
  BY DEF CancelInv, PcType
<1>2. /\ d \in [Tasks -> Labels] /\ OneCanceller(d)
      /\ d["timer"] \in HasSessionLock => p["timer"] \in HasSessionLock
      /\ \A u \in Tasks \ {"timer"} : d[u] = p[u]
  BY <1>1, RowDisarms
<1>3. MayGo(d, t, l)
  BY <1>2 DEF MayGo, Tasks
<1>4. CASE Goto(s, t, l)
  BY <1>4, QuietGoto
<1> HIDE DEF d
<1>5. CASE DisarmAndGoto(s, t, l)
  BY <1>5, QuietDisarm
<1>6. CASE ArmAndGoto(s, t, l) /\ t # "timer"
  <2> DEFINE a == [d EXCEPT !["timer"] = "sleep"]
  <2>1. "timer" \in Tasks /\ "sleep" \in Labels /\ "sleep" \notin HasCancelLock \cup HasSessionLock
    BY DEF Tasks, Labels, HasCancelLock, HasSessionLock
  <2>2. MayGo(d, "timer", "sleep")
    BY <2>1 DEF MayGo
  <2>3. a \in [Tasks -> Labels] /\ OneCanceller(a)
    BY <1>2, <2>1, <2>2, RowMoves
  <2>4. MayGo(a, t, l)
    BY <1>2, <1>6, <2>1 DEF MayGo, Tasks
  <2>5. pc' = [pc EXCEPT ![s] = [a EXCEPT ![t] = l]]
    BY <1>6 DEF ArmAndGoto, d
  <2> HIDE DEF a
  <2>6. [a EXCEPT ![t] = l] \in [Tasks -> Labels]
    BY <2>3
  <2> QED BY <2>3, <2>4, <2>5, <2>6, RowMoves, RowChanges
<1> QED BY <1>4, <1>5, <1>6

\* A call that has or may take the session lock may go anywhere,
LEMMA OpMayGo ==
  ASSUME NEW s \in Sessions, NEW l,
         pc[s]["op"] # "idle" \/ pc[s]["timer"] \notin HasSessionLock
  PROVE  MayGo(pc[s], "op", l)
<1> QED BY DEF MayGo

\* so may the cancel tool and a close, and the timer may always end.
LEMMA OthersMayGo ==
  ASSUME NEW s \in Sessions, NEW t \in Tasks \ {"op"}, NEW l,
         t = "timer" => l \notin HasSessionLock
  PROVE  MayGo(pc[s], t, l)
<1> QED BY DEF MayGo

\* Whatever a caller does after cancel_turn keeps the invariant.
LEMMA AftermathKeepsCancelInv ==
  ASSUME CancelInv, NEW s \in Sessions, NEW t \in Tasks,
         t = "op" => pc[s]["op"] # "idle",
         AfterCancel(s, t) \/ AfterRaise(s, t) \/ AfterInterrupt(s, t)
  PROVE  CancelInv'
<1>1. {"idle", "cancel", "publish", "terminate"} \subseteq Labels \ HasCancelLock
  BY DEF Labels, HasCancelLock
<1>2. CASE t = "op"
  <2>1. \A l : MayGo(pc[s], "op", l)
    BY <1>2, OpMayGo
  <2>2. ASSUME NEW c, NEW error, Fail(s, c, error)
        PROVE  CancelInv'
    BY <1>1, <1>2, <2>1, <2>2, QuietMoves DEF Fail
  <2>3. ASSUME NEW l \in {"idle", "cancel", "publish"}, ReleaseTurn(s, "op", l)
        PROVE  CancelInv'
    BY <1>1, <1>2, <2>1, <2>3, QuietMoves DEF ReleaseTurn
  <2>4. CASE Return(s)
    BY <2>3, <2>4 DEF Return
  <2> QED BY <1>2, <2>2, <2>3, <2>4 DEF AfterCancel, AfterRaise, AfterInterrupt
<1>3. CASE t # "op"
  <2>1. AfterCancel(s, t)
    BY <1>3 DEF AfterRaise, AfterInterrupt
  <2>2. "idle" \notin HasSessionLock /\ "terminate" \notin HasSessionLock
    BY DEF HasSessionLock
  <2>3. MayGo(pc[s], t, "idle") /\ MayGo(pc[s], t, "terminate")
    BY <1>3, <2>2, OthersMayGo
  <2>4. \/ DisarmAndGoto(s, t, "idle") \/ Goto(s, t, "idle") \/ Goto(s, t, "terminate")
    BY <1>3, <2>1 DEF AfterCancel, ReleaseTurn, TimerReleases
  <2>5. CASE DisarmAndGoto(s, t, "idle")
    BY <1>1, <2>3, <2>5, QuietDisarm
  <2>6. CASE Goto(s, t, "idle")
    BY <1>1, <2>3, <2>6, QuietGoto
  <2>7. CASE Goto(s, t, "terminate")
    BY <1>1, <2>3, <2>7, QuietGoto
  <2> QED BY <2>4, <2>5, <2>6, <2>7
<1> QED BY <1>2, <1>3

\* A call that may have the session lock keeps it.
LEMMA ProceedKeepsCancelInv ==
  ASSUME CancelInv, NEW s \in Sessions, NEW c, Proceed(s, c),
         pc[s]["op"] # "idle" \/ pc[s]["timer"] \notin HasSessionLock
  PROVE  CancelInv'
<1>1. /\ {"idle", "cancel", "wait", "answer"} \subseteq Labels \ HasCancelLock
      /\ "op" \in Tasks /\ "timer" \in Tasks
  BY DEF Labels, HasCancelLock, Tasks
<1>2. \A l : MayGo(pc[s], "op", l)
  BY OpMayGo
<1>3. pc[s] \in [Tasks -> Labels] /\ OneCanceller(pc[s])
  BY DEF CancelInv, PcType
<1>4. pc[s]["timer"] \notin HasSessionLock
  BY <1>3 DEF OneCanceller
<1>5. CASE BeginPrompt(s)
  <2>1. CASE Fail(s, "prompt", "error")
    BY <1>1, <1>2, <2>1, QuietMoves DEF Fail
  <2>2. CASE ~Fail(s, "prompt", "error")
    <3> DEFINE q == [t \in Tasks |->
                       CASE t = "op" -> IF s \in registered THEN "wait" ELSE "cancel"
                         [] t # "op" /\ pc[s][t] = "drain" -> "stale"
                         [] OTHER -> pc[s][t]]
    <3>1. pc' = [pc EXCEPT ![s] = q]
      BY <1>5, <2>2 DEF BeginPrompt
    <3>2. q \in [Tasks -> Labels]
      BY <1>3 DEF Labels
    <3>3. \A t \in Tasks : q[t] \in HasCancelLock => pc[s][t] \in HasCancelLock
      BY <1>1 DEF HasCancelLock
    <3>4. q["timer"] \notin HasSessionLock
      BY <1>1, <1>4 DEF HasSessionLock
    <3> HIDE DEF q
    <3>5. OneCanceller(q)
      BY <1>3, <3>3, <3>4 DEF OneCanceller
    <3> QED BY <3>1, <3>2, <3>5, RowChanges
  <2> QED BY <2>1, <2>2
<1>6. CASE RespondSent(s)
  BY <1>1, <1>2, <1>6, QuietMoves DEF RespondSent
<1>7. CASE RespondRefused(s)
  BY <1>1, <1>2, <1>7, QuietMoves DEF RespondRefused
<1> QED BY <1>5, <1>6, <1>7 DEF Proceed

\* The steps of a call that was suspended.
LEMMA CallStepKeepsCancelInv ==
  ASSUME CancelInv, NEW s \in Sessions, CallStep(s)
  PROVE  CancelInv'
<1>1. {"idle", "cancel", "wait", "elicit", "confirm", "publish"} \subseteq Labels \ HasCancelLock /\ "op" \in Tasks
  BY DEF Labels, HasCancelLock, Tasks
<1>2. pc[s]["op"] # "idle"
  BY DEF CallStep, OpStep, UserStep, AnswerStep, ResumeAcquire, AcquireGivenUp, TurnCompletes, TurnFails, WaitTimesOut, TakeRequest,
         ElicitAnswered, ElicitDeclined, ElicitFails, Published, PublishFails, SwitchEnds,
         AnswerWritten, AnswerLost, ConfirmWritten, ConfirmLost, At
<1>3. \A l : MayGo(pc[s], "op", l)
  BY <1>2, OpMayGo
<1>4. ASSUME NEW l \in {"idle", "cancel", "wait", "elicit", "confirm", "publish"},
             Goto(s, "op", l) \/ DisarmAndGoto(s, "op", l) \/ ArmAndGoto(s, "op", l)
      PROVE  CancelInv'
  BY <1>1, <1>3, <1>4, QuietMoves
<1>5. CASE ResumeAcquire(s)
  BY <1>2, <1>5, ProceedKeepsCancelInv DEF ResumeAcquire
<1>6. CASE AcquireGivenUp(s) \/ TurnFails(s) \/ WaitTimesOut(s) \/ ElicitFails(s) \/ PublishFails(s)
  BY <1>4, <1>6 DEF AcquireGivenUp, TurnFails, WaitTimesOut, ElicitFails, PublishFails, Fail
<1>7. CASE TurnCompletes(s)
  BY <1>4, <1>7 DEF TurnCompletes, Return, ReleaseTurn
<1>8. CASE TakeRequest(s)
  BY <1>4, <1>8 DEF TakeRequest, Fail
<1>9. CASE ElicitAnswered(s) \/ ElicitDeclined(s)
  BY <1>4, <1>9 DEF ElicitAnswered, ElicitDeclined, Fail
<1>10. CASE Published(s) \/ SwitchEnds(s)
  BY <1>4, <1>10 DEF Published, SwitchEnds
<1>11. CASE AnswerStep(s)
  BY <1>4, <1>11 DEF AnswerStep, AnswerWritten, AnswerLost, ConfirmWritten, ConfirmLost, Fail
<1> QED BY <1>5, <1>6, <1>7, <1>8, <1>9, <1>10, <1>11 DEF CallStep, OpStep, UserStep

\* Inside cancel_turn a task gets to a suspension with the lock, or in the queue
\* for it, only where it has the lock already or nobody has.
LEMMA CancelTurnLocks ==
  ASSUME NEW s \in Sessions, NEW t \in Tasks, CancelTurnStep(s, t)
  PROVE  \/ pc[s][t] = "cancel" /\ Passes(s, t, "queue")
         \/ /\ pc[s][t] \in {"cancel", "queue", "tell", "reject"}
            /\ \E l \in {"tell", "reject", "drain"} : Passes(s, t, l)
            /\ pc[s][t] \in HasCancelLock \/ \A u \in Tasks : pc[s][u] \notin HasCancelLock
         \/ AfterCancel(s, t) \/ AfterRaise(s, t)
<1> DEFINE Further == \E l \in {"tell", "reject", "drain"} : Passes(s, t, l)
<1>1. ASSUME NEW p, Drain(s, t, p), turn' = turn
      PROVE  Further \/ AfterCancel(s, t)
  BY <1>1 DEF Drain, Passes
<1>2. ASSUME Settle(s, t), turn' = turn
      PROVE  Further \/ AfterCancel(s, t) \/ AfterRaise(s, t)
  BY <1>1, <1>2 DEF Settle, Passes
<1>3. CASE QueueForCancel(s, t)
  BY <1>3 DEF QueueForCancel, Passes, client
<1>4. CASE EnterCancel(s, t)
  <2>1. pc[s][t] \in {"cancel", "queue"} /\ \A u \in Tasks : pc[s][u] \notin HasCancelLock
    BY <1>4 DEF EnterCancel, TakesCancelLock, CancelLocked, At
  <2> QED BY <1>2, <1>4, <2>1 DEF EnterCancel, Passes
<1>5. CASE Told(s, t) \/ Rejected(s, t)
  <2>1. pc[s][t] \in {"tell", "reject"} /\ pc[s][t] \in HasCancelLock
    BY <1>5 DEF Told, Rejected, At, HasCancelLock
  <2> QED BY <1>1, <1>2, <1>5, <2>1 DEF Told, Rejected
<1>6. CASE CancelUnsent(s, t) \/ LeaveCancel(s, t)
  BY <1>6 DEF CancelUnsent, LeaveCancel
<1> QED BY <1>3, <1>4, <1>5, <1>6 DEF CancelTurnStep, CancelStep

\* The steps of cancel_turn: the lock is entered only when it is free.
LEMMA CancelTurnKeepsCancelInv ==
  ASSUME CancelInv, NEW s \in Sessions, NEW t \in Tasks, CancelTurnStep(s, t)
  PROVE  CancelInv'
<1>1. pc[s] \in [Tasks -> Labels] /\ OneCanceller(pc[s])
  BY DEF CancelInv, PcType
<1>2. pc[s][t] \in {"cancel", "queue", "tell", "reject", "drain", "stale"}
  BY CancelTurnEffect
<1>3. t = "op" => pc[s]["op"] # "idle"
  BY <1>2
<1>4. CASE pc[s][t] = "cancel" /\ Passes(s, t, "queue")
  <2>1. MayGo(pc[s], t, "queue")
    BY <1>1, <1>4 DEF MayGo, OneCanceller, HasSessionLock
  <2>2. "queue" \in Labels \ HasCancelLock
    BY DEF Labels, HasCancelLock
  <2> QED BY <1>4, <2>1, <2>2, QuietGoto DEF Passes
<1>5. ASSUME NEW l \in {"tell", "reject", "drain"}, Passes(s, t, l),
             pc[s][t] \in {"cancel", "queue", "tell", "reject"},
             pc[s][t] \in HasCancelLock \/ \A u \in Tasks : pc[s][u] \notin HasCancelLock
      PROVE  CancelInv'
  <2>1. MayGo(pc[s], t, l)
    BY <1>1, <1>5 DEF MayGo, OneCanceller, HasSessionLock
  <2>2. l \in Labels
    BY DEF Labels
  <2>3. OneCanceller([pc[s] EXCEPT ![t] = l])
    BY <1>1, <1>5, <2>1, <2>2, RowMoves
  <2>4. [pc[s] EXCEPT ![t] = l] \in [Tasks -> Labels]
    BY <1>1, <2>2
  <2>5. pc' = [pc EXCEPT ![s] = [pc[s] EXCEPT ![t] = l]]
    BY <1>5 DEF Passes, Goto
  <2> QED BY <2>3, <2>4, <2>5, RowChanges
<1>6. CASE AfterCancel(s, t) \/ AfterRaise(s, t)
  BY <1>3, <1>6, AftermathKeepsCancelInv
<1> QED BY <1>4, <1>5, <1>6, CancelTurnLocks

\* The timer gets to work only when it has the session lock.
LEMMA TimerStepKeepsCancelInv ==
  ASSUME CancelInv, NEW s \in Sessions, TimerStep(s)
  PROVE  CancelInv'
<1>1. {"idle", "cancel", "lock"} \subseteq Labels \ HasCancelLock /\ "timer" \in Tasks
  BY DEF Labels, HasCancelLock, Tasks
<1>2. MayGo(pc[s], "timer", "idle") /\ MayGo(pc[s], "timer", "lock")
  BY DEF MayGo, HasSessionLock
<1>3. ASSUME NEW l \in {"idle", "cancel", "lock"}, MayGo(pc[s], "timer", l), Goto(s, "timer", l)
      PROVE  CancelInv'
  <2>1. l \in Labels \ HasCancelLock
    BY <1>1
  <2> QED BY <1>1, <1>3, <2>1, QuietGoto
<1>4. CASE TimerFires(s)
  BY <1>2, <1>4, <1>3 DEF TimerFires
<1>5. CASE TimerLocks(s)
  <2>1. MayGo(pc[s], "timer", "cancel")
    BY <1>5 DEF TimerLocks, Locked, MayGo
  <2>2. Goto(s, "timer", "cancel") \/ Goto(s, "timer", "idle")
    BY <1>5 DEF TimerLocks
  <2> QED BY <1>2, <1>3, <2>1, <2>2
<1>6. CASE TimerAborts(s)
  BY <1>2, <1>6, <1>3 DEF TimerAborts, TimerReleases
<1> QED BY <1>4, <1>5, <1>6 DEF TimerStep

\* What the MCP client starts or cancels.
LEMMA ClientStepKeepsCancelInv ==
  ASSUME CancelInv, NEW s \in Sessions, ClientStep(s)
  PROVE  CancelInv'
<1>1. /\ {"acquire", "switch", "cancel", "terminate", "done"} \subseteq Labels \ HasCancelLock
      /\ "op" \in Tasks /\ {"tool", "closer"} \subseteq Tasks \ {"op", "timer"}
  BY DEF Labels, HasCancelLock, Tasks
<1>2. ASSUME NEW c, Callable(s, c)
      PROVE  pc[s]["timer"] \notin HasSessionLock
  BY <1>2 DEF Callable, Locked, TimerLocked, HasSessionLock
<1>3. ASSUME NEW c, Call(s, c)
      PROVE  CancelInv'
  <2>1. pc[s]["timer"] \notin HasSessionLock
    BY <1>2, <1>3 DEF Call
  <2>2. CASE Proceed(s, c)
    BY <2>1, <2>2, ProceedKeepsCancelInv
  <2>3. CASE Goto(s, "op", "acquire")
    BY <1>1, <2>1, <2>3, OpMayGo, QuietMoves
  <2> QED BY <1>3, <2>2, <2>3 DEF Call
<1>4. CASE Prompt(s) \/ Respond(s)
  BY <1>3, <1>4 DEF Prompt, Respond
<1>5. CASE Switch(s)
  <2>1. pc[s]["timer"] \notin HasSessionLock
    BY <1>2, <1>5 DEF Switch
  <2> QED BY <1>1, <1>5, <2>1, OpMayGo, QuietMoves DEF Switch
<1>6. CASE Cancelled(s)
  <2>1. pc[s]["op"] # "idle"
    BY <1>6 DEF Cancelled, At
  <2> QED BY <1>1, <1>6, <2>1, OpMayGo, QuietMoves DEF Cancelled, Fail
<1>7. CASE StartCancelTool(s)
  <2>1. MayGo(pc[s], "tool", "cancel")
    BY <1>1, OthersMayGo
  <2> QED BY <1>1, <1>7, <2>1, QuietMoves DEF StartCancelTool
<1>8. CASE StartClose(s)
  <2>1. MayGo(pc[s], "closer", "cancel") /\ MayGo(pc[s], "closer", "terminate")
    BY <1>1, OthersMayGo
  <2>2. DisarmAndGoto(s, "closer", "cancel") \/ DisarmAndGoto(s, "closer", "terminate")
    BY <1>8 DEF StartClose, ReleaseTurn
  <2> QED BY <1>1, <2>1, <2>2, QuietMoves
<1>9. CASE TerminateCut(s)
  <2>1. MayGo(pc[s], "closer", "done")
    BY <1>1, OthersMayGo
  <2> QED BY <1>1, <1>9, <2>1, QuietMoves DEF TerminateCut
<1>10. ASSUME NEW t \in Tasks, Interrupt(s, t)
       PROVE  CancelInv'
  <2>1. t = "op" => pc[s]["op"] # "idle"
    BY <1>10 DEF Interrupt, At
  <2> QED BY <1>10, <2>1, AftermathKeepsCancelInv DEF Interrupt
<1> QED BY <1>4, <1>5, <1>6, <1>7, <1>8, <1>9, <1>10 DEF ClientStep

\* The invariant is inductive.
LEMMA CancelInvariant == Spec => []CancelInv
<1>1. Init => CancelInv
  BY DEF Init, CancelInv, PcType, OneCanceller, HasCancelLock, HasSessionLock, Labels, Tasks
<1>2. ASSUME CancelInv, Next
      PROVE  CancelInv'
  <2>1. PICK s \in Sessions : StepOf(s)
    BY <1>2, NextIsStep
  <2>2. CASE Terminate(s)
    <3>1. "closer" \in Tasks \ {"op", "timer"} /\ "done" \in Labels \ HasCancelLock
      BY DEF Tasks, Labels, HasCancelLock
    <3>2. MayGo(pc[s], "closer", "done")
      BY <3>1, OthersMayGo
    <3> QED BY <1>2, <2>2, <3>1, <3>2, QuietMoves DEF Terminate
  <2>3. CASE ProcessStep(s)
    <3>1. pc' = pc
      BY <2>3 DEF ProcessStep, AgentAsks, AgentEnds, Overflow, ReaderEnds, ProcExits
    <3> QED BY <1>2, <3>1 DEF CancelInv, PcType, OneCanceller
  <2> QED BY <1>2, <2>1, <2>2, <2>3, CallStepKeepsCancelInv, CancelTurnKeepsCancelInv,
             TimerStepKeepsCancelInv, ClientStepKeepsCancelInv DEF StepOf
<1>3. CancelInv /\ UNCHANGED vars => CancelInv'
  BY DEF vars, CancelInv, PcType, OneCanceller
<1>4. CancelInv /\ [Next]_vars => CancelInv'
  BY <1>2, <1>3
<1> QED BY <1>1, <1>4, PTL DEF Spec

\* No two tasks of a session are inside the locked part of cancel_turn, and
\* the permission timer never cancels a turn while a call works on it.
THEOREM OneCancelAtATime == Spec => []CancelsOneAtATime
<1>1. CancelInv => CancelsOneAtATime
  BY DEF CancelInv, OneCanceller, CancelsOneAtATime, TimerLocked, HasSessionLock
<1> QED BY <1>1, CancelInvariant, PTL

(***************************************************************************)
(* What one step does to its own session, and to the others                *)
(***************************************************************************)
\* What a step of session s leaves alone.
Elsewhere(s) ==
  \A r \in Sessions \ {s} :
    /\ pc'[r] = pc[r]
    /\ then'[r] = then[r]
    /\ turn'[r] = turn[r]
    /\ pending'[r] = pending[r]
    /\ proc'[r] = proc[r]
    /\ r \in held' <=> r \in held
    /\ r \in registered' <=> r \in registered

\* A step gives and takes no other session's slot.
LEMMA HeldElsewhere ==
  ASSUME NEW s \in Sessions, SlotMove(s), NEW r \in Sessions \ {s}
  PROVE  r \in held' <=> r \in held
BY DEF SlotMove, slots, ReleaseSlot, TakeSlot, JoinQueue, Resume, Withdraw, WithdrawQueued,
       WithdrawGranted

\* The data of the other sessions, for each kind of step.
LEMMA EndingsElsewhere ==
  ASSUME ThenType, NEW s \in Sessions, NEW t, NEW r \in Sessions \ {s}
  PROVE  /\ \A c, error : Fail(s, c, error) => then'[r] = then[r]
         /\ Return(s) => then'[r] = then[r]
         /\ AfterCancel(s, t) => then'[r] = then[r]
         /\ AfterRaise(s, t) => then'[r] = then[r]
         /\ AfterInterrupt(s, t) => then'[r] = then[r]
<1>1. \A c, error : Fail(s, c, error) => then'[r] = then[r]
  BY DEF Fail, ThenType
<1>2. Return(s) => then'[r] = then[r]
  BY DEF Return, ThenType
<1>3. AfterCancel(s, t) => then'[r] = then[r]
  BY <1>2 DEF AfterCancel, ThenType
<1>4. AfterRaise(s, t) => then'[r] = then[r]
  BY <1>1, <1>3 DEF AfterRaise, ThenType
<1>5. AfterInterrupt(s, t) => then'[r] = then[r]
  BY <1>1, <1>3 DEF AfterInterrupt, ThenType
<1> QED BY <1>1, <1>2, <1>3, <1>4, <1>5

\* A handler that has its slot writes to its own session,
LEMMA ProceedElsewhere ==
  ASSUME DataOK, NEW s \in Sessions, NEW c, Proceed(s, c), NEW r \in Sessions \ {s}
  PROVE  /\ then'[r] = then[r] /\ turn'[r] = turn[r]
         /\ pending'[r] = pending[r] /\ proc'[r] = proc[r]
<1>1. CASE BeginPrompt(s)
  BY <1>1 DEF BeginPrompt, Fail, client, DataOK, ThenType, ClientType, TurnType
<1>2. CASE RespondSent(s)
  BY <1>2 DEF RespondSent, DataOK, ThenType, ClientType, TurnType
<1>3. CASE RespondRefused(s)
  BY <1>3 DEF RespondRefused, DataOK, ThenType, ClientType, TurnType
<1> QED BY <1>1, <1>2, <1>3 DEF Proceed

\* as every step does.
LEMMA DataElsewhere ==
  ASSUME DataOK, NEW s \in Sessions, StepOf(s), NEW r \in Sessions \ {s}
  PROVE  /\ then'[r] = then[r] /\ turn'[r] = turn[r]
         /\ pending'[r] = pending[r] /\ proc'[r] = proc[r]
         /\ r \in registered' <=> r \in registered
<1> DEFINE Same == /\ then'[r] = then[r] /\ turn'[r] = turn[r]
                   /\ pending'[r] = pending[r] /\ proc'[r] = proc[r]
                   /\ r \in registered' <=> r \in registered
<1>1. CASE CallStep(s)
  <2>1. registered' = registered
    BY <1>1 DEF CallStep, OpStep, UserStep, AnswerStep, ResumeAcquire, AcquireGivenUp, TurnCompletes, TurnFails, WaitTimesOut, TakeRequest,
         ElicitAnswered, ElicitDeclined, ElicitFails, Published, PublishFails, SwitchEnds,
         AnswerWritten, AnswerLost, ConfirmWritten, ConfirmLost
  <2>2. CASE ResumeAcquire(s)
    BY <2>1, <2>2, ProceedElsewhere DEF ResumeAcquire
  <2>3. CASE TurnCompletes(s)
    BY <2>1, <2>3, EndingsElsewhere DEF TurnCompletes, DataOK, ClientType, TurnType
  <2>4. CASE AcquireGivenUp(s) \/ TurnFails(s) \/ WaitTimesOut(s) \/ ElicitFails(s) \/ PublishFails(s)
    BY <2>1, <2>4, EndingsElsewhere
       DEF AcquireGivenUp, TurnFails, WaitTimesOut, ElicitFails, PublishFails, client, DataOK
  <2>5. CASE TakeRequest(s) \/ ElicitAnswered(s)
    BY <2>1, <2>5, EndingsElsewhere
       DEF TakeRequest, ElicitAnswered, DataOK, ThenType, ClientType, TurnType
  <2>6. CASE ElicitDeclined(s) \/ Published(s) \/ SwitchEnds(s)
    BY <2>1, <2>6 DEF ElicitDeclined, Published, SwitchEnds, client, DataOK, ThenType
  <2>7. CASE AnswerStep(s)
    BY <2>1, <2>7, EndingsElsewhere
       DEF AnswerStep, AnswerWritten, AnswerLost, ConfirmWritten, ConfirmLost, client, DataOK, ThenType
  <2> QED BY <1>1, <2>2, <2>3, <2>4, <2>5, <2>6, <2>7 DEF CallStep, OpStep, UserStep
<1>2. ASSUME NEW t \in Tasks, CancelTurnStep(s, t)
      PROVE  Same
  <2>1. registered' = registered /\ proc' = proc
    BY <1>2, CancelTurnEffect
  <2>2. then'[r] = then[r]
    BY <1>2, CancelTurnEffect, EndingsElsewhere DEF Passes, DataOK
  <2>3. turn'[r] = turn[r] /\ pending'[r] = pending[r]
    BY <1>2, CancelTurnClears DEF DataOK, ClientType, TurnType
  <2> QED BY <2>1, <2>2, <2>3
<1>3. CASE TimerStep(s)
  BY <1>3 DEF TimerStep, TimerFires, TimerLocks, TimerAborts, client
<1>4. CASE Terminate(s)
  BY <1>4 DEF Terminate, DataOK, ClientType, TurnType
<1>5. CASE ClientStep(s)
  <2>1. ASSUME NEW c, Call(s, c)
        PROVE  Same
    BY <2>1, ProceedElsewhere DEF Call, Callable, client
  <2>2. CASE Switch(s) \/ StartCancelTool(s) \/ StartClose(s)
    BY <2>2 DEF Switch, Callable, StartCancelTool, StartClose, client
  <2>3. CASE Cancelled(s)
    BY <2>3, EndingsElsewhere DEF Cancelled, client, DataOK
  <2>4. CASE TerminateCut(s)
    BY <2>4 DEF TerminateCut, DataOK, ClientType
  <2>5. ASSUME NEW t \in Tasks, Interrupt(s, t)
        PROVE  Same
    BY <2>5, EndingsElsewhere DEF Interrupt, client, DataOK
  <2> QED BY <1>5, <2>1, <2>2, <2>3, <2>4, <2>5 DEF ClientStep, Prompt, Respond
<1>6. CASE ProcessStep(s)
  BY <1>6 DEF ProcessStep, AgentAsks, AgentEnds, Overflow, FailTurn, ReaderEnds, ProcExits,
              DataOK, ClientType, TurnType
<1> QED BY <1>1, <1>2, <1>3, <1>4, <1>5, <1>6 DEF StepOf

\* A step leaves every other session as it is.
LEMMA StepElsewhere ==
  ASSUME PcType, DataOK, NEW s \in Sessions, StepOf(s)
  PROVE  Elsewhere(s)
<1>1. SlotMove(s)
  BY StepMoves
<1> QED BY <1>1, HeldElsewhere, DataElsewhere DEF Elsewhere, SlotMove

\* What the ways of moving a task do to the row of its session.
Goes(s, t, l) == /\ pc'[s][t] = l
                 /\ \A u \in Tasks \ {t} : pc'[s][u] = pc[s][u]

Disarms(s, t, l) ==
  /\ pc'[s][t] = l
  /\ \A u \in Tasks \ {t, "timer"} : pc'[s][u] = pc[s][u]
  /\ pc[s]["timer"] = "idle" => pc'[s]["timer"] = "idle"
  /\ pc'[s]["timer"] \in {"abort", "quit"} => pc[s]["timer"] \in HasSessionLock
  /\ pc'[s]["timer"] = "stale" => pc[s]["timer"] = "stale"

Arms(s, t, l) == /\ pc'[s][t] = l
                 /\ \A u \in Tasks \ {t, "timer"} : pc'[s][u] = pc[s][u]
                 /\ pc'[s]["timer"] = "sleep"

\* Goto, DisarmAndGoto and ArmAndGoto, read off the row.
LEMMA RowEffects ==
  ASSUME PcType, NEW s \in Sessions, NEW t \in Tasks, NEW l
  PROVE  /\ Goto(s, t, l) => Goes(s, t, l)
         /\ DisarmAndGoto(s, t, l) /\ t # "timer" => Disarms(s, t, l)
         /\ ArmAndGoto(s, t, l) /\ t # "timer" => Arms(s, t, l)
<1> DEFINE d == Disarmed(pc[s])
<1>1. pc \in [Sessions -> [Tasks -> Labels]] /\ pc[s] \in [Tasks -> Labels] /\ "timer" \in Tasks
  BY DEF PcType, Tasks
<1>2. d \in [Tasks -> Labels] /\ \A u \in Tasks \ {"timer"} : d[u] = pc[s][u]
  BY <1>1, DisarmedFacts
<1>3. /\ pc[s]["timer"] = "idle" => d["timer"] = "idle"
      /\ d["timer"] \in {"abort", "quit"} => pc[s]["timer"] \in HasSessionLock
      /\ d["timer"] = "stale" => pc[s]["timer"] = "stale"
  BY <1>1 DEF Disarmed, HasSessionLock
<1>4. Goto(s, t, l) => Goes(s, t, l)
  BY <1>1 DEF Goto, Goes
<1>5. ASSUME DisarmAndGoto(s, t, l), t # "timer"
      PROVE  Disarms(s, t, l)
  <2>1. pc' = [pc EXCEPT ![s] = [d EXCEPT ![t] = l]]
    BY <1>5 DEF DisarmAndGoto
  <2> HIDE DEF d
  <2>2. pc'[s] = [d EXCEPT ![t] = l]
    BY <1>1, <2>1
  <2>3. pc'[s][t] = l /\ \A u \in Tasks \ {t} : pc'[s][u] = d[u]
    BY <1>2, <2>2
  <2> QED BY <1>1, <1>2, <1>3, <1>5, <2>3 DEF Disarms
<1>6. ASSUME ArmAndGoto(s, t, l), t # "timer"
      PROVE  Arms(s, t, l)
  <2> DEFINE a == [d EXCEPT !["timer"] = "sleep"]
  <2>1. pc' = [pc EXCEPT ![s] = [a EXCEPT ![t] = l]]
    BY <1>6 DEF ArmAndGoto
  <2> HIDE DEF d
  <2>2. a["timer"] = "sleep" /\ \A u \in Tasks \ {"timer"} : a[u] = pc[s][u]
    BY <1>1, <1>2
  <2>3. DOMAIN a = Tasks /\ a = [u \in Tasks |-> a[u]]
    BY <1>2
  <2> HIDE DEF a
  <2>4. pc'[s] = [a EXCEPT ![t] = l]
    BY <1>1, <2>1
  <2>5. pc'[s][t] = l /\ \A u \in Tasks \ {t} : pc'[s][u] = a[u]
    BY <2>3, <2>4
  <2> QED BY <1>1, <1>6, <2>2, <2>5 DEF Arms
<1> QED BY <1>4, <1>5, <1>6

\* release_turn leaves its session without a slot.
LEMMA ReleaseTurnEffect ==
  ASSUME PcType, NEW s \in Sessions, NEW t \in Tasks \ {"timer"}, NEW l, ReleaseTurn(s, t, l)
  PROVE  Disarms(s, t, l) /\ s \notin held'
BY RowEffects DEF ReleaseTurn, ReleaseSlot, slots

\* A handler that fails goes to its cleanup, with one more thing to do.
LEMMA FailEffect ==
  ASSUME PcType, ThenType, NEW s \in Sessions, NEW c, NEW error, Fail(s, c, error)
  PROVE  Goes(s, "op", "cancel") /\ then'[s] \in {"end", "again", "inner"}
<1>1. "op" \in Tasks
  BY DEF Tasks
<1>2. Goes(s, "op", "cancel")
  BY <1>1, RowEffects DEF Fail
<1>3. then'[s] \in {"end", "again", "inner"}
  BY DEF Fail, ThenType
<1> QED BY <1>2, <1>3

\* What a caller of cancel_turn does afterwards: it gives the slot back, or it
\* goes on with its cleanup or its close and leaves the slots alone.
Settles(s, t) ==
  \/ /\ t = "op" /\ s \notin held' /\ then'[s] = "end"
     /\ \E l \in {"idle", "cancel", "publish"} : Disarms(s, t, l)
  \/ /\ t = "op" /\ Goes(s, t, "cancel")
     /\ then'[s] \in {"end", "again", "inner"} /\ UNCHANGED slots
  \/ /\ t = "tool" /\ s \notin held' /\ then'[s] = then[s] /\ Disarms(s, t, "idle")
  \/ /\ t = "timer" /\ s \notin held' /\ then'[s] = then[s] /\ Goes(s, t, "idle")
  \/ /\ t = "closer" /\ then'[s] = then[s] /\ Goes(s, t, "terminate") /\ UNCHANGED slots

\* Every aftermath of cancel_turn is of this form.
LEMMA AftermathSettles ==
  ASSUME PcType, ThenType, NEW s \in Sessions, NEW t \in Tasks,
         AfterCancel(s, t) \/ AfterRaise(s, t) \/ AfterInterrupt(s, t)
  PROVE  Settles(s, t)
<1> DEFINE Released(l) == ReleaseTurn(s, "op", l) /\ then'[s] = "end"
<1>1. \A u \in Tasks \ {"timer"} : \A l : ReleaseTurn(s, u, l) => Disarms(s, u, l) /\ s \notin held'
  BY ReleaseTurnEffect
<1>2. \A u \in Tasks : \A l : Goto(s, u, l) => Goes(s, u, l)
  BY RowEffects
<1>3. {"op", "tool", "timer", "closer"} = Tasks
  BY DEF Tasks
<1>4. ASSUME NEW l \in {"idle", "cancel", "publish"}, t = "op", Released(l)
      PROVE  Settles(s, t)
  BY <1>1, <1>3, <1>4 DEF Settles
<1>5. ASSUME NEW c, NEW error, Fail(s, c, error), UNCHANGED slots, t = "op"
      PROVE  Settles(s, t)
  BY <1>5, FailEffect DEF Settles
<1>6. ASSUME t = "op", Return(s)
      PROVE  Settles(s, t)
  <2>1. \E l \in {"idle", "publish"} : Released(l)
    BY <1>6 DEF Return, ThenType
  <2> QED BY <1>4, <1>6, <2>1
<1>7. CASE t = "op"
  <2>1. CASE AfterCancel(s, t)
    <3>1. Return(s) \/ Released("idle") \/ Released("cancel")
      BY <1>7, <2>1 DEF AfterCancel, ThenType
    <3> QED BY <1>4, <1>6, <1>7, <3>1
  <2>2. CASE AfterRaise(s, t)
    <3>1. Released("idle") \/ (Fail(s, call[s], "error") /\ UNCHANGED slots)
      BY <1>7, <2>2 DEF AfterRaise, ThenType
    <3> QED BY <1>4, <1>5, <1>7, <3>1
  <2>3. CASE AfterInterrupt(s, t)
    <3>1. Released("idle") \/ Released("cancel") \/ (Fail(s, call[s], "cancelled") /\ UNCHANGED slots)
      BY <1>7, <2>3 DEF AfterInterrupt, ThenType
    <3> QED BY <1>4, <1>5, <1>7, <3>1
  <2> QED BY <2>1, <2>2, <2>3
<1>8. CASE t # "op"
  <2>1. AfterCancel(s, t)
    BY <1>8 DEF AfterRaise, AfterInterrupt
  <2>2. CASE t = "tool"
    BY <1>1, <1>3, <2>1, <2>2 DEF AfterCancel, Settles
  <2>3. CASE t = "timer"
    BY <1>2, <2>1, <2>3 DEF AfterCancel, TimerReleases, ReleaseSlot, slots, Settles
  <2>4. CASE t = "closer"
    BY <1>2, <2>1, <2>4 DEF AfterCancel, Settles
  <2> QED BY <1>3, <1>8, <2>2, <2>3, <2>4
<1> QED BY <1>7, <1>8

\* The hypotheses of the lemmas below, which other theorems establish.
BridgeOK == BridgeInv /\ CancelInv /\ DataOK

\* They hold in every reachable state.
LEMMA BridgeAlwaysOK == Spec => []BridgeOK
<1> QED BY BridgeInvariant, CancelInvariant, DataInvariant, PTL DEF BridgeOK

\* A call of a tool the client does not use never runs.
CallInTools == \A s \in Sessions : call[s] \in Tools \cup {"none"}

\* The session lock is only ever taken by a tool the client calls.
LEMMA CallsAreInTools == Spec => []CallInTools
<1>1. Init => CallInTools
  BY DEF Init, CallInTools
<1>2. ASSUME DataOK, CallInTools, [Next]_vars
      PROVE  CallInTools'
  <2>1. CASE call' = call
    BY <1>2, <2>1 DEF CallInTools
  <2>2. CASE \E s \in Sessions, c \in Tools : call' = [call EXCEPT ![s] = c]
    BY <1>2, <2>2 DEF CallInTools, DataOK, CallType
  <2>3. CASE \E s \in Sessions : Prompt(s) \/ Respond(s) \/ Switch(s)
    BY <2>2, <2>3 DEF Prompt, Respond, Switch, Call, Callable
  <2>4. CASE UNCHANGED vars
    BY <2>1, <2>4 DEF vars
  <2>5. ASSUME Next, ~\E s \in Sessions : Prompt(s) \/ Respond(s) \/ Switch(s)
        PROVE  call' = call
    <3>1. PICK s \in Sessions : StepOf(s)
      BY <2>5, NextIsStep
    <3>2. CASE CallStep(s)
      BY <3>2 DEF CallStep, OpStep, UserStep, AnswerStep, ResumeAcquire, AcquireGivenUp, TurnCompletes, TurnFails, WaitTimesOut,
         TakeRequest, ElicitAnswered, ElicitDeclined, ElicitFails, Published, PublishFails, SwitchEnds,
         AnswerWritten, AnswerLost, ConfirmWritten, ConfirmLost
    <3>3. CASE \E t \in Tasks : CancelTurnStep(s, t)
      BY <3>3, CancelTurnEffect
    <3>4. CASE TimerStep(s) \/ Terminate(s)
      BY <3>4 DEF TimerStep, TimerFires, TimerLocks, TimerAborts, Terminate
    <3>5. CASE ClientStep(s)
      BY <2>5, <3>5 DEF ClientStep, Cancelled, StartCancelTool, StartClose, TerminateCut, Interrupt
    <3>6. CASE ProcessStep(s)
      BY <3>6 DEF ProcessStep, AgentAsks, AgentEnds, Overflow, ReaderEnds, ProcExits
    <3> QED BY <3>1, <3>2, <3>3, <3>4, <3>5, <3>6 DEF StepOf
  <2> QED BY <1>2, <2>1, <2>3, <2>4, <2>5
<1>3. DataOK /\ CallInTools /\ [Next]_vars => CallInTools'
  BY <1>2
<1> QED BY <1>1, <1>3, DataInvariant, PTL DEF Spec

(***************************************************************************)
(* What a close leaves behind                                              *)
(***************************************************************************)
InCancelTurn == {"cancel", "queue", "tell", "reject", "drain", "stale"}

\* The process of a closed session runs on only while its close is at work,
ProcessLeft(s) ==
  s \notin registered => (pc[s]["closer"] \in {"idle", "done"} => proc[s] # "up")

\* and its slot is held only by a call about to give it back.
SlotLeft(s) == s \notin registered => (s \in held => pc[s]["op"] \in InCancelTurn)

\* A process that has been told to end is not started again.
LEMMA ProcessStaysDown ==
  ASSUME DataOK, NEW s \in Sessions, StepOf(s), proc[s] # "up"
  PROVE  proc'[s] # "up"
<1>1. CASE CallStep(s)
  BY <1>1 DEF CallStep, OpStep, UserStep, AnswerStep, ResumeAcquire, Proceed, BeginPrompt, RespondSent, RespondRefused, AcquireGivenUp,
     TurnCompletes, TurnFails, WaitTimesOut, TakeRequest, ElicitAnswered, ElicitDeclined, ElicitFails,
     Published, PublishFails, SwitchEnds,
         AnswerWritten, AnswerLost, ConfirmWritten, ConfirmLost, client
<1>2. CASE \E t \in Tasks : CancelTurnStep(s, t)
  BY <1>2, CancelTurnEffect
<1>3. CASE TimerStep(s) \/ Terminate(s)
  BY <1>3 DEF TimerStep, TimerFires, TimerLocks, TimerAborts, Terminate, client, DataOK, ClientType
<1>4. CASE ClientStep(s)
  BY <1>4 DEF ClientStep, Prompt, Respond, Call, Proceed, BeginPrompt, RespondSent, RespondRefused,
     Switch, Cancelled, StartCancelTool, StartClose, TerminateCut, Interrupt, client, DataOK, ClientType
<1>5. CASE ProcessStep(s)
  BY <1>5 DEF ProcessStep, AgentAsks, AgentEnds, Overflow, ReaderEnds, ProcExits, DataOK, ClientType
<1> QED BY <1>1, <1>2, <1>3, <1>4, <1>5 DEF StepOf

\* Only a closer moves itself, to a next label or, told the process to end, to
\* the end; a session that is unregistered has its closer at work.
LEMMA StepKeepsProcessLeft ==
  ASSUME BridgeOK, NEW s \in Sessions, StepOf(s), ProcessLeft(s)
  PROVE  ProcessLeft(s)'
<1> DEFINE Busier == pc'[s]["closer"] \notin {"idle", "done"}
           Unmoved == pc'[s]["closer"] = pc[s]["closer"] /\ registered' = registered
<1>1. PcType /\ ThenType /\ DataOK /\ "closer" \in Tasks /\ "op" \in Tasks
  BY DEF BridgeOK, BridgeInv, DataOK, Tasks
<1>2. ASSUME Busier \/ Unmoved \/ proc'[s] # "up"
      PROVE  ProcessLeft(s)'
  BY <1>1, <1>2, ProcessStaysDown DEF ProcessLeft
<1>3. ASSUME NEW t \in Tasks \ {"closer"}, NEW l,
             Goto(s, t, l) \/ (t # "timer" /\ (DisarmAndGoto(s, t, l) \/ ArmAndGoto(s, t, l)))
      PROVE  pc'[s]["closer"] = pc[s]["closer"]
  BY <1>1, <1>3, RowEffects DEF Goes, Disarms, Arms, Tasks
<1>4. ASSUME NEW c, Proceed(s, c)
      PROVE  pc'[s]["closer"] = pc[s]["closer"] \/ Busier
  <2>1. CASE BeginPrompt(s)
    <3>1. CASE Fail(s, "prompt", "error")
      BY <1>1, <1>3, <3>1 DEF Fail, Tasks
    <3>2. CASE ~Fail(s, "prompt", "error")
      <4>1. pc'[s]["closer"] = IF pc[s]["closer"] = "drain" THEN "stale" ELSE pc[s]["closer"]
        BY <1>1, <2>1, <3>2 DEF BeginPrompt, PcType
      <4> QED BY <4>1
    <3> QED BY <3>1, <3>2
  <2>2. CASE RespondSent(s)
    BY <1>1, <1>3, <2>2 DEF RespondSent, Tasks
  <2>3. CASE RespondRefused(s)
    BY <1>1, <1>3, <2>3 DEF RespondRefused, Tasks
  <2> QED BY <1>4, <2>1, <2>2, <2>3 DEF Proceed
<1>5. CASE CallStep(s)
  <2>1. registered' = registered
    BY <1>5 DEF CallStep, OpStep, UserStep, AnswerStep, ResumeAcquire, AcquireGivenUp, TurnCompletes, TurnFails, WaitTimesOut, TakeRequest,
         ElicitAnswered, ElicitDeclined, ElicitFails, Published, PublishFails, SwitchEnds,
         AnswerWritten, AnswerLost, ConfirmWritten, ConfirmLost
  <2>2. CASE ResumeAcquire(s)
    BY <1>2, <1>4, <2>1, <2>2 DEF ResumeAcquire
  <2>3. CASE ~ResumeAcquire(s)
    <3>1. \E l : Goto(s, "op", l) \/ DisarmAndGoto(s, "op", l) \/ ArmAndGoto(s, "op", l)
      BY <1>5, <2>3 DEF CallStep, OpStep, UserStep, AnswerStep, AcquireGivenUp, TurnCompletes, TurnFails, WaitTimesOut,
         TakeRequest, ElicitAnswered, ElicitDeclined, ElicitFails, Published, PublishFails, SwitchEnds,
         AnswerWritten, AnswerLost, ConfirmWritten, ConfirmLost,
         Fail, Return, ReleaseTurn
    <3> QED BY <1>1, <1>2, <1>3, <2>1, <3>1 DEF Tasks
  <2> QED BY <2>2, <2>3
<1>6. ASSUME NEW t \in Tasks, Settles(s, t), registered' = registered
      PROVE  ProcessLeft(s)'
  BY <1>1, <1>2, <1>6 DEF Settles, Goes, Disarms, Tasks
<1>7. ASSUME NEW t \in Tasks, CancelTurnStep(s, t)
      PROVE  ProcessLeft(s)'
  <2>1. registered' = registered
    BY <1>7, CancelTurnEffect
  <2>2. ASSUME NEW l \in {"queue", "tell", "reject", "drain"}, Passes(s, t, l)
        PROVE  ProcessLeft(s)'
    <3>1. Goes(s, t, l)
      BY <1>1, <2>2, RowEffects DEF Passes
    <3>2. Busier \/ Unmoved
      BY <1>1, <2>1, <3>1 DEF Goes
    <3> QED BY <1>2, <3>2
  <2>3. CASE AfterCancel(s, t) \/ AfterRaise(s, t)
    BY <1>1, <1>6, <2>1, <2>3, AftermathSettles
  <2> QED BY <1>7, <2>2, <2>3, CancelTurnEffect
<1>8. CASE TimerStep(s)
  <2>1. registered' = registered /\ \E l : Goto(s, "timer", l)
    BY <1>8 DEF TimerStep, TimerFires, TimerLocks, TimerAborts, TimerReleases
  <2> QED BY <1>1, <1>2, <1>3, <2>1 DEF Tasks
<1>9. CASE Terminate(s)
  BY <1>1, <1>2, <1>9 DEF Terminate, DataOK, ClientType
<1>10. CASE ClientStep(s)
  <2>1. ASSUME NEW c, Call(s, c)
        PROVE  ProcessLeft(s)'
    <3>1. registered' = registered
      BY <2>1 DEF Call, Callable
    <3>2. CASE Proceed(s, c)
      BY <1>2, <1>4, <3>1, <3>2
    <3>3. CASE Goto(s, "op", "acquire")
      BY <1>1, <1>2, <1>3, <3>1, <3>3 DEF Tasks
    <3> QED BY <2>1, <3>2, <3>3 DEF Call
  <2>2. CASE Switch(s) \/ Cancelled(s)
    BY <1>1, <1>2, <1>3, <2>2 DEF Switch, Callable, Cancelled, Fail, Tasks
  <2>3. CASE StartCancelTool(s)
    BY <1>1, <1>2, <1>3, <2>3 DEF StartCancelTool, Tasks
  <2>4. CASE StartClose(s)
    <3>1. PICK l \in {"cancel", "terminate"} : ReleaseTurn(s, "closer", l)
      BY <2>4 DEF StartClose
    <3>2. pc'[s]["closer"] = l
      BY <1>1, <3>1, ReleaseTurnEffect DEF Disarms, Tasks
    <3> QED BY <1>2, <3>2
  <2>5. CASE TerminateCut(s)
    BY <1>1, <1>2, <2>5 DEF TerminateCut, DataOK, ClientType
  <2>6. ASSUME NEW t \in Tasks, Interrupt(s, t)
        PROVE  ProcessLeft(s)'
    BY <1>1, <1>6, <2>6, AftermathSettles DEF Interrupt
  <2> QED BY <1>10, <2>1, <2>2, <2>3, <2>4, <2>5, <2>6 DEF ClientStep, Prompt, Respond
<1>11. CASE ProcessStep(s)
  BY <1>2, <1>11 DEF ProcessStep, AgentAsks, AgentEnds, Overflow, ReaderEnds, ProcExits
<1> QED BY <1>5, <1>7, <1>8, <1>9, <1>10, <1>11 DEF StepOf

\* A handler with a slot begins its turn or fails, answers, or arms the timer.
Fails(s) == Goes(s, "op", "cancel") /\ then'[s] \in {"end", "again", "inner"}

Begins(s) ==
  /\ pc'[s]["op"] = IF s \in registered THEN "wait" ELSE "cancel"
  /\ \A t \in Tasks \ {"op"} : pc'[s][t] = IF pc[s][t] = "drain" THEN "stale" ELSE pc[s][t]
  /\ then'[s] = "end"
  /\ pending[s] = "none" /\ pending'[s] = "none" /\ proc'[s] = proc[s]

\* What the handlers do with their slot, read off the row.
LEMMA ProceedEffect ==
  ASSUME PcType, DataOK, NEW s \in Sessions, NEW c, Proceed(s, c)
  PROVE  \/ Fails(s) /\ c = "prompt" /\ UNCHANGED client
         \/ Begins(s) /\ c = "prompt"
         \/ /\ c = "respond" /\ pending'[s] = "none" /\ Disarms(s, "op", "answer")
            /\ UNCHANGED <<then, turn, proc>>
         \/ /\ c = "respond" /\ Arms(s, "op", "idle") /\ UNCHANGED <<then, turn, proc>>
            /\ pending'[s] = pending[s] \/ proc[s] = "dead"
<1>1. "op" \in Tasks
  BY DEF Tasks
<1>2. CASE BeginPrompt(s) /\ c = "prompt"
  <2>1. CASE Fail(s, "prompt", "error") /\ UNCHANGED client
    BY <1>2, <2>1, FailEffect DEF Fails, DataOK
  <2>2. CASE ~(Fail(s, "prompt", "error") /\ UNCHANGED client)
    <3>1. /\ pending[s] = "none" /\ UNCHANGED <<pending, proc>> /\ then' = [then EXCEPT ![s] = "end"]
          /\ pc' = [pc EXCEPT ![s] = [t \in Tasks |->
                 CASE t = "op" -> IF s \in registered THEN "wait" ELSE "cancel"
                   [] t # "op" /\ pc[s][t] = "drain" -> "stale"
                   [] OTHER -> pc[s][t]]]
      BY <1>2, <2>2 DEF BeginPrompt
    <3>2. pc'[s]["op"] = IF s \in registered THEN "wait" ELSE "cancel"
      BY <1>1, <3>1 DEF PcType
    <3>3. ASSUME NEW t \in Tasks \ {"op"}
          PROVE  pc'[s][t] = IF pc[s][t] = "drain" THEN "stale" ELSE pc[s][t]
      BY <3>1 DEF PcType
    <3>4. then'[s] = "end"
      BY <3>1 DEF DataOK, ThenType
    <3> QED BY <1>2, <3>1, <3>2, <3>3, <3>4 DEF Begins
  <2> QED BY <2>1, <2>2
<1>3. CASE RespondSent(s) /\ c = "respond"
  <2>1. pending'[s] = "none" /\ UNCHANGED <<then, turn, proc>> /\ DisarmAndGoto(s, "op", "answer")
    BY <1>3 DEF RespondSent, DataOK, ClientType
  <2> QED BY <1>1, <1>3, <2>1, RowEffects
<1>4. CASE RespondRefused(s) /\ c = "respond"
  BY <1>1, <1>4, RowEffects DEF RespondRefused, Running
<1> QED BY <1>2, <1>3, <1>4 DEF Proceed

\* The slot of a closed session, when no answer can be refused.
LEMMA StepKeepsSlotLeft ==
  ASSUME BridgeOK, CallInTools, "respond" \notin Tools, NEW s \in Sessions, StepOf(s), SlotLeft(s)
  PROVE  SlotLeft(s)'
<1> DEFINE Op == pc[s]["op"]
<1>1. PcType /\ DataOK /\ ThenType /\ "op" \in Tasks
  BY DEF BridgeOK, BridgeInv, DataOK, Tasks
<1>2. ASSUME \/ s \notin held' \/ s \in registered' \/ pc'[s]["op"] \in InCancelTurn
             \/ /\ registered' = registered /\ held' = held
                /\ Op \notin InCancelTurn \/ pc'[s]["op"] = Op
      PROVE  SlotLeft(s)'
  BY <1>2 DEF SlotLeft
<1>3. ASSUME NEW c, NEW error, Fail(s, c, error)
      PROVE  SlotLeft(s)'
  BY <1>1, <1>2, <1>3, FailEffect DEF Goes, InCancelTurn
<1>4. ASSUME NEW t \in Tasks, Settles(s, t), registered' = registered
      PROVE  SlotLeft(s)'
  BY <1>1, <1>2, <1>4 DEF Settles, Goes, Disarms, InCancelTurn, slots, Tasks
<1>5. CASE CallStep(s)
  <2>1. registered' = registered
    BY <1>5 DEF CallStep, OpStep, UserStep, AnswerStep, ResumeAcquire, AcquireGivenUp, TurnCompletes, TurnFails, WaitTimesOut, TakeRequest,
         ElicitAnswered, ElicitDeclined, ElicitFails, Published, PublishFails, SwitchEnds,
         AnswerWritten, AnswerLost, ConfirmWritten, ConfirmLost
  <2>2. CASE ResumeAcquire(s)
    <3>1. Proceed(s, call[s]) /\ call[s] # "respond"
      BY <2>2 DEF ResumeAcquire, CallInTools
    <3>2. Fails(s) \/ Begins(s)
      BY <1>1, <3>1, ProceedEffect
    <3> QED BY <1>2, <2>1, <3>2 DEF Fails, Goes, Begins, InCancelTurn
  <2>3. CASE TurnCompletes(s)
    <3>1. PICK l \in {"idle", "publish"} : ReleaseTurn(s, "op", l)
      BY <2>3 DEF TurnCompletes, Return
    <3>2. s \notin held'
      BY <1>1, <3>1, ReleaseTurnEffect
    <3> QED BY <1>2, <3>2
  <2>4. CASE AcquireGivenUp(s) \/ TurnFails(s) \/ WaitTimesOut(s) \/ ElicitFails(s) \/ PublishFails(s)
    BY <1>3, <2>4 DEF AcquireGivenUp, TurnFails, WaitTimesOut, ElicitFails, PublishFails
  <2>5. CASE TakeRequest(s) \/ ElicitAnswered(s) \/ ElicitDeclined(s) \/ Published(s) \/ SwitchEnds(s)
    <3>1. Op \notin InCancelTurn /\ held' = held
      BY <2>5 DEF TakeRequest, ElicitAnswered, ElicitDeclined, Published, SwitchEnds, At, InCancelTurn, slots
    <3> QED BY <1>2, <2>1, <3>1
  <2>6. CASE AnswerStep(s)
    <3>1. Op \notin InCancelTurn /\ held' = held
      BY <2>6 DEF AnswerStep, AnswerWritten, AnswerLost, ConfirmWritten, ConfirmLost, At, InCancelTurn,
                  slots
    <3> QED BY <1>2, <2>1, <3>1
  <2> QED BY <1>5, <2>2, <2>3, <2>4, <2>5, <2>6 DEF CallStep, OpStep, UserStep
<1>6. ASSUME NEW t \in Tasks, CancelTurnStep(s, t)
      PROVE  SlotLeft(s)'
  <2>1. registered' = registered
    BY <1>6, CancelTurnEffect
  <2>2. ASSUME NEW l \in {"queue", "tell", "reject", "drain"}, Passes(s, t, l)
        PROVE  SlotLeft(s)'
    <3>1. Goes(s, t, l) /\ held' = held
      BY <1>1, <2>2, RowEffects DEF Passes, slots
    <3>2. t = "op" => pc'[s]["op"] \in InCancelTurn
      BY <3>1 DEF Goes, InCancelTurn
    <3>3. t # "op" => pc'[s]["op"] = Op
      BY <1>1, <3>1 DEF Goes
    <3> QED BY <1>2, <2>1, <3>1, <3>2, <3>3
  <2>3. CASE AfterCancel(s, t) \/ AfterRaise(s, t)
    BY <1>1, <1>4, <2>1, <2>3, AftermathSettles
  <2> QED BY <1>6, <2>2, <2>3, CancelTurnEffect
<1>7. CASE TimerStep(s)
  <2>1. registered' = registered /\ \E l : Goto(s, "timer", l)
    BY <1>7 DEF TimerStep, TimerFires, TimerLocks, TimerAborts, TimerReleases
  <2>2. pc'[s]["op"] = Op
    BY <1>1, <2>1, RowEffects DEF Goes, Tasks
  <2>3. held' = held \/ s \notin held'
    BY <1>7 DEF TimerStep, TimerFires, TimerLocks, TimerAborts, TimerReleases, ReleaseSlot, slots
  <2> QED BY <1>2, <2>1, <2>2, <2>3
<1>8. CASE Terminate(s)
  BY <1>1, <1>2, <1>8, RowEffects DEF Terminate, Goes, Tasks, slots
<1>9. CASE ClientStep(s)
  <2>1. CASE Prompt(s) \/ Respond(s) \/ Switch(s)
    <3>1. s \in registered'
      BY <2>1 DEF Prompt, Respond, Switch, Call, Callable
    <3> QED BY <1>2, <3>1
  <2>2. CASE Cancelled(s)
    BY <1>3, <2>2 DEF Cancelled
  <2>3. CASE StartCancelTool(s)
    BY <1>2, <2>3 DEF StartCancelTool
  <2>4. CASE StartClose(s)
    <3>1. PICK l \in {"cancel", "terminate"} : ReleaseTurn(s, "closer", l)
      BY <2>4 DEF StartClose
    <3>2. s \notin held'
      BY <1>1, <3>1, ReleaseTurnEffect DEF Tasks
    <3> QED BY <1>2, <3>2
  <2>5. CASE TerminateCut(s)
    BY <1>1, <1>2, <2>5, RowEffects DEF TerminateCut, Goes, Tasks, slots
  <2>6. ASSUME NEW t \in Tasks, Interrupt(s, t)
        PROVE  SlotLeft(s)'
    BY <1>1, <1>4, <2>6, AftermathSettles DEF Interrupt
  <2> QED BY <1>9, <2>1, <2>2, <2>3, <2>4, <2>5, <2>6 DEF ClientStep
<1>10. CASE ProcessStep(s)
  BY <1>2, <1>10 DEF ProcessStep, AgentAsks, AgentEnds, Overflow, ReaderEnds, ProcExits, slots
<1> QED BY <1>5, <1>6, <1>7, <1>8, <1>9, <1>10 DEF StepOf

\* So it holds always,
LEMMA ProcessLeftInvariant == Spec => [](\A s \in Sessions : ProcessLeft(s))
<1> DEFINE Inv == \A s \in Sessions : ProcessLeft(s)
<1>1. Init => Inv
  BY DEF Init, ProcessLeft
<1>2. ASSUME BridgeOK, Inv, [Next]_vars
      PROVE  Inv'
  <2>1. CASE UNCHANGED vars
    BY <1>2, <2>1 DEF vars, client, ProcessLeft
  <2>2. CASE Next
    <3>1. PICK s \in Sessions : StepOf(s)
      BY <2>2, NextIsStep
    <3>2. Elsewhere(s) /\ ProcessLeft(s)'
      BY <1>2, <3>1, StepElsewhere, StepKeepsProcessLeft DEF BridgeOK, BridgeInv
    <3> QED BY <1>2, <3>2 DEF Elsewhere, ProcessLeft
  <2> QED BY <1>2, <2>1, <2>2
<1>3. BridgeOK /\ Inv /\ [Next]_vars => Inv'
  BY <1>2
<1> HIDE DEF Inv
<1>4. Spec => []Inv
  BY <1>1, <1>3, BridgeAlwaysOK, PTL DEF Spec
<1> QED BY <1>4 DEF Inv

\* and so does the other, where respond is not used.
LEMMA SlotLeftInvariant ==
  ASSUME "respond" \notin Tools
  PROVE  Spec => [](\A s \in Sessions : SlotLeft(s))
<1> DEFINE Inv == \A s \in Sessions : SlotLeft(s)
<1>1. Init => Inv
  BY DEF Init, SlotLeft
<1>2. ASSUME BridgeOK, CallInTools, Inv, [Next]_vars
      PROVE  Inv'
  <2>1. CASE UNCHANGED vars
    BY <1>2, <2>1 DEF vars, slots, SlotLeft
  <2>2. CASE Next
    <3>1. PICK s \in Sessions : StepOf(s)
      BY <2>2, NextIsStep
    <3>2. Elsewhere(s) /\ SlotLeft(s)'
      BY <1>2, <3>1, StepElsewhere, StepKeepsSlotLeft DEF BridgeOK, BridgeInv
    <3> QED BY <1>2, <3>2 DEF Elsewhere, SlotLeft
  <2> QED BY <1>2, <2>1, <2>2
<1>3. BridgeOK /\ CallInTools /\ Inv /\ [Next]_vars => Inv'
  BY <1>2
<1> HIDE DEF Inv
<1>4. Spec => []Inv
  BY <1>1, <1>3, BridgeAlwaysOK, CallsAreInTools, PTL DEF Spec
<1> QED BY <1>4 DEF Inv

\* A closed session whose tasks are done owns no slot, and its process was at
\* least told to end, unless respond was called: a refused answer keeps a slot.
THEOREM ClosedSessionsHoldNothing ==
  ASSUME "respond" \notin Tools
  PROVE  Spec => []ClosedHoldsNothing
<1>1. (\A s \in Sessions : ProcessLeft(s)) /\ (\A s \in Sessions : SlotLeft(s)) => ClosedHoldsNothing
  BY DEF ProcessLeft, SlotLeft, ClosedHoldsNothing, Busy, Tasks, InCancelTurn
<1> QED BY <1>1, ProcessLeftInvariant, SlotLeftInvariant, PTL

(***************************************************************************)
(* Who gives a slot back                                                   *)
(***************************************************************************)
\* Where no timer is ever armed and no answer refused: a session that holds a
\* slot has a call at work that will release it.
Kept(s) == /\ pc[s]["timer"] = "idle"
           /\ pc[s]["op"] # "answer"
           /\ then[s] # "arm"
           /\ s \in held => pc[s]["op"] \in InCancelTurn \cup {"wait", "elicit", "confirm"}

\* No step of a call, a tool or a close drops a slot.
LEMMA StepKeepsKept ==
  ASSUME BridgeOK, CallInTools, Compatible = {}, "respond" \notin Tools,
         NEW s \in Sessions, StepOf(s), Kept(s)
  PROVE  Kept(s)'
<1> DEFINE AtWork == InCancelTurn \cup {"wait", "elicit", "confirm"}
<1>1. /\ PcType /\ DataOK /\ ThenType /\ {"op", "timer", "tool", "closer"} = Tasks
      /\ {"idle", "publish", "elicit", "confirm", "wait", "cancel", "acquire", "switch", "terminate",
          "done", "queue", "tell", "reject", "drain"} \subseteq Labels \ {"answer"}
  BY DEF BridgeOK, BridgeInv, DataOK, Tasks, Labels
<1>2. /\ pc[s]["timer"] = "idle" /\ pc[s]["op"] # "answer" /\ then[s] # "arm"
      /\ s \in held => pc[s]["op"] \in AtWork
  BY DEF Kept
<1>3. ASSUME pc'[s]["timer"] = "idle", pc'[s]["op"] # "answer", then'[s] # "arm",
             \/ s \notin held' \/ pc'[s]["op"] \in AtWork
             \/ held' = held /\ (pc'[s]["op"] = pc[s]["op"] \/ pc[s]["op"] \notin AtWork)
      PROVE  Kept(s)'
  BY <1>2, <1>3 DEF Kept
<1>4. ASSUME NEW c, NEW error, Fail(s, c, error)
      PROVE  Kept(s)'
  BY <1>1, <1>2, <1>3, <1>4, FailEffect DEF Goes, InCancelTurn
<1>5. ASSUME NEW t \in Tasks, Settles(s, t)
      PROVE  Kept(s)'
  BY <1>1, <1>2, <1>3, <1>5 DEF Settles, Goes, Disarms, InCancelTurn, slots
<1>6. ASSUME NEW t \in Tasks \ {"timer"}, NEW l \in Labels \ {"answer"}, Goto(s, t, l),
             then'[s] # "arm", held' = held,
             t = "op" => l \in AtWork \/ pc[s]["op"] \notin AtWork
      PROVE  Kept(s)'
  <2>1. Goes(s, t, l)
    BY <1>1, <1>6, RowEffects
  <2>2. pc'[s]["timer"] = "idle"
    BY <1>1, <1>2, <1>6, <2>1 DEF Goes
  <2>3. pc'[s]["op"] = IF t = "op" THEN l ELSE pc[s]["op"]
    BY <1>1, <2>1 DEF Goes
  <2>4. pc'[s]["op"] # "answer"
    BY <1>2, <1>6, <2>3
  <2> QED BY <1>3, <1>6, <2>2, <2>3, <2>4
<1>7. ASSUME NEW t \in Tasks \ {"timer"}, NEW l \in Labels \ {"answer"}, ReleaseTurn(s, t, l),
             then'[s] # "arm"
      PROVE  Kept(s)'
  BY <1>1, <1>2, <1>3, <1>7, ReleaseTurnEffect DEF Disarms
<1>8. ASSUME NEW c, Proceed(s, c), c # "respond"
      PROVE  Kept(s)'
  <2>1. Fails(s) \/ Begins(s)
    BY <1>1, <1>8, ProceedEffect
  <2> QED BY <1>1, <1>2, <1>3, <2>1 DEF Fails, Begins, Goes, InCancelTurn
<1>9. CASE CallStep(s)
  <2>1. CASE ResumeAcquire(s)
    BY <1>8, <2>1 DEF ResumeAcquire, CallInTools
  <2>2. CASE TurnCompletes(s)
    <3>1. PICK l \in {"idle", "publish"} : ReleaseTurn(s, "op", l) /\ then'[s] = "end"
      BY <1>1, <2>2 DEF TurnCompletes, Return, ThenType
    <3> QED BY <1>1, <1>7, <3>1
  <2>3. CASE AcquireGivenUp(s) \/ TurnFails(s) \/ WaitTimesOut(s) \/ ElicitFails(s) \/ PublishFails(s)
    BY <1>4, <2>3 DEF AcquireGivenUp, TurnFails, WaitTimesOut, ElicitFails, PublishFails
  <2>4. CASE TakeRequest(s)
    <3>1. Fail(s, call[s], "error") \/ (Goto(s, "op", "elicit") /\ UNCHANGED <<then, slots>>)
      BY <2>4 DEF TakeRequest
    <3> QED BY <1>1, <1>2, <1>4, <1>6, <3>1 DEF slots
  <2>5. CASE ElicitAnswered(s)
    <3>1. Fail(s, call[s], "error") \/ (Goto(s, "op", "confirm") /\ UNCHANGED <<then, slots>>)
      BY <2>5 DEF ElicitAnswered
    <3> QED BY <1>1, <1>2, <1>4, <1>6, <3>1 DEF slots
  <2>6. CASE ElicitDeclined(s)
    <3>1. then'[s] # "arm"
      BY <1>1, <2>6 DEF ElicitDeclined, ThenType
    <3> QED BY <1>1, <1>6, <2>6, <3>1 DEF ElicitDeclined, slots, InCancelTurn
  <2>7. CASE Published(s) \/ SwitchEnds(s)
    <3>1. pc[s]["op"] \notin AtWork /\ Goto(s, "op", "idle") /\ UNCHANGED slots
      BY <1>2, <2>7 DEF Published, SwitchEnds, At, InCancelTurn
    <3>2. then'[s] # "arm"
      BY <1>1, <1>2, <2>7 DEF Published, SwitchEnds, ThenType
    <3> QED BY <1>1, <1>6, <3>1, <3>2 DEF slots
  <2>8. CASE AnswerStep(s)
    <3>1. Fail(s, call[s], "error") \/ (Goto(s, "op", "wait") /\ UNCHANGED <<then, slots>>)
      BY <1>2, <2>8 DEF AnswerStep, AnswerWritten, AnswerLost, ConfirmWritten, ConfirmLost, At
    <3> QED BY <1>1, <1>2, <1>4, <1>6, <3>1 DEF slots
  <2> QED BY <1>9, <2>1, <2>2, <2>3, <2>4, <2>5, <2>6, <2>7, <2>8 DEF CallStep, OpStep, UserStep
<1>10. ASSUME NEW t \in Tasks, CancelTurnStep(s, t)
       PROVE  Kept(s)'
  <2>1. t # "timer"
    BY <1>2, <1>10, CancelTurnEffect
  <2>2. ASSUME NEW l \in {"queue", "tell", "reject", "drain"}, Passes(s, t, l)
        PROVE  Kept(s)'
    <3>1. Goto(s, t, l) /\ then'[s] # "arm" /\ held' = held /\ l \in AtWork
      BY <1>2, <2>2 DEF Passes, slots, InCancelTurn
    <3> QED BY <1>1, <1>6, <2>1, <3>1
  <2>3. CASE AfterCancel(s, t) \/ AfterRaise(s, t)
    BY <1>1, <1>5, <2>3, AftermathSettles
  <2> QED BY <1>10, <2>2, <2>3, CancelTurnEffect
<1>11. ~TimerStep(s)
  BY <1>2 DEF TimerStep, TimerFires, TimerLocks, TimerAborts, At
<1>12. CASE Terminate(s)
  BY <1>1, <1>2, <1>6, <1>12 DEF Terminate, slots
<1>13. CASE ClientStep(s)
  <2>1. CASE Respond(s)
    BY <2>1 DEF Respond, Call, Callable
  <2>2. CASE Prompt(s)
    <3>1. CASE Proceed(s, "prompt")
      BY <1>8, <3>1
    <3>2. CASE JoinQueue(s) /\ Goto(s, "op", "acquire") /\ UNCHANGED then
      <4>1. pc[s]["op"] \notin AtWork
        BY <2>2 DEF Prompt, Call, Callable, Locked, InCancelTurn
      <4> QED BY <1>1, <1>2, <1>6, <3>2, <4>1 DEF JoinQueue
    <3> QED BY <2>2, <3>1, <3>2 DEF Prompt, Call
  <2>3. CASE Switch(s)
    <3>1. pc[s]["op"] \notin AtWork
      BY <2>3 DEF Switch, Callable, Locked, InCancelTurn
    <3> QED BY <1>1, <1>2, <1>6, <2>3, <3>1 DEF Switch, slots
  <2>4. CASE Cancelled(s)
    BY <1>4, <2>4 DEF Cancelled
  <2>5. CASE StartCancelTool(s)
    <3>1. Disarms(s, "tool", "cancel") /\ UNCHANGED <<then, slots>>
      BY <1>1, <2>5, RowEffects DEF StartCancelTool
    <3> QED BY <1>1, <1>2, <1>3, <3>1 DEF Disarms, slots
  <2>6. CASE StartClose(s)
    BY <1>1, <1>2, <1>7, <2>6 DEF StartClose
  <2>7. CASE TerminateCut(s)
    BY <1>1, <1>2, <1>6, <2>7 DEF TerminateCut, slots
  <2>8. ASSUME NEW t \in Tasks, Interrupt(s, t)
        PROVE  Kept(s)'
    BY <1>1, <1>5, <2>8, AftermathSettles DEF Interrupt
  <2> QED BY <1>13, <2>1, <2>2, <2>3, <2>4, <2>5, <2>6, <2>7, <2>8 DEF ClientStep
<1>14. CASE ProcessStep(s)
  <2>1. UNCHANGED <<pc, then, slots>>
    BY <1>14 DEF ProcessStep, AgentAsks, AgentEnds, Overflow, ReaderEnds, ProcExits
  <2> QED BY <1>2, <1>3, <2>1 DEF slots
<1> QED BY <1>9, <1>10, <1>11, <1>12, <1>13, <1>14 DEF StepOf

\* The invariant holds in every reachable state.
LEMMA KeptInvariant ==
  ASSUME Compatible = {}, "respond" \notin Tools
  PROVE  Spec => [](\A s \in Sessions : Kept(s))
<1> DEFINE Inv == \A s \in Sessions : Kept(s)
<1>1. Init => Inv
  BY DEF Init, SlotInit, Kept, Tasks
<1>2. ASSUME BridgeOK, CallInTools, Inv, [Next]_vars
      PROVE  Inv'
  <2>1. CASE UNCHANGED vars
    BY <1>2, <2>1 DEF vars, slots, Kept
  <2>2. CASE Next
    <3>1. PICK s \in Sessions : StepOf(s)
      BY <2>2, NextIsStep
    <3>2. Elsewhere(s) /\ Kept(s)'
      BY <1>2, <3>1, StepElsewhere, StepKeepsKept DEF BridgeOK, BridgeInv
    <3> QED BY <1>2, <3>2 DEF Elsewhere, Kept
  <2> QED BY <1>2, <2>1, <2>2
<1>3. BridgeOK /\ CallInTools /\ Inv /\ [Next]_vars => Inv'
  BY <1>2
<1> HIDE DEF Inv
<1>4. Spec => []Inv
  BY <1>1, <1>3, BridgeAlwaysOK, CallsAreInTools, PTL DEF Spec
<1> QED BY <1>4 DEF Inv

\* A slot is held only while some task of the session will give it back,
\* whatever prompts, switches, cancels and closes meet: where every session
\* elicits and respond is not called.  The compatible timer and a refused
\* answer are the two ways to lose a slot.
THEOREM HeldSlotsAreKept ==
  ASSUME Compatible = {}, "respond" \notin Tools
  PROVE  Spec => []HeldSlotHasKeeper
<1>1. BridgeOK /\ (\A s \in Sessions : Kept(s)) => HeldSlotHasKeeper
  <2> SUFFICES ASSUME BridgeOK, \A s \in Sessions : Kept(s), NEW s \in held
               PROVE  \E t \in Tasks : Busy(s, t)
    BY DEF HeldSlotHasKeeper
  <2>1. s \in Sessions
    BY DEF BridgeOK, BridgeInv, SlotInv, SlotTypes
  <2>2. Busy(s, "op") /\ "op" \in Tasks
    BY <2>1 DEF Kept, Busy, InCancelTurn, Tasks
  <2> QED BY <2>2
<1> QED BY <1>1, BridgeAlwaysOK, KeptInvariant, PTL

(***************************************************************************)
(* Who answers a permission, and what covers a turn                        *)
(***************************************************************************)
\* An open session whose client does not use the cancel tool, and cancels no
\* clean-up: no cancel_turn meets another, a call that works on the turn has its
\* slot, and so has a pending permission, which a call or the timer has in hand.
\* Only where reject_option raised does a turn go on without its slot.
Covered(s) ==
  s \in registered =>
    /\ pc[s]["tool"] = "idle" /\ pc[s]["closer"] = "idle"
    /\ pc[s]["op"] \notin {"queue", "stale"}
    /\ pc[s]["timer"] \notin {"quit", "abort", "stale"}
    /\ pc[s]["op"] \in {"wait", "elicit", "answer", "confirm"} => s \in held
    /\ pending[s] = "plain" /\ proc[s] = "up" =>
         /\ s \in held
         /\ Busy(s, "op") \/ Busy(s, "timer")
         /\ pc[s]["op"] # "switch"
         /\ pc[s]["op"] = "publish" => then[s] = "arm"
    /\ TurnActive(s) /\ proc[s] = "up" => s \in held \/ pending[s] = "odd"

\* A session is not registered twice.
LEMMA RegisteredShrinks ==
  ASSUME NEW s \in Sessions, StepOf(s), s \in registered'
  PROVE  s \in registered
<1>1. CASE CallStep(s)
  BY <1>1 DEF CallStep, OpStep, UserStep, AnswerStep, ResumeAcquire, AcquireGivenUp, TurnCompletes, TurnFails, WaitTimesOut, TakeRequest,
     ElicitAnswered, ElicitDeclined, ElicitFails, Published, PublishFails, SwitchEnds,
         AnswerWritten, AnswerLost, ConfirmWritten, ConfirmLost
<1>2. CASE \E t \in Tasks : CancelTurnStep(s, t)
  BY <1>2, CancelTurnEffect
<1>3. CASE TimerStep(s) \/ Terminate(s)
  BY <1>3 DEF TimerStep, TimerFires, TimerLocks, TimerAborts, Terminate
<1>4. CASE ClientStep(s)
  BY <1>4 DEF ClientStep, Prompt, Respond, Call, Callable, Switch, Cancelled, StartCancelTool,
     StartClose, TerminateCut, Interrupt
<1>5. CASE ProcessStep(s)
  BY <1>5 DEF ProcessStep, AgentAsks, AgentEnds, Overflow, ReaderEnds, ProcExits
<1> QED BY <1>1, <1>2, <1>3, <1>4, <1>5 DEF StepOf

\* What the invariant says of an open session, in the hypotheses of a lemma.
Open(s) == s \in registered /\ s \in registered' /\ Covered(s)

\* A call that runs on with its slot.
LEMMA ProceedKeepsCovered ==
  ASSUME BridgeOK, NEW s \in Sessions, NEW c, Proceed(s, c), s \in held', Open(s),
         pc[s]["timer"] \notin HasSessionLock
  PROVE  Covered(s)'
<1>1. PcType /\ DataOK /\ {"op", "timer", "tool", "closer"} = Tasks
  BY DEF BridgeOK, BridgeInv, Tasks
<1>2. /\ pc[s]["tool"] = "idle" /\ pc[s]["closer"] = "idle"
      /\ pc[s]["timer"] \notin {"quit", "abort", "stale", "drain"} /\ s \in registered
  BY DEF Open, Covered, HasSessionLock
<1>3. CASE Fails(s)
  <2>1. /\ pc'[s]["op"] = "cancel" /\ pc'[s]["tool"] = "idle" /\ pc'[s]["closer"] = "idle"
        /\ pc'[s]["timer"] \notin {"quit", "abort", "stale"}
    BY <1>1, <1>2, <1>3 DEF Fails, Goes
  <2> QED BY <2>1 DEF Covered, Busy
<1>4. CASE Begins(s)
  <2>1. /\ pc'[s]["op"] = "wait" /\ pc'[s]["tool"] = "idle" /\ pc'[s]["closer"] = "idle"
        /\ pc'[s]["timer"] \notin {"quit", "abort", "stale"}
    BY <1>1, <1>2, <1>4 DEF Begins
  <2> QED BY <1>4, <2>1 DEF Covered, Busy, Begins
<1>5. CASE Disarms(s, "op", "answer") /\ pending'[s] = "none"
  <2>1. /\ pc'[s]["op"] = "answer" /\ pc'[s]["tool"] = "idle" /\ pc'[s]["closer"] = "idle"
        /\ pc'[s]["timer"] \notin {"quit", "abort"}
    BY <1>1, <1>2, <1>5 DEF Disarms
  <2>2. pc'[s]["timer"] # "stale"
    BY <1>2, <1>5 DEF Disarms
  <2> QED BY <1>5, <2>1, <2>2 DEF Covered, Busy
<1>6. CASE Arms(s, "op", "idle")
  <2>1. /\ pc'[s]["op"] = "idle" /\ pc'[s]["tool"] = "idle" /\ pc'[s]["closer"] = "idle"
        /\ pc'[s]["timer"] = "sleep"
    BY <1>1, <1>2, <1>6 DEF Arms
  <2> QED BY <2>1 DEF Covered, Busy
<1> QED BY <1>1, <1>3, <1>4, <1>5, <1>6, ProceedEffect

\* The aftermath of a cancel_turn that left no permission to keep.
LEMMA SettlingKeepsCovered ==
  ASSUME BridgeOK, NEW s \in Sessions, NEW t \in {"op", "timer"}, Settles(s, t), Open(s),
         t = "timer" <=> pc[s]["op"] = "idle",
         proc'[s] = "up" => pending'[s] # "plain" /\ (turn'[s] # "active" \/ pending'[s] = "odd")
  PROVE  Covered(s)'
<1>1. PcType /\ {"op", "timer", "tool", "closer"} = Tasks
  BY DEF BridgeOK, BridgeInv, Tasks
<1>2. /\ pc[s]["tool"] = "idle" /\ pc[s]["closer"] = "idle" /\ pc[s]["op"] \notin {"queue", "stale"}
      /\ pc[s]["timer"] \notin {"quit", "abort", "stale"}
  BY DEF Open, Covered
<1>3. pc[s]["timer"] \in HasSessionLock => pc[s]["op"] = "idle"
  BY DEF BridgeOK, CancelInv, OneCanceller
<1>4. CASE t = "op"
  <2>1. /\ pc'[s]["op"] \in {"idle", "cancel", "publish"}
        /\ pc'[s]["tool"] = "idle" /\ pc'[s]["closer"] = "idle"
        /\ pc'[s]["timer"] \notin {"quit", "abort", "stale"}
    BY <1>1, <1>2, <1>3, <1>4 DEF Settles, Goes, Disarms
  <2> QED BY <2>1 DEF Covered, Busy, TurnActive
<1>5. CASE t = "timer"
  <2>1. /\ pc'[s]["op"] = pc[s]["op"] /\ pc'[s]["tool"] = "idle" /\ pc'[s]["closer"] = "idle"
        /\ pc'[s]["timer"] = "idle"
    BY <1>1, <1>2, <1>5 DEF Settles, Goes
  <2> QED BY <1>5, <2>1 DEF Covered, Busy, TurnActive
<1> QED BY <1>4, <1>5

\* The steps of a suspended call,
LEMMA CallStepKeepsCovered ==
  ASSUME BridgeOK, NEW s \in Sessions, CallStep(s), Open(s)
  PROVE  Covered(s)'
<1>1. PcType /\ DataOK /\ ThenType /\ {"op", "timer", "tool", "closer"} = Tasks
  BY DEF BridgeOK, BridgeInv, DataOK, Tasks
<1>2. /\ pc[s]["tool"] = "idle" /\ pc[s]["closer"] = "idle"
      /\ pc[s]["timer"] \notin {"quit", "abort", "stale"}
      /\ pc[s]["op"] \in {"wait", "elicit", "answer", "confirm"} => s \in held
      /\ TurnActive(s) /\ proc[s] = "up" => s \in held \/ pending[s] = "odd"
  BY DEF Open, Covered
<1>3. pc[s]["op"] # "idle" /\ pc[s]["timer"] \notin HasSessionLock
  <2>1. pc[s]["op"] # "idle"
    BY DEF CallStep, OpStep, UserStep, AnswerStep, ResumeAcquire, AcquireGivenUp, TurnCompletes, TurnFails, WaitTimesOut, TakeRequest,
         ElicitAnswered, ElicitDeclined, ElicitFails, Published, PublishFails, SwitchEnds,
         AnswerWritten, AnswerLost, ConfirmWritten, ConfirmLost, At
  <2> QED BY <2>1 DEF BridgeOK, CancelInv, OneCanceller
<1>4. ASSUME NEW l, Goto(s, "op", l) \/ DisarmAndGoto(s, "op", l)
      PROVE  /\ pc'[s]["op"] = l /\ pc'[s]["tool"] = "idle" /\ pc'[s]["closer"] = "idle"
             /\ pc'[s]["timer"] \notin {"quit", "abort", "stale"}
  BY <1>1, <1>2, <1>3, <1>4, RowEffects DEF Goes, Disarms
<1>5. ASSUME ArmAndGoto(s, "op", "idle")
      PROVE  /\ pc'[s]["op"] = "idle" /\ pc'[s]["tool"] = "idle" /\ pc'[s]["closer"] = "idle"
             /\ pc'[s]["timer"] = "sleep"
  BY <1>1, <1>2, <1>5, RowEffects DEF Arms
<1>6. ASSUME NEW c, NEW error, Fail(s, c, error), held' = held, UNCHANGED client
      PROVE  Covered(s)'
  <2>1. Goto(s, "op", "cancel")
    BY <1>6 DEF Fail
  <2>2. /\ pc'[s]["op"] = "cancel" /\ pc'[s]["tool"] = "idle" /\ pc'[s]["closer"] = "idle"
        /\ pc'[s]["timer"] \notin {"quit", "abort", "stale"}
    BY <1>4, <2>1
  <2> QED BY <1>6, <2>2 DEF Covered, Busy, Open, TurnActive, client
<1>7. CASE ResumeAcquire(s)
  <2>1. Proceed(s, call[s]) /\ s \in held'
    BY <1>7 DEF ResumeAcquire, Resume
  <2> QED BY <1>3, <2>1, ProceedKeepsCovered
<1>8. CASE AcquireGivenUp(s)
  <2>1. held' = held
    BY <1>8 DEF AcquireGivenUp, Withdraw, WithdrawQueued, WithdrawGranted
  <2> QED BY <1>6, <1>8, <2>1 DEF AcquireGivenUp
<1>9. CASE TurnFails(s) \/ WaitTimesOut(s) \/ ElicitFails(s) \/ PublishFails(s)
  BY <1>6, <1>9 DEF TurnFails, WaitTimesOut, ElicitFails, PublishFails, slots
<1>10. CASE TurnCompletes(s)
  <2>1. pending'[s] = "none" /\ turn'[s] = "none"
    BY <1>1, <1>10 DEF TurnCompletes, DataOK, ClientType, TurnType
  <2>2. PICK l \in {"idle", "publish"} : DisarmAndGoto(s, "op", l)
    BY <1>10 DEF TurnCompletes, Return, ReleaseTurn
  <2>3. /\ pc'[s]["op"] \in {"idle", "publish"} /\ pc'[s]["tool"] = "idle" /\ pc'[s]["closer"] = "idle"
        /\ pc'[s]["timer"] \notin {"quit", "abort", "stale"}
    BY <1>4, <2>2
  <2> QED BY <2>1, <2>3 DEF Covered, Busy, TurnActive
<1>11. CASE TakeRequest(s)
  <2>1. s \in held' /\ UNCHANGED <<turn, proc>>
    BY <1>2, <1>11 DEF TakeRequest, At, slots
  <2>2. CASE ArmAndGoto(s, "op", "idle")
    BY <1>5, <2>1, <2>2 DEF Covered, Busy
  <2>3. CASE Goto(s, "op", "publish") /\ then'[s] = "arm"
    BY <1>4, <2>1, <2>3 DEF Covered, Busy
  <2>4. CASE Goto(s, "op", "elicit") \/ Goto(s, "op", "cancel")
    <3>1. PICK l \in {"elicit", "cancel"} : Goto(s, "op", l)
      BY <2>4
    <3>2. /\ pc'[s]["op"] = l /\ pc'[s]["tool"] = "idle" /\ pc'[s]["closer"] = "idle"
          /\ pc'[s]["timer"] \notin {"quit", "abort", "stale"}
      BY <1>4, <3>1
    <3> QED BY <2>1, <3>2 DEF Covered, Busy
  <2> QED BY <1>1, <1>11, <2>2, <2>3, <2>4 DEF TakeRequest, Fail, ThenType
<1>12. CASE ElicitAnswered(s)
  <2>1. pending'[s] = "none" /\ s \in held'
    BY <1>1, <1>2, <1>12 DEF ElicitAnswered, At, slots, DataOK, ClientType
  <2>2. PICK l \in {"confirm", "cancel"} : Goto(s, "op", l)
    BY <1>12 DEF ElicitAnswered, Fail
  <2>3. /\ pc'[s]["op"] = l /\ pc'[s]["tool"] = "idle" /\ pc'[s]["closer"] = "idle"
        /\ pc'[s]["timer"] \notin {"quit", "abort", "stale"}
    BY <1>4, <2>2
  <2> QED BY <2>1, <2>3 DEF Covered, Busy
<1>13. CASE ElicitDeclined(s)
  <2>1. s \in held' /\ UNCHANGED client /\ Goto(s, "op", "cancel")
    BY <1>2, <1>13 DEF ElicitDeclined, At, slots
  <2>2. /\ pc'[s]["op"] = "cancel" /\ pc'[s]["tool"] = "idle" /\ pc'[s]["closer"] = "idle"
        /\ pc'[s]["timer"] \notin {"quit", "abort", "stale"}
    BY <1>4, <2>1
  <2> QED BY <2>1, <2>2 DEF Covered, Busy
<1>14. CASE Published(s) \/ SwitchEnds(s)
  <2>1. held' = held /\ UNCHANGED client
    BY <1>14 DEF Published, SwitchEnds, slots
  <2>2. CASE ArmAndGoto(s, "op", "idle")
    BY <1>5, <2>1, <2>2 DEF Covered, Busy, Open, TurnActive, client
  <2>3. CASE ~ArmAndGoto(s, "op", "idle")
    <3>1. Goto(s, "op", "idle") /\ (pc[s]["op"] = "switch" \/ (pc[s]["op"] = "publish" /\ then[s] # "arm"))
      BY <1>14, <2>3 DEF Published, SwitchEnds, At
    <3>2. ~(pending[s] = "plain" /\ proc[s] = "up")
      BY <3>1 DEF Open, Covered
    <3>3. /\ pc'[s]["op"] = "idle" /\ pc'[s]["tool"] = "idle" /\ pc'[s]["closer"] = "idle"
          /\ pc'[s]["timer"] \notin {"quit", "abort", "stale"}
      BY <1>4, <3>1
    <3> QED BY <1>2, <2>1, <3>2, <3>3 DEF Covered, Busy, TurnActive, client
  <2> QED BY <2>2, <2>3
<1>15. CASE AnswerStep(s)
  <2>1. s \in held' /\ UNCHANGED client
    BY <1>2, <1>15 DEF AnswerStep, AnswerWritten, AnswerLost, ConfirmWritten, ConfirmLost, At, slots
  <2>2. CASE Goto(s, "op", "wait") \/ Goto(s, "op", "cancel")
    <3>1. PICK l \in {"wait", "cancel"} : Goto(s, "op", l)
      BY <2>2
    <3>2. /\ pc'[s]["op"] = l /\ pc'[s]["tool"] = "idle" /\ pc'[s]["closer"] = "idle"
          /\ pc'[s]["timer"] \notin {"quit", "abort", "stale"}
      BY <1>4, <3>1
    <3> QED BY <2>1, <3>2 DEF Covered, Busy
  <2>3. CASE ArmAndGoto(s, "op", "idle")
    BY <1>5, <2>1, <2>3 DEF Covered, Busy
  <2> QED BY <1>15, <2>2, <2>3
          DEF AnswerStep, AnswerWritten, AnswerLost, ConfirmWritten, ConfirmLost, Fail
<1> QED BY <1>7, <1>8, <1>9, <1>10, <1>11, <1>12, <1>13, <1>14, <1>15
        DEF CallStep, OpStep, UserStep

\* the steps of cancel_turn, which never has to wait for its lock,
LEMMA CancelTurnKeepsCovered ==
  ASSUME BridgeOK, NEW s \in Sessions, NEW t \in Tasks, CancelTurnStep(s, t), Open(s)
  PROVE  Covered(s)'
<1>1. PcType /\ DataOK /\ ThenType /\ {"op", "timer", "tool", "closer"} = Tasks
  BY DEF BridgeOK, BridgeInv, DataOK, Tasks
<1>2. /\ pc[s]["tool"] = "idle" /\ pc[s]["closer"] = "idle" /\ pc[s]["op"] \notin {"queue", "stale"}
      /\ pc[s]["timer"] \notin {"quit", "abort", "stale"}
  BY DEF Open, Covered
<1>3. pc[s][t] \in {"cancel", "queue", "tell", "reject", "drain", "stale"}
  BY CancelTurnEffect
<1>4. t \in {"op", "timer"} /\ pc[s][t] # "stale"
  BY <1>1, <1>2, <1>3
<1>5. pc[s]["timer"] \in HasSessionLock => pc[s]["op"] = "idle"
  BY DEF BridgeOK, CancelInv, OneCanceller
<1>6. ASSUME AfterCancel(s, t) \/ AfterRaise(s, t),
             proc'[s] = "up" => pending'[s] # "plain" /\ (turn'[s] # "active" \/ pending'[s] = "odd")
      PROVE  Covered(s)'
  <2>1. t = "timer" <=> pc[s]["op"] = "idle"
    BY <1>3, <1>4, <1>5 DEF HasSessionLock
  <2>2. Settles(s, t)
    BY <1>1, <1>6, AftermathSettles
  <2> QED BY <1>4, <1>6, <2>1, <2>2, SettlingKeepsCovered
<1>7. ~QueueForCancel(s, t)
  <2> SUFFICES ASSUME pc[s][t] = "cancel"
               PROVE  \A u \in Tasks : pc[s][u] \notin HasCancelLock /\ pc[s][u] # "queue"
    BY DEF QueueForCancel, CancelLocked, CancelQueued
  <2>1. CASE t = "op"
    BY <1>1, <1>2, <1>5, <2>1 DEF HasCancelLock, HasSessionLock
  <2>2. CASE t = "timer"
    BY <1>1, <1>2, <1>5, <2>2 DEF HasCancelLock, HasSessionLock
  <2> QED BY <1>4, <2>1, <2>2
<1>8. ASSUME NEW l \in {"tell", "reject", "drain"}, Goto(s, t, l), UNCHANGED <<slots, then, turn, proc>>,
             pending'[s] = pending[s] \/ (pending'[s] = "none" /\ pending[s] # "odd")
      PROVE  Covered(s)'
  <2>1. pc'[s][t] = l /\ \A u \in Tasks \ {t} : pc'[s][u] = pc[s][u]
    BY <1>8, <1>1, RowEffects DEF Goes
  <2>2. /\ pc'[s]["tool"] = "idle" /\ pc'[s]["closer"] = "idle"
        /\ pc'[s]["op"] \notin {"queue", "stale"} /\ pc'[s]["timer"] \notin {"quit", "abort", "stale"}
        /\ pc'[s]["op"] = pc[s]["op"] \/ pc'[s]["op"] \in {"tell", "reject", "drain"}
    BY <1>1, <1>2, <1>4, <2>1
  <2>3. pc'[s][t] \notin {"idle", "done"}
    BY <2>1
  <2> QED BY <1>4, <1>8, <2>2, <2>3 DEF Covered, Busy, Open, TurnActive, slots
<1>9. ASSUME Drain(s, t, "none") \/ Drain(s, t, pending[s]), pending[s] # "odd" \/ Drain(s, t, pending[s]),
             UNCHANGED <<turn, proc>>
      PROVE  Covered(s)'
  <2>1. CASE turn[s] = "none"
    <3>1. pending'[s] = "none" /\ AfterCancel(s, t)
      BY <1>1, <1>9, <2>1 DEF Drain, DataOK, ClientType
    <3> QED BY <1>6, <1>9, <2>1, <3>1
  <2>2. CASE turn[s] # "none"
    <3>1. /\ Goto(s, t, "drain") /\ UNCHANGED <<slots, then>>
          /\ pending'[s] = pending[s] \/ (pending'[s] = "none" /\ pending[s] # "odd")
      BY <1>1, <1>9, <2>2 DEF Drain, DataOK, ClientType
    <3> QED BY <1>8, <1>9, <3>1
  <2> QED BY <2>1, <2>2
<1>10. ASSUME Settle(s, t), UNCHANGED <<turn, proc>>
       PROVE  Covered(s)'
  <2>1. CASE pending[s] # "odd" /\ Drain(s, t, "none")
    BY <1>9, <1>10, <2>1
  <2>2. CASE /\ pending[s] = "plain" /\ pending' = [pending EXCEPT ![s] = "none"]
             /\ Goto(s, t, "reject") /\ UNCHANGED <<slots, then>>
    <3>1. pending'[s] = "none"
      BY <1>1, <2>2 DEF DataOK, ClientType
    <3> QED BY <1>8, <1>10, <2>2, <3>1
  <2>3. CASE ~Running(s) /\ AfterRaise(s, t)
    BY <1>6, <1>10, <2>3 DEF Running
  <2>4. CASE pending[s] = "odd" /\ AfterRaise(s, t) /\ UNCHANGED pending
    BY <1>6, <2>4
  <2> QED BY <1>10, <2>1, <2>2, <2>3, <2>4 DEF Settle
<1>11. CASE EnterCancel(s, t)
  BY <1>8, <1>10, <1>11 DEF EnterCancel
<1>12. CASE Told(s, t) \/ Rejected(s, t)
  BY <1>9, <1>10, <1>12 DEF Told, Rejected
<1>13. CASE CancelUnsent(s, t)
  BY <1>6, <1>13 DEF CancelUnsent, client
<1>14. CASE LeaveCancel(s, t)
  <2>1. pending'[s] = "none" /\ turn'[s] = "none" /\ AfterCancel(s, t)
    BY <1>1, <1>4, <1>14 DEF LeaveCancel, At, DataOK, ClientType, TurnType
  <2> QED BY <1>6, <2>1
<1> QED BY <1>7, <1>11, <1>12, <1>13, <1>14 DEF CancelTurnStep, CancelStep

\* and those of the timer, the client and the process.
LEMMA OtherStepsKeepCovered ==
  ASSUME BridgeOK, CallInTools, ~Interrupts, "cancel" \notin Tools, NEW s \in Sessions, Open(s),
         TimerStep(s) \/ Terminate(s) \/ ClientStep(s) \/ ProcessStep(s)
  PROVE  Covered(s)'
<1>1. PcType /\ DataOK /\ ThenType /\ {"op", "timer", "tool", "closer"} = Tasks
  BY DEF BridgeOK, BridgeInv, DataOK, Tasks
<1>2. /\ pc[s]["tool"] = "idle" /\ pc[s]["closer"] = "idle" /\ pc[s]["op"] \notin {"queue", "stale"}
      /\ pc[s]["timer"] \notin {"quit", "abort", "stale"} /\ s \in registered'
  BY DEF Open, Covered
<1>3. CASE TimerStep(s)
  <2>1. UNCHANGED <<then, client, slots>> /\ pc[s]["timer"] \in {"sleep", "lock"}
    BY <1>2, <1>3 DEF TimerStep, TimerFires, TimerLocks, TimerAborts, At
  <2>2. \/ Goto(s, "timer", "lock") \/ Goto(s, "timer", "cancel")
        \/ Goto(s, "timer", "idle") /\ ~(pending[s] # "none" /\ s \in held)
    BY <1>3, <2>1 DEF TimerStep, TimerFires, TimerLocks, TimerAborts, At
  <2>3. PICK l \in {"lock", "cancel", "idle"} :
          Goto(s, "timer", l) /\ (l = "idle" => ~(pending[s] # "none" /\ s \in held))
    BY <2>2
  <2>4. /\ pc'[s]["timer"] = l /\ pc'[s]["op"] = pc[s]["op"]
        /\ pc'[s]["tool"] = "idle" /\ pc'[s]["closer"] = "idle"
    BY <1>1, <1>2, <2>3, RowEffects DEF Goes
  <2> QED BY <2>1, <2>3, <2>4 DEF Covered, Busy, Open, TurnActive, client, slots
<1>4. ~Terminate(s) /\ ~TerminateCut(s) /\ ~StartCancelTool(s)
  BY <1>2 DEF Terminate, TerminateCut, At, StartCancelTool
<1>5. ASSUME NEW c, Call(s, c)
      PROVE  Covered(s)'
  <2>1. pc[s]["timer"] \notin HasSessionLock /\ pc[s]["op"] = "idle"
    BY <1>5 DEF Call, Callable, Locked, TimerLocked, HasSessionLock
  <2>2. CASE Proceed(s, c) /\ s \in held'
    BY <2>1, <2>2, ProceedKeepsCovered
  <2>3. CASE JoinQueue(s) /\ Goto(s, "op", "acquire") /\ UNCHANGED <<then, client>>
    <3>1. /\ pc'[s]["op"] = "acquire" /\ pc'[s]["timer"] = pc[s]["timer"]
          /\ pc'[s]["tool"] = "idle" /\ pc'[s]["closer"] = "idle"
      BY <1>1, <1>2, <2>3, RowEffects DEF Goes
    <3> QED BY <1>2, <2>3, <3>1 DEF Covered, Busy, Open, TurnActive, client, JoinQueue
  <2> QED BY <1>5, <2>2, <2>3 DEF Call, TakeSlot, slots
<1>6. CASE Switch(s)
  <2>1. Goto(s, "op", "switch") /\ UNCHANGED <<slots, client>> /\ pending[s] = "none"
    BY <1>6 DEF Switch
  <2>2. /\ pc'[s]["op"] = "switch" /\ pc'[s]["timer"] = pc[s]["timer"]
        /\ pc'[s]["tool"] = "idle" /\ pc'[s]["closer"] = "idle"
    BY <1>1, <1>2, <2>1, RowEffects DEF Goes
  <2> QED BY <1>2, <2>1, <2>2 DEF Covered, Busy, Open, TurnActive, client, slots
<1>7. CASE Cancelled(s)
  <2>1. Goto(s, "op", "cancel") /\ UNCHANGED <<slots, client>>
    BY <1>7 DEF Cancelled, Fail
  <2>2. /\ pc'[s]["op"] = "cancel" /\ pc'[s]["timer"] = pc[s]["timer"]
        /\ pc'[s]["tool"] = "idle" /\ pc'[s]["closer"] = "idle"
    BY <1>1, <1>2, <2>1, RowEffects DEF Goes
  <2> QED BY <1>2, <2>1, <2>2 DEF Covered, Busy, Open, TurnActive, client, slots
<1>8. ~StartClose(s)
  BY <1>2 DEF StartClose
<1>9. \A t \in Tasks : ~Interrupt(s, t)
  BY DEF Interrupt
<1>10. CASE ProcessStep(s)
  <2>1. UNCHANGED <<pc, then, slots>>
    BY <1>10 DEF ProcessStep, AgentAsks, AgentEnds, Overflow, ReaderEnds, ProcExits
  <2>2. proc'[s] = "up" => /\ proc[s] = "up" /\ pending'[s] \in {"none", pending[s]}
                           /\ turn'[s] = "active" => turn[s] = "active" /\ pending'[s] = pending[s]
    BY <1>1, <1>10 DEF ProcessStep, AgentAsks, AgentEnds, Overflow, FailTurn, ReaderEnds, ProcExits,
                       DataOK, ClientType, TurnType
  <2> QED BY <1>2, <2>1, <2>2 DEF Covered, Busy, Open, TurnActive, slots
<1> QED BY <1>3, <1>4, <1>5, <1>6, <1>7, <1>8, <1>9, <1>10 DEF ClientStep, Prompt, Respond

\* The invariant holds in every reachable state.
LEMMA CoveredInvariant ==
  ASSUME ~Interrupts, "cancel" \notin Tools
  PROVE  Spec => [](\A s \in Sessions : Covered(s))
<1> DEFINE Inv == \A s \in Sessions : Covered(s)
<1>1. Init => Inv
  BY DEF Init, Covered, Busy, TurnActive, Tasks
<1>2. ASSUME BridgeOK, CallInTools, Inv, [Next]_vars
      PROVE  Inv'
  <2>1. CASE UNCHANGED vars
    BY <1>2, <2>1 DEF vars, slots, client, Covered, Busy, TurnActive
  <2>2. CASE Next
    <3>1. PICK s \in Sessions : StepOf(s)
      BY <2>2, NextIsStep
    <3>2. ASSUME s \in registered'
          PROVE  Covered(s)'
      <4>1. Open(s)
        BY <1>2, <3>1, <3>2, RegisteredShrinks DEF Open
      <4>2. CASE CallStep(s)
        BY <1>2, <4>1, <4>2, CallStepKeepsCovered
      <4>3. CASE \E t \in Tasks : CancelTurnStep(s, t)
        BY <1>2, <4>1, <4>3, CancelTurnKeepsCovered
      <4>4. CASE TimerStep(s) \/ Terminate(s) \/ ClientStep(s) \/ ProcessStep(s)
        BY <1>2, <4>1, <4>4, OtherStepsKeepCovered
      <4> QED BY <3>1, <4>2, <4>3, <4>4 DEF StepOf
    <3>3. Covered(s)'
      BY <3>2 DEF Covered
    <3>4. Elsewhere(s)
      BY <1>2, <3>1, StepElsewhere DEF BridgeOK, BridgeInv
    <3> QED BY <1>2, <3>3, <3>4 DEF Elsewhere, Covered, Busy, TurnActive
  <2> QED BY <1>2, <2>1, <2>2
<1>3. BridgeOK /\ CallInTools /\ Inv /\ [Next]_vars => Inv'
  BY <1>2
<1> HIDE DEF Inv
<1>4. Spec => []Inv
  BY <1>1, <1>3, BridgeAlwaysOK, CallsAreInTools, PTL DEF Spec
<1> QED BY <1>4 DEF Inv

\* Sessions stay open where the client closes none.
LEMMA OpenWithoutClose ==
  ASSUME "close" \notin Tools
  PROVE  Spec => [](registered = Sessions)
<1>1. Init => registered = Sessions
  BY DEF Init
<1>2. ASSUME [Next]_vars
      PROVE  registered' = registered
  <2>1. CASE UNCHANGED vars
    BY <2>1 DEF vars
  <2>2. CASE Next
    <3>1. PICK s \in Sessions : StepOf(s)
      BY <2>2, NextIsStep
    <3>2. CASE CallStep(s)
      BY <3>2 DEF CallStep, OpStep, UserStep, AnswerStep, ResumeAcquire, AcquireGivenUp, TurnCompletes,
         TurnFails, WaitTimesOut, TakeRequest, ElicitAnswered, ElicitDeclined, ElicitFails, Published,
         PublishFails, SwitchEnds, AnswerWritten, AnswerLost, ConfirmWritten, ConfirmLost
    <3>3. CASE \E t \in Tasks : CancelTurnStep(s, t)
      BY <3>3, CancelTurnEffect
    <3>4. CASE TimerStep(s) \/ Terminate(s) \/ ClientStep(s) \/ ProcessStep(s)
      BY <3>4 DEF TimerStep, TimerFires, TimerLocks, TimerAborts, Terminate, ClientStep, Prompt,
         Respond, Call, Callable, Switch, Cancelled, StartCancelTool, StartClose, TerminateCut,
         Interrupt, ProcessStep, AgentAsks, AgentEnds, Overflow, ReaderEnds, ProcExits
    <3> QED BY <3>1, <3>2, <3>3, <3>4 DEF StepOf
  <2> QED BY <1>2, <2>1, <2>2
<1>3. registered = Sessions /\ [Next]_vars => (registered = Sessions)'
  BY <1>2
<1> QED BY <1>1, <1>3, PTL DEF Spec

\* A permission a live agent waits for is in the hands of a call, of its timer
\* or of a close, unless reject_option raised on it: prompts, answers, failures,
\* closes and cancellations of a handler's body leave none behind.  The cancel
\* tool and a cancellation inside a clean-up can.
THEOREM PermissionsAreKept ==
  ASSUME ~Interrupts, "cancel" \notin Tools
  PROVE  Spec => []PermissionHasKeeper
<1>1. /\ \A s \in Sessions : Covered(s)
      /\ \A s \in Sessions : ProcessLeft(s)
      => PermissionHasKeeper
  BY DEF Covered, ProcessLeft, PermissionHasKeeper, Busy, Tasks
<1> QED BY <1>1, CoveredInvariant, ProcessLeftInvariant, PTL

\* A live agent's turn is covered by a slot, waiting for a decision included,
\* unless reject_option raised before cancel_turn got to the turn: where neither
\* the cancel tool nor close is used and no clean-up is cancelled, each of which
\* gives back the slot of a turn that goes on.
THEOREM TurnsAreCovered ==
  ASSUME ~Interrupts, "cancel" \notin Tools, "close" \notin Tools
  PROVE  Spec => []SlotCoversTurn
<1>1. registered = Sessions /\ (\A s \in Sessions : Covered(s)) => SlotCoversTurn
  BY DEF Covered, SlotCoversTurn
<1> QED BY <1>1, CoveredInvariant, OpenWithoutClose, PTL
====
