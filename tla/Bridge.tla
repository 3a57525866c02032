---- MODULE Bridge ----
(***************************************************************************)
(* The tool handlers of server.py and the session registry of bridge.py,   *)
(* for every bridge session at once: who holds a turn slot, who may touch  *)
(* the turn, and what happens when calls, timeouts, cancellations, closes  *)
(* and failures of the CodeBuddy process meet.  One step is the code that  *)
(* a task runs between two suspensions.  The ACP client is reduced to what *)
(* the handlers can tell: the turn, the pending permission, the process.   *)
(***************************************************************************)
EXTENDS TurnSlots

CONSTANTS Compatible,  \* sessions with approval_mode "compatible"; the others elicit
          Tools,       \* the tools the MCP client calls
          Interrupts,  \* may cancellation hit a task again inside its cleanup?
          MaxEvents    \* bound on calls and permission requests together

ASSUME BridgeAssumption ==
  /\ Compatible \subseteq Sessions
  /\ Tools \subseteq {"prompt", "respond", "switch", "cancel", "close"}
  /\ Interrupts \in BOOLEAN
  /\ MaxEvents \in Nat

VARIABLES registered,  \* SessionRegistry._sessions
          pc,          \* where each task of each session is suspended
          call,        \* the tool that holds BridgeSession.lock
          then,        \* what its handler does after the cancel_turn it is in
          turn,        \* AcpClient._turn_task and how its request ended
          pending,     \* AcpClient.pending_permission: its kind, or "none"
          asked,       \* AcpClient._permission_queue: its only entry, or "none"
          proc,        \* the CodeBuddy process; running is proc # "dead"
          events       \* calls and permission requests so far

client == <<turn, pending, asked, proc>>
vars == <<slots, registered, pc, call, then, client, events>>

\* op is a tool that holds the session lock, tool a cancel_codebuddy_turn,
\* timer a permission timeout, closer a close_codebuddy_session.
Tasks == {"op", "tool", "timer", "closer"}

\* "answer" and "confirm" write the answer of a respond and of an elicitation.
\* "cancel" calls cancel_turn, "queue" waits for its lock, "tell" and "reject"
\* write session/cancel and the rejection, "drain" waits for the turn to end;
\* "stale" is a drain whose turn another prompt has replaced; "abort" and "quit"
\* are a timer that was cancelled with the lock or in the queue for it and has
\* yet to run its finally clause.
Labels == {"idle", "acquire", "wait", "answer", "elicit", "confirm", "publish", "switch",
           "cancel", "queue", "tell", "reject", "drain", "stale",
           "sleep", "lock", "abort", "quit", "terminate", "done"}

\* What a permission request offers is not checked when it is read.  In an odd
\* one reject_option meets an entry that is no object, and raises.
Kinds == {"plain", "odd"}

Init == /\ SlotInit
        /\ registered = Sessions
        /\ pc = [s \in Sessions |-> [t \in Tasks |-> "idle"]]
        /\ call = [s \in Sessions |-> "none"]
        /\ then = [s \in Sessions |-> "end"]
        /\ turn = [s \in Sessions |-> "none"]
        /\ pending = [s \in Sessions |-> "none"]
        /\ asked = [s \in Sessions |-> "none"]
        /\ proc = [s \in Sessions |-> "up"]
        /\ events = 0

(***************************************************************************)
(* Locks, timers and slots                                                 *)
(***************************************************************************)
\* The timer has the session lock.
TimerLocked(s) ==
  pc[s]["timer"] \in {"cancel", "queue", "tell", "reject", "drain", "abort", "quit"}

\* Mutant: only the timer's hold on the session lock is seen.
LockedByTimer(s) == TimerLocked(s)

\* BridgeSession.lock.locked()
Locked(s) == pc[s]["op"] # "idle" \/ TimerLocked(s)

\* Mutant: cancel_turn takes no lock.
CancelUnlocked(s) == FALSE

\* AcpClient._cancel_lock.locked(); a lock others queue for is not barged.
HasCancelLock == {"tell", "reject", "drain", "stale", "abort"}
CancelLocked(s) == \E t \in Tasks : pc[s][t] \in HasCancelLock
CancelQueued(s) == \E t \in Tasks : pc[s][t] = "queue"

\* A task that calls cancel_turn runs on into it without a suspension: no other
\* task comes first.
Calling(s) == \E t \in Tasks : pc[s][t] = "cancel"

\* Task t is suspended at l and may run.
At(s, t, l) == pc[s][t] = l /\ ~Calling(s)

Running(s) == proc[s] # "dead"
TurnActive(s) == turn[s] = "active"

\* disarm_permission_timeout called by a task other than the timer: a
\* sleeping or waiting timer ends, one inside cancel_turn is interrupted.
Disarmed(p) ==
  [p EXCEPT !["timer"] = CASE @ \in {"sleep", "lock"} -> "idle"
                           [] @ = "queue" -> "quit"
                           [] @ \in {"tell", "reject", "drain"} -> "abort"
                           [] OTHER -> @]

Goto(s, t, l) == pc' = [pc EXCEPT ![s][t] = l]

DisarmAndGoto(s, t, l) == pc' = [pc EXCEPT ![s] = [Disarmed(@) EXCEPT ![t] = l]]

\* arm_permission_timeout, the last thing a handler does
ArmAndGoto(s, t, l) ==
  pc' = [pc EXCEPT ![s] = [[Disarmed(@) EXCEPT !["timer"] = "sleep"] EXCEPT ![t] = l]]

\* Mutant: the semaphore is released whether or not a slot is held.
ReleaseTurnAlways(s, t, l) == /\ DisarmAndGoto(s, t, l)
                              /\ held' = held \ {s}
                              /\ HandOver(granted)

\* release_turn by a task other than the timer, which then goes to l
ReleaseTurn(s, t, l) ==
  /\ DisarmAndGoto(s, t, l)
  /\ ReleaseSlot(s) \/ (s \notin held /\ UNCHANGED slots)

\* release_turn by the timer itself, whose task ends
TimerReleases(s) ==
  /\ Goto(s, "timer", "idle")
  /\ ReleaseSlot(s) \/ (s \notin held /\ UNCHANGED slots)

(***************************************************************************)
(* Handler endings                                                         *)
(***************************************************************************)
\* An exception leaves the body of the handler of tool c: its except clause
\* calls cancel_turn.  respond has an inner and an outer clause, and only
\* TimeoutError and CancelledError reach the outer one after the inner.
Fail(s, c, error) ==
  /\ Goto(s, "op", "cancel")
  /\ then' = [then EXCEPT ![s] = CASE c = "prompt" \/ error = "cancelled" -> "end"
                                   [] c = "respond" /\ error = "timeout" -> "again"
                                   [] OTHER -> "inner"]

\* The handler has its result; a result over max_output goes to a file first.
Return(s) == \E l \in {"idle", "publish"} :
               /\ ReleaseTurn(s, "op", l)
               /\ then' = [then EXCEPT ![s] = "end"]

(***************************************************************************)
(* prompt_codebuddy and respond_codebuddy_permission                       *)
(***************************************************************************)
\* A call the server accepts.  Calls refused because the session is unknown
\* or locked change nothing; one that queues behind a timer that is about to
\* get the lock is the same as one that comes after it.
Callable(s, c) == /\ c \in Tools
                  /\ events < MaxEvents
                  /\ s \in registered
                  /\ ~Locked(s) /\ ~Calling(s)
                  /\ pc[s]["timer"] # "lock"
                  /\ events' = events + 1
                  /\ call' = [call EXCEPT ![s] = c]
                  /\ UNCHANGED registered

\* begin_prompt, then _wait_with_permissions looks the session up again.  A
\* cancel_turn still waiting for the turn before now waits for a stale one.
BeginPrompt(s) ==
  \/ /\ ~Running(s) \/ TurnActive(s) \/ pending[s] # "none"
     /\ Fail(s, "prompt", "error")
     /\ UNCHANGED client
  \/ /\ Running(s) /\ ~TurnActive(s) /\ pending[s] = "none"
     /\ turn' = [turn EXCEPT ![s] = "active"]
     /\ asked' = [asked EXCEPT ![s] = "none"]
     /\ pc' = [pc EXCEPT ![s] = [t \in Tasks |->
                 CASE t = "op" -> IF s \in registered THEN "wait" ELSE "cancel"
                   [] t # "op" /\ @[t] = "drain" -> "stale"
                   [] OTHER -> @[t]]]
     /\ then' = [then EXCEPT ![s] = "end"]
     /\ UNCHANGED <<pending, proc>>

\* resolve_permission accepted the answer and writes it.
RespondSent(s) ==
  /\ pending[s] # "none" /\ Running(s)
  /\ pending' = [pending EXCEPT ![s] = "none"]
  /\ DisarmAndGoto(s, "op", "answer")
  /\ UNCHANGED <<then, turn, asked, proc>>

\* Mutant: the timer is not armed again.
RespondRefusedUntimed(s) == /\ DisarmAndGoto(s, "op", "idle")
                            /\ UNCHANGED <<then, client>>

\* resolve_permission raised: there is nothing to answer, the answer does not
\* fit and stays pending, or it was taken and there is no process.  The timer
\* is armed again and the call ends with the slot it acquired.
RespondRefused(s) ==
  /\ \/ UNCHANGED pending
     \/ /\ pending[s] # "none" /\ ~Running(s)
        /\ pending' = [pending EXCEPT ![s] = "none"]
  /\ ArmAndGoto(s, "op", "idle")
  /\ UNCHANGED <<then, turn, asked, proc>>

\* The answer is out, and the call waits for the turn again, if the session and
\* the turn are still there.
AnswerWritten(s) ==
  /\ At(s, "op", "answer")
  /\ LET fails == turn[s] = "none" \/ s \notin registered
     IN /\ Goto(s, "op", IF fails THEN "cancel" ELSE "wait")
        /\ then' = [then EXCEPT ![s] = IF fails THEN "inner" ELSE "end"]
  /\ UNCHANGED <<slots, registered, call, client, events>>

\* The pipe broke: resolve_permission raises, as in RespondRefused.
AnswerLost(s) == /\ At(s, "op", "answer")
                 /\ proc[s] # "up"
                 /\ ArmAndGoto(s, "op", "idle")
                 /\ UNCHANGED <<slots, registered, call, then, client, events>>

Proceed(s, c) == \/ c = "prompt" /\ BeginPrompt(s)
                 \/ c = "respond" /\ RespondSent(s)
                 \/ c = "respond" /\ RespondRefused(s)

\* A call takes the lock; with a slot at hand it runs on, or it queues.
Call(s, c) ==
  /\ Callable(s, c)
  /\ \/ s \in held /\ UNCHANGED slots /\ Proceed(s, c)
     \/ TakeSlot(s) /\ Proceed(s, c)
     \/ /\ JoinQueue(s)
        /\ Goto(s, "op", "acquire")
        /\ UNCHANGED <<then, client>>

Prompt(s) == Call(s, "prompt")
Respond(s) == Call(s, "respond")

ResumeAcquire(s) == /\ At(s, "op", "acquire")
                    /\ Resume(s)
                    /\ Proceed(s, call[s])
                    /\ UNCHANGED <<registered, call, events>>

\* Mutant: the handler goes on to its cleanup, its place in the queue remains.
AcquireAbandoned(s) == /\ At(s, "op", "acquire")
                       /\ Fail(s, call[s], "cancelled")
                       /\ UNCHANGED <<slots, registered, call, client, events>>

\* acquire_turn times out or is cancelled: the outer except clause.
AcquireGivenUp(s) == /\ At(s, "op", "acquire")
                     /\ Withdraw(s)
                     /\ Fail(s, call[s], "cancelled")
                     /\ UNCHANGED <<registered, call, client, events>>

(***************************************************************************)
(* _wait_with_permissions                                                  *)
(***************************************************************************)
\* turn "none": a cancel_turn ended the awaited turn and cleared _turn_task;
\* how the captured task had ended is then left open.
TurnCompletes(s) == /\ At(s, "op", "wait")
                    /\ turn[s] \in {"finished", "none"}
                    /\ turn' = [turn EXCEPT ![s] = "none"]
                    /\ pending' = [pending EXCEPT ![s] = "none"]
                    /\ Return(s)
                    /\ UNCHANGED <<registered, call, asked, proc, events>>

TurnFails(s) == /\ At(s, "op", "wait")
                /\ turn[s] \in {"failed", "none"}
                /\ Fail(s, call[s], "error")
                /\ UNCHANGED <<slots, registered, call, client, events>>

\* Mutant: the wait has no timeout while the process runs.
WaitTimesOutLate(s) == /\ At(s, "op", "wait")
                       /\ TurnActive(s) /\ asked[s] = "none" /\ ~Running(s)
                       /\ Fail(s, call[s], "timeout")
                       /\ UNCHANGED <<slots, registered, call, client, events>>

WaitTimesOut(s) == /\ At(s, "op", "wait")
                   /\ TurnActive(s) /\ asked[s] = "none"
                   /\ Fail(s, call[s], "timeout")
                   /\ UNCHANGED <<slots, registered, call, client, events>>

\* A permission request is taken off the queue.  A compatible session returns
\* it (through a file if it is large) with the timer armed; the others ask
\* the MCP client, unless the request offers no option.
TakeRequest(s) ==
  /\ At(s, "op", "wait")
  /\ TurnActive(s) /\ asked[s] # "none"
  /\ pending' = [pending EXCEPT ![s] = asked[s]]
  /\ asked' = [asked EXCEPT ![s] = "none"]
  /\ \/ s \in Compatible /\ ArmAndGoto(s, "op", "idle") /\ UNCHANGED then
     \/ s \in Compatible /\ Goto(s, "op", "publish") /\ then' = [then EXCEPT ![s] = "arm"]
     \/ s \notin Compatible /\ Goto(s, "op", "elicit") /\ UNCHANGED then
     \/ s \notin Compatible /\ Fail(s, call[s], "error")
  /\ UNCHANGED <<slots, registered, call, turn, proc, events>>

\* The MCP client chose an option, or declined and a reject option exists: the
\* answer is written, unless the request was cleared meanwhile or there is no
\* process.
ElicitAnswered(s) ==
  /\ At(s, "op", "elicit")
  /\ pending' = [pending EXCEPT ![s] = "none"]
  /\ \/ pending[s] # "none" /\ Running(s) /\ Goto(s, "op", "confirm") /\ UNCHANGED then
     \/ pending[s] = "none" /\ Fail(s, call[s], "error")
     \/ ~Running(s) /\ Fail(s, call[s], "error")
  /\ UNCHANGED <<slots, registered, call, turn, asked, proc, events>>

\* It is out, and the loop goes on, if there is still a turn to wait for.
ConfirmWritten(s) ==
  /\ At(s, "op", "confirm")
  /\ \/ turn[s] # "none" /\ Goto(s, "op", "wait") /\ UNCHANGED then
     \/ turn[s] = "none" /\ Fail(s, call[s], "error")
  /\ UNCHANGED <<slots, registered, call, client, events>>

\* The pipe broke.
ConfirmLost(s) == /\ At(s, "op", "confirm")
                  /\ proc[s] # "up"
                  /\ Fail(s, call[s], "error")
                  /\ UNCHANGED <<slots, registered, call, client, events>>

\* The MCP client declined a request that offers no reject option.
ElicitDeclined(s) == /\ At(s, "op", "elicit")
                     /\ pending[s] # "odd"
                     /\ Goto(s, "op", "cancel")
                     /\ then' = [then EXCEPT ![s] = "declined"]
                     /\ UNCHANGED <<slots, registered, call, client, events>>

\* elicit_form raised or returned something else, or reject_option raised.
ElicitFails(s) == /\ At(s, "op", "elicit")
                  /\ Fail(s, call[s], "error")
                  /\ UNCHANGED <<slots, registered, call, client, events>>

\* Mutant: a permission result that went to a file is not timed.
PublishedUntimed(s) == /\ At(s, "op", "publish")
                       /\ Goto(s, "op", "idle")
                       /\ then' = [then EXCEPT ![s] = "end"]
                       /\ UNCHANGED <<slots, registered, call, client, events>>

\* _externalize_result wrote its file; a permission result arms the timer.
Published(s) == /\ At(s, "op", "publish")
                /\ IF then[s] = "arm" THEN ArmAndGoto(s, "op", "idle")
                                      ELSE Goto(s, "op", "idle")
                /\ then' = [then EXCEPT ![s] = "end"]
                /\ UNCHANGED <<slots, registered, call, client, events>>

PublishFails(s) == /\ At(s, "op", "publish")
                   /\ Fail(s, call[s], "error")
                   /\ UNCHANGED <<slots, registered, call, client, events>>

\* notifications/cancelled from the MCP client reaches the handler's body.
Cancelled(s) == /\ \E l \in {"wait", "answer", "elicit", "confirm", "publish"} : At(s, "op", l)
                /\ Fail(s, call[s], "cancelled")
                /\ UNCHANGED <<slots, registered, call, client, events>>

(***************************************************************************)
(* switch_codebuddy_model                                                  *)
(***************************************************************************)
Switch(s) == /\ Callable(s, "switch")
             /\ ~TurnActive(s) /\ pending[s] = "none" /\ Running(s)
             /\ Goto(s, "op", "switch")
             /\ UNCHANGED <<slots, then, client>>

SwitchEnds(s) == /\ At(s, "op", "switch")
                 /\ Goto(s, "op", "idle")
                 /\ UNCHANGED <<slots, registered, call, then, client, events>>

(***************************************************************************)
(* AcpClient.cancel_turn, for each of its callers                          *)
(***************************************************************************)
\* What caller t does when its cancel_turn returned.
AfterCancel(s, t) ==
  \/ t = "op" /\ then[s] \in {"end", "inner"} /\ ReleaseTurn(s, t, "idle")
       /\ then' = [then EXCEPT ![s] = "end"]
  \/ t = "op" /\ then[s] = "again" /\ ReleaseTurn(s, t, "cancel")
       /\ then' = [then EXCEPT ![s] = "end"]
  \/ t = "op" /\ then[s] = "declined" /\ Return(s)
  \/ t = "tool" /\ ReleaseTurn(s, t, "idle") /\ UNCHANGED then
  \/ t = "timer" /\ TimerReleases(s) /\ UNCHANGED then
  \/ t = "closer" /\ Goto(s, t, "terminate") /\ UNCHANGED <<slots, then>>

\* Mutant: no finally clause.
AfterRaiseUncaught(s, t) ==
  \/ t = "op" /\ Goto(s, t, "idle") /\ UNCHANGED <<slots, then>>
  \/ t # "op" /\ AfterCancel(s, t)

\* What it does when cancel_turn raised: finally clauses still release.
AfterRaise(s, t) ==
  \/ t = "op" /\ then[s] # "declined" /\ ReleaseTurn(s, t, "idle")
       /\ then' = [then EXCEPT ![s] = "end"]
  \/ t = "op" /\ then[s] = "declined" /\ Fail(s, call[s], "error") /\ UNCHANGED slots
  \/ t # "op" /\ AfterCancel(s, t)

\* Mutant: a close that is cancelled does not go on to terminate the process.
AfterInterruptCloses(s, t) ==
  \/ t = "op" /\ ReleaseTurn(s, t, "idle") /\ UNCHANGED then
  \/ t = "tool" /\ ReleaseTurn(s, t, "idle") /\ UNCHANGED then
  \/ t = "closer" /\ Goto(s, t, "done") /\ UNCHANGED <<slots, then>>

\* What it does when it is cancelled while it waits in cancel_turn.
AfterInterrupt(s, t) ==
  \/ t = "op" /\ then[s] = "end" /\ ReleaseTurn(s, t, "idle") /\ UNCHANGED then
  \/ t = "op" /\ then[s] \in {"inner", "again"} /\ ReleaseTurn(s, t, "cancel")
       /\ then' = [then EXCEPT ![s] = "end"]
  \/ t = "op" /\ then[s] = "declined" /\ Fail(s, call[s], "cancelled") /\ UNCHANGED slots
  \/ t # "op" /\ AfterCancel(s, t)

QueueForCancel(s, t) == /\ pc[s][t] = "cancel"
                        /\ CancelLocked(s) \/ CancelQueued(s)
                        /\ Goto(s, t, "queue")
                        /\ UNCHANGED <<slots, registered, call, then, client, events>>

\* async with _cancel_lock
TakesCancelLock(s, t) == /\ ~CancelLocked(s)
                         /\ \/ pc[s][t] = "cancel" /\ ~CancelQueued(s)
                            \/ At(s, t, "queue")

\* It waits for the turn there is, if any; p is the permission it leaves pending.
Drain(s, t, p) ==
  \/ /\ turn[s] = "none"
     /\ pending' = [pending EXCEPT ![s] = "none"]
     /\ asked' = [asked EXCEPT ![s] = "none"]
     /\ AfterCancel(s, t)
  \/ /\ turn[s] # "none"
     /\ pending' = [pending EXCEPT ![s] = p]
     /\ Goto(s, t, "drain")
     /\ UNCHANGED <<slots, then, asked>>

\* Then the pending permission: there is none, or it offers no reject option
\* and is forgotten; it is rejected; there is no process to write that to; or
\* reject_option raises and it stays.
Settle(s, t) ==
  \/ pending[s] # "odd" /\ Drain(s, t, "none")
  \/ /\ pending[s] = "plain"
     /\ pending' = [pending EXCEPT ![s] = "none"]
     /\ \/ Running(s) /\ Goto(s, t, "reject") /\ UNCHANGED <<slots, then>>
        \/ ~Running(s) /\ AfterRaise(s, t)
     /\ UNCHANGED asked
  \/ pending[s] = "odd" /\ AfterRaise(s, t) /\ UNCHANGED <<pending, asked>>

\* With the lock it first writes session/cancel, if the process runs.
EnterCancel(s, t) ==
  /\ TakesCancelLock(s, t)
  /\ \/ Running(s) /\ Goto(s, t, "tell") /\ UNCHANGED <<slots, then, pending, asked>>
     \/ ~Running(s) /\ Settle(s, t)
  /\ UNCHANGED <<registered, call, turn, proc, events>>

\* Each of the two writes may stay suspended as long as the agent does not read
\* its input; only then are the permission and the turn looked at.
Told(s, t) == /\ At(s, t, "tell")
              /\ Settle(s, t)
              /\ UNCHANGED <<registered, call, turn, proc, events>>

Rejected(s, t) == /\ At(s, t, "reject")
                  /\ Drain(s, t, pending[s])
                  /\ UNCHANGED <<registered, call, turn, proc, events>>

\* The pipe broke, before or while it was written to.
CancelUnsent(s, t) == /\ At(s, t, "tell") \/ At(s, t, "reject")
                      /\ proc[s] # "up"
                      /\ AfterRaise(s, t)
                      /\ UNCHANGED <<registered, call, client, events>>

\* Mutant: a turn that outlasts the timeout is not cancelled.
LeaveCancelActive(s, t) ==
  /\ At(s, t, "drain") \/ At(s, t, "stale")
  /\ turn' = [turn EXCEPT ![s] = IF pc[s][t] = "drain" /\ @ # "active" THEN "none" ELSE @]
  /\ pending' = [pending EXCEPT ![s] = "none"]
  /\ asked' = [asked EXCEPT ![s] = "none"]
  /\ AfterCancel(s, t)
  /\ UNCHANGED <<registered, call, proc, events>>

\* Mutant: the wait for the turn has no timeout.
LeaveCancelUntimed(s, t) ==
  /\ At(s, t, "drain") \/ At(s, t, "stale")
  /\ pc[s][t] = "drain" => ~TurnActive(s)
  /\ turn' = [turn EXCEPT ![s] = IF pc[s][t] = "drain" THEN "none" ELSE @]
  /\ pending' = [pending EXCEPT ![s] = "none"]
  /\ asked' = [asked EXCEPT ![s] = "none"]
  /\ AfterCancel(s, t)
  /\ UNCHANGED <<registered, call, proc, events>>

\* The turn ended, or turn_cancel_timeout_seconds passed and its task is
\* cancelled.  A turn that replaced it is left alone, its permission is not.
LeaveCancel(s, t) ==
  /\ At(s, t, "drain") \/ At(s, t, "stale")
  /\ turn' = [turn EXCEPT ![s] = IF pc[s][t] = "drain" THEN "none" ELSE @]
  /\ pending' = [pending EXCEPT ![s] = "none"]
  /\ asked' = [asked EXCEPT ![s] = "none"]
  /\ AfterCancel(s, t)
  /\ UNCHANGED <<registered, call, proc, events>>

\* Cancellation again, while the caller is suspended inside cancel_turn.
Interrupt(s, t) ==
  /\ Interrupts
  /\ t # "timer"
  /\ \E l \in {"queue", "tell", "reject", "drain", "stale"} : At(s, t, l)
  /\ AfterInterrupt(s, t)
  /\ UNCHANGED <<registered, call, client, events>>

(***************************************************************************)
(* The permission timer of a compatible session                            *)
(***************************************************************************)
\* The sleep is over: the timer waits for the session lock, or has it.
TimerFires(s) == /\ At(s, "timer", "sleep")
                 /\ Locked(s)
                 /\ Goto(s, "timer", "lock")
                 /\ UNCHANGED <<slots, registered, call, then, client, events>>

\* With the lock it cancels the turn, if a permission is pending in a turn
\* that holds its slot.
TimerLocks(s) == /\ \E l \in {"sleep", "lock"} : At(s, "timer", l)
                 /\ ~Locked(s)
                 /\ Goto(s, "timer", IF pending[s] # "none" /\ s \in held THEN "cancel" ELSE "idle")
                 /\ UNCHANGED <<slots, registered, call, then, client, events>>

TimerAborts(s) == /\ \E l \in {"abort", "quit"} : At(s, "timer", l)
                  /\ TimerReleases(s)
                  /\ UNCHANGED <<registered, call, then, client, events>>

(***************************************************************************)
(* cancel_codebuddy_turn and close_codebuddy_session                       *)
(***************************************************************************)
\* One cancel tool per session at a time, a bound of the model.
StartCancelTool(s) == /\ "cancel" \in Tools
                      /\ events < MaxEvents
                      /\ s \in registered
                      /\ At(s, "tool", "idle")
                      /\ DisarmAndGoto(s, "tool", "cancel")
                      /\ events' = events + 1
                      /\ UNCHANGED <<slots, registered, call, then, client>>

\* The session is unregistered and its slot released before the client closes.
StartClose(s) == /\ "close" \in Tools
                 /\ events < MaxEvents
                 /\ s \in registered
                 /\ ~Calling(s)
                 /\ registered' = registered \ {s}
                 /\ ReleaseTurn(s, "closer", IF Running(s) THEN "cancel" ELSE "terminate")
                 /\ events' = events + 1
                 /\ UNCHANGED <<call, then, client>>

\* _terminate_process, then the requests still in flight fail.
Terminate(s) == /\ At(s, "closer", "terminate")
                /\ proc' = [proc EXCEPT ![s] = "dead"]
                /\ turn' = [turn EXCEPT ![s] = IF @ = "active" THEN "failed" ELSE @]
                /\ Goto(s, "closer", "done")
                /\ UNCHANGED <<slots, registered, call, then, pending, asked, events>>

\* Cancellation while it waits for the process, which got its SIGTERM.
TerminateCut(s) == /\ Interrupts
                   /\ At(s, "closer", "terminate")
                   /\ proc' = [proc EXCEPT ![s] = IF @ = "up" THEN "exiting" ELSE @]
                   /\ Goto(s, "closer", "done")
                   /\ UNCHANGED <<slots, registered, call, then, turn, pending, asked, events>>

(***************************************************************************)
(* The CodeBuddy process and the reader of its output                      *)
(***************************************************************************)
\* One unread permission request at a time, a bound of the model.
AgentAsks(s) == /\ ~Calling(s)
                /\ TurnActive(s) /\ proc[s] = "up" /\ asked[s] = "none"
                /\ events < MaxEvents
                /\ \E k \in Kinds : asked' = [asked EXCEPT ![s] = k]
                /\ events' = events + 1
                /\ UNCHANGED <<slots, registered, pc, call, then, turn, pending, proc>>

AgentEnds(s) == /\ ~Calling(s)
                /\ TurnActive(s) /\ proc[s] = "up"
                /\ \E r \in {"finished", "failed"} : turn' = [turn EXCEPT ![s] = r]
                /\ UNCHANGED <<slots, registered, pc, call, then, pending, asked, proc, events>>

FailTurn(s) == turn' = [turn EXCEPT ![s] = IF @ = "active" THEN "failed" ELSE @]

\* A line over max_read; past the tolerance the process is terminated too.
Overflow(s) == /\ ~Calling(s)
               /\ proc[s] = "up"
               /\ FailTurn(s)
               /\ pending' = [pending EXCEPT ![s] = "none"]
               /\ asked' = [asked EXCEPT ![s] = "none"]
               /\ \E p \in {"up", "exiting"} : proc' = [proc EXCEPT ![s] = p]
               /\ UNCHANGED <<slots, registered, pc, call, then, events>>

\* End of file or a line that is not JSON.
ReaderEnds(s) == /\ ~Calling(s)
                 /\ FailTurn(s)
                 /\ proc' = [proc EXCEPT ![s] = IF @ = "up" THEN "exiting" ELSE @]
                 /\ UNCHANGED <<slots, registered, pc, call, then, pending, asked, events>>

\* It closes its input, or ends.
ProcExits(s) == /\ ~Calling(s)
                /\ Running(s)
                /\ \E p \in {"exiting", "dead"} : proc' = [proc EXCEPT ![s] = p]
                /\ UNCHANGED <<slots, registered, pc, call, then, turn, pending, asked, events>>

(***************************************************************************)
(* The specification                                                       *)
(***************************************************************************)
OpStep(s) == \/ ResumeAcquire(s) \/ AcquireGivenUp(s)
             \/ TurnCompletes(s) \/ TurnFails(s) \/ WaitTimesOut(s) \/ TakeRequest(s)
             \/ Published(s) \/ PublishFails(s)

CancelStep(s, t) == QueueForCancel(s, t) \/ EnterCancel(s, t) \/ LeaveCancel(s, t)

\* Steps that wait for the agent to read or to answer, or for the user; no
\* timeout ends these waits.
AgentReads(s) == \/ AnswerWritten(s) \/ ConfirmWritten(s)
                 \/ \E t \in Tasks : Told(s, t) \/ Rejected(s, t)

UserStep(s) == ElicitAnswered(s) \/ ElicitDeclined(s) \/ ElicitFails(s) \/ SwitchEnds(s)

WriteFails(s) == \/ AnswerLost(s) \/ ConfirmLost(s)
                 \/ \E t \in Tasks : CancelUnsent(s, t)

TimerStep(s) == TimerFires(s) \/ TimerLocks(s) \/ TimerAborts(s)

ClientStep(s) == \/ Prompt(s) \/ Respond(s) \/ Switch(s) \/ Cancelled(s)
                 \/ StartCancelTool(s) \/ StartClose(s) \/ TerminateCut(s)
                 \/ \E t \in Tasks : Interrupt(s, t)

ProcessStep(s) == AgentAsks(s) \/ AgentEnds(s) \/ Overflow(s) \/ ReaderEnds(s) \/ ProcExits(s)

Next == \E s \in Sessions :
          \/ OpStep(s) \/ UserStep(s)
          \/ \E t \in Tasks : CancelStep(s, t)
          \/ AgentReads(s) \/ WriteFails(s)
          \/ TimerStep(s)
          \/ Terminate(s)
          \/ ClientStep(s)
          \/ ProcessStep(s)

Spec == Init /\ [][Next]_vars

\* The event loop runs every task that can run, asyncio fires its timeouts, and
\* a pipe to a process that has ended breaks.  Neither the agent nor the user
\* owes anything.
FairSpec == /\ Spec
            /\ \A s \in Sessions : /\ WF_vars(OpStep(s))
                                   /\ WF_vars(TimerStep(s))
                                   /\ WF_vars(Terminate(s))
                                   /\ WF_vars(~Running(s) /\ WriteFails(s))
                                   /\ \A t \in Tasks : WF_vars(CancelStep(s, t))

(***************************************************************************)
(* Properties                                                              *)
(***************************************************************************)
\* Every variable keeps its type.
TypeOK ==
  /\ SlotTypeOK
  /\ registered \subseteq Sessions
  /\ pc \in [Sessions -> [Tasks -> Labels]]
  /\ call \in [Sessions -> {"none", "prompt", "respond", "switch"}]
  /\ then \in [Sessions -> {"end", "again", "inner", "declined", "arm"}]
  /\ turn \in [Sessions -> {"none", "active", "finished", "failed"}]
  /\ pending \in [Sessions -> Kinds \cup {"none"}]
  /\ asked \in [Sessions -> Kinds \cup {"none"}]
  /\ proc \in [Sessions -> {"up", "exiting", "dead"}]
  /\ events \in 0..MaxEvents

\* A session is queued for a slot or was handed one exactly while one of its
\* calls is inside acquire_turn, and then it has none yet: cleanup by another
\* task (a cancel tool, a timer, a close) never strands or doubles a permit.
AcquirerWaits ==
  \A s \in Sessions : (s \in Queued \cup granted) <=> pc[s]["op"] = "acquire"

\* No two tasks are inside cancel_turn's locked part, and the permission timer
\* never cancels a turn while a call works on it.
CancelsOneAtATime ==
  \A s \in Sessions :
    /\ \A t, u \in Tasks : pc[s][t] \in HasCancelLock /\ pc[s][u] \in HasCancelLock => t = u
    /\ TimerLocked(s) => pc[s]["op"] = "idle"

\* The tasks of a session that will still run on their own.
Busy(s, t) == pc[s][t] \notin {"idle", "done"}

\* A slot is held only while some task of the session will give it back: the
\* comment at server.py:428 promises that no answer "can leak the global turn
\* slot".
HeldSlotHasKeeper == \A s \in held : \E t \in Tasks : Busy(s, t)

\* Between calls the slot of a compatible session is guarded by its timer:
\* README.md:147 says the unanswered request is cancelled after
\* timeout_seconds, "which releases its global turn slot".
SlotBetweenCallsIsTimed ==
  \A s \in held \cap Compatible :
    (\A t \in Tasks \ {"timer"} : ~Busy(s, t)) => Busy(s, "timer")

\* A closed session whose tasks are done owns no slot, and its process has
\* ended or was at least told to, even if the close was itself cancelled.
ClosedHoldsNothing ==
  \A s \in Sessions \ registered :
    (\A t \in Tasks : ~Busy(s, t)) => s \notin held /\ proc[s] # "up"

\* While the process lives, a turn that runs is covered by a turn slot
\* (README.md:145, "turns waiting for a permission decision" included), unless
\* cancel_turn raised in reject_option (acp.py:549) before it drained the turn.
SlotCoversTurn ==
  \A s \in Sessions : TurnActive(s) /\ proc[s] = "up" => s \in held \/ pending[s] = "odd"

\* A permission that a live agent waits for is being worked on by a call, or
\* its timer will reject it: an answer or a cancellation always comes, again
\* unless reject_option raises.
PermissionHasKeeper ==
  \A s \in Sessions : pending[s] = "plain" /\ proc[s] = "up" => \E t \in Tasks : Busy(s, t)

\* README.md:145: "The concurrency limit applies to active session/prompt
\* turns": no more than MaxConcurrency of them are in flight.
ActiveTurnsBounded ==
  Cardinality({s \in Sessions : TurnActive(s) /\ proc[s] = "up"}) <= MaxConcurrency

\* A task of s waits for the user, for an acknowledgement, or for an agent that
\* runs to read its input: no code gives up such a wait.
Waits(s) == \E t \in Tasks : \/ pc[s][t] \in {"elicit", "switch"}
                             \/ pc[s][t] \in {"tell", "reject", "answer", "confirm"} /\ Running(s)

\* Every call returns, or its session waits for ever in one of these places: no
\* other timeout, failure, cancellation, close or cancelled clean-up leaves a
\* handler suspended.  The agent asks finitely often in one turn (MaxEvents):
\* each answer starts the timeout anew (server.py:147).
CallsReturn ==
  \A s \in Sessions : pc[s]["op"] # "idle" ~> (pc[s]["op"] = "idle" \/ []Waits(s))

\* README.md:147: in compatible mode a permission that nobody answers is
\* cancelled when its timeout expires, as long as there is a live agent that
\* reads what it is told.  Wrong answers are finitely many (MaxEvents), as each
\* of them starts the timeout anew (server.py:430).
PermissionsExpire ==
  \A s \in Compatible :
    pending[s] = "plain" /\ proc[s] = "up"
      ~> (pending[s] # "plain" \/ proc[s] # "up" \/ []Waits(s))
====
