---- MODULE AcpTurn ----
(***************************************************************************)
(* One AcpClient and its agent: prompts with their request ids, replies,   *)
(* updates and permission requests on the agent's output, and the calls    *)
(* that begin, wait for, answer and cancel turns.  Unlike Bridge, which    *)
(* counts only outcomes, this module says which turn a message belongs to  *)
(* and which request an answer goes to, also when the agent still works on *)
(* a turn the bridge has given up.  The agent is external and free to act  *)
(* at any time on whatever it has been sent.  A message to it takes its    *)
(* place among the others when its write begins; how long the write then   *)
(* keeps its caller is a matter of Bridge.                                 *)
(***************************************************************************)
EXTENDS Integers, SequencesExt

CONSTANTS MaxTurns,    \* bound on session/prompt requests
          MaxAsks,     \* bound on permission requests
          MaxChunks,   \* bound on text updates
          MaxWire,     \* bound on lines the reader has not read
          Tolerance,   \* stdout_overflow_retry_tolerance
          Rejectable   \* the requests that offer a reject option

Turns == 1..MaxTurns
Requests == 1..MaxAsks

ASSUME TurnAssumption == /\ MaxTurns \in Nat /\ MaxAsks \in Nat /\ MaxChunks \in Nat
                         /\ MaxWire \in Nat /\ Tolerance \in Nat
                         /\ Rejectable \subseteq Requests

VARIABLES approval,  \* approval_mode of the session
          pc,        \* where the session's call and its cancel tool are
          target,    \* the turn each of them has captured from _turn_task
          current,   \* _turn_task, 0 for None
          last,      \* the newest request id
          reply,     \* what the future of each session/prompt request holds
          pending,   \* pending_permission, 0 for None
          queue,     \* _permission_queue
          overruns,  \* _stdout_limit_failures
          text,      \* TurnBuffers: how many chunks of each turn they hold
          alive,     \* the process runs and its output is read
          wire,      \* the agent's lines that the reader has not read
          agent,     \* the agent's work on each turn
          said,      \* the text chunks it has sent for each turn
          turnOf,    \* the turn each permission request was asked for
          answers,   \* the answers it has got to each request
          decided,   \* the requests a decision of the MCP client has named
          told,      \* the newest turn whose prompt a session/cancel followed
          overtaken, \* turns whose cancel sent session/cancel before their prompt
          left       \* turns with a cancel_turn that was cut short or raised

client == <<current, last, reply, overruns, text, alive>>
agentSide == <<wire, agent, said, turnOf>>
gate == <<pending, queue, answers, told, overtaken, left>>
vars == <<approval, pc, target, client, gate, agentSide, decided>>

\* op is the tool that holds the session lock (or the permission timer, which
\* holds it too), tool a cancel_codebuddy_turn.
Tasks == {"op", "tool"}

Line(kind, of) == [kind |-> kind, of |-> of]

Init == /\ approval \in {"elicitation", "compatible"}
        /\ pc = [t \in Tasks |-> "idle"]
        /\ target = [t \in Tasks |-> 0]
        /\ current = 0
        /\ last = 0
        /\ reply = [i \in Turns |-> "none"]
        /\ pending = 0
        /\ queue = <<>>
        /\ overruns = 0
        /\ text = [i \in Turns |-> 0]
        /\ alive = TRUE
        /\ wire = <<>>
        /\ agent = [i \in Turns |-> "none"]
        /\ said = [i \in Turns |-> 0]
        /\ turnOf = [p \in Requests |-> 0]
        /\ answers = [p \in Requests |-> <<>>]
        /\ decided = {}
        /\ told = 0
        /\ overtaken = {}
        /\ left = {}

\* Task.done() of a turn task
Done(i) == reply[i] \in {"result", "error", "cancelled"}

\* turn_active
TurnActive == current # 0 /\ ~Done(current)

\* A cancel whose turn has ended runs on within two rounds of the event loop.  A
\* new turn may begin before it does, but takes longer than that to get from
\* begin_prompt to a permission request or to the agent's reaction.
Settled == \A t \in Tasks : pc[t] = "drain" /\ target[t] # last => ~Done(target[t])

Goto(t, l) == pc' = [pc EXCEPT ![t] = l]

(***************************************************************************)
(* cancel_turn                                                             *)
(***************************************************************************)
LockFree == \A t \in Tasks : pc[t] \notin {"queue", "drain"}

\* The newest turn whose prompt has been written.
Sent == IF current # 0 /\ reply[current] = "starting" THEN last - 1 ELSE last

\* session/cancel, if the process runs.  It may come before the prompt of the turn
\* it is meant for.
Tell == /\ told' = IF alive THEN Sent ELSE told
        /\ overtaken' = IF alive /\ Sent # last THEN overtaken \cup {last} ELSE overtaken

Answer(p, a) == answers' = [answers EXCEPT ![p] = Append(@, a)]

\* cancel_turn ends without having drained the turn there is.
Leave(t) == /\ Goto(t, "idle")
            /\ left' = IF current = 0 THEN left ELSE left \cup {current}
            /\ UNCHANGED <<target, queue>>

\* It goes on to wait for the turn there is, if any.
Drain(t) ==
  /\ \/ /\ current = 0
        /\ queue' = <<>>
        /\ Goto(t, "idle")
        /\ UNCHANGED target
     \/ /\ current # 0
        /\ Goto(t, "drain")
        /\ target' = [target EXCEPT ![t] = current]
        /\ UNCHANGED queue
  /\ UNCHANGED left

\* With the lock it sends session/cancel and looks at the pending request: its
\* reject option is sent, unless that fails or is cut short; or it offers none
\* and is forgotten; or reject_option raises on what it offers, and it stays.
EnterCancel(t) ==
  /\ Tell
  /\ \/ /\ pending \in Rejectable /\ alive
        /\ pending' = 0 /\ Answer(pending, "rejected")
        /\ Drain(t)
     \/ /\ pending \in Rejectable
        /\ pending' = 0 /\ UNCHANGED answers
        /\ Leave(t)
     \/ /\ pending \notin Rejectable
        /\ pending' = 0 /\ UNCHANGED answers
        /\ Drain(t)
     \/ /\ pending \notin Rejectable /\ pending # 0
        /\ UNCHANGED <<pending, answers>>
        /\ Leave(t)

\* A call of cancel_turn: it has the lock or waits for it.
CancelTurn(t) == \/ LockFree /\ EnterCancel(t)
                 \/ ~LockFree /\ Goto(t, "queue") /\ UNCHANGED <<target, gate>>

LeaveQueue(t) == /\ pc[t] = "queue"
                 /\ \A u \in Tasks : pc[u] # "drain"
                 /\ EnterCancel(t)
                 /\ UNCHANGED <<approval, client, agentSide, decided>>

\* Mutant: the gate is not cleared again after the wait.
LeaveCancelPending(t) ==
  /\ pc[t] = "drain"
  /\ reply[target[t]] # "starting"
  /\ reply' = [reply EXCEPT ![target[t]] = IF @ = "waiting" THEN "cancelled" ELSE @]
  /\ current' = IF current = target[t] THEN 0 ELSE current
  /\ queue' = <<>>
  /\ Goto(t, "idle")
  /\ target' = [target EXCEPT ![t] = 0]
  /\ UNCHANGED <<approval, last, overruns, text, alive, pending, answers, told, overtaken,
                 left, agentSide, decided>>

\* The captured turn ended, or turn_cancel_timeout_seconds passed and its
\* task is cancelled here while the agent may go on working on it.
LeaveCancel(t) ==
  /\ pc[t] = "drain"
  /\ reply[target[t]] # "starting"
  /\ reply' = [reply EXCEPT ![target[t]] = IF @ = "waiting" THEN "cancelled" ELSE @]
  /\ current' = IF current = target[t] THEN 0 ELSE current
  /\ pending' = 0
  /\ queue' = <<>>
  /\ Goto(t, "idle")
  /\ target' = [target EXCEPT ![t] = 0]
  /\ UNCHANGED <<approval, last, overruns, text, alive, answers, told, overtaken, left,
                 agentSide, decided>>

\* The caller is cancelled while it is suspended inside cancel_turn.
Interrupt(t) == /\ pc[t] \in {"queue", "drain"}
                /\ Leave(t)
                /\ UNCHANGED <<approval, client, pending, answers, told, overtaken,
                               agentSide, decided>>

(***************************************************************************)
(* begin_prompt and request                                                *)
(***************************************************************************)
\* Mutant: the buffers of the turn before are kept.
BeginPromptInOldBuffers ==
  /\ pc["op"] = "idle" /\ last < MaxTurns
  /\ alive /\ ~TurnActive /\ pending = 0
  /\ last' = last + 1
  /\ current' = last + 1
  /\ reply' = [reply EXCEPT ![last + 1] = "starting"]
  /\ queue' = <<>>
  /\ Goto("op", "wait")
  /\ target' = [target EXCEPT !["op"] = last + 1]
  /\ UNCHANGED <<approval, overruns, text, alive, pending, answers, told, overtaken, left,
                 agentSide, decided>>

\* The turn's task is created, with fresh buffers and an empty queue; the
\* prompt itself is written when that task runs.
BeginPrompt ==
  /\ pc["op"] = "idle" /\ last < MaxTurns
  /\ alive /\ ~TurnActive /\ pending = 0
  /\ last' = last + 1
  /\ current' = last + 1
  /\ reply' = [reply EXCEPT ![last + 1] = "starting"]
  /\ text' = [i \in Turns |-> 0]
  /\ queue' = <<>>
  /\ Goto("op", "wait")
  /\ target' = [target EXCEPT !["op"] = last + 1]
  /\ UNCHANGED <<approval, overruns, alive, pending, answers, told, overtaken, left,
                 agentSide, decided>>

\* A refused prompt: its handler cancels whatever is in the way.
PromptRefused ==
  /\ pc["op"] = "idle"
  /\ ~alive \/ TurnActive \/ pending # 0
  /\ CancelTurn("op")
  /\ UNCHANGED <<approval, client, agentSide, decided>>

\* request: the prompt is written, its id waits in _pending.
SendPrompt(i) ==
  /\ reply[i] = "starting"
  /\ reply' = [reply EXCEPT ![i] = IF alive THEN "waiting" ELSE "error"]
  /\ agent' = [agent EXCEPT ![i] = IF alive THEN "working" ELSE @]
  /\ UNCHANGED <<approval, pc, target, current, last, overruns, text, alive, gate,
                 wire, said, turnOf, decided>>

(***************************************************************************)
(* wait_for_turn_event and _wait_with_permissions                          *)
(***************************************************************************)
OpTurn == target["op"]

\* The turn's response arrived, or a cancel gave the turn up: the result
\* carries the text in the buffers.  A request that had just been taken off
\* the queue is forgotten with it.
TurnReturns ==
  /\ pc["op"] = "wait"
  /\ reply[OpTurn] \in {"result", "cancelled"}
  /\ current' = IF current = OpTurn THEN 0 ELSE current
  /\ pending' = 0
  /\ overruns' = 0
  /\ \/ UNCHANGED queue
     \/ queue # <<>> /\ queue' = Tail(queue)
  /\ Goto("op", "idle")
  /\ UNCHANGED <<approval, target, last, reply, text, alive, answers, told, overtaken, left,
                 agentSide, decided>>

TurnFails == /\ pc["op"] = "wait"
             /\ reply[OpTurn] = "error"
             /\ CancelTurn("op")
             /\ UNCHANGED <<approval, client, agentSide, decided>>

WaitTimesOut == /\ pc["op"] = "wait"
                /\ reply[OpTurn] = "waiting" /\ queue = <<>>
                /\ CancelTurn("op")
                /\ UNCHANGED <<approval, client, agentSide, decided>>

\* notifications/cancelled from the MCP client.  The prompt has been written by
\* then: its task was created before this one was suspended.
Cancelled == /\ pc["op"] = "wait"
             /\ reply[OpTurn] # "starting"
             /\ CancelTurn("op")
             /\ UNCHANGED <<approval, client, agentSide, decided>>

\* A request becomes the pending one: it goes to the user's form, or back to
\* the MCP client of a compatible session.  The prompt has been written by
\* then: its task was created before the one that reads the queue.
TakeRequest ==
  /\ pc["op"] = "wait" /\ Settled
  /\ reply[OpTurn] = "waiting" /\ queue # <<>>
  /\ pending' = Head(queue)
  /\ queue' = Tail(queue)
  /\ Goto("op", IF approval = "compatible" THEN "idle" ELSE "elicit")
  /\ UNCHANGED <<approval, target, client, answers, told, overtaken, left, agentSide, decided>>

(***************************************************************************)
(* resolve_permission                                                      *)
(***************************************************************************)
\* The pending request is answered with the caller's option, if the process
\* can be written to, and the caller waits for the turn again.
Resolve == /\ pending' = 0
           /\ \/ /\ alive
                 /\ Answer(pending, "chosen")
                 /\ Goto("op", "wait")
                 /\ target' = [target EXCEPT !["op"] = current]
              \/ /\ ~alive
                 /\ Goto("op", "idle")
                 /\ UNCHANGED <<answers, target>>
           /\ UNCHANGED <<queue, told, overtaken, left>>

\* It is not sent, or not for certain, as the pipe broke or the call was
\* cancelled while it waited for it: the handler goes on to cancel the turn.
ResolveCut == /\ pending' = 0
              /\ Goto("op", "queue")
              /\ UNCHANGED <<target, queue, answers, told, overtaken, left>>

\* Mutant: the request_id is not compared.
RespondAny(p) ==
  /\ pc["op"] = "idle" /\ turnOf[p] # 0
  /\ pending # 0
  /\ Resolve \/ ResolveCut
  /\ decided' = decided \cup {p}
  /\ UNCHANGED <<approval, client, agentSide>>

\* respond_codebuddy_permission that names the pending request
Respond(p) ==
  /\ pc["op"] = "idle" /\ turnOf[p] # 0
  /\ pending = p
  /\ Resolve \/ ResolveCut
  /\ decided' = decided \cup {p}
  /\ UNCHANGED <<approval, client, agentSide>>

\* or a request that is not: nothing is sent and the pending one stays.
RespondRefused(p) ==
  /\ pc["op"] = "idle" /\ turnOf[p] # 0
  /\ pending # p
  /\ decided' = decided \cup {p}
  /\ UNCHANGED <<approval, pc, target, client, gate, agentSide>>

\* The user answers the form of an eliciting session.
Elicited == /\ pc["op"] = "elicit" /\ pending # 0
            /\ (alive /\ Resolve) \/ ResolveCut
            /\ decided' = decided \cup {pending}
            /\ UNCHANGED <<approval, client, agentSide>>

\* The form fails, is declined without a reject option, or is answered after
\* the request was cleared: the handler cancels the turn.
ElicitFails ==
  /\ pc["op"] = "elicit"
  /\ CancelTurn("op")
  /\ UNCHANGED <<approval, client, agentSide, decided>>

(***************************************************************************)
(* Other callers of cancel_turn                                            *)
(***************************************************************************)
\* Mutant: the timer only opens the gate.
PermissionForgotten == /\ approval = "compatible"
                       /\ pc["op"] = "idle" /\ pending # 0
                       /\ pending' = 0
                       /\ UNCHANGED <<approval, pc, target, client, queue, answers, told,
                                      overtaken, left, agentSide, decided>>

\* The permission timer, which holds the session lock like a call.
PermissionExpires == /\ approval = "compatible"
                     /\ pc["op"] = "idle" /\ pending # 0
                     /\ CancelTurn("op")
                     /\ UNCHANGED <<approval, client, agentSide, decided>>

CancelTool == /\ pc["tool"] = "idle"
              /\ CancelTurn("tool")
              /\ UNCHANGED <<approval, client, agentSide, decided>>

(***************************************************************************)
(* The agent                                                               *)
(***************************************************************************)
\* It works on turn i and may write a line.
Works(i) == /\ alive /\ Settled
            /\ agent[i] = "working"
            /\ Len(wire) < MaxWire

Writes(l) == /\ wire' = Append(wire, l)
             /\ UNCHANGED <<approval, pc, target, client, gate, decided>>

AgentSays(i) == /\ Works(i)
                /\ SumFunction(said) < MaxChunks
                /\ said' = [said EXCEPT ![i] = @ + 1]
                /\ Writes(Line("text", i))
                /\ UNCHANGED <<agent, turnOf>>

AgentAsks(i, p) == /\ Works(i)
                   /\ turnOf[p] = 0 /\ \A q \in Requests : q < p => turnOf[q] # 0
                   /\ turnOf' = [turnOf EXCEPT ![p] = i]
                   /\ Writes(Line("ask", p))
                   /\ UNCHANGED <<agent, said>>

AgentReplies(i) == /\ Works(i)
                   /\ \E r \in {"result", "error"} : Writes(Line(r, i))
                   /\ agent' = [agent EXCEPT ![i] = "ended"]
                   /\ UNCHANGED <<said, turnOf>>

\* A line over max_read: an update, or the response itself.
AgentOverruns(i) == /\ Works(i)
                    /\ Writes(Line("long", i))
                    /\ \E a \in {"working", "ended"} : agent' = [agent EXCEPT ![i] = a]
                    /\ UNCHANGED <<said, turnOf>>

(***************************************************************************)
(* The reader of its output                                                *)
(***************************************************************************)
Reads(kind) == alive /\ wire # <<>> /\ Head(wire).kind = kind

Consume == /\ wire' = Tail(wire)
           /\ UNCHANGED <<approval, pc, target, agent, said, turnOf, decided>>

\* An update names the session, not the turn: it goes to the buffers there are.
ReadText == /\ Reads("text")
            /\ text' = [text EXCEPT ![Head(wire).of] = @ + 1]
            /\ Consume
            /\ UNCHANGED <<current, last, reply, overruns, alive, gate>>

ReadAsk == /\ Reads("ask")
           /\ queue' = Append(queue, Head(wire).of)
           /\ Consume
           /\ UNCHANGED <<client, pending, answers, told, overtaken, left>>

\* Mutant: the response goes to the current turn, whatever its id.
ReadReplyForCurrent ==
  /\ Reads("result") \/ Reads("error")
  /\ reply' = [i \in Turns |-> IF i = current /\ reply[i] = "waiting" THEN Head(wire).kind
                                                                     ELSE reply[i]]
  /\ Consume
  /\ UNCHANGED <<current, last, overruns, text, alive, gate>>

\* A response whose id nobody waits for any more is dropped.
ReadReply ==
  /\ Reads("result") \/ Reads("error")
  /\ reply' = [reply EXCEPT ![Head(wire).of] = IF @ = "waiting" THEN Head(wire).kind ELSE @]
  /\ Consume
  /\ UNCHANGED <<current, last, overruns, text, alive, gate>>

\* _fail_pending
FailPending ==
  reply' = [i \in Turns |-> IF reply[i] = "waiting" THEN "error" ELSE reply[i]]

\* Mutant: the agent is not told.
ReadOverrunSilently ==
  /\ Reads("long")
  /\ overruns' = overruns + 1
  /\ FailPending
  /\ pending' = 0
  /\ queue' = <<>>
  /\ alive' = (overruns' <= Tolerance)
  /\ Consume
  /\ UNCHANGED <<current, last, text, answers, told, overtaken, left>>

\* The overlong line is dropped with what waits for it; within the tolerance
\* the agent is told to cancel, beyond it the process is terminated.
ReadOverrun ==
  /\ Reads("long")
  /\ overruns' = overruns + 1
  /\ FailPending
  /\ pending' = 0
  /\ queue' = <<>>
  /\ alive' = (overruns' <= Tolerance)
  /\ told' = IF alive' THEN Sent ELSE told
  /\ Consume
  /\ UNCHANGED <<current, last, text, answers, overtaken, left>>

\* The output ends or a line is not JSON: what follows is never read.
ReaderEnds ==
  /\ alive
  /\ alive' = FALSE
  /\ wire' = <<>>
  /\ FailPending
  /\ UNCHANGED <<approval, pc, target, current, last, overruns, text, gate,
                 agent, said, turnOf, decided>>

(***************************************************************************)
(* The specification                                                       *)
(***************************************************************************)
OpStep == TurnReturns \/ TurnFails \/ WaitTimesOut \/ Cancelled \/ TakeRequest
ElicitStep == Elicited \/ ElicitFails
CancelStep(t) == LeaveQueue(t) \/ LeaveCancel(t) \/ Interrupt(t)
ReaderStep == ReadText \/ ReadAsk \/ ReadReply \/ ReadOverrun
ClientStep == \/ BeginPrompt \/ PromptRefused \/ CancelTool
              \/ \E p \in Requests : Respond(p) \/ RespondRefused(p)
AgentStep == \E i \in Turns :
               \/ AgentSays(i) \/ AgentReplies(i) \/ AgentOverruns(i)
               \/ \E p \in Requests : AgentAsks(i, p)

Next == \/ ClientStep \/ OpStep \/ ElicitStep \/ PermissionExpires
        \/ \E t \in Tasks : CancelStep(t)
        \/ \E i \in Turns : SendPrompt(i)
        \/ AgentStep \/ ReaderStep \/ ReaderEnds

Spec == Init /\ [][Next]_vars

(***************************************************************************)
(* Properties                                                              *)
(***************************************************************************)
\* Every variable keeps its type, and a line is about a turn or a request there
\* can be.
Lines == [kind : {"text", "result", "error", "long"}, of : Turns] \cup [kind : {"ask"}, of : Requests]

CallTypes ==
  /\ approval \in {"elicitation", "compatible"}
  /\ pc \in [Tasks -> {"idle", "wait", "elicit", "queue", "drain"}]
  /\ target \in [Tasks -> 0..MaxTurns]

ClientTypes ==
  /\ last \in 0..MaxTurns
  /\ current \in 0..last
  /\ reply \in [Turns -> {"none", "starting", "waiting", "result", "error", "cancelled"}]
  /\ overruns \in Nat
  /\ text \in [Turns -> Nat]
  /\ alive \in BOOLEAN

GateTypes ==
  /\ pending \in 0..MaxAsks
  /\ queue \in Seq(Requests)
  /\ answers \in [Requests -> Seq({"chosen", "rejected"})]
  /\ told \in 0..last
  /\ overtaken \subseteq 1..last /\ left \subseteq 1..last
  /\ decided \subseteq Requests

AgentTypes ==
  /\ wire \in Seq(Lines)
  /\ agent \in [Turns -> {"none", "working", "ended"}]
  /\ said \in [Turns -> Nat]
  /\ turnOf \in [Requests -> 0..MaxTurns]

TypeOK == CallTypes /\ ClientTypes /\ GateTypes /\ AgentTypes

\* Where a request that was asked and not answered still is.
OnWire(p) == \E k \in DOMAIN wire : wire[k] = Line("ask", p)
Known(p) == p = pending \/ p \in ToSet(queue)
Open(p) == turnOf[p] # 0 /\ answers[p] = <<>> /\ (OnWire(p) \/ Known(p))

fate == [p \in Requests |->
           CASE turnOf[p] = 0 -> "unasked"
             [] Open(p) -> "open"
             [] answers[p] = <<"chosen">> -> "chosen"
             [] answers[p] = <<"rejected">> -> "rejected"
             [] turnOf[p] # 0 /\ ~Open(p) /\ answers[p] = <<>> -> "dropped"
             [] OTHER -> "answered twice"]

Ledger == INSTANCE PermissionLedger

\* Whatever calls, cancellations, overruns and late messages meet, each
\* request is settled at most once, and an answer only ever goes to the
\* request that the caller's decision named (acp.py:493-514).
LedgerSpec == Ledger!LedgerSpec

\* A turn ends with a result only if the agent sent it that result: the late
\* response of a turn given up earlier never ends a new one (acp.py:744-753).
OwnResult == \A i \in Turns : reply[i] = "result" => agent[i] = "ended"

\* The result of a turn carries all its text, and text of other turns only if
\* the bridge gave them up while the agent was still at work (acp.py:798-805).
ReturnedText(i) == /\ text[i] = said[i]
                   /\ \A j \in Turns \ {i} : text[j] > 0 => reply[j] \in {"cancelled", "error"}

WholeText ==
  [][\A i \in Turns :
       pc["op"] = "wait" /\ pc'["op"] = "idle" /\ OpTurn = i /\ reply[i] = "result"
         => ReturnedText(i)]_vars

\* The bridge drops a permission request only if the agent has ended its turn
\* or was told to cancel it, or the process is gone: no live agent is left
\* waiting for an answer in a turn it believes in (acp.py:409, 551, 828-833).
\* The exceptions are a session/cancel that was written before the prompt it was
\* meant to cancel, and a call that was cancelled while it wrote its answer: its
\* cancel_turn follows, unless that is cut short in its turn.
NoSilentDrop ==
  \A p \in Requests :
    turnOf[p] # 0 /\ answers[p] = <<>> /\ ~OnWire(p) /\ ~Known(p)
      => \/ agent[turnOf[p]] = "ended" \/ turnOf[p] <= told \/ ~alive
         \/ turnOf[p] \in overtaken \cup left
         \/ pc["op"] = "queue"

\* A pending permission, which refuses the next prompt, belongs to a turn that
\* a cancel can still reach (acp.py:402, 545-551).
PendingHasTurn == pending # 0 => current # 0

\* A turn that the agent can still work on is left alone only by a cancel_turn
\* that was cut short or raised: otherwise a call waits for it or for the user, a
\* cancel drains it, or its pending permission waits for the MCP client of a
\* compatible session, with a timer behind it.
LiveTurnIsTended ==
  alive /\ TurnActive
    => \/ pc["op"] # "idle"
       \/ pc["tool"] # "idle"
       \/ approval = "compatible" /\ pending # 0
       \/ current \in left
====
