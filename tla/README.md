# A TLA+ verification project for codex-codebuddy-mcp

The bridge is an MCP server (Python, asyncio, one event loop) that lets an MCP client
drive several CodeBuddy agents.  Each *bridge session* owns one CodeBuddy process and talks
ACP (JSON-RPC, one message per line) to it over stdin and stdout.  What is hard about it is
not any one function but how they meet: tool calls, permission timers, cancellations, closes
and process failures run as tasks of one event loop and share a session lock, a cancel lock,
a handful of flags and one semaphore of turn slots.

Source paths below are relative to `src/src/codex_codebuddy_mcp/`.

## 1. Inventory

| Component | State | Operations | Interacts with |
|---|---|---|---|
| Turn slots (`bridge.py:38-48`) | `_turn_slots` (semaphore), `turn_slot_held` per session | `acquire_turn` (may wait, time out, be cancelled), `release_turn` | every tool handler, the timer, close |
| Permission timer (`bridge.py:50-84`) | `permission_timeout_task` | arm, disarm; the task sleeps, takes the session lock, cancels the turn, releases the slot | handlers, cancel tool, close |
| Session registry (`bridge.py:99-145`) | `_sessions`, `_lock` | create, get (by owner), close, close_all | handlers, shutdown |
| Tool handlers (`server.py:231-476`) | `BridgeSession.lock` | create, switch, prompt, respond, cancel, close | all of the above, the ACP client |
| Result files (`server.py:183-228`, `bridge.py:86-97`) | `output_paths` | write a large result, remove the files at close | handlers, close |
| ACP client, turns (`acp.py:379-551`) | `_pending`, `_turn_task`, `pending_permission`, `_permission_queue`, `_cancel_lock` | begin_prompt, wait_for_turn_event, resolve_permission, cancel_turn, set_model | handlers, reader |
| ACP client, process (`acp.py:206-305, 553-646`) | `process`, `_closed`, `_terminate_lock` | start, authenticate, close, terminate, remote clean-up | create, close, reader |
| ACP client, reader (`acp.py:660-833`) | `_stdout_limit_failures` | dispatch responses and permission requests, drop overlong lines, fail pending requests | turns, process |
| Line framing (`acp.py:52-72`) | none | read a line, drain an overlong one | reader |
| Model metadata (`acp.py:307-340, 418-444`) | `model_id`, `model_name`, `_model_names` | update, switch | switch tool, reader |
| Turn buffers (`models.py`) | text, tool summaries | append, summarise | reader, results |
| Configuration (`config.py`), launch command (`acp.py:75-157`) | none | parse sizes and durations, validate, build argv | start-up, create |

### What makes each of them correct

* **Turn slots**: at most `max_concurrency` permits exist; a release matches an acquire; a waiter
  whose wait ends in the instant it is handed a permit passes it on; waiters are served in order.
* **Handlers**: every way out of a handler (result, error, timeout, MCP cancellation, and a
  cancellation inside the clean-up) gives the slot back or leaves it with a timer that will;
  `session/prompt` is only sent with a slot; calls return, as far as the agent reads its input.
* **Permission timer**: never works beside a call of the same session; a permission nobody answers
  is rejected in the end.
* **ACP turns**: an answer reaches the request it was given for, once; what the agent sends
  for an abandoned turn is not taken for the next one; cancellations exclude each other.
* **Close**: leaves no slot, no process, no file, and no call waiting.
* **Reader**: an overlong line fails what waits for it and nothing else; a pending request never
  outlives the reader.
* **Framing, settings, model metadata**: compute what their reference definitions say.

### Hard behaviours

Interleaving of tasks at every `await`; the cancel tool and close take no session lock;
state read before an `await` and used after it (`pending_permission`, `_turn_task`, the
registry entry); timeouts that race with what they wait for; partial failure (a broken pipe in
the middle of `cancel_turn`, a file that cannot be written or removed, a timed-out clean-up, an option
of a permission request that is no object); writes that wait for an agent that does not read; cancellation
of a task that is already cleaning up.  `PROJECT.json` lists each hazard at its line, with the
properties that watch it.

## 2. What is modelled

    SlotPool                 what the slots promise (abstract)
       ^ refined by
    TurnSlots                acquire_turn / release_turn over the semaphore
       ^ EXTENDS and implements
    Bridge                   the handlers, the timer, cancel_turn, close, for all sessions
       : one client in detail
    AcpTurn ---------------> PermissionLedger   what becomes of a permission (abstract)
                refines
    Handshake                what start and set_model say to the agent
    Lifecycle                create, start, close, shutdown, processes and result files
    Settings <- LineFraming  from the configuration file to the lines of an agent
           EXTENDS

| Module | Role |
|---|---|
| `SlotPool.tla` | abstract specification: a set of at most `MaxConcurrency` users |
| `TurnSlots.tla` | the slots: value, FIFO of waiters, handed-over permits, holders |
| `Bridge.tla` | all sessions' tool calls, timers, cancellations, closes and failures |
| `PermissionLedger.tla` | abstract specification: each permission request is settled at most once, a choice only by its own decision |
| `AcpTurn.tla` | one client and its agent: request ids, messages, permission requests, text, overruns |
| `Handshake.tla` | initialize, login, new or load, set_model; the recorded model |
| `Lifecycle.tla` | registry, launch, termination and its escalation, remote clean-up, files, shutdown |
| `Settings.tla` | operators: parsing, validating and defaulting settings, a session's config |
| `LineFraming.tla` | the server's start, create's validation, and the framing of a byte stream under that config |
| `TurnSlotsProofs.tla`, `BridgeProofs.tla`, `HandshakeProofs.tla`, `LifecycleProofs.tla`, `LineFramingProofs.tla` | theorems about the module of that name, with TLAPS proofs |
| `AcpTurnProofs.tla` | the inductive invariant of `AcpTurn` and the safety invariants |
| `AcpWireProofs.tla` | what rests on the order of the lines: the refinement of `PermissionLedger`, whole texts |
| `SequenceLemmas.tla` | lemmas on queues: elements that occur once, how often one occurs, what precedes what |
| `MC*.tla` | small instances for TLC |

The split follows what must be seen together.  `Bridge` has all tasks of all sessions, because they
share the slots, and knows of messages only their effect.  `AcpTurn` has one session and knows
which turn each message belongs to, because there the hazard is an agent that still works on
a turn the bridge has given up.  `Lifecycle` has the tasks that start and end processes, where a
turn is only "a call that may leave a file".  `Handshake` has only what is said before and between
turns.  What one of them leaves open is a free choice there, so each is valid on its own.

Operators whose comment begins with "Mutant:" are not part of any specification.  Each is a
plausible bug of the operator that follows it; put in that operator's place, it makes TLC
report the property it is paired with in `PROJECT.json`.

### TurnSlots

`free` is the semaphore's value, `waiters` its queue, `held` the sessions with
`turn_slot_held`.  `granted` is the state that asyncio hides: a waiter whose future has been
completed but whose task has not run yet.  In that state `wait_for` may still time out or be
cancelled, and then the permit goes to the next waiter (`WithdrawGranted`).  The semaphore is
not code of this repository; it is modelled by its contract: FIFO, a release hands the permit
to the head of the queue, a free permit is not taken past the queue.  (CPython's versions
differ in what `_value` shows between the hand-over and the woken task's step; the contract is
the same.  On Python 3.11 `wait_for` runs `acquire` in a task of its own, so that even a free slot is
taken one round of the event loop after the call; there `TakeSlot` is that round, which no step
of the session's own call can precede.)

### Bridge

The state of a session is where each of its four possible tasks is suspended, plus what the
handlers can tell about the client.

| Model | Code |
|---|---|
| `pc[s]["op"]` | the tool call that holds `BridgeSession.lock` (prompt, respond, switch) |
| `pc[s]["tool"]` | `cancel_codebuddy_turn` |
| `pc[s]["timer"]` | the task in `permission_timeout_task` |
| `pc[s]["closer"]` | `close_codebuddy_session` |
| `call`, `then` | which tool it is, and which except clause it is in |
| `turn` | `_turn_task`: `none`, `active`, or done with its result not yet looked at |
| `pending`, `asked` | `pending_permission` and the entry of `_permission_queue`: none, a plain one, or an `odd` one |
| `proc` | `up`; `exiting`: it was told to end or its output closed, and writes may fail; `dead`: `running` is false |
| `registered` | the keys of `_sessions` |

One step is what a task does between two suspensions.  asyncio switches tasks only at an
`await` that really suspends, so taking a free lock and `release_turn` (an `async def` without
`await`) do not end a step.  A task at label `cancel` has
just called `cancel_turn` and no other task runs before it has either entered it or queued for
its lock (`Calling`); the label exists so that the six callers of `cancel_turn` share one
definition of it.

Writes to the agent do suspend: `_send` awaits `drain()` under the write lock and no code gives
that up (`acp.py:653-656`).  A task is at `tell` or `reject` while `cancel_turn` writes
`session/cancel` and the rejection, at `answer` or `confirm` while the answer of a respond or of a form is
written; what it looks at afterwards it looks at in the step that leaves the label (`Told`, `Rejected`,
`AnswerWritten`, `ConfirmWritten`).  Only an agent that reads lets it go on, or a pipe that breaks
(`AnswerLost`, `ConfirmLost`, `CancelUnsent`) or a cancellation.  A write that does not wait is the case
in which that step comes at once.

A permission request is `plain` or `odd`.  What it offers is not checked when it is read
(`acp.py:791`), and `reject_option` calls `get` on each option (`acp.py:549`): on an odd one it may
raise, with the agent alive, before `cancel_turn` has come to the turn.  The permission stays pending, and the
`finally` clauses give the slot back while the turn goes on (`Settle`, `AfterRaise`).

How the clean-up is modelled: an exception takes the handler to `cancel` with `then` saying what
follows.  `end` and `inner` release the slot and finish, `again` is the TimeoutError that passes
through respond's inner and outer clause and runs `cancel_turn` twice, `declined` is the call in
`_wait_with_permissions` itself (`server.py:167`), which goes on to return a result, `arm` marks
the publication of a permission result.  `AfterCancel`, `AfterRaise` and `AfterInterrupt` say
what each caller does when `cancel_turn` returned, raised, or was cancelled.

Abstractions and bounds, each of which a reader should know:

* Messages are abstracted to their effect.  Whether an answer fits the pending request is a
  free choice (`RespondSent` or `RespondRefused`); which request it is, and late messages
  of a turn that was given up, are what `AcpTurn` is about.
* `MaxEvents` bounds calls and permission requests together; with 4, TLC sees for example a
  prompt, its permission, an answer and a prompt of the other session, or a prompt, a
  cancel tool, a close and another prompt.  Two sessions and one slot make each
  session the other's competitor; a third would add only another competitor of the same kind,
  and the slots alone are checked with four sessions and two slots.
* One unread permission request and one cancel tool per session at a time; one
  close per session (a second one finds no session unless it looked it up in the same instant).
* Calls that are refused before they do anything (unknown session, locked session, bad
  arguments) are stutters.  A call that queues for the lock behind the timer is the
  same as one that arrives after it.
* The write lock is not modelled apart: a task that waits for it waits, like its owner, for the agent to read.
  The write of a prompt is a task of its own (the turn), so it suspends no handler.
* The order among several tasks that queue for `_cancel_lock` is left open.
* Sessions start registered and running; create and start are in `Lifecycle`.
* A drain whose turn another prompt has replaced is `stale`.  A prompt's own failure path and a
  cancel tool may both be drained by one turn's end; when a captured turn task had ended but
  `_turn_task` was cleared by someone else (`turn = "none"` at `wait`), both outcomes are allowed.
* `Interrupts` says whether a task can be cancelled while it is suspended inside its clean-up:
  the MCP framework's cancel scopes can cancel again at each await, and a client may cancel a
  call that is cleaning up after a timeout.  Where a property is claimed only without it, the
  configuration says `FALSE`.

### AcpTurn and PermissionLedger

| Model | Code |
|---|---|
| `last`, `reply[i]` | `_next_id` and the future in `_pending` of the i-th `session/prompt`; `starting` is a turn whose task has not yet written it |
| `current` | `_turn_task` |
| `pc["op"]`, `pc["tool"]`, `target` | the call (or timer) with the session lock and a cancel tool; the turn each has captured |
| `pending`, `queue` | `pending_permission`, `_permission_queue` |
| `overruns`, `text` | `_stdout_limit_failures`, `TurnBuffers` (how many chunks of which turn) |
| `wire` | the agent's lines in the pipe, in order |
| `agent`, `said`, `turnOf` | the agent's side: what it works on, wrote and asked |
| `told`, `overtaken`, `left` | history: the newest turn whose prompt a `session/cancel` followed; turns whose cancel was written before their prompt; turns on which a `cancel_turn` raised or was cut short |
| `answers`, `decided` | what each request was answered; the requests a caller's decision named |

The agent is external: whenever it has been sent a prompt it may write text, ask, reply, or write a line over
`max_read`, also after the bridge has given the turn up.  ACP updates name the session only,
requests and responses carry ids; the model keeps exactly that difference.  `cancel_turn` is three
steps: enter (tell, reject, capture the turn), wait for its end, and clear.  It may also be left early: when
the rejection cannot be written or `reject_option` raises (`EnterCancel`, with `Leave`), or when its caller is cancelled
while it waits for the lock or the turn (`Interrupt`); then the turn goes on, which `left` records.  The reader and the
waiting call are different tasks, so a future that holds a result (`reply`) and the call that
returns it (`TurnReturns`) are two steps.

`begin_prompt` and the write of the prompt are two steps too (`acp.py:409`).  A cancel tool may act between them:
then `session/cancel` reaches the agent before the prompt it was meant for, and the agent was not told to
cancel that turn.  `Tell` keeps the two apart: `told` counts only turns whose prompt is out (`Sent`), the others
are `overtaken`.

Some orders of the event loop are used.  The turn's task is created before the caller of `begin_prompt` is suspended, so
the caller's cancellation and the reader's first request come after the write of the prompt (`Cancelled`,
`TakeRequest`).  And `Settled`: a cancel whose turn has ended runs on within two
rounds of the event loop, before the agent can react to a prompt that began in the meantime.
Without it a stale cancel would also clear what a *new* turn asked, which asyncio's ready queue
does not allow here; a cancel that is suspended for longer is in `Bridge` (`stale`).

How long a write keeps its caller is a matter of `Bridge`; here a message takes its place among the
others when its write begins.  An answer whose write fails or is cut short is `ResolveCut`.

`fate` maps the state to the ledger: unasked, open, chosen, rejected or dropped.

### Lifecycle

`at[s][t]` is where a task of a session is: the creator, the closer, the task of `close_all`, and
the readers.  `closed` is `_closed`, `raising` says that a `CancelledError` is passing through a
`finally` clause, `proc`, `signal` and `remote` are the local process, the last signal it got, and the
agent behind ssh.  The terminate lock is implicit: a task at `term` or `kill` has it.  `remote` has a
state `missed` because the clean-up knows the agent by a pid file, which a starting agent has not
written yet.  A result file goes from `writing` (in a thread) to `tracked` (in `output_paths`) or `lost`
(the call was cancelled) and, at close, to `removing` and `removed`, or to `left` when an error of `unlink` other than a
missing file ended the removal before it (`FilesRemoved`: `close` raises, `close_all` ignores the error); `late`
remembers which files were not finished when the others were taken.

The `cancel_turn` of a close is `tell` while it waits for the agent to read, or for a task that does, and `drain` while it waits
for the turn, which has a timeout.  Nothing but the agent, the end of its process or a cancellation ends the
first (`AgentReads`, `WriteFails`, `Interrupted`).

Abstractions: one reader stands for stdout and stderr, which differ only in what makes them fail;
owner keys are left out, so all calls are of one owner; the shutdown begins when the calls have
ended, as the MCP framework's lifespan does; a `turn` of this module may end at any time (its details are
`Bridge` and `AcpTurn`); one create, one closer per session.

### Handshake

`pc` is the request `start` or `set_model` waits for; `id` is its id and `answer` its response, which the
reader has dispatched but the task has not yet looked at: updates may be read and applied in
between.  `session`, `modelId`, `modelName` and `names` are the attributes of the client, `previous`
is `set_model`'s local variable.  `locked`, `reported` and `fresh` are history for the properties:
whether the agent asked for a login it has not got, the models it has named, and those in what was
read since the switch was asked for.  A message is what `_update_model_info` looks at plus one flag (`given`:
methods, user or session id, as fits the question).  Aliases of JSON fields are left out; a message lists at most one model.

### Settings and LineFraming

`Settings` holds the pure part of `config.py`: a line is a token (blank, malformed, or a key with a
number, fraction, unit, any of `b` to `gb` and `kib` to `gib`, or word), `Parsed` is a recursive function over the lines, `LoadDefaults` decides by where
the file lies, `SessionConfig` and `ValidateConfig` are what create does with the result.  Durations
are counted in half seconds, so that a fraction survives.  `LineFraming` is the path of a setting to
its effect: load at start-up, a create with arguments, and then the stderr reader of that session framing
bytes with that `max_read` and keeping that many lines.  asyncio's `StreamReader` is external: its
buffer, its limit, and the pausing of the transport at twice the limit; what the code does at each
of its outcomes (`TakeLine`, `Discard`, `TakeRest`) is `acp.py:52-72` and `720-738`.  Stripping the white
space at the end of a kept line is left out: the lines are compared as they were framed.

The check at the end of `validate_config` for an argument after `--acp-transport` can never
fire, because the arguments were searched for that option before; it is not modelled.

## 3. Runs

| Run | Instance | Checks |
|---|---|---|
| `slots` | 4 sessions, 2 slots, fair | `SlotTypeOK`, `SlotConservation`, `OnePlacePerSession`, `NoLostWakeup`, `NoOvertaking`, `EveryWaiterServed`, `ImplementsPool` |
| `bridge` | 2 sessions (one compatible, one eliciting), 1 slot, every tool, interrupts | `TypeOK`, `AcquirerWaits`, `CancelsOneAtATime`, and that the bridge implements `TurnSlots` (`SlotSpec`) |
| `bridge_cleanup` | 2 eliciting sessions, prompt, switch, cancel, close, interrupts; fair | `HeldSlotHasKeeper`, `ClosedHoldsNothing`, `CallsReturn` |
| `bridge_permissions` | one session of each mode, prompt and respond, no interrupts, fair | `SlotCoversTurn`, `PermissionHasKeeper`, `CallsReturn`, `PermissionsExpire` |
| `acp_turn` | 2 turns, 2 requests (one without a reject option), 1 chunk, 1 line in the pipe, tolerance 1 | `OwnResult`, `WholeText`, `NoSilentDrop`, `PendingHasTurn`, `LiveTurnIsTended`, and that it implements `PermissionLedger` (`LedgerSpec`) |
| `lifecycle` | a local session with calls and one file, and an ssh session; fair | `FailedCreateIsHarmless`, `ClosedMeansEnded`, `CutCloseHasSignalled`, `LeftoverIsLate`, `TasksEnd`, `FilesGo` |
| `handshake` | 2 models, 1 name, 5 requests, 1 update, 1 line in the pipe | `RecordIsReported`, `OpenIsLoggedIn`, `SwitchIsReported`, `FailedSwitchKeepsRecord` |
| `framing` | files of up to two lines, streams of up to 6 bytes in chunks of up to 3; fair | `FramedSoFar`, `BufferBounded`, `EverythingFramed`, `LoadedAsWritten` |
| `refused_answer` | prompt and respond | `HeldSlotHasKeeper` is violated |
| `overflow_while_pending` | compatible sessions, prompt only | `SlotBetweenCallsIsTimed` is violated |
| `close_overlap` | prompt and close | `ActiveTurnsBounded` is violated |
| `cleanup_cancelled` | prompt only, interrupts | `ActiveTurnsBounded` is violated |

The scope of the passing runs follows what the code guarantees.  `HeldSlotHasKeeper` is checked
for eliciting sessions without respond, because the two cases outside (`refused_answer`,
`overflow_while_pending`) break it.  `SlotCoversTurn` and `PermissionHasKeeper` are checked
without the cancel tool, close and interrupts, because there the code does not keep them:
close releases first (`close_overlap`); a clean-up that is cancelled releases early
(`cleanup_cancelled`); a cancel tool that finds the timer in the middle of `cancel_turn` cancels
it, and the timer's `finally` releases the slot while the turn is still being drained; and a
cancel of a former turn that is still waiting clears the permission of a new one.

Some properties name an exception, and the exception is a case the code really has, in which they do not hold:

* `SlotCoversTurn` and `PermissionHasKeeper`: an odd permission, on which `reject_option` raised.
* `CallsReturn`, `PermissionsExpire`, `TasksEnd`, `FilesGo`: a task that waits for ever in a write that an agent
  with a live process does not read, and, for the first, in a form or an unanswered `set_model`.  The properties say that
  nothing else keeps a call, and that another session is not kept with it, except by the shutdown.
* `NoSilentDrop`: a cancel that overtook its prompt, one that raised or was cut short (`left`), and a call cancelled
  while it wrote its answer, whose own `cancel_turn` is to follow.  `LiveTurnIsTended`: `left`.
* `LeftoverIsLate`: files that were finished too late; a close whose removal failed does not return.
* `SwitchIsReported`: an acknowledgement without a model, see below.

`ActiveTurnsBounded` counts turns whose process has not been told to end.

The bounds of the other passing runs:

* `bridge_cleanup` and `bridge_permissions` bound how often the agent asks in one turn and how often an answer is
  refused (`MaxEvents`).  Each answer starts the timeouts anew (`server.py:147`, `430`), so an agent that asks for ever
  keeps its turn for ever: `CallsReturn` and `PermissionsExpire` are about finitely many.
* `acp_turn` (2.6 million states): two turns let the first be late in the second; two requests let an answer be meant for
  one and meet the other, and of the two only the first can be rejected; a tolerance of one lets one
  overrun be forgiven and the next end the process.  The view `Relevant` forgets what no step and no property can
  tell apart any more, such as the turn of a request that has its answer.  One line in the pipe is enough for every
  order, because the agent's later lines are written later and the calls may do anything before they are read.
* `lifecycle`: shutdown joins the two sessions, the only thing that relates them.  One
  file suffices, as files do not depend on each other; only the local session has calls, as
  calls and ssh clean-up do not meet.
* `handshake`: five requests are the longest start and one switch, or a shorter start and
  two or three switches, the second after the first was given up.  Two models are "the one before" and "another".
* `framing`: 1024 is scaled down to 2, so that `max_read` is 1, 2 or 3 bytes and a stream of 6
  holds lines below, at and above the limit and the buffer passes twice the limit.  Values in the file are
  of each kind, right and wrong, for each kind of key, and a second line can repeat a key.

Deadlock checking is off where the system really stops: after `MaxEvents` or the last turn the
clients are silent, all sessions are closed, the start has failed, or the stream has ended.
The type invariants of `AcpTurn`, `Handshake` and `Lifecycle` are definitions for the proofs, not run
properties; all three are proved.

### The four disagreements

1. `refused_answer`: a respond when nothing is pending (for example after the turn has ended, or
   a repeated answer) acquires a slot, is refused, arms the timer and raises.  The timer finds
   nothing pending and returns without releasing.  The comment at `server.py:428-429` says the
   re-armed expiry ensures that responses "cannot leak the global turn slot".
2. `overflow_while_pending`: an overlong line clears the pending permission, so the timer that
   guards the slot does nothing (`acp.py:684`, `bridge.py:58`); the README promises that it
   releases the slot.
3. `close_overlap`: `close` gives the slot away before it cancels the turn (`bridge.py:128-129`),
   so for a while more turns run than the README's limit.
4. `cleanup_cancelled`: a handler cancelled in its own clean-up releases the slot of a turn that
   it has neither awaited nor cancelled (`server.py:388-393`).

### Smaller divergences, without a run

* README.md:140 says that a *successful* turn clears the overrun count; the code clears it whenever a turn is
  returned to its caller, a cancelled one too (`acp.py:471`).  An agent that overruns in one turn and has the
  next one cancelled, and so on, is never ended.  No property states either.
* A `session/cancel` may be written before the prompt it is meant for (`acp.py:409`, `519`): the bridge gives the turn up
  after `turn_cancel_timeout_seconds`, the agent works on and waits for answers nobody gives (`overtaken`).
* The comment at `acp.py:526-527` says that no stale local gate is left when there is no reject option; when `reject_option`
  raises on what a request offers, the gate stays, and refuses prompts until a cancel finds it without that option
  or the process ends.
* `switch_codebuddy_model` says the returned model fields come from the agent's "successful ACP response"
  (`server.py:323-324`); a response that names no model succeeds too if an update changed the recorded model meanwhile
  (`acp.py:437-444`), and the older message may be applied last.  `SwitchIsReported` states what the code asks for.
* README.md:186-187 says that tracked files are removed when their session closes or the server shuts down.  A file that
  is tracked after `output_paths` was copied is never removed (`late`), nor are those after one that cannot be
  (`left`), nor one whose call was cancelled while it was written (`lost`).
* An agent that stops reading its input keeps a call, the timer, a close and with it the shutdown for as long as its
  process lives (`acp.py:653-656`), so that an unanswered permission may outlast the timeout of README.md:147.
* `tests/test_config.py` expects the timeout 900 and 80 stderr lines of the shipped `config.yaml`, which says 1800 and 200.

### Fairness

`SlotFairSpec` assumes that a woken task runs and that turns end.  `FairSpec` of `Bridge` assumes weak
fairness of each session's call, timer, close and `cancel_turn` steps: the event loop runs every
task that can run and asyncio fires its timeouts (`wait_for`, `asyncio.wait(timeout=...)`,
`sleep`); and of the failure of a write once the process has ended.  Nothing is assumed of the agent or of the
user: the agent may never answer and never read, a form may stay open, `set_model` may not be
acknowledged.  `CallsReturn` and `PermissionsExpire` rest on the bridge's own timeouts and say where there is none.

`Lifecycle` assumes weak fairness of `Progress(s)`, for each session: its tasks run, the
timeouts of the start, of the drain, of the termination and of the clean-up fire, and a process that got SIGKILL
ends.  A session can take such steps only finitely often, so it is enough that they
are not neglected for ever.  Nothing is assumed of the agent (`AgentReads` and, before a SIGKILL, `ProcEnds` are not
fair), of SIGTERM, or of ssh.  `LineFraming`
assumes that the reader task runs when there is something for it and that the event loop
delivers what is in the pipe; not that the agent ever writes or exits.

## 4. Proofs

`tlapm` checks these for every finite set of sessions, every positive `MaxConcurrency`, every choice
of tools, approval modes, interrupts, requests, tolerances, chunk sizes and bounds.  What is assumed
of the constants is in the named assumptions of the modules (`SlotsAssumption`, `BridgeAssumption`,
`TurnAssumption`, `HandshakeAssumption`, `LifecycleAssumption`, `SettingsAssumption`, `FramingAssumption`)
and, for four theorems about `Bridge`, in the theorem itself.  Every inductive invariant below was first checked by TLC on the
instance of the run that has the property.

Every safety property of the passing runs is a theorem.

### TurnSlots

* **Slots.**  `SlotInv` is the conjunction of the types, the conservation of permits, one place per
  session, and no free permit while somebody waits.  None of the last three is inductive alone:
  conservation needs that the head of the queue is not already granted or holding, that needs the
  queue to be without duplicates, and `free <= MaxConcurrency` follows only from conservation.
  Each operation keeps it (`...KeepsInv`); `HandOverKeepsInv` is shared by release and
  withdrawal.  Hence `SlotsTypeCorrect`, `SlotsConserved`, `OnePlace`, `WakeupsNotLost`.
* **Order.**  A step that serves somebody of the queue serves its head (`OnlyHeadIsServed`), and in a
  queue without duplicates nobody is ahead of the head.  Hence `ArrivalOrderKept`.
* **Refinement.**  With `users = granted \cup held`, each operation is `Take`, `Give`, `Pass` or a
  stutter of `SlotPool` (`SlotStepIsPoolStep`), so `SlotsImplementPool`.

### Bridge

* **Discipline.**  The slots of the bridge are changed by many actions, but each of them reduces to one
  `SlotMove`: what it does to the slots together with whether the op task is inside
  `acquire_turn` before and after.  The `...Moves` lemmas do that reduction, one per operator and
  action; `SlotMoveIsSlotStep` shows once that such a move keeps
  `BridgeInv == SlotInv /\ PcType /\ AcquirerWaits` and is a step of `TurnSlots`.
  `AcquirerWaits` is needed because `TurnSlots` asks that a session acquires only when it is not
  already queued or granted, and that is what the session lock provides.  Hence `AcquirersWait`,
  `BridgeImplementsSlots`, `BridgeConservesSlots`.
* **Types.**  `DataOK` types the other variables, which gives `BridgeTypeCorrect`.
* **One canceller.**  `OneCanceller` is a predicate on one session's row of `pc`.  `RowMoves` and
  `RowDisarms` show which changes of a row keep it, the `Quiet...` lemmas lift that to the moves the
  actions are made of, and each action is shown to be such a move: the cancel lock is entered
  only when it is free (`CancelLocked`), a call starts only while the timer has not got the
  session lock, and the timer gets to work only while no call has it.  Hence `OneCancelAtATime`.
* **One session at a time.**  A step of one session leaves the others their tasks, client and flags, and of
  their slots at most hands one to a waiter (`StepElsewhere`).  So an invariant on each
  session's own row needs to be proved for the steps of that session only.  Three such
  invariants follow.
* **After a close.**  `ProcessLeft`: the process of a session that is no longer registered is up only while
  its close is at work; this needs no hypothesis.  `SlotLeft`: its slot is held only by a call that is in
  `cancel_turn` already and releases it at its end.  Hence `ClosedSessionsHoldNothing`, for tools without
  respond.
* **Keepers of a slot.**  `Kept`: where no timer is ever armed and no answer refused, a session with a slot
  has a call that waits, asks the user or cancels.  Hence `HeldSlotsAreKept`, for eliciting sessions
  and tools without respond.
* **Keepers of a permission and of a turn.**  `Covered` says of a registered session that no cancel_turn
  of it meets another; that its call works on a turn only with the slot; that a pending plain
  permission of a live agent comes with a slot and with a call or timer at work that has yet to settle it; and that
  a turn of a live agent has its slot unless an odd permission is left pending, which is what `reject_option` leaves
  when it raises: until a cancel gets past it, no prompt begins a new turn.
  Neither half is inductive without the other: a timer that gives its slot back is harmless
  because it has cleared the permission first, and a call that begins a turn may do so because no
  permission is pending.  Hence `PermissionsAreKept` for tools without cancel and for clean-ups that are not
  cancelled, closes included, and `TurnsAreCovered` for those without cancel, close and interrupts.

The hypotheses of these four theorems are what the code needs, not what the proof needs: the violating
runs show the first two and the close and interrupts of the fourth to be necessary (`refused_answer`,
`overflow_while_pending`, `close_overlap`, `cleanup_cancelled`), and with the cancel tool TLC finds
both properties of the last item violated, in the way section 3 describes.  The theorems cover the
instances of `bridge_cleanup` and `bridge_permissions`.

### AcpTurn

* **Who has the turn.**  `TurnInv` adds to the types and the invariants themselves: turns begin one after the other,
  each when the former is over (`Numbered`); the agent knows of no turn before its prompt (`Informed`); a response on the
  wire is the agent's last word on its turn (`RepliesAreLast`); a turn that is over for the bridge is over for the agent, or a
  `session/cancel` was written for it, in time or too early (`Warned`, `EndedOrTold`); the session's call waits for the
  newest turn (`OpWaits`); and whoever drains a turn drains the current one, or one that has ended while a call has the newer
  or has left it (`Drains`).  The last is why
  `LiveTurnIsTended` is not inductive alone: a cancel that was queued behind another may come to
  clear a turn it was not called for.  `NoSilentDrop` needs `EndedOrTold`, and that a drain has warned the agent of every
  turn it asked in.  All calls of
  `cancel_turn` share `CancelKeepsInv`, which includes those that raise; `InterruptKeepsInv` is for those that are cut short;
  all lines of the agent share `WritingKeepsInv`.
* **The ledger.**  A request is on the wire, in the queue or pending, in one of them and once
  (`InOnePlace`); as long as it is, it was asked and has no answer (`AnsweredOnce`).  So each step moves
  requests from one place to the next, settles one, or forgets some, and each of these is a step of
  `PermissionLedger` or a stutter (`Moves`, `Settles`, `Forgets`).  Hence `RequestsAreSettledOnce`.
* **Whole texts.**  For the newest turn, the chunks in the buffers and on the wire together are those the
  agent wrote; none comes behind its response (`NoneAfter`); chunks of other turns are of turns that
  were given up or failed (`TextInv`).  When the call returns the result, nothing of its turn is on the wire,
  so all is in the buffers.  Hence `ResultsAreWhole`.

### Handshake

`HandshakeInv` adds to the types: everything on its way or dispatched is known as named
(`NamedIsReported`); during the start the one request that is out is the newest and is unanswered
(`InOrder`); what each phase knows about logins, including from answers not yet looked at
(`LoginKnown`); and, while a switch is out, the recorded model is the former one or fresh
(`FreshIsNoted`).  `OpenIsLoggedIn` alone is not inductive: whether a session may be opened is decided by
answers that were written several steps earlier.  `AskKeepsInv`, `StopKeepsInv`, `ReaderKeepsInv` and
`WriteKeepsInv` are the four kinds of steps.  Hence `RecordsAreReported`, `OpenedLoggedIn`,
`SwitchesAreReported`, `FailedSwitchesKeep`, for all models, names and bounds.

### Lifecycle

`LifeInv` is a conjunction of one invariant per session, and a step is one of one task of one session
(`Step`, `StepKeepsInv`).  It says where each task can be (`PlacesInv`) and that nobody closes what is being
created (`StartInv`); that a session leaves the registry by the one task that closes it, and that
the shutdown finds closed only what a cut create left (`RegistryInv`); that whoever waits for the process has
seen it signalled and whoever cleans up behind ssh has seen it end (`TermInv`); that who is
through with close has seen everything end (`EndInv`); and which files are late, and that none that was not late is
tracked or left once a close is `done`: one that could not be removed makes the close fail (`FileInv`).  `ClosedMeansEnded`
needs `TermInv`, because the task that returns is often not the one that terminated the
process, and `RegistryInv`, because a second close returns at once.  Hence
`NoFailedCreateIsUsable`, `ReturnedCloseIsFinal`, `NoCloseStopsTooEarly`, `OnlyLateFilesAreLeft`.

### Settings and LineFraming

`SettingsAssumption` says of the code's own defaults that there is one for each key and that they would
pass the check of a file (`config.py` has them as constants); `FramingAssumption` says that files consist of
lines, whatever they say, and that the sizes and numbers given to create are whole, as the types of its
arguments have it.

* **Settings.**  `ParsedTo` says what the first `n` lines come to: a function of the keys they
  say, with the values they say, if each passes and no key is repeated, and a refusal otherwise.
  That it holds for all lines is not proved by induction, which needs a theorem with an operator as
  parameter, but by the least counterexample: a set of line numbers that is not empty has a
  least one (`LeastIndex`), and `ParsedOneMore` shows that this is not one at which `ParsedTo` fails.
  The same argument shows that the recursive function exists (`ParsedByLine`).  `LineIsConverted` compares
  the conversion and the check of one line with what the line says, for all numbers, units and `KiB`, and
  `AcceptedConfigPasses` the check of the file with that of create.  Hence `SettingsAreAsWritten`.
* **Buffer.**  The transport feeds only while it is not paused, and while it is not paused the buffer is
  within twice the limit (`FlowInv`); the limit is a natural number because loading and create have both
  checked it (`FreshInv`).  Hence `BufferStaysBounded`.
* **Lines.**  `LinesInv` ties the reader to the whole stream.  Taken out of the buffer are its first `gone` bytes,
  and what follows lies in the buffer and behind it in the pipe, in order (`Flows`).  The lines taken end
  with some byte `c`; between `c` and `gone` there is no newline, and there is nothing at all unless the reader has
  `overflowed`, and then it is more than the limit (`TakenTo`): that is why a line is found too long
  however its bytes come in, and why the marker takes the place of exactly one line.  The number of
  lines taken is the number of ends up to `c`.  The tail holds the last of them (`TailIsLast`), which stay
  what they are when the stream goes on: ends are added behind the others only (`LineStays`,
  `StreamGrows`), and at the end of the stream its last byte is one.  Hence `LinesAreKept`.

### Only model-checked

* The liveness properties (`EveryWaiterServed`, `CallsReturn`, `PermissionsExpire`, `TasksEnd`, `FilesGo`,
  `EverythingFramed`): fairness and ENABLED are outside the prover's reach.

## 5. Plan

Done: the modules, runs and proofs above.  What would say more, in this order:

1. The life of a turn in `Bridge` as an abstraction of `AcpTurn`, stated as a refinement for one session.

## 6. Not modelled

Launch command assembly and quoting, the text of the remote clean-up command, the working-directory
form, tool summaries, owner keys, comments, quotes and the regular expressions of configuration
lines, the refusal of other methods of the agent, logging, packaging and the example scripts: string
handling or plain I/O without interaction.  Real time is not modelled: a timeout may fire
whenever its wait has not ended, which covers every value of the configured durations.  Windows
process handling is left out.
