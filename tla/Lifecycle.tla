---- MODULE Lifecycle ----
(***************************************************************************)
(* Bridge sessions from create to close: the registry, the start of the    *)
(* agent's process, AcpClient.close with its escalation of signals and its *)
(* remote clean-up, the readers that may terminate the process themselves, *)
(* and the result files that go with a session.  What is said to the agent *)
(* during the start is in Handshake, what happens in a turn in Bridge.     *)
(***************************************************************************)
EXTENDS Naturals

CONSTANTS Sessions,
          Remote,      \* the sessions with launch_mode ssh
          Readers,     \* the tasks that read the process: stdout, stderr
          Prompted,    \* bound: the sessions that get calls
          Files        \* bound on the result files of one session

VARIABLES at,          \* where each task of a session is
          raising,     \* a CancelledError is passing through the task
          registered,  \* the keys of _sessions
          closed,      \* _closed of the client
          proc,        \* the local process: none, up or dead
          signal,      \* the last signal it was sent
          remote,      \* the agent behind ssh
          call,        \* a prompt or respond: none, turn or writing
          file,        \* each result file; tracked: it is in output_paths;
                       \* left: it was, and could not be removed
          late,        \* the files not yet written when the others were taken
          down         \* the server is shutting down

registry == <<raising, registered, closed, down>>
process == <<proc, signal, remote>>
results == <<call, file, late>>
vars == <<at, registry, process, results>>

\* create_codebuddy_session, close_codebuddy_session, close_all
Closers == {"creator", "closer", "shutdown"}
Tasks == Closers \cup Readers

Terminating == {"term", "kill"}
Over == {"none", "created", "failed", "done", "cut"}

ASSUME LifecycleAssumption == Remote \subseteq Sessions /\ Readers \cap Closers = {}

Init == /\ at = [s \in Sessions |-> [t \in Tasks |-> "none"]]
        /\ raising = [s \in Sessions |-> [t \in Closers |-> FALSE]]
        /\ registered = {}
        /\ closed = [s \in Sessions |-> FALSE]
        /\ proc = [s \in Sessions |-> "none"]
        /\ signal = [s \in Sessions |-> "none"]
        /\ remote = [s \in Sessions |-> "none"]
        /\ call = [s \in Sessions |-> "none"]
        /\ file = [s \in Sessions |-> [f \in Files |-> "none"]]
        /\ late = [s \in Sessions |-> {}]
        /\ down = FALSE

Goto(s, t, l) == at' = [at EXCEPT ![s][t] = l]

(***************************************************************************)
(* cleanup_output_paths                                                    *)
(***************************************************************************)
\* Mutant: a client whose process had ended by itself is left alone.
TakeFilesIfSignalled(s) ==
  /\ file' = [file EXCEPT ![s] = [f \in Files |->
       IF @[f] = "tracked" /\ signal[s] # "none" THEN "removing" ELSE @[f]]]
  /\ late' = [late EXCEPT ![s] = {f \in Files : file[s][f] \in {"none", "writing"}}]

\* output_paths is copied and cleared; a thread then removes the files.
TakeFiles(s) ==
  /\ file' = [file EXCEPT ![s] = [f \in Files |->
       IF @[f] = "tracked" THEN "removing" ELSE @[f]]]
  /\ late' = [late EXCEPT ![s] = {f \in Files : file[s][f] \in {"none", "writing"}}]

Taken(s) == {f \in Files : file[s][f] = "removing"}

\* An error of unlink other than a missing file ends the removal and leaves
\* the rest: the tool that closes reports it, close_all does not.  A
\* cancellation meanwhile ends the task but not the thread.
FilesRemoved(s, t) ==
  /\ at[s][t] = "files"
  /\ \E gone \in SUBSET Taken(s) :
       /\ file' = [file EXCEPT ![s] = [f \in Files |->
            IF f \in gone THEN "removed" ELSE IF f \in Taken(s) THEN "left" ELSE @[f]]]
       /\ \/ Goto(s, t, IF gone # Taken(s) /\ t = "closer" THEN "failed" ELSE "done")
          \/ t = "closer" /\ Goto(s, t, "cut")
  /\ UNCHANGED <<registry, process, call, late>>

(***************************************************************************)
(* AcpClient.close                                                         *)
(***************************************************************************)
\* What the caller does when close has returned or raised: a failed create
\* reports its error, registry.close removes the files, and close_all first
\* waits for the other sessions.
AfterClose(s, t) ==
  CASE raising'[s][t] -> "cut"
    [] t = "creator" /\ ~raising'[s][t] -> "failed"
    [] t = "closer" /\ ~raising'[s][t] -> IF \E f \in Files : file[s][f] = "tracked"
                                          THEN "files" ELSE "done"
    [] t = "shutdown" /\ ~raising'[s][t] -> "gathered"

ReadersStopped(row) ==
  [t \in Tasks |-> IF t \in Readers /\ row[t] # "none" THEN "done" ELSE row[t]]

LeaveClose(s, t, row) ==
  /\ at' = [at EXCEPT ![s] = [row EXCEPT ![t] = AfterClose(s, t)]]
  /\ IF t = "closer" /\ ~raising'[s][t] THEN TakeFiles(s) ELSE UNCHANGED <<file, late>>

\* After _terminate_process comes the remote clean-up, for ssh sessions; then
\* a reader ends, and close stops the readers.
AfterTerminate(s, t) ==
  \/ /\ s \in Remote
     /\ Goto(s, t, "remote")
     /\ UNCHANGED <<file, late>>
  \/ /\ s \notin Remote /\ t \in Readers
     /\ Goto(s, t, "done")
     /\ UNCHANGED <<file, late>>
  \/ /\ s \notin Remote /\ t \in Closers
     /\ LeaveClose(s, t, ReadersStopped(at[s]))

TerminateLocked(s) == \E t \in Tasks : at[s][t] \in Terminating

\* Mutant: who finds the lock taken leaves the termination to its holder.
TerminateOnce(s, t) ==
  \/ /\ TerminateLocked(s) \/ proc[s] # "up"
     /\ AfterTerminate(s, t)
     /\ UNCHANGED signal
  \/ /\ ~TerminateLocked(s) /\ proc[s] = "up"
     /\ signal' = [signal EXCEPT ![s] = "term"]
     /\ Goto(s, t, "term")
     /\ UNCHANGED <<file, late>>

\* _terminate_process: under its lock, a running process gets a SIGTERM.
Terminate(s, t) ==
  \/ /\ TerminateLocked(s)
     /\ Goto(s, t, "lock")
     /\ UNCHANGED <<signal, file, late>>
  \/ /\ ~TerminateLocked(s) /\ proc[s] # "up"
     /\ AfterTerminate(s, t)
     /\ UNCHANGED signal
  \/ /\ ~TerminateLocked(s) /\ proc[s] = "up"
     /\ signal' = [signal EXCEPT ![s] = "term"]
     /\ Goto(s, t, "term")
     /\ UNCHANGED <<file, late>>

\* A failed create unregisters its session when close is done.
Unregister == registered' = {s \in registered : at'[s]["creator"] # "failed"}

TakeTerminateLock(s, t) ==
  /\ at[s][t] = "lock" /\ ~TerminateLocked(s)
  /\ UNCHANGED <<raising, closed, down, proc, remote, call>>
  /\ Terminate(s, t)
  /\ Unregister

\* Mutant: the wait begins again.
TermTimesOutGently(s, t) ==
  /\ at[s][t] = "term"
  /\ UNCHANGED vars

\* It is still there after local_process_terminate_timeout_seconds: SIGKILL.
TermTimesOut(s, t) ==
  /\ at[s][t] = "term"
  /\ signal' = [signal EXCEPT ![s] = "kill"]
  /\ Goto(s, t, "kill")
  /\ UNCHANGED <<registry, proc, remote, results>>

Terminated(s, t) ==
  /\ at[s][t] \in Terminating /\ proc[s] = "dead"
  /\ UNCHANGED <<raising, closed, down, process, call>>
  /\ AfterTerminate(s, t)
  /\ Unregister

\* _cleanup_remote_process knows the agent by its pid file, which an agent
\* that is still starting has not written; and ssh may fail or time out.
RemoteCleaned(s, t) ==
  /\ at[s][t] = "remote"
  /\ remote' \in { [remote EXCEPT ![s] = IF @ \in {"running", "missed"} THEN "ended"
                                         ELSE IF @ = "starting" THEN "missed" ELSE @],
                   [remote EXCEPT ![s] = IF @ \in {"starting", "running"} THEN "missed"
                                         ELSE @] }
  /\ UNCHANGED <<raising, closed, down, proc, signal, call>>
  /\ \/ /\ t \in Readers
        /\ Goto(s, t, "done")
        /\ UNCHANGED <<file, late>>
     \/ /\ t \in Closers
        /\ LeaveClose(s, t, ReadersStopped(at[s]))
  /\ Unregister

\* close does nothing the second time; an established session has its turn
\* cancelled first.  cancel_turn waits for its lock and in its writes, both for
\* as long as the agent does not read ("tell"), and a bounded time for the turn
\* to end ("drain"); it may have nothing to wait for, or raise at once.
Close(s, t) ==
  /\ closed' = [closed EXCEPT ![s] = TRUE]
  /\ \/ /\ closed[s]
        /\ LeaveClose(s, t, at[s])
        /\ UNCHANGED signal
     \/ /\ ~closed[s] /\ proc[s] = "up" /\ at[s]["creator"] = "created"
        /\ \E l \in {"tell", "drain"} : Goto(s, t, l)
        /\ UNCHANGED <<signal, file, late>>
     \/ /\ ~closed[s]
        /\ Terminate(s, t)

\* The agent reads what was written, or who held the lock lets go of it.
AgentReads(s, t) ==
  /\ at[s][t] = "tell" /\ proc[s] = "up"
  /\ UNCHANGED <<raising, registered, closed, down, proc, remote, call>>
  /\ \/ Goto(s, t, "drain") /\ UNCHANGED <<signal, file, late>>
     \/ Terminate(s, t)

\* The pipe breaks with the process, and drain raises.
WriteFails(s, t) ==
  /\ at[s][t] = "tell" /\ proc[s] # "up"
  /\ UNCHANGED <<raising, registered, closed, down, proc, remote, call>>
  /\ Terminate(s, t)

\* cancel_turn has returned, or raised an error.
Drained(s, t) ==
  /\ at[s][t] = "drain"
  /\ UNCHANGED <<raising, registered, closed, down, proc, remote, call>>
  /\ Terminate(s, t)

\* Mutant: the termination is not in a finally clause.
InterruptedUnended(s, t) ==
  /\ t \in {"creator", "closer"}
  /\ raising' = [raising EXCEPT ![s][t] = TRUE]
  /\ at[s][t] \in {"tell", "drain", "lock", "remote"} \cup Terminating
  /\ Goto(s, t, "cut")
  /\ UNCHANGED <<signal, file, late, registered, closed, down, proc, remote, call>>

\* The calling task is cancelled in cancel_turn, after which close goes on,
\* or at a later wait, which cuts it short.
Interrupted(s, t) ==
  /\ t \in {"creator", "closer"}
  /\ raising' = [raising EXCEPT ![s][t] = TRUE]
  /\ \/ /\ at[s][t] \in {"tell", "drain"}
        /\ Terminate(s, t)
     \/ /\ at[s][t] \in {"lock", "remote"} \cup Terminating
        /\ Goto(s, t, "cut")
        /\ UNCHANGED <<signal, file, late>>
  /\ UNCHANGED <<registered, closed, down, proc, remote, call>>

(***************************************************************************)
(* create_codebuddy_session                                                *)
(***************************************************************************)
Create(s) ==
  /\ ~down /\ at[s]["creator"] = "none"
  /\ registered' = registered \cup {s}
  /\ Goto(s, "creator", "launch")
  /\ UNCHANGED <<raising, closed, down, process, results>>

Launched(s) ==
  /\ at[s]["creator"] = "launch"
  /\ proc' = [proc EXCEPT ![s] = "up"]
  /\ remote' = [remote EXCEPT ![s] = IF s \in Remote THEN "starting" ELSE @]
  /\ at' = [at EXCEPT ![s] = [t \in Tasks |-> IF t \in Readers THEN "reading"
                                              ELSE IF t = "creator" THEN "handshake" ELSE "none"]]
  /\ UNCHANGED <<registry, signal, results>>

\* start raises before there is a process: the session is unregistered, and
\* its client closed after that.
LaunchFails(s) ==
  /\ at[s]["creator"] = "launch"
  /\ closed' = [closed EXCEPT ![s] = TRUE]
  /\ registered' = registered \ {s}
  /\ Goto(s, "creator", IF s \in Remote THEN "remote" ELSE "failed")
  /\ UNCHANGED <<raising, down, process, results>>

\* The call is cancelled: asyncio ends the process it was launching, and
\* neither start nor create has a clause for it.
LaunchCancelled(s) ==
  /\ at[s]["creator"] = "launch"
  /\ Goto(s, "creator", "cut")
  /\ UNCHANGED <<registry, process, results>>

\* The last response of the handshake is read; start returns in a later step.
Answered(s) ==
  /\ at[s]["creator"] = "handshake"
  /\ \A r \in Readers : at[s][r] = "reading"
  /\ Goto(s, "creator", "answered")
  /\ UNCHANGED <<registry, process, results>>

Created(s) ==
  /\ at[s]["creator"] = "answered"
  /\ Goto(s, "creator", "created")
  /\ UNCHANGED <<registry, process, results>>

\* Mutant: start closes the client for errors only, like create.
StartFailsUncaught(s) ==
  /\ at[s]["creator"] \in {"handshake", "answered"}
  /\ UNCHANGED <<down, proc, remote, call>>
  /\ \/ /\ UNCHANGED raising
        /\ Close(s, "creator")
     \/ /\ raising' = [raising EXCEPT ![s]["creator"] = TRUE]
        /\ Goto(s, "creator", "cut")
        /\ UNCHANGED <<closed, signal, file, late>>
  /\ Unregister

\* An error, the startup timeout or a cancellation of the call: start closes
\* the client and lets the exception pass.
StartFails(s) ==
  /\ at[s]["creator"] \in {"handshake", "answered"}
  /\ UNCHANGED <<down, proc, remote, call>>
  /\ \E cancelled \in BOOLEAN : raising' = [raising EXCEPT ![s]["creator"] = cancelled]
  /\ Close(s, "creator")
  /\ Unregister

(***************************************************************************)
(* close_codebuddy_session and close_all                                   *)
(***************************************************************************)
CloseSession(s) ==
  /\ s \in registered
  /\ at[s]["creator"] = "created"
  /\ registered' = registered \ {s}
  /\ UNCHANGED <<raising, down, proc, remote, call>>
  /\ Close(s, "closer")

\* The server's lifespan ends when its calls have.
Shutdown ==
  /\ ~down
  /\ \A s \in Sessions : /\ call[s] = "none"
                         /\ at[s]["creator"] \in Over /\ at[s]["closer"] \in Over
  /\ down' = TRUE
  /\ registered' = {}
  /\ at' = [s \in Sessions |-> IF s \in registered THEN [at[s] EXCEPT !["shutdown"] = "closing"]
                                                   ELSE at[s]]
  /\ UNCHANGED <<raising, closed, process, results>>

ShutdownCloses(s) ==
  /\ at[s]["shutdown"] = "closing"
  /\ UNCHANGED <<raising, registered, down, proc, remote, call>>
  /\ Close(s, "shutdown")

\* Mutant: sessions that were closed earlier are waited for as well.
GatheredWithAll(s) ==
  /\ \A u \in Sessions : at[u]["shutdown"] \in {"gathered", "files", "done"}
  /\ at[s]["shutdown"] = "gathered"
  /\ TakeFiles(s)
  /\ Goto(s, "shutdown", "files")
  /\ UNCHANGED <<registry, process, call>>

\* The first gather of close_all is over: the files are removed.
Gathered(s) ==
  /\ \A u \in Sessions : at[u]["shutdown"] \in {"none", "gathered", "files", "done"}
  /\ at[s]["shutdown"] = "gathered"
  /\ TakeFiles(s)
  /\ Goto(s, "shutdown", "files")
  /\ UNCHANGED <<registry, process, call>>

(***************************************************************************)
(* Calls that leave a result file                                          *)
(***************************************************************************)
BeginCall(s) ==
  /\ s \in registered \cap Prompted /\ at[s]["creator"] = "created" /\ proc[s] = "up"
  /\ call[s] = "none"
  /\ call' = [call EXCEPT ![s] = "turn"]
  /\ UNCHANGED <<at, registry, process, file, late>>

\* The result is small, or there is none.
CallReturns(s) ==
  /\ call[s] = "turn"
  /\ call' = [call EXCEPT ![s] = "none"]
  /\ UNCHANGED <<at, registry, process, file, late>>

\* _externalize_result writes it to a file, in a thread.
WriteResult(s, f) ==
  /\ call[s] = "turn" /\ file[s][f] = "none"
  /\ call' = [call EXCEPT ![s] = "writing"]
  /\ file' = [file EXCEPT ![s][f] = "writing"]
  /\ UNCHANGED <<at, registry, process, late>>

\* The call has the path and records it; if it was cancelled the thread
\* writes the file all the same and nobody records it.
ResultWritten(s, f) ==
  /\ call[s] = "writing" /\ file[s][f] = "writing"
  /\ call' = [call EXCEPT ![s] = "none"]
  /\ \E l \in {"tracked", "lost"} : file' = [file EXCEPT ![s][f] = l]
  /\ UNCHANGED <<at, registry, process, late>>

(***************************************************************************)
(* The process and its readers                                             *)
(***************************************************************************)
\* It ends by itself or by a signal; it may ignore SIGTERM.
ProcEnds(s) ==
  /\ proc[s] = "up"
  /\ proc' = [proc EXCEPT ![s] = "dead"]
  /\ UNCHANGED <<at, registry, signal, remote, results>>

\* The agent behind ssh is running once its shell has written the pid file.
RemoteStarts(s) ==
  /\ remote[s] = "starting"
  /\ remote' = [remote EXCEPT ![s] = "running"]
  /\ UNCHANGED <<at, registry, proc, signal, results>>

\* End of file
ReaderEnds(s, r) ==
  /\ at[s][r] = "reading"
  /\ Goto(s, r, "done")
  /\ UNCHANGED <<registry, process, results>>

\* An error, or an overrun too many: the reader terminates the process.
ReaderFails(s, r) ==
  /\ at[s][r] = "reading"
  /\ UNCHANGED <<registry, proc, remote, call>>
  /\ Terminate(s, r)

(***************************************************************************)
(* The specification                                                       *)
(***************************************************************************)
LaunchStep(s) == Launched(s) \/ LaunchFails(s) \/ LaunchCancelled(s)
StartStep(s) == Answered(s) \/ Created(s) \/ StartFails(s)
CloseStep(s, t) == \/ WriteFails(s, t) \/ Drained(s, t) \/ TakeTerminateLock(s, t) \/ TermTimesOut(s, t)
                   \/ Terminated(s, t) \/ RemoteCleaned(s, t) \/ FilesRemoved(s, t)
CallStep(s) == \/ BeginCall(s) \/ CallReturns(s)
               \/ \E f \in Files : WriteResult(s, f) \/ ResultWritten(s, f)
ShutdownStep(s) == ShutdownCloses(s) \/ Gathered(s)

Next == \/ \E s \in Sessions : \/ Create(s) \/ LaunchStep(s) \/ StartStep(s)
                               \/ CloseSession(s) \/ ShutdownStep(s) \/ CallStep(s)
                               \/ ProcEnds(s) \/ RemoteStarts(s)
                               \/ \E t \in Tasks : \/ CloseStep(s, t) \/ AgentReads(s, t)
                                                \/ Interrupted(s, t)
                               \/ \E r \in Readers : ReaderEnds(s, r) \/ ReaderFails(s, r)
        \/ Shutdown

Spec == Init /\ [][Next]_vars

\* What goes on in a session without new calls: tasks that can run do, the
\* timeouts of the start, the termination and the clean-up fire, and SIGKILL
\* ends a process.  Nothing is assumed of the agent: it need not read.  Each
\* session has finitely many of these steps, so it is enough that they are not
\* neglected for ever.
Progress(s) == \/ LaunchStep(s) \/ StartStep(s) \/ ShutdownStep(s)
               \/ \E t \in Tasks : CloseStep(s, t)
               \/ signal[s] = "kill" /\ ProcEnds(s)

FairSpec == Spec /\ \A s \in Sessions : WF_vars(Progress(s))

(***************************************************************************)
(* Properties                                                              *)
(***************************************************************************)
Labels == Over \cup Terminating
            \cup {"launch", "handshake", "answered", "reading", "closing", "gathered",
                  "tell", "drain", "lock", "remote", "files"}

\* Every variable keeps its type, and a reader has a process to read
\* (the assertions at acp.py:661 and 722).
TypeOK ==
  /\ at \in [Sessions -> [Tasks -> Labels]]
  /\ raising \in [Sessions -> [Closers -> BOOLEAN]]
  /\ registered \subseteq Sessions
  /\ closed \in [Sessions -> BOOLEAN]
  /\ proc \in [Sessions -> {"none", "up", "dead"}]
  /\ signal \in [Sessions -> {"none", "term", "kill"}]
  /\ remote \in [Sessions -> {"none", "starting", "running", "missed", "ended"}]
  /\ call \in [Sessions -> {"none", "turn", "writing"}]
  /\ file \in [Sessions -> [Files -> {"none", "writing", "tracked", "lost", "removing", "removed",
                                   "left"}]]
  /\ late \in [Sessions -> SUBSET Files]
  /\ down \in BOOLEAN
  /\ \A s \in Sessions, r \in Readers : at[s][r] # "none" => proc[s] # "none"

\* README.md:82-83: a create that failed leaves no usable session behind.  Its
\* process has ended or been told to, also when the call was cancelled, which
\* leaves the closed client in the registry (server.py:292).
FailedCreateIsHarmless ==
  \A s \in Sessions :
    at[s]["creator"] \in {"failed", "cut"}
      => /\ proc[s] = "up" => signal[s] # "none"
         /\ at[s]["creator"] = "failed" => s \notin registered

Closed(s) == \/ at[s]["creator"] = "failed"
             \/ at[s]["closer"] \in {"files", "done", "failed"}
             \/ at[s]["shutdown"] \in {"gathered", "files", "done"}

WasCut(s) == \E t \in Closers : at[s][t] = "cut"

\* When a close has returned and no cancellation cut it short, the process has
\* ended, although a reader may have been the one that was terminating it, and
\* the agent behind ssh has ended unless the clean-up could not reach it or
\* came before its pid file (acp.py:577-646).
ClosedMeansEnded ==
  \A s \in Sessions : Closed(s) /\ ~WasCut(s)
                        => /\ proc[s] # "up"
                           /\ remote[s] \in {"none", "missed", "ended"}

\* A close that was cut short can never be repeated: it must have told the
\* process to end before (acp.py:554-564).
CutCloseHasSignalled ==
  \A s \in Sessions : closed[s] /\ WasCut(s) /\ proc[s] = "up" => signal[s] # "none"

\* README.md:186-187 has the tracked files removed when their session closes or
\* the server shuts down.  The shutdown, which comes when the calls are over,
\* leaves none in output_paths.  A close that returns leaves those that were
\* not finished when its removal began, which no later removal finds, so that
\* they outlive the server (bridge.py:88-97, server.py:210-213).  What unlink
\* could not remove is in nobody's list any more ("left"), and neither is the
\* file of a call that was cancelled while it was written ("lost").
LeftoverIsLate ==
  \A s \in Sessions, f \in Files :
    /\ at[s]["closer"] = "done" /\ file[s][f] \in {"tracked", "left"}
         => f \in late[s]
    /\ at[s]["shutdown"] = "done" => file[s][f] # "tracked"

\* A close waits in cancel_turn for an agent that runs and does not read, and
\* close_all for such a close: neither has a timeout (acp.py:653-656).
Stuck(s) ==
  \E u \in Sessions, t \in Closers :
    /\ at[u][t] = "tell" /\ proc[u] = "up"
    /\ \/ u = s
       \/ t = "shutdown" /\ at[s]["shutdown"] = "gathered"

\* Every create, close and shutdown ends, though the agent never answers and
\* ignores SIGTERM and though ssh hangs, or else it is stuck for good because
\* the agent does not read.  (Each session has one of each: from some point on
\* nothing else is left.)
Resting(s) == \A t \in Closers : at[s][t] \in Over
TasksEnd == <>[](\A s \in Sessions : Resting(s) \/ Stuck(s))

\* From some point on the sessions that are or were being closed have no
\* tracked file but late ones, unless the close was cut short or is stuck.
FilesGo ==
  <>[](\A s \in Sessions, f \in Files :
         closed[s] /\ file[s][f] \in {"tracked", "removing"}
           => f \in late[s] \/ WasCut(s) \/ Stuck(s))
====
