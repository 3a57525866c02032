---- MODULE LifecycleProofs ----
(***************************************************************************)
(* Proofs about Lifecycle for any sessions, readers and files.  The        *)
(* invariant speaks of one session at a time: SessionInv is proved for the *)
(* session a step is about, from the few ways in which a task of it can    *)
(* move (Step); the other sessions keep their rows.                        *)
(***************************************************************************)
EXTENDS Lifecycle, TLAPS

(***************************************************************************)
(* The inductive invariant                                                 *)
(***************************************************************************)
\* The process has ended, and so has the agent behind ssh, as far as the
\* clean-up could reach it.
Ended(s) == proc[s] # "up" /\ remote[s] \in {"none", "missed", "ended"}

\* The process has ended or has been told to.
Told(s) == proc[s] = "up" => signal[s] # "none"

\* What becomes of a result file.
Fates == {"none", "writing", "tracked", "lost", "removing", "removed", "left"}

\* The waits of AcpClient.close from its termination on.
Waits == {"lock", "term", "kill", "remote"}

\* Where create has not come to an end yet, nor failed.
Starting == {"none", "launch", "handshake", "answered"}

\* What each task can be doing.
PlacesInv(s) ==
  /\ at[s]["creator"] \in Starting \cup Waits \cup {"created", "failed", "cut"}
  /\ at[s]["closer"] \in Waits \cup {"none", "tell", "drain", "files", "done", "failed", "cut"}
  /\ at[s]["shutdown"] \in Waits \cup {"none", "closing", "tell", "drain", "gathered", "files", "done"}
  /\ \A r \in Readers : at[s][r] \in Waits \cup {"none", "reading", "done"}

\* Nobody closes a session that is being created, and before there is a
\* process nobody reads it.
StartInv(s) ==
  /\ at[s]["creator"] \in Starting =>
       ~closed[s] /\ at[s]["closer"] = "none" /\ at[s]["shutdown"] = "none"
  /\ at[s]["creator"] \in {"none", "launch"} =>
       proc[s] = "none" /\ remote[s] = "none" /\ \A r \in Readers : at[s][r] = "none"

\* A session is in the registry from the beginning of create until one task
\* takes it out to close it; what the shutdown finds closed is a create that
\* was cut short.
RegistryInv(s) ==
  /\ at[s]["creator"] \in {"none", "failed"} => s \notin registered
  /\ s \in registered => /\ at[s]["closer"] = "none" /\ at[s]["shutdown"] = "none"
                         /\ at[s]["creator"] = "created" => ~closed[s]
  /\ down => s \notin registered /\ at[s]["creator"] \in Over /\ at[s]["closer"] \in Over
  /\ at[s]["shutdown"] # "none" => down /\ at[s]["closer"] = "none"
  /\ at[s]["shutdown"] = "closing" /\ closed[s] => at[s]["creator"] = "cut"
  /\ ~raising[s]["shutdown"]

\* Whoever waits for the process has seen it signalled, whoever cleans up
\* behind ssh has seen it end, and so has who was cut short while doing so.
TermInv(s) ==
  /\ \A t \in Tasks : at[s][t] \in {"lock"} \cup Terminating => signal[s] # "none"
  /\ \A t \in Tasks : at[s][t] = "remote" => s \in Remote /\ proc[s] # "up"
  /\ \A t \in Closers : at[s][t] = "cut" => Told(s)
  /\ s \notin Remote => remote[s] = "none"

\* Who is through with close has seen everything end.
EndInv(s) ==
  /\ at[s]["creator"] = "failed" \/ at[s]["closer"] \in {"files", "done", "failed"} => Ended(s)
  /\ at[s]["shutdown"] \in {"gathered", "files", "done"} => Ended(s) \/ at[s]["creator"] = "cut"

\* Once the files were taken, those are left that came late; a shutdown comes
\* when the calls are over, so that nothing can come late.
FileInv(s) ==
  /\ at[s]["closer"] \in {"files", "done"} \/ at[s]["shutdown"] \in {"files", "done"}
       => \A f \in Files : file[s][f] \in {"none", "writing", "tracked"} => f \in late[s]
  /\ at[s]["shutdown"] \in {"files", "done"} => \A f \in Files : file[s][f] # "tracked"
  /\ at[s]["shutdown"] # "none" => call[s] = "none"
  /\ \A f \in Files : file[s][f] = "writing" => call[s] = "writing"
  /\ \A f, g \in Files : file[s][f] = "writing" /\ file[s][g] = "writing" => f = g
  /\ \A f \in Files : file[s][f] = "left" =>
       at[s]["closer"] \in {"failed", "cut"} \/ at[s]["shutdown"] = "done"

SessionInv(s) == /\ PlacesInv(s) /\ StartInv(s) /\ RegistryInv(s) /\ TermInv(s) /\ EndInv(s)
                 /\ FileInv(s)

LifeInv == TypeOK /\ \A s \in Sessions : SessionInv(s)

(***************************************************************************)
(* Steps of one task                                                       *)
(***************************************************************************)
\* A step is about session s only.
OthersSame(s) ==
  /\ \A u \in Sessions \ {s} :
       /\ at'[u] = at[u] /\ raising'[u] = raising[u] /\ closed'[u] = closed[u]
       /\ proc'[u] = proc[u] /\ signal'[u] = signal[u] /\ remote'[u] = remote[u]
       /\ file'[u] = file[u] /\ late'[u] = late[u] /\ call'[u] = call[u]
       /\ u \in registered' <=> u \in registered
  /\ down' = down

\* A step of one session keeps the invariant of the others.
LEMMA OthersKeepInv ==
  ASSUME LifeInv, NEW s \in Sessions, OthersSame(s), NEW u \in Sessions \ {s}
  PROVE  SessionInv(u)'
<1>1. SessionInv(u)
  BY DEF LifeInv
<1>2. /\ at'[u] = at[u] /\ raising'[u] = raising[u] /\ closed'[u] = closed[u]
      /\ proc'[u] = proc[u] /\ signal'[u] = signal[u] /\ remote'[u] = remote[u]
      /\ file'[u] = file[u] /\ late'[u] = late[u] /\ call'[u] = call[u]
      /\ u \in registered' <=> u \in registered
      /\ down' = down
  BY DEF OthersSame
<1>3. PlacesInv(u)' /\ StartInv(u)' /\ FileInv(u)'
  BY <1>1, <1>2 DEF SessionInv, PlacesInv, StartInv, FileInv
<1>4. RegistryInv(u)'
  BY <1>1, <1>2 DEF SessionInv, RegistryInv
<1>5. TermInv(u)' /\ EndInv(u)'
  BY <1>1, <1>2 DEF SessionInv, TermInv, EndInv, Ended, Told
<1> QED BY <1>3, <1>4, <1>5 DEF SessionInv

\* Task t of session s goes to l, which may stop the readers.
Goes(s, t, l) ==
  /\ at' \in [Sessions -> [Tasks -> Labels]]
  /\ \A u \in Sessions \ {s} : at'[u] = at[u]
  /\ at'[s][t] = l
  /\ \A x \in Tasks \ {t} : \/ at'[s][x] = at[s][x]
                            \/ x \in Readers /\ at[s][x] # "none" /\ at'[s][x] = "done"

\* Goto moves one task, and only it.
LEMMA GotoGoes ==
  ASSUME TypeOK, NEW s \in Sessions, NEW t \in Tasks, NEW l \in Labels, Goto(s, t, l)
  PROVE  Goes(s, t, l)
BY DEF TypeOK, Goto, Goes

\* What the removal of its files may do to one of them.
Fate(s, t, l, f) ==
  /\ file'[s][f] \in {"none", "writing", "tracked"} => f \in late'[s]
  /\ file'[s][f] = "tracked" => file[s][f] = "tracked" /\ at[s][t] = "files"
  /\ file'[s][f] = "writing" => file[s][f] = "writing"
  /\ file'[s][f] = "left" => \/ file[s][f] = "left"
                             \/ t = "closer" /\ l \in {"failed", "cut"}
                             \/ t = "shutdown" /\ l = "done"

\* What the steps of create's failure, of the two closes and of the readers
\* have in common: who moves, where it may come to, and what it has seen.
Step(s, t, l) ==
  /\ Goes(s, t, l) /\ OthersSame(s)
  /\ proc' = proc /\ call' = call
  /\ s \in registered' => s \in registered
  /\ t \in {"creator", "closer"} => ~down
  /\ t = "creator" => /\ at[s]["creator"] \in {"handshake", "answered"} \cup Waits
                      /\ l \in Waits \cup {"failed", "cut"}
                      /\ l = "failed" => s \notin registered'
  /\ t = "closer" => /\ at[s]["creator"] \notin Starting /\ s \notin registered'
                     /\ at[s]["closer"] \notin {"done", "failed", "cut"}
                     /\ l \in Waits \cup {"tell", "drain", "files", "done", "failed", "cut"}
  /\ t = "shutdown" => /\ at[s]["shutdown"] \notin {"none", "done"}
                       /\ l \in Waits \cup {"tell", "drain", "gathered", "files", "done"}
  /\ t \in Readers => at[s][t] # "none" /\ l \in Waits \cup {"done"} /\ closed'[s] = closed[s]
  /\ ~raising'[s]["shutdown"]
  /\ signal[s] # "none" \/ l \in {"lock"} \cup Terminating => signal'[s] # "none"
  /\ l = "remote" => s \in Remote /\ proc[s] # "up"
  /\ t \in Closers /\ l = "cut" => Told(s)'
  /\ remote'[s] = remote[s] \/ (s \in Remote /\ remote[s] # "none" /\ remote'[s] \in {"missed", "ended"})
  /\ (t = "creator" /\ l = "failed") \/ (t = "closer" /\ l \in {"files", "done", "failed"})
       => Ended(s)'
  /\ t = "shutdown" /\ l \in {"gathered", "files", "done"} => Ended(s)' \/ at[s]["creator"] = "cut"
  /\ \/ UNCHANGED <<file, late>> /\ (t \in {"closer", "shutdown"} /\ l \in {"files", "done"} => at[s][t] = "files")
     \/ t \in {"closer", "shutdown"} /\ \A f \in Files : Fate(s, t, l, f)

\* A step that is sound for its session keeps the invariant.
LEMMA StepKeepsInv ==
  ASSUME LifeInv, NEW s \in Sessions, NEW t \in Tasks, NEW l \in Labels, Step(s, t, l)
  PROVE  \A u \in Sessions : SessionInv(u)'
<1> USE LifecycleAssumption DEF Tasks, Closers
<1>1. SessionInv(s)
  BY DEF LifeInv
<1>2. /\ at'[s][t] = l
      /\ \A x \in Tasks \ {t} : \/ at'[s][x] = at[s][x]
                                \/ x \in Readers /\ at[s][x] # "none" /\ at'[s][x] = "done"
  BY DEF Step, Goes
<1>3. \A x \in Closers \ {t} : at'[s][x] = at[s][x]
  BY <1>2
<1>4. down' = down /\ proc' = proc
  BY DEF Step, OthersSame
<1>5. PlacesInv(s)'
  <2>1. \A x \in Closers : t = x => at'[s][x] = l
    BY <1>2
  <2>2. (at[s]["creator"] \in Starting \cup Waits \cup {"created", "failed", "cut"})'
    BY <1>1, <1>3, <2>1 DEF Step, SessionInv, PlacesInv
  <2>3. (at[s]["closer"] \in Waits \cup {"none", "tell", "drain", "files", "done", "failed", "cut"})'
    BY <1>1, <1>3, <2>1 DEF Step, SessionInv, PlacesInv
  <2>4. (at[s]["shutdown"] \in Waits \cup {"none", "closing", "tell", "drain", "gathered", "files", "done"})'
    BY <1>1, <1>3, <2>1 DEF Step, SessionInv, PlacesInv
  <2>5. \A r \in Readers : (at[s][r] \in Waits \cup {"none", "reading", "done"})'
    BY <1>1, <1>2 DEF Step, SessionInv, PlacesInv
  <2> QED BY <2>2, <2>3, <2>4, <2>5 DEF PlacesInv
<1>6. StartInv(s)'
  <2> SUFFICES ASSUME at'[s]["creator"] \in Starting PROVE StartInv(s)'
    BY DEF StartInv, Starting
  <2>1. t \notin Closers /\ at[s]["creator"] = at'[s]["creator"]
    BY <1>1, <1>2, <1>3 DEF Step, SessionInv, StartInv, Starting, Waits
  <2>2. t \in Readers /\ at[s][t] # "none" /\ closed'[s] = closed[s]
    BY <2>1 DEF Step
  <2>3. at[s]["creator"] \notin {"none", "launch"}
    BY <1>1, <2>2 DEF SessionInv, StartInv
  <2> QED BY <1>1, <1>3, <2>1, <2>2, <2>3 DEF SessionInv, StartInv
<1>7. RegistryInv(s)'
  <2>1. RegistryInv(s) /\ PlacesInv(s)
    BY <1>1 DEF SessionInv
  <2>2. CASE t = "creator"
    <3>1. at'[s]["creator"] = l /\ at'[s]["closer"] = at[s]["closer"] /\ at'[s]["shutdown"] = at[s]["shutdown"]
      BY <1>2, <1>3, <2>2
    <3>2. l \in Waits \cup {"failed", "cut"} /\ ~down /\ (l = "failed" => s \notin registered')
      BY <2>2 DEF Step
    <3> QED BY <1>4, <2>1, <3>1, <3>2 DEF Step, RegistryInv, Waits
  <2>3. CASE t = "closer"
    <3>1. at'[s]["creator"] = at[s]["creator"] /\ at'[s]["shutdown"] = at[s]["shutdown"]
      BY <1>3, <2>3
    <3>2. s \notin registered' /\ ~down /\ at[s]["shutdown"] = "none"
      BY <2>1, <2>3 DEF Step, RegistryInv
    <3> QED BY <1>4, <2>1, <3>1, <3>2 DEF Step, RegistryInv
  <2>4. CASE t = "shutdown"
    <3>1. at'[s]["creator"] = at[s]["creator"] /\ at'[s]["closer"] = at[s]["closer"]
          /\ at'[s]["shutdown"] # "closing"
      BY <1>2, <1>3, <2>4 DEF Step, Waits
    <3>2. down /\ s \notin registered' /\ at[s]["closer"] = "none"
      BY <2>1, <2>4 DEF Step, RegistryInv
    <3> QED BY <1>4, <2>1, <3>1, <3>2 DEF Step, RegistryInv
  <2>5. CASE t \in Readers
    <3>1. \A x \in Closers : at'[s][x] = at[s][x]
      BY <1>3, <2>5
    <3>2. closed'[s] = closed[s] /\ (s \in registered' => s \in registered)
      BY <2>5 DEF Step
    <3> QED BY <1>4, <2>1, <3>1, <3>2 DEF Step, RegistryInv
  <2> QED BY <2>2, <2>3, <2>4, <2>5
<1>8. TermInv(s)'
  <2>1. TermInv(s)
    BY <1>1 DEF SessionInv
  <2>2. ASSUME NEW x \in Tasks, at'[s][x] \in {"lock"} \cup Terminating PROVE signal'[s] # "none"
    BY <1>2, <2>1, <2>2 DEF Step, TermInv, Terminating
  <2>3. ASSUME NEW x \in Tasks, at'[s][x] = "remote" PROVE s \in Remote /\ proc'[s] # "up"
    BY <1>2, <1>4, <2>1, <2>3 DEF Step, TermInv
  <2>4. ASSUME NEW x \in Closers, at'[s][x] = "cut" PROVE Told(s)'
    BY <1>2, <1>3, <1>4, <2>1, <2>4 DEF Step, TermInv, Told
  <2>5. s \notin Remote => remote'[s] = "none"
    BY <2>1 DEF Step, TermInv
  <2> QED BY <2>2, <2>3, <2>4, <2>5 DEF TermInv
<1>9. EndInv(s)'
  <2>1. EndInv(s) /\ (Ended(s) => Ended(s)')
    BY <1>1, <1>4 DEF Step, SessionInv, Ended
  <2>2. at'[s]["creator"] = "failed" => Ended(s)'
    BY <1>2, <1>3, <2>1 DEF Step, EndInv
  <2>3. at'[s]["closer"] \in {"files", "done", "failed"} => Ended(s)'
    BY <1>2, <1>3, <2>1 DEF Step, EndInv
  <2>4. at[s]["creator"] = "cut" => at'[s]["creator"] = "cut"
    BY <1>2, <1>3 DEF Step, Waits
  <2>5. at'[s]["shutdown"] \in {"gathered", "files", "done"} => Ended(s)' \/ at'[s]["creator"] = "cut"
    BY <1>2, <1>3, <2>1, <2>4 DEF Step, EndInv
  <2> QED BY <2>2, <2>3, <2>5 DEF EndInv
<1>10. FileInv(s)'
  <2>1. FileInv(s) /\ RegistryInv(s) /\ call' = call
    BY <1>1 DEF Step, SessionInv
  <2>2. at'[s]["shutdown"] # "none" => at[s]["shutdown"] # "none"
    BY <1>2, <1>3 DEF Step
  <2>3. /\ at[s]["closer"] \in {"failed", "cut"} => at'[s]["closer"] \in {"failed", "cut"}
        /\ at[s]["shutdown"] = "done" => at'[s]["shutdown"] = "done"
    BY <1>2, <1>3 DEF Step
  <2>4. CASE t \in {"closer", "shutdown"} /\ \A f \in Files : Fate(s, t, l, f)
    <3>1. at'[s]["shutdown"] \in {"files", "done"} => \A f \in Files : file'[s][f] # "tracked"
      <4> SUFFICES ASSUME at'[s]["shutdown"] \in {"files", "done"},
                          NEW f \in Files, file'[s][f] = "tracked"
                   PROVE  FALSE
        OBVIOUS
      <4>1. file[s][f] = "tracked" /\ at[s][t] = "files"
        BY <2>4 DEF Fate
      <4>2. CASE t = "closer"
        BY <2>1, <2>2, <4>1, <4>2 DEF RegistryInv
      <4>3. CASE t = "shutdown"
        BY <2>1, <4>1, <4>3 DEF FileInv
      <4> QED BY <2>4, <4>2, <4>3
    <3>2. ASSUME NEW f \in Files, file'[s][f] = "left"
          PROVE  at'[s]["closer"] \in {"failed", "cut"} \/ at'[s]["shutdown"] = "done"
      BY <1>2, <2>1, <2>3, <2>4, <3>2 DEF Fate, FileInv
    <3>3. \A f \in Files : /\ file'[s][f] = "writing" => file[s][f] = "writing"
                           /\ file'[s][f] \in {"none", "writing", "tracked"} => f \in late'[s]
      BY <2>4 DEF Fate
    <3> QED BY <2>1, <2>2, <3>1, <3>2, <3>3 DEF FileInv
  <2>5. CASE UNCHANGED <<file, late>> /\ (t \in {"closer", "shutdown"} /\ l \in {"files", "done"} => at[s][t] = "files")
    <3>1. \A x \in {"closer", "shutdown"} :
            at'[s][x] \in {"files", "done"} => at[s][x] \in {"files", "done"}
      BY <1>2, <1>3, <2>5
    <3> QED BY <2>1, <2>2, <2>3, <2>5, <3>1 DEF FileInv
  <2> QED BY <2>4, <2>5 DEF Step
<1>11. OthersSame(s)
  BY DEF Step
<1> QED BY <1>5, <1>6, <1>7, <1>8, <1>9, <1>10, <1>11, OthersKeepInv DEF SessionInv

\* The types of what a step changes beside the tasks' places.
DataTypes == /\ raising \in [Sessions -> [Closers -> BOOLEAN]]
             /\ registered \subseteq Sessions
             /\ closed \in [Sessions -> BOOLEAN]
             /\ signal \in [Sessions -> {"none", "term", "kill"}]
             /\ remote \in [Sessions -> {"none", "starting", "running", "missed", "ended"}]
             /\ call \in [Sessions -> {"none", "turn", "writing"}]
             /\ file \in [Sessions -> [Files -> Fates]]
             /\ late \in [Sessions -> SUBSET Files]

\* The types of the data and of the tasks.
LEMMA TypesHold == TypeOK => DataTypes /\ at \in [Sessions -> [Tasks -> Labels]]
BY DEF TypeOK, DataTypes, Fates

\* With well-typed data such a step keeps the whole invariant.
LEMMA StepIsSound ==
  ASSUME LifeInv, NEW s \in Sessions, NEW t \in Tasks, NEW l \in Labels, Step(s, t, l), DataTypes'
  PROVE  LifeInv'
<1>1. TypeOK
  BY DEF LifeInv
<1>2. at' \in [Sessions -> [Tasks -> Labels]] /\ proc' = proc /\ down' = down
  BY DEF Step, Goes, OthersSame
<1>3. ASSUME NEW u \in Sessions, NEW r \in Readers, at'[u][r] # "none" PROVE proc'[u] # "none"
  <2>1. at[u][r] # "none"
    BY <1>3 DEF Step, Goes, Tasks
  <2> QED BY <1>1, <1>2, <2>1 DEF TypeOK
<1>4. TypeOK'
  BY <1>1, <1>2, <1>3 DEF TypeOK, DataTypes, Fates
<1> QED BY <1>4, StepKeepsInv DEF LifeInv

(***************************************************************************)
(* Terminating and leaving                                                 *)
(***************************************************************************)
\* What was tracked is being removed, and what may still come is late.
LEMMA FilesTaken ==
  ASSUME TypeOK, NEW s \in Sessions, TakeFiles(s)
  PROVE  /\ file' \in [Sessions -> [Files -> Fates]]
         /\ late' \in [Sessions -> SUBSET Files]
         /\ \A t, l : \A f \in Files : Fate(s, t, l, f)
         /\ \A u \in Sessions \ {s} : file'[u] = file[u] /\ late'[u] = late[u]
<1> DEFINE row == [f \in Files |-> IF file[s][f] = "tracked" THEN "removing" ELSE file[s][f]]
           rest == {f \in Files : file[s][f] \in {"none", "writing"}}
<1>1. file' = [file EXCEPT ![s] = row] /\ late' = [late EXCEPT ![s] = rest]
  BY DEF TakeFiles
<1>2. /\ file \in [Sessions -> [Files -> Fates]]
      /\ late \in [Sessions -> SUBSET Files]
  BY DEF TypeOK, Fates
<1>3. row \in [Files -> Fates]
  BY <1>2 DEF Fates
<1>4. \A f \in Files : /\ row[f] \in {"none", "writing", "tracked"} => f \in rest
                       /\ row[f] # "tracked"
                       /\ row[f] = "writing" => file[s][f] = "writing"
                       /\ row[f] = "left" => file[s][f] = "left"
  BY <1>2
<1>5. rest \in SUBSET Files
  OBVIOUS
<1> HIDE DEF row, rest
<1>6. file'[s] = row /\ late'[s] = rest
  BY <1>1, <1>2
<1>7. \A t, l : \A f \in Files : Fate(s, t, l, f)
  BY <1>4, <1>6 DEF Fate
<1> QED BY <1>1, <1>2, <1>3, <1>5, <1>7

\* How close ends for its caller.
Left(s, t, l) ==
  /\ raising'[s][t] => l = "cut"
  /\ ~raising'[s][t] => \/ t = "creator" /\ l = "failed"
                        \/ t = "closer" /\ l \in {"files", "done"}
                        \/ t = "shutdown" /\ l = "gathered"
  /\ IF t = "closer" /\ ~raising'[s][t] THEN TakeFiles(s) ELSE UNCHANGED <<file, late>>

\* A task that leaves the termination goes on with what called it.
LEMMA LeaveGoes ==
  ASSUME TypeOK, NEW s \in Sessions, NEW t \in Closers,
         NEW row, row \in {at[s], ReadersStopped(at[s])}, LeaveClose(s, t, row)
  PROVE  \E l \in Labels : Goes(s, t, l) /\ Left(s, t, l)
<1> DEFINE l == AfterClose(s, t)
<1>1. /\ raising'[s][t] => l = "cut"
      /\ ~raising'[s][t] => \/ t = "creator" /\ l = "failed"
                            \/ t = "closer" /\ l \in {"files", "done"}
                            \/ t = "shutdown" /\ l = "gathered"
  <2>1. CASE raising'[s][t]
    BY <2>1 DEF AfterClose
  <2>2. CASE ~raising'[s][t] /\ t = "creator"
    BY <2>2 DEF AfterClose
  <2>3. CASE ~raising'[s][t] /\ t = "closer"
    BY <2>3 DEF AfterClose
  <2>4. CASE ~raising'[s][t] /\ t = "shutdown"
    BY <2>4 DEF AfterClose
  <2> QED BY <2>1, <2>2, <2>3, <2>4 DEF Closers
<1>2. at' = [at EXCEPT ![s] = [row EXCEPT ![t] = l]]
  BY DEF LeaveClose
<1> HIDE DEF l
<1>3. l \in Labels
  BY <1>1 DEF Labels, Over, Closers
<1>4. at \in [Sessions -> [Tasks -> Labels]] /\ at[s] \in [Tasks -> Labels] /\ t \in Tasks
  BY DEF TypeOK, Tasks
<1>5. /\ row \in [Tasks -> Labels]
      /\ \A x \in Tasks : \/ row[x] = at[s][x]
                          \/ x \in Readers /\ at[s][x] # "none" /\ row[x] = "done"
  BY <1>4 DEF ReadersStopped, Labels, Over
<1>6. Goes(s, t, l)
  BY <1>2, <1>3, <1>4, <1>5 DEF Goes
<1>7. Left(s, t, l)
  BY <1>1 DEF Left, LeaveClose
<1> QED BY <1>3, <1>6, <1>7

\* The ways into the termination, through it and out of it.
Way(s, t, l) ==
  \/ l \in {"lock", "term"} /\ signal'[s] # "none" /\ UNCHANGED <<file, late>>
  \/ l = "remote" /\ s \in Remote /\ proc[s] # "up" /\ UNCHANGED <<file, late>>
  \/ l = "done" /\ t \in Readers /\ UNCHANGED <<file, late>>
  \/ t \in Closers /\ Ended(s)' /\ Left(s, t, l)

\* What it goes on with.
LEMMA AfterTerminateGoes ==
  ASSUME LifeInv, NEW s \in Sessions, NEW t \in Tasks, AfterTerminate(s, t), proc[s] # "up",
         proc' = proc, remote' = remote
  PROVE  \E l \in Labels : Goes(s, t, l) /\ Way(s, t, l)
<1>1. TypeOK /\ TermInv(s)
  BY DEF LifeInv, SessionInv
<1>2. CASE s \in Remote /\ Goto(s, t, "remote") /\ UNCHANGED <<file, late>>
  <2>1. "remote" \in Labels
    BY DEF Labels
  <2> QED BY <1>1, <1>2, <2>1, GotoGoes DEF Way
<1>3. CASE t \in Readers /\ Goto(s, t, "done") /\ UNCHANGED <<file, late>>
  <2>1. "done" \in Labels
    BY DEF Labels, Over
  <2> QED BY <1>1, <1>3, <2>1, GotoGoes DEF Way
<1>4. CASE s \notin Remote /\ t \in Closers /\ LeaveClose(s, t, ReadersStopped(at[s]))
  <2>1. Ended(s)'
    BY <1>1, <1>4 DEF TermInv, Ended
  <2> QED BY <1>1, <1>4, <2>1, LeaveGoes DEF Way
<1> QED BY <1>2, <1>3, <1>4 DEF AfterTerminate

\* The steps of the termination.
LEMMA TerminateGoes ==
  ASSUME LifeInv, NEW s \in Sessions, NEW t \in Tasks, Terminate(s, t), proc' = proc, remote' = remote
  PROVE  /\ \E l \in Labels : Goes(s, t, l) /\ Way(s, t, l)
         /\ signal' \in [Sessions -> {"none", "term", "kill"}]
         /\ \A u \in Sessions \ {s} : signal'[u] = signal[u]
         /\ signal[s] # "none" => signal'[s] # "none"
<1>1. TypeOK /\ TermInv(s) /\ signal \in [Sessions -> {"none", "term", "kill"}]
  BY DEF LifeInv, SessionInv, TypeOK
<1>2. CASE TerminateLocked(s) /\ Goto(s, t, "lock") /\ UNCHANGED <<signal, file, late>>
  <2>1. signal[s] # "none"
    BY <1>1, <1>2 DEF TermInv, TerminateLocked
  <2>2. "lock" \in Labels
    BY DEF Labels
  <2> QED BY <1>1, <1>2, <2>1, <2>2, GotoGoes DEF Way
<1>3. CASE proc[s] # "up" /\ AfterTerminate(s, t) /\ UNCHANGED signal
  BY <1>1, <1>3, AfterTerminateGoes
<1>4. CASE signal' = [signal EXCEPT ![s] = "term"] /\ Goto(s, t, "term") /\ UNCHANGED <<file, late>>
  <2>1. "term" \in Labels
    BY DEF Labels, Terminating
  <2>2. signal'[s] = "term"
    BY <1>1, <1>4
  <2> QED BY <1>1, <1>4, <2>1, <2>2, GotoGoes DEF Way
<1> QED BY <1>2, <1>3, <1>4 DEF Terminate

\* Who may move: not a create that has not begun or is over, nor a close of a
\* session that is still in the registry.
Mover(s, t) ==
  /\ t \in {"creator", "closer"} => ~down
  /\ t = "creator" => at[s]["creator"] \in {"handshake", "answered"} \cup Waits
  /\ t = "closer" => /\ at[s]["creator"] \notin Starting
                     /\ at[s]["closer"] \notin {"done", "failed", "cut"}
  /\ t = "shutdown" => at[s]["shutdown"] \notin {"none", "done"}
  /\ t \in Readers => at[s][t] # "none"

\* A task that runs may move.
LEMMA WhoRunsMayMove ==
  ASSUME LifeInv, NEW s \in Sessions, NEW t \in Tasks, at[s][t] \in Waits \cup {"tell", "drain", "files"}
  PROVE  Mover(s, t) /\ (t = "closer" => s \notin registered)
BY DEF LifeInv, SessionInv, PlacesInv, StartInv, RegistryInv, Mover, Waits, Starting, Over

\* What a step leaves of the registry and of the other sessions.
Frame(s, t) ==
  /\ \A u \in Sessions \ {s} :
       /\ raising'[u] = raising[u] /\ closed'[u] = closed[u] /\ signal'[u] = signal[u]
       /\ remote'[u] = remote[u]
       /\ u \in registered' <=> u \in registered
  /\ down' = down /\ proc' = proc /\ call' = call
  /\ s \in registered' => s \in registered
  /\ t = "creator" /\ at'[s]["creator"] = "failed" => s \notin registered'
  /\ t = "closer" => s \notin registered'
  /\ t \in Readers => closed'[s] = closed[s]
  /\ ~raising'[s]["shutdown"]
  /\ signal[s] # "none" => signal'[s] # "none"
  /\ remote'[s] = remote[s] \/ (s \in Remote /\ remote[s] # "none" /\ remote'[s] \in {"missed", "ended"})

\* A move along one of the ways keeps the invariant.
LEMMA WayKeepsInv ==
  ASSUME LifeInv, NEW s \in Sessions, NEW t \in Tasks, NEW l \in Labels, Goes(s, t, l), Way(s, t, l),
         Mover(s, t), Frame(s, t),
         raising' \in [Sessions -> [Closers -> BOOLEAN]], registered' \subseteq Sessions,
         closed' \in [Sessions -> BOOLEAN], signal' \in [Sessions -> {"none", "term", "kill"}],
         remote' \in [Sessions -> {"none", "starting", "running", "missed", "ended"}]
  PROVE  LifeInv'
<1> USE LifecycleAssumption DEF Tasks, Closers
<1>1. TypeOK
  BY DEF LifeInv
<1>2. CASE UNCHANGED <<file, late>> /\ (t \in Readers \/ l \notin {"files", "done"})
  <2>1. OthersSame(s)
    BY <1>2 DEF OthersSame, Frame, Goes
  <2>2. at'[s][t] = l
    BY DEF Goes
  <2>3. Step(s, t, l)
    <3>1. CASE l \in {"lock", "term"} /\ signal'[s] # "none"
      BY <1>2, <2>1, <2>2, <3>1 DEF Step, Mover, Frame, Waits, Terminating
    <3>2. CASE l = "remote" /\ s \in Remote /\ proc[s] # "up"
      BY <1>2, <2>1, <2>2, <3>2 DEF Step, Mover, Frame, Waits, Terminating
    <3>3. CASE l = "done" /\ t \in Readers
      BY <1>2, <2>1, <2>2, <3>3 DEF Step, Mover, Frame, Waits, Terminating
    <3>4. CASE t \in Closers /\ Ended(s)' /\ Left(s, t, l)
      <4>1. Told(s)'
        BY <3>4 DEF Ended, Told
      <4>2. \/ l = "cut" /\ t # "shutdown"
            \/ t = "creator" /\ l = "failed"
            \/ t = "shutdown" /\ l = "gathered"
        BY <1>2, <3>4 DEF Left, Frame
      <4> QED BY <1>2, <2>1, <2>2, <3>4, <4>1, <4>2 DEF Step, Mover, Frame, Waits, Terminating
    <3> QED BY <3>1, <3>2, <3>3, <3>4 DEF Way
  <2>4. DataTypes'
    BY <1>1, <1>2 DEF TypeOK, DataTypes, Fates, Frame
  <2> QED BY <2>3, <2>4, StepIsSound
<1>3. CASE t = "closer" /\ Ended(s)' /\ l \in {"files", "done"} /\ TakeFiles(s)
  <2>1. /\ file' \in [Sessions -> [Files -> Fates]]
        /\ late' \in [Sessions -> SUBSET Files]
        /\ \A f \in Files : Fate(s, t, l, f)
        /\ \A u \in Sessions \ {s} : file'[u] = file[u] /\ late'[u] = late[u]
    BY <1>1, <1>3, FilesTaken
  <2>2. OthersSame(s)
    BY <2>1 DEF OthersSame, Frame, Goes
  <2>3. t \notin Readers
    BY <1>3
  <2>4. Step(s, t, l)
    BY <1>3, <2>1, <2>2, <2>3 DEF Step, Mover, Frame, Waits, Terminating
  <2>5. DataTypes'
    BY <1>1, <2>1 DEF TypeOK, DataTypes, Fates, Frame
  <2> QED BY <2>4, <2>5, StepIsSound
<1> QED BY <1>2, <1>3 DEF Way, Left

(***************************************************************************)
(* close, step by step                                                     *)
(***************************************************************************)
\* A failed create is taken out of the registry, nobody else.
LEMMA Unregistered ==
  ASSUME LifeInv, NEW s \in Sessions, NEW t \in Tasks, NEW l \in Labels, Goes(s, t, l), Unregister
  PROVE  /\ registered' \subseteq registered
         /\ \A u \in Sessions \ {s} : u \in registered' <=> u \in registered
         /\ at'[s]["creator"] = "failed" => s \notin registered'
<1>1. \A u \in Sessions \ {s} : at'[u] = at[u] /\ (u \in registered => at[u]["creator"] # "failed")
  BY DEF Goes, LifeInv, SessionInv, RegistryInv
<1> QED BY <1>1 DEF Unregister

\* The termination of a process keeps the invariant,
LEMMA TerminationKeepsInv ==
  ASSUME LifeInv, NEW s \in Sessions, NEW t \in Tasks,
         \/ TakeTerminateLock(s, t) \/ WriteFails(s, t) \/ Drained(s, t)
         \/ Terminated(s, t) \/ (AgentReads(s, t) /\ Terminate(s, t))
  PROVE  LifeInv'
<1>1. TypeOK /\ registered \subseteq Sessions /\ ~raising[s]["shutdown"]
  BY DEF LifeInv, TypeOK, SessionInv, RegistryInv
<1>2. at[s][t] \in Waits \cup {"tell", "drain"} /\ UNCHANGED <<raising, closed, down, proc, remote, call>>
  BY DEF TakeTerminateLock, WriteFails, Drained, AgentReads, Terminated, Waits, Terminating, process
<1>3. Mover(s, t) /\ (t = "closer" => s \notin registered)
  BY <1>2, WhoRunsMayMove
<1>4. /\ \E l \in Labels : Goes(s, t, l) /\ Way(s, t, l)
      /\ signal' \in [Sessions -> {"none", "term", "kill"}]
      /\ \A u \in Sessions \ {s} : signal'[u] = signal[u]
      /\ signal[s] # "none" => signal'[s] # "none"
  <2>1. CASE Terminate(s, t)
    BY <1>2, <2>1, TerminateGoes
  <2>2. CASE Terminated(s, t)
    <3>1. AfterTerminate(s, t) /\ proc[s] # "up" /\ signal' = signal
      BY <2>2 DEF Terminated, process
    <3> QED BY <1>1, <1>2, <3>1, AfterTerminateGoes DEF TypeOK
  <2> QED BY <2>1, <2>2 DEF TakeTerminateLock, WriteFails, Drained
<1>5. PICK l \in Labels : Goes(s, t, l) /\ Way(s, t, l)
  BY <1>4
<1>6. /\ registered' \subseteq registered
      /\ \A u \in Sessions \ {s} : u \in registered' <=> u \in registered
      /\ t = "creator" /\ at'[s]["creator"] = "failed" => s \notin registered'
  <2>1. CASE TakeTerminateLock(s, t) \/ Terminated(s, t)
    BY <1>5, <2>1, Unregistered DEF TakeTerminateLock, Terminated
  <2>2. CASE WriteFails(s, t) \/ Drained(s, t) \/ AgentReads(s, t)
    <3>1. t # "creator" /\ registered' = registered
      BY <2>2 DEF WriteFails, Drained, AgentReads, LifeInv, SessionInv, PlacesInv, Starting, Waits
    <3> QED BY <3>1
  <2> QED BY <2>1, <2>2
<1>7. Frame(s, t)
  BY <1>1, <1>2, <1>3, <1>4, <1>6 DEF Frame
<1> QED BY <1>1, <1>2, <1>3, <1>4, <1>5, <1>6, <1>7, WayKeepsInv DEF TypeOK

\* The clean-up behind ssh leaves an agent that has ended or that it missed.
LEMMA CleanUpKeepsInv ==
  ASSUME LifeInv, NEW s \in Sessions, NEW t \in Tasks, RemoteCleaned(s, t)
  PROVE  LifeInv'
<1>1. TypeOK /\ registered \subseteq Sessions /\ ~raising[s]["shutdown"] /\ TermInv(s)
  BY DEF LifeInv, TypeOK, SessionInv, RegistryInv
<1>2. at[s][t] = "remote" /\ UNCHANGED <<raising, closed, down, proc, signal, call>>
  BY DEF RemoteCleaned
<1>3. s \in Remote /\ proc[s] # "up"
  BY <1>1, <1>2 DEF TermInv
<1>4. Mover(s, t) /\ (t = "closer" => s \notin registered)
  BY <1>2, WhoRunsMayMove DEF Waits
<1>5. /\ remote' \in [Sessions -> {"none", "starting", "running", "missed", "ended"}]
      /\ \A u \in Sessions \ {s} : remote'[u] = remote[u]
      /\ remote'[s] \in {"none", "missed", "ended"}
      /\ remote'[s] = remote[s] \/ (remote[s] # "none" /\ remote'[s] \in {"missed", "ended"})
  <2>1. PICK r \in {"none", "missed", "ended"} :
          /\ remote' = [remote EXCEPT ![s] = r]
          /\ r = remote[s] \/ (remote[s] # "none" /\ r \in {"missed", "ended"})
    BY <1>1 DEF RemoteCleaned, TypeOK
  <2> QED BY <1>1, <2>1 DEF TypeOK
<1>6. Ended(s)'
  BY <1>2, <1>3, <1>5 DEF Ended
<1>7. PICK l \in Labels : Goes(s, t, l) /\ Way(s, t, l)
  <2>1. CASE t \in Readers /\ Goto(s, t, "done") /\ UNCHANGED <<file, late>>
    <3>1. "done" \in Labels
      BY DEF Labels, Over
    <3> QED BY <1>1, <2>1, <3>1, GotoGoes DEF Way
  <2>2. CASE t \in Closers /\ LeaveClose(s, t, ReadersStopped(at[s]))
    BY <1>1, <1>6, <2>2, LeaveGoes DEF Way
  <2> QED BY <2>1, <2>2 DEF RemoteCleaned
<1>8. /\ registered' \subseteq registered
      /\ \A u \in Sessions \ {s} : u \in registered' <=> u \in registered
      /\ at'[s]["creator"] = "failed" => s \notin registered'
  BY <1>7, Unregistered DEF RemoteCleaned
<1>9. Frame(s, t)
  BY <1>1, <1>2, <1>3, <1>4, <1>5, <1>8 DEF Frame
<1> QED BY <1>1, <1>2, <1>4, <1>5, <1>7, <1>8, <1>9, WayKeepsInv DEF TypeOK

\* A task that moves without anything else: it only has to have seen what its
\* new place says it has.
LEMMA MoveKeepsInv ==
  ASSUME LifeInv, NEW s \in Sessions, NEW t \in Tasks, NEW l \in Labels, Goto(s, t, l),
         Mover(s, t), t = "closer" => s \notin registered',
         UNCHANGED <<down, proc, remote, call, file, late>>,
         raising' = raising \/ (t # "shutdown" /\ raising' = [raising EXCEPT ![s][t] = TRUE]),
         closed' = closed \/ (t \in Closers /\ closed' = [closed EXCEPT ![s] = TRUE]),
         registered' \subseteq registered, \A u \in Sessions \ {s} : u \in registered' <=> u \in registered,
         signal' = signal \/ signal' = [signal EXCEPT ![s] = "kill"],
         \/ l = "kill" /\ signal'[s] # "none"
         \/ l = "cut" /\ t \in {"creator", "closer"} /\ Told(s)
         \/ l \in {"tell", "drain"} /\ t \in {"closer", "shutdown"}
         \/ l = "done" /\ t \in Readers
  PROVE  LifeInv'
<1> USE LifecycleAssumption DEF Tasks, Closers
<1>1. TypeOK /\ registered \subseteq Sessions /\ ~raising[s]["shutdown"]
  BY DEF LifeInv, TypeOK, SessionInv, RegistryInv
<1>2. Goes(s, t, l)
  BY <1>1, GotoGoes
<1>3. /\ raising' \in [Sessions -> [Closers -> BOOLEAN]]
      /\ ~raising'[s]["shutdown"]
      /\ \A u \in Sessions \ {s} : raising'[u] = raising[u]
  <2>1. raising \in [Sessions -> [Closers -> BOOLEAN]] /\ raising[s] \in [Closers -> BOOLEAN]
    BY <1>1 DEF TypeOK
  <2>2. CASE t # "shutdown" /\ raising' = [raising EXCEPT ![s][t] = TRUE]
    BY <1>1, <2>1, <2>2
  <2> QED BY <1>1, <2>1, <2>2
<1>4. \A u \in Sessions \ {s} : signal'[u] = signal[u] /\ closed'[u] = closed[u]
  BY <1>1 DEF TypeOK
<1>5. signal[s] # "none" => signal'[s] # "none"
  BY <1>1 DEF TypeOK
<1>6. OthersSame(s)
  BY <1>2, <1>3, <1>4 DEF OthersSame, Goes
<1>7. Told(s) => Told(s)'
  BY <1>5 DEF Told
<1>8. t \in Readers => closed' = closed
  OBVIOUS
<1>9. Step(s, t, l)
  BY <1>1, <1>2, <1>3, <1>5, <1>6, <1>7, <1>8 DEF Step, Mover, Waits, Terminating
<1>10. DataTypes'
  BY <1>1, <1>3 DEF TypeOK, DataTypes, Fates
<1> QED BY <1>9, <1>10, StepIsSound

\* and so does the end of the write that it waited for,
LEMMA ReadingKeepsInv ==
  ASSUME LifeInv, NEW s \in Sessions, NEW t \in Tasks, AgentReads(s, t)
  PROVE  LifeInv'
<1> USE LifecycleAssumption DEF Tasks, Closers
<1>1. CASE Terminate(s, t)
  BY <1>1, TerminationKeepsInv
<1>2. CASE Goto(s, t, "drain") /\ UNCHANGED <<signal, file, late>>
  <2>1. at[s][t] = "tell" /\ UNCHANGED <<raising, registered, closed, down, proc, remote, call>>
    BY DEF AgentReads
  <2>2. t \in {"closer", "shutdown"} /\ registered \subseteq Sessions
    BY <2>1 DEF LifeInv, TypeOK, SessionInv, PlacesInv, Starting, Waits
  <2>3. Mover(s, t) /\ (t = "closer" => s \notin registered')
    BY <2>1, WhoRunsMayMove
  <2>4. "drain" \in Labels
    BY DEF Labels
  <2> QED BY <1>2, <2>1, <2>2, <2>3, <2>4, MoveKeepsInv
<1> QED BY <1>1, <1>2 DEF AgentReads

\* also when it times out,
LEMMA TimeoutKeepsInv ==
  ASSUME LifeInv, NEW s \in Sessions, NEW t \in Tasks, TermTimesOut(s, t)
  PROVE  LifeInv'
<1>1. /\ at[s][t] = "term" /\ Goto(s, t, "kill")
      /\ signal' = [signal EXCEPT ![s] = "kill"]
      /\ UNCHANGED <<raising, closed, registered, down, proc, remote, call, file, late>>
  BY DEF TermTimesOut, registry, results
<1>2. signal'[s] # "none"
  BY <1>1 DEF LifeInv, TypeOK
<1>3. Mover(s, t) /\ (t = "closer" => s \notin registered')
  BY <1>1, WhoRunsMayMove DEF Waits
<1>4. "kill" \in Labels
  BY DEF Labels, Terminating
<1> QED BY <1>1, <1>2, <1>3, <1>4, MoveKeepsInv

\* The thread has removed what was taken from output_paths.
LEMMA RemovalKeepsInv ==
  ASSUME LifeInv, NEW s \in Sessions, NEW t \in Tasks, FilesRemoved(s, t)
  PROVE  LifeInv'
<1> USE LifecycleAssumption DEF Tasks, Closers
<1>1. TypeOK /\ registered \subseteq Sessions /\ ~raising[s]["shutdown"]
  BY DEF LifeInv, TypeOK, SessionInv, RegistryInv
<1>2. /\ at[s][t] = "files"
      /\ UNCHANGED <<raising, closed, registered, down, proc, signal, remote, call, late>>
  BY DEF FilesRemoved, registry, process
<1>3. t \in {"closer", "shutdown"}
  BY <1>2 DEF LifeInv, SessionInv, PlacesInv, Starting, Waits
<1> DEFINE row(gone) == [f \in Files |-> IF f \in gone THEN "removed"
                                        ELSE IF f \in Taken(s) THEN "left" ELSE file[s][f]]
<1>4. PICK gone \in SUBSET Taken(s), l \in Labels :
        /\ file' = [file EXCEPT ![s] = row(gone)]
        /\ Goto(s, t, l)
        /\ \/ t = "closer" /\ l \in {"failed", "cut"}
           \/ l = "done" /\ (t = "shutdown" \/ gone = Taken(s))
  <2>1. "done" \in Labels /\ "cut" \in Labels /\ "failed" \in Labels
    BY DEF Labels, Over
  <2>2. PICK gone \in SUBSET Taken(s) :
          /\ file' = [file EXCEPT ![s] = row(gone)]
          /\ \/ Goto(s, t, IF gone # Taken(s) /\ t = "closer" THEN "failed" ELSE "done")
             \/ t = "closer" /\ Goto(s, t, "cut")
    BY DEF FilesRemoved
  <2> HIDE DEF row
  <2>3. CASE t = "closer" /\ Goto(s, t, "cut")
    BY <2>1, <2>2, <2>3
  <2>4. CASE gone # Taken(s) /\ t = "closer" /\ Goto(s, t, "failed")
    BY <2>1, <2>2, <2>4
  <2>5. CASE ~(gone # Taken(s) /\ t = "closer") /\ Goto(s, t, "done")
    BY <1>3, <2>1, <2>2, <2>5
  <2>6. \/ t = "closer" /\ Goto(s, t, "cut")
        \/ gone # Taken(s) /\ t = "closer" /\ Goto(s, t, "failed")
        \/ ~(gone # Taken(s) /\ t = "closer") /\ Goto(s, t, "done")
    BY <2>2
  <2> QED BY <2>3, <2>4, <2>5, <2>6
<1>5. Goes(s, t, l)
  BY <1>1, <1>4, GotoGoes
<1>6. /\ file \in [Sessions -> [Files -> Fates]] /\ file[s] \in [Files -> Fates]
      /\ \A f \in Files : f \in Taken(s) <=> file[s][f] = "removing"
  BY <1>1 DEF TypeOK, Fates, Taken
<1>7. /\ row(gone) \in [Files -> Fates]
      /\ \A f \in Files :
           /\ row(gone)[f] \in {"none", "writing", "tracked"} => row(gone)[f] = file[s][f]
           /\ row(gone)[f] = "left" => file[s][f] = "left" \/ gone # Taken(s)
  BY <1>6 DEF Fates
<1> HIDE DEF row
<1>8. /\ file' \in [Sessions -> [Files -> Fates]]
      /\ \A u \in Sessions \ {s} : file'[u] = file[u]
      /\ file'[s] = row(gone)
  BY <1>4, <1>6, <1>7
<1>9. ASSUME NEW f \in Files PROVE Fate(s, t, l, f)
  <2>1. FileInv(s) /\ late' = late
    BY <1>2 DEF LifeInv, SessionInv
  <2>2. /\ file'[s][f] \in {"none", "writing", "tracked"} => file'[s][f] = file[s][f]
        /\ file'[s][f] = "left" => file[s][f] = "left" \/ gone # Taken(s)
    BY <1>7, <1>8
  <2>3. file[s][f] \in {"none", "writing", "tracked"} => f \in late[s]
    BY <1>2, <1>3, <2>1 DEF FileInv
  <2> QED BY <1>2, <1>3, <1>4, <2>1, <2>2, <2>3 DEF Fate
<1>10. OthersSame(s)
  BY <1>2, <1>5, <1>8 DEF OthersSame, Goes
<1>11. Mover(s, t) /\ (t = "closer" => s \notin registered')
  BY <1>2, WhoRunsMayMove
<1>12. /\ t = "closer" => Ended(s)' /\ Told(s)'
       /\ t = "shutdown" => Ended(s)' \/ at[s]["creator"] = "cut"
  BY <1>2, <1>3 DEF LifeInv, SessionInv, EndInv, Ended, Told
<1>13. t \notin Readers
  BY <1>3
<1>14. Step(s, t, l)
  BY <1>1, <1>2, <1>3, <1>4, <1>5, <1>9, <1>10, <1>11, <1>12, <1>13
     DEF Step, Mover, Waits, Terminating
<1>15. DataTypes'
  BY <1>1, <1>2, <1>8 DEF TypeOK, DataTypes, Fates
<1> QED BY <1>14, <1>15, StepIsSound

\* and so do the readers of its output,
LEMMA ReadersKeepInv ==
  ASSUME LifeInv, NEW s \in Sessions, NEW r \in Readers, ReaderEnds(s, r) \/ ReaderFails(s, r)
  PROVE  LifeInv'
<1> USE LifecycleAssumption DEF Tasks
<1>1. TypeOK /\ registered \subseteq Sessions /\ ~raising[s]["shutdown"]
  BY DEF LifeInv, TypeOK, SessionInv, RegistryInv
<1>2. at[s][r] = "reading" /\ UNCHANGED <<raising, closed, registered, down, proc, remote, call>>
  BY DEF ReaderEnds, ReaderFails, registry, process, results
<1>3. r \notin {"creator", "closer", "shutdown"}
  BY DEF Closers
<1>4. Mover(s, r)
  BY <1>2, <1>3 DEF Mover
<1>5. CASE ReaderEnds(s, r)
  <2>1. Goto(s, r, "done") /\ UNCHANGED <<signal, file, late>>
    BY <1>5 DEF ReaderEnds, process, results
  <2>2. "done" \in Labels
    BY DEF Labels, Over
  <2> QED BY <1>2, <1>3, <1>4, <2>1, <2>2, MoveKeepsInv
<1>6. CASE ReaderFails(s, r)
  <2>1. Terminate(s, r)
    BY <1>6 DEF ReaderFails
  <2>2. /\ \E l \in Labels : Goes(s, r, l) /\ Way(s, r, l)
        /\ signal' \in [Sessions -> {"none", "term", "kill"}]
        /\ \A u \in Sessions \ {s} : signal'[u] = signal[u]
        /\ signal[s] # "none" => signal'[s] # "none"
    BY <1>2, <2>1, TerminateGoes
  <2>3. Frame(s, r)
    BY <1>1, <1>2, <1>3, <2>2 DEF Frame
  <2> QED BY <1>1, <1>2, <1>4, <2>2, <2>3, WayKeepsInv DEF TypeOK
<1> QED BY <1>5, <1>6

\* A cancellation: in cancel_turn close goes on, later it is cut short, but
\* then the process has been told to end.
LEMMA InterruptionKeepsInv ==
  ASSUME LifeInv, NEW s \in Sessions, NEW t \in Tasks, Interrupted(s, t)
  PROVE  LifeInv'
<1> USE LifecycleAssumption DEF Tasks, Closers
<1>1. TypeOK /\ registered \subseteq Sessions /\ ~raising[s]["shutdown"] /\ TermInv(s)
  BY DEF LifeInv, TypeOK, SessionInv, RegistryInv
<1>2. /\ t \in {"creator", "closer"}
      /\ raising' = [raising EXCEPT ![s][t] = TRUE]
      /\ UNCHANGED <<registered, closed, down, proc, remote, call>>
  BY DEF Interrupted
<1>3. at[s][t] \in Waits \cup {"tell", "drain"}
  BY DEF Interrupted, Waits, Terminating
<1>4. Mover(s, t) /\ (t = "closer" => s \notin registered')
  BY <1>2, <1>3, WhoRunsMayMove
<1>5. /\ raising' \in [Sessions -> [Closers -> BOOLEAN]]
      /\ ~raising'[s]["shutdown"] /\ raising'[s][t]
      /\ \A u \in Sessions \ {s} : raising'[u] = raising[u]
  BY <1>1, <1>2 DEF TypeOK
<1>6. CASE at[s][t] \in {"tell", "drain"} /\ Terminate(s, t)
  <2>1. /\ \E l \in Labels : Goes(s, t, l) /\ Way(s, t, l)
        /\ signal' \in [Sessions -> {"none", "term", "kill"}]
        /\ \A u \in Sessions \ {s} : signal'[u] = signal[u]
        /\ signal[s] # "none" => signal'[s] # "none"
    BY <1>2, <1>6, TerminateGoes
  <2>2. t = "closer"
    BY <1>2, <1>6 DEF LifeInv, SessionInv, PlacesInv, Starting, Waits
  <2>3. Frame(s, t)
    BY <1>2, <1>4, <1>5, <2>1, <2>2 DEF Frame
  <2> QED BY <1>1, <1>2, <1>4, <1>5, <2>1, <2>3, WayKeepsInv DEF TypeOK
<1>7. CASE at[s][t] \in {"lock", "remote"} \cup Terminating /\ Goto(s, t, "cut")
           /\ UNCHANGED <<signal, file, late>>
  <2>1. Told(s)
    BY <1>1, <1>7 DEF TermInv, Told
  <2>2. "cut" \in Labels
    BY DEF Labels, Over
  <2> QED BY <1>2, <1>4, <1>7, <2>1, <2>2, MoveKeepsInv
<1> QED BY <1>6, <1>7 DEF Interrupted

(***************************************************************************)
(* Who begins a close                                                      *)
(***************************************************************************)
\* An error, the startup timeout or a cancellation ends a start.
LEMMA FailedStartKeepsInv ==
  ASSUME LifeInv, NEW s \in Sessions, StartFails(s)
  PROVE  LifeInv'
<1> USE LifecycleAssumption DEF Tasks, Closers
<1>1. TypeOK /\ registered \subseteq Sessions /\ ~raising[s]["shutdown"]
  BY DEF LifeInv, TypeOK, SessionInv, RegistryInv
<1>2. /\ at[s]["creator"] \in {"handshake", "answered"}
      /\ UNCHANGED <<down, proc, remote, call>>
      /\ closed' = [closed EXCEPT ![s] = TRUE]
  BY DEF StartFails, Close
<1>3. ~closed[s] /\ ~down
  BY <1>2 DEF LifeInv, SessionInv, StartInv, RegistryInv, Starting, Over
<1>4. Terminate(s, "creator")
  BY <1>2, <1>3 DEF StartFails, Close
<1>5. /\ \E l \in Labels : Goes(s, "creator", l) /\ Way(s, "creator", l)
      /\ signal' \in [Sessions -> {"none", "term", "kill"}]
      /\ \A u \in Sessions \ {s} : signal'[u] = signal[u]
      /\ signal[s] # "none" => signal'[s] # "none"
  BY <1>2, <1>4, TerminateGoes
<1>6. PICK l \in Labels : Goes(s, "creator", l) /\ Way(s, "creator", l)
  BY <1>5
<1>7. /\ raising' \in [Sessions -> [Closers -> BOOLEAN]]
      /\ ~raising'[s]["shutdown"]
      /\ \A u \in Sessions \ {s} : raising'[u] = raising[u]
  <2>1. PICK c \in BOOLEAN : raising' = [raising EXCEPT ![s]["creator"] = c]
    BY DEF StartFails
  <2>2. raising \in [Sessions -> [Closers -> BOOLEAN]] /\ raising[s] \in [Closers -> BOOLEAN]
    BY <1>1 DEF TypeOK
  <2> QED BY <1>1, <2>1, <2>2
<1>8. /\ closed' \in [Sessions -> BOOLEAN]
      /\ \A u \in Sessions \ {s} : closed'[u] = closed[u]
  BY <1>1, <1>2 DEF TypeOK
<1>9. /\ registered' \subseteq registered
      /\ \A u \in Sessions \ {s} : u \in registered' <=> u \in registered
      /\ at'[s]["creator"] = "failed" => s \notin registered'
  BY <1>6, Unregistered DEF StartFails
<1>10. "creator" \notin Readers
  OBVIOUS
<1>11. Mover(s, "creator") /\ Frame(s, "creator")
  BY <1>1, <1>2, <1>3, <1>5, <1>7, <1>8, <1>9, <1>10 DEF Mover, Frame
<1> QED BY <1>1, <1>2, <1>5, <1>6, <1>7, <1>8, <1>9, <1>11, WayKeepsInv DEF TypeOK

\* The first close of a session that was created.
LEMMA FirstCloseKeepsInv ==
  ASSUME LifeInv, NEW s \in Sessions, NEW t \in {"closer", "shutdown"},
         ~closed[s], Close(s, t), Mover(s, t), t = "closer" => s \notin registered',
         UNCHANGED <<raising, down, proc, remote, call>>,
         registered' \subseteq registered, \A u \in Sessions \ {s} : u \in registered' <=> u \in registered
  PROVE  LifeInv'
<1> USE LifecycleAssumption DEF Tasks, Closers
<1>1. TypeOK /\ registered \subseteq Sessions /\ ~raising[s]["shutdown"]
  BY DEF LifeInv, TypeOK, SessionInv, RegistryInv
<1>2. closed' = [closed EXCEPT ![s] = TRUE]
  BY DEF Close
<1>3. ASSUME NEW l \in {"tell", "drain"}, Goto(s, t, l) /\ UNCHANGED <<signal, file, late>>
      PROVE  LifeInv'
  <2>1. l \in Labels
    BY DEF Labels
  <2> QED BY <1>2, <1>3, <2>1, MoveKeepsInv
<1>4. CASE Terminate(s, t)
  <2>1. /\ \E l \in Labels : Goes(s, t, l) /\ Way(s, t, l)
        /\ signal' \in [Sessions -> {"none", "term", "kill"}]
        /\ \A u \in Sessions \ {s} : signal'[u] = signal[u]
        /\ signal[s] # "none" => signal'[s] # "none"
    BY <1>4, TerminateGoes
  <2>2. closed' \in [Sessions -> BOOLEAN] /\ \A u \in Sessions \ {s} : closed'[u] = closed[u]
    BY <1>1, <1>2 DEF TypeOK
  <2>3. t \notin Readers /\ t # "creator"
    OBVIOUS
  <2>4. Frame(s, t)
    BY <1>1, <2>1, <2>2, <2>3 DEF Frame
  <2> QED BY <1>1, <2>1, <2>2, <2>4, WayKeepsInv DEF TypeOK
<1> QED BY <1>3, <1>4 DEF Close

\* a close,
LEMMA CloseKeepsInv ==
  ASSUME LifeInv, NEW s \in Sessions, CloseSession(s)
  PROVE  LifeInv'
<1>1. /\ s \in registered /\ at[s]["creator"] = "created" /\ registered' = registered \ {s}
      /\ UNCHANGED <<raising, down, proc, remote, call>>
  BY DEF CloseSession
<1>2. ~closed[s] /\ ~down
  BY <1>1 DEF LifeInv, SessionInv, RegistryInv
<1>3. Mover(s, "closer")
  <2>1. at[s]["closer"] = "none"
    BY <1>1 DEF LifeInv, SessionInv, RegistryInv
  <2> QED BY <1>1, <1>2, <2>1, LifecycleAssumption DEF Mover, Starting, Closers
<1> QED BY <1>1, <1>2, <1>3, FirstCloseKeepsInv DEF CloseSession

\* What the shutdown finds closed is a create that was cut short: it has
\* nothing to wait for.
LEMMA ShutdownCloseKeepsInv ==
  ASSUME LifeInv, NEW s \in Sessions, ShutdownCloses(s)
  PROVE  LifeInv'
<1> USE LifecycleAssumption DEF Tasks, Closers
<1>1. TypeOK /\ registered \subseteq Sessions /\ RegistryInv(s)
  BY DEF LifeInv, TypeOK, SessionInv
<1>2. /\ at[s]["shutdown"] = "closing"
      /\ UNCHANGED <<raising, registered, down, proc, remote, call>>
      /\ closed' = [closed EXCEPT ![s] = TRUE]
  BY DEF ShutdownCloses, Close
<1>3. Mover(s, "shutdown")
  BY <1>2 DEF Mover
<1>4. CASE ~closed[s]
  BY <1>2, <1>3, <1>4, FirstCloseKeepsInv DEF ShutdownCloses
<1>5. CASE closed[s]
  <2>1. LeaveClose(s, "shutdown", at[s]) /\ UNCHANGED signal
    BY <1>5 DEF ShutdownCloses, Close
  <2>2. PICK l \in Labels : Goes(s, "shutdown", l) /\ Left(s, "shutdown", l)
    BY <1>1, <2>1, LeaveGoes
  <2>3. l = "gathered" /\ UNCHANGED <<file, late>>
    BY <1>1, <1>2, <2>2 DEF Left, RegistryInv
  <2>4. at[s]["creator"] = "cut"
    BY <1>1, <1>2, <1>5 DEF RegistryInv
  <2>5. closed' \in [Sessions -> BOOLEAN] /\ \A u \in Sessions \ {s} : closed'[u] = closed[u]
    BY <1>1, <1>2 DEF TypeOK
  <2>6. OthersSame(s)
    BY <1>2, <2>1, <2>2, <2>3, <2>5 DEF OthersSame, Goes
  <2>7. Step(s, "shutdown", l)
    BY <1>1, <1>2, <2>1, <2>2, <2>3, <2>4, <2>6 DEF Step, RegistryInv, Waits, Terminating
  <2>8. DataTypes'
    BY <1>1, <1>2, <2>1, <2>3, <2>5 DEF TypeOK, DataTypes, Fates
  <2> QED BY <2>7, <2>8, StepIsSound
<1> QED BY <1>4, <1>5

\* The files are taken when every close of the shutdown is over.
LEMMA GatherKeepsInv ==
  ASSUME LifeInv, NEW s \in Sessions, Gathered(s)
  PROVE  LifeInv'
<1> USE LifecycleAssumption DEF Tasks, Closers
<1>1. TypeOK /\ registered \subseteq Sessions /\ RegistryInv(s) /\ EndInv(s)
  BY DEF LifeInv, TypeOK, SessionInv
<1>2. /\ at[s]["shutdown"] = "gathered" /\ TakeFiles(s) /\ Goto(s, "shutdown", "files")
      /\ UNCHANGED <<raising, registered, closed, down, proc, signal, remote, call>>
  BY DEF Gathered, registry, process
<1>3. "files" \in Labels
  BY DEF Labels
<1>4. Goes(s, "shutdown", "files")
  BY <1>1, <1>2, <1>3, GotoGoes
<1>5. /\ file' \in [Sessions -> [Files -> Fates]]
      /\ late' \in [Sessions -> SUBSET Files]
      /\ \A f \in Files : Fate(s, "shutdown", "files", f)
      /\ \A u \in Sessions \ {s} : file'[u] = file[u] /\ late'[u] = late[u]
  BY <1>1, <1>2, FilesTaken
<1>6. OthersSame(s)
  BY <1>2, <1>4, <1>5 DEF OthersSame, Goes
<1>7. Ended(s)' \/ at[s]["creator"] = "cut"
  BY <1>1, <1>2 DEF EndInv, Ended
<1>8. Step(s, "shutdown", "files")
  BY <1>1, <1>2, <1>4, <1>5, <1>6, <1>7 DEF Step, RegistryInv, Waits, Terminating
<1>9. DataTypes'
  BY <1>1, <1>2, <1>5 DEF TypeOK, DataTypes, Fates
<1> QED BY <1>3, <1>8, <1>9, StepIsSound

(***************************************************************************)
(* create                                                                  *)
(***************************************************************************)
\* create goes from one of its places to the next.
LEMMA CreateMoves ==
  ASSUME LifeInv, NEW s \in Sessions, NEW l \in Labels, Goto(s, "creator", l),
         registered' \subseteq Sessions, \A u \in Sessions \ {s} : u \in registered' <=> u \in registered,
         closed' = closed \/ closed' = [closed EXCEPT ![s] = TRUE],
         UNCHANGED <<raising, down, process, results>>
  PROVE  /\ TypeOK' /\ OthersSame(s)
         /\ at'[s]["creator"] = l
         /\ \A x \in Tasks \ {"creator"} : at'[s][x] = at[s][x]
<1> USE LifecycleAssumption DEF Tasks, Closers, process, results
<1>1. TypeOK
  BY DEF LifeInv
<1>2. Goes(s, "creator", l)
  BY <1>1, GotoGoes
<1>3. closed' \in [Sessions -> BOOLEAN] /\ \A u \in Sessions \ {s} : closed'[u] = closed[u]
  BY <1>1 DEF TypeOK
<1>4. OthersSame(s)
  BY <1>2, <1>3 DEF OthersSame, Goes
<1>5. at' \in [Sessions -> [Tasks -> Labels]] /\ at'[s]["creator"] = l
  BY <1>2 DEF Goes
<1>6. \A x \in Tasks \ {"creator"} : at'[s][x] = at[s][x]
  BY <1>1 DEF TypeOK, Goto
<1>7. ASSUME NEW u \in Sessions, NEW r \in Readers, at'[u][r] # "none" PROVE proc'[u] # "none"
  <2>1. at'[u][r] = at[u][r]
    BY <1>2, <1>6 DEF Goes
  <2> QED BY <1>1, <1>7, <2>1 DEF TypeOK
<1>8. TypeOK'
  BY <1>1, <1>3, <1>5, <1>7 DEF TypeOK
<1> QED BY <1>4, <1>5, <1>6, <1>8

\* a create,
LEMMA CreateKeepsInv ==
  ASSUME LifeInv, NEW s \in Sessions, Create(s)
  PROVE  LifeInv'
<1> USE LifecycleAssumption DEF Tasks, Closers
<1>1. /\ ~down /\ at[s]["creator"] = "none"
      /\ registered' = registered \cup {s} /\ Goto(s, "creator", "launch")
      /\ UNCHANGED <<raising, closed, down, process, results>>
  BY DEF Create
<1>2. "launch" \in Labels /\ registered \subseteq Sessions
  BY DEF Labels, LifeInv, TypeOK
<1>3. /\ TypeOK' /\ OthersSame(s)
      /\ at'[s]["creator"] = "launch"
      /\ \A x \in Tasks \ {"creator"} : at'[s][x] = at[s][x]
  BY <1>1, <1>2, CreateMoves
<1>4. PlacesInv(s) /\ StartInv(s) /\ RegistryInv(s) /\ TermInv(s) /\ EndInv(s) /\ FileInv(s)
  BY DEF LifeInv, SessionInv
<1>5. UNCHANGED <<proc, signal, remote, call, file, late>>
  BY <1>1 DEF process, results
<1>6. ~closed[s] /\ at[s]["closer"] = "none" /\ at[s]["shutdown"] = "none"
  BY <1>1, <1>4 DEF StartInv, Starting
<1>7. PlacesInv(s)' /\ StartInv(s)'
  BY <1>1, <1>3, <1>4, <1>5, <1>6 DEF PlacesInv, StartInv, Starting
<1>8. RegistryInv(s)'
  BY <1>1, <1>3, <1>4, <1>6 DEF RegistryInv
<1>9. TermInv(s)' /\ EndInv(s)' /\ FileInv(s)'
  BY <1>3, <1>4, <1>5, <1>6 DEF TermInv, EndInv, FileInv, Ended, Told, Terminating
<1> QED BY <1>3, <1>7, <1>8, <1>9, OthersKeepInv DEF LifeInv, SessionInv

\* start fails before there is a process: nothing has to be ended.
LEMMA FailedLaunchKeepsInv ==
  ASSUME LifeInv, NEW s \in Sessions, LaunchFails(s) \/ LaunchCancelled(s)
  PROVE  LifeInv'
<1> USE LifecycleAssumption DEF Tasks, Closers
<1>1. /\ at[s]["creator"] = "launch"
      /\ UNCHANGED <<raising, down, process, results>>
      /\ UNCHANGED <<proc, signal, remote, call, file, late>>
  BY DEF LaunchFails, LaunchCancelled, registry, process, results
<1>2. PlacesInv(s) /\ StartInv(s) /\ RegistryInv(s) /\ TermInv(s) /\ EndInv(s) /\ FileInv(s)
  BY DEF LifeInv, SessionInv
<1>3. /\ closed' = closed \/ closed' = [closed EXCEPT ![s] = TRUE]
      /\ registered' \subseteq registered /\ registered \subseteq Sessions
      /\ \A u \in Sessions \ {s} : u \in registered' <=> u \in registered
  BY DEF LaunchFails, LaunchCancelled, registry, LifeInv, TypeOK
<1>4. PICK l \in Labels : /\ Goto(s, "creator", l)
                          /\ \/ l = "remote" /\ s \in Remote /\ s \notin registered'
                             \/ l = "failed" /\ s \notin registered'
                             \/ l = "cut" /\ UNCHANGED <<registered, closed>>
  <2>1. "remote" \in Labels /\ "failed" \in Labels /\ "cut" \in Labels
    BY DEF Labels, Over
  <2>2. CASE LaunchFails(s)
    <3>1. CASE s \in Remote
      BY <2>1, <2>2, <3>1 DEF LaunchFails
    <3>2. CASE s \notin Remote
      BY <2>1, <2>2, <3>2 DEF LaunchFails
    <3> QED BY <3>1, <3>2
  <2>3. CASE LaunchCancelled(s)
    BY <2>1, <2>3 DEF LaunchCancelled, registry
  <2> QED BY <2>2, <2>3
<1>5. /\ TypeOK' /\ OthersSame(s)
      /\ at'[s]["creator"] = l
      /\ \A x \in Tasks \ {"creator"} : at'[s][x] = at[s][x]
  BY <1>1, <1>3, <1>4, CreateMoves
<1>6. /\ ~closed[s] /\ at[s]["closer"] = "none" /\ at[s]["shutdown"] = "none"
      /\ proc[s] = "none" /\ remote[s] = "none" /\ ~down
  BY <1>1, <1>2 DEF StartInv, RegistryInv, Starting, Over
<1>7. PlacesInv(s)' /\ StartInv(s)'
  BY <1>2, <1>4, <1>5, <1>6 DEF PlacesInv, StartInv, Starting, Waits
<1>8. RegistryInv(s)'
  BY <1>1, <1>2, <1>3, <1>4, <1>5, <1>6 DEF RegistryInv
<1>9. TermInv(s)' /\ EndInv(s)' /\ FileInv(s)'
  BY <1>1, <1>2, <1>4, <1>5, <1>6 DEF TermInv, EndInv, FileInv, Ended, Told, Terminating
<1> QED BY <1>5, <1>7, <1>8, <1>9, OthersKeepInv DEF LifeInv, SessionInv

\* and so do the end of the handshake and the return of create.
LEMMA AnswerKeepsInv ==
  ASSUME LifeInv, NEW s \in Sessions, Answered(s) \/ Created(s)
  PROVE  LifeInv'
<1> USE LifecycleAssumption DEF Tasks, Closers
<1>1. /\ at[s]["creator"] \in {"handshake", "answered"}
      /\ UNCHANGED <<raising, registered, closed, down, process, results>>
      /\ UNCHANGED <<proc, signal, remote, call, file, late>>
  BY DEF Answered, Created, registry, process, results
<1>2. PlacesInv(s) /\ StartInv(s) /\ RegistryInv(s) /\ TermInv(s) /\ EndInv(s) /\ FileInv(s)
  BY DEF LifeInv, SessionInv
<1>3. registered \subseteq Sessions
  BY DEF LifeInv, TypeOK
<1>4. PICK l \in {"answered", "created"} : Goto(s, "creator", l)
  BY DEF Answered, Created
<1>5. l \in Labels
  BY DEF Labels, Over
<1>6. /\ TypeOK' /\ OthersSame(s)
      /\ at'[s]["creator"] = l
      /\ \A x \in Tasks \ {"creator"} : at'[s][x] = at[s][x]
  BY <1>1, <1>3, <1>4, <1>5, CreateMoves
<1>7. ~closed[s] /\ at[s]["closer"] = "none" /\ at[s]["shutdown"] = "none" /\ ~down
  BY <1>1, <1>2 DEF StartInv, RegistryInv, Starting, Over
<1>8. PlacesInv(s)' /\ StartInv(s)'
  BY <1>1, <1>2, <1>6, <1>7 DEF PlacesInv, StartInv, Starting
<1>9. RegistryInv(s)'
  BY <1>1, <1>2, <1>6, <1>7 DEF RegistryInv
<1>10. TermInv(s)' /\ EndInv(s)' /\ FileInv(s)'
  BY <1>1, <1>2, <1>6, <1>7 DEF TermInv, EndInv, FileInv, Ended, Told, Terminating
<1> QED BY <1>6, <1>8, <1>9, <1>10, OthersKeepInv DEF LifeInv, SessionInv

\* The process is there, and its readers read.
LEMMA LaunchKeepsInv ==
  ASSUME LifeInv, NEW s \in Sessions, Launched(s)
  PROVE  LifeInv'
<1> USE LifecycleAssumption DEF Tasks, Closers
<1>1. TypeOK /\ PlacesInv(s) /\ StartInv(s) /\ RegistryInv(s) /\ TermInv(s) /\ FileInv(s)
  BY DEF LifeInv, SessionInv
<1> DEFINE row == [t \in Tasks |-> IF t \in Readers THEN "reading"
                                   ELSE IF t = "creator" THEN "handshake" ELSE "none"]
           agent == IF s \in Remote THEN "starting" ELSE remote[s]
<1>2. /\ at[s]["creator"] = "launch"
      /\ UNCHANGED <<raising, registered, closed, down, signal, call, file, late>>
      /\ proc' = [proc EXCEPT ![s] = "up"]
      /\ remote' = [remote EXCEPT ![s] = agent]
      /\ at' = [at EXCEPT ![s] = row]
  BY <1>1 DEF Launched, registry, results, TypeOK
<1>3. row \in [Tasks -> Labels]
  BY DEF Labels, Over
<1>4. /\ row["creator"] = "handshake" /\ row["closer"] = "none" /\ row["shutdown"] = "none"
      /\ \A r \in Readers : row[r] = "reading"
  OBVIOUS
<1>5. agent \in {"none", "starting", "running", "missed", "ended"} /\ (s \notin Remote => agent = "none")
  BY <1>1 DEF TypeOK, TermInv
<1> HIDE DEF row, agent
<1>6. /\ at' \in [Sessions -> [Tasks -> Labels]]
      /\ at'[s] = row /\ \A u \in Sessions \ {s} : at'[u] = at[u]
  BY <1>1, <1>2, <1>3 DEF TypeOK
<1>7. /\ proc' \in [Sessions -> {"none", "up", "dead"}]
      /\ proc'[s] = "up" /\ \A u \in Sessions \ {s} : proc'[u] = proc[u]
  BY <1>1, <1>2 DEF TypeOK
<1>8. /\ remote' \in [Sessions -> {"none", "starting", "running", "missed", "ended"}]
      /\ remote'[s] = agent /\ \A u \in Sessions \ {s} : remote'[u] = remote[u]
  BY <1>1, <1>2, <1>5 DEF TypeOK
<1>9. TypeOK'
  <2>1. ASSUME NEW u \in Sessions, NEW r \in Readers, at'[u][r] # "none" PROVE proc'[u] # "none"
    <3>1. CASE u = s
      BY <1>7, <3>1
    <3>2. CASE u # s
      <4>1. at'[u] = at[u] /\ proc'[u] = proc[u]
        BY <1>6, <1>7, <3>2
      <4> QED BY <1>1, <2>1, <4>1 DEF TypeOK
    <3> QED BY <3>1, <3>2
  <2> QED BY <1>1, <1>2, <1>6, <1>7, <1>8, <2>1 DEF TypeOK
<1>10. OthersSame(s)
  BY <1>2, <1>6, <1>7, <1>8 DEF OthersSame
<1>11. ~closed[s] /\ ~down
  BY <1>1, <1>2 DEF StartInv, RegistryInv, Starting, Over
<1>12. PlacesInv(s)' /\ StartInv(s)'
  BY <1>2, <1>4, <1>6, <1>11 DEF PlacesInv, StartInv, Starting
<1>13. RegistryInv(s)'
  BY <1>1, <1>2, <1>4, <1>6, <1>11 DEF RegistryInv
<1>14. TermInv(s)' /\ EndInv(s)'
  BY <1>4, <1>5, <1>6, <1>8 DEF TermInv, EndInv, Terminating
<1>15. FileInv(s)'
  BY <1>1, <1>2, <1>4, <1>6 DEF FileInv, StartInv, Starting
<1> QED BY <1>9, <1>10, <1>12, <1>13, <1>14, <1>15, OthersKeepInv DEF LifeInv, SessionInv

(***************************************************************************)
(* The shutdown, the calls and the process                                 *)
(***************************************************************************)
\* close_all finds every create and close over, and takes over what is left.
LEMMA ShutdownKeepsInv ==
  ASSUME LifeInv, Shutdown
  PROVE  LifeInv'
<1> USE LifecycleAssumption DEF Tasks, Closers
<1>1. TypeOK
  BY DEF LifeInv
<1>2. /\ ~down /\ down' = TRUE /\ registered' = {}
      /\ \A s \in Sessions : /\ call[s] = "none"
                             /\ at[s]["creator"] \in Over /\ at[s]["closer"] \in Over
      /\ UNCHANGED <<raising, closed, proc, signal, remote, call, file, late>>
  BY DEF Shutdown, process, results
<1>3. /\ at' \in [Sessions -> [Tasks -> Labels]]
      /\ \A s \in Sessions :
           /\ \A t \in Tasks \ {"shutdown"} : at'[s][t] = at[s][t]
           /\ at'[s]["shutdown"] = IF s \in registered THEN "closing" ELSE at[s]["shutdown"]
  <2>1. "closing" \in Labels /\ at \in [Sessions -> [Tasks -> Labels]]
    BY <1>1 DEF Labels, TypeOK
  <2>2. at' = [s \in Sessions |-> IF s \in registered THEN [at[s] EXCEPT !["shutdown"] = "closing"]
                                                     ELSE at[s]]
    BY DEF Shutdown
  <2> QED BY <2>1, <2>2
<1>4. TypeOK'
  <2>1. ASSUME NEW s \in Sessions, NEW r \in Readers, at'[s][r] # "none" PROVE proc'[s] # "none"
    <3>1. at'[s][r] = at[s][r]
      BY <1>3
    <3> QED BY <1>1, <1>2, <2>1, <3>1 DEF TypeOK
  <2> QED BY <1>1, <1>2, <1>3, <2>1 DEF TypeOK
<1>5. ASSUME NEW s \in Sessions PROVE SessionInv(s)'
  <2>1. PlacesInv(s) /\ StartInv(s) /\ RegistryInv(s) /\ TermInv(s) /\ EndInv(s) /\ FileInv(s)
    BY DEF LifeInv, SessionInv
  <2>2. /\ \A t \in Tasks \ {"shutdown"} : at'[s][t] = at[s][t]
        /\ at'[s]["creator"] = at[s]["creator"] /\ at'[s]["closer"] = at[s]["closer"]
        /\ \A r \in Readers : at'[s][r] = at[s][r]
        /\ at'[s]["shutdown"] \in {"closing", at[s]["shutdown"]}
        /\ at'[s]["shutdown"] = "closing" => s \in registered
    <3>1. at[s]["shutdown"] = "none"
      BY <1>2, <2>1 DEF RegistryInv
    <3> QED BY <1>3, <3>1
  <2>3. PlacesInv(s)'
    BY <2>1, <2>2 DEF PlacesInv
  <2>4. StartInv(s)'
    <3> SUFFICES ASSUME at'[s]["creator"] \in Starting PROVE StartInv(s)'
      BY DEF StartInv, Starting
    <3>1. at[s]["creator"] = "none" /\ s \notin registered
      BY <1>2, <2>1, <2>2 DEF RegistryInv, Starting, Over
    <3> QED BY <1>2, <1>3, <2>1, <2>2, <3>1 DEF StartInv
  <2>5. RegistryInv(s)'
    <3>1. s \in registered /\ closed[s] => at[s]["creator"] = "cut"
      BY <1>2, <2>1 DEF PlacesInv, RegistryInv, Starting, Waits, Over
    <3> QED BY <1>2, <2>1, <2>2, <3>1 DEF RegistryInv
  <2>6. TermInv(s)'
    <3>1. \A t \in Tasks : at'[s][t] = at[s][t] \/ at'[s][t] = "closing"
      BY <2>2
    <3> QED BY <1>2, <2>1, <3>1 DEF TermInv, Told, Terminating
  <2>7. EndInv(s)' /\ FileInv(s)'
    <3>1. at[s]["shutdown"] = "none"
      BY <1>2, <2>1 DEF RegistryInv
    <3> QED BY <1>2, <2>1, <2>2, <3>1 DEF EndInv, FileInv, Ended
  <2> QED BY <2>3, <2>4, <2>5, <2>6, <2>7 DEF SessionInv
<1> QED BY <1>4, <1>5 DEF LifeInv

\* A file that is written after the others were taken is late.
LEMMA CallsKeepInv ==
  ASSUME LifeInv, NEW s \in Sessions, CallStep(s)
  PROVE  LifeInv'
<1>1. TypeOK /\ SessionInv(s)
  BY DEF LifeInv
<1>2. UNCHANGED <<at, raising, registered, closed, down, proc, signal, remote, late>>
  BY DEF CallStep, BeginCall, CallReturns, WriteResult, ResultWritten, registry, process
<1>3. call' \in [Sessions -> {"none", "turn", "writing"}]
  BY <1>1 DEF TypeOK, CallStep, BeginCall, CallReturns, WriteResult, ResultWritten
<1>4. FileInv(s) /\ RegistryInv(s)
  BY <1>1 DEF SessionInv
<1>5. /\ file \in [Sessions -> [Files -> Fates]] /\ file[s] \in [Files -> Fates]
      /\ call \in [Sessions -> {"none", "turn", "writing"}]
  BY <1>1 DEF TypeOK, Fates
<1>6. /\ file' \in [Sessions -> [Files -> Fates]]
      /\ \A u \in Sessions \ {s} : file'[u] = file[u] /\ call'[u] = call[u]
      /\ FileInv(s)'
  <2>1. CASE BeginCall(s)
    <3>1. file' = file /\ call' = [call EXCEPT ![s] = "turn"] /\ at[s]["shutdown"] = "none"
          /\ \A f \in Files : file[s][f] # "writing"
      BY <1>4, <2>1 DEF BeginCall, RegistryInv, FileInv
    <3> QED BY <1>2, <1>4, <1>5, <3>1 DEF FileInv
  <2>2. CASE CallReturns(s)
    <3>1. file' = file /\ call' = [call EXCEPT ![s] = "none"]
          /\ \A f \in Files : file[s][f] # "writing"
      BY <1>4, <2>2 DEF CallReturns, FileInv
    <3> QED BY <1>2, <1>4, <1>5, <3>1 DEF FileInv
  <2>3. ASSUME NEW f \in Files, WriteResult(s, f)
        PROVE  /\ file' \in [Sessions -> [Files -> Fates]]
               /\ \A u \in Sessions \ {s} : file'[u] = file[u] /\ call'[u] = call[u]
               /\ FileInv(s)'
    <3>1. /\ file[s][f] = "none" /\ at[s]["shutdown"] = "none"
          /\ \A g \in Files : file[s][g] # "writing"
          /\ file' = [file EXCEPT ![s][f] = "writing"] /\ call' = [call EXCEPT ![s] = "writing"]
      BY <1>4, <2>3 DEF WriteResult, FileInv
    <3>2. /\ file'[s][f] = "writing" /\ \A g \in Files \ {f} : file'[s][g] = file[s][g]
          /\ call'[s] = "writing"
      BY <1>5, <3>1
    <3>3. file' \in [Sessions -> [Files -> Fates]]
      BY <1>5, <3>1 DEF Fates
    <3>4. FileInv(s)'
      BY <1>2, <1>4, <3>1, <3>2 DEF FileInv
    <3> QED BY <1>5, <3>1, <3>3, <3>4
  <2>4. ASSUME NEW f \in Files, ResultWritten(s, f)
        PROVE  /\ file' \in [Sessions -> [Files -> Fates]]
               /\ \A u \in Sessions \ {s} : file'[u] = file[u] /\ call'[u] = call[u]
               /\ FileInv(s)'
    <3>1. PICK l \in {"tracked", "lost"} : file' = [file EXCEPT ![s][f] = l]
      BY <2>4 DEF ResultWritten
    <3>2. /\ file[s][f] = "writing" /\ at[s]["shutdown"] = "none"
          /\ \A g \in Files \ {f} : file[s][g] # "writing"
          /\ call' = [call EXCEPT ![s] = "none"]
      BY <1>4, <2>4 DEF ResultWritten, FileInv
    <3>3. /\ file'[s][f] = l /\ \A g \in Files \ {f} : file'[s][g] = file[s][g]
          /\ call'[s] = "none"
      BY <1>5, <3>1, <3>2
    <3>4. file' \in [Sessions -> [Files -> Fates]]
      BY <1>5, <3>1 DEF Fates
    <3>5. FileInv(s)'
      BY <1>2, <1>4, <3>2, <3>3 DEF FileInv
    <3> QED BY <1>5, <3>1, <3>2, <3>4, <3>5
  <2> QED BY <2>1, <2>2, <2>3, <2>4 DEF CallStep
<1>7. OthersSame(s)
  BY <1>2, <1>6 DEF OthersSame
<1>8. TypeOK'
  BY <1>1, <1>2, <1>3, <1>6 DEF TypeOK, Fates
<1>9. PlacesInv(s)' /\ StartInv(s)' /\ RegistryInv(s)' /\ TermInv(s)' /\ EndInv(s)'
  BY <1>1, <1>2 DEF SessionInv, PlacesInv, StartInv, RegistryInv, TermInv, EndInv, Ended, Told
<1> QED BY <1>6, <1>7, <1>8, <1>9, OthersKeepInv DEF LifeInv, SessionInv

\* The process ends, or the agent behind ssh has written its pid file.
LEMMA ProcessKeepsInv ==
  ASSUME LifeInv, NEW s \in Sessions, ProcEnds(s) \/ RemoteStarts(s)
  PROVE  LifeInv'
<1>1. TypeOK /\ SessionInv(s)
  BY DEF LifeInv
<1>2. UNCHANGED <<at, raising, registered, closed, down, signal, call, file, late>>
  BY DEF ProcEnds, RemoteStarts, registry, results
<1>3. CASE ProcEnds(s)
  <2>1. /\ proc[s] = "up" /\ remote' = remote
        /\ proc' = [proc EXCEPT ![s] = "dead"]
    BY <1>3 DEF ProcEnds
  <2>2. /\ proc' \in [Sessions -> {"none", "up", "dead"}]
        /\ proc'[s] = "dead" /\ \A u \in Sessions \ {s} : proc'[u] = proc[u]
    BY <1>1, <2>1 DEF TypeOK
  <2>3. OthersSame(s)
    BY <1>2, <2>1, <2>2 DEF OthersSame
  <2>4. \A u \in Sessions : proc[u] # "none" => proc'[u] # "none"
    BY <2>2
  <2>5. TypeOK'
    BY <1>1, <1>2, <2>1, <2>2, <2>4 DEF TypeOK
  <2>6. PlacesInv(s)' /\ StartInv(s)' /\ RegistryInv(s)' /\ FileInv(s)'
    BY <1>1, <1>2, <2>1 DEF SessionInv, PlacesInv, StartInv, RegistryInv, FileInv
  <2>7. TermInv(s)' /\ EndInv(s)'
    BY <1>1, <1>2, <2>1, <2>2 DEF SessionInv, TermInv, EndInv, Ended, Told
  <2> QED BY <2>3, <2>5, <2>6, <2>7, OthersKeepInv DEF LifeInv, SessionInv
<1>4. CASE RemoteStarts(s)
  <2>1. /\ remote[s] = "starting" /\ proc' = proc
        /\ remote' = [remote EXCEPT ![s] = "running"]
    BY <1>4 DEF RemoteStarts
  <2>2. /\ remote' \in [Sessions -> {"none", "starting", "running", "missed", "ended"}]
        /\ remote'[s] = "running" /\ \A u \in Sessions \ {s} : remote'[u] = remote[u]
    BY <1>1, <2>1 DEF TypeOK
  <2>3. OthersSame(s)
    BY <1>2, <2>1, <2>2 DEF OthersSame
  <2>4. TypeOK'
    BY <1>1, <1>2, <2>1, <2>2 DEF TypeOK
  <2>5. PlacesInv(s)' /\ StartInv(s)' /\ RegistryInv(s)' /\ FileInv(s)'
    BY <1>1, <1>2, <2>1 DEF SessionInv, PlacesInv, StartInv, RegistryInv, FileInv
  <2>6. TermInv(s)' /\ EndInv(s)'
    BY <1>1, <1>2, <2>1, <2>2 DEF SessionInv, TermInv, EndInv, Ended, Told
  <2> QED BY <2>3, <2>4, <2>5, <2>6, OthersKeepInv DEF LifeInv, SessionInv
<1> QED BY <1>3, <1>4

(***************************************************************************)
(* The theorems                                                            *)
(***************************************************************************)
LEMMA LifeInit == Init => LifeInv
<1> SUFFICES ASSUME Init PROVE LifeInv
  OBVIOUS
<1> USE LifecycleAssumption DEF Init, Tasks, Closers
<1>1. TypeOK
  BY DEF TypeOK, Labels, Over
<1>2. ASSUME NEW s \in Sessions PROVE SessionInv(s)
  BY DEF SessionInv, PlacesInv, StartInv, RegistryInv, TermInv, EndInv, FileInv, Starting,
         Terminating, Over
<1> QED BY <1>1, <1>2 DEF LifeInv

\* Every step keeps the invariant.
LEMMA LifeStep == LifeInv /\ [Next]_vars => LifeInv'
<1> SUFFICES ASSUME LifeInv, [Next]_vars PROVE LifeInv'
  OBVIOUS
<1>1. CASE UNCHANGED vars
  BY <1>1 DEF vars, registry, process, results, LifeInv, TypeOK, SessionInv, PlacesInv, StartInv,
              RegistryInv, TermInv, EndInv, FileInv, Ended, Told
<1>2. CASE Shutdown
  BY <1>2, ShutdownKeepsInv
<1>3. ASSUME NEW s \in Sessions, Create(s) PROVE LifeInv'
  BY <1>3, CreateKeepsInv
<1>4. ASSUME NEW s \in Sessions, LaunchStep(s) PROVE LifeInv'
  BY <1>4, LaunchKeepsInv, FailedLaunchKeepsInv DEF LaunchStep
<1>5. ASSUME NEW s \in Sessions, StartStep(s) PROVE LifeInv'
  BY <1>5, AnswerKeepsInv, FailedStartKeepsInv DEF StartStep
<1>6. ASSUME NEW s \in Sessions, CloseSession(s) \/ ShutdownStep(s) PROVE LifeInv'
  BY <1>6, CloseKeepsInv, ShutdownCloseKeepsInv, GatherKeepsInv DEF ShutdownStep
<1>7. ASSUME NEW s \in Sessions, CallStep(s) \/ ProcEnds(s) \/ RemoteStarts(s) PROVE LifeInv'
  BY <1>7, CallsKeepInv, ProcessKeepsInv
<1>8. ASSUME NEW s \in Sessions, NEW t \in Tasks, CloseStep(s, t) \/ AgentReads(s, t) \/ Interrupted(s, t)
      PROVE LifeInv'
  BY <1>8, TerminationKeepsInv, ReadingKeepsInv, TimeoutKeepsInv, CleanUpKeepsInv,
     RemovalKeepsInv, InterruptionKeepsInv DEF CloseStep
<1>9. ASSUME NEW s \in Sessions, NEW r \in Readers, ReaderEnds(s, r) \/ ReaderFails(s, r) PROVE LifeInv'
  BY <1>9, ReadersKeepInv
<1> QED BY <1>1, <1>2, <1>3, <1>4, <1>5, <1>6, <1>7, <1>8, <1>9 DEF Next

\* The invariant holds in every reachable state.
LEMMA LifeInvariance == Spec => []LifeInv
BY LifeInit, LifeStep, PTL DEF Spec

\* In every reachable state the places of the tasks and the rows of every
\* session have their types, and a reader that runs has a process to read.
THEOREM LifecycleTypeCorrect == Spec => []TypeOK
<1>1. LifeInv => TypeOK
  BY DEF LifeInv
<1> QED BY <1>1, LifeInvariance, PTL

\* A create that failed or was cancelled leaves no process that was not told to
\* end, and a failed one no entry in the registry, at whatever point of the
\* launch, the handshake or the close it ended.
THEOREM NoFailedCreateIsUsable == Spec => []FailedCreateIsHarmless
<1>1. LifeInv => FailedCreateIsHarmless
  <2> SUFFICES ASSUME LifeInv, NEW s \in Sessions, at[s]["creator"] \in {"failed", "cut"}
               PROVE  /\ proc[s] = "up" => signal[s] # "none"
                      /\ at[s]["creator"] = "failed" => s \notin registered
    BY DEF FailedCreateIsHarmless
  <2>1. TermInv(s) /\ EndInv(s) /\ RegistryInv(s)
    BY DEF LifeInv, SessionInv
  <2> QED BY <2>1 DEF TermInv, EndInv, RegistryInv, Ended, Told, Tasks, Closers
<1> QED BY <1>1, LifeInvariance, PTL

\* A close that returned saw the process end, and the agent behind ssh as far
\* as the clean-up could reach it, though others were terminating it as well.
THEOREM ReturnedCloseIsFinal == Spec => []ClosedMeansEnded
<1>1. LifeInv => ClosedMeansEnded
  <2> SUFFICES ASSUME LifeInv, NEW s \in Sessions, Closed(s), ~WasCut(s)
               PROVE  Ended(s)
    BY DEF ClosedMeansEnded, Ended
  <2>1. EndInv(s) /\ at[s]["creator"] # "cut"
    BY DEF LifeInv, SessionInv, WasCut, Closers
  <2> QED BY <2>1 DEF EndInv, Closed
<1> QED BY <1>1, LifeInvariance, PTL

\* Whoever was cut short while closing had told the process to end, or seen
\* that it had.
THEOREM NoCloseStopsTooEarly == Spec => []CutCloseHasSignalled
<1>1. LifeInv => CutCloseHasSignalled
  <2> SUFFICES ASSUME LifeInv, NEW s \in Sessions, WasCut(s)
               PROVE  Told(s)
    BY DEF CutCloseHasSignalled, Told
  <2>1. TermInv(s)
    BY DEF LifeInv, SessionInv
  <2> QED BY <2>1 DEF TermInv, WasCut, Tasks
<1> QED BY <1>1, LifeInvariance, PTL

\* A close that returned leaves only files that were not finished when the
\* removal began, whatever unlink did, and a shutdown leaves none in the list
\* of its session.
THEOREM OnlyLateFilesAreLeft == Spec => []LeftoverIsLate
<1>1. LifeInv => LeftoverIsLate
  <2> SUFFICES ASSUME LifeInv, NEW s \in Sessions, NEW f \in Files
               PROVE  /\ at[s]["closer"] = "done" /\ file[s][f] \in {"tracked", "left"}
                           => f \in late[s]
                      /\ at[s]["shutdown"] = "done" => file[s][f] # "tracked"
    BY DEF LeftoverIsLate
  <2>1. FileInv(s) /\ RegistryInv(s)
    BY DEF LifeInv, SessionInv
  <2> QED BY <2>1 DEF FileInv, RegistryInv
<1> QED BY <1>1, LifeInvariance, PTL
====
