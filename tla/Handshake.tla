---- MODULE Handshake ----
(***************************************************************************)
(* What AcpClient.start and set_model say to the agent: initialize, log    *)
(* in, new or load, and later session/set_model; and which model the       *)
(* bridge records from the agent's responses and model updates.  A         *)
(* response and the step of the task that waits for it are two steps: the  *)
(* reader may apply an update in between.                                  *)
(***************************************************************************)
EXTENDS Naturals, SequencesExt, Functions

CONSTANTS Models, Names,  \* model ids and display names
          NoModel, NoName,
          MaxRequests,    \* bound on requests: at most 4 for the start
          MaxUpdates,     \* bound on model_update notices
          MaxWire         \* bound on lines the reader has not read

ASSUME HandshakeAssumption == NoModel \notin Models /\ NoName \notin Names \cup Models

\* The part of a message that _update_model_info looks at: the current model,
\* if it names one, and the entries of availableModels.
Infos == [current : Models \cup {NoModel}, list : {{}} \cup {{e} : e \in Models \X Names}]
NoInfo == [current |-> NoModel, list |-> {}]

\* A response.  effective is the modelId of set_model's result, given the
\* session id or the methods or the user it brings.
Bodies == [ok : BOOLEAN, given : BOOLEAN, info : Infos, effective : Models \cup {NoModel}]
Reply(ok, given, info, effective) ==
  [ok |-> ok, given |-> given, info |-> info, effective |-> effective]
Failure == Reply(FALSE, FALSE, NoInfo, NoModel)

VARIABLES config,      \* resume_session_id and auth_method_id
          pc,          \* what start or set_model waits for
          id,          \* the newest request
          answer,      \* the response to it, once the reader has dispatched it
          session,     \* session_id: none, given or resumed
          modelId, modelName, names,
          previous,    \* set_model's previous_model_id
          wire,        \* the agent's lines that the reader has not read
          due,         \* the requests it has not answered
          locked,      \* the agent asked for a login and has not accepted one
          reported,    \* the models it has named so far
          fresh,       \* those in what was read since set_model was sent, if it is out
          notices      \* model updates sent

record == <<modelId, modelName, names>>
agent == <<wire, due, locked, reported, notices>>
vars == <<config, pc, id, answer, session, record, previous, agent, fresh>>

Requests == {"initialize", "getUserInfo", "authenticate", "session", "set_model"}
NoAnswer == {}

Init == /\ config \in [resume : BOOLEAN, method : {"none", "offered", "other"}]
        /\ pc = "initialize"
        /\ id = 1
        /\ answer = NoAnswer
        /\ session = "none"
        /\ modelId = NoModel /\ modelName = NoName
        /\ names = [m \in Models |-> NoName]
        /\ previous = NoModel
        /\ wire = <<>>
        /\ due = {<<1, "initialize">>}
        /\ locked = FALSE
        /\ reported = {} /\ fresh = {}
        /\ notices = 0

(***************************************************************************)
(* _update_model_info                                                      *)
(***************************************************************************)
NameOf(ns, m) == IF m = NoModel THEN NoName ELSE IF ns[m] = NoName THEN m ELSE ns[m]

Learned(ns, list) == [m \in Models |->
  IF \E e \in list : e[1] = m THEN (CHOOSE e \in list : e[1] = m)[2] ELSE ns[m]]

\* Mutant: names that arrive later do not reach the recorded model.
UpdateModelInfoOnce(info, effective) ==
  /\ names' = Learned(names, info.list)
  /\ modelId' = IF effective # NoModel THEN effective
                ELSE IF info.current # NoModel THEN info.current ELSE modelId
  /\ modelName' = IF modelId' = modelId THEN modelName ELSE NameOf(names', modelId')

\* The recorded model becomes the one the message names; set_model prefers the
\* modelId of the result itself.  The name follows the list of names.
UpdateModelInfo(info, effective) ==
  /\ names' = Learned(names, info.list)
  /\ modelId' = IF effective # NoModel THEN effective
                ELSE IF info.current # NoModel THEN info.current ELSE modelId
  /\ modelName' = NameOf(names', modelId')

(***************************************************************************)
(* The bridge                                                              *)
(***************************************************************************)
Ask(what) == /\ pc' = what
             /\ id' = id + 1
             /\ answer' = NoAnswer
             /\ due' = due \cup {<<id + 1, what>>}
             /\ previous' = IF what = "set_model" THEN modelId ELSE NoModel
             /\ fresh' = {}
             /\ UNCHANGED <<config, wire, locked, reported, notices>>

Stop(l) == /\ pc' = l
           /\ answer' = NoAnswer
           /\ previous' = NoModel
           /\ fresh' = {}
           /\ UNCHANGED <<config, id, agent>>

\* start or set_model goes on with the response to what it asked.
Got(what) == pc = what /\ answer # NoAnswer
Answer == CHOOSE b \in answer : TRUE

\* Any request may be answered with an error; an agent without getUserInfo is
\* not an error.
RequestFails ==
  /\ pc \in {"initialize", "getUserInfo", "authenticate", "session"}
  /\ answer # NoAnswer /\ ~Answer.ok
  /\ Stop("failed")
  /\ UNCHANGED <<session, record>>

\* The agent advertises its methods of logging in, or none.
Initialized ==
  /\ Got("initialize") /\ Answer.ok
  /\ UpdateModelInfo(Answer.info, NoModel)
  /\ Ask(IF Answer.given THEN "getUserInfo" ELSE "session")
  /\ UNCHANGED session

\* Mutant: an agent that cannot tell is taken to be logged in.
UserUnknownTrusted ==
  /\ Got("getUserInfo") /\ Answer.ok /\ ~Answer.given
  /\ Ask("session")
  /\ UNCHANGED <<session, record>>

\* Nobody is logged in, as far as the agent can tell: only a method that was
\* configured and is offered is tried.
UserUnknown ==
  /\ Got("getUserInfo") /\ Answer.ok /\ ~Answer.given
  /\ \/ config.method = "offered" /\ Ask("authenticate")
     \/ config.method # "offered" /\ Stop("failed")
  /\ UNCHANGED <<session, record>>

UserKnown ==
  /\ Got("getUserInfo") /\ Answer.ok /\ Answer.given
  /\ Ask("session")
  /\ UNCHANGED <<session, record>>

Authenticated ==
  /\ Got("authenticate") /\ Answer.ok
  /\ Ask("session")
  /\ UNCHANGED <<session, record>>

\* session/load may omit the session id, session/new may not.
SessionOpened ==
  /\ Got("session") /\ Answer.ok
  /\ UpdateModelInfo(Answer.info, NoModel)
  /\ \/ Answer.given /\ session' = "given" /\ Stop("open")
     \/ ~Answer.given /\ config.resume /\ session' = "resumed" /\ Stop("open")
     \/ ~Answer.given /\ ~config.resume /\ UNCHANGED session /\ Stop("failed")

\* Mutant: the model asked for is recorded before it is acknowledged.
SetModelEagerly ==
  /\ pc = "open" /\ id < MaxRequests
  /\ modelId' \in Models
  /\ Ask("set_model")
  /\ UNCHANGED <<session, modelName, names>>

\* switch_codebuddy_model; which model is asked for is known to the agent only.
SetModel ==
  /\ pc = "open" /\ id < MaxRequests
  /\ Ask("set_model")
  /\ UNCHANGED <<session, record>>

SetModelFails ==
  /\ Got("set_model") /\ ~Answer.ok
  /\ Stop("open")
  /\ UNCHANGED <<session, record>>

\* Mutant: any recorded model will do for an acknowledgement without one.
SetModelDoneKnown ==
  /\ Got("set_model") /\ Answer.ok
  /\ UpdateModelInfo(Answer.info, Answer.effective)
  /\ Stop(IF Answer.effective # NoModel \/ modelId' # NoModel THEN "switched" ELSE "open")
  /\ UNCHANGED session

\* The response names the effective model, or the recorded one has changed
\* since the request; otherwise the switch counts as failed.
SetModelDone ==
  /\ Got("set_model") /\ Answer.ok
  /\ UpdateModelInfo(Answer.info, Answer.effective)
  /\ Stop(IF Answer.effective # NoModel \/ modelId' \notin {NoModel, previous}
          THEN "switched" ELSE "open")
  /\ UNCHANGED session

SwitchReturns == /\ pc = "switched"
                 /\ Stop("open")
                 /\ UNCHANGED <<session, record>>

\* The startup timeout or a cancellation; a call of set_model has no timeout
\* and its late response is not waited for.
GivenUp == /\ pc \notin {"open", "switched", "failed"}
           /\ Stop(IF pc = "set_model" THEN "open" ELSE "failed")
           /\ UNCHANGED <<session, record>>

(***************************************************************************)
(* The reader                                                              *)
(***************************************************************************)
Line == Head(wire)
Named(b) == {b.info.current, b.effective} \ {NoModel}

\* While a switch is out, what is named in the lines that are read is noted.
Note(b) == fresh' = IF pc = "set_model" THEN fresh \cup Named(b) ELSE fresh

\* The response to the newest request, if that is still waited for.
ReadReply ==
  /\ wire # <<>> /\ Line.of = id /\ pc \in Requests
  /\ wire' = Tail(wire)
  /\ answer' = {Line.body}
  /\ Note(Line.body)
  /\ UNCHANGED <<config, pc, id, session, record, previous, due, locked, reported, notices>>

DropReply ==
  /\ wire # <<>> /\ Line.of # 0 /\ ~(Line.of = id /\ pc \in Requests)
  /\ wire' = Tail(wire)
  /\ UNCHANGED <<config, pc, id, answer, session, record, previous, due, locked, reported,
                 fresh, notices>>

ReadUpdate ==
  /\ wire # <<>> /\ Line.of = 0
  /\ wire' = Tail(wire)
  /\ UpdateModelInfo(Line.body.info, NoModel)
  /\ Note(Line.body)
  /\ UNCHANGED <<config, pc, id, answer, session, previous, due, locked, reported, notices>>

(***************************************************************************)
(* The agent                                                               *)
(***************************************************************************)
Writes(of, b) == /\ Len(wire) < MaxWire
                 /\ wire' = Append(wire, [of |-> of, body |-> b])
                 /\ reported' = reported \cup Named(b)
                 /\ UNCHANGED <<config, pc, id, answer, session, record, previous, fresh>>

\* It answers what it was asked, with as much as fits the question.  It may
\* leave out a session id, and it names a logged-in user only if there is one.
AgentReplies(r) ==
  /\ r \in due
  /\ due' = due \ {r}
  /\ UNCHANGED notices
  /\ \/ Writes(r[1], Failure) /\ UNCHANGED locked
     \/ \E info \in Infos, given \in BOOLEAN :
          /\ r[2] \in {"initialize", "session"}
          /\ Writes(r[1], Reply(TRUE, given, info, NoModel))
          /\ locked' = (locked \/ (r[2] = "initialize" /\ given))
     \/ \E given \in BOOLEAN :
          /\ r[2] \in {"getUserInfo", "authenticate"}
          /\ Writes(r[1], Reply(TRUE, given, NoInfo, NoModel))
          /\ locked' = (locked /\ ~given /\ r[2] = "getUserInfo")
     \/ \E info \in Infos, m \in Models \cup {NoModel} :
          /\ r[2] = "set_model"
          /\ Writes(r[1], Reply(TRUE, TRUE, info, m))
          /\ UNCHANGED locked

AgentUpdates(info) ==
  /\ notices < MaxUpdates
  /\ notices' = notices + 1
  /\ Writes(0, Reply(TRUE, TRUE, info, NoModel))
  /\ UNCHANGED <<due, locked>>

(***************************************************************************)
(* The specification                                                       *)
(***************************************************************************)
Next == \/ RequestFails \/ Initialized \/ UserUnknown \/ UserKnown \/ Authenticated
        \/ SessionOpened \/ SetModel \/ SetModelFails \/ SetModelDone \/ SwitchReturns
        \/ GivenUp \/ ReadReply \/ DropReply \/ ReadUpdate
        \/ \E r \in due : AgentReplies(r)
        \/ \E info \in Infos : AgentUpdates(info)

Spec == Init /\ [][Next]_vars

(***************************************************************************)
(* Properties                                                              *)
(***************************************************************************)
\* Every variable keeps its type.
TypeOK ==
  /\ config \in [resume : BOOLEAN, method : {"none", "offered", "other"}]
  /\ pc \in Requests \cup {"open", "switched", "failed"}
  /\ id \in Nat \ {0}
  /\ answer = NoAnswer \/ \E b \in Bodies : answer = {b}
  /\ session \in {"none", "given", "resumed"}
  /\ modelId \in Models \cup {NoModel} /\ previous \in Models \cup {NoModel}
  /\ modelName \in Names \cup Models \cup {NoName}
  /\ names \in [Models -> Names \cup {NoName}]
  /\ wire \in Seq([of : Nat, body : Bodies])
  /\ due \subseteq Nat \X Requests
  /\ locked \in BOOLEAN
  /\ reported \subseteq Models /\ fresh \subseteq Models
  /\ notices \in Nat

\* README.md:79-82: the recorded model is one the agent has reported, never an
\* argument of create or switch; and its name is the one the agent listed for
\* it, whichever of the two came first (acp.py:323-340, 440-442).
RecordIsReported == /\ modelId # NoModel => modelId \in reported
                    /\ modelName = NameOf(names, modelId)

\* acp.py:418-444: a switch is reported as done only if the response names the
\* model that is then recorded, or if it names none and the agent has named
\* another model than the recorded one since it was asked (not necessarily the
\* one asked for).  The second case is more than server.py:323-324 says, where
\* the model returned comes from the response: an update that was on its way
\* counts.  What the agent named before, or for a switch that was given up,
\* never does.
SwitchIsReported ==
  [][pc # "switched" /\ pc' = "switched" =>
       \/ modelId' \in Named(Answer)
       \/ Named(Answer) = {} /\ modelId' \in fresh \ {previous}]_vars

\* README.md:169-170: a switch that fails leaves the model that was recorded
\* when it was asked for, or one that the agent has named since.
FailedSwitchKeepsRecord ==
  [][pc = "set_model" /\ pc' = "open" => modelId' \in {previous} \cup fresh]_vars

\* README.md:127-130: a session is opened only with an agent that asks for no
\* login, has one, or was logged in by a method the caller named; and it has
\* a session id of the agent's or the caller's.
OpenIsLoggedIn ==
  pc \in {"open", "set_model", "switched"}
    => ~locked /\ session # "none" /\ (session = "resumed" => config.resume)
====
