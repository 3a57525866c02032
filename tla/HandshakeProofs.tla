---- MODULE HandshakeProofs ----
(***************************************************************************)
(* Proofs about Handshake for any models, names and bounds: which model    *)
(* may be recorded, when a switch counts, and that no session is opened    *)
(* with an agent that still asks for a login.                              *)
(***************************************************************************)
EXTENDS Handshake, SequenceTheorems, TLAPS

Lines == Range(wire)
Starting == {"initialize", "getUserInfo", "authenticate", "session"}
Open == {"open", "set_model", "switched"}

\* b has come, or is on its way, in answer to the newest request.
Came(b) == b \in answer \/ \E l \in Lines : l.of = id /\ l.body = b

\* What the agent has named is known as such before it is read.
Named1(b) == Named(b) \subseteq reported
NamedIsReported ==
  /\ \A l \in Lines : Named1(l.body)
  /\ \A b \in answer : Named1(b)

\* One request at a time: what is out is the newest request of the start and
\* has not been answered, or belongs to a switch.
InOrder ==
  /\ \A r \in due : r[1] <= id
  /\ \A l \in Lines : l.of <= id
  /\ pc \in Starting => \A r \in due : r = <<id, pc>> /\ \A b \in Bodies : ~Came(b)
  /\ pc \in Open => \A r \in due : r[2] = "set_model"

\* How each phase of the start knows that no login is asked for (any more).
LoginKnown ==
  /\ pc = "initialize" => /\ due # {} => ~locked
                          /\ \A b \in Bodies : Came(b) /\ b.ok /\ ~b.given => ~locked
  /\ pc = "getUserInfo" => \A b \in Bodies : Came(b) /\ b.ok /\ b.given => ~locked
  /\ pc = "authenticate" => \A b \in Bodies : Came(b) /\ b.ok => ~locked
  /\ pc = "session" => ~locked

\* While a switch is out, what is recorded was recorded before or is fresh.
FreshIsNoted ==
  pc = "set_model" => /\ modelId \in {previous} \cup fresh
                      /\ \A b \in answer : Named(b) \subseteq fresh

HandshakeInv == /\ TypeOK /\ NamedIsReported /\ RecordIsReported
                /\ InOrder /\ LoginKnown /\ FreshIsNoted /\ OpenIsLoggedIn

(***************************************************************************)
(* Sequences and messages                                                  *)
(***************************************************************************)
\* What a line leaves on the wire when it is read.
LEMMA RangeOfTail ==
  ASSUME NEW S, NEW s \in Seq(S), s # <<>>
  PROVE  /\ Tail(s) \in Seq(S) /\ Head(s) \in S
         /\ Head(s) \in Range(s)
         /\ Range(Tail(s)) \subseteq Range(s)
<1>1. /\ Tail(s) \in Seq(S) /\ Head(s) \in S
      /\ Len(s) \in Nat \ {0} /\ Len(Tail(s)) = Len(s) - 1
      /\ \A i \in 1..Len(Tail(s)) : Tail(s)[i] = s[i + 1]
      /\ Head(s) = s[1]
  OBVIOUS
<1>2. DOMAIN s = 1..Len(s) /\ DOMAIN Tail(s) = 1..Len(Tail(s))
  BY <1>1
<1>3. Head(s) \in Range(s)
  BY <1>1, <1>2 DEF Range
<1>4. ASSUME NEW e \in Range(Tail(s)) PROVE e \in Range(s)
  <2>1. PICK i \in 1..Len(Tail(s)) : e = Tail(s)[i]
    BY <1>2 DEF Range
  <2>2. i + 1 \in 1..Len(s) /\ e = s[i + 1]
    BY <2>1, <1>1
  <2> QED BY <2>2, <1>2 DEF Range
<1> QED BY <1>1, <1>3, <1>4

\* What is on the wire when a line is written.
LEMMA RangeOfAppend ==
  ASSUME NEW S, NEW s \in Seq(S), NEW l \in S
  PROVE  /\ Append(s, l) \in Seq(S)
         /\ Range(Append(s, l)) = Range(s) \cup {l}
<1>1. /\ Append(s, l) \in Seq(S) /\ Len(s) \in Nat
      /\ Len(Append(s, l)) = Len(s) + 1
      /\ \A i \in 1..Len(s) : Append(s, l)[i] = s[i]
      /\ Append(s, l)[Len(s) + 1] = l
  BY AppendProperties
<1>2. DOMAIN s = 1..Len(s) /\ DOMAIN Append(s, l) = 1..(Len(s) + 1)
  BY <1>1
<1>3. ASSUME NEW e \in Range(Append(s, l)) PROVE e \in Range(s) \cup {l}
  <2>1. PICK i \in 1..(Len(s) + 1) : e = Append(s, l)[i]
    BY <1>2 DEF Range
  <2>2. i \in 1..Len(s) \/ i = Len(s) + 1
    BY <1>1
  <2> QED BY <2>1, <2>2, <1>1, <1>2 DEF Range
<1>4. ASSUME NEW e \in Range(s) \cup {l} PROVE e \in Range(Append(s, l))
  <2>1. CASE e = l
    <3>1. Len(s) + 1 \in 1..(Len(s) + 1) /\ e = Append(s, l)[Len(s) + 1]
      BY <2>1, <1>1
    <3> QED BY <3>1, <1>2 DEF Range
  <2>2. CASE e \in Range(s)
    <3>1. PICK i \in 1..Len(s) : e = s[i]
      BY <2>2, <1>2 DEF Range
    <3>2. i \in 1..(Len(s) + 1) /\ e = Append(s, l)[i]
      BY <3>1, <1>1
    <3> QED BY <3>2, <1>2 DEF Range
  <2> QED BY <2>1, <2>2
<1> QED BY <1>1, <1>3, <1>4

\* What a message names are models.
LEMMA NamedAreModels ==
  ASSUME NEW b \in Bodies
  PROVE  /\ Named(b) \subseteq Models
         /\ b.info \in Infos /\ b.effective \in Models \cup {NoModel}
         /\ b.ok \in BOOLEAN /\ b.given \in BOOLEAN
<1>1. b.info \in Infos /\ b.effective \in Models \cup {NoModel}
  BY DEF Bodies
<1>2. b.info.current \in Models \cup {NoModel}
  BY <1>1 DEF Infos
<1> QED BY <1>1, <1>2 DEF Named, Bodies

\* The answer that start or set_model goes on with.
LEMMA AnswerIsOne ==
  ASSUME TypeOK, answer # NoAnswer
  PROVE  answer = {Answer} /\ Answer \in Bodies
<1>1. PICK b \in Bodies : answer = {b}
  BY DEF TypeOK
<1>2. Answer \in answer
  BY <1>1 DEF Answer
<1> QED BY <1>1, <1>2

\* The wire has one line less.
LEMMA ReadingTakesALine ==
  ASSUME TypeOK, wire # <<>>, wire' = Tail(wire)
  PROVE  /\ wire' \in Seq([of : Nat, body : Bodies])
         /\ Line \in Lines /\ Line.of \in Nat /\ Line.body \in Bodies
         /\ Lines' \subseteq Lines
<1>1. wire \in Seq([of : Nat, body : Bodies])
  BY DEF TypeOK
<1>2. /\ Tail(wire) \in Seq([of : Nat, body : Bodies])
      /\ Head(wire) \in [of : Nat, body : Bodies]
      /\ Head(wire) \in Range(wire)
      /\ Range(Tail(wire)) \subseteq Range(wire)
  BY <1>1, RangeOfTail
<1> QED BY <1>2 DEF Lines, Line

\* Every line has its type.
LEMMA LineTypes ==
  ASSUME TypeOK
  PROVE  \A l \in Lines : l.of \in Nat /\ l.body \in Bodies
<1>1. wire \in Seq([of : Nat, body : Bodies])
  BY DEF TypeOK
<1>2. Range(wire) \subseteq [of : Nat, body : Bodies]
  BY <1>1, RangeOfSeq
<1> QED BY <1>2 DEF Lines

(***************************************************************************)
(* _update_model_info                                                      *)
(***************************************************************************)
RecordTypes == /\ modelId \in Models \cup {NoModel}
               /\ modelName \in Names \cup Models \cup {NoName}
               /\ names \in [Models -> Names \cup {NoName}]

\* The name of the recorded model is the one that is listed for it.
NameFollows == modelName = NameOf(names, modelId)

\* An update records only what it names, under the name that is listed.
LEMMA UpdateRecordsNamed ==
  ASSUME RecordTypes, NEW info \in Infos, NEW effective \in Models \cup {NoModel},
         UpdateModelInfo(info, effective)
  PROVE  /\ RecordTypes' /\ NameFollows'
         /\ modelId' \in {modelId} \cup ({info.current, effective} \ {NoModel})
<1>1. info.current \in Models \cup {NoModel}
  BY DEF Infos
<1>2. \A e \in info.list : e \in Models \X Names
  BY DEF Infos
<1>3. names' \in [Models -> Names \cup {NoName}]
  <2>1. ASSUME NEW m \in Models, \E e \in info.list : e[1] = m
        PROVE  (CHOOSE e \in info.list : e[1] = m)[2] \in Names
    <3>1. (CHOOSE e \in info.list : e[1] = m) \in info.list
      BY <2>1
    <3> QED BY <3>1, <1>2
  <2> QED BY <2>1 DEF RecordTypes, UpdateModelInfo, Learned
<1>4. /\ modelId' \in Models \cup {NoModel}
      /\ modelId' \in {modelId} \cup ({info.current, effective} \ {NoModel})
  BY <1>1 DEF RecordTypes, UpdateModelInfo
<1>5. modelName' = NameOf(names', modelId')
  BY DEF UpdateModelInfo
<1>6. modelName' \in Names \cup Models \cup {NoName}
  BY <1>3, <1>4, <1>5 DEF NameOf
<1> QED BY <1>3, <1>4, <1>5, <1>6 DEF RecordTypes, NameFollows

(***************************************************************************)
(* The steps of start and set_model                                        *)
(***************************************************************************)
\* Once the newest request of the start is answered, nothing else is out.
LEMMA AnsweredMeansNothingDue ==
  ASSUME HandshakeInv, pc \in Starting, answer # NoAnswer
  PROVE  due = {}
<1>1. Came(Answer) /\ Answer \in Bodies
  BY AnswerIsOne DEF HandshakeInv, Came
<1> QED BY <1>1 DEF HandshakeInv, InOrder

\* The record is the one before or the one an answer brought.
RecordMoves == /\ RecordTypes' /\ NameFollows'
               /\ modelId' # NoModel => modelId' \in reported

\* A step that leaves the record alone keeps it in order.
LEMMA SameRecord ==
  ASSUME HandshakeInv, UNCHANGED record
  PROVE  RecordMoves
BY DEF HandshakeInv, TypeOK, RecordIsReported, RecordMoves, RecordTypes, NameFollows, record

\* So does one that takes it from an answer.
LEMMA RecordFromAnswer ==
  ASSUME HandshakeInv, answer # NoAnswer,
         NEW effective \in {NoModel, Answer.effective},
         UpdateModelInfo(Answer.info, effective)
  PROVE  /\ RecordMoves
         /\ modelId' \in {modelId} \cup Named(Answer)
<1>1. answer = {Answer} /\ Answer \in Bodies
  BY AnswerIsOne DEF HandshakeInv
<1>2. Answer.info \in Infos /\ effective \in Models \cup {NoModel}
  BY <1>1, NamedAreModels
<1>3. RecordTypes
  BY DEF HandshakeInv, TypeOK, RecordTypes
<1>4. /\ RecordTypes' /\ NameFollows'
      /\ modelId' \in {modelId} \cup ({Answer.info.current, effective} \ {NoModel})
  BY <1>2, <1>3, UpdateRecordsNamed
<1>5. modelId' \in {modelId} \cup Named(Answer)
  BY <1>4 DEF Named
<1>6. Named(Answer) \subseteq reported
  BY <1>1 DEF HandshakeInv, NamedIsReported, Named1
<1>7. modelId # NoModel => modelId \in reported
  BY DEF HandshakeInv, RecordIsReported
<1> QED BY <1>4, <1>5, <1>6, <1>7 DEF RecordMoves

\* The next request of the start, or of a switch.
LEMMA AskKeepsInv ==
  ASSUME HandshakeInv, RecordMoves, UNCHANGED session,
         NEW what \in Requests, Ask(what),
         \/ what \in Starting \ {"initialize"} /\ due = {} /\ (what = "session" => ~locked)
         \/ what = "set_model" /\ pc = "open" /\ UNCHANGED modelId
  PROVE  HandshakeInv'
<1>1. TypeOK /\ RecordTypes'
  BY DEF HandshakeInv, RecordMoves
<1>2. TypeOK'
  BY <1>1 DEF TypeOK, Ask, RecordTypes, NoAnswer
<1>3. Lines' = Lines
  BY DEF Ask, Lines
<1>4. NamedIsReported'
  BY <1>3 DEF HandshakeInv, NamedIsReported, Ask, Named1, NoAnswer
<1>5. RecordIsReported'
  BY DEF RecordMoves, RecordIsReported, NameFollows, Ask
<1>6. \A b : ~Came(b)'
  <2>1. \A l \in Lines : l.of # id + 1
    BY <1>1, LineTypes DEF HandshakeInv, InOrder, TypeOK
  <2> QED BY <2>1, <1>3 DEF Came, Ask, NoAnswer
<1>7. \A r \in due : r[1] <= id + 1
  BY <1>1 DEF HandshakeInv, InOrder, TypeOK
<1>8. \A l \in Lines : l.of <= id + 1
  BY <1>1, LineTypes DEF HandshakeInv, InOrder, TypeOK
<1>9. id \in Nat /\ <<id + 1, what>>[1] = id + 1 /\ <<id + 1, what>>[2] = what
  BY <1>1 DEF TypeOK
<1>10. InOrder'
  <2>1. (\A r \in due : r[1] <= id)' /\ (\A l \in Lines : l.of <= id)'
    BY <1>3, <1>7, <1>8, <1>9 DEF Ask
  <2>2. (pc \in Starting => \A r \in due : r = <<id, pc>> /\ \A b \in Bodies : ~Came(b))'
    BY <1>6 DEF Ask, Starting
  <2>3. (pc \in Open => \A r \in due : r[2] = "set_model")'
    BY <1>9 DEF HandshakeInv, InOrder, Ask, Starting, Open
  <2> QED BY <2>1, <2>2, <2>3 DEF InOrder
<1>11. LoginKnown'
  BY <1>6 DEF LoginKnown, Ask, Starting
<1>12. FreshIsNoted'
  BY DEF FreshIsNoted, Ask, Starting, NoAnswer
<1>13. OpenIsLoggedIn'
  BY DEF HandshakeInv, OpenIsLoggedIn, Ask, Starting
<1> QED BY <1>2, <1>4, <1>5, <1>10, <1>11, <1>12, <1>13 DEF HandshakeInv

\* The start or a switch is over, for better or worse.
LEMMA StopKeepsInv ==
  ASSUME HandshakeInv, RecordMoves,
         session' \in {"none", "given", "resumed"},
         NEW l \in {"open", "switched", "failed"}, Stop(l),
         l # "failed" => /\ \A r \in due : r[2] = "set_model"
                         /\ ~locked /\ session' # "none"
                         /\ session' = "resumed" => config.resume
  PROVE  HandshakeInv'
<1>1. TypeOK /\ RecordTypes'
  BY DEF HandshakeInv, RecordMoves
<1>2. TypeOK'
  BY <1>1 DEF TypeOK, Stop, RecordTypes, NoAnswer, agent
<1>3. Lines' = Lines
  BY DEF Stop, Lines, agent
<1>4. NamedIsReported'
  BY <1>3 DEF HandshakeInv, NamedIsReported, Stop, Named1, NoAnswer, agent
<1>5. RecordIsReported'
  BY DEF RecordMoves, RecordIsReported, NameFollows, Stop, agent
<1>6. InOrder'
  BY <1>3 DEF HandshakeInv, InOrder, Stop, agent, Starting, Open
<1>7. LoginKnown' /\ FreshIsNoted'
  BY DEF LoginKnown, FreshIsNoted, Stop
<1>8. OpenIsLoggedIn'
  BY DEF OpenIsLoggedIn, Stop, agent
<1> QED BY <1>2, <1>4, <1>5, <1>6, <1>7, <1>8 DEF HandshakeInv

\* start goes on with an answer, fails, or opens the session.
LEMMA StartKeepsInv ==
  ASSUME HandshakeInv,
         RequestFails \/ Initialized \/ UserUnknown \/ UserKnown \/ Authenticated \/ SessionOpened
  PROVE  HandshakeInv'
<1>1. pc \in Starting /\ answer # NoAnswer
  BY DEF RequestFails, Initialized, UserUnknown, UserKnown, Authenticated, SessionOpened, Got,
         Starting
<1>2. due = {}
  BY <1>1, AnsweredMeansNothingDue
<1>3. Came(Answer) /\ Answer \in Bodies
  BY <1>1, AnswerIsOne DEF HandshakeInv, Came
<1>4. Answer.ok \in BOOLEAN /\ Answer.given \in BOOLEAN
  BY <1>3, NamedAreModels
<1>5. session \in {"none", "given", "resumed"}
  BY DEF HandshakeInv, TypeOK
<1>6. CASE RequestFails
  BY <1>5, <1>6, SameRecord, StopKeepsInv DEF RequestFails
<1>7. CASE Initialized
  <2>1. RecordMoves
    BY <1>1, <1>7, RecordFromAnswer DEF Initialized
  <2>2. ~Answer.given => ~locked
    BY <1>3, <1>7 DEF HandshakeInv, LoginKnown, Initialized, Got
  <2>3. \/ Ask("getUserInfo")
        \/ ~Answer.given /\ Ask("session")
    BY <1>4, <1>7 DEF Initialized
  <2> QED BY <1>2, <1>7, <2>1, <2>2, <2>3, AskKeepsInv DEF Initialized, Starting, Requests
<1>8. CASE UserUnknown
  <2>1. RecordMoves
    BY <1>8, SameRecord DEF UserUnknown
  <2>2. CASE Ask("authenticate")
    BY <1>2, <1>8, <2>1, <2>2, AskKeepsInv DEF UserUnknown, Starting, Requests
  <2>3. CASE Stop("failed")
    BY <1>5, <1>8, <2>1, <2>3, StopKeepsInv DEF UserUnknown
  <2> QED BY <1>8, <2>2, <2>3 DEF UserUnknown
<1>9. CASE UserKnown
  <2>1. ~locked
    BY <1>3, <1>9 DEF HandshakeInv, LoginKnown, UserKnown, Got
  <2> QED BY <1>2, <1>9, <2>1, SameRecord, AskKeepsInv DEF UserKnown, Starting, Requests
<1>10. CASE Authenticated
  <2>1. ~locked
    BY <1>3, <1>10 DEF HandshakeInv, LoginKnown, Authenticated, Got
  <2> QED BY <1>2, <1>10, <2>1, SameRecord, AskKeepsInv DEF Authenticated, Starting, Requests
<1>11. CASE SessionOpened
  <2>1. RecordMoves
    BY <1>1, <1>11, RecordFromAnswer DEF SessionOpened
  <2>2. ~locked
    BY <1>11 DEF HandshakeInv, LoginKnown, SessionOpened, Got
  <2>3. CASE Stop("open")
    <3>1. session' \in {"given", "resumed"} /\ (session' = "resumed" => config.resume)
      BY <1>11, <2>3 DEF SessionOpened, Stop
    <3> QED BY <1>2, <2>1, <2>2, <2>3, <3>1, StopKeepsInv
  <2>4. CASE Stop("failed")
    BY <1>5, <1>11, <2>1, <2>4, StopKeepsInv DEF SessionOpened, Stop
  <2> QED BY <1>11, <2>3, <2>4 DEF SessionOpened
<1> QED BY <1>6, <1>7, <1>8, <1>9, <1>10, <1>11

\* What the properties say of the steps that end a switch.
Confirmed == pc # "switched" /\ pc' = "switched" =>
  \/ modelId' \in Named(Answer)
  \/ Named(Answer) = {} /\ modelId' \in fresh \ {previous}
Kept == pc = "set_model" /\ pc' = "open" => modelId' \in {previous} \cup fresh

\* A switch is asked for, and ends.
LEMMA SwitchKeepsInv ==
  ASSUME HandshakeInv,
         SetModel \/ SetModelFails \/ SetModelDone \/ SwitchReturns \/ GivenUp
  PROVE  HandshakeInv' /\ Confirmed /\ Kept
<1>1. session \in {"none", "given", "resumed"}
  BY DEF HandshakeInv, TypeOK
<1>2. pc \in Open => /\ \A r \in due : r[2] = "set_model"
                     /\ ~locked /\ session # "none" /\ (session = "resumed" => config.resume)
  BY DEF HandshakeInv, InOrder, OpenIsLoggedIn, Open
<1>3. CASE SetModel
  <2>1. HandshakeInv'
    BY <1>3, SameRecord, AskKeepsInv DEF SetModel, Requests, record
  <2>2. pc = "open" /\ pc' = "set_model"
    BY <1>3 DEF SetModel, Ask
  <2> QED BY <2>1, <2>2 DEF Confirmed, Kept
<1>4. CASE SetModelFails
  <2>1. pc = "set_model" /\ Stop("open") /\ UNCHANGED session /\ UNCHANGED record
    BY <1>4 DEF SetModelFails, Got
  <2>2. HandshakeInv'
    BY <1>1, <1>2, <2>1, SameRecord, StopKeepsInv DEF Open
  <2>3. pc' = "open" /\ modelId' = modelId
    BY <2>1 DEF Stop, record
  <2> QED BY <2>1, <2>2, <2>3 DEF Confirmed, Kept, HandshakeInv, FreshIsNoted
<1>5. CASE SetModelDone
  <2>1. pc = "set_model" /\ answer # NoAnswer /\ UNCHANGED session
    BY <1>5 DEF SetModelDone, Got
  <2>2. RecordMoves /\ modelId' \in {modelId} \cup Named(Answer)
    BY <1>5, <2>1, RecordFromAnswer DEF SetModelDone
  <2>3. PICK l \in {"switched", "open"} :
          /\ Stop(l)
          /\ l = "switched" => Answer.effective # NoModel \/ modelId' \notin {NoModel, previous}
    BY <1>5 DEF SetModelDone
  <2>4. HandshakeInv'
    BY <1>1, <1>2, <2>1, <2>2, <2>3, StopKeepsInv DEF Open
  <2>5. answer = {Answer} /\ Answer \in Bodies
    BY <2>1, AnswerIsOne DEF HandshakeInv
  <2>6. Named(Answer) \subseteq fresh /\ modelId \in {previous} \cup fresh
    BY <2>1, <2>5 DEF HandshakeInv, FreshIsNoted
  <2>7. Named(Answer) # {} => modelId' \in Named(Answer)
    <3>1. /\ Answer.effective # NoModel => modelId' = Answer.effective
          /\ Answer.effective = NoModel /\ Answer.info.current # NoModel
               => modelId' = Answer.info.current
      BY <1>5 DEF SetModelDone, UpdateModelInfo
    <3> QED BY <3>1 DEF Named
  <2>8. pc' = l
    BY <2>3 DEF Stop
  <2>9. Named(Answer) = {} => Answer.effective = NoModel
    BY DEF Named
  <2> QED BY <2>1, <2>2, <2>3, <2>4, <2>6, <2>7, <2>8, <2>9 DEF Confirmed, Kept
<1>6. CASE SwitchReturns
  <2>1. pc = "switched" /\ Stop("open") /\ UNCHANGED session /\ UNCHANGED record
    BY <1>6 DEF SwitchReturns
  <2>2. HandshakeInv'
    BY <1>1, <1>2, <2>1, SameRecord, StopKeepsInv DEF Open
  <2> QED BY <2>1, <2>2 DEF Confirmed, Kept, Stop
<1>7. CASE GivenUp
  <2>1. RecordMoves /\ UNCHANGED session
    BY <1>7, SameRecord DEF GivenUp
  <2>2. CASE pc = "set_model"
    <3>1. Stop("open")
      BY <1>7, <2>2 DEF GivenUp
    <3>2. HandshakeInv'
      BY <1>1, <1>2, <2>1, <2>2, <3>1, StopKeepsInv DEF Open
    <3>3. pc' = "open" /\ modelId' = modelId
      BY <1>7, <3>1 DEF Stop, GivenUp, record
    <3> QED BY <2>2, <3>2, <3>3 DEF Confirmed, Kept, HandshakeInv, FreshIsNoted
  <2>3. CASE pc # "set_model"
    <3>1. Stop("failed")
      BY <1>7, <2>3 DEF GivenUp
    <3>2. HandshakeInv'
      BY <1>1, <2>1, <3>1, StopKeepsInv
    <3> QED BY <3>1, <3>2 DEF Confirmed, Kept, Stop
  <2> QED BY <2>2, <2>3
<1> QED BY <1>3, <1>4, <1>5, <1>6, <1>7

(***************************************************************************)
(* The reader                                                              *)
(***************************************************************************)
\* Lines that are read or dropped.
LEMMA ReaderKeepsInv ==
  ASSUME HandshakeInv, ReadReply \/ DropReply \/ ReadUpdate
  PROVE  HandshakeInv'
<1>1. TypeOK /\ wire # <<>> /\ wire' = Tail(wire)
  BY DEF HandshakeInv, ReadReply, DropReply, ReadUpdate
<1>2. /\ wire' \in Seq([of : Nat, body : Bodies])
      /\ Line \in Lines /\ Line.of \in Nat /\ Line.body \in Bodies
      /\ Lines' \subseteq Lines
  BY <1>1, ReadingTakesALine
<1>3. UNCHANGED <<config, pc, id, session, previous, due, locked, reported, notices>>
  BY DEF ReadReply, DropReply, ReadUpdate
<1>4. answer' = answer \/ (ReadReply /\ answer' = {Line.body})
  BY DEF ReadReply, DropReply, ReadUpdate
<1>5. Named(Line.body) \subseteq Models /\ Named1(Line.body)
  BY <1>2, NamedAreModels DEF HandshakeInv, NamedIsReported
<1>6. /\ RecordMoves
      /\ modelId' \in {modelId} \cup Named(Line.body)
      /\ modelId' = modelId \/ Note(Line.body)
  <2>1. CASE UNCHANGED record
    BY <2>1, SameRecord DEF record
  <2>2. CASE ReadUpdate
    <3>1. RecordTypes
      BY <1>1 DEF TypeOK, RecordTypes
    <3>2. Line.body.info \in Infos
      BY <1>2, NamedAreModels
    <3>3. /\ RecordTypes' /\ NameFollows'
          /\ modelId' \in {modelId} \cup ({Line.body.info.current, NoModel} \ {NoModel})
      BY <2>2, <3>1, <3>2, UpdateRecordsNamed DEF ReadUpdate
    <3>4. modelId' \in {modelId} \cup Named(Line.body)
      BY <3>3 DEF Named
    <3>5. modelId # NoModel => modelId \in reported
      BY DEF HandshakeInv, RecordIsReported
    <3> QED BY <1>5, <2>2, <3>3, <3>4, <3>5 DEF RecordMoves, ReadUpdate, Named1
  <2> QED BY <2>1, <2>2 DEF ReadReply, DropReply, ReadUpdate
<1>7. fresh' = fresh \/ fresh' = fresh \cup Named(Line.body)
  BY DEF ReadReply, DropReply, ReadUpdate, Note
<1>8. TypeOK'
  BY <1>1, <1>2, <1>3, <1>4, <1>5, <1>6, <1>7 DEF TypeOK, RecordMoves, RecordTypes, NoAnswer
<1>9. NamedIsReported'
  BY <1>2, <1>3, <1>4, <1>5 DEF HandshakeInv, NamedIsReported, Named1
<1>10. RecordIsReported'
  BY <1>3, <1>6 DEF RecordMoves, RecordIsReported, NameFollows
<1>11. ASSUME NEW b, Came(b)' PROVE Came(b)
  BY <1>2, <1>3, <1>4, <1>11 DEF Came, ReadReply
<1>12. InOrder'
  BY <1>2, <1>3, <1>11 DEF HandshakeInv, InOrder
<1>13. LoginKnown'
  BY <1>3, <1>11 DEF HandshakeInv, LoginKnown
<1>14. FreshIsNoted'
  <2>1. ASSUME pc = "set_model" PROVE fresh \subseteq fresh'
    BY <1>7
  <2>2. ASSUME pc = "set_model", answer' # answer PROVE Named(Line.body) \subseteq fresh'
    BY <1>4, <2>2 DEF ReadReply, Note
  <2>3. ASSUME pc = "set_model", modelId' # modelId PROVE Named(Line.body) \subseteq fresh'
    BY <1>6, <2>3 DEF Note
  <2> QED BY <1>3, <1>4, <1>6, <2>1, <2>2, <2>3 DEF HandshakeInv, FreshIsNoted
<1>15. OpenIsLoggedIn'
  BY <1>3 DEF HandshakeInv, OpenIsLoggedIn
<1> QED BY <1>8, <1>9, <1>10, <1>12, <1>13, <1>14, <1>15 DEF HandshakeInv

(***************************************************************************)
(* The agent                                                               *)
(***************************************************************************)
\* It writes a line: an answer to a request that was out, or an update.
LEMMA WriteKeepsInv ==
  ASSUME HandshakeInv, NEW of \in Nat, NEW b \in Bodies, Writes(of, b),
         due' \subseteq due, locked' \in BOOLEAN, notices' \in Nat,
         of <= id,
         \/ of = 0 /\ UNCHANGED locked /\ UNCHANGED due
         \/ \E r \in due : /\ r[1] = of /\ due' = due \ {r}
                           /\ pc \in Open => UNCHANGED locked
                           /\ r = <<id, "initialize">> /\ b.ok /\ ~b.given /\ ~locked => ~locked'
                           /\ r = <<id, "getUserInfo">> /\ b.ok /\ b.given => ~locked'
                           /\ r = <<id, "authenticate">> /\ b.ok => ~locked'
                           /\ r = <<id, "session">> /\ ~locked => ~locked',
         id \in Nat \ {0}
  PROVE  HandshakeInv'
<1>1. TypeOK
  BY DEF HandshakeInv
<1>2. wire' = Append(wire, [of |-> of, body |-> b])
  BY DEF Writes
<1>3. /\ wire' \in Seq([of : Nat, body : Bodies])
      /\ Lines' = Lines \cup {[of |-> of, body |-> b]}
  <2> DEFINE S == [of : Nat, body : Bodies]
             l == [of |-> of, body |-> b]
  <2>1. wire \in Seq(S)
    BY <1>1 DEF TypeOK
  <2>2. l \in S
    OBVIOUS
  <2> HIDE DEF S, l
  <2>3. Append(wire, l) \in Seq(S) /\ Range(Append(wire, l)) = Range(wire) \cup {l}
    BY <2>1, <2>2, RangeOfAppend
  <2> USE DEF S, l
  <2> QED BY <1>2, <2>3 DEF Lines
<1>4. UNCHANGED <<config, pc, id, answer, session, modelId, modelName, names, previous, fresh>>
  BY DEF Writes, record
<1>5. reported' = reported \cup Named(b) /\ Named(b) \subseteq Models
  BY NamedAreModels DEF Writes
<1>6. TypeOK'
  BY <1>1, <1>3, <1>4, <1>5 DEF TypeOK
<1>7. NamedIsReported'
  BY <1>3, <1>4, <1>5 DEF HandshakeInv, NamedIsReported, Named1
<1>8. RecordIsReported'
  BY <1>4, <1>5 DEF HandshakeInv, RecordIsReported
<1>9. ASSUME NEW c, Came(c)' PROVE Came(c) \/ (of = id /\ c = b)
  BY <1>3, <1>4, <1>9 DEF Came
<1>10. (\A r \in due : r[1] <= id)' /\ (\A l \in Lines : l.of <= id)'
  BY <1>3, <1>4 DEF HandshakeInv, InOrder
<1>11. (pc \in Open => \A r \in due : r[2] = "set_model")'
  BY <1>4 DEF HandshakeInv, InOrder
<1>12. ASSUME pc \in Starting, of # 0
       PROVE  /\ due' = {} /\ of = id /\ \A c \in Bodies : ~Came(c)
              /\ pc = "initialize" => (b.ok /\ ~b.given /\ ~locked => ~locked')
              /\ pc = "getUserInfo" => (b.ok /\ b.given => ~locked')
              /\ pc = "authenticate" => (b.ok => ~locked')
              /\ pc = "session" => (~locked => ~locked')
  BY <1>12 DEF HandshakeInv, InOrder
<1>13. ASSUME pc \in Starting, of = 0
       PROVE  due' = due /\ locked' = locked /\ \A c \in Bodies : Came(c)' => Came(c)
  BY <1>9, <1>13 DEF HandshakeInv, InOrder
<1>14. InOrder'
  BY <1>4, <1>10, <1>11, <1>12, <1>13 DEF HandshakeInv, InOrder
<1>15. LoginKnown'
  <2>1. CASE pc \in Starting /\ of # 0
    <3>1. \A c \in Bodies : Came(c)' => c = b
      BY <1>9, <1>12, <2>1
    <3>2. pc = "initialize" => ~locked
      BY <2>1, <1>12 DEF HandshakeInv, LoginKnown, InOrder
    <3> QED BY <1>4, <1>12, <2>1, <3>1, <3>2 DEF HandshakeInv, LoginKnown
  <2>2. CASE pc \in Starting /\ of = 0
    BY <1>4, <1>13, <2>2 DEF HandshakeInv, LoginKnown
  <2>3. CASE pc \notin Starting
    BY <1>4, <2>3 DEF LoginKnown, Starting
  <2> QED BY <2>1, <2>2, <2>3
<1>16. FreshIsNoted'
  BY <1>4 DEF HandshakeInv, FreshIsNoted
<1>17. OpenIsLoggedIn'
  BY <1>4 DEF HandshakeInv, OpenIsLoggedIn, Open
<1> QED BY <1>6, <1>7, <1>8, <1>14, <1>15, <1>16, <1>17 DEF HandshakeInv

\* It answers a request of any kind, with what it may say to it.
LEMMA AgentKeepsInv ==
  ASSUME HandshakeInv,
         (\E r \in due : AgentReplies(r)) \/ (\E info \in Infos : AgentUpdates(info))
  PROVE  HandshakeInv'
<1>1. /\ id \in Nat \ {0} /\ locked \in BOOLEAN /\ notices \in Nat
      /\ due \subseteq Nat \X Requests
      /\ NoInfo \in Infos
  BY DEF HandshakeInv, TypeOK, NoInfo, Infos
<1>2. ASSUME NEW ok \in BOOLEAN, NEW given \in BOOLEAN, NEW info \in Infos,
             NEW effective \in Models \cup {NoModel}
      PROVE  /\ Reply(ok, given, info, effective) \in Bodies
             /\ Reply(ok, given, info, effective).ok = ok
             /\ Reply(ok, given, info, effective).given = given
  BY DEF Reply, Bodies
<1>3. Failure \in Bodies /\ ~Failure.ok
  BY <1>1, <1>2 DEF Failure
<1>4. ASSUME NEW info \in Infos, AgentUpdates(info)
      PROVE  HandshakeInv'
  <2> DEFINE b == Reply(TRUE, TRUE, info, NoModel)
  <2>1. b \in Bodies
    BY <1>2
  <2>2. Writes(0, b) /\ UNCHANGED due /\ UNCHANGED locked
    BY <1>4 DEF AgentUpdates
  <2>3. notices' \in Nat
    BY <1>1, <1>4 DEF AgentUpdates
  <2>4. 0 \in Nat /\ 0 <= id /\ due' \subseteq due /\ locked' \in BOOLEAN
    BY <1>1, <2>2
  <2> HIDE DEF b
  <2> QED BY <1>1, <2>1, <2>2, <2>3, <2>4, WriteKeepsInv
<1>5. ASSUME NEW r \in due, AgentReplies(r)
      PROVE  HandshakeInv'
  <2>1. /\ r[1] \in Nat /\ r[1] <= id
        /\ pc \in Open => r[2] = "set_model"
        /\ due' = due \ {r} /\ notices' = notices
    BY <1>1, <1>5 DEF HandshakeInv, InOrder, AgentReplies
  <2> DEFINE Said(b) ==
        /\ pc \in Open => UNCHANGED locked
        /\ r = <<id, "initialize">> /\ b.ok /\ ~b.given /\ ~locked => ~locked'
        /\ r = <<id, "getUserInfo">> /\ b.ok /\ b.given => ~locked'
        /\ r = <<id, "authenticate">> /\ b.ok => ~locked'
        /\ r = <<id, "session">> /\ ~locked => ~locked'
  <2>2. ASSUME NEW b \in Bodies, Writes(r[1], b), Said(b), locked' \in BOOLEAN
        PROVE  HandshakeInv'
    BY <1>1, <2>1, <2>2, WriteKeepsInv
  <2>3. CASE Writes(r[1], Failure) /\ UNCHANGED locked
    BY <1>1, <1>3, <2>2, <2>3
  <2>4. ASSUME NEW info \in Infos, NEW given \in BOOLEAN,
               r[2] \in {"initialize", "session"},
               Writes(r[1], Reply(TRUE, given, info, NoModel)),
               locked' = (locked \/ (r[2] = "initialize" /\ given))
        PROVE  HandshakeInv'
    <3> DEFINE b == Reply(TRUE, given, info, NoModel)
    <3>1. b \in Bodies /\ b.given = given
      BY <1>2
    <3>2. r = <<id, "session">> => locked' = locked
      BY <1>1, <2>4
    <3>3. pc \notin Open /\ locked' \in BOOLEAN
      BY <2>1, <2>4
    <3>4. ~given /\ ~locked => ~locked'
      BY <2>4
    <3>5. r # <<id, "getUserInfo">> /\ r # <<id, "authenticate">>
      BY <2>4
    <3> HIDE DEF b
    <3>6. Said(b)
      BY <3>1, <3>2, <3>3, <3>4, <3>5
    <3> QED BY <2>2, <2>4, <3>1, <3>3, <3>6 DEF b
  <2>5. ASSUME NEW given \in BOOLEAN,
               r[2] \in {"getUserInfo", "authenticate"},
               Writes(r[1], Reply(TRUE, given, NoInfo, NoModel)),
               locked' = (locked /\ ~given /\ r[2] = "getUserInfo")
        PROVE  HandshakeInv'
    <3> DEFINE b == Reply(TRUE, given, NoInfo, NoModel)
    <3>1. b \in Bodies /\ b.given = given
      BY <1>1, <1>2
    <3>2. r = <<id, "authenticate">> => ~locked'
      <4>1. r = <<id, "authenticate">> => r[2] # "getUserInfo"
        OBVIOUS
      <4> QED BY <2>5, <4>1
    <3>3. pc \notin Open /\ locked' \in BOOLEAN
      BY <2>1, <2>5
    <3>4. given => ~locked'
      BY <2>5
    <3>5. r # <<id, "initialize">> /\ r # <<id, "session">>
      BY <2>5
    <3> HIDE DEF b
    <3>6. Said(b)
      BY <3>1, <3>2, <3>3, <3>4, <3>5
    <3> QED BY <2>2, <2>5, <3>1, <3>3, <3>6 DEF b
  <2>6. ASSUME NEW info \in Infos, NEW m \in Models \cup {NoModel},
               r[2] = "set_model",
               Writes(r[1], Reply(TRUE, TRUE, info, m)),
               UNCHANGED locked
        PROVE  HandshakeInv'
    <3> DEFINE b == Reply(TRUE, TRUE, info, m)
    <3>1. b \in Bodies
      BY <1>2
    <3>2. /\ r # <<id, "initialize">> /\ r # <<id, "getUserInfo">>
          /\ r # <<id, "authenticate">> /\ r # <<id, "session">>
      BY <2>6
    <3> HIDE DEF b
    <3>3. Said(b) /\ locked' \in BOOLEAN
      BY <1>1, <2>6, <3>2
    <3> QED BY <2>2, <2>6, <3>1, <3>3 DEF b
  <2> QED BY <1>5, <2>3, <2>4, <2>5, <2>6 DEF AgentReplies
<1> QED BY <1>4, <1>5

(***************************************************************************)
(* The theorems                                                            *)
(***************************************************************************)
\* Nothing has been said or recorded when the process is launched.
LEMMA HandshakeInitially == Init => HandshakeInv
<1> SUFFICES ASSUME Init PROVE HandshakeInv
  OBVIOUS
<1>1. Lines = {} /\ answer = {}
  BY DEF Init, Lines, Range, NoAnswer
<1>2. TypeOK
  <2>1. <<1, "initialize">> \in Nat \X Requests
    BY DEF Requests
  <2>2. wire \in Seq([of : Nat, body : Bodies])
    BY DEF Init
  <2>3. names \in [Models -> Names \cup {NoName}]
    BY DEF Init
  <2>4. /\ config \in [resume : BOOLEAN, method : {"none", "offered", "other"}]
        /\ pc \in Requests \cup {"open", "switched", "failed"}
        /\ session \in {"none", "given", "resumed"}
    BY DEF Init, Requests
  <2>5. id \in Nat \ {0} /\ notices \in Nat
    BY DEF Init
  <2>6. locked \in BOOLEAN
    BY DEF Init
  <2>7. /\ modelId \in Models \cup {NoModel} /\ previous \in Models \cup {NoModel}
        /\ modelName \in Names \cup Models \cup {NoName}
        /\ reported \subseteq Models /\ fresh \subseteq Models
        /\ answer = NoAnswer
    BY DEF Init
  <2>8. due \subseteq Nat \X Requests
    BY <2>1 DEF Init
  <2> QED BY <2>2, <2>3, <2>4, <2>5, <2>6, <2>7, <2>8 DEF TypeOK
<1>3. NamedIsReported /\ RecordIsReported
  BY <1>1 DEF Init, NamedIsReported, RecordIsReported, NameOf
<1>4. InOrder
  BY <1>1 DEF Init, InOrder, Came, Open
<1>5. LoginKnown /\ FreshIsNoted /\ OpenIsLoggedIn
  BY <1>1 DEF Init, LoginKnown, FreshIsNoted, OpenIsLoggedIn
<1> QED BY <1>2, <1>3, <1>4, <1>5 DEF HandshakeInv

\* Every step keeps the invariant, and ends a switch only as it may.
LEMMA HandshakeStep ==
  ASSUME HandshakeInv, [Next]_vars
  PROVE  HandshakeInv' /\ Confirmed /\ Kept
<1>1. CASE RequestFails \/ Initialized \/ UserUnknown \/ UserKnown \/ Authenticated \/ SessionOpened
  <2>1. HandshakeInv'
    BY <1>1, StartKeepsInv
  <2>2. pc # "set_model" /\ pc' # "switched"
    BY <1>1 DEF RequestFails, Initialized, UserUnknown, UserKnown, Authenticated, SessionOpened,
                Got, Ask, Stop
  <2> QED BY <2>1, <2>2 DEF Confirmed, Kept
<1>2. CASE SetModel \/ SetModelFails \/ SetModelDone \/ SwitchReturns \/ GivenUp
  BY <1>2, SwitchKeepsInv
<1>3. CASE ReadReply \/ DropReply \/ ReadUpdate
  <2>1. HandshakeInv'
    BY <1>3, ReaderKeepsInv
  <2>2. pc' = pc
    BY <1>3 DEF ReadReply, DropReply, ReadUpdate
  <2> QED BY <2>1, <2>2 DEF Confirmed, Kept
<1>4. CASE (\E r \in due : AgentReplies(r)) \/ (\E info \in Infos : AgentUpdates(info))
  <2>1. HandshakeInv'
    BY <1>4, AgentKeepsInv
  <2>2. pc' = pc
    BY <1>4 DEF AgentReplies, AgentUpdates, Writes
  <2> QED BY <2>1, <2>2 DEF Confirmed, Kept
<1>5. CASE UNCHANGED vars
  <2>1. Lines' = Lines
    BY <1>5 DEF vars, agent, Lines
  <2>2. \A b : Came(b)' <=> Came(b)
    BY <1>5, <2>1 DEF vars, Came
  <2>3. TypeOK' /\ RecordIsReported' /\ FreshIsNoted' /\ OpenIsLoggedIn'
    BY <1>5 DEF HandshakeInv, TypeOK, RecordIsReported, FreshIsNoted, OpenIsLoggedIn,
                vars, record, agent
  <2>4. NamedIsReported' /\ InOrder' /\ LoginKnown'
    BY <1>5, <2>1, <2>2 DEF HandshakeInv, NamedIsReported, Named1, InOrder, LoginKnown, vars, agent
  <2>5. pc' = pc
    BY <1>5 DEF vars
  <2> QED BY <2>3, <2>4, <2>5 DEF HandshakeInv, Confirmed, Kept
<1> QED BY <1>1, <1>2, <1>3, <1>4, <1>5 DEF Next

\* The invariant holds in every state.
LEMMA HandshakeInvariance == Spec => []HandshakeInv
<1>1. HandshakeInv /\ [Next]_vars => HandshakeInv'
  BY HandshakeStep
<1> QED BY <1>1, HandshakeInitially, PTL DEF Spec

\* Every variable keeps its type.
THEOREM HandshakeTypeCorrect == Spec => []TypeOK
BY HandshakeInvariance, PTL DEF HandshakeInv

\* The bridge records only models that the agent has named, under the name
\* that the agent listed, however answers and updates are interleaved
\* (acp.py:323-340).
THEOREM RecordsAreReported == Spec => []RecordIsReported
BY HandshakeInvariance, PTL DEF HandshakeInv

\* No session is opened with an agent that asks for a login and has none
\* (acp.py:342-417).
THEOREM OpenedLoggedIn == Spec => []OpenIsLoggedIn
BY HandshakeInvariance, PTL DEF HandshakeInv

\* A switch counts only if its response names the recorded model or, where it
\* names none, if the agent has named a new one since it was asked for
\* (acp.py:433-444).
THEOREM SwitchesAreReported == Spec => SwitchIsReported
<1>1. HandshakeInv /\ [Next]_vars => [Confirmed]_vars
  BY HandshakeStep
<1> QED BY <1>1, HandshakeInvariance, PTL DEF Spec, SwitchIsReported, Confirmed

\* A switch that does not count leaves what was recorded, or what the agent
\* has named since.
THEOREM FailedSwitchesKeep == Spec => FailedSwitchKeepsRecord
<1>1. HandshakeInv /\ [Next]_vars => [Kept]_vars
  BY HandshakeStep
<1> QED BY <1>1, HandshakeInvariance, PTL DEF Spec, FailedSwitchKeepsRecord, Kept
====
