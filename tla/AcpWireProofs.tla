---- MODULE AcpWireProofs ----
(***************************************************************************)
(* Facts of AcpTurn that rest on the order and the number of the lines on  *)
(* the wire.  AcpTurn implements PermissionLedger: a permission request is *)
(* in one place at a time, and is settled at most once, by the decision    *)
(* that named it or by the bridge.  And a turn that returns its result     *)
(* returns everything its agent said.                                      *)
(***************************************************************************)
EXTENDS AcpTurnProofs

(***************************************************************************)
(* The invariant the refinement needs                                      *)
(***************************************************************************)
InPlay(p) == OnWire(p) \/ Known(p)

\* A request is in one place of the wire, the queue and the gate, and once.
InOnePlace ==
  /\ \A p \in Requests : /\ Once(Line("ask", p), wire) /\ Once(p, queue)
                         /\ OnWire(p) => ~Known(p)
  /\ pending \notin Range(queue)

\* It has been asked and not answered as long as it is somewhere.
AnsweredOnce ==
  \A p \in Requests : /\ answers[p] \in {<<>>, <<"chosen">>, <<"rejected">>}
                      /\ InPlay(p) => turnOf[p] # 0 /\ answers[p] = <<>>
                      /\ turnOf[p] = 0 => answers[p] = <<>>

LedgerInv == InOnePlace /\ AnsweredOnce

(***************************************************************************)
(* What the ledger says of a request                                       *)
(***************************************************************************)
FateIs(p) ==
  /\ turnOf[p] = 0 => fate[p] = "unasked"
  /\ InPlay(p) => fate[p] = "open"
  /\ answers[p] = <<"chosen">> => fate[p] = "chosen"
  /\ answers[p] = <<"rejected">> => fate[p] = "rejected"
  /\ turnOf[p] # 0 /\ answers[p] = <<>> /\ ~InPlay(p) => fate[p] = "dropped"

\* What the ledger says of a request follows from its place and its answers,
LEMMA FateOf == AnsweredOnce => \A p \in Requests : FateIs(p)
<1> SUFFICES ASSUME AnsweredOnce, NEW p \in Requests PROVE FateIs(p)
  OBVIOUS
<1>1. fate[p] = CASE turnOf[p] = 0 -> "unasked"
                  [] Open(p) -> "open"
                  [] answers[p] = <<"chosen">> -> "chosen"
                  [] answers[p] = <<"rejected">> -> "rejected"
                  [] turnOf[p] # 0 /\ ~Open(p) /\ answers[p] = <<>> -> "dropped"
                  [] OTHER -> "answered twice"
  BY DEF fate
<1>2. Open(p) <=> turnOf[p] # 0 /\ answers[p] = <<>> /\ InPlay(p)
  BY DEF Open, InPlay
<1>3. <<"chosen">> # <<>> /\ <<"rejected">> # <<>> /\ <<"chosen">> # <<"rejected">>
  OBVIOUS
<1>4. /\ InPlay(p) => turnOf[p] # 0 /\ answers[p] = <<>>
      /\ turnOf[p] = 0 => answers[p] = <<>>
  BY DEF AnsweredOnce
<1>5. CASE turnOf[p] = 0
  BY <1>1, <1>2, <1>3, <1>4, <1>5 DEF FateIs
<1>6. CASE InPlay(p)
  BY <1>1, <1>2, <1>3, <1>4, <1>6 DEF FateIs
<1>7. CASE turnOf[p] # 0 /\ answers[p] = <<"chosen">>
  BY <1>1, <1>2, <1>3, <1>4, <1>7 DEF FateIs
<1>8. CASE turnOf[p] # 0 /\ answers[p] = <<"rejected">>
  BY <1>1, <1>2, <1>3, <1>4, <1>8 DEF FateIs
<1>9. CASE turnOf[p] # 0 /\ answers[p] = <<>> /\ ~InPlay(p)
  BY <1>1, <1>2, <1>3, <1>4, <1>9 DEF FateIs
<1> QED BY <1>5, <1>6, <1>7, <1>8, <1>9 DEF AnsweredOnce

\* after a step as before it.
LEMMA FateOfNext == (AnsweredOnce => \A p \in Requests : FateIs(p))'
BY FateOf, PTL

\* The fates are a function on the requests, so that two of them are equal
\* when they agree everywhere.
LEMMA FateIsFunction ==
  ASSUME NEW f, f = [p \in Requests |-> f[p]], \A p \in Requests : fate'[p] = f[p]
  PROVE  fate' = f
<1>1. fate' = [p \in Requests |-> fate'[p]]
  BY DEF fate
<1> QED BY <1>1

(***************************************************************************)
(* The ledger's steps                                                      *)
(***************************************************************************)
\* Requests that are no longer anywhere are dropped.
LEMMA DropStep ==
  ASSUME AnsweredOnce, AnsweredOnce', UNCHANGED <<answers, turnOf>>,
         \A p \in Requests : InPlay(p)' => InPlay(p),
         NEW ds \in SUBSET Requests, decided' = decided \cup ds
  PROVE  Ledger!LedgerNext
<1> DEFINE ps == {p \in Requests : InPlay(p) /\ ~InPlay(p)'}
           f == [p \in Requests |-> IF p \in ps THEN "dropped" ELSE fate[p]]
<1>1. \A p \in Requests : FateIs(p) /\ FateIs(p)'
  BY FateOf, FateOfNext
<1>2. \A p \in ps : fate[p] = "open"
  BY <1>1 DEF FateIs
<1>3. ASSUME NEW p \in Requests PROVE fate'[p] = f[p]
  <2>1. CASE p \in ps
    <3>1. turnOf'[p] # 0 /\ answers'[p] = <<>> /\ ~InPlay(p)'
      BY <2>1 DEF AnsweredOnce
    <3> QED BY <1>1, <2>1, <3>1 DEF FateIs
  <2>2. CASE p \notin ps
    <3>1. InPlay(p)' <=> InPlay(p)
      BY <2>2
    <3>2. answers[p] \in {<<>>, <<"chosen">>, <<"rejected">>}
      BY DEF AnsweredOnce
    <3>3. fate'[p] = fate[p]
      BY <1>1, <3>1, <3>2 DEF FateIs
    <3> QED BY <2>2, <3>3
  <2> QED BY <2>1, <2>2
<1>4. fate' = f
  <2>1. f = [p \in Requests |-> f[p]]
    OBVIOUS
  <2> HIDE DEF f
  <2> QED BY <1>3, <2>1, FateIsFunction
<1>5. Ledger!Drop(ps, ds)
  BY <1>2, <1>4 DEF Ledger!Drop
<1>6. ps \in SUBSET Requests
  OBVIOUS
<1> HIDE DEF ps
<1> QED BY <1>5, <1>6 DEF Ledger!LedgerNext

\* The fate of one request changes.
LEMMA OneFateChanges ==
  ASSUME AnsweredOnce, AnsweredOnce', NEW p \in Requests,
         \A q \in Requests \ {p} : /\ turnOf'[q] = turnOf[q] /\ answers'[q] = answers[q]
                                   /\ InPlay(q)' <=> InPlay(q)
  PROVE  fate' = [fate EXCEPT ![p] = fate'[p]]
<1> DEFINE f == [fate EXCEPT ![p] = fate'[p]]
<1>1. \A q \in Requests : FateIs(q) /\ FateIs(q)'
  BY FateOf, FateOfNext
<1>2. fate = [q \in Requests |-> fate[q]]
  BY DEF fate
<1>3. ASSUME NEW q \in Requests PROVE fate'[q] = f[q]
  <2>1. CASE q = p
    BY <1>2, <2>1
  <2>2. CASE q # p
    <3>1. answers[q] \in {<<>>, <<"chosen">>, <<"rejected">>}
      BY DEF AnsweredOnce
    <3>2. /\ turnOf'[q] = turnOf[q] /\ answers'[q] = answers[q]
          /\ InPlay(q)' <=> InPlay(q)
      BY <2>2
    <3>3. fate'[q] = fate[q]
      BY <1>1, <3>1, <3>2 DEF FateIs
    <3> QED BY <1>2, <2>2, <3>3
  <2> QED BY <2>1, <2>2
<1>4. f = [q \in Requests |-> f[q]]
  BY <1>2
<1> HIDE DEF f
<1>5. fate' = f
  BY <1>3, <1>4, FateIsFunction
<1> QED BY <1>5 DEF f

(***************************************************************************)
(* Classes of steps                                                        *)
(***************************************************************************)
\* The sequences and the gate have their types.
LEMMA Places ==
  ASSUME TurnInv
  PROVE  /\ wire \in Seq(Lines) /\ queue \in Seq(Requests) /\ pending \in 0..MaxAsks /\ 0 \notin Requests
         /\ answers \in [Requests -> Seq({"chosen", "rejected"})]
         /\ turnOf \in [Requests -> 0..MaxTurns]
BY TurnAssumption DEF TurnInv, TypeOK, GateTypes, AgentTypes, Requests

LedgerStep == LedgerInv' /\ Ledger!LedgerNext

\* A step that takes requests away at most, from any of the places.
LEMMA Forgets ==
  ASSUME TurnInv, LedgerInv, UNCHANGED <<answers, turnOf>>,
         wire' = wire \/ wire' = <<>> \/ (wire # <<>> /\ wire' = Tail(wire)),
         queue' = queue \/ queue' = <<>> \/ (queue # <<>> /\ queue' = Tail(queue)),
         pending' \in {pending, 0},
         NEW ds \in SUBSET Requests, decided' = decided \cup ds
  PROVE  LedgerStep
<1>1. /\ Range(wire') \subseteq Range(wire) /\ \A e : Once(e, wire) => Once(e, wire')
      /\ Range(queue') \subseteq Range(queue) /\ \A e : Once(e, queue) => Once(e, queue')
  BY Places, ShorterSequence
<1>2. \A p \in Requests : (OnWire(p)' => OnWire(p)) /\ (Known(p)' => Known(p))
  BY <1>1, Places, WhereItIs
<1>3. InOnePlace'
  <2>1. pending' \notin Range(queue')
    <3>1. 0 \notin Range(queue)
      BY Places DEF Range
    <3> QED BY <1>1, <3>1 DEF LedgerInv, InOnePlace
  <2> QED BY <1>1, <1>2, <2>1 DEF LedgerInv, InOnePlace
<1>4. \A p \in Requests : InPlay(p)' => InPlay(p)
  BY <1>2 DEF InPlay
<1>5. AnsweredOnce'
  BY <1>4 DEF LedgerInv, AnsweredOnce
<1>6. Ledger!LedgerNext
  BY <1>4, <1>5, DropStep DEF LedgerInv
<1> QED BY <1>3, <1>5, <1>6 DEF LedgerStep, LedgerInv

\* The bridge drops only requests that have no answer.
LEMMA ForgetsUndecided ==
  ASSUME TurnInv, LedgerInv, UNCHANGED <<answers, turnOf, decided>>,
         wire' = wire \/ wire' = <<>> \/ (wire # <<>> /\ wire' = Tail(wire)),
         queue' = queue \/ queue' = <<>> \/ (queue # <<>> /\ queue' = Tail(queue)),
         pending' \in {pending, 0}
  PROVE  LedgerStep
<1>1. decided' = decided \cup {} /\ {} \in SUBSET Requests
  OBVIOUS
<1> QED BY <1>1, Forgets

\* A step that leaves every request where it is.
LEMMA Moves ==
  ASSUME TurnInv, LedgerInv, UNCHANGED <<answers, turnOf, decided>>, InOnePlace',
         \A p \in Requests : InPlay(p)' => InPlay(p)
  PROVE  LedgerStep
<1>1. AnsweredOnce'
  BY DEF LedgerInv, AnsweredOnce
<1>2. decided' = decided \cup {} /\ {} \in SUBSET Requests
  OBVIOUS
<1>3. Ledger!LedgerNext
  BY <1>1, <1>2, DropStep DEF LedgerInv
<1> QED BY <1>1, <1>3 DEF LedgerStep, LedgerInv

\* The agent writes a line that asks nothing.
LEMMA WritesOther ==
  ASSUME TurnInv, LedgerInv, UNCHANGED <<answers, turnOf, decided, queue, pending>>,
         NEW l \in Lines, l.kind # "ask", wire' = Append(wire, l)
  PROVE  LedgerStep
<1>1. \A p \in Requests : Line("ask", p) # l
  BY DEF Line
<1>2. Range(wire') = Range(wire) \cup {l}
  BY Places, RangeOfAppend
<1>3. \A p \in Requests : OnWire(p)' <=> OnWire(p)
  BY <1>1, <1>2, WhereItIs
<1>4. \A p \in Requests : Known(p)' <=> Known(p)
  BY DEF Known
<1>5. \A p \in Requests : Once(Line("ask", p), wire')
  BY <1>1, Places, OnceInAppend DEF LedgerInv, InOnePlace
<1>6. InOnePlace'
  BY <1>3, <1>4, <1>5 DEF LedgerInv, InOnePlace
<1> QED BY <1>3, <1>4, <1>6, Moves DEF InPlay

\* The agent asks.
LEMMA Asks ==
  ASSUME TurnInv, LedgerInv, UNCHANGED <<answers, decided, queue, pending>>,
         NEW i \in Turns, NEW p \in Requests, turnOf[p] = 0, turnOf' = [turnOf EXCEPT ![p] = i],
         wire' = Append(wire, Line("ask", p))
  PROVE  LedgerStep
<1>1. Line("ask", p) \in Lines /\ \A q : Line("ask", q) = Line("ask", p) => q = p
  BY DEF Line, Lines
<1>2. Range(wire') = Range(wire) \cup {Line("ask", p)}
  BY <1>1, Places, RangeOfAppend
<1>3. \A q \in Requests : OnWire(q)' <=> OnWire(q) \/ q = p
  BY <1>1, <1>2, WhereItIs
<1>4. \A q \in Requests : Known(q)' <=> Known(q)
  BY DEF Known
<1>5. ~InPlay(p) /\ answers[p] = <<>>
  BY DEF LedgerInv, AnsweredOnce
<1>6. \A q \in Requests : Once(Line("ask", q), wire')
  <2>1. ~OnWire(p) /\ \A q \in Requests : Once(Line("ask", q), wire)
    BY <1>5 DEF InPlay, LedgerInv, InOnePlace
  <2>2. Line("ask", p) \notin Range(wire)
    BY <2>1, WhereItIs
  <2> QED BY <1>1, <2>1, <2>2, Places, OnceInAppend
<1>7. InOnePlace'
  BY <1>3, <1>4, <1>5, <1>6 DEF LedgerInv, InOnePlace, InPlay
<1>8. turnOf'[p] = i /\ i # 0 /\ \A q \in Requests \ {p} : turnOf'[q] = turnOf[q]
  BY Places, TurnAssumption DEF Turns
<1>9. AnsweredOnce'
  BY <1>3, <1>4, <1>5, <1>8 DEF LedgerInv, AnsweredOnce, InPlay
<1>10. fate' = [fate EXCEPT ![p] = fate'[p]]
  BY <1>3, <1>4, <1>8, <1>9, OneFateChanges DEF LedgerInv, InPlay
<1>11. fate[p] = "unasked" /\ fate'[p] = "open"
  BY <1>3, <1>9, FateOf, FateOfNext DEF LedgerInv, FateIs, InPlay
<1>12. Ledger!Ask(p)
  BY <1>10, <1>11 DEF Ledger!Ask
<1> QED BY <1>7, <1>9, <1>12 DEF LedgerStep, LedgerInv, Ledger!LedgerNext

\* The pending request is answered.
LEMMA Answers ==
  ASSUME TurnInv, LedgerInv, pending # 0, pending' = 0, UNCHANGED <<turnOf, wire, queue>>,
         NEW a \in {"chosen", "rejected"}, answers' = [answers EXCEPT ![pending] = Append(@, a)],
         \/ a = "chosen" /\ decided' = decided \cup {pending}
         \/ a = "rejected" /\ decided' = decided
  PROVE  LedgerStep
<1> DEFINE p == pending
<1>1. p \in Requests /\ Known(p) /\ p # 0
  BY Places DEF Requests, Known
<1> HIDE DEF p
<1>2. ~OnWire(p) /\ p \notin Range(queue) /\ answers[p] = <<>> /\ turnOf[p] # 0 /\ InPlay(p)
  BY <1>1 DEF LedgerInv, InOnePlace, AnsweredOnce, InPlay, p
<1>3. answers'[p] = <<a>> /\ \A q \in Requests \ {p} : answers'[q] = answers[q]
  <2>1. answers'[p] = Append(answers[p], a)
    BY <1>1, Places DEF p
  <2>2. Append(<<>>, a) = <<a>>
    OBVIOUS
  <2> QED BY <1>2, <2>1, <2>2, Places DEF p
<1>4. \A q \in Requests : /\ OnWire(q)' <=> OnWire(q)
                          /\ Known(q)' <=> Known(q) /\ q # p
  BY <1>2, Places, WhereItIs DEF p
<1>5. InOnePlace'
  <2>1. pending' \notin Range(queue')
    BY Places DEF Range
  <2> QED BY <1>4, <2>1 DEF LedgerInv, InOnePlace
<1>6. \A q \in Requests : InPlay(q)' <=> InPlay(q) /\ q # p
  BY <1>2, <1>4 DEF InPlay
<1>7. AnsweredOnce'
  BY <1>2, <1>3, <1>6 DEF LedgerInv, AnsweredOnce
<1>8. fate' = [fate EXCEPT ![p] = fate'[p]]
  BY <1>1, <1>3, <1>6, <1>7, OneFateChanges DEF LedgerInv
<1>9. fate[p] = "open" /\ fate'[p] = a
  BY <1>1, <1>2, <1>3, <1>7, FateOf, FateOfNext DEF LedgerInv, FateIs
<1>10. Ledger!Settle(p, a)
  BY <1>8, <1>9 DEF Ledger!Settle
<1>11. Ledger!Decide(p) \/ Ledger!Reject(p)
  BY <1>10 DEF Ledger!Decide, Ledger!Reject, p
<1> QED BY <1>1, <1>5, <1>7, <1>11 DEF LedgerStep, LedgerInv, Ledger!LedgerNext

(***************************************************************************)
(* Each action is a step of the ledger                                     *)
(***************************************************************************)
\* cancel_turn with its lock: the pending request is rejected if it can be,
\* and then the turn there is has the queue drained; otherwise it is dropped.
LEMMA EnterIsStep ==
  ASSUME TurnInv, LedgerInv, NEW t, EnterCancel(t), UNCHANGED <<agentSide, decided>>
  PROVE  LedgerStep
<1>1. UNCHANGED <<turnOf, wire>> /\ decided' = decided
  BY DEF agentSide
<1>2. queue' = queue \/ (current = 0 /\ queue' = <<>>)
  BY DEF EnterCancel, Drain, Leave
<1>3. CASE pending \in Rejectable /\ pending' = 0 /\ Answer(pending, "rejected")
  <2>1. pending # 0 /\ current # 0
    BY <1>3, TurnAssumption DEF TurnInv, PendingHasTurn, Requests
  <2> QED BY <1>1, <1>2, <1>3, <2>1, Answers DEF Answer
<1>4. CASE pending' \in {pending, 0} /\ answers' = answers
  BY <1>1, <1>2, <1>4, ForgetsUndecided
<1> QED BY <1>3, <1>4 DEF EnterCancel

\* A cancellation settles what is pending, once, or changes no fate.
LEMMA CancelIsStep ==
  ASSUME TurnInv, LedgerInv, NEW t, CancelTurn(t), UNCHANGED <<agentSide, decided>>
  PROVE  LedgerStep
<1>1. CASE EnterCancel(t)
  BY <1>1, EnterIsStep
<1>2. CASE UNCHANGED gate
  <2>1. UNCHANGED <<answers, turnOf, wire, queue, pending>> /\ decided' = decided
    BY <1>2 DEF gate, agentSide
  <2> QED BY <2>1, ForgetsUndecided
<1> QED BY <1>1, <1>2 DEF CancelTurn

\* The tools that begin, wait for and cancel a turn make steps of the ledger,
LEMMA CallersAreSteps ==
  ASSUME TurnInv, LedgerInv,
         \/ PromptRefused \/ TurnFails \/ WaitTimesOut \/ Cancelled \/ ElicitFails \/ PermissionExpires
         \/ CancelTool \/ \E t \in Tasks : LeaveQueue(t)
  PROVE  LedgerStep
<1>1. CASE \E t \in Tasks : LeaveQueue(t)
  BY <1>1, EnterIsStep DEF LeaveQueue
<1>2. CASE PromptRefused \/ TurnFails \/ WaitTimesOut \/ Cancelled \/ ElicitFails \/ PermissionExpires
  <2>1. CancelTurn("op") /\ UNCHANGED <<agentSide, decided>>
    BY <1>2 DEF PromptRefused, TurnFails, WaitTimesOut, Cancelled, ElicitFails, PermissionExpires
  <2> QED BY <2>1, CancelIsStep
<1>3. CASE CancelTool
  BY <1>3, CancelIsStep DEF CancelTool
<1> QED BY <1>1, <1>2, <1>3

\* A decision answers the request it names, or none.
LEMMA ResolveIsStep ==
  ASSUME TurnInv, LedgerInv, Resolve \/ ResolveCut, pending # 0, UNCHANGED agentSide,
         decided' = decided \cup {pending}
  PROVE  LedgerStep
<1>1. UNCHANGED <<turnOf, wire, queue>> /\ pending' = 0
  BY DEF Resolve, ResolveCut, agentSide
<1>2. CASE answers' = [answers EXCEPT ![pending] = Append(@, "chosen")]
  BY <1>1, <1>2, Answers
<1>3. CASE answers' = answers
  <2>1. {pending} \in SUBSET Requests
    BY Places DEF Requests
  <2> QED BY <1>1, <1>3, <2>1, Forgets
<1> QED BY <1>2, <1>3 DEF Resolve, ResolveCut, Answer

\* and so do the decisions on a permission,
LEMMA DecisionsAreSteps ==
  ASSUME TurnInv, LedgerInv, Elicited \/ \E p \in Requests : Respond(p) \/ RespondRefused(p)
  PROVE  LedgerStep
<1>1. CASE Elicited
  BY <1>1, ResolveIsStep DEF Elicited
<1>3. ASSUME NEW p \in Requests, Respond(p) PROVE LedgerStep
  <2>1. pending # 0
    BY <1>3, Places DEF Respond
  <2> QED BY <1>3, <2>1, ResolveIsStep DEF Respond
<1>4. ASSUME NEW p \in Requests, RespondRefused(p) PROVE LedgerStep
  <2>1. UNCHANGED <<answers, turnOf, wire, queue, pending>> /\ decided' = decided \cup {p}
    BY <1>4 DEF RespondRefused, gate, agentSide
  <2>2. {p} \in SUBSET Requests
    OBVIOUS
  <2> QED BY <2>1, <2>2, Forgets
<1> QED BY <1>1, <1>3, <1>4

\* A turn begins, has its prompt written, is returned or given up.
LEMMA TurnsAreSteps ==
  ASSUME TurnInv, LedgerInv,
         \/ BeginPrompt \/ TurnReturns \/ TakeRequest
         \/ (\E i \in Turns : SendPrompt(i)) \/ \E t \in Tasks : LeaveCancel(t) \/ Interrupt(t)
  PROVE  LedgerStep
<1>1. CASE BeginPrompt \/ TurnReturns \/ (\E i \in Turns : SendPrompt(i))
           \/ \E t \in Tasks : LeaveCancel(t) \/ Interrupt(t)
  <2>1. UNCHANGED <<answers, turnOf, wire>> /\ decided' = decided
    BY <1>1 DEF BeginPrompt, TurnReturns, SendPrompt, LeaveCancel, Interrupt, Leave, agentSide, gate
  <2>2. pending' \in {pending, 0}
    BY <1>1 DEF BeginPrompt, TurnReturns, SendPrompt, LeaveCancel, Interrupt, Leave, gate
  <2>3. queue' = queue \/ queue' = <<>> \/ (queue # <<>> /\ queue' = Tail(queue))
    BY <1>1 DEF BeginPrompt, TurnReturns, SendPrompt, LeaveCancel, Interrupt, Leave, gate
  <2> QED BY <2>1, <2>2, <2>3, ForgetsUndecided
<1>2. CASE TakeRequest
  <2>1. UNCHANGED <<answers, turnOf, wire, decided>> /\ queue # <<>>
        /\ pending' = Head(queue) /\ queue' = Tail(queue)
    BY <1>2 DEF TakeRequest, agentSide
  <2>2. pending = 0
    BY <1>2 DEF TakeRequest, TurnInv, OpWaits
  <2>3. pending' \in Requests /\ Range(queue) = Range(queue') \cup {pending'}
    BY <2>1, Places, RangeOfTail
  <2>4. pending' \notin Range(queue') /\ \A p \in Requests : Once(p, queue')
    BY <2>1, <2>3, Places, OnceInTail DEF LedgerInv, InOnePlace
  <2>5. \A p \in Requests : (OnWire(p)' <=> OnWire(p)) /\ (Known(p)' <=> Known(p))
    BY <2>1, <2>2, <2>3, Places, WhereItIs
  <2>6. InOnePlace'
    BY <2>1, <2>4, <2>5 DEF LedgerInv, InOnePlace
  <2> QED BY <2>1, <2>5, <2>6, Moves DEF InPlay
<1> QED BY <1>1, <1>2

\* the agent,
LEMMA AgentsAreSteps ==
  ASSUME TurnInv, LedgerInv, AgentStep
  PROVE  LedgerStep
<1>1. PICK i \in Turns : \/ AgentSays(i) \/ AgentReplies(i) \/ AgentOverruns(i)
                         \/ \E p \in Requests : AgentAsks(i, p)
  BY DEF AgentStep
<1>2. ASSUME NEW p \in Requests, AgentAsks(i, p) PROVE LedgerStep
  <2>1. UNCHANGED <<answers, decided, queue, pending>> /\ turnOf[p] = 0
        /\ turnOf' = [turnOf EXCEPT ![p] = i] /\ wire' = Append(wire, Line("ask", p))
    BY <1>2 DEF AgentAsks, Writes, gate
  <2> QED BY <2>1, Asks
<1>3. CASE AgentSays(i) \/ AgentReplies(i) \/ AgentOverruns(i)
  <2>1. UNCHANGED <<answers, turnOf, decided, queue, pending>>
    BY <1>3 DEF AgentSays, AgentReplies, AgentOverruns, Writes, gate
  <2>2. PICK k \in {"text", "result", "error", "long"} : wire' = Append(wire, Line(k, i))
    BY <1>3 DEF AgentSays, AgentReplies, AgentOverruns, Writes
  <2>3. Line(k, i) \in Lines /\ Line(k, i).kind # "ask"
    BY DEF Line, Lines
  <2> QED BY <2>1, <2>2, <2>3, WritesOther
<1> QED BY <1>1, <1>2, <1>3

\* the reader of its lines,
LEMMA ReaderIsStep ==
  ASSUME TurnInv, LedgerInv, ReaderStep \/ ReaderEnds
  PROVE  LedgerStep
<1>1. CASE ReadText \/ ReadReply \/ ReadOverrun \/ ReaderEnds
  <2>1. UNCHANGED <<answers, turnOf>> /\ decided' = decided
    BY <1>1 DEF ReadText, ReadReply, ReadOverrun, ReaderEnds, Consume, gate
  <2>2. wire' = <<>> \/ (wire # <<>> /\ wire' = Tail(wire))
    BY <1>1 DEF ReadText, ReadReply, ReadOverrun, ReaderEnds, Consume, Reads
  <2>3. (UNCHANGED <<queue, pending>>) \/ (pending' = 0 /\ queue' = <<>>)
    BY <1>1 DEF ReadText, ReadReply, ReadOverrun, ReaderEnds, gate
  <2> QED BY <2>1, <2>2, <2>3, ForgetsUndecided
<1>2. CASE ReadAsk
  <2>1. UNCHANGED <<answers, turnOf, decided, pending>> /\ wire # <<>> /\ Head(wire).kind = "ask"
        /\ wire' = Tail(wire) /\ queue' = Append(queue, Head(wire).of)
    BY <1>2 DEF ReadAsk, Consume, Reads
  <2>2. /\ Head(wire) \in Lines /\ Range(wire) = Range(wire') \cup {Head(wire)}
    BY <2>1, TakenLine
  <2>3. PICK p \in Requests : p = Head(wire).of /\ Head(wire) = Line("ask", p)
    BY <2>1, <2>2 DEF Lines, Line
  <2>4. OnWire(p) /\ ~Known(p)
    BY <2>2, <2>3, WhereItIs DEF LedgerInv, InOnePlace
  <2>5. Range(queue') = Range(queue) \cup {p} /\ \A q \in Requests : Once(q, queue')
    <3>1. p \notin Range(queue) /\ \A q \in Requests : Once(q, queue)
      BY <2>4, WhereItIs DEF LedgerInv, InOnePlace
    <3> QED BY <2>1, <2>3, <3>1, Places, RangeOfAppend, OnceInAppend
  <2>6. \A q \in Requests : Once(Line("ask", q), wire')
    BY <2>1, Places, OnceInTail DEF LedgerInv, InOnePlace
  <2>7. ~OnWire(p)'
    <3>1. Line("ask", p) \notin Range(wire')
      BY <2>1, <2>3, Places, OnceInTail DEF LedgerInv, InOnePlace
    <3> QED BY <3>1, WhereItIs
  <2>8. \A q \in Requests : Line("ask", q) = Line("ask", p) => q = p
    BY DEF Line
  <2>9. \A q \in Requests : /\ OnWire(q)' => OnWire(q) /\ q # p
                            /\ Known(q)' <=> Known(q) \/ q = p
    BY <2>1, <2>2, <2>5, <2>7, WhereItIs
  <2>10. pending' \notin Range(queue')
    BY <2>1, <2>4, <2>5 DEF LedgerInv, InOnePlace, Known
  <2>11. InOnePlace'
    BY <2>5, <2>6, <2>9, <2>10 DEF LedgerInv, InOnePlace
  <2>12. \A q \in Requests : InPlay(q)' => InPlay(q)
    BY <2>4, <2>9 DEF InPlay
  <2> QED BY <2>1, <2>11, <2>12, Moves
<1> QED BY <1>1, <1>2 DEF ReaderStep

(***************************************************************************)
(* The refinement                                                          *)
(***************************************************************************)
LEMMA LedgerInit == Init => LedgerInv /\ Ledger!LedgerInit
<1> SUFFICES ASSUME Init PROVE LedgerInv /\ Ledger!LedgerInit
  OBVIOUS
<1>1. wire = <<>> /\ queue = <<>> /\ pending = 0 /\ decided = {}
      /\ turnOf = [p \in Requests |-> 0] /\ answers = [p \in Requests |-> <<>>]
  BY DEF Init
<1>2. \A p \in Requests : p # 0
  BY TurnAssumption DEF Requests
<1>3. \A p \in Requests : ~InPlay(p)
  BY <1>1, <1>2, RangeOfEmpty, WhereItIs DEF InPlay
<1>4. InOnePlace
  BY <1>1, <1>3, RangeOfEmpty DEF InOnePlace, InPlay
<1>5. AnsweredOnce
  BY <1>1, <1>3 DEF AnsweredOnce
<1>6. \A p \in Requests : fate[p] = "unasked"
  BY <1>1, <1>5, FateOf DEF FateIs
<1>7. fate = [p \in Requests |-> fate[p]]
  BY DEF fate
<1>8. fate = [p \in Requests |-> "unasked"]
  BY <1>6, <1>7
<1> QED BY <1>1, <1>4, <1>5, <1>8 DEF LedgerInv, Ledger!LedgerInit

\* and every step of the module.
LEMMA LedgerNextStep ==
  ASSUME TurnInv, LedgerInv, [Next]_vars
  PROVE  LedgerInv' /\ [Ledger!LedgerNext]_(Ledger!ledger)
<1>1. CASE ClientStep
  BY <1>1, TurnsAreSteps, CallersAreSteps, DecisionsAreSteps DEF ClientStep, LedgerStep
<1>2. CASE OpStep
  BY <1>2, TurnsAreSteps, CallersAreSteps DEF OpStep, LedgerStep
<1>3. CASE ElicitStep \/ PermissionExpires
  BY <1>3, DecisionsAreSteps, CallersAreSteps DEF ElicitStep, LedgerStep
<1>4. CASE \E t \in Tasks : CancelStep(t)
  BY <1>4, CallersAreSteps, TurnsAreSteps DEF CancelStep, LedgerStep
<1>5. CASE \E i \in Turns : SendPrompt(i)
  BY <1>5, TurnsAreSteps DEF LedgerStep
<1>6. CASE AgentStep
  BY <1>6, AgentsAreSteps DEF LedgerStep
<1>7. CASE ReaderStep \/ ReaderEnds
  BY <1>7, ReaderIsStep DEF LedgerStep
<1>8. CASE UNCHANGED vars
  <2>1. UNCHANGED <<answers, turnOf, wire, queue, pending>> /\ decided' = decided
    BY <1>8 DEF vars, gate, agentSide
  <2> QED BY <2>1, ForgetsUndecided DEF LedgerStep
<1> QED BY <1>1, <1>2, <1>3, <1>4, <1>5, <1>6, <1>7, <1>8 DEF Next

\* Every request of the agent is settled at most once, and an answer chosen by
\* the MCP client goes to the request that it named.
THEOREM RequestsAreSettledOnce == Spec => LedgerSpec
<1>1. Init => LedgerInv /\ Ledger!LedgerInit
  BY LedgerInit
<1>2. TurnInv /\ LedgerInv /\ [Next]_vars => LedgerInv' /\ [Ledger!LedgerNext]_(Ledger!ledger)
  BY LedgerNextStep
<1> QED BY <1>1, <1>2, TurnInvariance, PTL DEF Spec, LedgerSpec, Ledger!LedgerSpec

(***************************************************************************)
(* The text of a turn                                                      *)
(***************************************************************************)
TextOf(i) == Line("text", i)

\* The agent has nothing to say of a turn before it has got its prompt, and
\* nothing more once it has sent its response.
SaidInOrder ==
  /\ \A i \in Turns : agent[i] = "none" => said[i] = 0 /\ TextOf(i) \notin Range(wire)
  /\ \A i \in Turns : NoneAfter(Line("result", i), TextOf(i), wire)
  /\ \A i \in Turns : reply[i] = "result" => TextOf(i) \notin Range(wire)

\* What the agent said of the newest turn is in the buffers or on its way,
\* until the turn is given up.
NewestIsWhole ==
  /\ \A i \in Turns : reply[i] = "waiting" => alive
  /\ \A i \in Turns : i = last /\ reply[i] \in {"starting", "waiting", "result"}
                        => text[i] + Count(TextOf(i), wire) = said[i]

\* Text of another turn is one the bridge gave up.
OthersWereGivenUp ==
  \A j \in Turns : text[j] > 0 /\ j # last => reply[j] \in {"cancelled", "error"}

TextInv == SaidInOrder /\ NewestIsWhole /\ OthersWereGivenUp

TextTypes == /\ wire \in Seq(Lines) /\ said \in [Turns -> Nat] /\ text \in [Turns -> Nat]
             /\ \A i \in Turns : TextOf(i) \in Lines /\ Line("result", i) \in Lines

\* The types of the state that the text is about.
LEMMA TypesOfText == TypeOK => TextTypes
BY DEF TypeOK, AgentTypes, ClientTypes, TextTypes, TextOf, Line, Lines

\* Lines of different kinds are different lines.
LEMMA LinesDiffer ==
  \A i, j \in Turns : \A k \in {"result", "error", "long", "ask"} :
    \A o : TextOf(i) # Line(k, o) /\ (TextOf(i) = TextOf(j) => i = j)
BY DEF TextOf, Line

\* Steps that leave the lines and the buffers alone and only end turns, or
\* send a prompt.
LEMMA QuietKeepsText ==
  ASSUME TextInv, TurnInv, UNCHANGED <<wire, said, text, last, alive>>,
         \A i \in Turns : \/ reply'[i] = reply[i]
                          \/ reply'[i] \in {"cancelled", "error"}
                          \/ reply[i] = "starting" /\ reply'[i] = "waiting" /\ alive,
         \A i \in Turns : agent'[i] = "none" => agent[i] = "none"
  PROVE  TextInv'
<1>1. SaidInOrder'
  BY DEF TextInv, SaidInOrder
<1>2. NewestIsWhole'
  <2>1. ASSUME NEW i \in Turns, reply'[i] = "waiting" PROVE alive'
    BY <2>1 DEF TextInv, NewestIsWhole
  <2>2. ASSUME NEW i \in Turns, i = last', reply'[i] \in {"starting", "waiting", "result"}
        PROVE  text'[i] + Count(TextOf(i), wire') = said'[i]
    <3>1. reply[i] \in {"starting", "waiting", "result"}
      BY <2>2
    <3> QED BY <2>2, <3>1 DEF TextInv, NewestIsWhole
  <2> QED BY <2>1, <2>2 DEF NewestIsWhole
<1>3. OthersWereGivenUp'
  <2> SUFFICES ASSUME NEW j \in Turns, text'[j] > 0, j # last' PROVE reply'[j] \in {"cancelled", "error"}
    BY DEF OthersWereGivenUp
  <2>1. reply[j] \in {"cancelled", "error"}
    BY DEF TextInv, OthersWereGivenUp
  <2> QED BY <2>1
<1> QED BY <1>1, <1>2, <1>3 DEF TextInv

\* The tools of the bridge say nothing for the agent.
LEMMA TurnsKeepText ==
  ASSUME TextInv, TurnInv,
         \/ PromptRefused \/ CancelTool \/ TurnReturns \/ TurnFails \/ WaitTimesOut \/ Cancelled
         \/ TakeRequest \/ ElicitStep \/ PermissionExpires
         \/ \E p \in Requests : Respond(p) \/ RespondRefused(p)
         \/ \E t \in Tasks : CancelStep(t)
         \/ \E i \in Turns : SendPrompt(i)
         \/ UNCHANGED vars
  PROVE  TextInv'
<1>1. ScalarTypes
  BY TypesAreScalar DEF TurnInv
<1>2. CASE UNCHANGED <<wire, said, text, last, alive, reply, agent>>
  BY <1>2, QuietKeepsText
<1>3. CASE \E t \in Tasks : LeaveCancel(t)
  <2>1. PICK t \in Tasks : LeaveCancel(t)
    BY <1>3
  <2>2. /\ UNCHANGED <<wire, said, text, last, alive, agent>>
        /\ reply' = [reply EXCEPT ![target[t]] = IF reply[target[t]] = "waiting" THEN "cancelled"
                                                 ELSE reply[target[t]]]
    BY <1>1, <2>1 DEF LeaveCancel, agentSide, ScalarTypes
  <2>3. \A i \in Turns : reply'[i] = reply[i] \/ reply'[i] \in {"cancelled", "error"}
    BY <1>1, <2>2 DEF ScalarTypes
  <2> QED BY <2>2, <2>3, QuietKeepsText
<1>4. CASE \E i \in Turns : SendPrompt(i)
  <2>1. PICK j \in Turns : SendPrompt(j)
    BY <1>4
  <2>2. /\ UNCHANGED <<wire, said, text, last, alive>>
        /\ reply[j] = "starting"
        /\ reply' = [reply EXCEPT ![j] = IF alive THEN "waiting" ELSE "error"]
        /\ agent' = [agent EXCEPT ![j] = IF alive THEN "working" ELSE agent[j]]
    BY <1>1, <2>1 DEF SendPrompt, ScalarTypes
  <2>3. \A i \in Turns : \/ reply'[i] = reply[i]
                         \/ reply'[i] \in {"cancelled", "error"}
                         \/ reply[i] = "starting" /\ reply'[i] = "waiting" /\ alive
    BY <1>1, <2>2 DEF ScalarTypes
  <2>4. \A i \in Turns : agent'[i] = "none" => agent[i] = "none"
    BY <1>1, <2>2 DEF ScalarTypes
  <2> QED BY <2>2, <2>3, <2>4, QuietKeepsText
<1>5. CASE TurnReturns
  BY <1>2, <1>5 DEF TurnReturns, agentSide
<1>6. CASE \/ PromptRefused \/ CancelTool \/ TurnFails \/ WaitTimesOut \/ Cancelled
           \/ TakeRequest \/ ElicitStep \/ PermissionExpires
  BY <1>2, <1>6 DEF PromptRefused, CancelTool, TurnFails, WaitTimesOut, Cancelled, TakeRequest, ElicitStep,
     Elicited, ElicitFails, PermissionExpires, client, agentSide
<1>7. CASE \E p \in Requests : Respond(p) \/ RespondRefused(p)
  BY <1>2, <1>7 DEF Respond, RespondRefused, client, agentSide
<1>8. CASE \E t \in Tasks : LeaveQueue(t) \/ Interrupt(t)
  BY <1>2, <1>8 DEF LeaveQueue, Interrupt, client, agentSide
<1>9. CASE UNCHANGED vars
  BY <1>2, <1>9 DEF vars, client, agentSide
<1> QED BY <1>3, <1>4, <1>5, <1>6, <1>7, <1>8, <1>9 DEF CancelStep

\* A new turn begins with empty buffers.
LEMMA BeginKeepsText ==
  ASSUME TextInv, TurnInv, BeginPrompt
  PROVE  TextInv'
<1> USE TurnAssumption DEF Turns
<1>1. ScalarTypes /\ TextTypes
  BY TypesAreScalar, TypesOfText DEF TurnInv
<1>2. /\ last < MaxTurns /\ last' = last + 1
      /\ reply' = [reply EXCEPT ![last + 1] = "starting"]
      /\ text' = [i \in Turns |-> 0]
      /\ UNCHANGED <<alive, wire, said, agent>>
  BY DEF BeginPrompt, agentSide
<1>3. last + 1 \in Turns /\ last + 1 > last
  BY <1>1, <1>2 DEF ScalarTypes
<1>4. agent[last + 1] = "none"
  BY <1>3 DEF TurnInv, Numbered
<1>5. \A i \in Turns : reply'[i] = IF i = last + 1 THEN "starting" ELSE reply[i]
  BY <1>1, <1>2 DEF ScalarTypes
<1>6. SaidInOrder'
  BY <1>2, <1>5 DEF TextInv, SaidInOrder
<1>7. NewestIsWhole'
  <2>1. \A i \in Turns : reply'[i] = "waiting" => alive'
    BY <1>2, <1>5 DEF TextInv, NewestIsWhole
  <2>2. \A i \in Turns : i = last + 1 => said[i] = 0 /\ Count(TextOf(i), wire) = 0
    <3>1. said[last + 1] = 0 /\ TextOf(last + 1) \notin Range(wire)
      BY <1>3, <1>4 DEF TextInv, SaidInOrder
    <3>2. Count(TextOf(last + 1), wire) = 0
      BY <1>1, <3>1, CountIsNat DEF TextTypes
    <3> QED BY <3>1, <3>2
  <2>3. ASSUME NEW i \in Turns, i = last' PROVE text'[i] + Count(TextOf(i), wire') = said'[i]
    BY <1>2, <2>2, <2>3
  <2> QED BY <2>1, <2>3 DEF NewestIsWhole
<1>8. OthersWereGivenUp'
  BY <1>2 DEF OthersWereGivenUp
<1> QED BY <1>6, <1>7, <1>8 DEF TextInv

\* The agent puts a line behind the others.
LEMMA WritingKeepsText ==
  ASSUME TextInv, TurnInv, NEW i \in Turns, agent[i] = "working", NEW l \in Lines,
         wire' = Append(wire, l), UNCHANGED <<text, last, alive, reply>>,
         \A j \in Turns : agent'[j] = "none" => agent[j] = "none",
         \/ l = TextOf(i) /\ said' = [said EXCEPT ![i] = said[i] + 1]
         \/ said' = said /\ \A j \in Turns : l # TextOf(j)
  PROVE  TextInv'
<1>1. TextTypes
  BY TypesOfText DEF TurnInv
<1>2. Range(wire') = Range(wire) \cup {l}
  BY <1>1, RangeOfAppend DEF TextTypes
<1>3. \A j \in Turns : l = TextOf(j) => j = i
  BY LinesDiffer
<1>4. \A j \in Turns : Count(TextOf(j), wire') = IF TextOf(j) = l THEN Count(TextOf(j), wire) + 1
                                                 ELSE Count(TextOf(j), wire)
  BY <1>1, CountInAppend DEF TextTypes
<1>5. \A j \in Turns : said'[j] = IF TextOf(j) = l THEN said[j] + 1 ELSE said[j]
  BY <1>1, <1>3 DEF TextTypes
<1>6. SaidInOrder'
  <2>1. ASSUME NEW j \in Turns, agent'[j] = "none" PROVE said'[j] = 0 /\ TextOf(j) \notin Range(wire')
    <3>1. agent[j] = "none" /\ TextOf(j) # l
      BY <1>3, <2>1
    <3> QED BY <1>2, <1>5, <3>1 DEF TextInv, SaidInOrder
  <2>2. ASSUME NEW j \in Turns PROVE NoneAfter(Line("result", j), TextOf(j), wire')
    <3>1. ASSUME l = TextOf(j) PROVE Line("result", j) \notin Range(wire)
      <4>1. agent[j] # "ended"
        BY <1>3, <3>1
      <4>2. Line("result", j).kind = "result" /\ Line("result", j).of = j
        BY DEF Line
      <4> QED BY <4>1, <4>2 DEF TurnInv, RepliesAreLast
    <3>2. NoneAfter(Line("result", j), TextOf(j), wire)
      BY DEF TextInv, SaidInOrder
    <3> QED BY <1>1, <3>1, <3>2, NoneAfterInAppend DEF TextTypes
  <2>3. ASSUME NEW j \in Turns, reply'[j] = "result" PROVE TextOf(j) \notin Range(wire')
    <3>1. agent[j] = "ended" /\ TextOf(j) \notin Range(wire)
      BY <2>3 DEF TurnInv, OwnResult, TextInv, SaidInOrder
    <3>2. TextOf(j) # l
      BY <1>3, <3>1
    <3> QED BY <1>2, <3>1, <3>2
  <2> QED BY <2>1, <2>2, <2>3 DEF SaidInOrder
<1>7. NewestIsWhole'
  <2>1. ASSUME NEW j \in Turns, j = last', reply'[j] \in {"starting", "waiting", "result"}
        PROVE  text'[j] + Count(TextOf(j), wire') = said'[j]
    <3>1. text[j] + Count(TextOf(j), wire) = said[j]
      BY <2>1 DEF TextInv, NewestIsWhole
    <3>2. text[j] \in Nat /\ said[j] \in Nat /\ Count(TextOf(j), wire) \in Nat
      BY <1>1, CountIsNat DEF TextTypes
    <3> QED BY <1>4, <1>5, <3>1, <3>2
  <2> QED BY <2>1 DEF NewestIsWhole, TextInv
<1>8. OthersWereGivenUp'
  BY DEF OthersWereGivenUp, TextInv
<1> QED BY <1>6, <1>7, <1>8 DEF TextInv

\* The agent appends what it says to the wire.
LEMMA AgentKeepsText ==
  ASSUME TextInv, TurnInv, AgentStep
  PROVE  TextInv'
<1>1. ScalarTypes /\ TextTypes
  BY TypesAreScalar, TypesOfText DEF TurnInv
<1>2. ASSUME NEW i \in Turns, AgentSays(i) PROVE TextInv'
  <2>1. /\ agent[i] = "working" /\ wire' = Append(wire, TextOf(i))
        /\ UNCHANGED <<text, last, alive, reply, agent>>
    BY <1>2 DEF AgentSays, Works, Writes, client, TextOf
  <2>2. TextOf(i) \in Lines /\ said' = [said EXCEPT ![i] = said[i] + 1]
    BY <1>1, <1>2 DEF AgentSays, TextTypes
  <2> QED BY <2>1, <2>2, WritingKeepsText
<1>3. ASSUME NEW i \in Turns, NEW k \in {"result", "error", "long", "ask"}, NEW o,
             agent[i] = "working", Line(k, o) \in Lines, Writes(Line(k, o)), said' = said,
             \A j \in Turns : agent'[j] = "none" => agent[j] = "none"
      PROVE  TextInv'
  <2>1. wire' = Append(wire, Line(k, o)) /\ UNCHANGED <<text, last, alive, reply>>
    BY <1>3 DEF Writes, client
  <2>2. \A j \in Turns : Line(k, o) # TextOf(j)
    BY LinesDiffer
  <2> QED BY <1>3, <2>1, <2>2, WritingKeepsText
<1>4. ASSUME NEW i \in Turns, AgentReplies(i) PROVE TextInv'
  <2>1. PICK r \in {"result", "error"} : Writes(Line(r, i))
    BY <1>4 DEF AgentReplies
  <2>2. Line(r, i) \in Lines
    BY DEF Line, Lines
  <2>3. agent[i] = "working" /\ said' = said /\ agent' = [agent EXCEPT ![i] = "ended"]
    BY <1>4 DEF AgentReplies, Works
  <2>4. \A j \in Turns : agent'[j] = "none" => agent[j] = "none"
    BY <1>1, <2>3 DEF ScalarTypes
  <2> QED BY <1>3, <2>1, <2>2, <2>3, <2>4
<1>5. ASSUME NEW i \in Turns, AgentOverruns(i) PROVE TextInv'
  <2>1. PICK a \in {"working", "ended"} : agent' = [agent EXCEPT ![i] = a]
    BY <1>5 DEF AgentOverruns
  <2>2. Line("long", i) \in Lines
    BY DEF Line, Lines
  <2>3. agent[i] = "working" /\ said' = said /\ Writes(Line("long", i))
    BY <1>5 DEF AgentOverruns, Works
  <2>4. \A j \in Turns : agent'[j] = "none" => agent[j] = "none"
    BY <1>1, <2>1 DEF ScalarTypes
  <2> QED BY <1>3, <2>2, <2>3, <2>4
<1>6. ASSUME NEW i \in Turns, NEW p \in Requests, AgentAsks(i, p) PROVE TextInv'
  <2>1. Line("ask", p) \in Lines
    BY DEF Line, Lines
  <2>2. agent[i] = "working" /\ said' = said /\ agent' = agent /\ Writes(Line("ask", p))
    BY <1>6 DEF AgentAsks, Works
  <2> QED BY <1>3, <2>1, <2>2
<1> QED BY <1>2, <1>4, <1>5, <1>6 DEF AgentStep

(***************************************************************************)
(* The reader takes a line: text goes to the buffers of its turn.          *)
(***************************************************************************)
\* Fewer lines are in no worse order.
LEMMA TakingKeepsOrder ==
  ASSUME TextInv, TurnInv, wire # <<>>, wire' = Tail(wire), UNCHANGED <<said, agent>>,
         \A i \in Turns : reply'[i] = "result" =>
           reply[i] = "result" \/ Head(wire) = Line("result", i)
  PROVE  SaidInOrder'
<1>1. TextTypes
  BY TypesOfText DEF TurnInv
<1>2. Range(wire') \subseteq Range(wire)
  BY <1>1, RangeOfTail DEF TextTypes
<1>3. ASSUME NEW i \in Turns
      PROVE  /\ NoneAfter(Line("result", i), TextOf(i), wire')
             /\ Line("result", i) = Head(wire) => TextOf(i) \notin Range(wire')
  BY <1>1, NoneAfterInTail DEF TextTypes, TextInv, SaidInOrder
<1> QED BY <1>2, <1>3 DEF TextInv, SaidInOrder

\* The reader takes the text in the order it was said in.
LEMMA ReadTextKeepsText ==
  ASSUME TextInv, TurnInv, ReadText
  PROVE  TextInv'
<1>1. TextTypes /\ ScalarTypes
  BY TypesOfText, TypesAreScalar DEF TurnInv
<1>2. /\ wire # <<>> /\ wire' = Tail(wire)
      /\ UNCHANGED <<said, agent, reply, last, alive>>
  BY DEF ReadText, Reads, Consume
<1>3. PICK i \in Turns : Head(wire) = TextOf(i)
  <2>1. Head(wire) \in Lines /\ Head(wire).kind = "text"
    BY <1>2, TakenLine DEF ReadText, Reads
  <2> QED BY <2>1 DEF Lines, TextOf, Line
<1>4. text' = [text EXCEPT ![i] = text[i] + 1]
  <2>1. Head(wire).of = i
    BY <1>3 DEF TextOf, Line
  <2> QED BY <1>1, <2>1 DEF ReadText, TextTypes
<1>5. TextOf(i) \in Range(wire)
  BY <1>2, <1>3, TakenLine
<1>6. SaidInOrder'
  BY <1>2, TakingKeepsOrder
<1>7. ASSUME NEW j \in Turns
      PROVE  /\ text'[j] = IF j = i THEN text[j] + 1 ELSE text[j]
             /\ Count(TextOf(j), wire') = IF j = i THEN Count(TextOf(j), wire) - 1
                                          ELSE Count(TextOf(j), wire)
  <2>1. TextOf(j) = Head(wire) <=> j = i
    BY <1>3, LinesDiffer
  <2>2. Count(TextOf(j), wire') = IF TextOf(j) = Head(wire) THEN Count(TextOf(j), wire) - 1
                                  ELSE Count(TextOf(j), wire)
    BY <1>1, <1>2, CountInTail DEF TextTypes
  <2> QED BY <1>1, <1>4, <2>1, <2>2 DEF TextTypes
<1>8. NewestIsWhole'
  <2>1. ASSUME NEW j \in Turns, j = last', reply'[j] \in {"starting", "waiting", "result"}
        PROVE  text'[j] + Count(TextOf(j), wire') = said'[j]
    <3>1. text[j] + Count(TextOf(j), wire) = said[j]
      BY <1>2, <2>1 DEF TextInv, NewestIsWhole
    <3>2. text[j] \in Nat /\ said[j] \in Nat /\ Count(TextOf(j), wire) \in Nat
      BY <1>1, CountIsNat DEF TextTypes
    <3> QED BY <1>2, <1>7, <3>1, <3>2
  <2> QED BY <1>2, <2>1 DEF NewestIsWhole, TextInv
<1>9. OthersWereGivenUp'
  <2> SUFFICES ASSUME NEW j \in Turns, text'[j] > 0, j # last PROVE reply[j] \in {"cancelled", "error"}
    BY <1>2 DEF OthersWereGivenUp
  <2>1. CASE j # i
    BY <1>7, <2>1 DEF TextInv, OthersWereGivenUp
  <2>2. CASE j = i
    <3>1. reply[j] # "result" /\ agent[j] # "none"
      BY <1>5, <2>2 DEF TextInv, SaidInOrder
    <3>2. ~(j > last)
      BY <3>1 DEF TurnInv, Numbered
    <3>3. j \in Nat /\ last \in Nat
      BY <1>1 DEF ScalarTypes, Turns
    <3>4. Done(j)
      BY <3>2, <3>3 DEF TurnInv, Numbered
    <3> QED BY <3>1, <3>4 DEF Done
  <2> QED BY <2>1, <2>2
<1> QED BY <1>6, <1>8, <1>9 DEF TextInv

\* A line that is no text.
LEMMA ReadOtherKeepsText ==
  ASSUME TextInv, TurnInv, wire # <<>>, wire' = Tail(wire), Head(wire).kind # "text",
         UNCHANGED <<said, agent, text, last>>,
         \A i \in Turns : \/ reply'[i] = reply[i] /\ (reply[i] = "waiting" => alive' = alive)
                          \/ reply'[i] = "error"
                          \/ reply[i] = "waiting" /\ reply'[i] = "result" /\ Head(wire) = Line("result", i)
  PROVE  TextInv'
<1>1. TextTypes
  BY TypesOfText DEF TurnInv
<1>2. ASSUME NEW i \in Turns PROVE Count(TextOf(i), wire') = Count(TextOf(i), wire)
  <2>1. TextOf(i) # Head(wire)
    BY DEF TextOf, Line
  <2> QED BY <1>1, <2>1, CountInTail DEF TextTypes
<1>3. SaidInOrder'
  BY TakingKeepsOrder
<1>4. NewestIsWhole'
  <2>1. ASSUME NEW i \in Turns, reply'[i] = "waiting" PROVE alive'
    BY <2>1 DEF TextInv, NewestIsWhole
  <2>2. ASSUME NEW i \in Turns, i = last', reply'[i] \in {"starting", "waiting", "result"}
        PROVE  text'[i] + Count(TextOf(i), wire') = said'[i]
    <3>1. reply[i] \in {"starting", "waiting", "result"}
      BY <2>2
    <3> QED BY <1>2, <2>2, <3>1 DEF TextInv, NewestIsWhole
  <2> QED BY <2>1, <2>2 DEF NewestIsWhole
<1>5. OthersWereGivenUp'
  <2> SUFFICES ASSUME NEW j \in Turns, text[j] > 0, j # last PROVE reply'[j] \in {"cancelled", "error"}
    BY DEF OthersWereGivenUp
  <2>1. reply[j] \in {"cancelled", "error"}
    BY DEF TextInv, OthersWereGivenUp
  <2> QED BY <2>1
<1> QED BY <1>3, <1>4, <1>5 DEF TextInv

\* What else the reader takes leaves the text in order.
LEMMA ReaderKeepsText ==
  ASSUME TextInv, TurnInv, ReaderStep \/ ReaderEnds
  PROVE  TextInv'
<1>1. TextTypes /\ ScalarTypes
  BY TypesOfText, TypesAreScalar DEF TurnInv
<1>2. CASE ReadText
  BY <1>2, ReadTextKeepsText
<1>3. CASE ReadAsk
  <2>1. /\ wire # <<>> /\ wire' = Tail(wire) /\ Head(wire).kind # "text"
        /\ UNCHANGED <<said, agent, text, last, reply, alive>>
    BY <1>3 DEF ReadAsk, Reads, Consume, client
  <2> QED BY <2>1, ReadOtherKeepsText
<1>4. CASE ReadReply
  <2>1. /\ wire # <<>> /\ wire' = Tail(wire) /\ Head(wire).kind \in {"result", "error"}
        /\ UNCHANGED <<said, agent, text, last, alive>>
    BY <1>4 DEF ReadReply, Reads, Consume
  <2>2. PICK j \in Turns : Head(wire) = Line(Head(wire).kind, j)
    <3>1. Head(wire) \in Lines
      BY <2>1, TakenLine
    <3> QED BY <2>1, <3>1 DEF Lines, Line
  <2>3. reply' = [reply EXCEPT ![j] = IF reply[j] = "waiting" THEN Head(wire).kind ELSE reply[j]]
    <3>1. Head(wire).of = j
      BY <2>2 DEF Line
    <3> QED BY <1>1, <1>4, <3>1 DEF ReadReply, ScalarTypes
  <2>4. ASSUME NEW i \in Turns
        PROVE  \/ reply'[i] = reply[i]
               \/ reply'[i] = "error"
               \/ reply[i] = "waiting" /\ reply'[i] = "result" /\ Head(wire) = Line("result", i)
    <3>1. CASE i = j /\ reply[j] = "waiting" /\ Head(wire).kind = "result"
      BY <1>1, <2>2, <2>3, <3>1 DEF ScalarTypes
    <3>2. CASE ~(i = j /\ reply[j] = "waiting" /\ Head(wire).kind = "result")
      BY <1>1, <2>1, <2>3, <3>2 DEF ScalarTypes
    <3> QED BY <3>1, <3>2
  <2> QED BY <2>1, <2>4, ReadOtherKeepsText
<1>5. ASSUME FailPending
      PROVE  \A i \in Turns : reply'[i] = IF reply[i] = "waiting" THEN "error" ELSE reply[i]
  BY <1>5 DEF FailPending
<1>6. CASE ReadOverrun
  <2>1. /\ wire # <<>> /\ wire' = Tail(wire) /\ Head(wire).kind # "text"
        /\ UNCHANGED <<said, agent, text, last>> /\ FailPending
    BY <1>6 DEF ReadOverrun, Reads, Consume
  <2> QED BY <1>5, <2>1, ReadOtherKeepsText
<1>7. CASE ReaderEnds
  <2>1. wire' = <<>> /\ UNCHANGED <<said, agent, text, last>> /\ FailPending
    BY <1>7 DEF ReaderEnds
  <2>2. \A i \in Turns : TextOf(i) \notin Range(wire') /\ Count(TextOf(i), wire') = 0
                         /\ NoneAfter(Line("result", i), TextOf(i), wire')
    BY <2>1, RangeOfEmpty, EmptyCountsNothing
  <2>3. SaidInOrder'
    BY <2>1, <2>2 DEF TextInv, SaidInOrder
  <2>4. NewestIsWhole'
    <3>1. \A i \in Turns : reply'[i] # "waiting"
      BY <1>5, <2>1
    <3>2. ASSUME NEW i \in Turns, i = last', reply'[i] \in {"starting", "waiting", "result"}
          PROVE  text'[i] + Count(TextOf(i), wire') = said'[i]
      <4>1. reply[i] \in {"starting", "result"}
        BY <1>5, <2>1, <3>2
      <4>2. TextOf(i) \notin Range(wire)
        BY <4>1 DEF TurnInv, Numbered, TextInv, SaidInOrder
      <4>3. Count(TextOf(i), wire) = 0
        BY <1>1, <4>2, CountIsNat DEF TextTypes
      <4>4. text[i] + Count(TextOf(i), wire) = said[i]
        BY <2>1, <3>2, <4>1 DEF TextInv, NewestIsWhole
      <4> QED BY <2>1, <2>2, <4>3, <4>4
    <3> QED BY <3>1, <3>2 DEF NewestIsWhole
  <2>5. OthersWereGivenUp'
    <3> SUFFICES ASSUME NEW j \in Turns, text[j] > 0, j # last PROVE reply'[j] \in {"cancelled", "error"}
      BY <2>1 DEF OthersWereGivenUp
    <3> QED BY <1>5, <2>1 DEF TextInv, OthersWereGivenUp
  <2> QED BY <2>3, <2>4, <2>5 DEF TextInv
<1> QED BY <1>2, <1>3, <1>4, <1>6, <1>7 DEF ReaderStep

\* Every step keeps the text in order,
LEMMA TextStep == TurnInv /\ TextInv /\ [Next]_vars => TextInv'
<1> SUFFICES ASSUME TurnInv, TextInv, [Next]_vars PROVE TextInv'
  OBVIOUS
<1>1. CASE BeginPrompt
  BY <1>1, BeginKeepsText
<1>2. CASE AgentStep
  BY <1>2, AgentKeepsText
<1>3. CASE ReaderStep \/ ReaderEnds
  BY <1>3, ReaderKeepsText
<1>4. CASE ClientStep /\ ~BeginPrompt
  BY <1>4, TurnsKeepText DEF ClientStep
<1>5. CASE OpStep
  BY <1>5, TurnsKeepText DEF OpStep
<1>6. CASE \/ ElicitStep \/ PermissionExpires \/ UNCHANGED vars
           \/ \E t \in Tasks : CancelStep(t)
           \/ \E i \in Turns : SendPrompt(i)
  BY <1>6, TurnsKeepText
<1> QED BY <1>1, <1>2, <1>3, <1>4, <1>5, <1>6 DEF Next

\* and nothing is said before the first turn.
LEMMA TextInit == Init => TextInv
<1> SUFFICES ASSUME Init PROVE TextInv
  OBVIOUS
<1>1. /\ wire = <<>> /\ last = 0 /\ text = [i \in Turns |-> 0] /\ said = [i \in Turns |-> 0]
      /\ reply = [i \in Turns |-> "none"]
  BY DEF Init
<1>2. \A i \in Turns : TextOf(i) \notin Range(wire) /\ NoneAfter(Line("result", i), TextOf(i), wire)
  BY <1>1, RangeOfEmpty, EmptyCountsNothing
<1> QED BY <1>1, <1>2 DEF TextInv, SaidInOrder, NewestIsWhole, OthersWereGivenUp

\* The result of a turn carries every chunk that the agent sent for it, and
\* text of other turns only if those were given up while the agent was still
\* at work on them.
THEOREM ResultsAreWhole == Spec => WholeText
<1>1. ASSUME TurnInv, TextInv, NEW i \in Turns, pc["op"] = "wait", OpTurn = i, reply[i] = "result"
      PROVE  ReturnedText(i)
  <2>1. i = last
    BY <1>1 DEF TurnInv, OpWaits, OpTurn
  <2>2. Count(TextOf(i), wire) = 0
    BY <1>1, TypesOfText, CountIsNat DEF TurnInv, TextTypes, TextInv, SaidInOrder
  <2>3. text[i] \in Nat /\ text[i] + Count(TextOf(i), wire) = said[i]
    BY <1>1, <2>1, TypesOfText DEF TurnInv, TextTypes, TextInv, NewestIsWhole
  <2>4. text[i] = said[i]
    BY <2>2, <2>3
  <2> QED BY <1>1, <2>1, <2>4 DEF ReturnedText, TextInv, OthersWereGivenUp
<1>2. TurnInv /\ TextInv =>
        [\A i \in Turns : pc["op"] = "wait" /\ pc'["op"] = "idle" /\ OpTurn = i /\ reply[i] = "result"
                            => ReturnedText(i)]_vars
  BY <1>1
<1> QED BY <1>2, TextInit, TextStep, TurnInvariance, PTL DEF Spec, WholeText
====
