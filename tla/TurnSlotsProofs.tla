---- MODULE TurnSlotsProofs ----
(***************************************************************************)
(* Proofs about TurnSlots for every finite set of sessions and every       *)
(* max_concurrency.  SlotInv is inductive: the count of permits needs the  *)
(* places of a session to be disjoint, and the absence of lost wake-ups    *)
(* needs nothing else.                                                     *)
(***************************************************************************)
EXTENDS TurnSlots, SequenceTheorems, FiniteSetTheorems, TLAPS

\* The variables' types without the bound on free, which the count gives.
SlotTypes == /\ free \in Nat
             /\ waiters \in Seq(Sessions)
             /\ granted \in SUBSET Sessions
             /\ held \in SUBSET Sessions

\* The inductive invariant.
SlotInv == /\ SlotTypes
           /\ SlotConservation
           /\ OnePlacePerSession
           /\ NoLostWakeup

\* A subset of the sessions is finite and its size is a natural number: what
\* counting permits rests on.
LEMMA SubsetsAreFinite ==
  ASSUME NEW S \in SUBSET Sessions
  PROVE  IsFiniteSet(S) /\ Cardinality(S) \in Nat
  BY SlotsAssumption, FS_Subset, FS_CardinalityType

\* Tail drops exactly the head of a queue without repetitions.
LEMMA TailOfQueue ==
  ASSUME NEW q \in Seq(Sessions), q # <<>>,
         \A i, j \in DOMAIN q : q[i] = q[j] => i = j
  PROVE  /\ Tail(q) \in Seq(Sessions)
         /\ Head(q) \in Sessions
         /\ \A i, j \in DOMAIN Tail(q) : Tail(q)[i] = Tail(q)[j] => i = j
         /\ ToSet(Tail(q)) = ToSet(q) \ {Head(q)}
         /\ Head(q) \in ToSet(q)
<1>1. /\ Tail(q) \in Seq(Sessions)
      /\ Head(q) \in Sessions
      /\ Len(Tail(q)) = Len(q) - 1
      /\ Len(q) \in Nat \ {0}
      /\ DOMAIN q = 1 .. Len(q)
      /\ DOMAIN Tail(q) = 1 .. (Len(q) - 1)
  BY HeadTailProperties, EmptySeq, LenProperties
<1>2. \A i \in DOMAIN Tail(q) : i + 1 \in DOMAIN q /\ Tail(q)[i] = q[i + 1]
  BY <1>1
<1>3. Head(q) = q[1] /\ 1 \in DOMAIN q
  BY <1>1
<1>4. \A i, j \in DOMAIN Tail(q) : Tail(q)[i] = Tail(q)[j] => i = j
  <2> SUFFICES ASSUME NEW i \in DOMAIN Tail(q), NEW j \in DOMAIN Tail(q),
                      Tail(q)[i] = Tail(q)[j]
               PROVE  i = j
    OBVIOUS
  <2>1. q[i + 1] = q[j + 1] /\ i + 1 \in DOMAIN q /\ j + 1 \in DOMAIN q
    BY <1>2
  <2>2. i + 1 = j + 1
    BY <2>1
  <2> QED BY <2>2, <1>1
<1>5. {Tail(q)[i] : i \in DOMAIN Tail(q)} \subseteq {q[i] : i \in DOMAIN q} \ {Head(q)}
  <2> SUFFICES ASSUME NEW i \in DOMAIN Tail(q)
               PROVE  Tail(q)[i] \in {q[k] : k \in DOMAIN q} /\ Tail(q)[i] # Head(q)
    OBVIOUS
  <2>1. i + 1 # 1
    BY <1>1
  <2> QED BY <1>2, <1>3, <2>1
<1>6. {q[i] : i \in DOMAIN q} \ {Head(q)} \subseteq {Tail(q)[i] : i \in DOMAIN Tail(q)}
  <2> SUFFICES ASSUME NEW i \in DOMAIN q, q[i] # Head(q)
               PROVE  q[i] \in {Tail(q)[k] : k \in DOMAIN Tail(q)}
    OBVIOUS
  <2>1. i # 1
    BY <1>3
  <2>2. i - 1 \in DOMAIN Tail(q) /\ (i - 1) + 1 = i
    BY <2>1, <1>1
  <2>3. Tail(q)[i - 1] = q[i]
    BY <2>2, <1>2
  <2> QED BY <2>2, <2>3
<1> QED BY <1>1, <1>3, <1>4, <1>5, <1>6 DEF ToSet

\* Taking entry k out of a queue without repetitions removes that session.
LEMMA RemoveFromQueue ==
  ASSUME NEW q \in Seq(Sessions), NEW k \in DOMAIN q,
         \A i, j \in DOMAIN q : q[i] = q[j] => i = j,
         NEW r, r = RemoveAt(q, k)
  PROVE  /\ r \in Seq(Sessions)
         /\ \A i, j \in DOMAIN r : r[i] = r[j] => i = j
         /\ ToSet(r) = ToSet(q) \ {q[k]}
<1> DEFINE a == SubSeq(q, 1, k - 1)
           b == SubSeq(q, k + 1, Len(q))
           old(i) == IF i < k THEN i ELSE i + 1
<1>1. /\ Len(q) \in Nat
      /\ DOMAIN q = 1 .. Len(q)
      /\ k \in 1 .. Len(q)
      /\ \A i \in 1 .. Len(q) : q[i] \in Sessions
  BY LenProperties, ElementOfSeq
<1>2. /\ a \in Seq(Sessions)
      /\ Len(a) = k - 1
      /\ \A i \in 1 .. k - 1 : a[i] = q[i]
  <2>1. 1 \in Int /\ k - 1 \in Int /\ \A i \in 1 .. k - 1 : q[i] \in Sessions
    BY <1>1
  <2>2. /\ a \in Seq(Sessions)
        /\ Len(a) = IF 1 <= k - 1 THEN (k - 1) - 1 + 1 ELSE 0
        /\ \A i \in 1 .. (k - 1) - 1 + 1 : a[i] = q[1 + i - 1]
    BY <2>1, SubSeqProperties
  <2> QED BY <2>2, <1>1
<1>3. /\ b \in Seq(Sessions)
      /\ Len(b) = Len(q) - k
      /\ \A i \in 1 .. Len(q) - k : b[i] = q[k + i]
  <2>1. k + 1 \in Int /\ Len(q) \in Int /\ \A i \in k + 1 .. Len(q) : q[i] \in Sessions
    BY <1>1
  <2>2. /\ b \in Seq(Sessions)
        /\ Len(b) = IF k + 1 <= Len(q) THEN Len(q) - (k + 1) + 1 ELSE 0
        /\ \A i \in 1 .. Len(q) - (k + 1) + 1 : b[i] = q[(k + 1) + i - 1]
    BY <2>1, SubSeqProperties
  <2> QED BY <2>2, <1>1
<1>4. /\ r \in Seq(Sessions)
      /\ Len(r) = Len(a) + Len(b)
      /\ \A i \in 1 .. Len(a) + Len(b) : r[i] = IF i <= Len(a) THEN a[i] ELSE b[i - Len(a)]
  <2>1. r = a \o b
    BY DEF RemoveAt
  <2> HIDE DEF a, b
  <2>2. /\ a \o b \in Seq(Sessions)
        /\ Len(a \o b) = Len(a) + Len(b)
        /\ \A i \in 1 .. Len(a) + Len(b) :
             (a \o b)[i] = IF i <= Len(a) THEN a[i] ELSE b[i - Len(a)]
    BY <1>2, <1>3, ConcatProperties
  <2> QED BY <2>1, <2>2, Zenon
<1> HIDE DEF a, b
<1>6. DOMAIN r = 1 .. (Len(q) - 1)
  BY <1>1, <1>2, <1>3, <1>4, LenProperties
<1>7. ASSUME NEW i \in DOMAIN r
      PROVE  r[i] = q[old(i)]
  <2>1. i \in Int /\ 1 <= i /\ i <= Len(q) - 1 /\ k \in Int /\ 1 <= k /\ k <= Len(q)
    BY <1>1, <1>6
  <2>2. r[i] = IF i <= k - 1 THEN a[i] ELSE b[i - (k - 1)]
    BY <2>1, <1>1, <1>2, <1>3, <1>4
  <2>3. CASE i < k
    BY <2>1, <2>2, <2>3, <1>2
  <2>4. CASE i >= k
    <3> DEFINE m == i - (k - 1)
    <3>1. m \in 1 .. Len(q) - k /\ k + m = i + 1 /\ r[i] = b[m]
      BY <2>1, <2>2, <2>4, <1>1
    <3> HIDE DEF m
    <3>2. r[i] = q[i + 1]
      BY <3>1, <1>3
    <3> QED BY <3>2, <2>1, <2>4
  <2> QED BY <2>1, <2>3, <2>4
<1>8. \A i \in DOMAIN r : old(i) \in DOMAIN q /\ old(i) # k
  BY <1>1, <1>6
<1>9. \A i, j \in DOMAIN r : old(i) = old(j) => i = j
  BY <1>1, <1>6
<1>10. \A i \in DOMAIN q : i # k => \E j \in DOMAIN r : old(j) = i
  <2> SUFFICES ASSUME NEW i \in DOMAIN q, i # k
               PROVE  \E j \in DOMAIN r : old(j) = i
    OBVIOUS
  <2>1. CASE i < k
    <3>1. i \in DOMAIN r /\ old(i) = i
      BY <2>1, <1>1, <1>6
    <3> QED BY <3>1
  <2>2. CASE i > k
    <3>1. i - 1 \in DOMAIN r /\ old(i - 1) = i
      BY <2>2, <1>1, <1>6
    <3> QED BY <3>1
  <2> QED BY <2>1, <2>2, <1>1
<1> HIDE DEF old
<1>11. \A i, j \in DOMAIN r : r[i] = r[j] => i = j
  BY <1>7, <1>8, <1>9
<1>12. {r[i] : i \in DOMAIN r} \subseteq {q[i] : i \in DOMAIN q} \ {q[k]}
  BY <1>7, <1>8
<1>13. {q[i] : i \in DOMAIN q} \ {q[k]} \subseteq {r[i] : i \in DOMAIN r}
  BY <1>7, <1>10
<1> QED BY <1>4, <1>11, <1>12, <1>13 DEF ToSet

\* A release with one permit unaccounted for restores the invariant, whether
\* the permit goes back to the semaphore or to the first waiter.
LEMMA HandOverKeepsInv ==
  ASSUME SlotTypes, OnePlacePerSession, NoLostWakeup,
         NEW g \in SUBSET granted, NEW h \in SUBSET held,
         free + Cardinality(g) + Cardinality(h) = MaxConcurrency - 1,
         HandOver(g), held' = h
  PROVE  SlotInv'
<1>1. /\ IsFiniteSet(g) /\ Cardinality(g) \in Nat
      /\ IsFiniteSet(h) /\ Cardinality(h) \in Nat
      /\ g \subseteq Sessions /\ h \subseteq Sessions
      /\ MaxConcurrency \in Nat
  BY SubsetsAreFinite, SlotsAssumption DEF SlotTypes
<1>2. CASE waiters = <<>>
  <2>1. free' = free + 1 /\ granted' = g /\ waiters' = <<>>
    BY <1>2 DEF HandOver
  <2>2. SlotTypes' /\ NoLostWakeup' /\ SlotConservation'
    BY <2>1, <1>1, EmptySeq DEF SlotTypes, NoLostWakeup, SlotConservation
  <2>3. OnePlacePerSession'
    BY <2>1, <1>2 DEF OnePlacePerSession, Queued
  <2> QED BY <2>2, <2>3 DEF SlotInv
<1>3. CASE waiters # <<>>
  <2>1. free' = free /\ granted' = g \cup {Head(waiters)} /\ waiters' = Tail(waiters)
    BY <1>3 DEF HandOver
  <2>2. /\ Tail(waiters) \in Seq(Sessions)
        /\ Head(waiters) \in Sessions
        /\ \A i, j \in DOMAIN Tail(waiters) :
             Tail(waiters)[i] = Tail(waiters)[j] => i = j
        /\ ToSet(Tail(waiters)) = Queued \ {Head(waiters)}
        /\ Head(waiters) \in Queued
    BY <1>3, TailOfQueue DEF SlotTypes, OnePlacePerSession, Queued
  <2>3. Queued' = Queued \ {Head(waiters)}
    BY <2>1, <2>2 DEF Queued
  <2>4. free = 0
    BY <1>3 DEF NoLostWakeup, SlotTypes
  <2>5. Head(waiters) \notin g
    BY <2>2 DEF OnePlacePerSession
  <2>6. Cardinality(granted') = Cardinality(g) + 1
    BY <2>1, <2>5, <1>1, FS_AddElement
  <2>7. SlotTypes' /\ NoLostWakeup'
    BY <2>1, <2>2, <2>4, <1>1 DEF SlotTypes, NoLostWakeup
  <2>8. SlotConservation'
    BY <2>1, <2>6, <1>1 DEF SlotConservation, SlotTypes
  <2>9. OnePlacePerSession'
    BY <2>1, <2>2, <2>3 DEF OnePlacePerSession
  <2> QED BY <2>7, <2>8, <2>9 DEF SlotInv
<1> QED BY <1>2, <1>3

\* The invariant holds while all permits are in the semaphore.
LEMMA SlotInitInv == SlotInit => SlotInv
<1> SUFFICES ASSUME SlotInit PROVE SlotInv
  OBVIOUS
<1>1. free = MaxConcurrency /\ waiters = <<>> /\ granted = {} /\ held = {}
  BY DEF SlotInit
<1>2. Cardinality({}) = 0
  BY FS_EmptySet
<1>3. SlotTypes
  BY <1>1, SlotsAssumption, EmptySeq DEF SlotTypes
<1>4. SlotConservation
  BY <1>1, <1>2, SlotsAssumption DEF SlotConservation
<1> QED BY <1>1, <1>3, <1>4 DEF SlotInv, OnePlacePerSession, NoLostWakeup, Queued

\* Taking a free permit keeps the invariant.
LEMMA TakeSlotKeepsInv ==
  ASSUME SlotInv, NEW s \in Sessions, s \notin Queued \cup granted, TakeSlot(s)
  PROVE  SlotInv'
<1>1. /\ free' = free - 1 /\ held' = held \cup {s} /\ waiters' = waiters
      /\ granted' = granted /\ free \in Nat /\ free > 0 /\ waiters = <<>> /\ s \notin held
  BY DEF SlotInv, SlotTypes, TakeSlot, Available
<1>2. /\ IsFiniteSet(held) /\ Cardinality(held) \in Nat /\ Cardinality(granted) \in Nat
  BY SubsetsAreFinite DEF SlotInv, SlotTypes
<1>3. Cardinality(held') = Cardinality(held) + 1
  BY <1>1, <1>2, FS_AddElement
<1>4. SlotTypes' /\ NoLostWakeup'
  BY <1>1 DEF SlotInv, SlotTypes, NoLostWakeup
<1>5. SlotConservation'
  BY <1>1, <1>2, <1>3, SlotsAssumption DEF SlotInv, SlotConservation
<1>6. OnePlacePerSession'
  BY <1>1 DEF SlotInv, OnePlacePerSession, Queued
<1> QED BY <1>4, <1>5, <1>6 DEF SlotInv

\* So does queueing at the end, of a session that was in none of the places.
LEMMA JoinQueueKeepsInv ==
  ASSUME SlotInv, NEW s \in Sessions, s \notin Queued \cup granted, JoinQueue(s)
  PROVE  SlotInv'
<1>1. /\ waiters' = Append(waiters, s) /\ free' = free /\ granted' = granted
      /\ held' = held /\ s \notin held /\ ~Available
  BY DEF JoinQueue
<1>2. /\ Append(waiters, s) \in Seq(Sessions)
      /\ DOMAIN waiters = 1 .. Len(waiters) /\ Len(waiters) \in Nat
      /\ DOMAIN Append(waiters, s) = 1 .. (Len(waiters) + 1)
      /\ \A i \in 1 .. Len(waiters) : Append(waiters, s)[i] = waiters[i]
      /\ Append(waiters, s)[Len(waiters) + 1] = s
  BY AppendProperties, LenProperties DEF SlotInv, SlotTypes
<1>3. free = 0
  BY <1>1 DEF SlotInv, SlotTypes, NoLostWakeup, Available
<1>4. \A i \in DOMAIN waiters : waiters[i] # s
  BY DEF Queued, ToSet
<1>5. Queued' = Queued \cup {s}
  BY <1>1, <1>2 DEF Queued, ToSet
<1>6. \A i, j \in DOMAIN waiters' : waiters'[i] = waiters'[j] => i = j
  BY <1>1, <1>2, <1>4 DEF SlotInv, OnePlacePerSession
<1>7. OnePlacePerSession'
  BY <1>1, <1>5, <1>6 DEF SlotInv, OnePlacePerSession
<1>8. SlotTypes' /\ NoLostWakeup' /\ SlotConservation'
  BY <1>1, <1>2, <1>3 DEF SlotInv, SlotTypes, NoLostWakeup, SlotConservation
<1> QED BY <1>7, <1>8 DEF SlotInv

\* An acquire that runs on turns its grant into a held slot.
LEMMA ResumeKeepsInv ==
  ASSUME SlotInv, NEW s \in Sessions, Resume(s)
  PROVE  SlotInv'
<1>1. /\ s \in granted /\ granted' = granted \ {s} /\ held' = held \cup {s}
      /\ free' = free /\ waiters' = waiters /\ s \notin held
  BY DEF Resume, SlotInv, OnePlacePerSession
<1>2. /\ IsFiniteSet(held) /\ Cardinality(held) \in Nat
      /\ IsFiniteSet(granted) /\ Cardinality(granted) \in Nat
  BY SubsetsAreFinite DEF SlotInv, SlotTypes
<1>3. /\ Cardinality(held') = Cardinality(held) + 1
      /\ Cardinality(granted') = Cardinality(granted) - 1
  BY <1>1, <1>2, FS_AddElement, FS_RemoveElement
<1>4. SlotConservation'
  BY <1>1, <1>2, <1>3 DEF SlotInv, SlotTypes, SlotConservation
<1>5. Queued' = Queued
  BY <1>1 DEF Queued
<1>6. OnePlacePerSession'
  BY <1>1, <1>5 DEF SlotInv, OnePlacePerSession
<1>7. SlotTypes' /\ NoLostWakeup'
  BY <1>1 DEF SlotInv, SlotTypes, NoLostWakeup
<1> QED BY <1>4, <1>6, <1>7 DEF SlotInv

\* A queued acquire that gives up leaves the queue.
LEMMA WithdrawQueuedKeepsInv ==
  ASSUME SlotInv, NEW s \in Sessions, WithdrawQueued(s)
  PROVE  SlotInv' /\ Queued' = Queued \ {s}
<1>1. PICK k \in DOMAIN waiters : waiters[k] = s /\ waiters' = RemoveAt(waiters, k)
  BY DEF WithdrawQueued
<1>2. /\ waiters' \in Seq(Sessions)
      /\ \A i, j \in DOMAIN waiters' : waiters'[i] = waiters'[j] => i = j
      /\ ToSet(waiters') = ToSet(waiters) \ {waiters[k]}
  <2>1. waiters \in Seq(Sessions) /\ \A i, j \in DOMAIN waiters : waiters[i] = waiters[j] => i = j
    BY DEF SlotInv, SlotTypes, OnePlacePerSession
  <2>2. waiters' = RemoveAt(waiters, k)
    BY <1>1
  <2> QED BY <2>1, <2>2, RemoveFromQueue
<1>3. free' = free /\ granted' = granted /\ held' = held
  BY DEF WithdrawQueued
<1>4. Queued' = Queued \ {s}
  BY <1>1, <1>2 DEF Queued
<1>5. OnePlacePerSession'
  BY <1>2, <1>3, <1>4 DEF SlotInv, OnePlacePerSession
<1>6. waiters # <<>>
  BY <1>1
<1>7. SlotTypes' /\ NoLostWakeup' /\ SlotConservation'
  BY <1>2, <1>3, <1>6 DEF SlotInv, SlotTypes, NoLostWakeup, SlotConservation
<1> QED BY <1>4, <1>5, <1>7 DEF SlotInv

\* One that gives up after it was handed a permit passes the permit on.
LEMMA WithdrawGrantedKeepsInv ==
  ASSUME SlotInv, NEW s \in Sessions, WithdrawGranted(s)
  PROVE  SlotInv'
<1>1. s \in granted /\ HandOver(granted \ {s}) /\ held' = held
  BY DEF WithdrawGranted
<1>2. /\ IsFiniteSet(granted) /\ Cardinality(granted) \in Nat /\ Cardinality(held) \in Nat
  BY SubsetsAreFinite DEF SlotInv, SlotTypes
<1>3. Cardinality(granted \ {s}) = Cardinality(granted) - 1
  BY <1>1, <1>2, FS_RemoveElement
<1>4. free + Cardinality(granted \ {s}) + Cardinality(held) = MaxConcurrency - 1
  BY <1>2, <1>3, SlotsAssumption DEF SlotInv, SlotTypes, SlotConservation
<1>5. granted \ {s} \in SUBSET granted /\ held \in SUBSET held
  OBVIOUS
<1> QED BY <1>1, <1>4, <1>5, HandOverKeepsInv DEF SlotInv

\* A release gives its permit back or to the first waiter.
LEMMA ReleaseSlotKeepsInv ==
  ASSUME SlotInv, NEW s \in Sessions, ReleaseSlot(s)
  PROVE  SlotInv'
<1>1. s \in held /\ HandOver(granted) /\ held' = held \ {s}
  BY DEF ReleaseSlot
<1>2. /\ IsFiniteSet(held) /\ Cardinality(granted) \in Nat /\ Cardinality(held) \in Nat
  BY SubsetsAreFinite DEF SlotInv, SlotTypes
<1>3. Cardinality(held \ {s}) = Cardinality(held) - 1
  BY <1>1, <1>2, FS_RemoveElement
<1>4. free + Cardinality(granted) + Cardinality(held \ {s}) = MaxConcurrency - 1
  BY <1>2, <1>3, SlotsAssumption DEF SlotInv, SlotTypes, SlotConservation
<1>5. held \ {s} \in SUBSET held /\ granted \in SUBSET granted
  OBVIOUS
<1> QED BY <1>1, <1>4, <1>5, HandOverKeepsInv DEF SlotInv

\* The inductive step.
LEMMA SlotStepInv == SlotInv /\ [SlotNext]_slots => SlotInv'
<1> SUFFICES ASSUME SlotInv, [SlotNext]_slots PROVE SlotInv'
  OBVIOUS
<1>1. CASE UNCHANGED slots
  BY <1>1 DEF SlotInv, SlotTypes, SlotConservation, OnePlacePerSession, NoLostWakeup,
              Queued, slots
<1>2. CASE SlotNext
  <2>1. PICK s \in Sessions :
          \/ s \notin Queued \cup granted /\ TakeSlot(s)
          \/ s \notin Queued \cup granted /\ JoinQueue(s)
          \/ Resume(s)
          \/ Withdraw(s)
          \/ ReleaseSlot(s)
    BY <1>2 DEF SlotNext
  <2>2. CASE s \notin Queued \cup granted /\ TakeSlot(s)
    BY <2>2, TakeSlotKeepsInv
  <2>3. CASE s \notin Queued \cup granted /\ JoinQueue(s)
    BY <2>3, JoinQueueKeepsInv
  <2>4. CASE Resume(s)
    BY <2>4, ResumeKeepsInv
  <2>5. CASE Withdraw(s)
    BY <2>5, WithdrawQueuedKeepsInv, WithdrawGrantedKeepsInv DEF Withdraw
  <2>6. CASE ReleaseSlot(s)
    BY <2>6, ReleaseSlotKeepsInv
  <2> QED BY <2>1, <2>2, <2>3, <2>4, <2>5, <2>6
<1> QED BY <1>1, <1>2

\* Every reachable state of the slots satisfies the inductive invariant.
THEOREM SlotInvariant == SlotSpec => []SlotInv
<1> QED BY SlotInitInv, SlotStepInv, PTL DEF SlotSpec

\* The semaphore of any size never loses or makes up a permit, and never holds
\* more than it started with.
THEOREM SlotsConserved == SlotSpec => [](SlotConservation /\ SlotTypeOK)
<1>1. SlotInv => SlotConservation /\ SlotTypeOK
  <2> SUFFICES ASSUME SlotInv PROVE SlotTypeOK
    BY DEF SlotInv
  <2>1. free \in Nat /\ Cardinality(granted) \in Nat /\ Cardinality(held) \in Nat
    BY SubsetsAreFinite DEF SlotInv, SlotTypes
  <2>2. free <= MaxConcurrency /\ MaxConcurrency \in Nat
    BY <2>1, SlotsAssumption DEF SlotInv, SlotConservation
  <2> QED BY <2>1, <2>2 DEF SlotInv, SlotTypes, SlotTypeOK
<1> QED BY <1>1, SlotInvariant, PTL

\* Every variable keeps its type, and the semaphore its bound.
THEOREM SlotsTypeCorrect == SlotSpec => []SlotTypeOK
BY SlotsConserved, PTL

\* No session ever has two permits, or one while it queues for another.
THEOREM OnePlace == SlotSpec => []OnePlacePerSession
<1>1. SlotInv => OnePlacePerSession
  BY DEF SlotInv
<1> QED BY <1>1, SlotInvariant, PTL

\* Nobody waits while a permit is free.
THEOREM WakeupsNotLost == SlotSpec => []NoLostWakeup
<1>1. SlotInv => NoLostWakeup
  BY DEF SlotInv
<1> QED BY <1>1, SlotInvariant, PTL

\* What a release or a withdrawal hands over goes to the first in the queue.
LEMMA OnlyHeadIsServed ==
  ASSUME SlotInv, [SlotNext]_slots,
         NEW j \in DOMAIN waiters, waiters[j] \in granted' \cup held'
  PROVE  j = 1
<1>1. waiters[j] \in Queued /\ waiters[j] \notin granted \cup held /\ waiters # <<>>
  BY DEF SlotInv, SlotTypes, OnePlacePerSession, Queued, ToSet
<1>2. PICK g \in SUBSET granted : granted' = g \cup {Head(waiters)} /\ held' \subseteq held
  <2>1. SlotNext
    BY <1>1 DEF slots
  <2>2. PICK s \in Sessions : TakeSlot(s) \/ JoinQueue(s) \/ Resume(s) \/ Withdraw(s) \/ ReleaseSlot(s)
    BY <2>1 DEF SlotNext
  <2>3. CASE TakeSlot(s) \/ JoinQueue(s) \/ Resume(s) \/ WithdrawQueued(s)
    BY <1>1, <2>3 DEF TakeSlot, Available, JoinQueue, Resume, WithdrawQueued
  <2>4. CASE WithdrawGranted(s) \/ ReleaseSlot(s)
    <3>1. PICK g \in SUBSET granted : HandOver(g)
      BY <2>4 DEF WithdrawGranted, ReleaseSlot
    <3>2. held' \subseteq held
      BY <2>4 DEF WithdrawGranted, ReleaseSlot
    <3> QED BY <1>1, <3>1, <3>2 DEF HandOver
  <2> QED BY <2>2, <2>3, <2>4 DEF Withdraw
<1>3. waiters[j] = Head(waiters)
  BY <1>1, <1>2
<1>4. 1 \in DOMAIN waiters /\ Head(waiters) = waiters[1]
  BY <1>1 DEF SlotInv, SlotTypes
<1> QED BY <1>3, <1>4 DEF SlotInv, OnePlacePerSession

\* Slots are handed out in arrival order.
THEOREM ArrivalOrderKept == SlotSpec => NoOvertaking
<1>1. SlotInv /\ [SlotNext]_slots =>
        [\A i, j \in DOMAIN waiters :
           i < j /\ waiters[j] \in granted' \cup held' => waiters[i] \notin Queued']_slots
  <2> SUFFICES ASSUME SlotInv, [SlotNext]_slots, NEW i \in DOMAIN waiters, NEW j \in DOMAIN waiters,
                      i < j, waiters[j] \in granted' \cup held'
               PROVE  FALSE
    OBVIOUS
  <2>1. j = 1
    BY OnlyHeadIsServed
  <2>2. i \in 1..Len(waiters) /\ Len(waiters) \in Nat
    BY DEF SlotInv, SlotTypes
  <2> QED BY <2>1, <2>2
<1> QED BY <1>1, SlotInvariant, PTL DEF SlotSpec, NoOvertaking

\* The sessions that use a slot, as the abstract pool sees them.
Users == granted \cup held

\* Giving a permit back is a Give or a Pass of the pool: s is the session that
\* stops using it, and it leaves the grants g and the holders.
LEMMA HandOverIsPoolStep ==
  ASSUME SlotInv, NEW s \in Users, NEW g, HandOver(g),
         g \cup held' = Users \ {s}
  PROVE  Pool!Give(s) \/ \E r \in Sessions : Pool!Pass(s, r)
<1>1. CASE waiters = <<>>
  <2>1. granted' \cup held' = (granted \cup held) \ {s}
    BY <1>1 DEF HandOver, Users
  <2> QED BY <2>1 DEF Pool!Give, Users
<1>2. CASE waiters # <<>>
  <2>1. granted' = g \cup {Head(waiters)}
    BY <1>2 DEF HandOver
  <2>2. Head(waiters) \in Queued /\ Head(waiters) \in Sessions
    BY <1>2, TailOfQueue DEF SlotInv, SlotTypes, OnePlacePerSession, Queued
  <2>3. Head(waiters) \notin granted \cup held
    BY <2>2 DEF SlotInv, OnePlacePerSession
  <2>4. granted' \cup held' = ((granted \cup held) \ {s}) \cup {Head(waiters)}
    BY <2>1 DEF Users
  <2>5. Pool!Pass(s, Head(waiters))
    BY <2>3, <2>4 DEF Pool!Pass, Users
  <2> QED BY <2>2, <2>5
<1> QED BY <1>1, <1>2

\* Every step of the slots is a step of the pool or leaves its users alone.
LEMMA SlotStepIsPoolStep == SlotInv /\ [SlotNext]_slots => [Pool!PoolNext]_(granted \cup held)
<1> SUFFICES ASSUME SlotInv, SlotNext, (granted \cup held)' # granted \cup held
             PROVE  Pool!PoolNext
  BY DEF slots
<1>1. PICK s \in Sessions :
        \/ s \notin Queued \cup granted /\ TakeSlot(s)
        \/ s \notin Queued \cup granted /\ JoinQueue(s)
        \/ Resume(s)
        \/ Withdraw(s)
        \/ ReleaseSlot(s)
  BY DEF SlotNext
<1>2. CASE s \notin Queued \cup granted /\ TakeSlot(s)
  <2>1. free > 0 /\ s \notin granted \cup held /\ (granted \cup held)' = (granted \cup held) \cup {s}
    BY <1>2 DEF TakeSlot, Available
  <2>2. /\ IsFiniteSet(granted) /\ Cardinality(granted) \in Nat
        /\ IsFiniteSet(held) /\ Cardinality(held) \in Nat
    BY SubsetsAreFinite DEF SlotInv, SlotTypes
  <2>3. granted \cap held = {} /\ free \in Nat
    BY DEF SlotInv, SlotTypes, OnePlacePerSession
  <2>4. Cardinality(granted \cup held) = Cardinality(granted) + Cardinality(held)
    <3>1. Cardinality(granted \cup held)
            = Cardinality(granted) + Cardinality(held) - Cardinality(granted \cap held)
      BY <2>2, FS_Union
    <3>2. Cardinality(granted \cap held) = 0
      BY <2>3, FS_EmptySet
    <3> QED BY <3>1, <3>2, <2>2
  <2>5. Cardinality(granted \cup held) < MaxConcurrency
    BY <2>1, <2>2, <2>3, <2>4, SlotsAssumption DEF SlotInv, SlotConservation
  <2>6. Pool!Cardinality(granted \cup held) = Cardinality(granted \cup held)
    BY Zenon DEF Cardinality, Pool!Cardinality
  <2>7. Pool!Take(s)
    BY <2>1, <2>5, <2>6 DEF Pool!Take
  <2> QED BY <2>7 DEF Pool!PoolNext
<1>3. CASE s \notin Queued \cup granted /\ JoinQueue(s)
  BY <1>3 DEF JoinQueue
<1>4. CASE Resume(s)
  BY <1>4 DEF Resume
<1>5. CASE Withdraw(s)
  <2>1. CASE WithdrawQueued(s)
    BY <2>1 DEF WithdrawQueued
  <2>2. CASE WithdrawGranted(s)
    <3>1. s \in Users /\ HandOver(granted \ {s}) /\ held' = held /\ s \notin held
      BY <2>2 DEF WithdrawGranted, Users, SlotInv, OnePlacePerSession
    <3>2. (granted \ {s}) \cup held' = Users \ {s}
      BY <3>1 DEF Users
    <3>3. Pool!Give(s) \/ \E r \in Sessions : Pool!Pass(s, r)
      BY <3>1, <3>2, HandOverIsPoolStep
    <3> QED BY <3>3 DEF Pool!PoolNext
  <2> QED BY <1>5, <2>1, <2>2 DEF Withdraw
<1>6. CASE ReleaseSlot(s)
  <2>1. s \in Users /\ HandOver(granted) /\ held' = held \ {s} /\ s \notin granted
    BY <1>6 DEF ReleaseSlot, Users, SlotInv, OnePlacePerSession
  <2>2. granted \cup held' = Users \ {s}
    BY <2>1 DEF Users
  <2>3. Pool!Give(s) \/ \E r \in Sessions : Pool!Pass(s, r)
    BY <2>1, <2>2, HandOverIsPoolStep
  <2> QED BY <2>3 DEF Pool!PoolNext
<1> QED BY <1>1, <1>2, <1>3, <1>4, <1>5, <1>6

\* The semaphore and the turn_slot_held flags implement the abstract pool: at
\* most max_concurrency sessions use a slot, each takes one and gives it back.
THEOREM SlotsImplementPool == SlotSpec => ImplementsPool
<1>1. SlotInit => Pool!PoolInit
  BY DEF SlotInit, Pool!PoolInit
<1> QED BY <1>1, SlotStepIsPoolStep, SlotInvariant, PTL DEF SlotSpec, ImplementsPool, Pool!PoolSpec
====
