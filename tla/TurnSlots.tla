---- MODULE TurnSlots ----
(***************************************************************************)
(* The global turn slots: SessionRegistry.acquire_turn and release_turn    *)
(* over one asyncio.Semaphore.  The semaphore itself is external: it is    *)
(* modelled by its contract, a FIFO of waiters whose head is handed the    *)
(* permit that a release gives back.  A session that was handed a permit   *)
(* runs again only later (Resume): until then its acquire can still time   *)
(* out or be cancelled, and must pass the permit on.                       *)
(***************************************************************************)
EXTENDS Integers, FiniteSets, SequencesExt

CONSTANTS Sessions,       \* the bridge sessions
          MaxConcurrency  \* SessionRegistry.max_concurrency

ASSUME SlotsAssumption == /\ IsFiniteSet(Sessions)
                          /\ MaxConcurrency \in Nat \ {0}

VARIABLES free,     \* Semaphore._value
          waiters,  \* the sessions queued in Semaphore.acquire, in order
          granted,  \* sessions handed a permit whose acquire has not run on
          held      \* the sessions with turn_slot_held

slots == <<free, waiters, granted, held>>

Queued == ToSet(waiters)

SlotInit == /\ free = MaxConcurrency
            /\ waiters = <<>>
            /\ granted = {}
            /\ held = {}

\* A permit is free and nobody is ahead in the queue.
Available == free > 0 /\ waiters = <<>>

\* Mutant: the semaphore is not asked.
TakeSlotUnasked(s) == /\ s \notin held
                      /\ free' = free - 1
                      /\ held' = held \cup {s}
                      /\ UNCHANGED <<waiters, granted>>

\* acquire_turn of a session without a slot: it takes a free permit at once
TakeSlot(s) == /\ s \notin held
               /\ Available
               /\ free' = free - 1
               /\ held' = held \cup {s}
               /\ UNCHANGED <<waiters, granted>>

\* Mutant: the newest waiter is served first.
JoinQueueInFront(s) == /\ s \notin held
                       /\ ~Available
                       /\ waiters' = <<s>> \o waiters
                       /\ UNCHANGED <<free, granted, held>>

\* or waits its turn.
JoinQueue(s) == /\ s \notin held
                /\ ~Available
                /\ waiters' = Append(waiters, s)
                /\ UNCHANGED <<free, granted, held>>

\* Mutant: the grant is used and kept.
ResumeKeepsGrant(s) == /\ s \in granted
                       /\ held' = held \cup {s}
                       /\ UNCHANGED <<free, waiters, granted>>

\* The acquire that was handed a permit runs on: turn_slot_held = True.
Resume(s) == /\ s \in granted
             /\ granted' = granted \ {s}
             /\ held' = held \cup {s}
             /\ UNCHANGED <<free, waiters>>

\* Mutant: the last waiter gets the permit.
HandOverToLast(g) == \/ /\ waiters = <<>>
                        /\ free' = free + 1
                        /\ granted' = g
                        /\ UNCHANGED waiters
                     \/ /\ waiters # <<>>
                        /\ granted' = g \cup {Last(waiters)}
                        /\ waiters' = Front(waiters)
                        /\ UNCHANGED free

\* Semaphore.release: the permit goes to the first waiter, if there is one;
\* g is the set of sessions that keep their grant.
HandOver(g) == \/ /\ waiters = <<>>
                  /\ free' = free + 1
                  /\ granted' = g
                  /\ UNCHANGED waiters
               \/ /\ waiters # <<>>
                  /\ granted' = g \cup {Head(waiters)}
                  /\ waiters' = Tail(waiters)
                  /\ UNCHANGED free

\* wait_for gives the acquire up (timeout or cancellation): a queued session
\* leaves the queue, one already handed a permit returns it.
WithdrawQueued(s) == /\ \E i \in DOMAIN waiters :
                          /\ waiters[i] = s
                          /\ waiters' = RemoveAt(waiters, i)
                     /\ UNCHANGED <<free, granted, held>>

\* Mutant: the permit is returned, but the next waiter is not woken.
WithdrawSilently(s) == /\ s \in granted
                       /\ free' = free + 1
                       /\ granted' = granted \ {s}
                       /\ UNCHANGED <<waiters, held>>

WithdrawGranted(s) == /\ s \in granted
                      /\ HandOver(granted \ {s})
                      /\ UNCHANGED held

Withdraw(s) == WithdrawQueued(s) \/ WithdrawGranted(s)

\* Mutant: turn_slot_held is not looked at.
ReleaseSlotTwice(s) == /\ held' = held \ {s}
                       /\ HandOver(granted)

\* Mutant: turn_slot_held stays set.
ReleaseSlotKept(s) == /\ s \in held
                      /\ UNCHANGED held
                      /\ HandOver(granted)

\* release_turn: nothing happens without a slot.
ReleaseSlot(s) == /\ s \in held
                  /\ held' = held \ {s}
                  /\ HandOver(granted)

\* A session acquires once at a time: its callers hold BridgeSession.lock.
\* The Bridge module shows that its tools keep to this.
SlotNext == \E s \in Sessions :
              \/ s \notin Queued \cup granted /\ TakeSlot(s)
              \/ s \notin Queued \cup granted /\ JoinQueue(s)
              \/ Resume(s)
              \/ Withdraw(s)
              \/ ReleaseSlot(s)

SlotSpec == SlotInit /\ [][SlotNext]_slots

\* Every turn ends, and the event loop runs a task that was woken.
SlotFairSpec == /\ SlotSpec
                /\ \A s \in Sessions : WF_slots(Resume(s)) /\ WF_slots(ReleaseSlot(s))

(***************************************************************************)
(* Properties                                                              *)
(***************************************************************************)
\* Every variable keeps its type; the semaphore never holds more permits than
\* it started with (asyncio.Semaphore would not notice).
SlotTypeOK == /\ free \in 0..MaxConcurrency
              /\ waiters \in Seq(Sessions)
              /\ granted \subseteq Sessions
              /\ held \subseteq Sessions

\* No permit is lost and none is made up: free, handed over and held permits
\* always add up to max_concurrency.
SlotConservation ==
  free + Cardinality(granted) + Cardinality(held) = MaxConcurrency

\* A session is in at most one of the queue, the grants and the holders, and
\* in the queue at most once, so that no session ever owns two permits.
OnePlacePerSession ==
  /\ \A i, j \in DOMAIN waiters : waiters[i] = waiters[j] => i = j
  /\ Queued \cap granted = {}
  /\ Queued \cap held = {}
  /\ granted \cap held = {}

\* No lost wake-up: nobody waits while a permit is free, whatever timeouts
\* and releases happened between the wake-up and the woken task's next step.
NoLostWakeup == free > 0 => waiters = <<>>

\* Slots are handed out in arrival order: a session that gets a slot was not
\* behind another one that is still waiting.
NoOvertaking ==
  [][\A i, j \in DOMAIN waiters :
       i < j /\ waiters[j] \in granted' \cup held' => waiters[i] \notin Queued']_slots

\* While turns end, every prompt that waits for a slot gets one or gives up.
EveryWaiterServed == \A s \in Sessions : s \in Queued ~> s \notin Queued

\* The semaphore and the turn_slot_held flags implement the abstract pool.
Pool == INSTANCE SlotPool WITH users <- granted \cup held
ImplementsPool == Pool!PoolSpec
====
