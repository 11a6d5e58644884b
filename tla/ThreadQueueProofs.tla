------------------------- MODULE ThreadQueueProofs -------------------------
(***************************************************************************)
(* Proofs about ThreadQueue for any finite sets of threads, any items and  *)
(* any number of sends: the lock discipline, that no wake-up is lost, that *)
(* a false return means an empty queue, and that the locking implements    *)
(* the atomic channel.                                                     *)
(***************************************************************************)
EXTENDS ThreadQueue, FiniteSetTheorems, TLAPS

\* Which threads are in which role is all that the label sets depend on.
LEMMA RolesDisjoint ==
    /\ \A p \in Producers : p \in Threads /\ p \notin Consumers
    /\ \A c \in Consumers : c \in Threads /\ c \notin Producers
    /\ \A p \in Clearers : p \in Producers
    /\ \A t \in Threads : t # Free
BY ThreadsAssumption DEF Threads

LEMMA TypeInit == Init => TypeOK /\ MutualExclusion
BY RolesDisjoint DEF Init, TypeOK, MutualExclusion, Critical, Threads,
                     ProducerLabels, ConsumerLabels

\* Types are preserved by every step.
LEMMA TypeStep == TypeOK /\ [Next]_vars => TypeOK'
<1> SUFFICES ASSUME TypeOK, [Next]_vars
             PROVE  TypeOK'
  OBVIOUS
<1> USE RolesDisjoint DEF TypeOK, ProducerLabels, ConsumerLabels
<1>1. ASSUME NEW p \in Producers, SendLock(p) PROVE TypeOK'
  BY <1>1 DEF SendLock, Lock
<1>2. ASSUME NEW p \in Producers, SendPush(p) PROVE TypeOK'
  BY <1>2 DEF SendPush
<1>3. ASSUME NEW p \in Producers, SendNotify(p) PROVE TypeOK'
  BY <1>3 DEF SendNotify, Notify
<1>4. ASSUME NEW t \in Threads, Unlock(t) PROVE TypeOK'
  BY <1>4 DEF Unlock
<1>5. ASSUME NEW p \in Clearers, ClearLock(p) PROVE TypeOK'
  BY <1>5 DEF ClearLock, Lock
<1>6. ASSUME NEW p \in Producers, ClearSwap(p) PROVE TypeOK'
  BY <1>6 DEF ClearSwap
<1>7. ASSUME NEW c \in Consumers, RecvLock(c) PROVE TypeOK'
  BY <1>7 DEF RecvLock, Lock
<1>8. ASSUME NEW c \in Consumers, RecvTake(c) PROVE TypeOK'
  BY <1>8 DEF RecvTake
<1>9. ASSUME NEW c \in Consumers, RecvWait(c) PROVE TypeOK'
  BY <1>9 DEF RecvWait
<1>10. ASSUME NEW c \in Consumers, RecvTimeout(c) PROVE TypeOK'
  BY <1>10 DEF RecvTimeout
<1>11. ASSUME NEW c \in Consumers, RecvRelock(c) PROVE TypeOK'
  BY <1>11 DEF RecvRelock, Lock
<1>12. ASSUME NEW c \in Consumers, Deadline(c) PROVE TypeOK'
  BY <1>12 DEF Deadline
<1>13. ASSUME NEW c \in Consumers, Wake(c) PROVE TypeOK'
  BY <1>13 DEF Wake
<1>14. CASE UNCHANGED vars
  BY <1>14 DEF vars
<1> QED
  BY <1>1, <1>2, <1>3, <1>4, <1>5, <1>6, <1>7, <1>8, <1>9, <1>10, <1>11,
     <1>12, <1>13, <1>14 DEF Next, SendStep, RecvStep

-----------------------------------------------------------------------------

\* The type invariant of the queue and of the threads that use it.
THEOREM TypeCorrect == Spec => []TypeOK
BY TypeInit, TypeStep, PTL DEF Spec

\* A step of a thread under the lock is a step of the one that holds it.
LEMMA MutexStep ==
    TypeOK /\ MutualExclusion /\ [Next]_vars => MutualExclusion'
<1> SUFFICES ASSUME TypeOK, MutualExclusion, [Next]_vars
             PROVE  MutualExclusion'
  OBVIOUS
<1> USE RolesDisjoint DEF TypeOK, MutualExclusion, Critical, ProducerLabels,
                          ConsumerLabels
<1>1. ASSUME NEW p \in Producers, SendLock(p) PROVE MutualExclusion'
  BY <1>1 DEF SendLock, Lock
<1>2. ASSUME NEW p \in Producers, SendPush(p) PROVE MutualExclusion'
  BY <1>2 DEF SendPush
<1>3. ASSUME NEW p \in Producers, SendNotify(p) PROVE MutualExclusion'
  BY <1>3 DEF SendNotify, Notify
<1>4. ASSUME NEW t \in Threads, Unlock(t) PROVE MutualExclusion'
  BY <1>4 DEF Unlock
<1>5. ASSUME NEW p \in Clearers, ClearLock(p) PROVE MutualExclusion'
  BY <1>5 DEF ClearLock, Lock
<1>6. ASSUME NEW p \in Producers, ClearSwap(p) PROVE MutualExclusion'
  BY <1>6 DEF ClearSwap
<1>7. ASSUME NEW c \in Consumers, RecvLock(c) PROVE MutualExclusion'
  BY <1>7 DEF RecvLock, Lock
<1>8. ASSUME NEW c \in Consumers, RecvTake(c) PROVE MutualExclusion'
  BY <1>8 DEF RecvTake
<1>9. ASSUME NEW c \in Consumers, RecvWait(c) PROVE MutualExclusion'
  BY <1>9 DEF RecvWait
<1>10. ASSUME NEW c \in Consumers, RecvTimeout(c) PROVE MutualExclusion'
  BY <1>10 DEF RecvTimeout
<1>11. ASSUME NEW c \in Consumers, RecvRelock(c) PROVE MutualExclusion'
  BY <1>11 DEF RecvRelock, Lock
<1>12. ASSUME NEW c \in Consumers, Deadline(c) PROVE MutualExclusion'
  BY <1>12 DEF Deadline
<1>13. ASSUME NEW c \in Consumers, Wake(c) PROVE MutualExclusion'
  BY <1>13 DEF Wake
<1>14. CASE UNCHANGED vars
  BY <1>14 DEF vars
<1> QED
  BY <1>1, <1>2, <1>3, <1>4, <1>5, <1>6, <1>7, <1>8, <1>9, <1>10, <1>11,
     <1>12, <1>13, <1>14 DEF Next, SendStep, RecvStep

\* mutex_ protects: the thread between a lock and its unlock is the one that
\* holds it, so no two threads are ever in there together.
THEOREM LockDiscipline == Spec => []MutualExclusion
BY TypeInit, TypeStep, MutexStep, PTL DEF Spec

-----------------------------------------------------------------------------
\* No lost wake-up.

LEMMA ComingFinite ==
    IsFiniteSet(Coming) /\ Cardinality(Coming) \in Nat
<1>1. IsFiniteSet(Coming)
  BY ThreadsAssumption, FS_Subset DEF Coming
<1> QED
  BY <1>1, FS_CardinalityType

\* A set of threads with one more, or one less, member.
LEMMA ComingAdd ==
    ASSUME NEW t
    PROVE  t \notin Coming =>
               Cardinality(Coming \cup {t}) = Cardinality(Coming) + 1
BY ComingFinite, FS_AddElement

LEMMA ComingRemove ==
    ASSUME NEW t
    PROVE  /\ IsFiniteSet(Coming \ {t})
           /\ t \in Coming =>
                  Cardinality(Coming \ {t}) = Cardinality(Coming) - 1
BY ComingFinite, FS_RemoveElement

LEMMA WakeupStep ==
    TypeOK /\ NoLostWakeup /\ [Next]_vars => NoLostWakeup'
<1> SUFFICES ASSUME TypeOK, NoLostWakeup, [Next]_vars, waiters' # {}
             PROVE  Len(queue') <= Cardinality(Coming')
  BY DEF NoLostWakeup
<1> USE RolesDisjoint, ComingFinite
    DEF TypeOK, NoLostWakeup, ProducerLabels, ConsumerLabels
<1> DEFINE Goal == Len(queue') <= Cardinality(Coming')
<1>a. ASSUME waiters # {}, queue' = queue, Coming' = Coming PROVE Goal
  BY <1>a
<1>b. ASSUME queue' = <<>>, Cardinality(Coming') \in Nat PROVE Goal
  BY <1>b
<1>1. ASSUME NEW p \in Producers, SendLock(p) PROVE Goal
  BY <1>1, <1>a DEF SendLock, Lock, Coming
<1>2. ASSUME NEW p \in Producers, SendPush(p) PROVE Goal
  <2>1. p \notin Coming /\ Coming' = Coming \cup {p}
    BY <1>2 DEF SendPush, Coming
  <2>2. Len(queue') = Len(queue) + 1 /\ waiters # {}
    BY <1>2 DEF SendPush
  <2> QED
    BY <2>1, <2>2, ComingAdd
<1>3. ASSUME NEW p \in Producers, SendNotify(p) PROVE Goal
  <2>1. PICK c \in waiters : Coming' = (Coming \ {p}) \cup {c}
    BY <1>3 DEF SendNotify, Notify, Coming
  <2>2. p \in Coming /\ c \notin Coming
    BY <1>3, <2>1 DEF SendNotify, Coming
  <2>3. /\ IsFiniteSet(Coming \ {p})
        /\ Cardinality(Coming \ {p}) = Cardinality(Coming) - 1
    BY <2>2, ComingRemove
  <2>4. Cardinality(Coming') = Cardinality(Coming \ {p}) + 1
    BY <2>1, <2>2, <2>3, FS_AddElement
  <2> QED
    BY <1>3, <2>1, <2>3, <2>4 DEF SendNotify
<1>4. ASSUME NEW t \in Threads, Unlock(t) PROVE Goal
  BY <1>4, <1>a DEF Unlock, Coming
<1>5. ASSUME NEW p \in Clearers, ClearLock(p) PROVE Goal
  BY <1>5, <1>a DEF ClearLock, Lock, Coming
<1>6. ASSUME NEW p \in Producers, ClearSwap(p) PROVE Goal
  <2>1. Coming' = Coming
    BY <1>6 DEF ClearSwap, Coming
  <2> QED
    BY <1>6, <2>1, <1>b DEF ClearSwap
<1>7. ASSUME NEW c \in Consumers, RecvLock(c) PROVE Goal
  <2>1. c \notin Coming /\ Coming' = Coming \cup {c}
    BY <1>7 DEF RecvLock, Lock, Coming
  <2> QED
    BY <1>7, <2>1, ComingAdd DEF RecvLock
<1>8. ASSUME NEW c \in Consumers, RecvTake(c) PROVE Goal
  <2>1. c \in Coming /\ Coming' = Coming \ {c}
    BY <1>8 DEF RecvTake, Coming
  <2>2. Len(queue') = Len(queue) - 1 /\ waiters # {}
    BY <1>8 DEF RecvTake
  <2>3. Cardinality(Coming') = Cardinality(Coming) - 1
    BY <2>1, ComingRemove
  <2>4. Len(queue) \in Nat /\ Len(queue) <= Cardinality(Coming)
    BY <2>2
  <2> QED
    BY <2>2, <2>3, <2>4
<1>9. ASSUME NEW c \in Consumers, RecvWait(c) PROVE Goal
  <2>1. Coming' = Coming \ {c}
    BY <1>9 DEF RecvWait, Coming
  <2>2. Cardinality(Coming') \in Nat
    BY <2>1, ComingRemove, FS_CardinalityType
  <2> QED
    BY <1>9, <2>2, <1>b DEF RecvWait
<1>10. ASSUME NEW c \in Consumers, RecvTimeout(c) PROVE Goal
  <2>1. Coming' = Coming \ {c}
    BY <1>10 DEF RecvTimeout, Coming
  <2>2. Cardinality(Coming') \in Nat
    BY <2>1, ComingRemove, FS_CardinalityType
  <2> QED
    BY <1>10, <2>2, <1>b DEF RecvTimeout
<1>11. ASSUME NEW c \in Consumers, RecvRelock(c) PROVE Goal
  BY <1>11, <1>a DEF RecvRelock, Lock, Coming
<1>12. ASSUME NEW c \in Consumers, Deadline(c) PROVE Goal
  BY <1>12, <1>a DEF Deadline, Coming
<1>13. ASSUME NEW c \in Consumers, Wake(c) PROVE Goal
  <2>1. c \notin Coming /\ Coming' = Coming \cup {c}
    BY <1>13 DEF Wake, Coming
  <2> QED
    BY <1>13, <2>1, ComingAdd DEF Wake
<1>14. CASE UNCHANGED vars
  BY <1>14, <1>a DEF vars, Coming
<1> QED
  BY <1>1, <1>2, <1>3, <1>4, <1>5, <1>6, <1>7, <1>8, <1>9, <1>10, <1>11,
     <1>12, <1>13, <1>14 DEF Next, SendStep, RecvStep

\* notify_one() under the lock and the predicate of wait_for lose no wake-up:
\* no receiver sleeps while an item has no thread coming for it.
THEOREM WakeupsKept == Spec => []NoLostWakeup
<1>1. Init => NoLostWakeup
  BY DEF Init, NoLostWakeup
<1> QED
  BY <1>1, TypeInit, TypeStep, WakeupStep, PTL DEF Spec

-----------------------------------------------------------------------------
\* What receive() returns, and the refinement.

LEMMA FalseStep ==
    ASSUME TypeOK, [Next]_vars, NEW c \in Consumers,
           pc[c] # "unlock", pc'[c] = "unlock", value'[c] = None
    PROVE  queue = <<>>
<1> USE RolesDisjoint DEF TypeOK, ProducerLabels, ConsumerLabels
<1>1. ASSUME NEW p \in Producers, SendLock(p) \/ SendStep(p) PROVE FALSE
  BY <1>1 DEF SendLock, Lock, SendStep, SendPush, SendNotify, Notify,
              ClearSwap, Unlock
<1>2. ASSUME NEW p \in Clearers, ClearLock(p) PROVE FALSE
  BY <1>2 DEF ClearLock, Lock
<1>3. ASSUME NEW d \in Consumers, RecvLock(d) \/ RecvStep(d) \/ Deadline(d)
                                  \/ Wake(d)
      PROVE  queue = <<>>
  <2>1. CASE RecvTake(d)
    <3>1. Head(queue) \in Items
      BY <2>1 DEF RecvTake
    <3> QED
      BY <2>1, <3>1, ItemsAssumption DEF RecvTake
  <2>2. CASE RecvTimeout(d)
    BY <2>2 DEF RecvTimeout
  <2> QED
    BY <1>3, <2>1, <2>2 DEF RecvLock, RecvRelock, Lock, RecvStep, RecvWait,
                            Unlock, Deadline, Wake
<1> QED
  BY <1>1, <1>2, <1>3 DEF Next, vars

\* receive() returns false only when the queue is empty at that moment.
THEOREM FalseReturn == Spec => FalseMeansEmpty
<1>1. TypeOK /\ [Next]_vars =>
          [\A c \in Consumers :
              pc[c] # "unlock" /\ pc'[c] = "unlock" /\ value'[c] = None
                 => queue = <<>>]_vars
  BY FalseStep
<1> QED
  BY <1>1, TypeInit, TypeStep, PTL DEF Spec, FalseMeansEmpty

LEMMA RefinesStep ==
    TypeOK /\ [Next]_vars => [Abstract!Next]_(Abstract!chanVars)
<1> SUFFICES ASSUME TypeOK, [Next]_vars
             PROVE  Abstract!Next \/ UNCHANGED <<queue, sent, taken>>
  BY DEF Abstract!chanVars
<1> USE RolesDisjoint DEF TypeOK, Abstract!Next, Abstract!chanVars
<1>1. ASSUME NEW p \in Producers, SendPush(p) PROVE Abstract!Next
  BY <1>1 DEF SendPush, Abstract!Send
<1>2. ASSUME NEW p \in Producers, ClearSwap(p) PROVE Abstract!Next
  BY <1>2 DEF ClearSwap, Abstract!Clear
<1>3. ASSUME NEW c \in Consumers, RecvTake(c) PROVE Abstract!Next
  <2>1. Head(queue) \in Items
    BY <1>3 DEF RecvTake
  <2>2. Abstract!Receive(Head(queue))
    BY <1>3 DEF RecvTake, Abstract!Receive
  <2> QED
    BY <2>1, <2>2
<1> QED
  BY <1>1, <1>2, <1>3
  DEF Next, vars, SendStep, RecvStep, SendLock, SendNotify, ClearLock, Unlock,
      RecvLock, RecvWait, RecvRelock, RecvTimeout, Deadline, Wake, Lock

\* The mutex and the condition variable implement the atomic FIFO channel.
THEOREM Refinement == Spec => ImplementsChannel
<1>1. Init => Abstract!Init
  BY DEF Init, Abstract!Init
<1> QED
  BY <1>1, TypeInit, TypeStep, RefinesStep, PTL
  DEF Spec, ImplementsChannel, Abstract!Spec

-----------------------------------------------------------------------------
\* The deadline.

\* A call that is at its first look has its deadline before it.
DeadlineInv == \A c \in Consumers : pc[c] = "check" => c \notin expired

\* What is left of a call whose deadline has passed.
Onward == {<<"wait", "relock">>, <<"relock", "recheck">>,
           <<"recheck", "unlock">>, <<"unlock", "idle">>}

OnlyOnward ==
    \A c \in Consumers :
        c \in expired /\ pc[c] # "idle" =>
            /\ c \in expired'
            /\ pc'[c] = pc[c] \/ <<pc[c], pc'[c]>> \in Onward

LEMMA DeadlineStep ==
    TypeOK /\ DeadlineInv /\ [Next]_vars => DeadlineInv' /\ OnlyOnward
<1> DEFINE Goal == DeadlineInv' /\ OnlyOnward
<1> SUFFICES ASSUME TypeOK, DeadlineInv, [Next]_vars PROVE Goal
  OBVIOUS
<1> USE RolesDisjoint
    DEF TypeOK, DeadlineInv, OnlyOnward, Onward, ProducerLabels, ConsumerLabels
<1>1. ASSUME NEW p \in Producers, SendLock(p) PROVE Goal
  BY <1>1 DEF SendLock, Lock
<1>2. ASSUME NEW p \in Producers, SendPush(p) PROVE Goal
  BY <1>2 DEF SendPush
<1>3. ASSUME NEW p \in Producers, SendNotify(p) PROVE Goal
  BY <1>3 DEF SendNotify, Notify
<1>4. ASSUME NEW t \in Threads, Unlock(t) PROVE Goal
  BY <1>4 DEF Unlock
<1>5. ASSUME NEW p \in Clearers, ClearLock(p) PROVE Goal
  BY <1>5 DEF ClearLock, Lock
<1>6. ASSUME NEW p \in Producers, ClearSwap(p) PROVE Goal
  BY <1>6 DEF ClearSwap
<1>7. ASSUME NEW c \in Consumers, RecvLock(c) PROVE Goal
  BY <1>7 DEF RecvLock, Lock
<1>8. ASSUME NEW c \in Consumers, RecvTake(c) PROVE Goal
  BY <1>8 DEF RecvTake
<1>9. ASSUME NEW c \in Consumers, RecvWait(c) PROVE Goal
  BY <1>9 DEF RecvWait
<1>10. ASSUME NEW c \in Consumers, RecvTimeout(c) PROVE Goal
  BY <1>10 DEF RecvTimeout
<1>11. ASSUME NEW c \in Consumers, RecvRelock(c) PROVE Goal
  BY <1>11 DEF RecvRelock, Lock
<1>12. ASSUME NEW c \in Consumers, Deadline(c) PROVE Goal
  BY <1>12 DEF Deadline
<1>13. ASSUME NEW c \in Consumers, Wake(c) PROVE Goal
  BY <1>13 DEF Wake
<1>14. CASE UNCHANGED vars
  BY <1>14 DEF vars
<1> QED
  BY <1>1, <1>2, <1>3, <1>4, <1>5, <1>6, <1>7, <1>8, <1>9, <1>10, <1>11,
     <1>12, <1>13, <1>14 DEF Next, SendStep, RecvStep

\* What ReceiveReturns rests on: a receive() whose deadline has passed never
\* waits on the condition variable again.  It wakes, takes the lock, looks at
\* the queue once and returns, however often its items are taken by others and
\* whatever they send, clear or notify (ThreadQueue::receive,
\* utils/thread_queue.h:39-47).
THEOREM DeadlineIsFinal == Spec => [][OnlyOnward]_vars
<1>1. Init => DeadlineInv
  BY RolesDisjoint DEF Init, DeadlineInv, Threads
<1> QED
  BY <1>1, TypeInit, TypeStep, DeadlineStep, PTL DEF Spec

=============================================================================
