---------------------------- MODULE ThreadQueue ----------------------------
(***************************************************************************)
(* iot::utils::ThreadQueue<T> (include/utils/thread_queue.h): a std::queue *)
(* guarded by mutex_, with cond_ for receivers.  One action per step that  *)
(* other threads can interleave with: taking the lock, the work done under *)
(* it, releasing it, blocking in wait_for, waking and taking the lock back.*)
(***************************************************************************)
EXTENDS Naturals, Sequences, FiniteSets

CONSTANTS
    Producers,   \* threads that call send()
    Consumers,   \* threads that call receive()
    Clearers,    \* the producers that also call clear()
    Items,       \* the values of type T
    Free,        \* mutex_ is not held
    None,        \* no item in a thread's value
    MaxSends     \* bound: items in `sent` at any time

Threads == Producers \cup Consumers

ASSUME ThreadsAssumption ==
    /\ Producers \cap Consumers = {}
    /\ Clearers \subseteq Producers
    /\ IsFiniteSet(Threads)
    /\ Free \notin Threads

ASSUME ItemsAssumption ==
    /\ None \notin Items
    /\ MaxSends \in Nat

VARIABLES
    queue,       \* queue_
    mutex,       \* the thread that holds mutex_, or Free
    waiters,     \* receivers blocked on cond_
    pc,          \* where each thread is in its call
    value,       \* the argument of send(), the out parameter of receive()
    expired,     \* receivers whose deadline has passed
    sent, taken  \* the histories of Channel

vars == <<queue, mutex, waiters, pc, value, expired, sent, taken>>

ProducerLabels == {"idle", "push", "notify", "clear", "unlock"}
ConsumerLabels == {"idle", "check", "wait", "relock", "recheck", "unlock"}

Init ==
    /\ queue   = <<>>
    /\ mutex   = Free
    /\ waiters = {}
    /\ pc      = [t \in Threads |-> "idle"]
    /\ value   = [t \in Threads |-> None]
    /\ expired = {}
    /\ sent    = <<>>
    /\ taken   = <<>>

-----------------------------------------------------------------------------
\* The mutex.

Lock(t, from, to) ==
    /\ pc[t] = from
    /\ mutex = Free
    /\ mutex' = t
    /\ pc' = [pc EXCEPT ![t] = to]

\* The lock_guard or unique_lock goes out of scope and the call returns.
Unlock(t) ==
    /\ pc[t] = "unlock"
    /\ mutex' = Free
    /\ pc' = [pc EXCEPT ![t] = "idle"]
    /\ UNCHANGED <<queue, waiters, value, expired, sent, taken>>

-----------------------------------------------------------------------------
\* send(value)

SendLock(p) ==
    /\ Len(sent) < MaxSends
    /\ Lock(p, "idle", "push")
    /\ \E v \in Items : value' = [value EXCEPT ![p] = v]
    /\ UNCHANGED <<queue, waiters, expired, sent, taken>>

\* Mutant: the new item overtakes the ones that already wait.
SendPushFront(p) ==
    /\ pc[p] = "push"
    /\ queue' = <<value[p]>> \o queue
    /\ sent'  = Append(sent, value[p])
    /\ value' = [value EXCEPT ![p] = None]
    /\ pc' = [pc EXCEPT ![p] = "notify"]
    /\ UNCHANGED <<mutex, waiters, expired, taken>>

SendPush(p) ==
    /\ pc[p] = "push"
    /\ queue' = Append(queue, value[p])
    /\ sent'  = Append(sent, value[p])
    /\ value' = [value EXCEPT ![p] = None]      \* std::move
    /\ pc' = [pc EXCEPT ![p] = "notify"]
    /\ UNCHANGED <<mutex, waiters, expired, taken>>

\* Mutant: the receiver that was woken stays on the condition variable.
NotifyStale(p) ==
    \/ waiters = {} /\ pc' = [pc EXCEPT ![p] = "unlock"] /\ UNCHANGED waiters
    \/ \E c \in waiters :
          /\ pc' = [pc EXCEPT ![p] = "unlock", ![c] = "relock"]
          /\ UNCHANGED waiters

\* cond_.notify_one(): one blocked receiver, if there is one, goes after the
\* lock.  Which one is up to the condition variable.
Notify(p) ==
    \/ /\ waiters = {}
       /\ pc' = [pc EXCEPT ![p] = "unlock"]
       /\ UNCHANGED waiters
    \/ \E c \in waiters :
          /\ waiters' = waiters \ {c}
          /\ pc' = [pc EXCEPT ![p] = "unlock", ![c] = "relock"]

\* Mutant: only the push that makes the queue non-empty notifies.
SendNotifyFirst(p) ==
    /\ pc[p] = "notify"
    /\ \/ Len(queue) = 1 /\ Notify(p)
       \/ /\ Len(queue) # 1
          /\ pc' = [pc EXCEPT ![p] = "unlock"]
          /\ UNCHANGED waiters
    /\ UNCHANGED <<queue, mutex, value, expired, sent, taken>>

SendNotify(p) ==
    /\ pc[p] = "notify"
    /\ Notify(p)
    /\ UNCHANGED <<queue, mutex, value, expired, sent, taken>>

-----------------------------------------------------------------------------
\* receive(value, timeoutMs)

RecvLock(c) ==
    /\ Lock(c, "idle", "check")
    /\ value'   = [value EXCEPT ![c] = None]
    /\ expired' = expired \ {c}                 \* a fresh deadline
    /\ UNCHANGED <<queue, waiters, sent, taken>>

\* The predicate holds, on the first look or after a wake-up.
RecvTake(c) ==
    /\ pc[c] \in {"check", "recheck"}
    /\ queue # <<>>
    /\ value' = [value EXCEPT ![c] = Head(queue)]
    /\ queue' = Tail(queue)
    /\ taken' = Append(taken, Head(queue))
    /\ pc' = [pc EXCEPT ![c] = "unlock"]
    /\ UNCHANGED <<mutex, waiters, expired, sent>>

\* The predicate does not hold: block on cond_ and let the lock go, in one
\* step.  wait_for blocks on the first look even when its deadline is over.
RecvWait(c) ==
    /\ \/ pc[c] = "check"
       \/ pc[c] = "recheck" /\ c \notin expired
    /\ queue = <<>>
    /\ waiters' = waiters \cup {c}
    /\ mutex' = Free
    /\ pc' = [pc EXCEPT ![c] = "wait"]
    /\ UNCHANGED <<queue, value, expired, sent, taken>>

\* The deadline passes, at any time after the first look; wait_for asks the
\* clock once it holds the lock again.
Deadline(c) ==
    /\ pc[c] \in {"wait", "relock", "recheck"}
    /\ c \notin expired
    /\ expired' = expired \cup {c}
    /\ UNCHANGED <<queue, mutex, waiters, pc, value, sent, taken>>

\* A blocked receiver wakes up by itself: its deadline is over, or spuriously.
Wake(c) ==
    /\ pc[c] = "wait"
    /\ waiters' = waiters \ {c}
    /\ pc' = [pc EXCEPT ![c] = "relock"]
    /\ UNCHANGED <<queue, mutex, value, expired, sent, taken>>

RecvRelock(c) ==
    /\ Lock(c, "relock", "recheck")
    /\ UNCHANGED <<queue, waiters, value, expired, sent, taken>>

\* Mutant: wait_for without its predicate, which trusts the clock alone.
RecvTimeoutBlind(c) ==
    /\ pc[c] = "recheck"
    /\ c \in expired
    /\ pc' = [pc EXCEPT ![c] = "unlock"]
    /\ UNCHANGED <<queue, mutex, waiters, value, expired, sent, taken>>

\* Mutant: a receiver that has woken up with nothing to take never gives up.
RecvTimeoutNever(c) ==
    /\ pc[c] = "recheck"
    /\ c \in expired
    /\ queue = <<>>
    /\ waiters' = waiters \cup {c}
    /\ mutex' = Free
    /\ pc' = [pc EXCEPT ![c] = "wait"]
    /\ UNCHANGED <<queue, value, expired, sent, taken>>

\* The wait timed out and the predicate, looked at again, still fails.
RecvTimeout(c) ==
    /\ pc[c] = "recheck"
    /\ c \in expired
    /\ queue = <<>>
    /\ pc' = [pc EXCEPT ![c] = "unlock"]
    /\ UNCHANGED <<queue, mutex, waiters, value, expired, sent, taken>>

-----------------------------------------------------------------------------
\* clear()

ClearLock(p) ==
    /\ Lock(p, "idle", "clear")
    /\ UNCHANGED <<queue, waiters, value, expired, sent, taken>>

\* std::swap with an empty queue; the items swapped out are gone.
ClearSwap(p) ==
    /\ pc[p] = "clear"
    /\ queue' = <<>>
    /\ sent'  = taken
    /\ pc' = [pc EXCEPT ![p] = "unlock"]
    /\ UNCHANGED <<mutex, waiters, value, expired, taken>>

-----------------------------------------------------------------------------

\* What a thread does once it is inside a call.
SendStep(p) == SendPush(p) \/ SendNotify(p) \/ ClearSwap(p) \/ Unlock(p)

RecvStep(c) ==
    \/ RecvTake(c) \/ RecvWait(c) \/ RecvTimeout(c)
    \/ RecvRelock(c) \/ Unlock(c)

Next ==
    \/ \E p \in Producers : SendLock(p) \/ SendStep(p)
    \/ \E p \in Clearers : ClearLock(p)
    \/ \E c \in Consumers : RecvLock(c) \/ RecvStep(c) \/ Deadline(c) \/ Wake(c)

\* A thread in a call keeps running, the clock does not stop, and a wait whose
\* deadline is over ends.  Nobody is obliged to start a call, std::mutex gives
\* no thread precedence, and no wake-up but the timed one is guaranteed.
Fairness ==
    /\ \A p \in Producers : WF_vars(SendStep(p))
    /\ \A c \in Consumers :
          /\ WF_vars(RecvStep(c))
          /\ WF_vars(Deadline(c))
          /\ WF_vars(c \in expired /\ Wake(c))

Spec == Init /\ [][Next]_vars /\ Fairness

-----------------------------------------------------------------------------
\* Properties

\* The types of the variables; cond_ knows exactly the receivers that wait.
TypeOK ==
    /\ queue \in Seq(Items)
    /\ sent  \in Seq(Items)
    /\ taken \in Seq(Items)
    /\ mutex \in Threads \cup {Free}
    /\ pc \in [Threads -> ProducerLabels \cup ConsumerLabels]
    /\ \A p \in Producers : pc[p] \in ProducerLabels
    /\ \A c \in Consumers : pc[c] \in ConsumerLabels
    /\ value \in [Threads -> Items \cup {None}]
    /\ \A p \in Producers : pc[p] = "push" => value[p] \in Items
    /\ expired \subseteq Consumers
    /\ waiters = {c \in Consumers : pc[c] = "wait"}

\* mutex_ is held by the one thread, if any, between its lock and its unlock.
Critical == {"push", "notify", "clear", "check", "recheck", "unlock"}

MutualExclusion == \A t \in Threads : pc[t] \in Critical <=> mutex = t

\* The threads that will look at the queue without waiting for anything but
\* the lock, or are about to wake one that will.
Coming ==
    {t \in Threads : pc[t] \in {"notify", "check", "relock", "recheck"}}

\* No lost wake-up (send() notifies one receiver per item and receive() looks
\* before it waits): while a receiver is blocked, every queued item has a
\* thread of its own coming for it.
NoLostWakeup == waiters # {} => Len(queue) <= Cardinality(Coming)

\* receive() "returns true if an item was received, false on timeout": a call
\* that gives up leaves nothing behind that it could have had, also when an
\* item arrives after the deadline and before the lock is taken back.
FalseMeansEmpty ==
    [][\A c \in Consumers :
          pc[c] # "unlock" /\ pc'[c] = "unlock" /\ value'[c] = None
             => queue = <<>>]_vars

\* receive() blocks for a bounded time only: once the other threads have left
\* the queue alone, a receiver's call returns, with an item or without.
ReceiveReturns ==
    \A c \in Consumers :
        <>[](\A t \in Threads \ {c} : pc[t] = "idle")
            => ((pc[c] # "idle") ~> (pc[c] = "idle"))

\* The locking implements the atomic FIFO channel.
Abstract == INSTANCE Channel
ImplementsChannel == Abstract!Spec

=============================================================================
