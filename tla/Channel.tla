------------------------------ MODULE Channel ------------------------------
(***************************************************************************)
(* What a ThreadQueue<T> promises to the threads that share it, with no    *)
(* mutex, no condition variable and no waiting: an unbounded FIFO channel  *)
(* whose operations are atomic.  ThreadQueue.tla shows that the code's     *)
(* locking implements this module; App.tla builds on this module.          *)
(***************************************************************************)
EXTENDS Sequences

CONSTANT Items        \* the values of type T

VARIABLES
    queue,            \* queue_: items sent and not yet received, oldest first
    sent,             \* history: every item sent, except those clear() discarded
    taken             \* history: every item a receive() handed to its caller

chanVars == <<queue, sent, taken>>

Init ==
    /\ queue = <<>>
    /\ sent  = <<>>
    /\ taken = <<>>

Send(v) ==
    /\ queue' = Append(queue, v)
    /\ sent'  = Append(sent, v)
    /\ UNCHANGED taken

\* A receive() that returns true with the item v.
Receive(v) ==
    /\ queue # <<>>
    /\ v = Head(queue)
    /\ queue' = Tail(queue)
    /\ taken' = Append(taken, v)
    /\ UNCHANGED sent

\* A receive() that returns false: only an empty channel may time out.
Timeout ==
    /\ queue = <<>>
    /\ UNCHANGED chanVars

Clear ==
    /\ queue' = <<>>
    /\ sent'  = taken
    /\ UNCHANGED taken

Next ==
    \/ \E v \in Items : Send(v) \/ Receive(v)
    \/ Timeout
    \/ Clear

Spec == Init /\ [][Next]_chanVars

TypeOK ==
    /\ queue \in Seq(Items)
    /\ sent  \in Seq(Items)
    /\ taken \in Seq(Items)

\* Nothing is lost, duplicated or reordered: what was received, followed by
\* what is still queued, is what was sent.
Conservation == sent = taken \o queue

=============================================================================
