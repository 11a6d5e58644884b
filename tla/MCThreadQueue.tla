--------------------------- MODULE MCThreadQueue ---------------------------
(***************************************************************************)
(* ThreadQueue on two senders, two receivers and two distinct items.  Two  *)
(* receivers are the least with which one can steal the item another was   *)
(* woken for; two items are the least with which order can be lost.        *)
(***************************************************************************)
EXTENDS ThreadQueue

CONSTANTS p1, p2, c1, c2, a, b

MCProducers == {p1, p2}
MCConsumers == {c1, c2}
MCClearers  == {p2}
MCItems     == {a, b}

=============================================================================
