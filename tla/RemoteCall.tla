----------------------------- MODULE RemoteCall -----------------------------
(***************************************************************************)
(* What the callers of the HTTP services rely on: the server sees a call   *)
(* at most once, with its own method, body and token; the thread that made *)
(* it gets the server's own answer to it, or status 0; and a call that was *)
(* given up may still be seen later.                                       *)
(***************************************************************************)
EXTENDS Naturals

CONSTANTS
    Threads, Methods, Bodies, Statuses, Bases, Tokens, None

VARIABLES
    base, token,   \* the server, and the token to send it, or None
    calls,         \* how many calls each thread has made
    pending,       \* the call each thread waits for, or None
    open,          \* the calls the server may still see
    served,        \* the calls the server has seen, with its answers
    result         \* the status each thread's last call returned

vars == <<base, token, calls, pending, open, served, result>>

Init ==
    /\ base \in Bases
    /\ token = None
    /\ calls = [t \in Threads |-> 0]
    /\ pending = [t \in Threads |-> None]
    /\ open = {}
    /\ served = {}
    /\ result = [t \in Threads |-> 0]

Configure ==
    /\ \A t \in Threads : pending[t] = None
    /\ \/ base' \in Bases /\ UNCHANGED token
       \/ token' \in Tokens \cup {None} /\ UNCHANGED base
    /\ UNCHANGED <<calls, pending, open, served, result>>

\* A call may be lost before it leaves.
Begin(t, verb, body) ==
    LET c == [by |-> t, n |-> calls[t] + 1, verb |-> verb, body |-> body,
              to |-> base, auth |-> token]
    IN  /\ pending[t] = None
        /\ calls' = [calls EXCEPT ![t] = @ + 1]
        /\ pending' = [pending EXCEPT ![t] = c]
        /\ open' \in {open, open \cup {c}}
        /\ result' = [result EXCEPT ![t] = 0]
        /\ UNCHANGED <<base, token, served>>

Serve(c, s) ==
    /\ c \in open
    /\ open' = open \ {c}
    /\ served' = served \cup {[call |-> c, status |-> s]}
    /\ UNCHANGED <<base, token, calls, pending, result>>

\* Without an answer, the call may still be on its way.
Return(t, s) ==
    /\ pending[t] # None
    /\ s = 0 \/ [call |-> pending[t], status |-> s] \in served
    /\ result' = [result EXCEPT ![t] = s]
    /\ pending' = [pending EXCEPT ![t] = None]
    /\ UNCHANGED <<base, token, calls, open, served>>

Next ==
    \/ Configure
    \/ \E t \in Threads :
          \/ \E verb \in Methods, b \in Bodies \cup {None} : Begin(t, verb, b)
          \/ \E s \in Statuses \cup {0} : Return(t, s)
    \/ \E c \in open, s \in Statuses : Serve(c, s)

Spec == Init /\ [][Next]_vars

=============================================================================
