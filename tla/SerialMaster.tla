---------------------------- MODULE SerialMaster ----------------------------
(***************************************************************************)
(* What a ModbusRTU promises to the threads that share it, with no lock    *)
(* and no library contexts: an exchange on the serial line is for one      *)
(* caller and its slave, under the response timeout set last, and nothing  *)
(* is opened, closed or set while it lasts.  ModbusRTU.tla shows that the  *)
(* code's locking implements this module.                                  *)
(***************************************************************************)

CONSTANTS
    Threads, Slaves, Timeouts,
    Default,      \* the timeout before the first setTimeout()
    None          \* no slave, and no exchange

VARIABLES
    open,         \* a context is connected to the device
    connected,    \* what isConnected() says
    timeout,      \* what setTimeout() was given last
    asked,        \* the slave that each thread's call is for
    exchange      \* who has the line, with which slave and timeout

masterVars == <<open, connected, timeout, asked, exchange>>

Init ==
    /\ open = FALSE
    /\ connected = FALSE
    /\ timeout = Default
    /\ asked = [t \in Threads |-> None]
    /\ exchange = None

\* connect() gives up what is open before anything else, and in silence.
Abandon ==
    /\ exchange = None
    /\ open' = FALSE
    /\ UNCHANGED <<connected, timeout, asked, exchange>>

\* connect() succeeds.
Establish ==
    /\ exchange = None
    /\ ~open
    /\ open' = TRUE
    /\ connected' = TRUE
    /\ UNCHANGED <<timeout, asked, exchange>>

Disconnect ==
    /\ exchange = None
    /\ open
    /\ open' = FALSE
    /\ connected' = FALSE
    /\ UNCHANGED <<timeout, asked, exchange>>

SetTimeout(v) ==
    /\ exchange = None
    /\ timeout' = v
    /\ UNCHANGED <<open, connected, asked, exchange>>

\* A read, a write or a raw packet is asked for, and its call returns.
Ask(t, s) ==
    /\ asked[t] = None
    /\ asked' = [asked EXCEPT ![t] = s]
    /\ UNCHANGED <<open, connected, timeout, exchange>>

Return(t) ==
    /\ exchange = None \/ exchange.by # t
    /\ asked' = [asked EXCEPT ![t] = None]
    /\ UNCHANGED <<open, connected, timeout, exchange>>

\* In between, its request may go out, and the answer comes or does not.
Begin(t) ==
    /\ exchange = None
    /\ asked[t] # None
    /\ open /\ connected
    /\ exchange' = [by |-> t, slave |-> asked[t], limit |-> timeout]
    /\ UNCHANGED <<open, connected, timeout, asked>>

End ==
    /\ exchange' = None
    /\ UNCHANGED <<open, connected, timeout, asked>>

Next ==
    \/ Abandon \/ Establish \/ Disconnect
    \/ \E v \in Timeouts : SetTimeout(v)
    \/ \E t \in Threads :
          \/ \E s \in Slaves : Ask(t, s)
          \/ Begin(t) \/ Return(t)
    \/ End

Spec == Init /\ [][Next]_masterVars

=============================================================================
