--------------------------- MODULE HiveMqttClient ---------------------------
(***************************************************************************)
(* iot::HiveMqttClient (src/protocols/mqtt/hive_mqtt_client.cpp): the      *)
(* other implementation of IMqttClient, on the same library.  What the two *)
(* share, and the library, are taken from MosquittoClient.  It differs in  *)
(* that it starts the network thread at every connect() and never looks    *)
(* whether that worked, that it stops the thread by waiting for it, and    *)
(* that no callback tells it of the loss of a session.                     *)
(***************************************************************************)

VARIABLES
    mosq, call, connected, link, net,
    threaded       \* the library has a network thread to be joined

vars == <<mosq, call, connected, threaded, link, net>>

M == INSTANCE MosquittoClient WITH loopRunning <- threaded

Init == M!Init

-----------------------------------------------------------------------------
\* The caller

Connect(ok) ==
    /\ M!Ready
    /\ \/ mosq = "null" /\ UNCHANGED <<call, link>>
       \/ /\ mosq = "live"
          /\ link' = IF ok THEN "pending" ELSE "down"
          /\ call' = IF ok THEN "loop_start" ELSE "idle"
    /\ UNCHANGED <<mosq, connected, threaded, net>>

\* Refused by the library while it has a thread, even one that has ended; the
\* result is not looked at.
LoopStart(ok) ==
    /\ call = "loop_start"
    /\ call' = "idle"
    /\ \/ ok /\ ~threaded /\ threaded' = TRUE /\ net' = "idle"
       \/ (~ok \/ threaded) /\ UNCHANGED <<threaded, net>>
    /\ UNCHANGED <<mosq, connected, link>>

\* Mutant: the library is not told to give the session up.
DisconnectSilent ==
    /\ M!Ready
    /\ \/ mosq = "null" /\ UNCHANGED call
       \/ mosq = "live" /\ call' = "loop_stop"
    /\ UNCHANGED <<mosq, connected, threaded, link, net>>

Disconnect ==
    /\ M!Ready
    /\ \/ mosq = "null" /\ UNCHANGED <<call, link>>
       \/ mosq = "live" /\ M!Hangup /\ call' = "loop_stop"
    /\ UNCHANGED <<mosq, connected, threaded, net>>

\* Mutant: the network thread is left to itself.
LoopStopDetached ==
    /\ call = "loop_stop"
    /\ threaded' = FALSE
    /\ call' = "clear"
    /\ UNCHANGED <<mosq, connected, link, net>>

\* mosquitto_loop_stop(mosq_, false) joins the network thread, if any.
LoopStop ==
    /\ call = "loop_stop"
    /\ threaded => net = "none"
    /\ threaded' = FALSE
    /\ call' = "clear"
    /\ UNCHANGED <<mosq, connected, link, net>>

\* Mutant: the destructor does not look at mosq_ before mosquitto_destroy.
DestructorUnchecked ==
    /\ M!Ready
    /\ \/ mosq = "null" /\ call' = "destroy" /\ UNCHANGED <<mosq, link>>
       \/ mosq = "live" /\ mosq' = "dying" /\ M!Hangup /\ call' = "loop_stop"
    /\ UNCHANGED <<connected, threaded, net>>

\* Mutant: the destructor does not disconnect.
DestructorShort ==
    /\ M!Ready
    /\ mosq' = IF mosq = "null" THEN "gone" ELSE "dying"
    /\ call' = IF mosq = "null" THEN "idle" ELSE "destroy"
    /\ UNCHANGED <<connected, threaded, link, net>>

Destructor ==
    /\ M!Ready
    /\ \/ mosq = "null" /\ mosq' = "gone" /\ UNCHANGED <<call, link>>
       \/ mosq = "live" /\ mosq' = "dying" /\ M!Hangup /\ call' = "loop_stop"
    /\ UNCHANGED <<connected, threaded, net>>

CallStep ==
    \/ \E ok \in BOOLEAN : LoopStart(ok)
    \/ LoopStop \/ M!ClearConnected \/ M!Destroy

-----------------------------------------------------------------------------
\* The network thread

\* A session ends; there is no callback that would clear connected_.
OnDisconnect ==
    /\ net = "on_disconnect"
    /\ net' \in IF link = "closed" THEN {"none"} ELSE {"idle", "none"}
    /\ UNCHANGED <<mosq, call, connected, threaded, link>>

Net ==
    \/ \E ok \in BOOLEAN : M!NetConnack(ok)
    \/ M!OnConnect \/ M!NetDrop \/ OnDisconnect \/ M!NetRetry

NetSubscribed == Net \/ M!NetMessage \/ M!OnMessage

\* What the network thread is bound to do: everything but losing a session or
\* being given a message.
NetGoesOn == (Net \/ M!OnMessage) /\ (link = "up" => link' = "up")

-----------------------------------------------------------------------------

Finished == mosq = "gone" /\ UNCHANGED vars

Next ==
    \/ \E ok \in BOOLEAN : M!Construct(ok) \/ Connect(ok)
    \/ Disconnect \/ Destructor
    \/ CallStep
    \/ NetSubscribed
    \/ Finished

Fairness == WF_vars(CallStep) /\ WF_vars(NetGoesOn)

Spec == Init /\ [][Next]_vars /\ Fairness

-----------------------------------------------------------------------------
\* Properties

\* The types of the variables; a library call is only ever due on a handle
\* that exists (each member function first looks at mosq_).
TypeOK == M!TypeOK /\ threaded \in BOOLEAN

\* After disconnect() no callback can run and the flag is down, although here
\* the network thread is not cancelled but waited for, with every callback it
\* still has to make.
QuietAfterDisconnect ==
    call = "idle" /\ ~threaded => net = "none" /\ ~connected

\* No callback is left to run on a destroyed object.
NoCallbackAfterDestroy == mosq = "gone" => net = "none"

\* disconnect() and the destructor wait for the network thread, which ends:
\* in a handshake, in a session, between two attempts, or ended long ago.
DisconnectReturns == call = "loop_stop" ~> call = "idle"

\* isConnected(): "Check if currently connected to the broker."  Not wrong for
\* good, unless the caller keeps calling connect().
FlagAgrees ==
    <>[][\A ok \in BOOLEAN : ~Connect(ok)]_vars
        => []<>(connected <=> link = "up")

=============================================================================
