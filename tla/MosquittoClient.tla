-------------------------- MODULE MosquittoClient --------------------------
(***************************************************************************)
(* iot::MosquittoClient (src/protocols/mqtt/mosquitto_client.cpp): an MQTT *)
(* client around a libmosquitto handle.  Two threads step: the caller, in  *)
(* one member function at a time, and the network thread that              *)
(* mosquitto_loop_start creates and that runs the callbacks.  The library  *)
(* is external and is modelled by what the client relies on: connecting is *)
(* asynchronous, the network thread reconnects by itself, and              *)
(* loop_stop(force) cancels the thread wherever it is and joins it.        *)
(* publish() leaves no trace in the client; what becomes of a message is   *)
(* the subject of MqttDelivery.                                            *)
(***************************************************************************)

VARIABLES
    mosq,          \* mosq_: "unborn", "live", "null", "dying", "gone"
    call,          \* the library call the caller makes next, or "idle"
    connected,     \* connected_
    loopRunning,   \* loop_running_
    link,          \* the session with the broker, as the library sees it
    net            \* the network thread: the callback it runs next, if any

mqttVars == <<mosq, call, connected, loopRunning, link, net>>

Calls == {"idle", "loop_start", "loop_stop", "clear", "destroy"}
Links == {"closed", "down", "pending", "up", "closing"}
Nets  == {"none", "idle", "on_connect", "on_refused", "on_disconnect",
          "on_message"}

Init ==
    /\ mosq = "unborn"
    /\ call = "idle"
    /\ connected = FALSE
    /\ loopRunning = FALSE
    /\ link = "closed"
    /\ net = "none"

\* The caller is between two calls on a constructed client.
Ready == mosq \in {"live", "null"} /\ call = "idle"

\* mosquitto_disconnect(): from here on the library does not reconnect.  With
\* a network thread, that thread winds an open session up.
Hangup ==
    link' = IF net # "none" /\ link \in {"pending", "up"}
              THEN "closing" ELSE "closed"

-----------------------------------------------------------------------------
\* The caller

\* The constructor; without memory for a handle, mosq_ is null.
Construct(ok) ==
    /\ mosq = "unborn"
    /\ mosq' = IF ok THEN "live" ELSE "null"
    /\ UNCHANGED <<call, connected, loopRunning, link, net>>

\* connect(): mosquitto_connect drops the session there is and sends CONNECT,
\* or fails; the answer comes to the network thread, started if need be.
Connect(ok) ==
    /\ Ready
    /\ \/ mosq = "null" /\ UNCHANGED <<call, link>>
       \/ /\ mosq = "live"
          /\ link' = IF ok THEN "pending" ELSE "down"
          /\ call' = IF ok /\ ~loopRunning THEN "loop_start" ELSE "idle"
    /\ UNCHANGED <<mosq, connected, loopRunning, net>>

\* Mutant: the running network thread is not recorded.
LoopStartForgotten(ok) ==
    /\ call = "loop_start"
    /\ call' = "idle"
    /\ net' = IF ok THEN "idle" ELSE net
    /\ UNCHANGED <<mosq, connected, loopRunning, link>>

LoopStart(ok) ==
    /\ call = "loop_start"
    /\ call' = "idle"
    /\ \/ ok /\ net' = "idle" /\ loopRunning' = TRUE /\ UNCHANGED link
       \/ ~ok /\ Hangup /\ UNCHANGED <<net, loopRunning>>
    /\ UNCHANGED <<mosq, connected>>

\* disconnect(), called by itself or by the destructor.
Disconnect ==
    /\ Ready
    /\ \/ mosq = "null" /\ UNCHANGED <<call, link>>
       \/ /\ mosq = "live"
          /\ Hangup
          /\ call' = IF loopRunning THEN "loop_stop" ELSE "clear"
    /\ UNCHANGED <<mosq, connected, loopRunning, net>>

\* Mutant: the flag is left for the disconnect callback to clear.
LoopStopTrusting ==
    /\ call = "loop_stop"
    /\ net' = "none"
    /\ link' = "closed"
    /\ loopRunning' = FALSE
    /\ call' = IF mosq = "dying" THEN "destroy" ELSE "idle"
    /\ UNCHANGED <<mosq, connected>>

\* mosquitto_loop_stop(mosq_, true): a callback the thread has not yet run is
\* never run.
LoopStop ==
    /\ call = "loop_stop"
    /\ net' = "none"
    /\ link' = "closed"
    /\ loopRunning' = FALSE
    /\ call' = "clear"
    /\ UNCHANGED <<mosq, connected>>

\* connected_ = false, without the lock the callbacks take.
ClearConnected ==
    /\ call = "clear"
    /\ connected' = FALSE
    /\ call' = IF mosq = "dying" THEN "destroy" ELSE "idle"
    /\ UNCHANGED <<mosq, loopRunning, link, net>>

\* Mutant: the destructor does not look at mosq_ before mosquitto_destroy.
DestructorUnchecked ==
    /\ Ready
    /\ \/ mosq = "null" /\ call' = "destroy" /\ UNCHANGED <<mosq, link>>
       \/ /\ mosq = "live"
          /\ mosq' = "dying"
          /\ Hangup
          /\ call' = IF loopRunning THEN "loop_stop" ELSE "clear"
    /\ UNCHANGED <<connected, loopRunning, net>>

\* The destructor: disconnect(), then mosquitto_destroy.
Destructor ==
    /\ Ready
    /\ \/ mosq = "null" /\ mosq' = "gone" /\ UNCHANGED <<call, link>>
       \/ /\ mosq = "live"
          /\ mosq' = "dying"
          /\ Hangup
          /\ call' = IF loopRunning THEN "loop_stop" ELSE "clear"
    /\ UNCHANGED <<connected, loopRunning, net>>

Destroy ==
    /\ call = "destroy"
    /\ call' = "idle"
    /\ mosq' = "gone"
    /\ UNCHANGED <<connected, loopRunning, link, net>>

\* What remains of a call that has begun.
CallStep ==
    \/ \E ok \in BOOLEAN : LoopStart(ok)
    \/ LoopStop \/ ClearConnected \/ Destroy

-----------------------------------------------------------------------------
\* The network thread

\* The broker answers CONNECT.
NetConnack(ok) ==
    /\ net = "idle"
    /\ link = "pending"
    /\ link' = IF ok THEN "up" ELSE "down"
    /\ net'  = IF ok THEN "on_connect" ELSE "on_refused"
    /\ UNCHANGED <<mosq, call, connected, loopRunning>>


\* on_connect_wrapper; a refused connection is also reported as lost.
OnConnect ==
    /\ net \in {"on_connect", "on_refused"}
    /\ connected' = (net = "on_connect")
    /\ net' = IF net = "on_connect" THEN "idle" ELSE "on_disconnect"
    /\ UNCHANGED <<mosq, call, loopRunning, link>>

\* The connection breaks, or the caller's disconnect is carried out.
NetDrop ==
    /\ net = "idle"
    /\ \/ link \in {"pending", "up"} /\ link' = "down"
       \/ link = "closing" /\ link' = "closed"
    /\ net' = "on_disconnect"
    /\ UNCHANGED <<mosq, call, connected, loopRunning>>

\* on_disconnect_wrapper.  The thread then ends if the caller asked for the
\* disconnect or if the error is one the library gives up on.
OnDisconnect ==
    /\ net = "on_disconnect"
    /\ connected' = FALSE
    /\ net' \in IF link = "closed" THEN {"none"} ELSE {"idle", "none"}
    /\ UNCHANGED <<mosq, call, loopRunning, link>>

\* The library tries again, or ends the thread after a disconnect.
NetRetry ==
    /\ net = "idle"
    /\ \/ link = "down" /\ link' = "pending" /\ UNCHANGED net
       \/ link = "closed" /\ net' = "none" /\ UNCHANGED link
    /\ UNCHANGED <<mosq, call, connected, loopRunning>>

\* A message arrives for a topic the caller has subscribed to, now or when the
\* library next writes; subscribe() itself leaves no trace in the client.
NetMessage ==
    /\ net = "idle"
    /\ link = "up"
    /\ net' = "on_message"
    /\ UNCHANGED <<mosq, call, connected, loopRunning, link>>

\* on_message_wrapper, with the callback it makes, if one is set.
OnMessage ==
    /\ net = "on_message"
    /\ net' = "idle"
    /\ UNCHANGED <<mosq, call, connected, loopRunning, link>>

\* Without subscriptions; and with them.
Net ==
    \/ \E ok \in BOOLEAN : NetConnack(ok)
    \/ OnConnect \/ NetDrop \/ OnDisconnect \/ NetRetry

NetSubscribed == Net \/ NetMessage \/ OnMessage

-----------------------------------------------------------------------------

\* The object is gone for good.
Finished == mosq = "gone" /\ UNCHANGED mqttVars

Next ==
    \/ \E ok \in BOOLEAN : Construct(ok) \/ Connect(ok)
    \/ Disconnect \/ Destructor
    \/ CallStep
    \/ NetSubscribed
    \/ Finished

\* What the network thread is bound to do: everything but losing a session or
\* being given a message.
\* CONNECT is answered, or the keep-alive gives up on it.
NetGoesOn == (Net \/ OnMessage) /\ (link = "up" => link' = "up")

\* A call that has begun goes on, and the network thread keeps running.
Fairness == WF_mqttVars(CallStep) /\ WF_mqttVars(NetGoesOn)

Spec == Init /\ [][Next]_mqttVars /\ Fairness

-----------------------------------------------------------------------------
\* Properties

\* The types of the variables; a library call is only ever due on a handle
\* that exists (each member function first looks at mosq_).
TypeOK ==
    /\ mosq \in {"unborn", "live", "null", "dying", "gone"}
    /\ call \in Calls
    /\ connected \in BOOLEAN
    /\ loopRunning \in BOOLEAN
    /\ link \in Links
    /\ net \in Nets
    /\ call # "idle" => mosq \in {"live", "dying"}

\* disconnect() is final: once it (or the constructor) has returned and until
\* the next connect(), no callback can run any more and isConnected() is false,
\* whatever the network thread was doing when it was cancelled.
QuietAfterDisconnect ==
    call = "idle" /\ ~loopRunning => net = "none" /\ ~connected

\* The callbacks get `this`: after the destructor none may be left to run.
NoCallbackAfterDestroy == mosq = "gone" => net = "none"

\* isConnected() is never wrong for good: unless the caller keeps calling
\* connect(), the flag agrees with the session again and again, in spite of
\* callbacks that run late, after the caller has already connected anew.
FlagAgrees ==
    <>[][\A ok \in BOOLEAN : ~Connect(ok)]_mqttVars
        => []<>(connected <=> link = "up")

=============================================================================
