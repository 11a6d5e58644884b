---------------------------- MODULE MqttDelivery ----------------------------
(***************************************************************************)
(* What becomes of a message that is published through MosquittoClient     *)
(* with QoS 1, as the App does (apps/app.cpp:205-206).  libmosquitto puts  *)
(* the message on a list of its own, sends it if there is a connection,    *)
(* and sends it once in every later session until the broker acknowledges  *)
(* it; the list goes with the handle.  publish() itself leaves no trace in *)
(* the client: whatever it returns, the client does not try again.         *)
(***************************************************************************)
EXTENDS MosquittoClient, Naturals, Sequences

CONSTANT MaxPublish     \* bound: messages published

VARIABLE outbox         \* the library's list, with what becomes of a message:
                        \*   ok     what publish() returned
                        \*   kept   still on the list, not acknowledged
                        \*   due    to be sent in this session
                        \*   times  history: how often the broker was given it,
                        \*          at most 2

deliveryVars == <<mqttVars, outbox>>

DeliveryInit == Init /\ outbox = <<>>

\* mosquitto_publish() has a connection to write to, or MOSQ_ERR_NO_CONN.
HasConnection == link \in {"pending", "up"}

\* publish(), by a caller that asks isConnected() first: mosq_ is not null.
\* The flag can be behind the link.  The message is on the list either way.
Publish ==
    /\ Ready
    /\ connected
    /\ Len(outbox) < MaxPublish
    /\ outbox' = Append(outbox, [ok    |-> HasConnection,
                                 kept  |-> TRUE,
                                 due   |-> HasConnection,
                                 times |-> 0])
    /\ UNCHANGED mqttVars

\* A message is written to the broker, also while a disconnect is carried out.
NetSend(i) ==
    /\ net = "idle" /\ link \in {"up", "closing"}
    /\ outbox[i].due
    /\ outbox[i].times < 2
    /\ outbox' = [outbox EXCEPT ![i].due = FALSE, ![i].times = @ + 1]
    /\ UNCHANGED mqttVars

\* The broker's PUBACK takes it off the list.
NetPuback(i) ==
    /\ net = "idle" /\ link = "up"
    /\ outbox[i].kept /\ ~outbox[i].due /\ outbox[i].times > 0
    /\ outbox' = [outbox EXCEPT ![i].kept = FALSE]
    /\ UNCHANGED mqttVars

\* With a new session, all that is on the list is to be sent, again or at last.
Renewed == [i \in DOMAIN outbox |-> [outbox[i] EXCEPT !.due = outbox[i].kept]]

\* Every other step of the client and of the network thread.
ClientStep ==
    /\ Next
    /\ outbox' = IF link = "pending" /\ link' = "up" THEN Renewed ELSE outbox

DeliveryNext ==
    \/ Publish
    \/ \E i \in DOMAIN outbox : NetSend(i) \/ NetPuback(i)
    \/ ClientStep

DeliverySpec == DeliveryInit /\ [][DeliveryNext]_deliveryVars /\ Fairness

-----------------------------------------------------------------------------
\* Properties

\* publish() "returns true if published successfully": when a client has been
\* disconnected and destroyed, the broker has been given what publish()
\* returned true for.
PublishedIsDelivered ==
    mosq = "gone" => \A i \in DOMAIN outbox : outbox[i].ok => outbox[i].times > 0

=============================================================================
