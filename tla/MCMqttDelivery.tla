--------------------------- MODULE MCMqttDelivery ---------------------------
(***************************************************************************)
(* MosquittoClient with any sequence of calls its interface allows, and    *)
(* with publications between them.                                         *)
(***************************************************************************)
EXTENDS MqttDelivery

=============================================================================
