-------------------------- MODULE MCHiveMqttClient --------------------------
(***************************************************************************)
(* HiveMqttClient with any sequence of calls its interface allows.         *)
(***************************************************************************)
EXTENDS HiveMqttClient

=============================================================================
