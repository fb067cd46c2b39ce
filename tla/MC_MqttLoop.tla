----------------------------- MODULE MC_MqttLoop -----------------------------
(* TLC instance of MqttLoop.                                                 *)
EXTENDS MqttLoop
=============================================================================
