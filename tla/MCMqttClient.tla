----------------------------- MODULE MCMqttClient -----------------------------
(* MqttClient on a small instance.                                         *)
EXTENDS MqttClient
=============================================================================
