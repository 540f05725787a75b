---------------------------- MODULE MCMqttPush ----------------------------
(* Instances of MqttPush for TLC.                                          *)
EXTENDS MqttPush, TLC

CONSTANTS c1, l1
=============================================================================
