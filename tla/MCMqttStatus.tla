----------------------------- MODULE MCMqttStatus -----------------------------
(* A small instance of MqttStatus: one robot, one request thread beside the *)
(* network thread and the heartbeat.                                         *)
EXTENDS MqttStatus, TLC

CONSTANTS r1, q1
===============================================================================
