----------------------------- MODULE MCMqttConn -----------------------------
(* A small instance of MqttConn.                                           *)
EXTENDS MqttConn
CONSTANTS d1, d2
MCDevice == {d1, d2}
=============================================================================
