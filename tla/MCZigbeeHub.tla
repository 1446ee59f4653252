----------------------------- MODULE MCZigbeeHub -----------------------------
(* A small instance of ZigbeeHub.                                          *)
EXTENDS ZigbeeHub
CONSTANTS s1, s2
MCSwitch == {s1, s2}
=============================================================================
