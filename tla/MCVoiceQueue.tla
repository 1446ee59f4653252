---------------------------- MODULE MCVoiceQueue ----------------------------
(* A small instance of VoiceQueue.                                         *)
EXTENDS VoiceQueue
CONSTANTS pkt, work, opendoor
MCWorkers == {pkt, work}
MCPrompts == {opendoor}
=============================================================================
