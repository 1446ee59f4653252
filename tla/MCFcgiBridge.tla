---------------------------- MODULE MCFcgiBridge ----------------------------
(* A small instance of FcgiBridge: queues of two, kills and interrupted    *)
(* calls enough to fill both, two starts without the port, one crash.      *)
EXTENDS FcgiBridge
MCQMax == 2
MCMaxKills == 2 * MCQMax
=============================================================================
