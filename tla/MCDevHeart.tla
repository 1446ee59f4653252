----------------------------- MODULE MCDevHeart -----------------------------
(* A small instance of DevHeart: lists of three, and a search that misses *)
(* while two devices are listed.                                           *)
EXTENDS DevHeart
CONSTANTS d1, d2, d3, c1, c2, c3
MCDev == {d1, d2, d3}
MCCell == {c1, c2, c3}
=============================================================================
