---------------------------- MODULE MCHaliThread ----------------------------
(* Instances of HaliThread for TLC: the code's two WORK and two SVR threads. *)
EXTENDS HaliThread, TLC

CONSTANTS b1, b2, b3

MCBuf == {b1, b2, b3}
NoFaults == {}
AllFaults == {"mainthread", "base", "create", "pthread", "module", "mqsend", "eintr"}
BufSymmetry == Permutations(MCBuf)
=============================================================================
