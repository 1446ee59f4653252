----------------------------- MODULE MCEpollReg -----------------------------
(* A small instance of EpollReg.                                           *)
EXTENDS EpollReg, TLC
CONSTANTS f0, f1, f2, f3, f4, f5, c1, c2, c3, c4
MCFd == {f0, f1, f2, f3, f4, f5}
MCCell == {c1, c2, c3, c4}
MCSymmetry == Permutations(MCFd \ {f0}) \cup Permutations(MCCell)
=============================================================================
