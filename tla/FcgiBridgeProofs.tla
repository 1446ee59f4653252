-------------------------- MODULE FcgiBridgeProofs --------------------------
(***************************************************************************)
(* Proofs about FcgiBridge, for every queue length and any number of       *)
(* requests, kills, failures and crashes.  TypeOK is inductive by itself;  *)
(* InFlight is inductive relative to it, because a kill and an interrupted *)
(* call are the only steps that take the waiting page away without taking  *)
(* a message; LeaveAsked needs the strengthening ExitsCounted.             *)
(***************************************************************************)
EXTENDS FcgiBridge, TLAPS

(* The variables keep their types; both queues stay within their limits.   *)
THEOREM TypeCorrect == Spec => []TypeOK
<1>1. Init => TypeOK
  BY FcgiAssumption DEF Init, TypeOK
<1>2. TypeOK /\ [Next]_vars => TypeOK'
  <2> SUFFICES ASSUME TypeOK, [Next]_vars PROVE TypeOK'
    OBVIOUS
  <2> USE FcgiAssumption DEF TypeOK, queues, threads, bounds
  <2>1. CASE FcgiAccept \/ FcgiFails \/ FcgiKill \/ FcgiStart
    BY <2>1 DEF FcgiAccept, FcgiFails, FcgiKill, FcgiStart
  <2>2. CASE FcgiStep
    BY <2>2 DEF FcgiStep, FcgiSend, FcgiReceive
  <2>3. CASE PktOpen \/ PktListen \/ PktRefused
    BY <2>3 DEF PktOpen, PktListen, PktRefused
  <2>4. CASE PktRequest \/ Fcgiwrite \/ PktExit
    BY <2>4 DEF PktRequest, Fcgiwrite, PktExit
  <2>5. CASE Quit \/ MainStep \/ RestLeave
    BY <2>5 DEF Quit, MainStep, SendExit, SendExitFails, TellRest, Join, RestLeave
  <2>6. CASE HomeCrash \/ HomeStart
    BY <2>6 DEF HomeCrash, HomeStart
  <2>7. CASE UNCHANGED vars
    BY <2>7 DEF vars
  <2> QED
    BY <2>1, <2>2, <2>3, <2>4, <2>5, <2>6, <2>7 DEF Next, PktStep
<1> QED
  BY <1>1, <1>2, PTL DEF Spec

(* A page is at most one answer per kill of the FastCGI process, or call   *)
(* of it that was interrupted, behind.                                     *)
THEOREM Lag == Spec => []InFlight
<1> USE DEF Busy, Waiting
<1>1. Init => InFlight
  BY DEF Init, InFlight
<1>2. TypeOK /\ InFlight /\ [Next]_vars => InFlight'
  <2> SUFFICES ASSUME TypeOK, InFlight, [Next]_vars PROVE InFlight'
    OBVIOUS
  <2> USE DEF TypeOK, InFlight, queues, threads, bounds
  <2>1. CASE FcgiAccept \/ FcgiStart
    BY <2>1 DEF FcgiAccept, FcgiStart
  <2>2. CASE FcgiSend
    BY <2>2 DEF FcgiSend
  <2>3. CASE FcgiReceive
    BY <2>3 DEF FcgiReceive
  <2>4. CASE FcgiKill
    BY <2>4 DEF FcgiKill
  <2>5. CASE FcgiFails
    BY <2>5 DEF FcgiFails
  <2>6. CASE PktOpen \/ PktListen \/ PktRefused
    BY <2>6 DEF PktOpen, PktListen, PktRefused
  <2>7. CASE PktRequest
    BY <2>7 DEF PktRequest
  <2>8. CASE Fcgiwrite
    BY <2>8 DEF Fcgiwrite
  <2>9. CASE PktExit
    BY <2>9 DEF PktExit
  <2>10. CASE Quit \/ MainStep \/ RestLeave
    BY <2>10 DEF Quit, MainStep, SendExit, SendExitFails, Join, RestLeave
  <2>11. CASE HomeCrash \/ HomeStart
    BY <2>11 DEF HomeCrash, HomeStart
  <2>12. CASE UNCHANGED vars
    BY <2>12 DEF vars
  <2> QED
    BY <2>1, <2>2, <2>3, <2>4, <2>5, <2>6, <2>7, <2>8, <2>9, <2>10, <2>11, <2>12
       DEF Next, FcgiStep, PktStep
<1> QED
  BY <1>1, <1>2, TypeCorrect, PTL DEF Spec

(* What makes LeaveAsked inductive: a packet thread without its port       *)
(* leaves room for the "exit" main may still send it.                      *)
Spare == IF home = "up" /\ kpc = "refused" /\ mpc \in {"menu", "exit"} THEN 1 ELSE 0
ExitsCounted == exits + Unasked + Spare <= crashes + refused + Due

(* Besides the thread without its port, a packet thread leaves unasked at  *)
(* most once for each crash and each start without the port, and never     *)
(* when there was neither.                                                 *)
THEOREM LeavesWhenAsked == Spec => []LeaveAsked
<1> USE DEF Due, Unasked, Spare
<1>1. Init => ExitsCounted
  BY DEF Init, ExitsCounted
<1>2. TypeOK /\ ExitsCounted /\ [Next]_vars => ExitsCounted'
  <2> SUFFICES ASSUME TypeOK, ExitsCounted, [Next]_vars PROVE ExitsCounted'
    OBVIOUS
  <2> USE DEF TypeOK, ExitsCounted, queues, threads, bounds
  <2>1. CASE FcgiAccept \/ FcgiFails \/ FcgiKill \/ FcgiStart
    BY <2>1 DEF FcgiAccept, FcgiFails, FcgiKill, FcgiStart
  <2>2. CASE FcgiStep
    BY <2>2 DEF FcgiStep, FcgiSend, FcgiReceive
  <2>3. CASE PktOpen \/ PktListen
    BY <2>3 DEF PktOpen, PktListen
  <2>4. CASE PktRefused
    BY <2>4 DEF PktRefused
  <2>5. CASE PktRequest \/ Fcgiwrite
    BY <2>5 DEF PktRequest, Fcgiwrite
  <2>6. CASE PktExit
    BY <2>6 DEF PktExit
  <2>7. CASE Quit \/ Join \/ RestLeave
    BY <2>7 DEF Quit, Join, RestLeave
  <2>8. CASE SendExit
    BY <2>8 DEF SendExit, MqdOpen
  <2>9. CASE SendExitFails
    BY <2>9 DEF SendExitFails, MqdOpen
  <2>10. CASE HomeCrash
    BY <2>10 DEF HomeCrash
  <2>11. CASE HomeStart
    BY <2>11 DEF HomeStart
  <2>12. CASE UNCHANGED vars
    BY <2>12 DEF vars
  <2> QED
    BY <2>1, <2>2, <2>3, <2>4, <2>5, <2>6, <2>7, <2>8, <2>9, <2>10, <2>11, <2>12
       DEF Next, PktStep, MainStep
<1>3. TypeOK /\ ExitsCounted => LeaveAsked
  BY DEF TypeOK, ExitsCounted, LeaveAsked
<1> QED
  BY <1>1, <1>2, <1>3, TypeCorrect, PTL DEF Spec
=============================================================================
