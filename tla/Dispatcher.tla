----------------------------- MODULE Dispatcher -----------------------------
(***************************************************************************)
(* What an event loop promises: a descriptor is served by the procedure    *)
(* for what it is, from its registration until it is unregistered or       *)
(* closed, and never by a procedure registered for an earlier descriptor   *)
(* of the same number.                                                     *)
(***************************************************************************)
CONSTANTS Fd,      \* descriptor numbers
          Kind,    \* what a descriptor can be, which tells its procedure
          Free     \* of a number that is not in use

VARIABLES open,    \* what each number stands for now
          reg      \* the procedure that serves it, Free if none

vars == <<open, reg>>

Init == open \in [Fd -> Kind \cup {Free}] /\ reg = [fd \in Fd |-> Free]

Open(fd, k) ==
    /\ open[fd] = Free
    /\ open' = [open EXCEPT ![fd] = k] /\ UNCHANGED reg

Close(fd) ==
    /\ open' = [open EXCEPT ![fd] = Free] /\ reg' = [reg EXCEPT ![fd] = Free]

Register(fd) ==
    /\ open[fd] # Free /\ reg[fd] = Free
    /\ reg' = [reg EXCEPT ![fd] = open[fd]] /\ UNCHANGED open

Unregister(fd) == reg' = [reg EXCEPT ![fd] = Free] /\ UNCHANGED open

(* The loop ends: nothing is served any more.                              *)
Stop == reg' = [fd \in Fd |-> Free] /\ UNCHANGED open

Next == \/ \E fd \in Fd : \/ \E k \in Kind : Open(fd, k)
                          \/ Close(fd) \/ Register(fd) \/ Unregister(fd)
        \/ Stop

Spec == Init /\ [][Next]_vars
=============================================================================
