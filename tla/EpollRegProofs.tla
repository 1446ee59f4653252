--------------------------- MODULE EpollRegProofs ---------------------------
(***************************************************************************)
(* Theorems about EpollReg for any descriptor numbers and any memory: its  *)
(* table and the interest set stay sound, and it is a dispatcher.          *)
(***************************************************************************)
EXTENDS EpollReg, TLAPS

Start    == {"init", "second", "stdin", "listen", "ten"}
Replaces == {"replace", "closeold"}

(* Between a descriptor's opening and its registration, and between its    *)
(* removal and its end, it is not in the list.                             *)
ArgSound ==
    /\ mpc = "add" => /\ arg \in Fd /\ ~Listed(arg)
                      /\ open[arg] \in {"mq", "second", "ten", "listen"}
    /\ mpc \in Replaces \cup {"assign", "close"} =>
           arg \in Fd /\ open[arg] = "conn" /\ ~Listed(arg)
    /\ mpc = "closeold"   => ~Listed(conn)
    /\ mpc = "timerclose" => ~Listed(timer["second"])
    /\ mpc = "mqclose"    => ~Listed(mqfd)
    /\ mpc \in Start \cup {"add"} => open[Stdin] = "stdin"

(* Which numbers are connections, wherever main is.                        *)
ConnSound ==
    /\ mpc \in Start \cup {"add"} =>
           conn = NoFd /\ \A fd \in Fd : open[fd] # "conn"
    /\ mpc = "serve" =>
           /\ conn # NoFd => open[conn] = "conn"
           /\ \A fd \in Fd : open[fd] = "conn" => fd = conn
    /\ mpc \in Replaces =>
           /\ conn \in Fd /\ conn # arg /\ open[conn] = "conn"
           /\ \A fd \in Fd : open[fd] = "conn" => fd \in {conn, arg}
    /\ mpc \in {"assign", "close"} => \A fd \in Fd : open[fd] = "conn" => fd = arg

(* libmosquitto's and the other threads' descriptors are never listed.     *)
Own   == \A c \in list : heap[c].for # "foreign"
Table == ListSound /\ DispatchSound /\ Own
IInv  == TypeOK /\ Table /\ ArgSound /\ ConnSound

-----------------------------------------------------------------------------
(* Opening a number that is not in use.                                    *)
LEMMA OpenKeeps ==
    ASSUME TypeOK, Table, NEW fd \in Fd, NEW k \in Kind, Open(fd, k),
           UNCHANGED <<nodes, watch>>
    PROVE  Table' /\ ~Listed(fd) /\ ~Listed(fd)'
<1>1. \A c \in list : heap[c].for # "free"
    BY DEF TypeOK, Kind
<1>2. ~Listed(fd) /\ watch[fd] = Null
    <2>1. ~Listed(fd)
        BY <1>1 DEF Open, Listed, Table, ListSound
    <2>2. ASSUME watch[fd] # Null PROVE FALSE
        <3>1. watch[fd] \in list /\ heap[watch[fd]] = [fd |-> fd, for |-> open[fd]]
            BY <2>2 DEF Table, DispatchSound
        <3>2. heap[watch[fd]].for = open[fd]
            BY <3>1
        <3> QED BY <1>1, <3>1, <3>2 DEF Open
    <2> QED BY <2>1, <2>2
<1>3. \A e \in Fd \ {fd} : open'[e] = open[e]
    BY DEF TypeOK, Open
<1> QED
    BY <1>2, <1>3 DEF Table, ListSound, DispatchSound, Own, Listed, nodes

(* Closing one that is not in the list.                                    *)
LEMMA CloseKeeps ==
    ASSUME TypeOK, Table, NEW fd, ~Listed(fd), Close(fd), UNCHANGED nodes
    PROVE  Table' /\ \A e : Listed(e)' <=> Listed(e)
BY EpollAssumption DEF TypeOK, Table, ListSound, DispatchSound, Own, Close, Listed, nodes

(* hali_epoll_add of an open one.                                          *)
LEMMA AddKeeps ==
    ASSUME TypeOK, Table, NEW fd \in Fd, open[fd] \in Kind \ {"foreign"}, Added(fd),
           UNCHANGED open
    PROVE  Table' /\ \A e : Listed(e)' => Listed(e) \/ e = fd
<1>1. PICK c \in Cell \ list :
        /\ list' = list \cup {c}
        /\ heap' = [heap EXCEPT ![c] = [fd |-> fd, for |-> open[fd]]]
        /\ watch' \in {watch, [watch EXCEPT ![fd] = c]}
    BY DEF Added
<1>2. heap'[c] = [fd |-> fd, for |-> open[fd]] /\ \A e \in list : heap'[e] = heap[e]
    BY <1>1 DEF TypeOK
<1>3. ListSound'
    BY <1>1, <1>2 DEF TypeOK, Table, ListSound, Added, Listed
<1>4. DispatchSound'
    BY <1>1, <1>2 DEF TypeOK, Table, DispatchSound
<1>5. \A e : Listed(e)' => Listed(e) \/ e = fd
    BY <1>1, <1>2 DEF Listed
<1>6. Own'
    BY <1>1, <1>2 DEF Table, Own
<1> QED BY <1>3, <1>4, <1>5, <1>6 DEF Table

(* hali_epoll_del.                                                         *)
LEMMA DelKeeps ==
    ASSUME TypeOK, Table, NEW fd, EpollDel(fd), UNCHANGED open
    PROVE  Table' /\ ~Listed(fd)' /\ \A e : Listed(e)' => Listed(e)
<1>1. CASE \E c \in list : heap[c].fd = fd /\ Freed(c)
    <2>1. PICK c \in list : heap[c].fd = fd /\ Freed(c)
        BY <1>1
    <2>2. \A e \in list \ {c} : heap'[e] = heap[e]
        BY <2>1 DEF TypeOK, Freed
    <2>3. ~Listed(fd)' /\ \A e : Listed(e)' => Listed(e)
        BY <2>1, <2>2 DEF Freed, Listed, Table, ListSound
    <2>4. ListSound'
        BY <2>1, <2>2 DEF Freed, Table, ListSound
    <2>5. DispatchSound'
        BY <2>1, <2>2, EpollAssumption DEF TypeOK, Freed, EpollDel, Table, DispatchSound
    <2>6. Own'
        BY <2>1, <2>2 DEF Freed, Table, Own
    <2> QED BY <2>3, <2>4, <2>5, <2>6 DEF Table
<1>2. CASE ~Listed(fd) /\ UNCHANGED nodes
    BY <1>2, EpollAssumption
    DEF TypeOK, EpollDel, nodes, Listed, Table, ListSound, DispatchSound, Own
<1> QED BY <1>1, <1>2 DEF EpollDel

-----------------------------------------------------------------------------
(* Every step keeps the types.                                             *)
LEMMA TypeStep == ASSUME IInv, [Next]_vars PROVE TypeOK'
<1> USE DEF IInv, TypeOK, Kind, Timer, nodes, fds
<1>1. CASE MqOpen
    BY <1>1 DEF MqOpen, Open
<1>2. CASE MqAdd
    BY <1>2 DEF MqAdd, Added, Close
<1>3. ASSUME NEW k \in Timer, TimerOpen(k) PROVE TypeOK'
    BY <1>3 DEF TimerOpen, AfterTimer, Open
<1>4. ASSUME NEW k \in Timer, TimerAdd(k) PROVE TypeOK'
    BY <1>4 DEF TimerAdd, AfterTimer, Added, Close
<1>5. CASE StdinAdd
    BY <1>5, EpollAssumption DEF StdinAdd, Added, NotAdded, ArgSound, Start
<1>6. CASE Listen
    BY <1>6 DEF Listen, Open
<1>7. CASE ListenAdd
    BY <1>7 DEF ListenAdd, Added, NotAdded
<1>8. CASE Replace
    BY <1>8 DEF Replace, EpollDel, Freed, Blank
<1>9. CASE CloseOld
    BY <1>9 DEF CloseOld, Close
<1>10. CASE Assign
    BY <1>10 DEF Assign, Added, NotAdded, ArgSound
<1>11. CASE EofClose
    BY <1>11 DEF EofClose, Close
<1>12. ASSUME NEW fd \in Fd, Accept(fd) PROVE TypeOK'
    BY <1>12 DEF Accept, Open
<1>13. ASSUME NEW fd \in Fd, Eof(fd) PROVE TypeOK'
    BY <1>13 DEF Eof, Ready, EpollDel, Freed, Blank
<1>14. ASSUME NEW fd \in Fd, Foreign(fd) PROVE TypeOK'
    BY <1>14 DEF Foreign, Open, Close
<1>15. CASE MainBreak
    BY <1>15 DEF MainBreak
<1>16. CASE SerialFini
    BY <1>16 DEF SerialFini, EpollDel, Freed, Blank
<1>17. CASE TimerDel
    BY <1>17 DEF TimerDel, EpollDel, Freed, Blank
<1>18. CASE TimerClose
    BY <1>18 DEF TimerClose, Close
<1>19. CASE MqDel
    BY <1>19 DEF MqDel, EpollDel, Freed, Blank
<1>20. CASE MqClose
    BY <1>20 DEF MqClose, Close
<1>21. CASE EpollClose
    BY <1>21 DEF EpollClose
<1>22. CASE UNCHANGED vars
    BY <1>22 DEF vars
<1> QED
    BY <1>1, <1>2, <1>3, <1>4, <1>5, <1>6, <1>7, <1>8, <1>9, <1>10, <1>11, <1>12,
       <1>13, <1>14, <1>15, <1>16, <1>17, <1>18, <1>19, <1>20, <1>21, <1>22
    DEF Next

(* The steps that start hali.                                              *)
LEMMA StartStep ==
    ASSUME IInv, MqOpen \/ MqAdd \/ StdinAdd \/ Listen \/ ListenAdd
                 \/ \E k \in Timer : TimerOpen(k) \/ TimerAdd(k)
    PROVE  Table' /\ ArgSound' /\ ConnSound'
<1> USE DEF Start, Replaces
<1>a. TypeOK /\ Table /\ ArgSound /\ ConnSound
    BY DEF IInv
<1>1. ASSUME NEW fd \in Fd, NEW k \in {"mq", "second", "ten", "listen"}, Open(fd, k),
             arg' = fd, mpc \in Start, mpc' = "add", UNCHANGED <<nodes, watch, conn>>
      PROVE  Table' /\ ArgSound' /\ ConnSound'
    <2>1. Table' /\ ~Listed(fd)'
        BY <1>a, <1>1, OpenKeeps DEF Kind
    <2>2. open'[fd] = k /\ \A e \in Fd \ {fd} : open'[e] = open[e]
        BY <1>a, <1>1 DEF Open, TypeOK
    <2>3. fd # Stdin
        BY <1>a, <1>1 DEF Open, ArgSound
    <2>4. ArgSound'
        BY <1>a, <1>1, <2>1, <2>2, <2>3, EpollAssumption DEF ArgSound
    <2>5. ConnSound'
        BY <1>a, <1>1, <2>2 DEF ConnSound
    <2> QED BY <2>1, <2>4, <2>5
<1>2. ASSUME mpc = "add", Close(arg), UNCHANGED <<nodes, conn>>,
             mpc' \in {"stdin", "serve", "off"}
      PROVE  Table' /\ ArgSound' /\ ConnSound'
    <2>1. Table'
        BY <1>a, <1>2, CloseKeeps DEF ArgSound
    <2>2. \A e \in Fd : open'[e] = IF e = arg THEN "free" ELSE open[e]
        BY <1>2 DEF Close
    <2>3. ArgSound'
        BY <1>a, <1>2, <2>2, EpollAssumption DEF ArgSound
    <2>4. ConnSound'
        BY <1>a, <1>2, <2>2 DEF ConnSound
    <2> QED BY <2>1, <2>3, <2>4
<1>3. ASSUME mpc = "add" \/ mpc = "stdin",
             NEW fd, fd = IF mpc = "add" THEN arg ELSE Stdin, Added(fd) \/ NotAdded,
             UNCHANGED <<open, conn>>,
             mpc' \in {"second", "stdin", "listen", "ten", "serve"}
      PROVE  Table' /\ ArgSound' /\ ConnSound'
    <2>1. fd \in Fd /\ open[fd] \in Kind \ {"foreign"}
        BY <1>a, <1>3, EpollAssumption DEF ArgSound, Kind
    <2>2. Table'
        <3>1. CASE Added(fd)
            BY <1>a, <1>3, <2>1, <3>1, AddKeeps
        <3>2. CASE NotAdded
            BY <1>a, <1>3, <3>2
            DEF NotAdded, nodes, Table, ListSound, DispatchSound, Own
        <3> QED BY <1>3, <3>1, <3>2
    <2>3. ArgSound'
        BY <1>a, <1>3 DEF ArgSound
    <2>4. ConnSound'
        BY <1>a, <1>3 DEF ConnSound
    <2> QED BY <2>2, <2>3, <2>4
<1>4. ASSUME UNCHANGED <<open, nodes, watch, conn>>, mpc \in Start,
             mpc' \in {"stdin", "ten", "serve", "off"}
      PROVE  Table' /\ ArgSound' /\ ConnSound'
    BY <1>a, <1>4
    DEF nodes, Table, ListSound, DispatchSound, Own, ArgSound, ConnSound
<1>5. CASE MqOpen
    BY <1>5, <1>1, <1>4 DEF MqOpen, fds
<1>6. CASE MqAdd
    BY <1>6, <1>2, <1>3 DEF MqAdd, fds
<1>7. CASE StdinAdd
    BY <1>7, <1>3 DEF StdinAdd, fds
<1>8. CASE Listen
    BY <1>8, <1>1, <1>4 DEF Listen
<1>9. CASE ListenAdd
    BY <1>9, <1>3 DEF ListenAdd, fds
<1>10. ASSUME NEW k \in Timer, TimerOpen(k) PROVE Table' /\ ArgSound' /\ ConnSound'
    BY <1>10, <1>1, <1>4 DEF TimerOpen, AfterTimer, Timer, fds
<1>11. ASSUME NEW k \in Timer, TimerAdd(k) PROVE Table' /\ ArgSound' /\ ConnSound'
    BY <1>11, <1>2, <1>3 DEF TimerAdd, AfterTimer, Timer
<1> QED BY <1>5, <1>6, <1>7, <1>8, <1>9, <1>10, <1>11

(* The steps of service.                                                   *)
LEMMA ServeStep ==
    ASSUME IInv, Replace \/ CloseOld \/ Assign \/ EofClose
                 \/ \E fd \in Fd : Accept(fd) \/ Eof(fd) \/ Foreign(fd)
    PROVE  Table' /\ ArgSound' /\ ConnSound'
<1> USE DEF Start, Replaces
<1>a. TypeOK /\ Table /\ ArgSound /\ ConnSound
    BY DEF IInv
<1>1. CASE Replace
    <2>1. Table' /\ ~Listed(conn)' /\ ~Listed(arg)'
        BY <1>a, <1>1, DelKeeps DEF Replace, ArgSound, fds
    <2>2. ArgSound'
        BY <1>a, <1>1, <2>1 DEF Replace, ArgSound, fds, Listed
    <2>3. ConnSound'
        BY <1>a, <1>1 DEF Replace, ConnSound, fds
    <2> QED BY <2>1, <2>2, <2>3
<1>2. CASE CloseOld
    <2>1. Table' /\ (Listed(arg)' <=> Listed(arg))
        BY <1>a, <1>2, CloseKeeps DEF CloseOld, ArgSound
    <2>2. \A e \in Fd : open'[e] = IF e = conn THEN "free" ELSE open[e]
        BY <1>2 DEF CloseOld, Close
    <2>3. ArgSound'
        BY <1>a, <1>2, <2>1, <2>2 DEF CloseOld, ArgSound, ConnSound, Listed
    <2>4. ConnSound'
        BY <1>a, <1>2, <2>2 DEF CloseOld, ArgSound, ConnSound
    <2> QED BY <2>1, <2>3, <2>4
<1>3. CASE Assign
    <2>1. arg \in Fd /\ open[arg] \in Kind \ {"foreign"}
        BY <1>a, <1>3 DEF Assign, ArgSound, Kind
    <2>2. Table'
        <3>1. CASE Added(arg)
            BY <1>a, <1>3, <2>1, <3>1, AddKeeps DEF Assign
        <3>2. CASE NotAdded
            BY <1>a, <1>3, <3>2
            DEF Assign, NotAdded, nodes, Table, ListSound, DispatchSound, Own
        <3> QED BY <1>3, <3>1, <3>2 DEF Assign
    <2>3. ArgSound'
        BY <1>3 DEF Assign, ArgSound
    <2>4. ConnSound'
        BY <1>a, <1>3 DEF Assign, ArgSound, ConnSound
    <2> QED BY <2>2, <2>3, <2>4
<1>4. CASE EofClose
    <2>1. Table'
        BY <1>a, <1>4, CloseKeeps DEF EofClose, ArgSound
    <2>2. \A e \in Fd : open'[e] = IF e = arg THEN "free" ELSE open[e]
        BY <1>4 DEF EofClose, Close
    <2>3. ArgSound'
        BY <1>4 DEF EofClose, ArgSound
    <2>4. ConnSound'
        BY <1>a, <1>4, <2>2 DEF EofClose, ConnSound
    <2> QED BY <2>1, <2>3, <2>4
<1>5. ASSUME NEW fd \in Fd, Accept(fd) PROVE Table' /\ ArgSound' /\ ConnSound'
    <2>1. PICK new \in Fd : Open(new, "conn") /\ arg' = new
        BY <1>5 DEF Accept
    <2>2. Table' /\ ~Listed(new)'
        BY <1>a, <1>5, <2>1, OpenKeeps DEF Accept, Kind
    <2>3. open'[new] = "conn" /\ \A e \in Fd \ {new} : open'[e] = open[e]
        BY <1>a, <2>1 DEF Open, TypeOK
    <2>4. ArgSound'
        BY <1>a, <1>5, <2>1, <2>2, <2>3 DEF Accept, ArgSound, Ready
    <2>5. ConnSound'
        BY <1>a, <1>5, <2>1, <2>3, EpollAssumption DEF Accept, Ready, Open, ConnSound, TypeOK, fds
    <2> QED BY <2>2, <2>4, <2>5
<1>6. ASSUME NEW fd \in Fd, Eof(fd) PROVE Table' /\ ArgSound' /\ ConnSound'
    <2>1. /\ heap[watch[fd]] = [fd |-> fd, for |-> open[fd]]
          /\ mpc = "serve" /\ heap[watch[fd]].for = "conn"
        BY <1>a, <1>6 DEF Eof, Ready, Table, DispatchSound
    <2>2. open[fd] = "conn" /\ heap[watch[fd]].fd = fd
        BY <2>1
    <2>3. Table' /\ ~Listed(fd)'
        BY <1>a, <1>6, <2>2, DelKeeps DEF Eof
    <2>4. ArgSound'
        BY <1>6, <2>2, <2>3 DEF Eof, ArgSound
    <2>5. ConnSound'
        BY <1>a, <1>6, <2>1, <2>2 DEF Eof, ConnSound
    <2> QED BY <2>3, <2>4, <2>5
<1>7. ASSUME NEW fd \in Fd, Foreign(fd) PROVE Table' /\ ArgSound' /\ ConnSound'
    <2>1. CASE Open(fd, "foreign") /\ UNCHANGED watch
        <3>1. Table'
            BY <1>a, <1>7, <2>1, OpenKeeps DEF Foreign, Kind
        <3>2. open'[fd] = "foreign" /\ \A e \in Fd \ {fd} : open'[e] = open[e]
            BY <1>a, <2>1 DEF Open, TypeOK
        <3>3. ArgSound'
            BY <1>a, <1>7, <2>1, <3>2, EpollAssumption
            DEF Foreign, Open, ArgSound, Listed, nodes, fds
        <3>4. ConnSound'
            BY <1>a, <1>7, <2>1, <3>2 DEF Foreign, Open, ConnSound, TypeOK, fds
        <3> QED BY <3>1, <3>3, <3>4
    <2>2. CASE open[fd] = "foreign" /\ Close(fd)
        <3>1. ~Listed(fd)
            BY <1>a, <2>2 DEF Table, ListSound, Own, Listed
        <3>2. Table'
            BY <1>a, <1>7, <2>2, <3>1, CloseKeeps DEF Foreign
        <3>3. \A e \in Fd : open'[e] = IF e = fd THEN "free" ELSE open[e]
            BY <2>2 DEF Close
        <3>4. ArgSound'
            BY <1>a, <1>7, <2>2, <3>3, EpollAssumption
            DEF Foreign, ArgSound, Listed, nodes, fds
        <3>5. ConnSound'
            BY <1>a, <1>7, <2>2, <3>3 DEF Foreign, ConnSound, TypeOK, fds
        <3> QED BY <3>2, <3>4, <3>5
    <2> QED BY <1>7, <2>1, <2>2 DEF Foreign
<1> QED BY <1>1, <1>2, <1>3, <1>4, <1>5, <1>6, <1>7

(* The steps of shutdown.                                                  *)
LEMMA FiniStep ==
    ASSUME IInv, MainBreak \/ SerialFini \/ TimerDel \/ TimerClose \/ MqDel
                 \/ MqClose \/ EpollClose
    PROVE  Table' /\ ArgSound' /\ ConnSound'
<1> USE DEF Start, Replaces, fds
<1>a. TypeOK /\ Table /\ ArgSound /\ ConnSound
    BY DEF IInv
<1>1. CASE MainBreak
    BY <1>a, <1>1
    DEF MainBreak, nodes, Table, ListSound, DispatchSound, Own, ArgSound, ConnSound
<1>2. CASE SerialFini
    <2>1. Table'
        BY <1>a, <1>2, DelKeeps DEF SerialFini
    <2> QED BY <1>2, <2>1 DEF SerialFini, ArgSound, ConnSound
<1>3. CASE TimerDel
    <2>1. Table' /\ ~Listed(timer["second"])'
        BY <1>a, <1>3, DelKeeps DEF TimerDel
    <2> QED BY <1>3, <2>1 DEF TimerDel, ArgSound, ConnSound, Listed
<1>4. CASE TimerClose
    <2>1. Table'
        BY <1>a, <1>4, CloseKeeps DEF TimerClose, ArgSound
    <2> QED BY <1>4, <2>1 DEF TimerClose, ArgSound, ConnSound
<1>5. CASE MqDel
    <2>1. Table' /\ ~Listed(mqfd)'
        BY <1>a, <1>5, DelKeeps DEF MqDel
    <2> QED BY <1>5, <2>1 DEF MqDel, ArgSound, ConnSound, Listed
<1>6. CASE MqClose
    <2>1. Table'
        BY <1>a, <1>6, CloseKeeps DEF MqClose, ArgSound
    <2> QED BY <1>6, <2>1 DEF MqClose, ArgSound, ConnSound
<1>7. CASE EpollClose
    BY <1>a, <1>7
    DEF EpollClose, nodes, Table, ListSound, DispatchSound, Own, ArgSound, ConnSound
<1> QED BY <1>1, <1>2, <1>3, <1>4, <1>5, <1>6, <1>7

(* The invariant is inductive.                                             *)
LEMMA Inductive == Spec => []IInv
<1>1. Init => IInv
    BY EpollAssumption
    DEF Init, IInv, TypeOK, Blank, Kind, Timer, Table, ListSound, DispatchSound, Own,
        ArgSound, ConnSound, Start, Replaces, Listed
<1>2. ASSUME IInv, [Next]_vars PROVE IInv'
    <2>1. CASE UNCHANGED vars
        BY <1>2, <2>1, TypeStep
        DEF vars, nodes, fds, IInv, Table, ListSound, DispatchSound, Own, ArgSound,
            ConnSound, Listed
    <2>2. CASE Next
        BY <1>2, <2>2, TypeStep, StartStep, ServeStep, FiniStep DEF Next, IInv
    <2> QED BY <1>2, <2>1, <2>2
<1> QED BY <1>1, <1>2, PTL DEF Spec

(* The type invariant, for any descriptor numbers and any memory.          *)
THEOREM TypeCorrect == Spec => []TypeOK
BY Inductive, PTL DEF IInv

(* hali_epoll_schedule's pointer is always an allocated node, with the     *)
(* procedure for what the descriptor is, through every reuse of numbers.   *)
THEOREM DispatchHolds == Spec => []DispatchSound
BY Inductive, PTL DEF IInv, Table

(* The list holds open descriptors only, each once: no use of a number     *)
(* spoils the next.                                                        *)
THEOREM ListHolds == Spec => []ListSound
BY Inductive, PTL DEF IInv, Table

(* While main waits, the coordinator's connection is the only one.         *)
THEOREM OneHolds == Spec => []OneConnection
<1>1. IInv => OneConnection
    BY EpollAssumption DEF IInv, TypeOK, ConnSound, OneConnection
<1> QED BY <1>1, Inductive, PTL

-----------------------------------------------------------------------------
(* The procedure of a watched number is that of what it is.                *)
Served == [fd \in Fd |-> IF watch[fd] = Null THEN "free" ELSE open[fd]]
Reg    == [fd \in Fd |-> IF watch[fd] = Null THEN "free" ELSE heap[watch[fd]].for]

Agree  == Reg = Served

LEMMA RegServed == ASSUME Table PROVE Agree
<1>1. ASSUME NEW fd \in Fd, watch[fd] # Null PROVE heap[watch[fd]].for = open[fd]
    <2>1. heap[watch[fd]] = [fd |-> fd, for |-> open[fd]]
        BY <1>1 DEF Table, DispatchSound
    <2> QED BY <2>1
<1> QED BY <1>1 DEF Agree, Reg, Served

(* What the primitives are to a dispatcher.                                *)
LEMMA OpenIs ==
    ASSUME TypeOK, Table, Agree, Agree', NEW fd \in Fd, NEW k \in Kind,
           Open(fd, k), UNCHANGED <<nodes, watch>>
    PROVE  D!Next
<1>1. watch[fd] = Null
    <2>1. \A c \in list : heap[c].for # "free"
        BY DEF TypeOK, Kind
    <2>2. ASSUME watch[fd] # Null PROVE FALSE
        <3>1. watch[fd] \in list /\ heap[watch[fd]] = [fd |-> fd, for |-> open[fd]]
            BY <2>2 DEF Table, DispatchSound
        <3>2. heap[watch[fd]].for = open[fd]
            BY <3>1
        <3> QED BY <2>1, <3>1, <3>2 DEF Open
    <2> QED BY <2>2
<1>2. Reg' = Reg
    BY <1>1 DEF Agree, Served, Open, TypeOK
<1>3. D!Open(fd, k)
    BY <1>2 DEF D!Open, Open, Reg
<1> QED BY <1>3 DEF D!Next

LEMMA CloseIs ==
    ASSUME TypeOK, Agree, Agree', NEW fd, Close(fd)
    PROVE  [D!Next]_(D!vars)
<1>1. CASE fd \in Fd
    <2>1. Reg' = [Reg EXCEPT ![fd] = "free"]
        BY <1>1 DEF Agree, Served, Close
    <2>2. open' = [open EXCEPT ![fd] = "free"]
        BY <1>1 DEF Close, TypeOK
    <2>3. D!Close(fd)
        BY <2>1, <2>2 DEF D!Close, Reg
    <2> QED BY <1>1, <2>3 DEF D!Next
<1>2. CASE fd \notin Fd
    <2>1. open' = open /\ Reg' = Reg
        BY <1>2 DEF Agree, Served, Close, TypeOK
    <2> QED BY <2>1 DEF D!vars, Reg
<1> QED BY <1>1, <1>2

LEMMA AddIs ==
    ASSUME TypeOK, Table, Agree, Agree', NEW fd \in Fd, open[fd] # "free",
           Added(fd), UNCHANGED open
    PROVE  [D!Next]_(D!vars)
<1>1. PICK c \in Cell : watch' \in {watch, [watch EXCEPT ![fd] = c]}
    BY DEF Added
<1>2. watch[fd] = Null
    <2>1. ASSUME watch[fd] # Null PROVE FALSE
        <3>1. watch[fd] \in list /\ heap[watch[fd]] = [fd |-> fd, for |-> open[fd]]
            BY <2>1 DEF Table, DispatchSound
        <3>2. heap[watch[fd]].fd = fd
            BY <3>1
        <3> QED BY <3>1, <3>2 DEF Added, Listed
    <2> QED BY <2>1
<1>3. CASE watch' = watch
    <2>1. Reg' = Reg
        BY <1>3 DEF Agree, Served
    <2> QED BY <2>1 DEF D!vars, Reg
<1>4. CASE watch' = [watch EXCEPT ![fd] = c]
    <2>1. Reg' = [Reg EXCEPT ![fd] = open[fd]] /\ Reg[fd] = "free"
        BY <1>2, <1>4, EpollAssumption DEF Agree, Served, TypeOK
    <2>2. D!Register(fd)
        BY <2>1 DEF D!Register, Reg
    <2> QED BY <2>2 DEF D!Next
<1> QED BY <1>1, <1>3, <1>4

LEMMA DelIs ==
    ASSUME Agree, Agree', NEW fd, EpollDel(fd), UNCHANGED open
    PROVE  [D!Next]_(D!vars)
<1>1. CASE fd \in Fd
    <2>1. Reg' = [Reg EXCEPT ![fd] = "free"]
        BY <1>1 DEF Agree, Served, EpollDel
    <2>2. D!Unregister(fd)
        BY <2>1 DEF D!Unregister, Reg
    <2> QED BY <1>1, <2>2 DEF D!Next
<1>2. CASE fd \notin Fd
    <2>1. Reg' = Reg
        BY <1>2 DEF Agree, Served, EpollDel
    <2> QED BY <2>1 DEF D!vars, Reg
<1> QED BY <1>1, <1>2

(* A step that touches neither open nor what is watched.                   *)
LEMMA StutterIs ==
    ASSUME Agree, Agree', UNCHANGED <<open, watch>>
    PROVE  [D!Next]_(D!vars)
<1>1. Reg' = Reg
    BY DEF Agree, Served
<1> QED BY <1>1 DEF D!vars, Reg

(* hali's main thread is a dispatcher: a descriptor is served by the       *)
(* procedure for what it is until it is unregistered or closed, and no     *)
(* procedure is left behind for the next descriptor of that number.        *)
THEOREM Implements == Spec => ImplementsDispatcher
<1>1. Init => D!Init
    BY DEF Init, D!Init, Kind
<1>2. ASSUME IInv, Agree, Agree', [Next]_vars PROVE [D!Next]_(D!vars)
    <2> USE DEF fds
    <2>a. TypeOK /\ Table /\ ArgSound /\ Agree /\ Agree'
        BY <1>2 DEF IInv
    <2>1. CASE MqOpen
        BY <2>1, <2>a, OpenIs, StutterIs DEF MqOpen, Kind
    <2>2. CASE MqAdd
        BY <2>2, <2>a, AddIs, CloseIs DEF MqAdd, ArgSound
    <2>3. ASSUME NEW k \in Timer, TimerOpen(k) PROVE [D!Next]_(D!vars)
        BY <2>3, <2>a, OpenIs, StutterIs DEF TimerOpen, Timer, Kind
    <2>4. ASSUME NEW k \in Timer, TimerAdd(k) PROVE [D!Next]_(D!vars)
        BY <2>4, <2>a, AddIs, CloseIs DEF TimerAdd, Timer, ArgSound
    <2>5. CASE StdinAdd
        BY <2>5, <2>a, AddIs, StutterIs, EpollAssumption
        DEF StdinAdd, NotAdded, ArgSound, Start
    <2>6. CASE Listen
        BY <2>6, <2>a, OpenIs, StutterIs DEF Listen, Kind
    <2>7. CASE ListenAdd
        BY <2>7, <2>a, AddIs, StutterIs DEF ListenAdd, NotAdded, ArgSound
    <2>8. CASE Replace
        BY <2>8, <2>a, DelIs DEF Replace
    <2>9. CASE CloseOld
        BY <2>9, <2>a, CloseIs DEF CloseOld
    <2>10. CASE Assign
        BY <2>10, <2>a, AddIs, StutterIs DEF Assign, NotAdded, ArgSound
    <2>11. CASE EofClose
        BY <2>11, <2>a, CloseIs DEF EofClose
    <2>12. ASSUME NEW fd \in Fd, Accept(fd) PROVE [D!Next]_(D!vars)
        BY <2>12, <2>a, OpenIs DEF Accept, Kind
    <2>13. ASSUME NEW fd \in Fd, Eof(fd) PROVE [D!Next]_(D!vars)
        BY <2>13, <2>a, DelIs DEF Eof
    <2>14. ASSUME NEW fd \in Fd, Foreign(fd) PROVE [D!Next]_(D!vars)
        BY <2>14, <2>a, OpenIs, CloseIs DEF Foreign, Kind
    <2>15. CASE MainBreak
        BY <2>15, <2>a, StutterIs DEF MainBreak
    <2>16. CASE SerialFini
        BY <2>16, <2>a, DelIs DEF SerialFini
    <2>17. CASE TimerDel
        BY <2>17, <2>a, DelIs DEF TimerDel
    <2>18. CASE TimerClose
        BY <2>18, <2>a, CloseIs DEF TimerClose
    <2>19. CASE MqDel
        BY <2>19, <2>a, DelIs DEF MqDel
    <2>20. CASE MqClose
        BY <2>20, <2>a, CloseIs DEF MqClose
    <2>21. CASE EpollClose
        <3>1. Reg' = [fd \in Fd |-> "free"]
            BY <2>21, <2>a DEF EpollClose, Agree, Served
        <3>2. D!Stop
            BY <2>21, <3>1 DEF EpollClose, D!Stop, Reg
        <3> QED BY <3>2 DEF D!Next
    <2>22. CASE UNCHANGED vars
        BY <2>22, <2>a, StutterIs DEF vars
    <2> QED
        BY <1>2, <2>1, <2>2, <2>3, <2>4, <2>5, <2>6, <2>7, <2>8, <2>9, <2>10, <2>11, <2>12,
           <2>13, <2>14, <2>15, <2>16, <2>17, <2>18, <2>19, <2>20, <2>21, <2>22
        DEF Next
<1>3. IInv => Agree
    BY RegServed DEF IInv
<1> QED BY <1>1, <1>2, <1>3, Inductive, PTL DEF Spec, ImplementsDispatcher, D!Spec
=============================================================================
