------------------------------ MODULE EpollReg ------------------------------
(***************************************************************************)
(* The descriptors of hali's main thread: the list of nodes that           *)
(* hali_epoll_add keeps, the kernel's interest set whose entries point     *)
(* into it, the timers, the console, the main queue, the listening socket  *)
(* and the coordinator's connection, through start, service and shutdown.  *)
(*                                                                         *)
(* Numbers of closed descriptors are used again, also by libmosquitto's    *)
(* thread ("foreign"), which opens and closes sockets at any time.  The    *)
(* kernel drops a closed descriptor from the interest set.  Any free       *)
(* number may be given out, where the kernel gives the lowest.             *)
(*                                                                         *)
(* A node's procedure is named by the kind of descriptor it is for.  Every *)
(* call that may fail may fail here: opening, malloc, epoll_ctl.           *)
(***************************************************************************)
CONSTANTS Fd, Cell, Null, NoFd, Stdin

ASSUME EpollAssumption == Stdin \in Fd /\ NoFd \notin Fd /\ Null \notin Cell

Kind  == {"mq", "second", "ten", "stdin", "listen", "conn", "foreign"}
Timer == {"second", "ten"}

VARIABLES
    open,    \* what each number stands for, "free" if not in use
    list,    \* the nodes in stfdlist: allocated there, freed when they leave it
    heap,    \* fd and procedure of each node
    watch,   \* the interest set: data.ptr of each number, Null if not in it
    timer,   \* g_timerfd and g_zigbeetimerfd
    mqfd,    \* the main queue
    conn,    \* g_izigbee_socketacceptfd
    sock,    \* g_izigbee_soketfd, stored only where setsockopt fails
    mpc,     \* where main is
    arg      \* the descriptor it is at

nodes == <<list, heap>>
fds   == <<timer, mqfd, conn, sock>>
vars  == <<open, nodes, watch, fds, mpc, arg>>

(* What nobody may look at: memory that is not allocated.                  *)
Blank == [fd |-> NoFd, for |-> "foreign"]

(* The type invariant.                                                     *)
TypeOK ==
    /\ open \in [Fd -> Kind \cup {"free"}]
    /\ list \subseteq Cell
    /\ heap \in [Cell -> [fd : Fd \cup {NoFd}, for : Kind]]
    /\ watch \in [Fd -> Cell \cup {Null}]
    /\ timer \in [Timer -> Fd \cup {NoFd}]
    /\ {mqfd, conn, sock, arg} \subseteq Fd \cup {NoFd}
    /\ mpc \in {"init", "second", "stdin", "listen", "ten", "add", "serve", "replace",
                "closeold", "assign", "close", "fini", "timerdel", "timerclose", "mqdel", "mqclose",
                "epclose", "off"}

Init ==
    /\ open = [fd \in Fd |-> IF fd = Stdin THEN "stdin" ELSE "free"]
    /\ list = {} /\ heap = [c \in Cell |-> Blank]
    /\ watch = [fd \in Fd |-> Null]
    /\ timer = [k \in Timer |-> NoFd] /\ mqfd = NoFd /\ conn = NoFd /\ sock = NoFd
    /\ mpc = "init" /\ arg = NoFd

-----------------------------------------------------------------------------
Listed(fd) == \E c \in list : heap[c].fd = fd

(* A new descriptor, and the end of one.                                   *)
Open(fd, k) == open[fd] = "free" /\ open' = [open EXCEPT ![fd] = k]
Close(fd) ==
    /\ open' = [e \in Fd |-> IF e = fd THEN "free" ELSE open[e]]
    /\ watch' = [e \in Fd |-> IF e = fd THEN Null ELSE watch[e]]

(* hali_epoll_add succeeds, whether epoll_ctl does or not, ...             *)
Added(fd) ==
    /\ ~Listed(fd)
    /\ \E c \in Cell \ list :
        /\ list' = list \cup {c}
        /\ heap' = [heap EXCEPT ![c] = [fd |-> fd, for |-> open[fd]]]
        /\ watch' \in {watch, [watch EXCEPT ![fd] = c]}

(* ... or fails, without memory or because the number is listed already.   *)
NotAdded == UNCHANGED <<nodes, watch>>

Freed(c) == list' = list \ {c} /\ heap' = [heap EXCEPT ![c] = Blank]

(* Variant of EpollDel: some node goes, not the one found.                 *)
EpollDelOther(fd) ==
    /\ watch' = [e \in Fd |-> IF e = fd THEN Null ELSE watch[e]]
    /\ \/ Listed(fd) /\ \E c \in list : Freed(c)
       \/ ~Listed(fd) /\ UNCHANGED nodes

(* Variant of the next definition: the kernel is not told.                 *)
EpollDelQuiet(fd) ==
    /\ UNCHANGED watch
    /\ \/ \E c \in list : heap[c].fd = fd /\ Freed(c)
       \/ ~Listed(fd) /\ UNCHANGED nodes

(* hali_epoll_del; the result of epoll_ctl is not looked at.               *)
EpollDel(fd) ==
    /\ watch' = [e \in Fd |-> IF e = fd THEN Null ELSE watch[e]]
    /\ \/ \E c \in list : heap[c].fd = fd /\ Freed(c)
       \/ ~Listed(fd) /\ UNCHANGED nodes

-----------------------------------------------------------------------------
(* Start.                                                                  *)

(* hali_mainthread_init opens the main queue; without it hali ends.        *)
MqOpen ==
    /\ mpc = "init"
    /\ \/ /\ \E fd \in Fd : Open(fd, "mq") /\ mqfd' = fd /\ arg' = fd
          /\ mpc' = "add" /\ UNCHANGED <<nodes, watch, timer, conn, sock>>
       \/ mpc' = "off" /\ UNCHANGED <<open, nodes, watch, fds, arg>>

MqAdd ==
    /\ mpc = "add" /\ open[arg] = "mq"
    /\ \/ Added(arg) /\ mpc' = "second" /\ UNCHANGED open
       \/ Close(arg) /\ mpc' = "off" /\ UNCHANGED nodes
    /\ arg' = NoFd /\ UNCHANGED fds

(* hali_timer_create for one of the two timers.                            *)
AfterTimer(k) == IF k = "second" THEN "stdin" ELSE "serve"

TimerOpen(k) ==
    /\ mpc = k
    /\ \/ /\ \E fd \in Fd : Open(fd, k) /\ arg' = fd
          /\ mpc' = "add" /\ UNCHANGED <<nodes, watch, fds>>
       \/ mpc' = AfterTimer(k) /\ UNCHANGED <<open, nodes, watch, fds, arg>>

(* The number is stored even when the descriptor is closed again.          *)
TimerAdd(k) ==
    /\ mpc = "add" /\ open[arg] = k
    /\ timer' = [timer EXCEPT ![k] = arg]
    /\ \/ Added(arg) /\ UNCHANGED open
       \/ Close(arg) /\ UNCHANGED nodes
    /\ mpc' = AfterTimer(k) /\ arg' = NoFd /\ UNCHANGED <<mqfd, conn, sock>>

StdinAdd ==
    /\ mpc = "stdin" /\ mpc' = "listen"
    /\ Added(Stdin) \/ NotAdded
    /\ UNCHANGED <<open, fds, arg>>

(* zigbee_serialinit; zigbee_init goes on whatever comes of it.  Where     *)
(* setsockopt fails the number is stored, also if bind or listen fails.    *)
Listen ==
    /\ mpc = "listen"
    /\ \/ /\ \E fd \in Fd : Open(fd, "listen") /\ arg' = fd /\ sock' \in {NoFd, fd}
          /\ mpc' = "add"
       \/ /\ sock' \in {fd \in Fd : open[fd] = "free"} \cup {NoFd}
          /\ mpc' = "ten" /\ UNCHANGED <<open, arg>>
    /\ UNCHANGED <<nodes, watch, timer, mqfd, conn>>

ListenAdd ==
    /\ mpc = "add" /\ open[arg] = "listen"
    /\ Added(arg) \/ NotAdded
    /\ mpc' = "ten" /\ arg' = NoFd /\ UNCHANGED <<open, fds>>

-----------------------------------------------------------------------------
(* Service.  The event's pointer tells procedure and descriptor; timers,   *)
(* queue and console change nothing here.                                  *)
Ready(fd, k) == mpc = "serve" /\ watch[fd] # Null /\ heap[watch[fd]].for = k

(* zigbee_serialconnectcallback accepts a connection, ...                  *)
Accept(fd) ==
    /\ Ready(fd, "listen") /\ open[heap[watch[fd]].fd] = "listen"
    /\ \E new \in Fd : Open(new, "conn") /\ arg' = new
    /\ mpc' = IF conn = NoFd THEN "assign" ELSE "replace"
    /\ UNCHANGED <<nodes, watch, fds>>

(* Variant of the next definition: only the kernel is told.                *)
ReplaceKeepsNode ==
    /\ mpc = "replace" /\ mpc' = "closeold"
    /\ watch' = [e \in Fd |-> IF e = conn THEN Null ELSE watch[e]]
    /\ UNCHANGED <<open, nodes, fds, arg>>

(* ... takes the old one out of the list, ...                              *)
Replace ==
    /\ mpc = "replace" /\ mpc' = "closeold"
    /\ EpollDel(conn)
    /\ UNCHANGED <<open, fds, arg>>

(* Variant of the next definition: the old connection is only forgotten.   *)
CloseOldKeeps ==
    /\ mpc = "closeold" /\ mpc' = "assign" /\ conn' = NoFd
    /\ UNCHANGED <<open, nodes, watch, timer, mqfd, sock, arg>>

(* ... closes it ...                                                       *)
CloseOld ==
    /\ mpc = "closeold" /\ mpc' = "assign"
    /\ Close(conn) /\ conn' = NoFd
    /\ UNCHANGED <<nodes, timer, mqfd, sock, arg>>

(* ... and keeps and watches the new one.                                  *)
Assign ==
    /\ mpc = "assign" /\ mpc' = "serve"
    /\ conn' = arg /\ arg' = NoFd
    /\ Added(arg) \/ NotAdded
    /\ UNCHANGED <<open, timer, mqfd, sock>>

(* zigbee_serialmsgcallback reads the end of the connection.               *)
Eof(fd) ==
    /\ Ready(fd, "conn") /\ arg' = heap[watch[fd]].fd
    /\ EpollDel(heap[watch[fd]].fd) /\ mpc' = "close"
    /\ UNCHANGED <<open, fds>>

EofClose ==
    /\ mpc = "close" /\ mpc' = "serve"
    /\ Close(arg) /\ conn' = NoFd /\ arg' = NoFd
    /\ UNCHANGED <<nodes, timer, mqfd, sock>>

(* Sockets of libmosquitto's thread.                                       *)
Foreign(fd) ==
    /\ \/ Open(fd, "foreign") /\ UNCHANGED watch
       \/ open[fd] = "foreign" /\ Close(fd)
    /\ UNCHANGED <<nodes, fds, mpc, arg>>

-----------------------------------------------------------------------------
(* epoll_wait fails, or hali_main_baseinit has.                            *)
MainBreak ==
    /\ mpc \in {"listen", "serve"} /\ mpc' = "fini"
    /\ UNCHANGED <<open, nodes, watch, fds, arg>>

(* zigbee_serialfini: with a connection too, it is sock that is taken out. *)
SerialFini ==
    /\ mpc = "fini" /\ mpc' = "timerdel"
    /\ EpollDel(sock)
    /\ UNCHANGED <<open, fds, arg>>

(* hali_timer_destroy(g_timerfd), whatever that number is by now.          *)
TimerDel ==
    /\ mpc = "timerdel" /\ mpc' = "timerclose"
    /\ EpollDel(timer["second"])
    /\ UNCHANGED <<open, fds, arg>>

TimerClose ==
    /\ mpc = "timerclose" /\ mpc' = "mqdel"
    /\ Close(timer["second"])
    /\ UNCHANGED <<nodes, fds, arg>>

MqDel ==
    /\ mpc = "mqdel" /\ mpc' = "mqclose"
    /\ EpollDel(mqfd)
    /\ UNCHANGED <<open, fds, arg>>

MqClose ==
    /\ mpc = "mqclose" /\ mpc' = "epclose"
    /\ Close(mqfd)
    /\ UNCHANGED <<nodes, fds, arg>>

(* hali_mainthread_fini closes the epoll descriptor itself.                *)
EpollClose ==
    /\ mpc = "epclose" /\ mpc' = "off"
    /\ watch' = [fd \in Fd |-> Null]
    /\ UNCHANGED <<open, nodes, fds, arg>>

Next == \/ MqOpen \/ MqAdd \/ StdinAdd \/ Listen \/ ListenAdd
        \/ \E k \in Timer : TimerOpen(k) \/ TimerAdd(k)
        \/ Replace \/ CloseOld \/ Assign \/ EofClose
        \/ \E fd \in Fd : Accept(fd) \/ Eof(fd) \/ Foreign(fd)
        \/ MainBreak \/ SerialFini \/ TimerDel \/ TimerClose \/ MqDel \/ MqClose \/ EpollClose

Spec == Init /\ [][Next]_vars

-----------------------------------------------------------------------------
(* hali_epoll_schedule calls through data.ptr: each pointer in the         *)
(* interest set is an allocated node for the descriptor it is stored with, *)
(* with the procedure for what that descriptor is now.                     *)
DispatchSound ==
    \A fd \in Fd : watch[fd] # Null =>
        watch[fd] \in list /\ heap[watch[fd]] = [fd |-> fd, for |-> open[fd]]

(* Each listed node is for a descriptor that is open, no two for the same: *)
(* hali_epoll_add never refuses a number because it was in use before.     *)
ListSound ==
    /\ \A c \in list : heap[c].fd \in Fd /\ open[heap[c].fd] = heap[c].for
    /\ \A c, e \in list : heap[c].fd = heap[e].fd => c = e

(* Whenever main waits for events, the connection the hub writes to is the *)
(* one that is open, and no other is.                                      *)
OneConnection ==
    mpc = "serve" => {fd \in Fd : open[fd] = "conn"} = {conn} \ {NoFd}

(* A dispatcher: the procedure of a number is that of its node.            *)
D == INSTANCE Dispatcher
     WITH Free <- "free",
          reg <- [fd \in Fd |-> IF watch[fd] = Null THEN "free" ELSE heap[watch[fd]].for]
ImplementsDispatcher == D!Spec
=============================================================================
