----------------------------- MODULE HaliThread -----------------------------
(***************************************************************************)
(* Bring-up, message passing and shutdown of the threads of the HALI       *)
(* gateway (src/application/hali/app): hali_main.c, hali_initthread.c,     *)
(* hali_thread.c, hali_threadmgr.c, hali_threadmsg.c, hali_sem.c,          *)
(* hali_mainthread.c, hali_workthread.c, hali_svrthread.c, list.h.         *)
(*                                                                         *)
(* The main thread creates WorkMax WORK and SvrMax SVR threads.  Each one  *)
(* links its own node, without a lock, at the head of the list of its      *)
(* type, posts g_thrdSyn and runs an epoll loop on its message queue.      *)
(* Main waits for all posts, then runs its own loop, whose 1 s timer sends *)
(* a heap buffer by pointer to thread (WORK, 1).                           *)
(***************************************************************************)
EXTENDS Naturals, Sequences, FiniteSets

CONSTANTS WorkMax,      \* HALI_WORKTHRDNUM_MAX
          SvrMax,       \* HALI_SVRTHRDNUM_MAX
          MqMax,        \* mq_maxmsg of a thread's message queue
          Buf,          \* heap buffers malloc can return
          NoBuf,        \* the null pointer, for buffers
          Faults        \* calls that may fail in this instance

ASSUME CountsAssumption == WorkMax \in Nat /\ SvrMax \in Nat /\ 2 <= WorkMax
ASSUME MqAssumption == MqMax \in Nat \ {0}
ASSUME NoBufAssumption == NoBuf \notin Buf

ToolNum == WorkMax + SvrMax
Threads == 1..ToolNum
NoNode  == 0
Node    == 0..ToolNum
Target  == 2            \* the thread (WORK, 1) of hali_mainthread_timeout
Types   == {"WORK", "SVR"}

VARIABLES
  mpc,            \* where main() is
  ulret,          \* main's ulret = ERROR_SUCCESS so far
  ulindex,        \* next thread hali_inithread_init creates
  uitoll,         \* g_uitollthrdnum
  icnt,           \* semaphore waits main has completed
  mainnode,       \* main's own node is in the MAIN list
  sem,            \* value of g_thrdSyn
  semlive,        \* g_thrdSyn initialised and not destroyed
  procs,          \* g_workmsgproc/g_svrmsgproc[BASIC] registered
  tpc,            \* where each created thread is
  pfirst,         \* g_authrdmgr[type].sthrdnodehead.pfirst
  pnext,          \* stnode.pnext of each thread's node
  pred,           \* sl_del's local pointer: the node before the deleted one
  mq,             \* the message queue of each thread: pointers to buffers
  alloc,          \* buffers malloc'ed and not freed
  sbuf,           \* hali_threadmsg_sendmsg's pbuf while main sends
  rbuf            \* the pbuf of the message each thread is processing

mainvars == <<mpc, ulret, ulindex, uitoll, icnt, mainnode>>
semvars  == <<sem, semlive>>
listvars == <<pfirst, pnext, pred>>
bufvars  == <<mq, alloc, sbuf, rbuf>>
vars == <<mainvars, semvars, procs, tpc, listvars, bufvars>>

MainPc == {"base", "base2", "create", "module", "wait", "loop", "send",
           "customfini", "semfini", "mainfini", "hangfini", "exit"}
ThreadPc == {"none", "born", "linked", "added", "loop", "proc", "broke",
             "unlinking", "freeing", "ended"}

TypeOf(t) == IF t <= WorkMax THEN "WORK" ELSE "SVR"
OfType(ty) == {t \in Threads : TypeOf(t) = ty}

\* The nodes a walk from the list head meets: those in every set that holds
\* the first node and is closed under pnext.
Reach(ty) ==
  {t \in OfType(ty) :
     \A S \in SUBSET OfType(ty) :
       (/\ pfirst[ty] \in S \cup {NoNode}
        /\ \A n \in S : pnext[n] \in S \cup {NoNode}) => t \in S}

Registered(t) == t \in Reach(TypeOf(t))

\* Threads that have posted the semaphore.
Posted == {t \in Threads : tpc[t] \notin {"none", "born", "linked", "added"}}

Alive == mpc # "exit"

\* main() has returned from hali_main_thrdwait.
PastWait == mpc \notin {"base", "base2", "create", "module", "wait"}

-----------------------------------------------------------------------------
Init ==
  /\ mpc = "base" /\ ulret = FALSE /\ ulindex = 1 /\ uitoll = 0 /\ icnt = 0
  /\ mainnode = FALSE
  /\ sem = 0 /\ semlive = TRUE /\ procs = TRUE
  /\ tpc = [t \in Threads |-> "none"]
  /\ pfirst = [ty \in Types |-> NoNode]
  /\ pnext = [t \in Threads |-> NoNode]
  /\ pred = [t \in Threads |-> NoNode]
  /\ mq = [t \in Threads |-> << >>]
  /\ alloc = {} /\ sbuf = NoBuf
  /\ rbuf = [t \in Threads |-> NoBuf]

\* hali_main_baseinit, first part: hali_mainthread_init links main's own node,
\* puts its queue, the 1 s timer and stdin under epoll, or undoes what it did.
MainthreadInit ==
  /\ mpc = "base" /\ mpc' = "base2"
  /\ \/ ulret' = TRUE /\ mainnode' = TRUE
     \/ "mainthread" \in Faults /\ ulret' = FALSE /\ UNCHANGED mainnode
  /\ UNCHANGED <<ulindex, uitoll, icnt, semvars, procs, tpc, listvars, bufvars>>

\* The rest of it: semaphore and broker connection, whose results are or-ed.
\* Any failure skips hali_main_custominit.
BaseInit ==
  /\ mpc = "base2"
  /\ \/ UNCHANGED ulret
     \/ "base" \in Faults /\ ulret' = FALSE
  /\ mpc' = IF ulret' THEN "create" ELSE "wait"
  /\ UNCHANGED <<ulindex, uitoll, icnt, mainnode, semvars, procs, tpc, listvars, bufvars>>

\* hali_thread_create for the next thread.  epoll_create or mq_open failing
\* destroys the node and is reported; pthread_create failing returns a
\* positive errno, which "-1 == iret" takes for success.
CreateThread ==
  /\ mpc = "create" /\ ulindex \in Threads
  /\ ulindex' = ulindex + 1
  /\ \/ tpc' = [tpc EXCEPT ![ulindex] = "born"] /\ UNCHANGED ulret
     \/ "create" \in Faults /\ ulret' = FALSE /\ UNCHANGED tpc
     \/ "pthread" \in Faults /\ UNCHANGED <<ulret, tpc>>
  /\ UNCHANGED <<mpc, uitoll, icnt, mainnode, semvars, procs, listvars, bufvars>>

\* Variant of ThreadsCreated: the count includes the main thread.
ThreadsCreatedWithMain ==
  /\ mpc = "create" /\ ulindex \notin Threads
  /\ uitoll' = IF ulret THEN ToolNum + 1 ELSE uitoll
  /\ mpc' = "module"
  /\ UNCHANGED <<ulret, ulindex, icnt, mainnode, semvars, procs, tpc, listvars, bufvars>>

\* The end of hali_inithread_init: the count main waits for is set only when
\* every creation reported success.
ThreadsCreated ==
  /\ mpc = "create" /\ ulindex \notin Threads
  /\ uitoll' = IF ulret THEN ToolNum ELSE uitoll
  /\ mpc' = "module"
  /\ UNCHANGED <<ulret, ulindex, icnt, mainnode, semvars, procs, tpc, listvars, bufvars>>

\* hali_module_init, whose result is or-ed into custominit's.
ModuleInit ==
  /\ mpc = "module"
  /\ mpc' = "wait"
  /\ UNCHANGED ulret \/ ("module" \in Faults /\ ulret' = FALSE)
  /\ UNCHANGED <<ulindex, uitoll, icnt, mainnode, semvars, procs, tpc, listvars, bufvars>>

\* One round of hali_main_thrdwait: sem_wait blocks while the value is zero.
ThrdWait ==
  /\ mpc = "wait" /\ icnt < uitoll
  /\ sem > 0
  /\ sem' = sem - 1 /\ icnt' = icnt + 1
  /\ UNCHANGED <<mpc, ulret, ulindex, uitoll, mainnode, semlive, procs, tpc, listvars, bufvars>>

\* Variant of ThrdWaitDone: the loop bound is one too small.
ThrdWaitDoneEarly ==
  /\ mpc = "wait" /\ icnt + 1 >= uitoll
  /\ mpc' = IF ulret THEN "loop" ELSE "customfini"
  /\ UNCHANGED <<ulret, ulindex, uitoll, icnt, mainnode, semvars, procs, tpc, listvars, bufvars>>

ThrdWaitDone ==
  /\ mpc = "wait" /\ icnt >= uitoll
  /\ mpc' = IF ulret THEN "loop" ELSE "customfini"
  /\ UNCHANGED <<ulret, ulindex, uitoll, icnt, mainnode, semvars, procs, tpc, listvars, bufvars>>

\* Variant of TimeoutSend: the node is used without looking it up in the list.
TimeoutSendNoLookup ==
  /\ mpc = "loop"
  /\ \E b \in Buf \ alloc : alloc' = alloc \cup {b} /\ sbuf' = b
  /\ mpc' = "send"
  /\ UNCHANGED <<ulret, ulindex, uitoll, icnt, mainnode, semvars, procs, tpc, listvars, mq, rbuf>>

\* hali_mainthread_timeout up to mq_send: hali_threadmgr_getnode finds the
\* target's node and the payload is copied to a fresh buffer.
TimeoutSend ==
  /\ mpc = "loop" /\ Registered(Target)
  /\ \E b \in Buf \ alloc : alloc' = alloc \cup {b} /\ sbuf' = b
  /\ mpc' = "send"
  /\ UNCHANGED <<ulret, ulindex, uitoll, icnt, mainnode, semvars, procs, tpc, listvars, mq, rbuf>>

\* The node is not in the list, or malloc fails: the tick is lost silently.
TimeoutLost ==
  /\ mpc = "loop" /\ (~Registered(Target) \/ alloc = Buf)
  /\ UNCHANGED vars

\* Variants of MqSend: the copy is freed although the message was sent; a full
\* queue does not block.
MqSendFrees ==
  /\ mpc = "send" /\ Len(mq[Target]) < MqMax
  /\ mq' = [mq EXCEPT ![Target] = Append(@, sbuf)]
  /\ alloc' = alloc \ {sbuf} /\ sbuf' = NoBuf /\ mpc' = "loop"
  /\ UNCHANGED <<ulret, ulindex, uitoll, icnt, mainnode, semvars, procs, tpc, listvars, rbuf>>
MqSendUnbounded ==
  /\ mpc = "send"
  /\ mq' = [mq EXCEPT ![Target] = Append(@, sbuf)]
  /\ sbuf' = NoBuf /\ mpc' = "loop"
  /\ UNCHANGED <<ulret, ulindex, uitoll, icnt, mainnode, semvars, procs, tpc, listvars, alloc, rbuf>>

\* mq_send blocks while the queue is full.
MqSend ==
  /\ mpc = "send" /\ Len(mq[Target]) < MqMax
  /\ mq' = [mq EXCEPT ![Target] = Append(@, sbuf)]
  /\ sbuf' = NoBuf /\ mpc' = "loop"
  /\ UNCHANGED <<ulret, ulindex, uitoll, icnt, mainnode, semvars, procs, tpc, listvars, alloc, rbuf>>

\* mq_send returned -1: the copy is freed by the sender.
MqSendFails ==
  /\ mpc = "send" /\ "mqsend" \in Faults
  /\ alloc' = alloc \ {sbuf} /\ sbuf' = NoBuf /\ mpc' = "loop"
  /\ UNCHANGED <<ulret, ulindex, uitoll, icnt, mainnode, semvars, procs, tpc, listvars, mq, rbuf>>

\* epoll_wait returned -1 (EINTR after a stop and continue): the loop ends.
MainBreak ==
  /\ mpc = "loop" /\ "eintr" \in Faults
  /\ mpc' = "customfini"
  /\ UNCHANGED <<ulret, ulindex, uitoll, icnt, mainnode, semvars, procs, tpc, listvars, bufvars>>

CustomFini ==
  /\ mpc = "customfini" /\ mpc' = "semfini"
  /\ UNCHANGED <<ulret, ulindex, uitoll, icnt, mainnode, semvars, procs, tpc, listvars, bufvars>>

\* hali_main_basefini: the semaphore is destroyed first, then main's node with
\* its timer, queue and epoll descriptor; the message procedures are
\* unregistered last, then main returns and the process ends.
SemFini ==
  /\ mpc = "semfini" /\ mpc' = "mainfini" /\ semlive' = FALSE
  /\ UNCHANGED <<ulret, ulindex, uitoll, icnt, mainnode, sem, procs, tpc, listvars, bufvars>>

MainthreadFini ==
  /\ mpc = "mainfini" /\ mpc' = "hangfini"
  /\ mainnode' = FALSE
  /\ UNCHANGED <<ulret, ulindex, uitoll, icnt, semvars, procs, tpc, listvars, bufvars>>

HangingFini ==
  /\ mpc = "hangfini" /\ procs
  /\ procs' = FALSE
  /\ UNCHANGED <<mainvars, semvars, tpc, listvars, bufvars>>

MainReturns ==
  /\ mpc = "hangfini" /\ ~procs
  /\ mpc' = "exit"
  /\ UNCHANGED <<ulret, ulindex, uitoll, icnt, mainnode, semvars, procs, tpc, listvars, bufvars>>

-----------------------------------------------------------------------------
Goto(t, from, to) ==
  /\ Alive /\ tpc[t] = from
  /\ tpc' = [tpc EXCEPT ![t] = to]

\* sl_addhead is two unlocked writes: pnode->pnext = phead->pfirst ...
AddHeadLink(t) ==
  /\ Goto(t, "born", "linked")
  /\ pnext' = [pnext EXCEPT ![t] = pfirst[TypeOf(t)]]
  /\ UNCHANGED <<mainvars, semvars, procs, pfirst, pred, bufvars>>

\* ... phead->pfirst = pnode.
AddHeadPublish(t) ==
  /\ Goto(t, "linked", "added")
  /\ pfirst' = [pfirst EXCEPT ![TypeOf(t)] = t]
  /\ UNCHANGED <<mainvars, semvars, procs, pnext, pred, bufvars>>

SemPost(t) ==
  /\ Goto(t, "added", "loop")
  /\ sem' = sem + 1
  /\ UNCHANGED <<mainvars, semlive, procs, listvars, bufvars>>

\* hali_thread_mqmsgcallbackproc: the thread receives only if it finds its own
\* node by its pthread id; otherwise it returns with the message still queued.
MqReceive(t) ==
  /\ Goto(t, "loop", "proc")
  /\ mq[t] # << >> /\ Registered(t)
  /\ rbuf' = [rbuf EXCEPT ![t] = Head(mq[t])]
  /\ mq' = [mq EXCEPT ![t] = Tail(@)]
  /\ UNCHANGED <<mainvars, semvars, procs, listvars, alloc, sbuf>>

\* Variant of MsgProc: the message procedure does not free the buffer.
MsgProcKeeps(t) ==
  /\ Goto(t, "proc", "loop")
  /\ rbuf' = [rbuf EXCEPT ![t] = NoBuf]
  /\ UNCHANGED <<mainvars, semvars, procs, listvars, mq, alloc, sbuf>>

\* hali_inithread_workmsgproc: the registered procedure frees the buffer; with
\* none registered nobody does.
MsgProc(t) ==
  /\ Goto(t, "proc", "loop")
  /\ alloc' = IF procs THEN alloc \ {rbuf[t]} ELSE alloc
  /\ rbuf' = [rbuf EXCEPT ![t] = NoBuf]
  /\ UNCHANGED <<mainvars, semvars, procs, listvars, mq, sbuf>>

\* epoll_wait fails in the thread: hali_workthread_fini does nothing,
\* hali_svrthread_fini goes on to unlink and free the node.
EpollBreak(t) ==
  /\ "eintr" \in Faults
  /\ Goto(t, "loop", IF TypeOf(t) = "WORK" THEN "ended" ELSE "broke")
  /\ UNCHANGED <<mainvars, semvars, procs, listvars, bufvars>>

\* hali_threadmgr_del4list finds the node, sl_del finds the one before it ...
DelFind(t) ==
  LET before == {p \in Reach("SVR") : pnext[p] = t}
  IN  /\ Goto(t, "broke", IF Registered(t) THEN "unlinking" ELSE "freeing")
      /\ pred' = [pred EXCEPT ![t] = IF before = {} THEN NoNode
                                     ELSE CHOOSE p \in before : TRUE]
      /\ UNCHANGED <<mainvars, semvars, procs, pfirst, pnext, bufvars>>

\* ... and unlinks it, again without a lock.
DelUnlink(t) ==
  /\ Goto(t, "unlinking", "freeing")
  /\ IF pred[t] = NoNode
       THEN pfirst' = [pfirst EXCEPT !["SVR"] = pnext[t]] /\ UNCHANGED pnext
       ELSE pnext' = [pnext EXCEPT ![pred[t]] = pnext[t]] /\ UNCHANGED pfirst
  /\ UNCHANGED <<mainvars, semvars, procs, pred, bufvars>>

\* hali_threadmgr_destroy frees the node; the thread returns.
NodeFree(t) ==
  /\ Goto(t, "freeing", "ended")
  /\ UNCHANGED <<mainvars, semvars, procs, listvars, bufvars>>

-----------------------------------------------------------------------------
MainSteps ==
  \/ MainthreadInit \/ BaseInit \/ CreateThread \/ ThreadsCreated \/ ModuleInit
  \/ ThrdWait \/ ThrdWaitDone \/ MqSend
  \/ CustomFini \/ SemFini \/ MainthreadFini \/ HangingFini \/ MainReturns

MainEvents == TimeoutSend \/ TimeoutLost \/ MqSendFails \/ MainBreak

Startup(t) == AddHeadLink(t) \/ AddHeadPublish(t) \/ SemPost(t)
Serve(t)   == MqReceive(t) \/ MsgProc(t)
Leave(t)   == EpollBreak(t) \/ DelFind(t) \/ DelUnlink(t) \/ NodeFree(t)

Next == MainSteps \/ MainEvents \/ \E t \in Threads : Startup(t) \/ Serve(t) \/ Leave(t)

Spec == Init /\ [][Next]_vars

\* Every thread is scheduled: what main and a thread can do next without
\* outside help is done, but no timer tick and no interruption is promised.
Fairness ==
  /\ WF_vars(MainSteps)
  /\ \A t \in Threads : WF_vars(Startup(t) \/ Serve(t))

FairSpec == Spec /\ Fairness

-----------------------------------------------------------------------------
TypeOK ==
  /\ mpc \in MainPc /\ ulret \in BOOLEAN /\ ulindex \in 1..(ToolNum + 1)
  /\ uitoll \in {0, ToolNum} /\ icnt \in Nat /\ sem \in Nat
  /\ mainnode \in BOOLEAN /\ semlive \in BOOLEAN /\ procs \in BOOLEAN
  /\ tpc \in [Threads -> ThreadPc]
  /\ pfirst \in [Types -> Node] /\ pnext \in [Threads -> Node]
  /\ pred \in [Threads -> Node]
  /\ mq \in [Threads -> Seq(Buf)]
  /\ alloc \subseteq Buf /\ sbuf \in Buf \cup {NoBuf}
  /\ rbuf \in [Threads -> Buf \cup {NoBuf}]

Queued(t) == {mq[t][i] : i \in 1..Len(mq[t])}
Held == {b \in Buf : \/ b = sbuf
                     \/ \E t \in Threads : b = rbuf[t] \/ b \in Queued(t)}

\* A message carries a pointer and its receiver frees it: so a buffer that
\* anybody still holds is allocated, and no two holders (main in mq_send, a
\* queue slot, a thread in its message procedure) have the same one.  Broken,
\* it is a use after free or a double free (hali_threadmsg.c:61-79,
\* hali_workthread.c:82).
BufferOwnership ==
  /\ Held \subseteq alloc
  /\ sbuf # NoBuf => \A t \in Threads : sbuf # rbuf[t] /\ sbuf \notin Queued(t)
  /\ \A t, u \in Threads : rbuf[t] # NoBuf =>
       rbuf[t] \notin Queued(u) /\ (rbuf[t] = rbuf[u] => t = u)
  /\ \A t \in Threads : \A i, j \in 1..Len(mq[t]) : mq[t][i] = mq[t][j] => i = j
  /\ \A t, u \in Threads : t # u => Queued(t) \cap Queued(u) = {}

\* As long as the message procedures are registered no buffer is lost: one that
\* is allocated is held by somebody who will free it.
NoLeak == procs => alloc \subseteq Held

\* Once main is past hali_main_thrdwait with a successful initialisation,
\* every thread has finished its own: it is linked (or was overwritten) and has
\* posted, so main neither walks a list in flux nor destroys a semaphore
\* somebody is about to post (hali_main.c:95-103, 125-133, 41).
BringUpComplete ==
  PastWait /\ ulret => Posted = Threads

\* A message is queued only for a thread that can find its own node; otherwise
\* hali_thread_mqmsgcallbackproc returns without receiving and its level-
\* triggered epoll loop spins for ever (hali_thread.c:123-128).
Deliverable == \A t \in Threads : mq[t] # << >> => Registered(t)

\* While main uses a node pointer it got from hali_threadmgr_getnode, and may
\* block on it in mq_send, nobody changes the WORK list (hali_threadmsg.c:57-70).
WorkListFixed ==
  mpc \in {"loop", "send"} =>
    /\ pfirst'["WORK"] = pfirst["WORK"]
    /\ \A t \in OfType("WORK") : pnext'[t] = pnext[t]
WorkListStable == [][WorkListFixed]_vars

\* Without failures main gets through its wait and serves its loop.
MainServes == <>(mpc = "loop")

\* Without failures every buffer that is allocated is freed again: mq_send does
\* not block for ever and the receiver gets to every message.
BufferReturned == \A b \in Buf : b \in alloc ~> b \notin alloc

\* "Wait until every thread has been initialised" (hali_main.c:125): when main
\* runs its loop every thread's node is in the list of its type.
AllRegistered == mpc \in {"loop", "send"} => \A t \in Threads : Registered(t)

-----------------------------------------------------------------------------
OwnerOf(b) ==
  CASE b = sbuf -> "sender"
    [] \E t \in Threads : b = rbuf[t] -> "receiver"
    [] b \in Queued(Target) -> "queue"
    [] b \in alloc /\ b \notin Held -> "lost"
    [] OTHER -> "heap"
owners == [b \in Buf |-> OwnerOf(b)]

\* The queue to the target hands over buffers as BufChannel says.
Chan == INSTANCE BufChannel WITH
          Cap <- MqMax, owner <- owners,
          fifo <- mq[Target], open <- procs

\* Every step of the threads is a step of the ownership-passing channel.
ImplementsChannel == Chan!ChanSpec

-----------------------------------------------------------------------------
(* The inductive invariant behind the safety properties.                   *)

\* The semaphore counts the posts main has not consumed yet, and main has
\* consumed one post per thread once it is past a successful start.
HandshakeInv ==
  /\ sem + icnt = Cardinality(Posted)
  /\ \A t \in Threads : ulindex <= t => tpc[t] = "none"
  /\ mpc \in {"base", "base2", "create"} => uitoll = 0
  /\ mpc \in {"module", "wait"} /\ ulret => uitoll = ToolNum
  /\ PastWait /\ ulret => icnt = ToolNum
  /\ mpc \in {"loop", "send"} => ulret

\* Only SVR threads unlink nodes, and only nodes of the SVR list.
ListInv ==
  \A t \in Threads :
    /\ tpc[t] \in {"broke", "unlinking", "freeing"} => TypeOf(t) = "SVR"
    /\ pred[t] \in OfType("SVR") \cup {NoNode}

\* Messages exist only for the target, after the start, with its node linked.
MsgInv ==
  /\ \A t \in Threads : mq[t] # << >> => t = Target
  /\ mq[Target] # << >> \/ mpc = "send" =>
       PastWait /\ ulret /\ Registered(Target)

\* The local pointers are in use exactly at their program points.
LocalInv ==
  /\ sbuf # NoBuf <=> mpc = "send"
  /\ \A t \in Threads : rbuf[t] # NoBuf => tpc[t] = "proc" /\ t = Target
  /\ \A t \in Threads : tpc[t] = "proc" => rbuf[t] # NoBuf

IInv == TypeOK /\ HandshakeInv /\ ListInv /\ MsgInv /\ LocalInv
=============================================================================
