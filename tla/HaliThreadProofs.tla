-------------------------- MODULE HaliThreadProofs --------------------------
(* Proofs about HaliThread, for every number of threads, queue length,      *)
(* set of buffers and set of faults.                                        *)
EXTENDS HaliThread, FiniteSetTheorems, TLAPS

\* The constants as the provers need them: the target is one of the threads.
LEMMA Numbers ==
  /\ ToolNum \in Nat /\ Target \in Threads /\ NoNode \notin Threads
  /\ TypeOf(Target) = "WORK" /\ Threads \subseteq Node /\ NoNode \in Node
  /\ \A t \in Threads : TypeOf(t) \in Types
  /\ \A t \in Threads : t \in Nat /\ t <= ToolNum /\ 1 <= t
BY CountsAssumption DEF ToolNum, Target, Threads, NoNode, TypeOf, Node, Types

\* TypeOK alone does not say that mq_send is given a buffer; with this it is
\* inductive.
SendInv == sbuf # NoBuf <=> mpc = "send"

LEMMA InitTyped == Init => TypeOK /\ SendInv
<1> SUFFICES ASSUME Init PROVE TypeOK /\ SendInv
  OBVIOUS
<1> USE Numbers DEF Init
<1>1. mq \in [Threads -> Seq(Buf)] /\ rbuf \in [Threads -> Buf \cup {NoBuf}]
  OBVIOUS
<1>2. tpc \in [Threads -> ThreadPc] /\ pfirst \in [Types -> Node]
      /\ pnext \in [Threads -> Node] /\ pred \in [Threads -> Node]
  BY DEF ThreadPc
<1>3. mpc \in MainPc /\ ulindex \in 1..(ToolNum + 1) /\ sbuf = NoBuf /\ mpc # "send"
  BY DEF MainPc
<1> QED BY <1>1, <1>2, <1>3 DEF TypeOK, SendInv

LEMMA MainTyped ==
  ASSUME TypeOK, SendInv, MainSteps \/ MainEvents PROVE TypeOK' /\ SendInv'
<1> USE Numbers DEF SendInv
<1>1. CASE MainthreadInit \/ BaseInit
  BY <1>1 DEF TypeOK, MainthreadInit, BaseInit, MainPc, semvars, listvars, bufvars
<1>2. CASE CreateThread
  <2>1. ulindex' \in 1..(ToolNum + 1)
    BY <1>2 DEF TypeOK, CreateThread, Threads
  <2>2. tpc' \in [Threads -> ThreadPc] /\ ulret' \in BOOLEAN
    BY <1>2 DEF TypeOK, CreateThread, ThreadPc
  <2> QED BY <1>2, <2>1, <2>2 DEF TypeOK, CreateThread, semvars, listvars, bufvars
<1>3. CASE ThreadsCreated
  BY <1>3 DEF TypeOK, ThreadsCreated, MainPc, semvars, listvars, bufvars
<1>4. CASE ModuleInit
  BY <1>4 DEF TypeOK, ModuleInit, MainPc, semvars, listvars, bufvars
<1>5. CASE ThrdWait
  BY <1>5 DEF TypeOK, ThrdWait, listvars, bufvars
<1>6. CASE ThrdWaitDone
  BY <1>6 DEF TypeOK, ThrdWaitDone, MainPc, semvars, listvars, bufvars
<1>7. CASE MqSend
  <2>1. sbuf \in Buf
    BY <1>7 DEF TypeOK, MqSend
  <2>2. mq' \in [Threads -> Seq(Buf)]
    BY <1>7, <2>1 DEF TypeOK, MqSend
  <2> QED BY <1>7, <2>2 DEF TypeOK, MqSend, MainPc, semvars, listvars
<1>8. CASE CustomFini \/ SemFini \/ MainthreadFini \/ HangingFini \/ MainReturns
  BY <1>8 DEF TypeOK, CustomFini, SemFini, MainthreadFini, HangingFini, MainReturns,
              MainPc, mainvars, semvars, listvars, bufvars
<1>9. CASE TimeoutSend
  BY <1>9, NoBufAssumption DEF TypeOK, TimeoutSend, MainPc, semvars, listvars
<1>10. CASE TimeoutLost \/ MqSendFails \/ MainBreak
  BY <1>10 DEF TypeOK, TimeoutLost, MqSendFails, MainBreak,
               MainPc, vars, mainvars, semvars, listvars, bufvars
<1> QED BY <1>1, <1>2, <1>3, <1>4, <1>5, <1>6, <1>7, <1>8, <1>9, <1>10
        DEF MainSteps, MainEvents

LEMMA ThreadTyped ==
  ASSUME TypeOK, SendInv, NEW t \in Threads, Startup(t) \/ Serve(t) \/ Leave(t)
  PROVE  TypeOK' /\ SendInv'
<1> USE Numbers DEF SendInv
<1>1. CASE AddHeadLink(t)
  <2>1. pnext' \in [Threads -> Node]
    BY <1>1 DEF TypeOK, AddHeadLink
  <2> QED BY <1>1, <2>1 DEF TypeOK, AddHeadLink, Goto, ThreadPc, mainvars, semvars, bufvars
<1>2. CASE AddHeadPublish(t)
  <2>1. pfirst' \in [Types -> Node]
    BY <1>2 DEF TypeOK, AddHeadPublish
  <2> QED BY <1>2, <2>1 DEF TypeOK, AddHeadPublish, Goto, ThreadPc, mainvars, semvars, bufvars
<1>3. CASE SemPost(t)
  BY <1>3 DEF TypeOK, SemPost, Goto, ThreadPc, mainvars, listvars, bufvars
<1>4. CASE MqReceive(t)
  BY <1>4 DEF TypeOK, MqReceive, Goto, ThreadPc, mainvars, semvars, listvars
<1>5. CASE MsgProc(t)
  BY <1>5 DEF TypeOK, MsgProc, Goto, ThreadPc, mainvars, semvars, listvars
<1>6. CASE DelFind(t)
  <2>1. \A p \in Reach("SVR") : p \in Node
    BY DEF Reach, OfType
  <2>2. pred' \in [Threads -> Node]
    BY <1>6, <2>1 DEF TypeOK, DelFind
  <2> QED BY <1>6, <2>2 DEF TypeOK, DelFind, Goto, ThreadPc, mainvars, semvars, bufvars
<1>7. CASE DelUnlink(t)
  BY <1>7 DEF TypeOK, DelUnlink, Goto, ThreadPc, Types, mainvars, semvars, bufvars
<1>8. CASE EpollBreak(t) \/ NodeFree(t)
  BY <1>8 DEF TypeOK, EpollBreak, NodeFree, Goto, ThreadPc, mainvars, semvars,
              listvars, bufvars
<1> QED BY <1>1, <1>2, <1>3, <1>4, <1>5, <1>6, <1>7, <1>8 DEF Startup, Serve, Leave

\* The variables keep their types: queues hold buffers, list pointers hold
\* nodes or null, counters stay natural numbers.
THEOREM TypeCorrect == Spec => []TypeOK
<1>1. (TypeOK /\ SendInv) /\ [Next]_vars => (TypeOK /\ SendInv)'
  <2> SUFFICES ASSUME TypeOK, SendInv, [Next]_vars PROVE TypeOK' /\ SendInv'
    OBVIOUS
  <2>1. CASE UNCHANGED vars
    BY <2>1 DEF TypeOK, SendInv, vars, mainvars, semvars, listvars, bufvars
  <2> QED BY <2>1, MainTyped, ThreadTyped DEF Next
<1> QED BY <1>1, InitTyped, PTL DEF Spec

-----------------------------------------------------------------------------
(* The start handshake.                                                    *)

LEMMA PostedFinite ==
  /\ IsFiniteSet(Threads) /\ Cardinality(Threads) = ToolNum
  /\ IsFiniteSet(Posted) /\ Cardinality(Posted) \in Nat
<1>1. IsFiniteSet(Threads) /\ Cardinality(Threads) = ToolNum
  BY Numbers, CountsAssumption, FS_Interval DEF Threads, ToolNum
<1>2. Posted \in SUBSET Threads
  BY DEF Posted
<1> QED BY <1>1, <1>2, FS_Subset, FS_CardinalityType

\* Only sem_post makes a thread one that has posted.
LEMMA PostedStep ==
  ASSUME TypeOK, NEW t \in Threads, Startup(t) \/ Serve(t) \/ Leave(t)
  PROVE  IF SemPost(t) THEN t \notin Posted /\ Posted' = Posted \cup {t}
                       ELSE Posted' = Posted
<1>1. CASE SemPost(t)
  BY <1>1 DEF TypeOK, SemPost, Goto, Posted
<1>2. CASE ~SemPost(t)
  <2>1. PICK to \in ThreadPc :
          /\ tpc' = [tpc EXCEPT ![t] = to]
          /\ tpc[t] \in {"none", "born", "linked", "added"} <=>
             to \in {"none", "born", "linked", "added"}
    BY <1>2 DEF Startup, Serve, Leave, Goto, ThreadPc, AddHeadLink, AddHeadPublish,
       MqReceive, MsgProc, EpollBreak, DelFind, DelUnlink, NodeFree
  <2> QED BY <1>2, <2>1 DEF TypeOK, Posted
<1> QED BY <1>1, <1>2

LEMMA InitHandshake == Init => HandshakeInv
<1> SUFFICES ASSUME Init PROVE HandshakeInv
  OBVIOUS
<1>1. Posted = {}
  BY DEF Init, Posted
<1>2. Cardinality(Posted) = 0
  BY <1>1, FS_EmptySet
<1> QED BY <1>2 DEF Init, HandshakeInv, PastWait

LEMMA MainHandshake ==
  ASSUME TypeOK, HandshakeInv, MainSteps \/ MainEvents
  PROVE  HandshakeInv'
<1> USE Numbers DEF HandshakeInv, PastWait
<1>1. CASE MainthreadInit \/ BaseInit
  BY <1>1 DEF MainthreadInit, BaseInit, Posted, semvars
<1>2. CASE CreateThread
  <2>1. Posted' = Posted
    <3>1. ulindex \in Threads /\ tpc[ulindex] = "none"
      BY <1>2 DEF CreateThread
    <3>2. CASE tpc' = [tpc EXCEPT ![ulindex] = "born"]
      BY <3>1, <3>2 DEF TypeOK, Posted
    <3>3. CASE UNCHANGED tpc
      BY <3>3 DEF Posted
    <3> QED BY <1>2, <3>2, <3>3 DEF CreateThread
  <2>2. \A t \in Threads : ulindex' <= t => tpc'[t] = "none"
    BY <1>2 DEF TypeOK, CreateThread, Threads
  <2>3. sem' + icnt' = Cardinality(Posted')
    BY <1>2, <2>1 DEF CreateThread, semvars
  <2>4. mpc' = "create" /\ uitoll' = 0
    BY <1>2 DEF CreateThread
  <2> QED BY <2>2, <2>3, <2>4
<1>3. CASE ThreadsCreated
  BY <1>3 DEF TypeOK, ThreadsCreated, Posted, semvars
<1>4. CASE ModuleInit
  BY <1>4 DEF TypeOK, ModuleInit, Posted, semvars
<1>5. CASE ThrdWait
  <2>1. sem' + icnt' = sem + icnt
    BY <1>5 DEF TypeOK, ThrdWait
  <2>2. Posted' = Posted
    BY <1>5 DEF ThrdWait, Posted
  <2>3. sem' + icnt' = Cardinality(Posted')
    BY <2>1, <2>2
  <2>4. mpc = "wait" /\ UNCHANGED <<mpc, ulret, ulindex, uitoll, tpc>>
    BY <1>5 DEF ThrdWait
  <2> QED BY <2>3, <2>4
<1>6. CASE ThrdWaitDone
  <2>1. Posted' = Posted /\ UNCHANGED <<ulret, ulindex, uitoll, icnt, sem, tpc>>
    BY <1>6 DEF ThrdWaitDone, Posted, semvars
  <2>2. ulret => icnt = ToolNum
    <3>1. ulret => ToolNum <= icnt
      BY <1>6 DEF ThrdWaitDone
    <3>2. Cardinality(Posted) <= ToolNum
      BY PostedFinite, FS_Subset DEF Posted
    <3> QED BY <3>1, <3>2, PostedFinite DEF TypeOK
  <2>3. mpc' = IF ulret THEN "loop" ELSE "customfini"
    BY <1>6 DEF ThrdWaitDone
  <2> QED BY <2>1, <2>2, <2>3
<1>7. CASE \/ MqSend \/ CustomFini \/ SemFini \/ MainthreadFini \/ HangingFini \/ MainReturns
           \/ MainEvents
  <2>1. UNCHANGED <<ulret, ulindex, uitoll, icnt, sem, tpc>>
    BY <1>7 DEF MqSend, CustomFini, SemFini, MainthreadFini, HangingFini, MainReturns, MainEvents,
       TimeoutSend, TimeoutLost, MqSendFails, MainBreak, vars, mainvars, semvars
  <2>2. PastWait /\ PastWait' /\ (mpc' \in {"loop", "send"} => mpc \in {"loop", "send"})
    BY <1>7 DEF MqSend, CustomFini, SemFini, MainthreadFini, HangingFini, MainReturns, MainEvents,
       TimeoutSend, TimeoutLost, MqSendFails, MainBreak, vars, mainvars
  <2>3. Posted' = Posted
    BY <2>1 DEF Posted
  <2> QED BY <2>1, <2>2, <2>3
<1> QED BY <1>1, <1>2, <1>3, <1>4, <1>5, <1>6, <1>7 DEF MainSteps

LEMMA ThreadHandshake ==
  ASSUME TypeOK, HandshakeInv, NEW t \in Threads, Startup(t) \/ Serve(t) \/ Leave(t)
  PROVE  HandshakeInv'
<1> USE Numbers DEF HandshakeInv, PastWait
<1>1. UNCHANGED mainvars
  BY DEF Startup, Serve, Leave, AddHeadLink, AddHeadPublish, SemPost,
     MqReceive, MsgProc, EpollBreak, DelFind, DelUnlink, NodeFree
<1>2. sem' + icnt' = Cardinality(Posted')
  <2>1. CASE SemPost(t)
    <3>1. Cardinality(Posted') = Cardinality(Posted) + 1
      BY <2>1, PostedStep, PostedFinite, FS_AddElement
    <3> QED BY <2>1, <3>1, <1>1, PostedFinite DEF TypeOK, SemPost, mainvars
  <2>2. CASE ~SemPost(t)
    <3>1. sem' = sem
      BY <2>2 DEF Startup, Serve, Leave, AddHeadLink, AddHeadPublish, MqReceive,
         MsgProc, EpollBreak, DelFind, DelUnlink, NodeFree, semvars
    <3> QED BY <2>2, <3>1, <1>1, PostedStep DEF mainvars
  <2> QED BY <2>1, <2>2
<1>3. \A u \in Threads : ulindex <= u => tpc'[u] = "none"
  <2>1. tpc[t] # "none"
    BY DEF Startup, Serve, Leave, AddHeadLink, AddHeadPublish, SemPost,
       MqReceive, MsgProc, EpollBreak, DelFind, DelUnlink, NodeFree, Goto
  <2>2. \A u \in Threads \ {t} : tpc'[u] = tpc[u]
    BY DEF TypeOK, Startup, Serve, Leave, AddHeadLink, AddHeadPublish, SemPost,
       MqReceive, MsgProc, EpollBreak, DelFind, DelUnlink, NodeFree, Goto
  <2> QED BY <2>1, <2>2
<1> QED BY <1>1, <1>2, <1>3 DEF mainvars

LEMMA HandshakeStep == TypeOK /\ HandshakeInv /\ [Next]_vars => HandshakeInv'
<1> SUFFICES ASSUME TypeOK, HandshakeInv, [Next]_vars PROVE HandshakeInv'
  OBVIOUS
<1>1. CASE UNCHANGED vars
  BY <1>1 DEF HandshakeInv, PastWait, Posted, vars, mainvars, semvars
<1> QED BY <1>1, MainHandshake, ThreadHandshake DEF Next

LEMMA AllPosted ==
  ASSUME TypeOK, HandshakeInv, PastWait, ulret PROVE Posted = Threads
<1>1. ToolNum <= Cardinality(Posted)
  BY Numbers, PostedFinite DEF TypeOK, HandshakeInv
<1>2. Posted \in SUBSET Threads
  BY DEF Posted
<1> QED BY <1>1, <1>2, Numbers, PostedFinite, FS_Subset

\* Past hali_main_thrdwait after a successful start, every thread has linked
\* its node and posted (hali_main.c:95-103, 125-133).
THEOREM BringUp == Spec => []BringUpComplete
<1>1. TypeOK /\ HandshakeInv => BringUpComplete
  BY AllPosted DEF BringUpComplete, PastWait
<1> QED BY <1>1, InitHandshake, HandshakeStep, TypeCorrect, PTL DEF Spec

-----------------------------------------------------------------------------
(* The registry and the messages.                                          *)

LEMMA MainKeepsThreads ==
  ASSUME MainSteps \/ MainEvents
  PROVE  UNCHANGED <<listvars, rbuf>> /\ (tpc' # tpc => CreateThread)
BY DEF MainSteps, MainEvents, MainthreadInit, BaseInit, CreateThread, ThreadsCreated, ModuleInit,
   ThrdWait, ThrdWaitDone, MqSend, CustomFini, SemFini, MainthreadFini, HangingFini, MainReturns,
   TimeoutSend, TimeoutLost, MqSendFails, MainBreak, vars, listvars, bufvars

LEMMA InitList == Init => ListInv /\ MsgInv /\ LocalInv
BY Numbers DEF Init, ListInv, MsgInv, LocalInv

LEMMA ListStep == TypeOK /\ HandshakeInv /\ ListInv /\ [Next]_vars => ListInv'
<1> SUFFICES ASSUME TypeOK, HandshakeInv, ListInv, [Next]_vars PROVE ListInv'
  OBVIOUS
<1> USE Numbers DEF ListInv
<1>1. CASE UNCHANGED vars
  BY <1>1 DEF vars, listvars
<1>2. CASE MainSteps \/ MainEvents
  <2>1. UNCHANGED pred
    BY <1>2, MainKeepsThreads DEF listvars
  <2>2. CASE CreateThread
    BY <2>1, <2>2 DEF CreateThread, TypeOK
  <2>3. CASE UNCHANGED tpc
    BY <2>1, <2>3
  <2> QED BY <1>2, <2>2, <2>3, MainKeepsThreads
<1>3. ASSUME NEW t \in Threads, Startup(t) \/ Serve(t) \/ EpollBreak(t) \/ NodeFree(t)
                                \/ DelUnlink(t)
      PROVE  ListInv'
  <2>1. UNCHANGED pred
    BY <1>3 DEF Startup, Serve, AddHeadLink, AddHeadPublish, SemPost, MqReceive, MsgProc,
                EpollBreak, NodeFree, DelUnlink, listvars
  <2>2. PICK to \in ThreadPc :
          /\ tpc' = [tpc EXCEPT ![t] = to]
          /\ to \in {"broke", "unlinking", "freeing"} => TypeOf(t) = "SVR"
    BY <1>3 DEF Startup, Serve, AddHeadLink, AddHeadPublish, SemPost, MqReceive, MsgProc,
                EpollBreak, NodeFree, DelUnlink, Goto, ThreadPc, TypeOf
  <2> QED BY <2>1, <2>2 DEF TypeOK
<1>4. ASSUME NEW t \in Threads, DelFind(t) PROVE ListInv'
  <2>1. tpc[t] = "broke" /\ TypeOf(t) = "SVR"
    BY <1>4 DEF DelFind, Goto
  <2>2. PICK to \in ThreadPc : tpc' = [tpc EXCEPT ![t] = to]
    BY <1>4 DEF DelFind, Goto, ThreadPc
  <2>3. PICK p \in OfType("SVR") \cup {NoNode} : pred' = [pred EXCEPT ![t] = p]
    BY <1>4 DEF DelFind, Reach
  <2> QED BY <2>1, <2>2, <2>3 DEF TypeOK
<1> QED BY <1>1, <1>2, <1>3, <1>4 DEF Next, Leave

\* Once every thread has posted, nothing changes the WORK list any more.
LEMMA WorkListKept ==
  ASSUME TypeOK, HandshakeInv, ListInv, PastWait, ulret, [Next]_vars
  PROVE  /\ pfirst'["WORK"] = pfirst["WORK"]
         /\ \A t \in OfType("WORK") : pnext'[t] = pnext[t]
<1> USE Numbers
<1>1. CASE UNCHANGED vars
  BY <1>1 DEF vars, listvars
<1>2. CASE MainSteps \/ MainEvents
  BY <1>2, MainKeepsThreads DEF listvars
<1>3. ASSUME NEW t \in Threads, Startup(t) \/ Serve(t) \/ Leave(t)
      PROVE  /\ pfirst'["WORK"] = pfirst["WORK"]
             /\ \A u \in OfType("WORK") : pnext'[u] = pnext[u]
  <2>1. t \in Posted
    BY AllPosted
  <2>2. ~AddHeadLink(t) /\ ~AddHeadPublish(t)
    BY <2>1 DEF Posted, AddHeadLink, AddHeadPublish, Goto
  <2>3. CASE DelUnlink(t)
    <3>1. \A u \in OfType("WORK") : u # pred[t]
      BY DEF ListInv, OfType
    <3> QED BY <2>3, <3>1 DEF DelUnlink, TypeOK, Types, OfType
  <2>4. CASE ~DelUnlink(t)
    BY <1>3, <2>2, <2>4 DEF Startup, Serve, Leave, SemPost, MqReceive, MsgProc,
       EpollBreak, DelFind, NodeFree, listvars
  <2> QED BY <2>3, <2>4
<1> QED BY <1>1, <1>2, <1>3 DEF Next

LEMMA TargetKept ==
  ASSUME TypeOK, HandshakeInv, ListInv, PastWait, ulret, [Next]_vars, Registered(Target)
  PROVE  Registered(Target)'
<1>1. Reach("WORK")' = Reach("WORK")
  BY WorkListKept DEF Reach
<1> QED BY <1>1, Numbers DEF Registered

\* Success and being past the wait are never undone.
LEMMA PastWaitKept ==
  ASSUME PastWait, ulret, [Next]_vars PROVE PastWait' /\ ulret'
<1>1. CASE UNCHANGED vars
  BY <1>1 DEF PastWait, vars, mainvars
<1>2. CASE MainSteps \/ MainEvents
  BY <1>2 DEF PastWait, MainSteps, MainEvents, MainthreadInit, BaseInit, CreateThread, ThreadsCreated,
     ModuleInit, ThrdWait, ThrdWaitDone, MqSend, CustomFini, SemFini, MainthreadFini, HangingFini,
     MainReturns, TimeoutSend, TimeoutLost, MqSendFails, MainBreak, vars, mainvars
<1>3. ASSUME NEW t \in Threads, Startup(t) \/ Serve(t) \/ Leave(t)
      PROVE  PastWait' /\ ulret'
  BY <1>3 DEF PastWait, Startup, Serve, Leave, AddHeadLink, AddHeadPublish, SemPost,
     MqReceive, MsgProc, EpollBreak, DelFind, DelUnlink, NodeFree, mainvars
<1> QED BY <1>1, <1>2, <1>3 DEF Next

LEMMA MsgStep ==
  TypeOK /\ HandshakeInv /\ ListInv /\ MsgInv /\ [Next]_vars => MsgInv'
<1> SUFFICES ASSUME TypeOK, HandshakeInv, ListInv, MsgInv, [Next]_vars PROVE MsgInv'
  OBVIOUS
<1> USE Numbers DEF MsgInv
<1>1. mq[Target] # << >> \/ mpc = "send" => PastWait' /\ ulret' /\ Registered(Target)'
  BY PastWaitKept, TargetKept
<1>2. CASE TimeoutSend
  <2>1. PastWait /\ ulret /\ Registered(Target)
    BY <1>2 DEF TimeoutSend, HandshakeInv, PastWait
  <2>2. PastWait' /\ ulret' /\ Registered(Target)'
    BY <2>1, PastWaitKept, TargetKept
  <2> QED BY <1>2, <2>2 DEF TimeoutSend
<1>3. CASE MqSend
  <2>1. \A t \in Threads : t # Target => mq'[t] = mq[t]
    BY <1>3 DEF MqSend, TypeOK
  <2> QED BY <1>3, <2>1, <1>1 DEF MqSend
<1>4. ASSUME NEW t \in Threads, MqReceive(t) PROVE MsgInv'
  <2>1. t = Target /\ (\A u \in Threads : u # Target => mq'[u] = mq[u])
    BY <1>4 DEF MqReceive, TypeOK
  <2>2. mpc' = mpc
    BY <1>4 DEF MqReceive, mainvars
  <2> QED BY <1>4, <2>1, <2>2, <1>1 DEF MqReceive
<1>5. CASE UNCHANGED mq /\ (mpc' = "send" => mpc = "send")
  BY <1>5, <1>1
<1>6. CASE MainSteps \/ MainEvents
  <2>1. TimeoutSend \/ MqSend \/ (UNCHANGED mq /\ (mpc' = "send" => mpc = "send"))
    BY <1>6 DEF MainSteps, MainEvents, MainthreadInit, BaseInit, CreateThread, ThreadsCreated, ModuleInit,
       ThrdWait, ThrdWaitDone, CustomFini, SemFini, MainthreadFini, HangingFini, MainReturns,
       TimeoutLost, MqSendFails, MainBreak, vars, mainvars, bufvars
  <2> QED BY <2>1, <1>2, <1>3, <1>5
<1>7. ASSUME NEW t \in Threads, Startup(t) \/ Serve(t) \/ Leave(t) PROVE MsgInv'
  <2>1. MqReceive(t) \/ UNCHANGED <<mq, mpc>>
    BY <1>7 DEF Startup, Serve, Leave, AddHeadLink, AddHeadPublish, SemPost,
       MsgProc, EpollBreak, DelFind, DelUnlink, NodeFree, mainvars, bufvars
  <2> QED BY <2>1, <1>4, <1>5
<1>8. CASE UNCHANGED vars
  BY <1>8, <1>5 DEF vars, mainvars, bufvars
<1> QED BY <1>6, <1>7, <1>8 DEF Next

LEMMA LocalStep ==
  TypeOK /\ HandshakeInv /\ MsgInv /\ LocalInv /\ [Next]_vars => LocalInv'
<1> SUFFICES ASSUME TypeOK, HandshakeInv, MsgInv, LocalInv, [Next]_vars PROVE LocalInv'
  OBVIOUS
<1> USE Numbers DEF LocalInv
<1>1. CASE UNCHANGED vars
  BY <1>1 DEF vars, mainvars, bufvars
<1>2. CASE MainSteps \/ MainEvents
  <2>1. sbuf' # NoBuf <=> mpc' = "send"
    BY <1>2, NoBufAssumption DEF MainSteps, MainEvents, MainthreadInit, BaseInit, CreateThread,
       ThreadsCreated, ModuleInit, ThrdWait, ThrdWaitDone, MqSend, CustomFini, SemFini, MainthreadFini,
       HangingFini, MainReturns, TimeoutSend, TimeoutLost, MqSendFails, MainBreak,
       vars, mainvars, bufvars
  <2>2. \A t \in Threads : tpc'[t] = "proc" <=> tpc[t] = "proc"
    <3>1. CASE CreateThread
      <4>1. ulindex \in Threads /\ tpc[ulindex] = "none"
        BY <3>1 DEF CreateThread, HandshakeInv, TypeOK
      <4> QED BY <3>1, <4>1 DEF CreateThread, TypeOK
    <3> QED BY <1>2, <3>1, MainKeepsThreads
  <2> QED BY <2>1, <2>2, <1>2, MainKeepsThreads
<1>3. ASSUME NEW t \in Threads, Startup(t) \/ Serve(t) \/ Leave(t) PROVE LocalInv'
  <2>1. UNCHANGED <<sbuf, mpc>>
    BY <1>3 DEF Startup, Serve, Leave, AddHeadLink, AddHeadPublish, SemPost, MqReceive,
       MsgProc, EpollBreak, DelFind, DelUnlink, NodeFree, mainvars, bufvars
  <2>2. CASE MqReceive(t)
    <3>1. t = Target /\ Head(mq[t]) \in Buf
      BY <2>2 DEF MqReceive, MsgInv, TypeOK
    <3>2. Head(mq[t]) # NoBuf
      BY <3>1, NoBufAssumption
    <3> QED BY <2>1, <2>2, <3>1, <3>2 DEF MqReceive, Goto, TypeOK
  <2>3. CASE MsgProc(t)
    BY <2>1, <2>3 DEF MsgProc, Goto, TypeOK
  <2>4. CASE Startup(t) \/ Leave(t)
    <3>1. UNCHANGED rbuf
      BY <2>4 DEF Startup, Leave, AddHeadLink, AddHeadPublish, SemPost, EpollBreak,
         DelFind, DelUnlink, NodeFree, bufvars
    <3>2. PICK to \in ThreadPc \ {"proc"} :
            tpc[t] # "proc" /\ tpc' = [tpc EXCEPT ![t] = to]
      BY <2>4 DEF Startup, Leave, AddHeadLink, AddHeadPublish, SemPost, EpollBreak,
         DelFind, DelUnlink, NodeFree, Goto, ThreadPc
    <3> QED BY <2>1, <3>1, <3>2 DEF TypeOK
  <2> QED BY <1>3, <2>2, <2>3, <2>4 DEF Serve
<1> QED BY <1>1, <1>2, <1>3 DEF Next

LEMMA Inductive == Spec => []IInv
<1>1. Init => IInv
  BY InitTyped, InitHandshake, InitList DEF IInv
<1>2. IInv /\ TypeOK' /\ [Next]_vars => IInv'
  BY HandshakeStep, ListStep, MsgStep, LocalStep DEF IInv
<1> QED BY <1>1, <1>2, TypeCorrect, PTL DEF Spec

\* A message is queued only for a thread whose node is in its list, so its
\* mqmsgcallbackproc receives it (hali_thread.c:123-137).
THEOREM MessagesDeliverable == Spec => []Deliverable
<1>1. IInv => Deliverable
  BY DEF IInv, MsgInv, Deliverable
<1> QED BY <1>1, Inductive, PTL

\* Nobody changes the WORK list while main uses a node it got from it.
THEOREM WorkListIsStable == Spec => WorkListStable
<1>1. IInv /\ [Next]_vars => [WorkListFixed]_vars
  <2> SUFFICES ASSUME IInv, [Next]_vars, mpc \in {"loop", "send"}
               PROVE  /\ pfirst'["WORK"] = pfirst["WORK"]
                      /\ \A t \in OfType("WORK") : pnext'[t] = pnext[t]
    BY DEF WorkListFixed
  <2>1. PastWait /\ ulret
    BY DEF IInv, HandshakeInv, PastWait
  <2> QED BY <2>1, WorkListKept DEF IInv
<1> QED BY <1>1, Inductive, PTL DEF Spec, WorkListStable

-----------------------------------------------------------------------------
(* Ownership of the buffers.  All messages are the target's, so one queue,  *)
(* one receiving pointer and main's sending pointer are all the holders.    *)

fifo == mq[Target]
rcv  == rbuf[Target]

OwnInv ==
  /\ \A i \in 1..Len(fifo) : fifo[i] \in alloc /\ fifo[i] # sbuf /\ fifo[i] # rcv
  /\ \A i, j \in 1..Len(fifo) : fifo[i] = fifo[j] => i = j
  /\ sbuf # NoBuf => sbuf \in alloc /\ sbuf # rcv
  /\ rcv # NoBuf => rcv \in alloc

KeptInv ==
  procs => \A b \in alloc : b = sbuf \/ b = rcv \/ \E i \in 1..Len(fifo) : b = fifo[i]

LEMMA InitOwn == Init => OwnInv /\ KeptInv
BY Numbers DEF Init, OwnInv, KeptInv, fifo, rcv

\* What a step does to the target's queue and the pointers.
LEMMA BufferSteps ==
  ASSUME IInv, [Next]_vars
  PROVE  \/ TimeoutSend \/ MqSend \/ MqSendFails \/ MqReceive(Target) \/ MsgProc(Target)
         \/ UNCHANGED bufvars /\ (UNCHANGED procs \/ procs' = FALSE)
<1>1. CASE UNCHANGED vars
  BY <1>1 DEF vars
<1>2. CASE MainSteps \/ MainEvents
  BY <1>2 DEF MainSteps, MainEvents, MainthreadInit, BaseInit, CreateThread,
       ThreadsCreated, ModuleInit, ThrdWait, ThrdWaitDone, CustomFini, SemFini, MainthreadFini,
       HangingFini, MainReturns, TimeoutLost, MainBreak, vars
<1>3. ASSUME NEW t \in Threads, Startup(t) \/ Serve(t) \/ Leave(t)
      PROVE  MqReceive(Target) \/ MsgProc(Target) \/ (UNCHANGED bufvars /\ (UNCHANGED procs \/ procs' = FALSE))
  <2>1. MqReceive(t) => t = Target
    BY <1>3 DEF MqReceive, IInv, MsgInv
  <2>2. MsgProc(t) => t = Target
    BY <1>3 DEF MsgProc, Goto, IInv, LocalInv
  <2> QED BY <1>3, <2>1, <2>2 DEF Startup, Serve, Leave, AddHeadLink, AddHeadPublish,
       SemPost, EpollBreak, DelFind, DelUnlink, NodeFree
<1> QED BY <1>1, <1>2, <1>3 DEF Next

LEMMA OwnStep ==
  IInv /\ OwnInv /\ KeptInv /\ [Next]_vars => OwnInv' /\ KeptInv'
<1> SUFFICES ASSUME IInv, OwnInv, KeptInv, [Next]_vars PROVE OwnInv' /\ KeptInv'
  OBVIOUS
<1> USE Numbers, NoBufAssumption DEF fifo, rcv
<1>0. fifo \in Seq(Buf) /\ rcv \in Buf \cup {NoBuf} /\ alloc \subseteq Buf
  BY DEF IInv, TypeOK
<1>1. CASE TimeoutSend
  <2>1. PICK b \in Buf \ alloc : alloc' = alloc \cup {b} /\ sbuf' = b
    BY <1>1 DEF TimeoutSend
  <2>2. fifo' = fifo /\ rcv' = rcv /\ procs' = procs /\ sbuf = NoBuf
    BY <1>1 DEF TimeoutSend, IInv, LocalInv
  <2>3. b # rcv /\ (\A i \in 1..Len(fifo) : b # fifo[i])
    BY <2>1, NoBufAssumption DEF OwnInv
  <2>4. OwnInv'
    BY <1>0, <2>1, <2>2, <2>3 DEF OwnInv
  <2>5. KeptInv'
    BY <1>0, <2>1, <2>2, <2>3 DEF KeptInv
  <2> QED BY <2>4, <2>5
<1>2. CASE MqSend
  <2>1. sbuf \in Buf /\ sbuf' = NoBuf /\ fifo' = Append(fifo, sbuf)
    BY <1>2 DEF MqSend, IInv, TypeOK, LocalInv
  <2>2. rcv' = rcv /\ alloc' = alloc /\ procs' = procs
    BY <1>2 DEF MqSend
  <2>3. /\ Len(fifo') = Len(fifo) + 1 /\ fifo'[Len(fifo) + 1] = sbuf
        /\ \A i \in 1..Len(fifo) : fifo'[i] = fifo[i]
        /\ Len(fifo) \in Nat
    BY <1>0, <2>1
  <2>4. OwnInv'
    BY <1>0, <2>1, <2>2, <2>3 DEF OwnInv
  <2>5. KeptInv'
    BY <1>0, <2>1, <2>2, <2>3 DEF KeptInv
  <2> QED BY <2>4, <2>5
<1>3. CASE MqSendFails
  <2>1. alloc' = alloc \ {sbuf} /\ sbuf' = NoBuf /\ fifo' = fifo /\ rcv' = rcv
        /\ procs' = procs /\ sbuf # NoBuf
    BY <1>3 DEF MqSendFails, IInv, LocalInv
  <2> QED BY <1>0, <2>1 DEF OwnInv, KeptInv
<1>4. CASE MqReceive(Target)
  <2>1. rcv = NoBuf
    BY <1>4 DEF MqReceive, Goto, IInv, LocalInv
  <2>2. fifo # << >> /\ rcv' = Head(fifo) /\ fifo' = Tail(fifo)
        /\ UNCHANGED <<alloc, sbuf, procs>>
    BY <1>4 DEF MqReceive, IInv, TypeOK
  <2>3. /\ Len(fifo) \in Nat \ {0} /\ Len(fifo') = Len(fifo) - 1 /\ rcv' = fifo[1]
        /\ \A i \in 1..Len(fifo') : fifo'[i] = fifo[i + 1]
    BY <1>0, <2>2
  <2>4. OwnInv'
    BY <1>0, <2>1, <2>2, <2>3 DEF OwnInv
  <2>5. KeptInv'
    <3> SUFFICES ASSUME procs', NEW b \in alloc'
                 PROVE  b = sbuf' \/ b = rcv' \/ \E i \in 1..Len(fifo') : b = fifo'[i]
      BY DEF KeptInv
    <3>1. b # NoBuf
      BY <1>0, <2>2
    <3>2. CASE b = sbuf
      BY <3>2, <2>2
    <3>3. CASE b # sbuf
      <4>1. PICK i \in 1..Len(fifo) : b = fifo[i]
        BY <2>1, <2>2, <3>1, <3>3 DEF KeptInv
      <4>2. CASE i = 1
        BY <4>1, <4>2, <2>3
      <4>3. CASE i # 1
        <5>1. i - 1 \in 1..Len(fifo') /\ fifo'[i - 1] = fifo[(i - 1) + 1] /\ (i - 1) + 1 = i
          BY <4>3, <2>3
        <5> QED BY <4>1, <5>1
      <4> QED BY <4>2, <4>3
    <3> QED BY <3>2, <3>3
  <2> QED BY <2>4, <2>5
<1>5. CASE MsgProc(Target)
  <2>1. rcv # NoBuf /\ rcv' = NoBuf
    BY <1>5 DEF MsgProc, Goto, IInv, TypeOK, LocalInv
  <2>2. UNCHANGED <<fifo, sbuf, procs>> /\ alloc' = IF procs THEN alloc \ {rcv} ELSE alloc
    BY <1>5 DEF MsgProc
  <2>3. OwnInv'
    BY <1>0, <2>1, <2>2 DEF OwnInv
  <2>4. KeptInv'
    BY <1>0, <2>1, <2>2 DEF KeptInv
  <2> QED BY <2>3, <2>4
<1>6. CASE UNCHANGED bufvars /\ (UNCHANGED procs \/ procs' = FALSE)
  BY <1>6 DEF OwnInv, KeptInv, bufvars
<1> QED BY <1>1, <1>2, <1>3, <1>4, <1>5, <1>6, BufferSteps

LEMMA OnlyTarget ==
  ASSUME IInv
  PROVE  /\ Queued(Target) = {fifo[i] : i \in 1..Len(fifo)}
         /\ \A t \in Threads : t # Target => Queued(t) = {} /\ Len(mq[t]) = 0 /\ rbuf[t] = NoBuf
BY Numbers DEF IInv, TypeOK, MsgInv, LocalInv, Queued, fifo

\* No buffer is freed twice or used after it was freed: every pointer anybody
\* holds is allocated, and no two holders have the same one.
THEOREM BuffersOwned == Spec => []BufferOwnership
<1>1. IInv /\ OwnInv => BufferOwnership
  <2> SUFFICES ASSUME IInv, OwnInv PROVE BufferOwnership
    OBVIOUS
  <2> USE Numbers, OnlyTarget, NoBufAssumption DEF OwnInv, rcv
  <2>0. alloc \subseteq Buf /\ fifo \in Seq(Buf)
    BY DEF IInv, TypeOK, fifo
  <2>1. \A b \in Queued(Target) : b \in alloc /\ b # sbuf /\ b # rcv
    OBVIOUS
  <2>2. Held \subseteq alloc
    BY <2>0, <2>1 DEF Held
  <2>3. sbuf # NoBuf => \A t \in Threads : sbuf # rbuf[t] /\ sbuf \notin Queued(t)
    BY <2>1
  <2>4. \A t, u \in Threads : rbuf[t] # NoBuf =>
          rbuf[t] \notin Queued(u) /\ (rbuf[t] = rbuf[u] => t = u)
    BY <2>1
  <2>5. \A t \in Threads : \A i, j \in 1..Len(mq[t]) : mq[t][i] = mq[t][j] => i = j
    BY DEF fifo
  <2>6. \A t, u \in Threads : t # u => Queued(t) \cap Queued(u) = {}
    OBVIOUS
  <2> QED BY <2>2, <2>3, <2>4, <2>5, <2>6 DEF BufferOwnership
<1> QED BY <1>1, InitOwn, OwnStep, Inductive, PTL DEF Spec

\* While the message procedures are registered no buffer is leaked.
THEOREM NothingLeaks == Spec => []NoLeak
<1>1. IInv /\ KeptInv => NoLeak
  <2> SUFFICES ASSUME IInv, KeptInv, procs, NEW b \in alloc PROVE b \in Held
    BY DEF NoLeak
  <2>1. b \in Buf
    BY DEF IInv, TypeOK
  <2>2. b = sbuf \/ b = rbuf[Target] \/ b \in Queued(Target)
    BY OnlyTarget DEF KeptInv, rcv
  <2> QED BY <2>1, <2>2, Numbers DEF Held
<1> QED BY <1>1, InitOwn, OwnStep, Inductive, PTL DEF Spec

-----------------------------------------------------------------------------
(* The target's queue implements BufChannel.                                *)

InFifo(b) == \E i \in 1..Len(fifo) : b = fifo[i]

\* The owner of every buffer, read off the pointers.
OwnerTable ==
  \A b \in Buf : owners[b] =
     IF b = sbuf THEN "sender" ELSE IF b = rcv THEN "receiver"
     ELSE IF InFifo(b) THEN "queue" ELSE IF b \in alloc THEN "lost" ELSE "heap"

LEMMA OwnerKnown == IInv /\ OwnInv => OwnerTable
<1> SUFFICES ASSUME IInv, OwnInv, NEW b \in Buf
             PROVE  owners[b] =
                IF b = sbuf THEN "sender" ELSE IF b = rcv THEN "receiver"
                ELSE IF InFifo(b) THEN "queue" ELSE IF b \in alloc THEN "lost" ELSE "heap"
  BY DEF OwnerTable
<1> USE Numbers, NoBufAssumption
<1>1. (\E t \in Threads : b = rbuf[t]) <=> b = rcv
  BY OnlyTarget DEF rcv
<1>2. b \in Queued(Target) <=> InFifo(b)
  BY OnlyTarget DEF InFifo
<1>3. b \in Held <=> b = sbuf \/ b = rcv \/ InFifo(b)
  BY <1>1, <1>2, OnlyTarget DEF Held
<1>4. /\ b = sbuf => b # rcv /\ ~InFifo(b)
      /\ b = rcv => ~InFifo(b)
      /\ InFifo(b) => b \in alloc
  BY DEF OwnInv, InFifo
<1> QED BY <1>1, <1>2, <1>3, <1>4 DEF owners, OwnerOf

LEMMA InitChannel == Init => Chan!ChanInit
<1> SUFFICES ASSUME Init PROVE Chan!ChanInit
  OBVIOUS
<1>1. mq[Target] = << >> /\ procs = TRUE
  BY Numbers DEF Init
<1>2. \A b \in Buf : OwnerOf(b) = "heap"
  <2> SUFFICES ASSUME NEW b \in Buf PROVE OwnerOf(b) = "heap"
    OBVIOUS
  <2>1. b # sbuf /\ b \notin alloc /\ b \notin Queued(Target) /\ (\A t \in Threads : b # rbuf[t])
    BY <1>1, NoBufAssumption DEF Init, Queued
  <2> QED BY <2>1 DEF OwnerOf
<1> QED BY <1>1, <1>2 DEF Chan!ChanInit, owners

\* Each step of the system maps to the channel action it performs.
LEMMA StepChannel ==
  IInv /\ OwnInv /\ KeptInv /\ OwnerTable /\ OwnerTable' /\ [Next]_vars
    => [Chan!ChanNext]_(Chan!chanvars)
<1> SUFFICES ASSUME IInv, OwnInv, KeptInv, OwnerTable, OwnerTable', [Next]_vars
             PROVE  [Chan!ChanNext]_(Chan!chanvars)
  OBVIOUS
<1> USE Numbers, NoBufAssumption DEF rcv, InFifo
<1>0. fifo \in Seq(Buf) /\ rcv \in Buf \cup {NoBuf} /\ alloc \subseteq Buf
      /\ sbuf \in Buf \cup {NoBuf}
  BY DEF IInv, TypeOK, fifo
<1>d. owners = [b \in Buf |-> owners[b]] /\ owners' = [b \in Buf |-> owners'[b]]
  BY DEF owners
<1>m. ASSUME NEW b \in Buf, NEW to, owners'[b] = to,
             \A c \in Buf \ {b} : owners'[c] = owners[c]
      PROVE  owners' = [owners EXCEPT ![b] = to]
  <2>1. \A c \in Buf : owners'[c] = [owners EXCEPT ![b] = to][c]
    BY <1>m, <1>d
  <2> QED BY <2>1, <1>d
<1>1. CASE TimeoutSend
  <2>1. PICK b \in Buf \ alloc : alloc' = alloc \cup {b} /\ sbuf' = b
    BY <1>1 DEF TimeoutSend
  <2>2. UNCHANGED <<fifo, rcv, procs>> /\ sbuf = NoBuf
    BY <1>1 DEF TimeoutSend, IInv, LocalInv, fifo
  <2>3. owners[b] = "heap" /\ owners'[b] = "sender"
    BY <2>1, <2>2 DEF OwnerTable, OwnInv
  <2>4. \A c \in Buf \ {b} : owners'[c] = owners[c]
    BY <2>1, <2>2 DEF OwnerTable
  <2>5. Chan!Alloc(b)
    BY <2>2, <2>3, <2>4, <1>m DEF Chan!Alloc, Chan!Move, fifo
  <2> QED BY <2>1, <2>5 DEF Chan!ChanNext
<1>2. CASE MqSend
  <2>1. sbuf \in Buf /\ sbuf' = NoBuf /\ fifo' = Append(fifo, sbuf) /\ Len(fifo) < MqMax
    BY <1>2 DEF MqSend, IInv, TypeOK, LocalInv, fifo
  <2>2. UNCHANGED <<rcv, alloc, procs>>
    BY <1>2 DEF MqSend
  <2>3. /\ Len(fifo') = Len(fifo) + 1 /\ fifo'[Len(fifo) + 1] = sbuf
        /\ \A i \in 1..Len(fifo) : fifo'[i] = fifo[i]
        /\ Len(fifo) \in Nat
    BY <1>0, <2>1
  <2>4. \A c \in Buf : InFifo(c)' <=> c = sbuf \/ InFifo(c)
    BY <2>3
  <2>5. owners[sbuf] = "sender" /\ owners'[sbuf] = "queue"
    BY <2>1, <2>2, <2>4 DEF OwnerTable, OwnInv
  <2>6. \A c \in Buf \ {sbuf} : owners'[c] = owners[c]
    BY <2>1, <2>2, <2>4 DEF OwnerTable
  <2>7. Chan!Give(sbuf)
    BY <2>1, <2>2, <2>5, <2>6, <1>m DEF Chan!Give, Chan!Move, fifo
  <2> QED BY <2>1, <2>7 DEF Chan!ChanNext
<1>3. CASE MqSendFails
  <2>1. sbuf \in Buf /\ sbuf' = NoBuf /\ alloc' = alloc \ {sbuf}
        /\ UNCHANGED <<fifo, rcv, procs>>
    BY <1>3 DEF MqSendFails, IInv, TypeOK, LocalInv, fifo
  <2>2. owners[sbuf] = "sender" /\ owners'[sbuf] = "heap"
    BY <2>1 DEF OwnerTable, OwnInv
  <2>3. \A c \in Buf \ {sbuf} : owners'[c] = owners[c]
    BY <2>1 DEF OwnerTable
  <2>4. Chan!TakeBack(sbuf)
    BY <2>1, <2>2, <2>3, <1>m DEF Chan!TakeBack, Chan!Move, fifo
  <2> QED BY <2>1, <2>4 DEF Chan!ChanNext
<1>4. CASE MqReceive(Target)
  <2>1. rcv = NoBuf /\ fifo # << >> /\ rcv' = Head(fifo) /\ fifo' = Tail(fifo)
        /\ UNCHANGED <<alloc, sbuf, procs>>
    BY <1>4 DEF MqReceive, Goto, IInv, TypeOK, LocalInv, fifo
  <2>2. /\ Len(fifo) \in Nat \ {0} /\ Len(fifo') = Len(fifo) - 1 /\ rcv' = fifo[1]
        /\ fifo[1] \in Buf
        /\ \A i \in 1..Len(fifo') : fifo'[i] = fifo[i + 1]
    BY <1>0, <2>1
  <2>3. \A c \in Buf : InFifo(c) <=> c = rcv' \/ InFifo(c)'
    <3> SUFFICES ASSUME NEW c \in Buf PROVE InFifo(c) <=> c = rcv' \/ InFifo(c)'
      OBVIOUS
    <3>1. InFifo(c) => c = rcv' \/ InFifo(c)'
      <4> SUFFICES ASSUME NEW i \in 1..Len(fifo), c = fifo[i], i # 1
                   PROVE  \E j \in 1..Len(fifo') : c = fifo'[j]
        BY <2>2
      <4>1. i - 1 \in 1..Len(fifo') /\ (i - 1) + 1 = i
        BY <2>2
      <4> QED BY <4>1, <2>2
    <3>2. c = rcv' => InFifo(c)
      BY <2>2
    <3>3. InFifo(c)' => InFifo(c)
      <4> SUFFICES ASSUME NEW j \in 1..Len(fifo'), c = fifo'[j]
                   PROVE  \E i \in 1..Len(fifo) : c = fifo[i]
        OBVIOUS
      <4>1. j + 1 \in 1..Len(fifo) /\ fifo[j + 1] = c
        BY <2>2
      <4> QED BY <4>1
    <3> QED BY <3>1, <3>2, <3>3
  <2>4. rcv' # sbuf /\ rcv' # NoBuf /\ rcv' \in Buf
    BY <2>2 DEF OwnInv
  <2>5. owners[rcv'] = "queue" /\ owners'[rcv'] = "receiver"
    BY <2>1, <2>3, <2>4 DEF OwnerTable
  <2>6. \A c \in Buf \ {rcv'} : owners'[c] = owners[c]
    BY <2>1, <2>3 DEF OwnerTable
  <2>7. Chan!Take(rcv')
    BY <2>1, <2>4, <2>5, <2>6, <1>m DEF Chan!Take, Chan!Move, fifo
  <2> QED BY <2>4, <2>7 DEF Chan!ChanNext
<1>5. CASE MsgProc(Target)
  <2>1. rcv \in Buf /\ rcv' = NoBuf /\ UNCHANGED <<fifo, sbuf, procs>>
        /\ alloc' = IF procs THEN alloc \ {rcv} ELSE alloc
    BY <1>5 DEF MsgProc, Goto, IInv, TypeOK, LocalInv, fifo
  <2>2. owners[rcv] = "receiver" /\ owners'[rcv] = (IF procs THEN "heap" ELSE "lost")
    BY <2>1 DEF OwnerTable, OwnInv
  <2>3. \A c \in Buf \ {rcv} : owners'[c] = owners[c]
    BY <2>1 DEF OwnerTable
  <2>4. Chan!Release(rcv) \/ Chan!Abandon(rcv)
    BY <2>1, <2>2, <2>3, <1>m DEF Chan!Release, Chan!Abandon, Chan!Move, fifo
  <2> QED BY <2>1, <2>4 DEF Chan!ChanNext
<1>6. CASE UNCHANGED bufvars /\ (UNCHANGED procs \/ procs' = FALSE)
  <2>1. UNCHANGED <<fifo, rcv, sbuf, alloc>>
    BY <1>6 DEF bufvars, fifo
  <2>2. \A c \in Buf : owners'[c] = owners[c]
    BY <2>1 DEF OwnerTable
  <2>3. UNCHANGED <<owners, mq>>
    BY <1>d, <2>2, <1>6 DEF bufvars
  <2> QED BY <2>3, <1>6 DEF Chan!ChanNext, Chan!Close, Chan!chanvars
<1> QED BY <1>1, <1>2, <1>3, <1>4, <1>5, <1>6, BufferSteps

\* The message queue to (WORK, 1) hands buffers over as BufChannel promises:
\* in order, each with exactly one owner (hali_threadmsg.c:61-79).
THEOREM ChannelImplemented == Spec => ImplementsChannel
<1>1. Spec => [](IInv /\ OwnInv /\ KeptInv)
  BY InitOwn, OwnStep, Inductive, PTL DEF Spec
<1>2. Spec => []OwnerTable
  BY <1>1, OwnerKnown, PTL
<1> QED BY <1>1, <1>2, InitChannel, StepChannel, PTL DEF Spec, ImplementsChannel, Chan!ChanSpec
=============================================================================
