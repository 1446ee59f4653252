-------------------------- MODULE ZigbeeHubProofs --------------------------
(***************************************************************************)
(* The types and PublishedIsStored, for any finite set of switches and any *)
(* bounds.  The second is not inductive by itself: a published state must  *)
(* not be wiped while main is between linking a node and initialising it,  *)
(* and must have a stored state to copy.  NodeInv says what main holds in  *)
(* those two steps.                                                        *)
(***************************************************************************)
EXTENDS ZigbeeHub, FiniteSetTheorems, SequenceTheorems, TLAPS

ListTypes ==
    /\ node \in [Switch -> State \cup {"absent", "raw"}]
    /\ pub \in [Switch -> State \cup {"none"}]

NodeInv ==
    mdev \in Switch =>
      /\ mpc = "init" => node[mdev] = "raw"
      /\ mpc = "publish" => node[mdev] \in State

PubInv == ListTypes /\ NodeInv /\ PublishedIsStored

(* Nothing is listed or published initially.                               *)
LEMMA PubInit == Init => PubInv
BY DEF Init, PubInv, ListTypes, NodeInv, PublishedIsStored, State

(* A step that leaves the list, the publications and main's place alone.   *)
LEMMA PubKept ==
    ASSUME PubInv, UNCHANGED <<node, pub, mdev>>,
           mpc' = mpc \/ (mpc \notin {"init", "publish"} /\ mpc' \notin {"init", "publish"})
    PROVE  PubInv'
BY DEF PubInv, ListTypes, NodeInv, PublishedIsStored, State

(* The steps that touch the list or the publications, one lemma each.      *)
LEMMA DevnodeAddPub == ASSUME PubInv, DevnodeAdd PROVE PubInv'
<1> DEFINE d == Head(toHub).from
<1>1. CASE node[d] = "absent"
  <2>1. /\ mpc = "idle" /\ mpc' = "init" /\ mdev' = d
        /\ node' = [node EXCEPT ![d] = "raw"] /\ pub' = pub
    BY <1>1 DEF DevnodeAdd
  <2> QED BY <1>1, <2>1 DEF PubInv, ListTypes, NodeInv, PublishedIsStored, State
<1>2. CASE node[d] # "absent"
  <2>1. UNCHANGED <<node, pub, mdev>> /\ mpc' = mpc
    BY <1>2 DEF DevnodeAdd
  <2> QED BY <2>1, PubKept
<1> QED BY <1>1, <1>2

LEMMA SetAttrPub == ASSUME PubInv, SetAttr PROVE PubInv'
<1> DEFINE d == Head(toHub).from
           t == Head(toHub).tlv
<1>1. CASE node[d] # "absent"
  <2>1. /\ mpc = "idle" /\ mpc' = "publish" /\ mdev' = d /\ t \in State
        /\ node' = [node EXCEPT ![d] = t] /\ pub' = pub
    BY <1>1 DEF SetAttr
  <2> HIDE DEF d, t
  <2> QED BY <2>1 DEF PubInv, ListTypes, NodeInv, PublishedIsStored, State
<1>2. CASE node[d] = "absent"
  <2>1. UNCHANGED <<node, pub, mdev>> /\ mpc' = mpc
    BY <1>2 DEF SetAttr
  <2> QED BY <2>1, PubKept
<1> QED BY <1>1, <1>2

LEMMA AttrInitPub == ASSUME PubInv, AttrInit PROVE PubInv'
BY DEF AttrInit, PubInv, ListTypes, NodeInv, PublishedIsStored, State

LEMMA SwitchPubPub == ASSUME PubInv, SwitchPub PROVE PubInv'
BY DEF SwitchPub, PubInv, ListTypes, NodeInv, PublishedIsStored, State

(* Every step keeps the invariant.                                         *)
LEMMA PubStep == PubInv /\ [Next]_vars => PubInv'
<1> SUFFICES ASSUME PubInv, [Next]_vars PROVE PubInv'
  OBVIOUS
<1>1. CASE Accept
  BY <1>1, PubKept DEF Accept
<1>2. CASE Accepted
  BY <1>2, PubKept DEF Accepted
<1>3. CASE Eof
  BY <1>3, PubKept DEF Eof, main
<1>4. CASE DevnodeAdd
  BY <1>4, DevnodeAddPub
<1>5. CASE AttrInit
  BY <1>5, AttrInitPub
<1>6. CASE SetAttr
  BY <1>6, SetAttrPub
<1>7. CASE SwitchPub
  BY <1>7, SwitchPubPub
<1>8. CASE MainDd \/ MainFrame
  BY <1>8, PubKept DEF MainDd, MainFrame
<1>9. CASE SynTimeout
  BY <1>9, PubKept DEF SynTimeout
<1>10. CASE MosqStep
  BY <1>10, PubKept DEF MosqStep, Judge, MosqDd, MosqFrame, main
<1>11. ASSUME NEW d \in Switch, NEW s \in State, Command(d, s) PROVE PubInv'
  BY <1>11, PubKept DEF Command, main
<1>12. CASE Device \/ Lose \/ PeerClose
  <2>1. UNCHANGED <<node, pub, mdev>> /\ mpc' = mpc
    BY <1>12 DEF Device, Lose, PeerClose, main
  <2> QED BY <2>1, PubKept
<1>13. ASSUME NEW d \in Switch, Toggle(d) PROVE PubInv'
  BY <1>13, PubKept DEF Toggle, main
<1>14. CASE UNCHANGED vars
  BY <1>14, PubKept DEF vars, main
<1> QED
  BY <1>1, <1>2, <1>3, <1>4, <1>5, <1>6, <1>7, <1>8, <1>9, <1>10, <1>11, <1>12,
     <1>13, <1>14 DEF Next, MainStep

(* What subscribers were last told is what the hub has stored, and nothing *)
(* is told of a switch that is not listed (zigbee_serial.c, the cases      *)
(* TLV_RESP_DISCOVE and TLV_RESP_SWITCH_STATE of zigbee_serialmsgproc).    *)
THEOREM PublishedHolds == Spec => []PublishedIsStored
<1>1. PubInv => PublishedIsStored
  BY DEF PubInv
<1> QED BY <1>1, PubInit, PubStep, PTL DEF Spec

-----------------------------------------------------------------------------
(* The elements of a finite set as a sequence.                             *)
LEMMA SetToSeqTyped == ASSUME NEW S, IsFiniteSet(S) PROVE SetToSeq(S) \in Seq(S)
<1>1. PICK n \in Nat : ExistsBijection(1..n, S)
  BY FS_NatBijection
<1>2. Cardinality(S) = n
  BY <1>1, FS_CountingElements
<1>3. \E f \in [1..Cardinality(S) -> S] : IsInjective(f)
  BY <1>1, <1>2 DEF ExistsBijection, Bijection, Injection
<1>4. SetToSeq(S) \in [1..n -> S]
  BY <1>2, <1>3 DEF SetToSeq
<1> QED
  BY <1>4

(* A set of records made from some of the switches is finite.              *)
LEMMA ImageFinite ==
  ASSUME NEW T \in SUBSET Switch, NEW U, NEW f \in [T -> U], \A u \in U : \E d \in T : f[d] = u
  PROVE  IsFiniteSet(U)
<1>1. IsFiniteSet(T)
  BY HubAssumption, FS_Subset
<1>2. f \in Surjection(T, U)
  BY DEF Surjection
<1> QED
  BY <1>1, <1>2, FS_Surjection

(* The frames of the timer and the answers to a discovery.                 *)
LEMMA QueriesTyped ==
  LET T == {e \in Switch : node[e] # "absent"}
      U == {[to |-> d, ask |-> "query"] : d \in T}
  IN SetToSeq(U) \in Seq(Frame)
<1> DEFINE T == {e \in Switch : node[e] # "absent"}
           U == {[to |-> d, ask |-> "query"] : d \in T}
           f == [d \in T |-> [to |-> d, ask |-> "query"]]
<1>1. IsFiniteSet(U)
  <2>1. T \in SUBSET Switch /\ f \in [T -> U] /\ \A u \in U : \E d \in T : f[d] = u
    OBVIOUS
  <2> HIDE DEF T, U, f
  <2> QED
    BY <2>1, ImageFinite
<1>2. U \subseteq Frame
  BY DEF Frame
<1>3. SetToSeq(U) \in Seq(Frame)
  <2> HIDE DEF U
  <2> QED
    BY <1>1, <1>2, SetToSeqTyped
<1> QED
  BY <1>3

LEMMA AnswersTyped == SetToSeq({[from |-> d, tlv |-> "disc"] : d \in Switch}) \in Seq(Report)
<1> DEFINE U == {[from |-> d, tlv |-> "disc"] : d \in Switch}
           f == [d \in Switch |-> [from |-> d, tlv |-> "disc"]]
<1>1. IsFiniteSet(U)
  <2>1. f \in [Switch -> U] /\ \A u \in U : \E d \in Switch : f[d] = u
    OBVIOUS
  <2> HIDE DEF U, f
  <2> QED
    BY <2>1, ImageFinite
<1>2. U \subseteq Report
  BY DEF Report
<1>3. SetToSeq(U) \in Seq(Report)
  <2> HIDE DEF U
  <2> QED
    BY <1>1, <1>2, SetToSeqTyped
<1> QED
  BY <1>3

(* A published state was stored, a thread at a command has one.            *)
TypeInv == TypeOK /\ PubInv /\ (qpc # "idle" => qcmd \in Frame)

LEMMA TypeInit == Init => TypeInv
BY PubInit, HubAssumption DEF Init, TypeInv, TypeOK, State

(* After the last frame of main's list nothing is left.                    *)
LEMMA LastTyped ==
  ASSUME NEW s \in Seq(Frame), s # <<>>
  PROVE  Tail(s) \in Seq(Frame) /\ (Tail(s) # <<>> <=> Len(s) # 1)
<1>1. Len(s) \in Nat \ {0}
  BY EmptySeq
<1>2. Tail(s) \in Seq(Frame) /\ Len(Tail(s)) = Len(s) - 1
  BY HeadTailProperties
<1>3. Tail(s) # <<>> <=> Len(Tail(s)) # 0
  BY <1>2, EmptySeq
<1> QED
  BY <1>1, <1>2, <1>3

LEMMA DueTyped == NothingDue => want' \in [Switch -> State \cup {"none"}]
BY DEF NothingDue

(* Main's steps.                                                           *)
LEMMA MainTyped == ASSUME TypeInv, Accept \/ MainStep \/ SynTimeout PROVE TypeOK' /\ (qpc' # "idle" => qcmd' \in Frame)
<1> USE HubAssumption DEF TypeInv, TypeOK
<1>0. todo \in Seq(Frame) /\ toDev \in Seq(Frame) /\ toHub \in Seq(Report)
  OBVIOUS
<1>1. CASE Accept
  <2>1. want' \in [Switch -> State \cup {"none"}] /\ toDev' \in Seq(Frame) /\ toHub' \in Seq(Report)
    <3> HIDE DEF TypeInv, TypeOK
    <3>1. toDev' \in {toDev, <<>>} /\ toHub' = <<>>
      BY <1>1 DEF Accept
    <3> QED
      BY <1>0, <1>1, <3>1, DueTyped, EmptySeq DEF Accept
  <2>2. count' \in [cmd : 0..MaxCmd, mishap : 0..MaxMishap, conn : 0..MaxConn]
    BY <1>1 DEF Accept, Used
  <2> QED
    BY <1>1, <2>1, <2>2 DEF Accept, mosq
<1>2. CASE Accepted
  BY <1>2 DEF Accepted, mosq, air
<1>3. CASE Eof
  BY <1>3 DEF Eof, main, mosq, air
<1>4. CASE DevnodeAdd
  <2> DEFINE r == Head(toHub)
  <2>1. r \in Report /\ toHub' \in Seq(Report)
    BY <1>4 DEF DevnodeAdd
  <2>2. r.from \in Switch
    BY <2>1 DEF Report
  <2> QED
    BY <1>4, <2>1, <2>2 DEF DevnodeAdd, mosq
<1>5. CASE AttrInit
  BY <1>5 DEF AttrInit, State, mosq, air
<1>6. CASE SetAttr
  <2> DEFINE r == Head(toHub)
  <2>1. r \in Report /\ toHub' \in Seq(Report)
    BY <1>6 DEF SetAttr
  <2>2. r.from \in Switch
    BY <2>1 DEF Report
  <2> QED
    BY <1>6, <2>1, <2>2 DEF SetAttr, mosq
<1>7. CASE SwitchPub
  BY <1>7 DEF SwitchPub, PubInv, NodeInv, State, mosq, air
<1>8. CASE MainDd
  <2>1. todo' \in Seq(Frame) /\ (todo' # <<>> <=> mpc' \in {"dd", "frame"})
    <3>1. CASE link = "none"
      <4>1. todo' = Tail(todo) /\ todo # <<>> /\ mpc' = (IF Len(todo) = 1 THEN "idle" ELSE "dd")
        BY <1>8, <3>1 DEF MainDd
      <4> HIDE DEF TypeInv, TypeOK
      <4> QED
        BY <1>0, <4>1, LastTyped
    <3>2. CASE link # "none"
      BY <1>8, <3>2 DEF MainDd
    <3> QED
      BY <3>1, <3>2
  <2> QED
    BY <1>8, <2>1 DEF MainDd, Write, mosq, air
<1>9. CASE MainFrame
  <2>1. todo' \in Seq(Frame) /\ (todo' # <<>> <=> mpc' \in {"dd", "frame"})
    <3>1. todo' = Tail(todo) /\ todo # <<>> /\ mpc' = (IF Len(todo) = 1 THEN "idle" ELSE "dd")
      BY <1>9 DEF MainFrame
    <3> HIDE DEF TypeInv, TypeOK
    <3> QED
      BY <1>0, <3>1, LastTyped
  <2>2. toDev' \in Seq(Frame)
    BY <1>9 DEF MainFrame, WriteFrame
  <2> QED
    BY <1>9, <2>1, <2>2 DEF MainFrame, WriteFrame, Write, mosq
<1>10. CASE SynTimeout
  <2> DEFINE q == SetToSeq({[to |-> d, ask |-> "query"] : d \in {e \in Switch : node[e] # "absent"}})
             h == [ask |-> "disc"]
  <2>1. todo' = <<h>> \o q
    BY <1>10 DEF SynTimeout
  <2>2. q \in Seq(Frame) /\ h \in Frame
    BY QueriesTyped DEF Frame
  <2>3. todo' \in Seq(Frame) /\ todo' # <<>>
    <3> HIDE DEF q, h
    <3> QED
      BY <2>1, <2>2
  <2> QED
    BY <1>10, <2>3 DEF SynTimeout, mosq, air
<1> QED
  BY <1>1, <1>2, <1>3, <1>4, <1>5, <1>6, <1>7, <1>8, <1>9, <1>10 DEF MainStep

(* The mosquitto thread's steps, and what happens outside the hub.         *)
LEMMA OutsideTyped ==
  ASSUME TypeInv,
         \/ MosqStep \/ Device \/ Lose \/ PeerClose
         \/ \E d \in Switch, s \in State : Command(d, s)
         \/ \E d \in Switch : Toggle(d)
  PROVE  TypeOK' /\ (qpc' # "idle" => qcmd' \in Frame)
<1> USE HubAssumption DEF TypeInv, TypeOK
<1>0. todo \in Seq(Frame) /\ toDev \in Seq(Frame) /\ toHub \in Seq(Report)
  OBVIOUS
<1>1. CASE Judge
  BY <1>1 DEF Judge, Stored, State, main, air
<1>2. CASE MosqDd
  <2>1. qpc' \in {"idle", "frame"} /\ qcmd' \in Frame \cup {NoFrame} /\ (qpc' # "idle" => qcmd' \in Frame)
    BY <1>2 DEF MosqDd
  <2>2. life' \in {"up", "pipe", "wild"} /\ link' \in {"none", "open", "closed", "reset"}
    BY <1>2 DEF MosqDd, Write
  <2> QED
    BY <1>2, <2>1, <2>2 DEF MosqDd, main, air
<1>3. CASE MosqFrame
  BY <1>3 DEF MosqFrame, WriteFrame, Write, main
<1>4. CASE Device
  <2> DEFINE f == Head(toDev)
             s == SetToSeq({[from |-> d, tlv |-> "disc"] : d \in Switch})
  <2>1. f \in Frame /\ toDev' \in Seq(Frame)
    BY <1>4 DEF Device
  <2>2. f.ask # "disc" => f.to \in Switch
    BY <2>1 DEF Frame
  <2>3. actual' \in [Switch -> State]
    BY <1>4, <2>2 DEF Device, State
  <2>4. toHub' \in Seq(Report)
    <3>1. CASE f.ask = "disc"
      <4>1. toHub' = toHub \o s
        BY <1>4, <3>1 DEF Device
      <4> HIDE DEF s
      <4> QED
        BY <4>1, AnswersTyped DEF s
    <3>2. CASE f.ask # "disc"
      <4> DEFINE r == [from |-> f.to, tlv |-> actual'[f.to]]
      <4>1. r \in Report
        BY <2>2, <2>3, <3>2 DEF Report, State
      <4>2. toHub' = Append(toHub, r) \/ UNCHANGED toHub
        BY <1>4, <3>2 DEF Device
      <4> HIDE DEF r, f, TypeInv, TypeOK
      <4> QED
        BY <1>0, <4>1, <4>2
    <3> QED
      BY <3>1, <3>2
  <2> QED
    BY <1>4, <2>1, <2>3, <2>4 DEF Device, main, mosq
<1>5. CASE Lose
  <2>1. want' \in [Switch -> State \cup {"none"}]
    BY <1>5, DueTyped DEF Lose
  <2>2. toDev' \in Seq(Frame) /\ toHub' \in Seq(Report)
    <3> HIDE DEF TypeInv, TypeOK
    <3>1. CASE toDev # <<>> /\ toDev' = Tail(toDev) /\ UNCHANGED toHub
      BY <1>0, <3>1
    <3>2. CASE toHub # <<>> /\ toHub' = Tail(toHub) /\ UNCHANGED toDev
      BY <1>0, <3>2
    <3> QED
      BY <1>5, <3>1, <3>2 DEF Lose
  <2>3. count' \in [cmd : 0..MaxCmd, mishap : 0..MaxMishap, conn : 0..MaxConn]
    <3>1. count.mishap < MaxMishap /\ Used("mishap")
      BY <1>5 DEF Lose
    <3>2. count' = [count EXCEPT !.mishap = @ + 1]
      BY <3>1 DEF Used
    <3>3. count \in [cmd : 0..MaxCmd, mishap : 0..MaxMishap, conn : 0..MaxConn] /\ MaxMishap \in Nat
      OBVIOUS
    <3> HIDE DEF TypeInv, TypeOK
    <3> QED
      BY <3>1, <3>2, <3>3
  <2> QED
    BY <1>5, <2>1, <2>2, <2>3 DEF Lose, main, mosq
<1>6. CASE PeerClose
  <2>1. want' \in [Switch -> State \cup {"none"}] /\ toDev' \in Seq(Frame)
    <3> HIDE DEF TypeInv, TypeOK
    <3>1. toDev' \in {toDev, <<>>}
      BY <1>6 DEF PeerClose
    <3> QED
      BY <1>0, <1>6, <3>1, DueTyped, EmptySeq DEF PeerClose
  <2> QED
    BY <1>6, <2>1 DEF PeerClose, main, mosq
<1>7. ASSUME NEW d \in Switch, NEW s \in State, Command(d, s)
      PROVE  TypeOK' /\ (qpc' # "idle" => qcmd' \in Frame)
  <2>1. qcmd' \in Frame
    BY <1>7 DEF Command, Frame, State
  <2>2. want' \in [Switch -> State \cup {"none"}]
    BY <1>7 DEF Command
  <2>3. count' \in [cmd : 0..MaxCmd, mishap : 0..MaxMishap, conn : 0..MaxConn]
    BY <1>7 DEF Command, Used
  <2> QED
    BY <1>7, <2>1, <2>2, <2>3 DEF Command, main, air
<1>8. ASSUME NEW d \in Switch, Toggle(d)
      PROVE  TypeOK' /\ (qpc' # "idle" => qcmd' \in Frame)
  <2>1. want' \in [Switch -> State \cup {"none"}]
    BY <1>8, DueTyped DEF Toggle
  <2>2. actual' \in [Switch -> State]
    BY <1>8 DEF Toggle, State
  <2>3. count' \in [cmd : 0..MaxCmd, mishap : 0..MaxMishap, conn : 0..MaxConn]
    BY <1>8 DEF Toggle, Used
  <2> QED
    BY <1>8, <2>1, <2>2, <2>3 DEF Toggle, main, mosq
<1> QED
  BY <1>1, <1>2, <1>3, <1>4, <1>5, <1>6, <1>7, <1>8 DEF MosqStep

LEMMA TypeStep == TypeInv /\ [Next]_vars => TypeInv'
<1> SUFFICES ASSUME TypeInv, [Next]_vars PROVE TypeInv'
  OBVIOUS
<1>1. PubInv'
  BY PubStep DEF TypeInv
<1>2. TypeOK' /\ (qpc' # "idle" => qcmd' \in Frame)
  <2>1. CASE UNCHANGED vars
    BY <2>1 DEF vars, main, mosq, air, TypeInv, TypeOK
  <2>2. CASE Next
    BY <2>2, MainTyped, OutsideTyped DEF Next
  <2> QED
    BY <2>1, <2>2
<1> QED
  BY <1>1, <1>2 DEF TypeInv

(* The variables keep their types and counts their bounds; main is between *)
(* frames exactly when it has some left to write (zigbee_serial.c 150-180).*)
THEOREM TypeCorrect == Spec => []TypeOK
<1>1. TypeInv => TypeOK
  BY DEF TypeInv
<1> QED
  BY <1>1, TypeInit, TypeStep, PTL DEF Spec
=============================================================================
