--------------------------- MODULE DevHeartProofs ---------------------------
(***************************************************************************)
(* The device list of the first generation: types; the walk of the         *)
(* heartbeat check stays on its node; lists, as the pointers met from one  *)
(* on; no device is listed twice; and where the damage to the list starts. *)
(***************************************************************************)
EXTENDS DevHeart, TLAPS

(* A packet has a TLV left while one is handled.                           *)
LeftInv == ppc = "tlv" \/ find.for = "resp" => left # 0

Inv == TypeOK /\ LeftInv

(* The packet thread's steps keep the types.                               *)
LEMMA PktTyped == ASSUME Inv, PktStep \/ \E d \in Dev : Packet(d) PROVE Inv'
<1> USE DevAssumption DEF Up, Pointer, Purpose, Inv, TypeOK, LeftInv, Blank, NoFind
<1>1. CASE \E d \in Dev : Packet(d)
  BY <1>1 DEF Packet, nodes, walk, ticks
<1>2. CASE FindStart
  BY <1>2 DEF FindStart, nodes, walk, ticks
<1>3. CASE FindNext
  BY <1>3 DEF FindNext, Wild, nodes, pkt, walk, ticks
<1>4. CASE FindHit
  BY <1>4 DEF FindHit, Resume, nodes, walk, ticks
<1>5. CASE FindGone
  BY <1>5 DEF FindGone, Resume, nodes, walk, ticks
<1>6. CASE FindMiss
  BY <1>6, SMTT(60) DEF FindMiss, Add, Wild, nodes, pkt, walk, ticks
<1>7. CASE Publish
  BY <1>7 DEF Publish, Resume, walk, ticks
<1>8. CASE Heartbeat
  BY <1>8 DEF Heartbeat, Resume, Wild, nodes, pkt, walk, ticks
<1>9. CASE GetKey \/ Measure
  BY <1>9 DEF GetKey, Measure, Resume, Wild, nodes, pkt, walk, ticks
<1>10. CASE PktExit
  BY <1>10 DEF PktExit, nodes, walk, ticks
<1>11. CASE DelAll
  <2>1. first \in Cell => next[first] \in Pointer
    OBVIOUS
  <2>2. CASE first \in live /\ Free(first) /\ first' = next[first] /\ UNCHANGED <<ppc, life>>
    <3>1. heap' \in [Cell -> [id : Dev \cup {Null}, heart : Nat, old : Nat]]
      BY <2>2 DEF Free
    <3>2. next' \in [Cell -> Pointer] /\ live' \subseteq Cell /\ first' \in Pointer
      BY <2>1, <2>2 DEF Free
    <3> QED
      BY <1>11, <2>2, <3>1, <3>2 DEF DelAll, walk, ticks
  <2> QED
    BY <1>11, <2>2 DEF DelAll, nodes, walk, ticks
<1>12. CASE \E d \in Dev : RespDiscove(d)
  BY <1>12 DEF RespDiscove, nodes, walk, ticks
<1> QED
  BY <1>1, <1>2, <1>3, <1>4, <1>5, <1>6, <1>7, <1>8, <1>9, <1>10, <1>11, <1>12
  DEF PktStep

(* So do the work thread's.                                                *)
LEMMA WorkTyped == ASSUME Inv, WorkStep PROVE Inv'
<1> USE DevAssumption DEF Up, Pointer, Purpose, Inv, TypeOK, LeftInv, Blank
<1>1. CASE Tick
  BY <1>1 DEF Tick, SyncData, nodes, pkt
<1>2. CASE WalkNext
  BY <1>2 DEF WalkNext, Wild, nodes, pkt, walk, ticks
<1>3. CASE CheckHeart
  BY <1>3 DEF CheckHeart, Wild, nodes, pkt, walk, ticks
<1>4. CASE DelHead
  BY <1>4 DEF DelHead, Wild, nodes, pkt, walk, ticks
<1>5. CASE DelMid
  BY <1>5 DEF DelMid, Wild, nodes, pkt, walk, ticks
<1>6. CASE NodeFree
  BY <1>6 DEF NodeFree, Free, Wild, nodes, pkt, walk, ticks
<1>7. CASE WorkExit
  BY <1>7 DEF WorkExit, nodes, pkt, ticks
<1> QED
  BY <1>1, <1>2, <1>3, <1>4, <1>5, <1>6, <1>7 DEF WorkStep

LEMMA InvHolds == Spec => []Inv
<1>1. Init => Inv
  BY DevAssumption DEF Init, Inv, TypeOK, LeftInv, Blank, NoFind, Pointer, Purpose
<1>2. Inv /\ [Next]_vars => Inv'
  <2> SUFFICES ASSUME Inv, [Next]_vars PROVE Inv'
    OBVIOUS
  <2>1. CASE Quit
    BY <2>1 DEF Quit, Pointer, Inv, TypeOK, LeftInv, nodes, pkt, walk, ticks
  <2>2. CASE UNCHANGED vars
    BY <2>2 DEF vars, Pointer, Inv, TypeOK, LeftInv, nodes, pkt, walk, ticks
  <2> QED
    BY <2>1, <2>2, PktTyped, WorkTyped DEF Next
<1> QED
  BY <1>1, <1>2, PTL DEF Spec

(* Every variable keeps its type.                                          *)
THEOREM TypeCorrect == Spec => []TypeOK
BY InvHolds, PTL DEF Inv

-----------------------------------------------------------------------------
(* The packet thread gives pNext only to cells that are not allocated, as  *)
(* long as it does not free the list.                                      *)
LEMMA PktKeepsWalk ==
    ASSUME TypeOK, NextStaysNext, PktStep \/ \E d \in Dev : Packet(d)
    PROVE  NextStaysNext'
<1> USE DEF Pointer, TypeOK, NextStaysNext
<1>1. CASE FindMiss
  BY <1>1 DEF FindMiss, Add, Wild, nodes, pkt, walk
<1>2. CASE DelAll
  BY <1>2 DEF DelAll, walk
<1>3. CASE Publish \/ Heartbeat
  BY <1>3 DEF Publish, Heartbeat, Resume, Wild, nodes, pkt, walk
<1>4. CASE FindStart \/ FindNext \/ FindHit \/ FindGone
  BY <1>4 DEF FindStart, FindNext, FindHit, FindGone, Resume, Wild, nodes, pkt, walk
<1>5. CASE GetKey \/ Measure \/ PktExit
  BY <1>5 DEF GetKey, Measure, PktExit, Resume, Wild, nodes, pkt, walk
<1>6. CASE \E d \in Dev : Packet(d) \/ RespDiscove(d)
  BY <1>6 DEF Packet, RespDiscove, nodes, walk
<1> QED
  BY <1>1, <1>2, <1>3, <1>4, <1>5, <1>6 DEF PktStep

(* The work thread relinks the predecessor of its node, and frees a node   *)
(* only when it leaves it.                                                 *)
LEMMA WorkKeepsWalk ==
    ASSUME TypeOK, NextStaysNext, WorkStep
    PROVE  NextStaysNext'
<1> USE DEF Pointer, TypeOK, NextStaysNext
<1>1. CASE DelMid
  BY <1>1 DEF DelMid, Wild, nodes, pkt, walk
<1>2. CASE WalkNext \/ CheckHeart \/ DelHead
  BY <1>2 DEF WalkNext, CheckHeart, DelHead, Wild, nodes, pkt, walk
<1>3. CASE Tick \/ NodeFree \/ WorkExit
  BY <1>3 DEF Tick, NodeFree, WorkExit, Wild, nodes, pkt, walk
<1> QED
  BY <1>1, <1>2, <1>3 DEF WorkStep

(* The pointer that the heartbeat check saves before it deletes stays the  *)
(* successor of the node it is at until the packet thread leaves.          *)
THEOREM WalkHolds == Spec => []NextStaysNext
<1>1. Init => NextStaysNext
  BY DEF Init, NextStaysNext
<1>2. TypeOK /\ NextStaysNext /\ [Next]_vars => NextStaysNext'
  <2> SUFFICES ASSUME TypeOK, NextStaysNext, [Next]_vars PROVE NextStaysNext'
    OBVIOUS
  <2>1. CASE Quit \/ UNCHANGED vars
    BY <2>1 DEF Quit, vars, NextStaysNext, nodes, pkt, walk
  <2> QED
    BY <2>1, PktKeepsWalk, WorkKeepsWalk DEF Next
<1> QED
  BY <1>1, <1>2, TypeCorrect, PTL DEF Spec
-----------------------------------------------------------------------------
(* The pointers met from x on contain x and the successors ...             *)
LEMMA ChainClosed ==
    ASSUME NEW nx \in [Cell -> Pointer], NEW lv \in SUBSET Cell, NEW x \in Pointer
    PROVE  /\ Chain(nx, lv, x) \subseteq Pointer /\ x \in Chain(nx, lv, x)
           /\ \A c \in Chain(nx, lv, x) \cap lv : nx[c] \in Chain(nx, lv, x)
BY DEF Chain

(* ... and are the least such set.                                         *)
LEMMA ChainLeast ==
    ASSUME NEW nx, NEW lv, NEW x,
           NEW S \in SUBSET Pointer, x \in S, \A c \in S \cap lv : nx[c] \in S
    PROVE  Chain(nx, lv, x) \subseteq S
BY DEF Chain

(* What is met from a pointer that is met, is met.                         *)
LEMMA ChainSub ==
    ASSUME NEW nx \in [Cell -> Pointer], NEW lv \in SUBSET Cell, NEW x \in Pointer,
           NEW y \in Chain(nx, lv, x)
    PROVE  Chain(nx, lv, y) \subseteq Chain(nx, lv, x)
BY ChainClosed, ChainLeast

(* From an allocated cell one goes on to its successor, ...                *)
LEMMA ChainStep ==
    ASSUME NEW nx \in [Cell -> Pointer], NEW lv \in SUBSET Cell, NEW x \in lv
    PROVE  Chain(nx, lv, x) = {x} \cup Chain(nx, lv, nx[x])
<1> DEFINE T == {x} \cup Chain(nx, lv, nx[x])
<1>1. x \in Pointer /\ nx[x] \in Pointer
  BY DEF Pointer
<1>2. T \in SUBSET Pointer /\ \A c \in T \cap lv : nx[c] \in T
  BY <1>1, ChainClosed
<1>3. T \subseteq Chain(nx, lv, x) /\ x \in T
  BY <1>1, ChainClosed, ChainSub
<1> HIDE DEF T
<1>4. Chain(nx, lv, x) \subseteq T
  BY <1>2, <1>3, ChainLeast
<1> QED
  BY <1>3, <1>4 DEF T

(* ... from any other pointer one does not.                                *)
LEMMA ChainStop ==
    ASSUME NEW nx, NEW lv, NEW x \in Pointer, x \notin lv
    PROVE  Chain(nx, lv, x) = {x}
<1> DEFINE T == {x}
<1>1. T \in SUBSET Pointer /\ x \in T /\ \A c \in T \cap lv : nx[c] \in T
  OBVIOUS
<1>2. x \in Chain(nx, lv, x)
  BY DEF Chain
<1> HIDE DEF T
<1>3. Chain(nx, lv, x) \subseteq T
  BY <1>1, ChainLeast
<1> QED
  BY <1>2, <1>3 DEF T

(* Of two pointers that are met, one leads to the other.                   *)
LEMMA ChainLine ==
    ASSUME NEW nx \in [Cell -> Pointer], NEW lv \in SUBSET Cell, NEW x \in Pointer,
           NEW p \in Chain(nx, lv, x), NEW q \in Chain(nx, lv, x)
    PROVE  q \in Chain(nx, lv, p) \/ p \in Chain(nx, lv, q)
<1> DEFINE T == {y \in Chain(nx, lv, x) : p \in Chain(nx, lv, y) \/ y \in Chain(nx, lv, p)}
<1>1. p \in Pointer /\ T \in SUBSET Pointer /\ x \in T
  BY ChainClosed
<1>2. ASSUME NEW y \in T \cap lv
      PROVE  nx[y] \in T
  <2>1. nx[y] \in Chain(nx, lv, x) /\ nx[y] \in Pointer
    BY ChainClosed
  <2>2. CASE y \in Chain(nx, lv, p)
    BY <1>1, <2>1, <2>2, ChainClosed
  <2>3. CASE p \in Chain(nx, lv, y) /\ y # p
    BY <2>1, <2>3, ChainStep
  <2>4. CASE y = p
    BY <1>1, <2>1, <2>4, ChainClosed
  <2> QED
    BY <2>2, <2>3, <2>4
<1> HIDE DEF T
<1>3. Chain(nx, lv, x) \subseteq T
  BY <1>1, <1>2, ChainLeast
<1> QED
  BY <1>3 DEF T

(* A list that ends does so from everywhere in it, and meets no freed cell.*)
LEMMA ChainEnds ==
    ASSUME NEW nx \in [Cell -> Pointer], NEW lv \in SUBSET Cell, NEW x \in Pointer,
           Null \in Chain(nx, lv, x), NEW y \in Chain(nx, lv, x)
    PROVE  Null \in Chain(nx, lv, y) /\ y \in lv \cup {Null}
<1>1. Null \in Pointer /\ Null \notin lv /\ y \in Pointer
  BY DevAssumption, ChainClosed DEF Pointer
<1>2. Chain(nx, lv, Null) = {Null}
  BY <1>1, ChainStop
<1>3. Null \in Chain(nx, lv, y)
  BY <1>1, <1>2, ChainLine, ChainClosed
<1> QED
  BY <1>1, <1>3, ChainStop

(* A ring does not end.                                                    *)
LEMMA ChainRing ==
    ASSUME NEW nx \in [Cell -> Pointer], NEW lv \in SUBSET Cell, NEW x \in lv,
           x \in Chain(nx, lv, nx[x])
    PROVE  Null \notin Chain(nx, lv, x)
<1> DEFINE T == {y \in Chain(nx, lv, x) : x \in Chain(nx, lv, y)}
<1>1. x \in Pointer /\ nx[x] \in Pointer /\ Null \in Pointer /\ Null \notin lv
  BY DevAssumption DEF Pointer
<1>2. T \in SUBSET Pointer /\ x \in T
  BY <1>1, ChainClosed
<1>3. ASSUME NEW y \in T \cap lv
      PROVE  nx[y] \in T
  BY <1>1, <1>3, ChainClosed, ChainStep
<1>4. Chain(nx, lv, Null) = {Null}
  BY <1>1, ChainStop
<1> HIDE DEF T
<1>5. Chain(nx, lv, x) \subseteq T
  BY <1>2, <1>3, ChainLeast
<1> QED
  BY <1>1, <1>4, <1>5 DEF T

(* So a list that ends has no ring in it.                                  *)
LEMMA EndsNoRing ==
    ASSUME NEW nx \in [Cell -> Pointer], NEW lv \in SUBSET Cell, NEW x \in Pointer,
           Null \in Chain(nx, lv, x), NEW y \in Chain(nx, lv, x) \cap lv
    PROVE  y \notin Chain(nx, lv, nx[y])
BY ChainEnds, ChainRing

(* Every pointer but the first is the successor of a cell in the list.     *)
LEMMA ChainPred ==
    ASSUME NEW nx \in [Cell -> Pointer], NEW lv \in SUBSET Cell, NEW x \in Pointer,
           NEW y \in Chain(nx, lv, x), y # x
    PROVE  \E p \in Chain(nx, lv, x) \cap lv : nx[p] = y
<1> DEFINE T == Chain(nx, lv, x) \ {y}
<1>1. CASE \E p \in T \cap lv : nx[p] \notin T
  BY <1>1, ChainClosed
<1>2. CASE \A p \in T \cap lv : nx[p] \in T
  <2>1. T \in SUBSET Pointer /\ x \in T
    BY ChainClosed
  <2>2. y \notin T
    OBVIOUS
  <2> HIDE DEF T
  <2>3. Chain(nx, lv, x) \subseteq T
    BY <1>2, <2>1, ChainLeast
  <2> QED
    BY <2>2, <2>3
<1> QED
  BY <1>1, <1>2

-----------------------------------------------------------------------------
(* What a new cell changes: lists keep what they had, ...                  *)
LEMMA ChainGrows ==
    ASSUME NEW nx \in [Cell -> Pointer], NEW lv \in SUBSET Cell,
           NEW nx2 \in [Cell -> Pointer], NEW lv2 \in SUBSET Cell,
           lv \subseteq lv2, \A d \in lv : nx2[d] = nx[d],
           NEW x \in Pointer
    PROVE  Chain(nx, lv, x) \subseteq Chain(nx2, lv2, x)
<1> DEFINE new == Chain(nx2, lv2, x)
<1>1. new \in SUBSET Pointer /\ x \in new /\ \A d \in new \cap lv : nx[d] \in new
  BY ChainClosed
<1> HIDE DEF new
<1>2. Chain(nx, lv, x) \subseteq new
  BY <1>1, ChainLeast
<1> QED
  BY <1>2 DEF new

(* ... gain what the cell leads to, ...                                    *)
LEMMA ChainAddBound ==
    ASSUME NEW nx \in [Cell -> Pointer], NEW lv \in SUBSET Cell, NEW c \in Cell,
           NEW nx2 \in [Cell -> Pointer], NEW lv2 \in SUBSET Cell, nx2[c] \in Pointer,
           \A d \in lv2 : d = c \/ (d \in lv /\ nx2[d] = nx[d]),
           NEW x \in Pointer
    PROVE  Chain(nx2, lv2, x) \subseteq Chain(nx, lv, x) \cup {c} \cup Chain(nx, lv, nx2[c])
<1> DEFINE old  == Chain(nx, lv, x)
           more == old \cup {c} \cup Chain(nx, lv, nx2[c])
<1>1. /\ old \in SUBSET Pointer /\ x \in old /\ \A d \in old \cap lv : nx[d] \in old
      /\ Chain(nx, lv, nx2[c]) \in SUBSET Pointer /\ nx2[c] \in Chain(nx, lv, nx2[c])
      /\ \A d \in Chain(nx, lv, nx2[c]) \cap lv : nx[d] \in Chain(nx, lv, nx2[c])
  BY ChainClosed
<1>2. more \in SUBSET Pointer /\ x \in more /\ \A d \in more \cap lv2 : nx2[d] \in more
  BY <1>1 DEF Pointer
<1> HIDE DEF more
<1>3. Chain(nx2, lv2, x) \subseteq more
  BY <1>2, ChainLeast
<1> QED
  BY <1>3 DEF more

(* ... and stay as they are when they do not lead to it.                   *)
LEMMA ChainAddSame ==
    ASSUME NEW nx \in [Cell -> Pointer], NEW lv \in SUBSET Cell, NEW c,
           NEW nx2 \in [Cell -> Pointer], NEW lv2 \in SUBSET Cell, lv \subseteq lv2,
           \A d \in lv : nx2[d] = nx[d], \A d \in lv2 : d = c \/ d \in lv,
           NEW x \in Pointer, c \notin Chain(nx, lv, x)
    PROVE  Chain(nx2, lv2, x) = Chain(nx, lv, x)
<1> DEFINE old == Chain(nx, lv, x)
<1>1. old \in SUBSET Pointer /\ x \in old /\ \A d \in old \cap lv2 : nx2[d] \in old
  BY ChainClosed
<1>2. old \subseteq Chain(nx2, lv2, x)
  BY ChainGrows
<1> HIDE DEF old
<1>3. Chain(nx2, lv2, x) \subseteq old
  BY <1>1, ChainLeast
<1> QED
  BY <1>2, <1>3 DEF old

(* What freeing a cell changes: lists that led through it do not end.      *)
LEMMA ChainFree ==
    ASSUME NEW nx \in [Cell -> Pointer], NEW lv \in SUBSET Cell, NEW x \in Pointer,
           NEW w \in lv
    PROVE  LET nx2 == [nx EXCEPT ![w] = Null]
               lv2 == lv \ {w}
           IN  /\ Chain(nx2, lv2, x) \subseteq Chain(nx, lv, x)
               /\ w \notin Chain(nx, lv, x) => Chain(nx2, lv2, x) = Chain(nx, lv, x)
               /\ w \in Chain(nx, lv, x) => Null \notin Chain(nx2, lv2, x)
<1> DEFINE nx2 == [nx EXCEPT ![w] = Null]
           lv2 == lv \ {w}
           old == Chain(nx, lv, x)
           new == Chain(nx2, lv2, x)
           T   == {y \in old : w \in Chain(nx, lv, y)}
<1>1. /\ nx2 \in [Cell -> Pointer] /\ lv2 \in SUBSET Cell
      /\ Null \in Pointer /\ Null \notin lv /\ w # Null
      /\ \A d \in lv2 : d \in lv /\ d # w /\ nx2[d] = nx[d]
  BY DevAssumption DEF Pointer
<1>2. old \in SUBSET Pointer /\ x \in old /\ \A d \in old \cap lv : nx[d] \in old
  BY ChainClosed
<1> HIDE DEF nx2, lv2
<1>3. new \subseteq old
  BY <1>1, <1>2, ChainLeast
<1>4. new \in SUBSET Pointer /\ x \in new /\ \A d \in new \cap lv2 : nx2[d] \in new
  BY <1>1, ChainClosed
<1>5. ASSUME w \notin old PROVE old \subseteq new
  <2>1. \A d \in new \cap lv : nx[d] \in new
    BY <1>1, <1>3, <1>4, <1>5 DEF lv2
  <2> QED
    BY <1>4, <2>1, ChainLeast
<1>6. ASSUME w \in old PROVE Null \notin new
  <2>1. T \in SUBSET Pointer /\ x \in T
    BY <1>2, <1>6
  <2>2. \A d \in T \cap lv2 : nx2[d] \in T
    BY <1>1, <1>2, ChainStep
  <2>3. Chain(nx, lv, Null) = {Null}
    BY <1>1, ChainStop
  <2> HIDE DEF T
  <2>4. new \subseteq T
    BY <2>1, <2>2, ChainLeast
  <2> QED
    BY <1>1, <2>3, <2>4 DEF T
<1> QED
  BY <1>3, <1>5, <1>6 DEF nx2, lv2

(* What unlinking a cell changes: nothing but that cell is lost, and it is *)
(* lost where there is no ring.                                            *)
LEMMA ChainSkip ==
    ASSUME NEW nx \in [Cell -> Pointer], NEW lv \in SUBSET Cell, NEW x \in Pointer,
           NEW p \in lv, NEW w \in lv, nx[p] = w
    PROVE  LET nx2 == [nx EXCEPT ![p] = nx[w]]
           IN  /\ Chain(nx2, lv, x) \subseteq Chain(nx, lv, x)
               /\ Chain(nx, lv, x) \subseteq Chain(nx2, lv, x) \cup {w}
               /\ /\ p \in Chain(nx, lv, x)
                  /\ \A c \in Chain(nx, lv, x) \cap lv : c \notin Chain(nx, lv, nx[c])
                  => w \notin Chain(nx2, lv, x)
<1> DEFINE nx2 == [nx EXCEPT ![p] = nx[w]]
           old == Chain(nx, lv, x)
           new == Chain(nx2, lv, x)
<1>1. /\ nx2 \in [Cell -> Pointer] /\ nx2[p] = nx[w]
      /\ \A d \in lv : d # p => nx2[d] = nx[d]
      /\ w \in Pointer /\ p \in Pointer /\ nx[w] \in Pointer
  BY DEF Pointer
<1>2. old \in SUBSET Pointer /\ x \in old /\ \A d \in old \cap lv : nx[d] \in old
  BY ChainClosed
<1> HIDE DEF nx2
<1>3. new \subseteq old
  <2>1. \A d \in old \cap lv : nx2[d] \in old
    BY <1>1, <1>2
  <2> QED
    BY <1>2, <2>1, ChainLeast
<1>4. new \in SUBSET Pointer /\ x \in new /\ \A d \in new \cap lv : nx2[d] \in new
  BY <1>1, ChainClosed
<1>5. old \subseteq new \cup {w}
  <2>1. CASE p \in new
    <3> DEFINE T == new \cup {w}
    <3>1. T \in SUBSET Pointer /\ x \in T /\ \A d \in T \cap lv : nx[d] \in T
      BY <1>1, <1>4, <2>1
    <3> HIDE DEF T
    <3>2. old \subseteq T
      BY <3>1, ChainLeast
    <3> QED
      BY <3>2 DEF T
  <2>2. CASE p \notin new
    <3>1. \A d \in new \cap lv : nx[d] \in new
      BY <1>1, <1>4, <2>2
    <3> QED
      BY <1>4, <3>1, ChainLeast
  <2> QED
    BY <2>1, <2>2
<1>6. ASSUME p \in old, \A c \in old \cap lv : c \notin Chain(nx, lv, nx[c]), w \in new
      PROVE  FALSE
  <2>1. w # x
    BY <1>1, <1>2, <1>6
  <2>2. PICK q \in new \cap lv : nx2[q] = w
    BY <1>1, <1>6, <2>1, ChainPred
  <2>3. w \in Chain(nx, lv, w) /\ nx[w] \in Chain(nx, lv, w)
    BY <1>1, ChainClosed
  <2>4. w # nx[w]
    BY <1>1, <1>2, <1>6, ChainClosed
  <2>5. q # p /\ nx[q] = w /\ q \in old
    BY <1>1, <1>3, <2>2, <2>4
  <2>6. q \in Chain(nx, lv, p) \/ p \in Chain(nx, lv, q)
    BY <1>6, <2>5, ChainLine
  <2>7. q \in Chain(nx, lv, w) \/ p \in Chain(nx, lv, w)
    BY <2>2, <2>5, <2>6, ChainStep
  <2> QED
    BY <1>6, <2>2, <2>5, <2>7
<1> QED
  BY <1>3, <1>5, <1>6 DEF nx2

(* The facts about lists, together.                                        *)
LEMMA ChainFacts ==
    ASSUME NEW nx \in [Cell -> Pointer], NEW lv \in SUBSET Cell
    PROVE  /\ \A x \in Pointer : /\ x \in Chain(nx, lv, x)
                                 /\ \A y \in Chain(nx, lv, x) :
                                       y \in Pointer /\ Chain(nx, lv, y) \subseteq Chain(nx, lv, x)
           /\ \A x \in lv : nx[x] \in Pointer /\ Chain(nx, lv, x) = {x} \cup Chain(nx, lv, nx[x])
           /\ \A x \in Pointer : Null \in Chain(nx, lv, x) =>
                 \A y \in Chain(nx, lv, x) :
                    /\ Null \in Chain(nx, lv, y) /\ y \in lv \cup {Null}
                    /\ y \in lv => y \notin Chain(nx, lv, nx[y])
           /\ Null \in Pointer /\ Null \notin lv /\ Chain(nx, lv, Null) = {Null}
<1>1. \A x \in Pointer : /\ x \in Chain(nx, lv, x)
                         /\ \A y \in Chain(nx, lv, x) :
                               y \in Pointer /\ Chain(nx, lv, y) \subseteq Chain(nx, lv, x)
  BY ChainClosed, ChainSub
<1>2. \A x \in lv : nx[x] \in Pointer /\ Chain(nx, lv, x) = {x} \cup Chain(nx, lv, nx[x])
  BY ChainStep
<1>3. \A x \in Pointer : Null \in Chain(nx, lv, x) =>
         \A y \in Chain(nx, lv, x) :
            /\ Null \in Chain(nx, lv, y) /\ y \in lv \cup {Null}
            /\ y \in lv => y \notin Chain(nx, lv, nx[y])
  BY ChainEnds, EndsNoRing
<1>4. Null \in Pointer /\ Null \notin lv
  BY DevAssumption DEF Pointer
<1>5. Chain(nx, lv, Null) = {Null}
  BY <1>4, ChainStop
<1> QED
  BY <1>1, <1>2, <1>3, <1>4, <1>5

(* A packet that is not being looked up, and one that only touches a count,*)
(* leave the list alone.                                                   *)
LEMMA PacketKeepsList ==
    ASSUME TypeOK, ListInv,
           ppc \notin {"publish", "delall", "off"}, ppc' \notin {"publish", "find"},
           UNCHANGED <<first, next, live, walk>>,
           \A c \in Cell : heap'[c].id = heap[c].id
    PROVE  ListInv'
<1> USE DEF From, Ends, walk
<1>1. Listed' \subseteq Listed
  BY DEF Listed
<1>2. Distinct'
  BY <1>1 DEF ListInv, Distinct, TypeOK
<1>3. SearchInv' /\ PublishInv'
  BY DEF SearchInv, PublishInv, Searching
<1>4. IdleInv'
  BY DEF ListInv, IdleInv, WalkSound
<1> QED
  BY <1>2, <1>3, <1>4 DEF ListInv

LEMMA FindStartKeepsList ==
    ASSUME TypeOK, ListInv, FindStart PROVE ListInv'
<1> USE DEF From, Ends, walk, nodes, FindStart
<1>1. next \in [Cell -> Pointer] /\ live \in SUBSET Cell /\ first \in Pointer
  BY DEF TypeOK
<1>2. Listed' = Listed /\ Distinct' /\ IdleInv' /\ PublishInv'
  BY DEF Listed, ListInv, Distinct, IdleInv, WalkSound, PublishInv
<1>3. ASSUME Ends(first) PROVE Listed \subseteq From(first) /\ NoRing(first) /\ WalkSound
  BY <1>1, <1>3, ChainFacts DEF ListInv, IdleInv, WalkSound, Listed, NoRing
<1>4. SearchInv'
  BY <1>2, <1>3 DEF SearchInv, WalkSound, NoRing
<1> QED
  BY <1>2, <1>4 DEF ListInv

LEMMA FindNextKeepsList ==
    ASSUME TypeOK, ListInv, FindNext, at \in live, heap[at].id # find.id, at' = next[at],
           UNCHANGED <<nodes, ppc, find, walk>>
    PROVE  ListInv'
<1> USE DEF From, Ends, walk, nodes, FindNext
<1>1. next \in [Cell -> Pointer] /\ live \in SUBSET Cell
  BY DEF TypeOK
<1>2. Listed' = Listed /\ Distinct' /\ IdleInv' /\ PublishInv'
  BY DEF Listed, ListInv, Distinct, IdleInv, WalkSound, PublishInv
<1>3. From(at) = {at} \cup From(next[at]) /\ at # Null
  BY <1>1, ChainFacts
<1>4. SearchInv'
  BY <1>2, <1>3 DEF ListInv, SearchInv, Searching, WalkSound, NoRing
<1> QED
  BY <1>2, <1>4 DEF ListInv

(* The second assignment of sl_addhead.                                    *)
LEMMA PublishKeepsList ==
    ASSUME TypeOK, ListInv, Publish PROVE ListInv'
<1> USE DEF From, Ends, walk, Publish, Resume
<1>1. /\ next \in [Cell -> Pointer] /\ live \in SUBSET Cell
      /\ first \in Pointer /\ at \in Pointer /\ wnode \in Pointer
  BY DEF TypeOK
<1>2. /\ ppc = "publish" /\ ppc' \in {"start", "wait", "tlv"} /\ first' = at
      /\ UNCHANGED <<next, heap, live, wpc, wnode>>
  OBVIOUS
<1>3. Listed' \subseteq Listed
  BY <1>2 DEF Listed
<1>4. Distinct' /\ SearchInv' /\ PublishInv'
  BY <1>2, <1>3 DEF ListInv, Distinct, SearchInv, Searching, PublishInv
<1>5. ASSUME Ends(at) PROVE WalkSound'
  <2>1. first \in From(at) /\ WalkSound
    BY <1>2, <1>5 DEF ListInv, PublishInv
  <2>2. From(first) \subseteq From(at)
    BY <1>1, <2>1, ChainFacts
  <2>3. CASE wpc = "free"
    <3>1. CASE wnode \notin From(at)
      BY <1>2, <2>1, <2>2, <2>3, <3>1 DEF WalkSound
    <3>2. CASE wnode \in From(at) /\ wnode = Null
      BY <1>1, <1>2, <2>1, <2>2, <2>3, <3>2, ChainFacts DEF WalkSound
    <3>3. CASE wnode \in From(at) /\ wnode # Null
      <4>1. wnode \in live /\ wnode \notin From(next[wnode]) /\ Ends(wnode)
        BY <1>1, <1>5, <3>3, ChainFacts
      <4>2. Ends(next[wnode])
        BY <1>1, <4>1, ChainFacts
      <4> QED
        BY <1>2, <2>3, <4>1, <4>2 DEF WalkSound
    <3> QED
      BY <3>1, <3>2, <3>3
  <2> QED
    BY <1>2, <2>1, <2>2, <2>3 DEF WalkSound
<1>6. IdleInv'
  BY <1>2, <1>5 DEF IdleInv
<1> QED
  BY <1>4, <1>6 DEF ListInv

(* zigbee_devnode_add: the id was not found, and the new cell is known to  *)
(* nobody, unless a damaged list led to it.                                *)
LEMMA AddKeepsList ==
    ASSUME TypeOK, NextStaysNext, ListInv, Searching, at = Null,
           NEW c \in Cell \ live, Add(c), ppc' = "publish",
           UNCHANGED <<first, find, walk>>
    PROVE  ListInv'
<1> DEFINE old(x) == Chain(next, live, x)
           new(x) == Chain(next', live', x)
<1>1. /\ next \in [Cell -> Pointer] /\ live \in SUBSET Cell
      /\ first \in Pointer /\ wnode \in Pointer /\ c \in Pointer
      /\ heap \in [Cell -> [id : Dev \cup {Null}, heart : Nat, old : Nat]]
  BY DEF TypeOK, Pointer
<1>2. /\ next' = [next EXCEPT ![c] = first] /\ live' = live \cup {c} /\ at' = c
      /\ next' \in [Cell -> Pointer] /\ live' \in SUBSET Cell /\ next'[c] = first
      /\ heap' = [heap EXCEPT ![c] = [id |-> find.id, heart |-> 1, old |-> 0]]
      /\ UNCHANGED <<first, find, wpc, wnode, wnext>>
  BY <1>1 DEF Add, walk
<1>3. \A x \in Pointer : /\ old(x) \subseteq new(x)
                         /\ new(x) \subseteq old(x) \cup {c} \cup old(first)
                         /\ c \notin old(x) => new(x) = old(x)
  <2>1. next \in [Cell -> Pointer] /\ live \in SUBSET Cell /\ first \in Pointer
    BY <1>1
  <2>2. /\ next' \in [Cell -> Pointer] /\ next'[c] = first
        /\ \A d \in live : next'[d] = next[d]
        /\ live' \in SUBSET Cell /\ live \subseteq live' /\ \A d \in live' : d \in live \/ d = c
        /\ c \in Cell /\ c \notin live
    BY <1>1, <1>2
  <2>3. ASSUME NEW x \in Pointer
        PROVE  /\ Chain(next, live, x) \subseteq Chain(next', live', x)
               /\ Chain(next', live', x) \subseteq Chain(next, live, x) \cup {c} \cup Chain(next, live, first)
               /\ c \notin Chain(next, live, x) => Chain(next', live', x) = Chain(next, live, x)
    <3>1. Chain(next, live, x) \subseteq Chain(next', live', x)
      BY <2>1, <2>2, ChainGrows
    <3>2. Chain(next', live', x) \subseteq Chain(next, live, x) \cup {c} \cup Chain(next, live, next'[c])
      <4>1. next'[c] \in Pointer /\ \A d \in live' : d = c \/ (d \in live /\ next'[d] = next[d])
        BY <2>1, <2>2
      <4> QED
        BY <2>1, <2>2, <4>1, ChainAddBound
    <3>3. c \notin Chain(next, live, x) => Chain(next', live', x) = Chain(next, live, x)
      BY <2>1, <2>2, ChainAddSame
    <3> QED
      BY <2>2, <3>1, <3>2, <3>3
  <2> QED
    BY <2>3
<1>4. Null \in old(at)
  BY <1>1, ChainFacts
<1>5. /\ \A e \in Listed \cap live : heap[e].id # find.id
      /\ NoRing(first) /\ WalkSound
  <2>1. old(at) = {Null} /\ Null \notin live
    BY <1>1, ChainFacts
  <2> QED
    BY <1>4, <2>1 DEF ListInv, SearchInv, From, Ends
<1>6. new(c) = {c} \cup new(first)
  <2>1. /\ next' \in [Cell -> Pointer] /\ live' \in SUBSET Cell
        /\ c \in live' /\ next'[c] = first
    BY <1>2
  <2> QED
    BY <2>1, ChainFacts
<1>7. Distinct'
  <2>1. Listed' \subseteq Listed \cup {c}
    BY <1>1, <1>2, <1>3, <1>6 DEF Listed, From
  <2>2. Listed' \cap live' \subseteq (Listed \cap live) \cup {c}
    BY <1>2, <2>1
  <2>3. \A e \in Cell \ {c} : heap'[e] = heap[e]
    BY <1>1, <1>2
  <2>4. heap'[c].id = find.id
    BY <1>1, <1>2
  <2> QED
    BY <1>1, <1>5, <2>2, <2>3, <2>4 DEF ListInv, Distinct
<1>8. ASSUME c \in old(first) PROVE Null \notin new(c) /\ Null \notin new(first)
  <2>1. c \in new(first) /\ c \in live'
    BY <1>1, <1>2, <1>3, <1>8
  <2>2. Null \notin new(c)
    BY <1>2, <2>1, ChainRing
  <2> QED
    BY <1>6, <2>2
<1>9. ASSUME c \notin old(first) PROVE WalkSound' /\ AtApart'
  <2>1. new(first) = old(first)
    BY <1>1, <1>3, <1>9
  <2>2. \A x \in Pointer : x \in old(first) \/ Null \in old(x) => c \notin old(x)
    BY <1>1, <1>9, ChainFacts
  <2>3. \A x \in Pointer : x \in old(first) \/ Null \in old(x) => new(x) = old(x) /\ c \notin new(x)
    BY <1>1, <1>3, <2>2
  <2>4. CASE wpc \in {"next", "check", "mid", "head"}
    BY <1>1, <1>2, <1>5, <1>9, <2>1, <2>3, <2>4 DEF WalkSound, AtApart, From, Ends
  <2>5. CASE wpc = "free"
    <3>1. wnode \in live /\ next'[wnode] = next[wnode] /\ next[wnode] \in Pointer /\ wnode # c
      BY <1>1, <1>2, <2>5 DEF NextStaysNext, Searching
    <3> QED
      BY <1>1, <1>2, <1>5, <1>9, <2>1, <2>3, <2>5, <3>1 DEF WalkSound, AtApart, From, Ends
  <2>6. CASE wpc \notin {"next", "check", "mid", "head", "free"}
    BY <1>1, <1>2, <1>9, <2>1, <2>6 DEF WalkSound, AtApart, From, Ends
  <2> QED
    BY <2>4, <2>5, <2>6
<1>10. PublishInv'
  <2>1. wpc = "head" => wnode \in new(first)
    BY <1>1, <1>3, <1>5 DEF WalkSound, From
  <2>2. first \in new(c)
    <3>1. first \in Pointer /\ next' \in [Cell -> Pointer] /\ live' \in SUBSET Cell
      BY <1>1, <1>2
    <3>2. first \in new(first)
      BY <3>1, ChainFacts
    <3> QED
      BY <1>6, <3>2
  <2> QED
    BY <1>2, <1>8, <1>9, <2>1, <2>2 DEF PublishInv, From, Ends
<1>11. SearchInv' /\ IdleInv'
  BY DEF SearchInv, IdleInv, Searching
<1> QED
  BY <1>7, <1>10, <1>11 DEF ListInv

(* Freeing a cell only takes from the lists.                               *)
LEMMA FreeShrinks ==
    ASSUME TypeOK, NEW c \in live, Free(c)
    PROVE  \A x \in Pointer :
              /\ Chain(next', live', x) \subseteq From(x)
              /\ c \notin From(x) => Chain(next', live', x) = From(x)
              /\ c \in From(x) => Null \notin Chain(next', live', x)
BY ChainFree DEF TypeOK, Free, From

(* zigbee_devnode_delall takes the head.                                   *)
LEMMA DelAllKeepsList ==
    ASSUME TypeOK, ListInv, ppc = "delall", first \in live,
           first' = next[first], Free(first), UNCHANGED <<ppc, at, walk>>
    PROVE  ListInv'
<1>1. /\ next \in [Cell -> Pointer] /\ live \in SUBSET Cell
      /\ first \in Pointer /\ next[first] \in Pointer /\ wnode \in Pointer
  BY DEF TypeOK, Pointer
<1>2. From(next[first]) \subseteq From(first)
  BY <1>1, ChainFacts DEF From
<1>3. Listed' \subseteq Listed
  BY <1>1, <1>2, FreeShrinks DEF Listed, From, walk
<1>4. \A c \in live' : c \in live /\ heap'[c] = heap[c]
  BY DEF Free, TypeOK
<1> QED
  BY <1>3, <1>4
  DEF ListInv, Distinct, SearchInv, Searching, PublishInv, IdleInv

LEMMA WildKeepsList ==
    ASSUME ListInv, UNCHANGED <<nodes, ppc, at, find, walk>> PROVE ListInv'
BY DEF nodes, walk, ListInv, Distinct, Listed, SearchInv, Searching, NoRing, WalkSound,
       PublishInv, AtApart, IdleInv, From, Ends

LEMMA PktKeepsList ==
    ASSUME Inv, NextStaysNext, ListInv, PktStep \/ \E d \in Dev : Packet(d)
    PROVE  ListInv'
<1>1. CASE FindStart
  BY <1>1, FindStartKeepsList DEF Inv
<1>2. CASE FindNext
  BY <1>2, FindNextKeepsList, WildKeepsList DEF FindNext, Wild, Inv, nodes, pkt, walk
<1>3. CASE FindHit \/ FindGone \/ GetKey \/ PktExit
  BY <1>3, PacketKeepsList DEF FindHit, FindGone, GetKey, PktExit, Resume, Inv, nodes, walk
<1>4. CASE FindMiss
  BY <1>4, AddKeepsList, WildKeepsList DEF FindMiss, Searching, Wild, Inv, nodes, pkt, walk
<1>5. CASE Publish
  BY <1>5, PublishKeepsList DEF Inv
<1>6. CASE Heartbeat
  <2>1. CASE life' = life /\ Resume(left) /\ UNCHANGED <<first, next, live, walk>>
             /\ heap' = IF cur \in live THEN [heap EXCEPT ![cur].heart = @ + 1] ELSE heap
    <3>1. \A c \in Cell : heap'[c].id = heap[c].id
      BY <2>1 DEF Inv, TypeOK
    <3> QED
      BY <1>6, <2>1, <3>1, PacketKeepsList DEF Heartbeat, Resume, Inv
  <2> QED
    BY <1>6, <2>1, WildKeepsList DEF Heartbeat, Wild, nodes, pkt, walk
<1>7. CASE Measure
  BY <1>7, PacketKeepsList, WildKeepsList DEF Measure, Resume, Wild, Inv, nodes, pkt, walk
<1>8. CASE DelAll
  <2>1. CASE first = Null /\ ppc' = "off" /\ UNCHANGED nodes
    BY <1>8, <2>1 DEF DelAll, nodes, walk, ListInv, Distinct, Listed, SearchInv, Searching,
                      PublishInv, IdleInv, From
  <2> QED
    BY <1>8, <2>1, DelAllKeepsList, WildKeepsList DEF DelAll, Inv, nodes, walk
<1>9. CASE \E d \in Dev : Packet(d) \/ RespDiscove(d)
  BY <1>9, PacketKeepsList DEF Packet, RespDiscove, Inv, nodes, walk
<1> QED
  BY <1>1, <1>2, <1>3, <1>4, <1>5, <1>6, <1>7, <1>8, <1>9 DEF PktStep
(* The facts about lists, for the list as it is.                           *)
LEMMA FromFacts ==
    ASSUME TypeOK
    PROVE  /\ \A x \in Pointer : /\ x \in From(x)
                                 /\ \A y \in From(x) : y \in Pointer /\ From(y) \subseteq From(x)
           /\ \A x \in live : next[x] \in Pointer /\ From(x) = {x} \cup From(next[x])
           /\ \A x \in Pointer : Ends(x) =>
                 \A y \in From(x) : /\ Ends(y) /\ y \in live \cup {Null}
                                    /\ y \in live => y \notin From(next[y])
           /\ Null \in Pointer /\ Null \notin live /\ From(Null) = {Null}
<1>1. next \in [Cell -> Pointer] /\ live \in SUBSET Cell
  BY DEF TypeOK
<1> QED
  BY <1>1, ChainFacts DEF From, Ends

(* A step of the work thread that writes no node and keeps what the walk   *)
(* promises keeps the list.                                                *)
LEMMA StayKeepsList ==
    ASSUME TypeOK, ListInv, UNCHANGED <<nodes, ppc, at, find>>, wnode' \in Pointer,
           WalkSound => WalkSound', AtApart => AtApart',
           wpc' = "head" => wnode' \in From(first)
    PROVE  ListInv'
<1> USE DEF nodes
<1>1. first \in Pointer /\ \A x : From(x)' = From(x) /\ Ends(x)' = Ends(x)
  BY DEF TypeOK, From, Ends
<1>2. Listed' \subseteq Listed
  BY <1>1, FromFacts DEF Listed
<1>3. NoRing(first)' = NoRing(first)
  BY <1>1 DEF NoRing
<1>4. Distinct'
  BY <1>2 DEF ListInv, Distinct
<1>5. SearchInv'
  BY <1>1, <1>2, <1>3 DEF ListInv, SearchInv, Searching
<1>6. PublishInv'
  BY <1>1 DEF ListInv, PublishInv
<1>7. IdleInv'
  BY <1>1 DEF ListInv, IdleInv
<1> QED
  BY <1>4, <1>5, <1>6, <1>7 DEF ListInv

(* The walk from node to node, and the comparison with the head.           *)
LEMMA WalkKeepsList ==
    ASSUME TypeOK, ListInv, Tick \/ WalkNext \/ CheckHeart \/ WorkExit,
           life' = "up", TypeOK'
    PROVE  ListInv'
<1>1. UNCHANGED <<nodes, ppc, at, find>>
  BY DEF Tick, WalkNext, CheckHeart, WorkExit, Wild, Up, pkt
<1>2. /\ first \in Pointer /\ wnode \in Pointer /\ wnode' \in Pointer
      /\ \A x : From(x)' = From(x) /\ Ends(x)' = Ends(x)
      /\ first' = first /\ next' = next /\ live' = live /\ at' = at
  BY <1>1 DEF TypeOK, From, Ends, nodes
<1>3. CASE Tick \/ WorkExit
  <2>1. wpc = "wait" /\ wpc' \in {"wait", "next", "off"} /\ (wpc' = "next" => wnode' = first)
    BY <1>3 DEF Tick, WorkExit
  <2> QED
    BY <1>1, <1>2, <2>1, FromFacts, StayKeepsList DEF WalkSound, AtApart
<1>4. CASE WalkNext
  <2>1. wpc = "next" /\ wpc' \in {"wait", "check"} /\ wnode' = wnode
    BY <1>4 DEF WalkNext, Wild
  <2> QED
    BY <1>1, <1>2, <2>1, StayKeepsList DEF WalkSound, AtApart
<1>5. CASE CheckHeart
  <2>1. /\ wpc = "check" /\ wnode' = wnode /\ wnode \in live
        /\ wpc' = CASE first = Null -> "free" [] first = wnode -> "head" [] OTHER -> "mid"
    BY <1>5 DEF CheckHeart, Wild, Silent
  <2>2. CASE first = Null
    <3>1. wpc' = "free"
      BY <2>1, <2>2, FromFacts
    <3>2. WalkSound => WalkSound'
      BY <1>2, <2>1, <2>2, <3>1, FromFacts DEF WalkSound
    <3>3. AtApart => AtApart'
      BY <1>2, <2>1, <2>2, <3>1, FromFacts DEF AtApart
    <3> QED
      BY <1>1, <1>2, <3>1, <3>2, <3>3, StayKeepsList
  <2>3. CASE first # Null
    <3>1. wpc' = "mid" \/ (wpc' = "head" /\ first = wnode)
      BY <2>1, <2>3
    <3> QED
      BY <1>1, <1>2, <2>1, <3>1, FromFacts, StayKeepsList DEF WalkSound, AtApart
  <2> QED
    BY <2>2, <2>3
<1> QED
  BY <1>3, <1>4, <1>5

(* sl_del of the head writes the successor of its node over the head,      *)
(* whatever the head is by then.                                           *)
LEMMA DelHeadKeepsList ==
    ASSUME TypeOK, ListInv, wpc = "head", wnode \in live, first' = next[wnode],
           wpc' = "free", UNCHANGED <<next, heap, live, ppc, at, find, wnode>>
    PROVE  ListInv'
<1>1. /\ first \in Pointer /\ wnode \in Pointer /\ at \in Pointer /\ next[wnode] \in Pointer
      /\ \A x : From(x)' = From(x) /\ Ends(x)' = Ends(x)
  BY DEF TypeOK, From, Ends, Pointer
<1>2. /\ From(wnode) = {wnode} \cup From(next[wnode])
      /\ next[wnode] \in From(next[wnode])
  BY <1>1, FromFacts
<1>3. Listed' \subseteq Listed
  BY <1>1, <1>2 DEF Listed
<1>4. Distinct'
  BY <1>3 DEF ListInv, Distinct
<1>5. wnode \notin From(next[wnode]) => WalkSound'
  BY <1>1, <1>2 DEF WalkSound
<1>6. SearchInv'
  <2> SUFFICES ASSUME Searching, Ends(at)
               PROVE  /\ \A c \in Listed' \cap live : heap[c].id = find.id => c \in From(at)
                      /\ NoRing(first)' /\ WalkSound'
    BY <1>1 DEF SearchInv, Searching
  <2>1. wnode \in From(first) /\ NoRing(first)
    BY DEF ListInv, SearchInv, WalkSound
  <2>2. From(next[wnode]) \subseteq From(first)
    BY <1>1, <1>2, <2>1, FromFacts
  <2>3. NoRing(first)'
    BY <1>1, <2>1, <2>2 DEF NoRing
  <2> QED
    BY <1>3, <1>5, <2>1, <2>3 DEF ListInv, SearchInv, NoRing
<1>7. PublishInv'
  <2> SUFFICES ASSUME ppc = "publish"
               PROVE  /\ Ends(at) => next[wnode] \in From(at) /\ WalkSound'
                      /\ Ends(next[wnode]) => AtApart'
    BY <1>1 DEF PublishInv
  <2>1. wnode \in From(first)
    BY DEF ListInv, PublishInv
  <2>2. From(next[wnode]) \subseteq From(first)
    BY <1>1, <1>2, <2>1, FromFacts
  <2>3. ASSUME Ends(at) PROVE next[wnode] \in From(at) /\ WalkSound'
    <3>1. wnode \in From(at)
      BY <1>1, <2>1, <2>3, FromFacts DEF ListInv, PublishInv
    <3>2. wnode \notin From(next[wnode])
      BY <1>1, <2>3, <3>1, FromFacts
    <3>3. From(wnode) \subseteq From(at)
      BY <1>1, <3>1, FromFacts
    <3> QED
      BY <1>2, <1>5, <3>2, <3>3
  <2>4. ASSUME Ends(next[wnode]) PROVE AtApart'
    <3>1. AtApart
      BY <2>2, <2>4 DEF Ends, ListInv, PublishInv
    <3> QED
      BY <1>1, <2>1, <2>2, <3>1 DEF AtApart
  <2> QED
    BY <2>3, <2>4
<1>8. IdleInv'
  <2>1. Ends(next[wnode]) => wnode \notin From(next[wnode])
    BY <1>1, <1>2, FromFacts DEF Ends
  <2> QED
    BY <1>1, <1>5, <2>1 DEF IdleInv
<1> QED
  BY <1>4, <1>6, <1>7, <1>8 DEF ListInv
(* Unlinking a node that is met takes it, and nothing else, from the       *)
(* lists.                                                                  *)
LEMMA SkipFacts ==
    ASSUME TypeOK, wnode \in live, NEW p \in live, next[p] = wnode,
           next' = [next EXCEPT ![p] = next[wnode]], UNCHANGED <<first, live, wnode>>
    PROVE  /\ \A x \in Pointer :
                 /\ Chain(next', live', x) \subseteq From(x)
                 /\ From(x) \subseteq Chain(next', live', x) \cup {wnode}
                 /\ p \in From(x) /\ NoRing(x) => wnode \notin Chain(next', live', x)
           /\ next[wnode] \in Pointer /\ next'[wnode] = next[wnode]
           /\ next'[p] = next[wnode] /\ \A d \in live : d # p => next'[d] = next[d]
<1>1. /\ next \in [Cell -> Pointer] /\ live \in SUBSET Cell /\ p \in Cell /\ wnode \in Cell
      /\ next[wnode] \in Pointer
  BY DEF TypeOK
<1>2. ASSUME NEW x \in Pointer
      PROVE  /\ Chain(next', live', x) \subseteq From(x)
             /\ From(x) \subseteq Chain(next', live', x) \cup {wnode}
             /\ p \in From(x) /\ NoRing(x) => wnode \notin Chain(next', live', x)
  BY <1>1, ChainSkip DEF From, NoRing
<1> QED
  BY <1>1, <1>2

(* sl_del of another node.                                                 *)
LEMMA DelMidKeepsList ==
    ASSUME TypeOK, ListInv, wpc = "mid", wnode \in live,
           NEW p \in Reached \cap live, next[p] = wnode,
           next' = [next EXCEPT ![p] = next[wnode]],
           wpc' = "free", UNCHANGED <<first, heap, live, ppc, at, find, wnode>>
    PROVE  ListInv'
<1> DEFINE new(x) == Chain(next', live', x)
           n == next[wnode]
<1>1. /\ first \in Pointer /\ wnode \in Pointer /\ at \in Pointer /\ n \in Pointer
      /\ p \in From(first) /\ p \in Pointer /\ p \in live
  BY DEF TypeOK, Pointer, Reached
<1>2. /\ \A x \in Pointer : /\ new(x) \subseteq From(x)
                            /\ From(x) \subseteq new(x) \cup {wnode}
                            /\ p \in From(x) /\ NoRing(x) => wnode \notin new(x)
      /\ next'[wnode] = n /\ next'[p] = n /\ \A d \in live : d # p => next'[d] = next[d]
  BY SkipFacts
<1>3. \A x : From(x)' = new(x) /\ (Ends(x)' <=> Null \in new(x))
  BY DEF From, Ends
<1>4. \A x \in Pointer : Null \in new(x) => Ends(x)
  BY <1>2 DEF Ends
<1>5. wnode \in From(first) /\ n \in From(first) /\ From(wnode) = {wnode} \cup From(n) /\ n \in From(n)
  BY <1>1, FromFacts
<1> HIDE DEF n, new
<1>6. Listed' \subseteq Listed
  BY <1>1, <1>2, <1>3 DEF Listed
<1>7. Distinct'
  BY <1>6 DEF ListInv, Distinct
<1>8. ASSUME NoRing(first)
      PROVE  wnode \notin new(first) /\ WalkSound' /\ NoRing(first)'
  <2>1. wnode \notin new(first)
    BY <1>1, <1>2, <1>8
  <2>2. wnode \notin From(n)
    BY <1>5, <1>8 DEF NoRing, n
  <2>3. n \in new(first)
    BY <1>1, <1>2, <1>5, <2>2
  <2>4. WalkSound'
    BY <1>2, <1>3, <2>1, <2>3 DEF WalkSound
  <2>5. ASSUME NEW y \in new(first) \cap live
        PROVE  y \notin new(next'[y])
    <3>1. y \in From(first) /\ y \notin From(next[y]) /\ next[y] \in Pointer
      BY <1>1, <1>2, <1>8 DEF NoRing, TypeOK
    <3>2. CASE y # p
      BY <1>2, <3>1, <3>2
    <3>3. CASE y = p
      BY <1>1, <1>2, <1>5, <3>1, <3>3
    <3> QED
      BY <3>2, <3>3
  <2>6. NoRing(first)'
    BY <1>3, <2>5 DEF NoRing
  <2> QED
    BY <2>1, <2>4, <2>6
<1>9. Ends(first) => NoRing(first)
  BY <1>1, FromFacts DEF NoRing
<1>10. SearchInv'
  <2> SUFFICES ASSUME Searching, Ends(at)
               PROVE  /\ \A c \in Listed' \cap live : heap[c].id = find.id => c \in new(at)
                      /\ NoRing(first)' /\ WalkSound'
    BY <1>1, <1>3, <1>4 DEF SearchInv, Searching
  <2>1. /\ \A c \in Listed \cap live : heap[c].id = find.id => c \in From(at)
        /\ NoRing(first)
    BY DEF ListInv, SearchInv
  <2>2. Listed' \subseteq new(first)
    BY <1>3 DEF Listed, Searching
  <2> QED
    BY <1>1, <1>2, <1>6, <1>8, <2>1, <2>2
<1>11. PublishInv'
  <2> SUFFICES ASSUME ppc = "publish"
               PROVE  /\ Ends(at) => first \in new(at) /\ WalkSound'
                      /\ Ends(first) => AtApart'
    BY <1>1, <1>3, <1>4 DEF PublishInv
  <2>1. ASSUME Ends(at) PROVE first \in new(at) /\ WalkSound'
    <3>1. first \in From(at) /\ Ends(first)
      BY <1>1, <2>1, FromFacts DEF ListInv, PublishInv
    <3>2. p \in From(at) /\ p \notin From(wnode)
      BY <1>1, <2>1, <3>1, FromFacts
    <3>3. first # wnode
      BY <1>1, <3>2
    <3> QED
      BY <1>1, <1>2, <1>8, <1>9, <3>1, <3>3
  <2>2. ASSUME Ends(first) PROVE AtApart'
    <3>1. AtApart
      BY <2>2 DEF ListInv, PublishInv
    <3>2. at \notin From(wnode)
      BY <3>1 DEF AtApart
    <3> QED
      BY <1>1, <1>2, <1>3, <1>5, <3>1, <3>2 DEF AtApart
  <2> QED
    BY <2>1, <2>2
<1>12. IdleInv'
  BY <1>1, <1>3, <1>4, <1>8, <1>9 DEF IdleInv
<1> QED
  BY <1>7, <1>10, <1>11, <1>12 DEF ListInv
(* sys_free of the node of the walk, which goes on with the pointer saved. *)
LEMMA NodeFreeKeepsList ==
    ASSUME TypeOK, NextStaysNext, ListInv, wpc = "free", wnode \in live, Free(wnode),
           wnode' = wnext, wpc' = "next", UNCHANGED <<first, ppc, at, find>>
    PROVE  ListInv'
<1> DEFINE new(x) == Chain(next', live', x)
           n == next[wnode]
<1>1. /\ first \in Pointer /\ wnode \in Pointer /\ at \in Pointer /\ n \in Pointer
      /\ \A x : From(x)' = new(x) /\ (Ends(x)' <=> Null \in new(x))
  BY DEF TypeOK, Pointer, From, Ends
<1>2. /\ \A x \in Pointer : new(x) \subseteq From(x) /\ (wnode \notin From(x) => new(x) = From(x))
      /\ \A x \in Pointer : Null \in new(x) => Ends(x) /\ wnode \notin From(x) /\ new(x) = From(x)
  <2>1. \A x \in Pointer : /\ new(x) \subseteq From(x)
                           /\ wnode \notin From(x) => new(x) = From(x)
                           /\ wnode \in From(x) => Null \notin new(x)
    BY FreeShrinks
  <2> QED
    BY <2>1 DEF Ends
<1>3. \A d \in live' : d \in live /\ d # wnode /\ next'[d] = next[d] /\ heap'[d] = heap[d]
  BY DEF Free, TypeOK
<1> HIDE DEF new, n
<1>4. Listed' \subseteq Listed
  BY <1>1, <1>2 DEF Listed
<1>5. Distinct'
  BY <1>3, <1>4 DEF ListInv, Distinct
<1>6. CASE ppc \in {"delall", "off"}
  BY <1>5, <1>6 DEF ListInv, SearchInv, Searching, PublishInv, IdleInv
<1>7. CASE ppc \notin {"delall", "off"}
  <2>1. wnode' = n
    BY <1>7 DEF NextStaysNext, n
  <2>2. ASSUME WalkSound PROVE WalkSound'
    <3>1. CASE wnode \notin From(first) /\ n \in From(first)
      BY <1>1, <1>2, <2>1, <3>1 DEF WalkSound
    <3>2. CASE wnode \notin From(n) /\ Ends(n)
      BY <1>1, <1>2, <2>1, <3>2 DEF WalkSound, Ends
    <3> QED
      BY <2>2, <3>1, <3>2 DEF WalkSound, n
  <2>3. ASSUME NoRing(first) PROVE NoRing(first)'
    <3>1. ASSUME NEW y \in new(first) \cap live'
          PROVE  y \notin new(next'[y])
      BY <1>1, <1>2, <1>3, <2>3, <3>1 DEF NoRing, TypeOK
    <3> QED
      BY <1>1, <3>1 DEF NoRing
  <2>4. SearchInv'
    <3> SUFFICES ASSUME Searching, Null \in new(at)
                 PROVE  /\ \A c \in Listed' \cap live' : heap'[c].id = find.id => c \in new(at)
                        /\ NoRing(first)' /\ WalkSound'
      BY <1>1 DEF SearchInv, Searching
    <3>1. Ends(at) /\ new(at) = From(at)
      BY <1>1, <1>2
    <3> QED
      BY <1>3, <1>4, <2>2, <2>3, <3>1 DEF ListInv, SearchInv
  <2>5. PublishInv'
    <3> SUFFICES ASSUME ppc = "publish"
                 PROVE  /\ Null \in new(at) => first \in new(at) /\ WalkSound'
                        /\ Null \in new(first) => AtApart'
      BY <1>1 DEF PublishInv
    <3>1. ASSUME Null \in new(at) PROVE first \in new(at) /\ WalkSound'
      BY <1>1, <1>2, <2>2, <3>1 DEF ListInv, PublishInv
    <3>2. ASSUME Null \in new(first) PROVE AtApart'
      <4>1. AtApart
        BY <1>1, <1>2, <3>2 DEF ListInv, PublishInv
      <4>2. /\ at \in live /\ at \notin From(first) /\ at # wnode /\ at \notin From(n)
        BY <4>1 DEF AtApart, n
      <4>3. at \in live'
        BY <4>2 DEF Free
      <4> QED
        BY <1>1, <1>2, <2>1, <4>2, <4>3 DEF AtApart
    <3> QED
      BY <3>1, <3>2
  <2>6. IdleInv'
    BY <1>1, <1>2, <2>2 DEF ListInv, IdleInv
  <2> QED
    BY <1>5, <2>4, <2>5, <2>6 DEF ListInv
<1> QED
  BY <1>6, <1>7

LEMMA WorkKeepsList ==
    ASSUME Inv, Inv', NextStaysNext, ListInv, WorkStep
    PROVE  ListInv'
<1>1. CASE life' # "up"
  BY <1>1, WildKeepsList
  DEF WorkStep, Tick, WalkNext, CheckHeart, DelHead, DelMid, NodeFree, WorkExit, Wild, Up,
      nodes, pkt, walk
<1>2. CASE life' = "up" /\ (Tick \/ WalkNext \/ CheckHeart \/ WorkExit)
  BY <1>2, WalkKeepsList DEF Inv
<1>3. CASE life' = "up" /\ DelHead
  BY <1>3, DelHeadKeepsList DEF DelHead, Wild, Inv, pkt
<1>4. CASE life' = "up" /\ DelMid
  BY <1>4, DelMidKeepsList DEF DelMid, Wild, Inv, pkt
<1>5. CASE life' = "up" /\ NodeFree
  BY <1>5, NodeFreeKeepsList DEF NodeFree, Wild, Inv, pkt
<1> QED
  BY <1>1, <1>2, <1>3, <1>4, <1>5 DEF WorkStep

(* The invariant of the list holds ...                                     *)
LEMMA ListHolds == Spec => []ListInv
<1>1. Init => ListInv
  <2> SUFFICES ASSUME Init PROVE ListInv
    OBVIOUS
  <2>1. live = {} /\ ppc = "wait" /\ wpc = "wait"
    BY DEF Init
  <2> QED
    BY <2>1 DEF ListInv, Distinct, SearchInv, Searching, PublishInv, IdleInv, WalkSound
<1>2. Inv /\ Inv' /\ NextStaysNext /\ ListInv /\ [Next]_vars => ListInv'
  <2> SUFFICES ASSUME Inv, Inv', NextStaysNext, ListInv, [Next]_vars PROVE ListInv'
    OBVIOUS
  <2>1. CASE Quit \/ UNCHANGED vars
    BY <2>1, WildKeepsList DEF Quit, vars, pkt
  <2> QED
    BY <2>1, PktKeepsList, WorkKeepsList DEF Next
<1> QED
  BY <1>1, <1>2, InvHolds, WalkHolds, PTL DEF Spec

(* ... so no two listed nodes are of the same device: the packet thread    *)
(* adds after a search that the deletions cannot make miss a node.         *)
THEOREM UniqueHolds == Spec => []IdsUnique
<1>1. ListInv => IdsUnique
  BY DEF ListInv, Distinct, Listed, IdsUnique, Reached
<1> QED
  BY <1>1, ListHolds, PTL
-----------------------------------------------------------------------------
(* The allocated nodes that need not be in the list.                       *)
Apart == {c \in {at} : ppc = "publish"} \cup {c \in {wnode} : wpc = "free"}

(* The packet thread leaves a whole list whole, unless a deletion has      *)
(* changed the head it read.                                               *)
LEMMA PktKeepsWhole ==
    ASSUME Inv, ListInv, Whole, ~StaleHead, PktStep \/ \E d \in Dev : Packet(d)
    PROVE  Whole'
<1>1. /\ next \in [Cell -> Pointer] /\ live \in SUBSET Cell
      /\ first \in Pointer /\ at \in Pointer
  BY DEF Inv, TypeOK
<1>2. /\ Ends(first) /\ Reached = live \ Apart
      /\ \A y \in From(first) : y \in live \/ y = Null
  BY <1>1, FromFacts DEF Whole, Apart, Inv
<1>3. CASE UNCHANGED <<first, next, live, wpc, wnode, ppc, at>>
  BY <1>3 DEF Whole, Reached, Ends, From
<1>4. CASE UNCHANGED <<first, next, live, wpc, wnode>> /\ ppc # "publish" /\ ppc' # "publish"
  BY <1>4 DEF Whole, Reached, Ends, From
<1>5. CASE FindMiss /\ ppc' = "publish" /\ \E c \in Cell \ live : Add(c)
  <2>1. PICK c \in Cell \ live : Add(c)
    BY <1>5
  <2>2. /\ next' \in [Cell -> Pointer] /\ live' \in SUBSET Cell /\ live \subseteq live'
        /\ \A d \in live : next'[d] = next[d]
        /\ \A d \in live' : d = c \/ d \in live
    BY <1>1, <2>1 DEF Add, Pointer
  <2>3. c \notin Chain(next, live, first)
    BY <1>2, <2>1, DevAssumption DEF From
  <2>4. Chain(next', live', first) = Chain(next, live, first)
    BY <1>1, <2>2, <2>3, ChainAddSame
  <2>5. /\ ppc = "find" /\ ppc' = "publish" /\ at' = c /\ live' = live \cup {c}
        /\ UNCHANGED <<first, wpc, wnode>>
    BY <1>5, <2>1 DEF FindMiss, Add, Wild, walk, pkt
  <2>6. From(first)' = From(first)
    BY <2>4, <2>5 DEF From
  <2>7. Reached' = Reached /\ c \notin Reached
    BY <2>3, <2>6 DEF Reached, From
  <2> QED
    BY <1>2, <2>1, <2>5, <2>6, <2>7 DEF Whole, Apart, Ends
<1>6. CASE Publish
  <2>1. /\ ppc = "publish" /\ ppc' # "publish" /\ first' = at /\ next[at] = first
        /\ UNCHANGED <<next, live, wpc, wnode>>
    BY <1>6 DEF Publish, StaleHead, Resume, walk
  <2>2. at \in live /\ at \notin From(first) /\ (wpc = "free" => at # wnode)
    BY <1>2, <2>1 DEF ListInv, PublishInv, AtApart
  <2>3. From(first)' = {at} \cup From(first)
    <3>1. From(at) = {at} \cup From(next[at])
      BY <2>2, FromFacts DEF Inv
    <3> QED
      BY <2>1, <3>1 DEF From
  <2> QED
    BY <1>1, <1>2, <2>1, <2>2, <2>3, FromFacts DEF Whole, Reached, Apart, Ends, Inv
<1>7. CASE DelAll
  <2>1. CASE first \in live /\ first' = next[first] /\ Free(first)
    <3>1. /\ ppc = "delall" /\ ppc' = "delall" /\ UNCHANGED <<at, wpc, wnode>>
      BY <1>7, <2>1 DEF DelAll, Inv, TypeOK, Free, Pointer, nodes, walk
    <3>2. /\ next[first] \in Pointer /\ From(first) = {first} \cup From(next[first])
          /\ first \notin From(next[first]) /\ first # Null
      BY <1>1, <1>2, <2>1, FromFacts DEF Inv
    <3>3. From(first)' = From(next[first])
      <4>1. Chain(next', live', next[first]) = From(next[first])
        BY <2>1, <3>2, FreeShrinks DEF Inv
      <4> QED
        BY <2>1, <4>1 DEF From
    <3>4. live' = live \ {first}
      BY <2>1 DEF Free
    <3> QED
      BY <1>2, <3>1, <3>2, <3>3, <3>4 DEF Whole, Reached, Apart, Ends
  <2> QED
    BY <1>3, <1>4, <1>7, <2>1 DEF DelAll, nodes, walk
<1>8. CASE FindNext \/ FindHit \/ FindGone \/ FindStart
  BY <1>3, <1>4, <1>8 DEF FindNext, FindHit, FindGone, FindStart, Resume, Wild, nodes, pkt, walk
<1>9. CASE Heartbeat \/ GetKey \/ Measure \/ PktExit
  BY <1>3, <1>4, <1>9 DEF Heartbeat, GetKey, Measure, PktExit, Resume, Wild, nodes, pkt, walk
<1>10. CASE FindMiss /\ ~(ppc' = "publish" /\ \E c \in Cell \ live : Add(c))
  BY <1>3, <1>10 DEF FindMiss, Wild, nodes, pkt, walk
<1>11. CASE \E d \in Dev : Packet(d) \/ RespDiscove(d)
  BY <1>4, <1>11 DEF Packet, RespDiscove, nodes, walk
<1> QED
  BY <1>5, <1>6, <1>7, <1>8, <1>9, <1>10, <1>11 DEF PktStep

(* The work thread does, too, unless an addition has changed the head it   *)
(* compared its node with.                                                 *)
LEMMA WorkKeepsWhole ==
    ASSUME Inv, ListInv, Whole, ~StaleHead, WorkStep
    PROVE  Whole'
<1>1. /\ first \in Pointer /\ wnode \in Pointer /\ at \in Pointer
      /\ live \in SUBSET Cell /\ Null \notin live
  BY FromFacts DEF Inv, TypeOK
<1>2. /\ Ends(first) /\ Reached = live \ Apart
      /\ \A y \in From(first) \cap live : y \notin From(next[y])
      /\ first \in From(first)
  BY <1>1, FromFacts DEF Whole, Apart, Inv
<1>3. CASE UNCHANGED <<first, next, live, ppc, at, wpc, wnode>>
  BY <1>3 DEF Whole, Reached, Ends, From
<1>4. CASE UNCHANGED <<first, next, live, ppc, at>> /\ wpc # "free" /\ wpc' # "free"
  BY <1>4 DEF Whole, Reached, Ends, From
<1>5. CASE Tick \/ WalkNext \/ WorkExit
  BY <1>3, <1>4, <1>5 DEF Tick, WalkNext, WorkExit, Wild, nodes, pkt, walk
<1>6. CASE CheckHeart
  <2>1. ~(wpc = "check" /\ wnode \in live /\ first = Null)
    <3> SUFFICES ASSUME wpc = "check", wnode \in live, first = Null PROVE FALSE
      OBVIOUS
    <3>1. Reached = {}
      BY FromFacts DEF Reached, Inv
    <3>2. ppc = "publish" /\ wnode = at
      BY <1>2, <3>1 DEF Apart
    <3>3. at \notin From(wnode)
      BY <1>2, <3>2 DEF ListInv, PublishInv, AtApart
    <3> QED
      BY <1>1, <3>2, <3>3, FromFacts DEF Inv
  <2> QED
    BY <1>3, <1>4, <1>6, <2>1 DEF CheckHeart, Wild, nodes, pkt, walk
<1>7. CASE DelHead
  <2>1. CASE wnode \in live /\ first' = next[wnode] /\ wpc' = "free"
             /\ UNCHANGED <<next, heap, live, pkt, wnode>>
    <3>1. first = wnode /\ wpc = "head"
      BY <1>7 DEF DelHead, StaleHead
    <3>2. From(first)' = From(next[wnode])
      BY <2>1 DEF From
    <3>3. From(first) = {wnode} \cup From(next[wnode]) /\ wnode \notin From(next[wnode])
      BY <1>2, <2>1, <3>1, FromFacts DEF Inv
    <3> QED
      BY <1>1, <1>2, <2>1, <3>1, <3>2, <3>3 DEF Whole, Reached, Apart, Ends, pkt
  <2> QED
    BY <1>3, <1>7, <2>1 DEF DelHead, Wild, nodes, pkt, walk
<1>8. CASE DelMid
  <2>1. CASE wnode \in live /\ wpc' = "free" /\ UNCHANGED <<first, heap, live, pkt, wnode>>
             /\ \E c \in Reached \cap live :
                   next[c] = wnode /\ next' = [next EXCEPT ![c] = next[wnode]]
    <3>1. PICK p \in Reached \cap live :
                   next[p] = wnode /\ next' = [next EXCEPT ![p] = next[wnode]]
      BY <2>1
    <3>2. wpc = "mid" /\ p \in From(first) /\ p \in live
      BY <1>8, <3>1 DEF DelMid, Reached
    <3>3. From(first)' = Chain(next', live', first)
      BY <2>1 DEF From
    <3>4. /\ Chain(next', live', first) \subseteq From(first)
          /\ From(first) \subseteq Chain(next', live', first) \cup {wnode}
          /\ wnode \notin Chain(next', live', first)
      BY <1>1, <1>2, <2>1, <3>1, <3>2, SkipFacts DEF NoRing, Inv
    <3>5. wnode \in From(first)
      BY <1>1, <3>1, <3>2, FromFacts DEF Inv
    <3> QED
      <4>1. From(first)' = From(first) \ {wnode}
        BY <3>3, <3>4
      <4>2. /\ wnode # Null /\ live' = live
            /\ ppc' = ppc /\ at' = at /\ wpc' = "free" /\ wnode' = wnode
        BY <1>1, <2>1 DEF pkt
      <4>3. Ends(first)' /\ Reached' = Reached \ {wnode}
        BY <1>2, <4>1, <4>2 DEF Ends, Reached
      <4>4. Apart' = Apart \cup {wnode}
        BY <3>2, <4>2 DEF Apart
      <4> QED
        BY <1>2, <4>2, <4>3, <4>4 DEF Whole, Apart
  <2> QED
    BY <1>3, <1>8, <2>1 DEF DelMid, Wild, nodes, pkt, walk
<1>9. CASE NodeFree
  <2>1. CASE wnode \in live /\ Free(wnode) /\ wpc' = "next" /\ UNCHANGED <<first, pkt>>
    <3>1. wpc = "free"
      BY <1>9 DEF NodeFree
    <3>2. wnode \notin From(first)
      BY <1>1, <1>2, <2>1, <3>1 DEF Apart, Reached
    <3>3. From(first)' = From(first)
      <4>1. Chain(next', live', first) = From(first)
        BY <1>1, <2>1, <3>2, FreeShrinks DEF Inv
      <4> QED
        BY <2>1, <4>1 DEF From
    <3>4. live' = live \ {wnode}
      BY <2>1 DEF Free
    <3> QED
      BY <1>2, <2>1, <3>1, <3>3, <3>4 DEF Whole, Reached, Apart, Ends, pkt
  <2> QED
    BY <1>3, <1>9, <2>1 DEF NodeFree, Wild, nodes, pkt, walk
<1> QED
  BY <1>5, <1>6, <1>7, <1>8, <1>9 DEF WorkStep

(* The list loses nodes, keeps freed ones or runs in a ring only where one *)
(* thread writes a head that the other has changed since it was read.      *)
THEOREM DamageHolds == Spec => DamageExplained
<1>1. Inv /\ ListInv /\ [Next]_vars => DamageExplainedStep
  <2> SUFFICES ASSUME Inv, ListInv, [Next]_vars, Whole, ~StaleHead PROVE Whole'
    BY DEF DamageExplainedStep
  <2>1. CASE Quit \/ UNCHANGED vars
    BY <2>1 DEF Quit, vars, nodes, pkt, walk, Whole, Reached, From, Ends
  <2> QED
    BY <2>1, PktKeepsWhole, WorkKeepsWhole DEF Next
<1> QED
  BY <1>1, InvHolds, ListHolds, PTL DEF Spec, DamageExplained
=============================================================================
