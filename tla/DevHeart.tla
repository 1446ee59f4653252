------------------------------ MODULE DevHeart ------------------------------
(***************************************************************************)
(* The first generation's device list (src/application/curl).  The packet  *)
(* thread finds, adds and updates nodes for what the devices report; the   *)
(* work thread's one-second timer asks the devices for data and every so   *)
(* often walks the list to drop the silent ones.  The list has no lock.    *)
(*                                                                         *)
(* A node is a cell of the heap, and a step reads or writes one shared     *)
(* pointer: find goes node by node, sl_addhead and the sl_del of the head  *)
(* are cut between reading pFirst and writing it.  The search for a        *)
(* predecessor in sl_del, and each deletion of delall, are one step.       *)
(*                                                                         *)
(* life = "wild" is the process that has followed a pointer to NULL or to  *)
(* a freed cell where what it finds decides what it does next: C defines   *)
(* nothing from there on, and neither does the model.                      *)
(*                                                                         *)
(* MaxPkts bounds the packets, MaxTlv the TLVs of one packet; SyncTicks    *)
(* and HeartTicks stand for the thresholds 30 and 60 of pwork.c.           *)
(***************************************************************************)
EXTENDS Naturals, FiniteSets

CONSTANTS Dev, Cell, Null, MaxPkts, MaxTlv, SyncTicks, HeartTicks

ASSUME DevAssumption ==
    /\ Null \notin Cell /\ Null \notin Dev /\ IsFiniteSet(Cell)
    /\ {MaxPkts, MaxTlv, SyncTicks, HeartTicks} \subseteq Nat

VARIABLES
    first, next,     \* g_DevNode.pFirst, and pNext of each cell
    heap,    \* what each cell holds besides
    live,    \* the cells allocated now
    ppc,     \* packet thread: "wait", "start", "find", "publish", "beat",
               \*   "tlv", "delall", "off"
    at,      \* the node find is at, or the one being added
    find,    \* the id sought and what for: see Purpose
    cur,     \* pstDevNode of prevpkt_tlvproc
    left,    \* TLVs of the packet not handled yet
    pkts,    \* packets so far
    wpc,     \* work thread: "wait", "next", "check", "head", "mid", "free", "off"
    wnode, wnext,    \* pstNode and pstNext of the walk
    sec, hsec,       \* usSecNum and usSecNumHeart of workmain
    syncnum,         \* usSecNum of zigbee_devproc_syncdata
    quit,    \* main has posted "exit" to both threads
    life

nodes == <<first, next, heap, live>>
pkt   == <<ppc, at, find, cur, left, pkts>>
walk  == <<wpc, wnode, wnext>>
ticks == <<sec, hsec, syncnum>>
vars  == <<nodes, pkt, walk, ticks, quit, life>>

Pointer == Cell \cup {Null}
Up      == life = "up"

(* Why the packet thread searches: for the sender of a packet, for the     *)
(* sender it has just added, or for the device a discovery answer names.   *)
Purpose == {"sender", "again", "resp"}
NoFind  == [id |-> Null, for |-> "sender"]

(* What a freed cell holds does not matter: nothing in it is read.         *)
Blank == [id |-> Null, heart |-> 0, old |-> 0]

(* The type invariant.                                                     *)
TypeOK ==
    /\ first \in Pointer /\ next \in [Cell -> Pointer] /\ live \subseteq Cell
    /\ heap \in [Cell -> [id : Dev \cup {Null}, heart : Nat, old : Nat]]
    /\ ppc \in {"wait", "start", "find", "publish", "beat", "tlv", "delall", "off"}
    /\ at \in Pointer /\ cur \in Pointer
    /\ find \in [id : Dev \cup {Null}, for : Purpose]
    /\ left \in 0..MaxTlv /\ pkts \in 0..MaxPkts
    /\ wpc \in {"wait", "next", "check", "head", "mid", "free", "off"}
    /\ wnode \in Pointer /\ wnext \in Pointer
    /\ sec \in 0..SyncTicks /\ hsec \in 0..HeartTicks /\ syncnum \in {0, 1}
    /\ quit \in {"no", "yes"} /\ life \in {"up", "wild"}

Init ==
    /\ first = Null /\ next = [c \in Cell |-> Null] /\ live = {}
    /\ heap = [c \in Cell |-> Blank]
    /\ ppc = "wait" /\ at = Null /\ find = NoFind
    /\ cur = Null /\ left = 0 /\ pkts = 0
    /\ wpc = "wait" /\ wnode = Null /\ wnext = Null
    /\ sec = 0 /\ hsec = 0 /\ syncnum = 0
    /\ quit = "no" /\ life = "up"

Wild == life' = "wild" /\ UNCHANGED <<nodes, pkt, walk, ticks, quit>>

Free(c) ==
    /\ live' = live \ {c}
    /\ next' = [next EXCEPT ![c] = Null]
    /\ heap' = [heap EXCEPT ![c] = Blank]

-----------------------------------------------------------------------------
(* The packet thread.                                                      *)

(* prevpkt_tlvproc begins with a search for the sender.                    *)
Packet(d) ==
    /\ Up /\ ppc = "wait" /\ pkts < MaxPkts
    /\ left' \in 0..MaxTlv /\ pkts' = pkts + 1 /\ cur' = Null
    /\ ppc' = "start" /\ find' = [id |-> d, for |-> "sender"]
    /\ UNCHANGED <<nodes, at, walk, ticks, quit, life>>

FindStart ==
    /\ Up /\ ppc = "start"
    /\ at' = first /\ ppc' = "find"
    /\ UNCHANGED <<nodes, find, cur, left, pkts, walk, ticks, quit, life>>

(* One node of zigbee_devnode_find that is not the one.                    *)
FindNext ==
    /\ Up /\ ppc = "find" /\ at # Null
    /\ \/ /\ at \in live /\ heap[at].id # find.id
          /\ at' = next[at]
          /\ UNCHANGED <<nodes, ppc, find, cur, left, pkts, walk, ticks, quit, life>>
       \/ at \notin live /\ Wild

(* The packet goes on with n TLVs to handle.                               *)
Resume(n) ==
    /\ left' = n /\ ppc' = IF n = 0 THEN "wait" ELSE "tlv"
    /\ at' = Null /\ find' = NoFind

(* Found: a known sender gets its heartbeat, a discovered device its type. *)
FindHit ==
    /\ Up /\ ppc = "find" /\ at \in live /\ heap[at].id = find.id
    /\ cur' = at
    /\ \/ find.for = "sender" /\ ppc' = "beat" /\ UNCHANGED <<at, find, left>>
       \/ find.for = "again" /\ Resume(left)
       \/ find.for = "resp" /\ Resume(left - 1)
    /\ UNCHANGED <<nodes, pkts, walk, ticks, quit, life>>

(* The node just added is gone already: the rest of the packet is dropped. *)
FindGone ==
    /\ Up /\ ppc = "find" /\ at = Null /\ find.for = "again"
    /\ cur' = Null /\ Resume(0)
    /\ UNCHANGED <<nodes, pkts, walk, ticks, quit, life>>

(* Variant of the next definition: linked at the end, as by sl_addafter.   *)
AddTail(c) ==
    /\ next' = [e \in Cell |-> IF e = c THEN Null
                               ELSE IF e \in live /\ next[e] = Null THEN c ELSE next[e]]
    /\ live' = live \cup {c}
    /\ heap' = [heap EXCEPT ![c] = [id |-> find.id, heart |-> 1, old |-> 0]]
    /\ at' = IF first = Null THEN c ELSE first

(* zigbee_devnode_add up to the first assignment of sl_addhead.            *)
Add(c) ==
    /\ next' = [next EXCEPT ![c] = first]
    /\ live' = live \cup {c}
    /\ heap' = [heap EXCEPT ![c] = [id |-> find.id, heart |-> 1, old |-> 0]]
    /\ at' = c

(* Not found: the node is added; without memory malloc's NULL is written   *)
(* to.                                                                     *)
FindMiss ==
    /\ Up /\ ppc = "find" /\ at = Null /\ find.for # "again"
    /\ \/ /\ \E c \in Cell \ live : Add(c)
          /\ ppc' = "publish"
          /\ UNCHANGED <<first, find, cur, left, pkts, walk, ticks, quit, life>>
       \/ Cell \subseteq live /\ Wild

(* The second assignment of sl_addhead.  The sender is searched again; for *)
(* a discovered device pstDevNode stays NULL.                              *)
Publish ==
    /\ Up /\ ppc = "publish" /\ first' = at
    /\ \/ /\ find.for = "sender" /\ find' = [find EXCEPT !.for = "again"]
          /\ ppc' = "start" /\ UNCHANGED <<at, cur, left>>
       \/ find.for = "resp" /\ cur' = Null /\ Resume(left - 1)
    /\ UNCHANGED <<next, heap, live, pkts, walk, ticks, quit, life>>

(* The count in a node that was freed meanwhile is lost, or worse.         *)
Heartbeat ==
    /\ Up /\ ppc = "beat"
    /\ \/ /\ heap' = IF cur \in live THEN [heap EXCEPT ![cur].heart = @ + 1] ELSE heap
          /\ Resume(left)
          /\ UNCHANGED <<first, next, live, cur, pkts, walk, ticks, quit, life>>
       \/ cur \notin live /\ Wild

(* A key sends a prompt and leaves the node alone.                         *)
GetKey ==
    /\ Up /\ ppc = "tlv" /\ Resume(left - 1)
    /\ UNCHANGED <<nodes, cur, pkts, walk, ticks, quit, life>>

(* MO_HUMI, MO_TEMPER and MO_DISTANCE store into the node of pstDevNode.   *)
Measure ==
    /\ Up /\ ppc = "tlv"
    /\ \/ /\ cur # Null /\ Resume(left - 1)
          /\ UNCHANGED <<nodes, cur, pkts, walk, ticks, quit, life>>
       \/ cur \notin live /\ Wild

(* Variant of the next definition: the named device is not looked up.      *)
RespDiscoveAdds(d) ==
    /\ Up /\ ppc = "tlv" /\ ppc' = "find" /\ at' = Null
    /\ find' = [id |-> d, for |-> "resp"]
    /\ UNCHANGED <<nodes, cur, left, pkts, walk, ticks, quit, life>>

(* An answer to the discovery: the device it names is looked up.           *)
RespDiscove(d) ==
    /\ Up /\ ppc = "tlv" /\ ppc' = "start"
    /\ find' = [id |-> d, for |-> "resp"]
    /\ UNCHANGED <<nodes, at, cur, left, pkts, walk, ticks, quit, life>>

(* "exit" from main ends the loop; zigbee_devnode_delall follows, whatever *)
(* the work thread is doing.                                               *)
PktExit ==
    /\ Up /\ ppc = "wait" /\ quit = "yes" /\ ppc' = "delall"
    /\ UNCHANGED <<nodes, at, find, cur, left, pkts, walk, ticks, quit, life>>

DelAll ==
    /\ Up /\ ppc = "delall"
    /\ \/ /\ first = Null /\ ppc' = "off" /\ UNCHANGED <<nodes, life>>
       \/ /\ first \in live
          /\ first' = next[first] /\ Free(first)
          /\ UNCHANGED <<ppc, life>>
       \/ /\ first \in Cell \ live
          /\ life' = "wild" /\ UNCHANGED <<nodes, ppc>>
    /\ UNCHANGED <<at, find, cur, left, pkts, walk, ticks, quit>>

-----------------------------------------------------------------------------
(* The work thread.                                                        *)

(* zigbee_devproc_syncdata: the first call discovers, every later one asks *)
(* for data (1 is reset to 0 and incremented again).                       *)
SyncData == syncnum' = 1

(* A timer tick of workmain.  The heartbeat walk starts at the head.       *)
Tick ==
    /\ Up /\ wpc = "wait"
    /\ IF sec + 1 > SyncTicks THEN sec' = 0 /\ SyncData
                              ELSE sec' = sec + 1 /\ UNCHANGED syncnum
    /\ IF hsec + 1 > HeartTicks
       THEN hsec' = 0 /\ wpc' = "next" /\ wnode' = first
       ELSE hsec' = hsec + 1 /\ UNCHANGED <<wpc, wnode>>
    /\ UNCHANGED <<nodes, pkt, wnext, quit, life>>

(* Head of the walk's loop: the next pointer is saved before the body.     *)
WalkNext ==
    /\ Up /\ wpc = "next"
    /\ \/ /\ wnode = Null
          /\ wpc' = "wait"
          /\ UNCHANGED <<nodes, pkt, wnode, wnext, ticks, quit, life>>
       \/ /\ wnode \in live
          /\ wnext' = next[wnode] /\ wpc' = "check"
          /\ UNCHANGED <<nodes, pkt, wnode, ticks, quit, life>>
       \/ wnode \in Cell \ live /\ Wild

(* Variant of the next definition: the comparison that was meant, without  *)
(* the update of the old count.                                            *)
SilentNoUpdate(n) == n.heart = n.old

(* The condition checkheart deletes on (sic).                              *)
Silent(n) == n.old = n.old

(* Body of the walk, up to sl_del's comparison with the head.              *)
CheckHeart ==
    /\ Up /\ wpc = "check"
    /\ \/ /\ wnode \in live /\ Silent(heap[wnode])
          /\ wpc' = CASE first = Null -> "free" [] first = wnode -> "head" [] OTHER -> "mid"
          /\ UNCHANGED <<nodes, pkt, wnode, wnext, ticks, quit, life>>
       \/ /\ wnode \in live /\ ~Silent(heap[wnode])
          /\ wnode' = wnext /\ wpc' = "next"
          /\ UNCHANGED <<nodes, pkt, wnext, ticks, quit, life>>
       \/ wnode \notin live /\ Wild

(* sl_del of the node that was the head when it was compared.              *)
DelHead ==
    /\ Up /\ wpc = "head"
    /\ \/ /\ wnode \in live /\ first' = next[wnode] /\ wpc' = "free"
          /\ UNCHANGED <<next, heap, live, pkt, wnode, wnext, ticks, quit, life>>
       \/ wnode \notin live /\ Wild

(* The pointers met from x on: x and, as long as cells are allocated, what *)
(* they point to.  A list ends where NULL is met; one that has been damaged*)
(* meets a freed cell or runs in a ring.                                   *)
Chain(nx, lv, x) ==
    LET closed == {S \in SUBSET Pointer : x \in S /\ \A c \in S \cap lv : nx[c] \in S}
    IN  {c \in Pointer : \A S \in closed : c \in S}
From(x) == Chain(next, live, x)
Ends(x) == Null \in From(x)
Reached == From(first) \ {Null}

(* Variant of the next definition: the search ends without relinking.      *)
DelMidKeeps ==
    /\ Up /\ wpc = "mid" /\ wpc' = "free"
    /\ UNCHANGED <<nodes, pkt, wnode, wnext, ticks, quit, life>>

(* sl_del of another node: the search for its predecessor runs into NULL   *)
(* or a freed cell, or does not end, when there is none.                   *)
DelMid ==
    /\ Up /\ wpc = "mid"
    /\ \/ /\ wnode \in live
          /\ \E c \in Reached \cap live :
                /\ next[c] = wnode
                /\ next' = [next EXCEPT ![c] = next[wnode]]
          /\ wpc' = "free"
          /\ UNCHANGED <<first, heap, live, pkt, wnode, wnext, ticks, quit, life>>
       \/ /\ wnode \notin live \/ \A c \in Reached \cap live : next[c] # wnode
          /\ Wild

NodeFree ==
    /\ Up /\ wpc = "free"
    /\ \/ /\ wnode \in live /\ Free(wnode)
          /\ wnode' = wnext /\ wpc' = "next"
          /\ UNCHANGED <<first, pkt, wnext, ticks, quit, life>>
       \/ wnode \notin live /\ Wild

WorkExit ==
    /\ Up /\ wpc = "wait" /\ quit = "yes"
    /\ wpc' = "off"
    /\ UNCHANGED <<nodes, pkt, wnode, wnext, ticks, quit, life>>

-----------------------------------------------------------------------------
(* 'q' on the console.                                                     *)
Quit == Up /\ quit = "no" /\ quit' = "yes" /\ UNCHANGED <<nodes, pkt, walk, ticks, life>>

PktStep  == \/ FindStart \/ FindNext \/ FindHit \/ FindGone \/ FindMiss \/ Publish
            \/ Heartbeat \/ GetKey \/ Measure \/ PktExit \/ DelAll
            \/ \E d \in Dev : RespDiscove(d)
WorkStep == Tick \/ WalkNext \/ CheckHeart \/ DelHead \/ DelMid \/ NodeFree \/ WorkExit

Next == PktStep \/ WorkStep \/ Quit \/ \E d \in Dev : Packet(d)

(* Both threads are scheduled and the timer runs; nobody has to send a     *)
(* packet or to quit.                                                      *)
Spec == Init /\ [][Next]_vars /\ WF_vars(PktStep) /\ WF_vars(WorkStep)

-----------------------------------------------------------------------------
(* One listed node per device: only the packet thread adds, after a search *)
(* that the work thread's deletions do not make miss a node.               *)
IdsUnique ==
    Up => \A c, e \in Reached \cap live : heap[c].id = heap[e].id => c = e

(* Until the packet thread leaves, the node the walk is at is allocated    *)
(* and the saved pointer is its successor: additions do not disturb it.    *)
NextStaysNext ==
    /\ wpc \in {"check", "head", "mid", "free"}
    /\ ppc \notin {"delall", "off"}
    => wnode \in live /\ wnext = next[wnode]

(* The list ends, and exactly the allocated nodes are in it, but for the   *)
(* one being added and the one being freed.                                *)
Whole ==
    /\ Ends(first)
    /\ Reached = live \ ({c \in {at} : ppc = "publish"} \cup {c \in {wnode} : wpc = "free"})

(* The list loses nodes, keeps freed ones or runs in a ring only where an  *)
(* addition and a deletion write a head that has changed since they read it.*)
StaleHead == \/ ppc = "publish" /\ next[at] # first
             \/ wpc = "head" /\ first # wnode
DamageExplainedStep == Up /\ Whole => Whole' \/ StaleHead
DamageExplained == [][DamageExplainedStep]_vars

(* A device that stops reporting leaves the list.                          *)
SilentRemoved ==
    \A d \in Dev : (\E c \in Reached \cap live : heap[c].id = d)
        ~> ((\A c \in Reached \cap live : heap[c].id # d) \/ ~Up \/ quit = "yes")

(* prevpkt.c:305 and pwork.c:189: heartbeats are counted and checked; a    *)
(* device heard since the last check stays in the list.                    *)
HeartbeatKeepsStep ==
    Up /\ wpc = "check" /\ wnode \in live /\ heap[wnode].heart # heap[wnode].old
        => wpc' \in {"check", "next"}
HeartbeatKeeps == [][HeartbeatKeepsStep]_vars

-----------------------------------------------------------------------------
(* The inductive invariant of the list, while the packet thread does not   *)
(* free it (NextStaysNext speaks of the work thread's saved pointer).      *)

(* A search that adds when it finds nothing.                               *)
Searching == ppc = "find" /\ find.for # "again"

NoRing(x) == \A c \in From(x) \cap live : c \notin From(next[c])

(* What is the list, or becomes it by an assignment that is due.           *)
Listed == From(first) \cup (IF wpc = "head" THEN From(wnode) ELSE {})
                      \cup (IF ppc = "publish" THEN From(at) ELSE {})

Distinct == \A c, e \in Listed \cap live : heap[c].id = heap[e].id => c = e

(* The walk is in the list or on nodes that lead to an end; the node being *)
(* freed is not in the list, or nothing leads back to it.                  *)
WalkSound ==
    /\ wpc \in {"next", "check", "mid"} => wnode \in From(first) \/ Ends(wnode)
    /\ wpc = "head" => wnode \in From(first)
    /\ wpc = "free" => \/ wnode \notin From(first) /\ next[wnode] \in From(first)
                       \/ wnode \notin From(next[wnode]) /\ Ends(next[wnode])

(* The node being added is known to nobody else.                           *)
AtApart ==
    /\ at \in live /\ at \notin From(first)
    /\ wpc \in {"next", "check", "head", "mid"} => at \notin From(wnode)
    /\ wpc = "free" => at # wnode /\ at \notin From(next[wnode])

SearchInv ==
    Searching /\ Ends(at) =>
        /\ \A c \in Listed \cap live : heap[c].id = find.id => c \in From(at)
        /\ NoRing(first) /\ WalkSound

PublishInv ==
    ppc = "publish" =>
        /\ wpc = "head" => wnode \in From(first)
        /\ Ends(at) => first \in From(at) /\ WalkSound
        /\ Ends(first) => AtApart

IdleInv == ppc \notin {"publish", "delall", "off"} /\ Ends(first) => WalkSound

ListInv == Distinct /\ SearchInv /\ PublishInv /\ IdleInv
=============================================================================
