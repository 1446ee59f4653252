----------------------------- MODULE BufChannel -----------------------------
(***************************************************************************)
(* What hali_threadmsg_sendmsg and a receiving epoll loop promise about    *)
(* one message queue that carries POINTERS: every heap buffer has one      *)
(* owner at a time, ownership passes with the message from the sender to   *)
(* the queue to the receiver, in FIFO order, and the receiver gives the    *)
(* buffer back to the heap.  While the receiver is not draining any more   *)
(* (its module callbacks are unregistered) it may only abandon a buffer.   *)
(***************************************************************************)
EXTENDS Naturals, Sequences

CONSTANTS Buf,          \* heap buffers
          Cap           \* mq_maxmsg of the queue

VARIABLES owner,        \* who must free the buffer: [Buf -> Owners]
          fifo,         \* buffers in the queue, oldest first
          open          \* the receiver's callbacks are registered

chanvars == <<owner, fifo, open>>

Owners == {"heap", "sender", "queue", "receiver", "lost"}

ChanInit ==
  /\ owner = [b \in Buf |-> "heap"]
  /\ fifo = << >>
  /\ open = TRUE

Move(b, from, to) ==
  /\ owner[b] = from
  /\ owner' = [owner EXCEPT ![b] = to]

Alloc(b) == Move(b, "heap", "sender") /\ UNCHANGED <<fifo, open>>

Give(b) ==
  /\ Len(fifo) < Cap
  /\ Move(b, "sender", "queue")
  /\ fifo' = Append(fifo, b)
  /\ UNCHANGED open

TakeBack(b) == Move(b, "sender", "heap") /\ UNCHANGED <<fifo, open>>

Take(b) ==
  /\ fifo # << >>
  /\ b = Head(fifo)
  /\ Move(b, "queue", "receiver")
  /\ fifo' = Tail(fifo)
  /\ UNCHANGED open

Release(b) == open /\ Move(b, "receiver", "heap") /\ UNCHANGED <<fifo, open>>

Abandon(b) == ~open /\ Move(b, "receiver", "lost") /\ UNCHANGED <<fifo, open>>

Close == open' = FALSE /\ UNCHANGED <<owner, fifo>>

ChanNext ==
  \/ \E b \in Buf :
       Alloc(b) \/ Give(b) \/ TakeBack(b) \/ Take(b) \/ Release(b) \/ Abandon(b)
  \/ Close

ChanSpec == ChanInit /\ [][ChanNext]_chanvars
=============================================================================
