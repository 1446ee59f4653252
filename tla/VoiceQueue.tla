----------------------------- MODULE VoiceQueue -----------------------------
(***************************************************************************)
(* The voice prompts of the first generation (src/application/curl): main, *)
(* the packet thread and the work thread send through one System V queue   *)
(* to the voice thread.  queue.c keeps ONE outgoing record, mswr, and one  *)
(* incoming record, msre, for all threads and uses no lock, so filling     *)
(* mswr (bzero, memcpy), the msgsnd that copies it into the kernel, and    *)
(* the receiver's memcpy are separate steps here.                          *)
(*                                                                         *)
(* Contents are members of Prompts, Exit, Empty (the zeroed record) or     *)
(* Torn: main copies the four bytes of "exit" only, and over a prompt they *)
(* leave its end, such as "exitdoor.mp3".  MaxPrompts bounds the prompts   *)
(* sent in a behaviour and MsgMax the kernel's queue (msgsnd blocks when   *)
(* it is full).                                                            *)
(***************************************************************************)
EXTENDS Naturals, Sequences, FiniteSets

CONSTANTS Main, Workers,    \* main; the packet and the work thread
          Prompts, Exit, Empty, Torn,
          MsgMax, MaxPrompts

ASSUME VoiceAssumption ==
    /\ Main \notin Workers /\ IsFiniteSet(Workers)
    /\ Exit \notin Prompts /\ Empty \notin Prompts \cup {Exit}
    /\ Torn \notin Prompts \cup {Exit, Empty}
    /\ MsgMax \in Nat \ {0} /\ MaxPrompts \in Nat

Senders == Workers \cup {Main}
Content == Prompts \cup {Exit, Empty, Torn}

VARIABLES
    kq,      \* the kernel's queue object: "none", "live" or "removed"
    msgs,    \* the messages in it
    g_msid,  \* TRUE once the global holds a queue id
    mswr,    \* the shared outgoing record
    msre,    \* the shared incoming record
    spc,     \* where each sender is inside quemsg_snd; "off" after its exit
    arg,     \* the text each sender was asked to send
    msid,    \* whether the id each sender passed is a queue's
    sent,    \* prompts sent so far (bounded by MaxPrompts)
    vpc,     \* the voice thread
    buf,     \* the text quemsg_rcv handed to the voice thread
    mpc,     \* main: "menu", "post" (exit sent to voice), "join", "done"
    opened,  \* workers whose POSIX queue is open
    inbox    \* workers with an "exit" in their POSIX queue

kernel  == <<kq, msgs, g_msid>>
records == <<mswr, msre>>
senders == <<spc, arg, msid, sent>>
voice   == <<vpc, buf>>
mains   == <<mpc, opened, inbox>>
vars    == <<kernel, records, senders, voice, mains>>

(* The type invariant: in particular the queue never exceeds its limit.    *)
TypeOK ==
    /\ kq \in {"none", "live", "removed"} /\ g_msid \in BOOLEAN
    /\ msgs \in Seq(Content) /\ Len(msgs) <= MsgMax
    /\ mswr \in Content /\ msre \in Content /\ buf \in Content
    /\ spc \in [Senders -> {"idle", "clear", "copy", "send", "off"}]
    /\ arg \in [Senders -> Content] /\ msid \in [Senders -> BOOLEAN]
    /\ sent \in 0..MaxPrompts
    /\ vpc \in {"init", "rcv", "copy", "test", "done"}
    /\ mpc \in {"menu", "post", "join", "done"}
    /\ opened \subseteq Workers /\ inbox \subseteq Workers

(* The globals are zero; g_msid is -1 until the voice thread has run.  The *)
(* kernel's queue outlives a killed process, with what it held.            *)
Init ==
    /\ \/ kq = "none" /\ msgs = <<>>
       \/ kq = "live" /\ msgs \in UNION {[1..n -> Content] : n \in 0..MsgMax}
    /\ g_msid = FALSE
    /\ mswr = Empty /\ msre = Empty /\ buf = Empty
    /\ spc = [s \in Senders |-> "idle"] /\ arg = [s \in Senders |-> Empty]
    /\ msid = [s \in Senders |-> FALSE] /\ sent = 0
    /\ vpc = "init" /\ mpc = "menu" /\ opened = {} /\ inbox = {}

-----------------------------------------------------------------------------
(* queue_init in the voice loop: msgget creates the queue or finds it.     *)
QueueInit ==
    /\ vpc = "init"
    /\ kq' = "live" /\ g_msid' = TRUE /\ vpc' = "rcv"
    /\ UNCHANGED <<msgs, records, senders, buf, mains>>

(* Creating it fails; the voice thread returns.                            *)
QueueInitFails ==
    /\ vpc = "init" /\ kq = "none"
    /\ vpc' = "done"
    /\ UNCHANGED <<kernel, records, senders, buf, mains>>

(* msgrcv blocks for a message and puts it into msre.                      *)
MsgRcv ==
    /\ vpc = "rcv" /\ msgs # <<>>
    /\ msre' = Head(msgs) /\ msgs' = Tail(msgs) /\ vpc' = "copy"
    /\ UNCHANGED <<kq, g_msid, mswr, senders, buf, mains>>

(* The result handed out is copied from mswr, the senders' record.         *)
QuemsgRcvCopy ==
    /\ vpc = "copy"
    /\ buf' = mswr /\ vpc' = "test"
    /\ UNCHANGED <<kernel, records, senders, mains>>

(* Variants of the next definition: the loop goes on after removing the    *)
(* queue; an empty text compares as "exit"; the queue is not removed.      *)
VoicemainNoBreak ==
    /\ vpc = "test"
    /\ IF buf = Exit THEN kq' = "removed" /\ msgs' = <<>> ELSE UNCHANGED <<kq, msgs>>
    /\ vpc' = "init"
    /\ UNCHANGED <<g_msid, records, senders, buf, mains>>
VoicemainPrefix ==
    /\ vpc = "test"
    /\ \/ /\ buf \in {Exit, Empty}
          /\ kq' = "removed" /\ msgs' = <<>> /\ vpc' = "done"
       \/ /\ buf \notin {Exit, Empty}
          /\ vpc' = "init" /\ UNCHANGED <<kq, msgs>>
    /\ UNCHANGED <<g_msid, records, senders, buf, mains>>
VoicemainNoFini ==
    /\ vpc = "test"
    /\ vpc' = IF buf = Exit THEN "done" ELSE "init"
    /\ UNCHANGED <<kernel, records, senders, buf, mains>>

(* voicemain: "exit" removes the queue and ends the thread, anything else  *)
(* is played (the player's fifo is never opened, so playing returns).      *)
Voicemain ==
    /\ vpc = "test"
    /\ \/ /\ buf = Exit
          /\ kq' = "removed" /\ msgs' = <<>> /\ vpc' = "done"
       \/ /\ buf # Exit
          /\ vpc' = "init" /\ UNCHANGED <<kq, msgs>>
    /\ UNCHANGED <<g_msid, records, senders, buf, mains>>

-----------------------------------------------------------------------------
(* Entering quemsg_snd: the id is passed by value, whatever it is now.     *)
Enter(s, text) ==
    /\ spc[s] = "idle"
    /\ spc' = [spc EXCEPT ![s] = "clear"]
    /\ arg' = [arg EXCEPT ![s] = text]
    /\ msid' = [msid EXCEPT ![s] = g_msid]

(* A worker sends a prompt: a key was pressed, or the weather was asked.   *)
QuemsgSndVoice(w) ==
    /\ w \in opened /\ sent < MaxPrompts
    /\ \E text \in Prompts : Enter(w, text)
    /\ sent' = sent + 1
    /\ UNCHANGED <<kernel, records, voice, mains>>

(* 'q' on the console.                                                     *)
QuemsgSndExit ==
    /\ mpc = "menu"
    /\ Enter(Main, Exit)
    /\ UNCHANGED <<kernel, records, sent, voice, mains>>

(* quemsg_snd zeroes the record ...                                        *)
SndClear(s) ==
    /\ spc[s] = "clear"
    /\ mswr' = Empty /\ spc' = [spc EXCEPT ![s] = "copy"]
    /\ UNCHANGED <<kernel, msre, arg, msid, sent, voice, mains>>

(* ... and copies its text into it: a prompt is the whole record (len 40), *)
(* main's "exit" its first four bytes, so that what another sender has     *)
(* copied since main zeroed the record stays behind them.                  *)
SndCopy(s) ==
    /\ spc[s] = "copy"
    /\ mswr' = (IF arg[s] = Exit /\ mswr # Empty THEN Torn ELSE arg[s])
    /\ spc' = [spc EXCEPT ![s] = "send"]
    /\ UNCHANGED <<kernel, msre, arg, msid, sent, voice, mains>>

Returned(s) ==
    /\ spc' = [spc EXCEPT ![s] = "idle"]
    /\ mpc' = IF s = Main THEN "post" ELSE mpc
    /\ UNCHANGED <<kq, g_msid, records, arg, msid, sent, voice, opened, inbox>>

(* msgsnd takes what mswr holds now; it blocks while the queue is full.    *)
MsgSnd(s) ==
    /\ spc[s] = "send" /\ msid[s] /\ kq = "live" /\ Len(msgs) < MsgMax
    /\ msgs' = Append(msgs, mswr) /\ Returned(s)

(* The id is -1 or the queue is gone: msgsnd fails, nobody tells the user. *)
MsgSndFails(s) ==
    /\ spc[s] = "send" /\ (~msid[s] \/ kq = "removed")
    /\ UNCHANGED msgs /\ Returned(s)

-----------------------------------------------------------------------------
(* A worker opens its POSIX queue at the start of its thread.              *)
MqOpen(w) ==
    /\ w \notin opened
    /\ opened' = opened \cup {w}
    /\ UNCHANGED <<kernel, records, senders, voice, mpc, inbox>>

(* After 'q' main posts "exit" to the workers; before a worker has opened  *)
(* its queue the descriptor is 0 and mq_send fails.  Then main joins.      *)
PostExits ==
    /\ mpc = "post"
    /\ inbox' = opened /\ mpc' = "join"
    /\ UNCHANGED <<kernel, records, senders, voice, opened>>

(* A worker receives its "exit" and leaves its loop.                       *)
WorkerExit(w) ==
    /\ w \in inbox /\ spc[w] = "idle"
    /\ spc' = [spc EXCEPT ![w] = "off"]
    /\ UNCHANGED <<kernel, records, arg, msid, sent, voice, mains>>

(* The three pthread_join.                                                 *)
Joined ==
    /\ mpc = "join" /\ vpc = "done" /\ \A w \in Workers : spc[w] = "off"
    /\ mpc' = "done"
    /\ UNCHANGED <<kernel, records, senders, voice, opened, inbox>>

SndStep(s) == SndClear(s) \/ SndCopy(s) \/ MsgSnd(s) \/ MsgSndFails(s)
VoiceStep  == QueueInit \/ QueueInitFails \/ MsgRcv \/ QuemsgRcvCopy \/ Voicemain
MainStep   == PostExits \/ Joined

Next ==
    \/ VoiceStep \/ MainStep \/ QuemsgSndExit
    \/ \E s \in Senders : SndStep(s)
    \/ \E w \in Workers : MqOpen(w) \/ QuemsgSndVoice(w) \/ WorkerExit(w)

(* Every thread is scheduled; nobody is obliged to press a key.            *)
Fairness ==
    /\ WF_vars(VoiceStep) /\ WF_vars(MainStep)
    /\ \A s \in Senders : WF_vars(SndStep(s))
    /\ \A w \in Workers : WF_vars(MqOpen(w)) /\ WF_vars(WorkerExit(w))

Spec     == Init /\ [][Next]_vars
LiveSpec == Spec /\ Fairness

-----------------------------------------------------------------------------
(* The voice thread removes the queue only after main was asked to quit,   *)
(* whatever the races on mswr put into the text it compares with "exit".   *)
NoExitWithoutQuit ==
    kq = "removed" => (mpc # "menu" \/ spc[Main] # "idle")

(* Nobody stays in msgsnd: the voice thread drains the queue or removes it *)
(* before it ends.                                                         *)
SenderReturns == \A s \in Senders : spc[s] = "send" ~> spc[s] # "send"

(* 'q' makes the threads leave and main finish.  It needs every thread to  *)
(* have opened its queue before the key was pressed, and the record main   *)
(* and the voice thread share to hold "exit" until the end: a prompt in    *)
(* its place, or under its four bytes, costs the quit.                     *)
QuitEnds ==
    (mpc = "post" /\ msid[Main] /\ opened = Workers) ~> (mpc = "done" \/ mswr # Exit)
=============================================================================
