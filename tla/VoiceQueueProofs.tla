-------------------------- MODULE VoiceQueueProofs --------------------------
(***************************************************************************)
(* The voice thread never quits unasked, for any number of workers, any    *)
(* kernel queue and any leftovers in it: "exit" gets into the shared       *)
(* record from main only.                                                  *)
(***************************************************************************)
EXTENDS VoiceQueue, TLAPS

Asked == mpc # "menu" \/ spc[Main] # "idle"

(* Before main was asked to quit nothing the voice thread compares is      *)
(* "exit"; a worker never sends it.                                        *)
QuietInv ==
    /\ \A w \in Workers : arg[w] # Exit
    /\ ~Asked => mswr # Exit /\ buf # Exit /\ kq # "removed"

Inv == TypeOK /\ QuietInv

LEMMA InvInit == Init => Inv
<1> SUFFICES ASSUME Init PROVE Inv
  OBVIOUS
<1>1. msgs \in Seq(Content) /\ Len(msgs) <= MsgMax
  <2>1. CASE msgs = <<>>
    BY <2>1, VoiceAssumption
  <2>2. CASE msgs \in UNION {[1..n -> Content] : n \in 0..MsgMax}
    <3>1. PICK n \in 0..MsgMax : msgs \in [1..n -> Content]
      BY <2>2
    <3> QED
      BY <3>1, VoiceAssumption
  <2> QED
    BY <2>1, <2>2 DEF Init
<1>2. Empty \in Content /\ Empty # Exit /\ Main \in Senders /\ Workers \subseteq Senders
  BY VoiceAssumption DEF Content, Senders
<1>3. TypeOK
  <2>1. kq \in {"none", "live", "removed"} /\ g_msid \in BOOLEAN
    BY DEF Init
  <2>2. /\ spc \in [Senders -> {"idle", "clear", "copy", "send", "off"}]
        /\ arg \in [Senders -> Content] /\ msid \in [Senders -> BOOLEAN]
    BY <1>2 DEF Init
  <2>3. sent \in 0..MaxPrompts
    BY VoiceAssumption DEF Init
  <2> QED
    BY <1>1, <1>2, <2>1, <2>2, <2>3 DEF Init, TypeOK
<1>4. QuietInv
  BY <1>2 DEF Init, QuietInv, Asked
<1> QED
  BY <1>3, <1>4 DEF Inv

(* The voice thread's steps.                                               *)
LEMMA VoiceKeeps == ASSUME Inv, VoiceStep PROVE Inv'
<1> USE VoiceAssumption DEF Inv, TypeOK, QuietInv, Asked, Senders, Content
<1>1. CASE QueueInit
  BY <1>1 DEF QueueInit, records, senders, mains
<1>2. CASE QueueInitFails
  BY <1>2 DEF QueueInitFails, kernel, records, senders, mains
<1>3. CASE MsgRcv
  BY <1>3 DEF MsgRcv, senders, mains
<1>4. CASE QuemsgRcvCopy
  BY <1>4 DEF QuemsgRcvCopy, kernel, records, senders, mains
<1>5. CASE Voicemain
  <2>1. msgs' \in Seq(Content) /\ Len(msgs') <= MsgMax
    <3> HIDE DEF Content, Senders, QuietInv
    <3>1. CASE msgs' = <<>>
      BY <3>1
    <3>2. CASE UNCHANGED msgs
      BY <3>2
    <3> QED
      BY <1>5, <3>1, <3>2 DEF Voicemain
  <2>2. TypeOK'
    BY <1>5, <2>1 DEF Voicemain, records, senders, mains
  <2>3. QuietInv'
    BY <1>5 DEF Voicemain, records, senders, mains
  <2> QED
    BY <2>2, <2>3
<1> QED
  BY <1>1, <1>2, <1>3, <1>4, <1>5 DEF VoiceStep

(* The steps inside quemsg_snd.                                            *)
LEMMA SndKeeps == ASSUME Inv, NEW s \in Senders, SndStep(s) PROVE Inv'
<1> USE VoiceAssumption DEF Inv, TypeOK, QuietInv, Asked, Senders, Content
<1>1. CASE SndClear(s)
  BY <1>1 DEF SndClear, kernel, voice, mains
<1>2. CASE SndCopy(s)
  BY <1>2 DEF SndCopy, kernel, voice, mains
<1>3. CASE MsgSnd(s)
  BY <1>3 DEF MsgSnd, Returned, records, voice
<1>4. CASE MsgSndFails(s)
  BY <1>4 DEF MsgSndFails, Returned, records, voice
<1> QED
  BY <1>1, <1>2, <1>3, <1>4 DEF SndStep

(* Main's steps, and the workers' around their calls.                      *)
LEMMA RestKeeps ==
  ASSUME Inv,
         \/ MainStep \/ QuemsgSndExit
         \/ \E w \in Workers : MqOpen(w) \/ QuemsgSndVoice(w) \/ WorkerExit(w)
  PROVE  Inv'
<1> USE VoiceAssumption DEF Inv, TypeOK, QuietInv, Asked, Senders, Content
<1>1. CASE MainStep
  BY <1>1 DEF MainStep, PostExits, Joined, kernel, records, senders, voice
<1>2. CASE QuemsgSndExit
  BY <1>2 DEF QuemsgSndExit, Enter, kernel, records, voice, mains
<1>3. ASSUME NEW w \in Workers, MqOpen(w) PROVE Inv'
  BY <1>3 DEF MqOpen, kernel, records, senders, voice
<1>4. ASSUME NEW w \in Workers, QuemsgSndVoice(w) PROVE Inv'
  BY <1>4 DEF QuemsgSndVoice, Enter, kernel, records, voice, mains
<1>5. ASSUME NEW w \in Workers, WorkerExit(w) PROVE Inv'
  BY <1>5 DEF WorkerExit, kernel, records, voice, mains
<1> QED
  BY <1>1, <1>2, <1>3, <1>4, <1>5

LEMMA InvStep == Inv /\ [Next]_vars => Inv'
<1> SUFFICES ASSUME Inv, [Next]_vars PROVE Inv'
  OBVIOUS
<1>1. CASE UNCHANGED vars
  BY <1>1 DEF vars, kernel, records, senders, voice, mains, Inv, TypeOK, QuietInv, Asked
<1>2. CASE Next
  BY <1>2, VoiceKeeps, SndKeeps, RestKeeps DEF Next
<1> QED
  BY <1>1, <1>2

LEMMA InvHolds == Spec => []Inv
BY InvInit, InvStep, PTL DEF Spec

(* The variables keep their types and the kernel's queue its limit         *)
(* (queue.c 40: msgsnd blocks).                                            *)
THEOREM TypeCorrect == Spec => []TypeOK
<1>1. Inv => TypeOK
  BY DEF Inv
<1> QED
  BY <1>1, InvHolds, PTL

(* The queue is removed only after 'q' (pvoice.c 96-101), whatever texts   *)
(* overwrite each other in the record of queue.c.                          *)
THEOREM NeverUnasked == Spec => []NoExitWithoutQuit
<1>1. Inv => NoExitWithoutQuit
  BY DEF Inv, QuietInv, Asked, NoExitWithoutQuit
<1> QED
  BY <1>1, InvHolds, PTL
=============================================================================
