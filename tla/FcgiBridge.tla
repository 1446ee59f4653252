----------------------------- MODULE FcgiBridge -----------------------------
(***************************************************************************)
(* How a web page gets the device list (src/application/curl): the FastCGI *)
(* process fcgi_read sends a request through /pktmq and waits for the JSON *)
(* on /fastcgi_write; the home process's packet thread answers; its main   *)
(* thread sends "exit" through /pktmq too, with a lower priority, and then *)
(* joins its four threads.  No message carries an identifier, both queues  *)
(* outlive both processes, and every mq_send and mq_receive blocks.        *)
(*                                                                         *)
(* QMax is the kernel's default queue length; MaxReq, MaxKills, MaxFails,  *)
(* MaxRefused and MaxCrashes bound the page requests, the kills of the     *)
(* FastCGI process, its interrupted calls, the home process's starts       *)
(* without its port, and the crashes of the home process.                  *)
(***************************************************************************)
EXTENDS Naturals

CONSTANTS QMax, MaxReq, MaxKills, MaxFails, MaxRefused, MaxCrashes

ASSUME FcgiAssumption ==
    QMax \in Nat \ {0} /\ {MaxReq, MaxKills, MaxFails, MaxRefused, MaxCrashes} \subseteq Nat

VARIABLES
    reqs,     \* requests in /pktmq (priority 8089)
    exits,    \* "exit" messages in /pktmq (priority 2)
    replies,  \* replies in /fastcgi_write
    fpc,      \* fcgi_read: "accept", "send", "recv", "dead"
    kpc,      \* packet thread: "start", "opened" (its queues), "wait", "reply";
              \*   "off" after an "exit", "refused" without its port
    rest,     \* the other three threads: "up", "told" to leave, "deaf" (one was not), "off"
    mpc,      \* main: "menu", "exit", "join" (exit sent), "lost" (not sent), "done"
    home,     \* the home process: "up" or "down"
    served, kills, fails, refused, crashes    \* counters for the bounds

queues  == <<reqs, exits, replies>>
threads == <<kpc, rest, mpc, home>>
bounds  == <<served, kills, fails, refused, crashes>>
vars    == <<queues, fpc, threads, bounds>>

(* The type invariant, with the limits of the two queues.                  *)
TypeOK ==
    /\ reqs \in Nat /\ exits \in Nat /\ reqs + exits <= QMax
    /\ replies \in 0..QMax
    /\ fpc \in {"accept", "send", "recv", "dead"}
    /\ kpc \in {"start", "opened", "wait", "reply", "off", "refused"}
    /\ rest \in {"up", "told", "deaf", "off"}
    /\ mpc \in {"menu", "exit", "join", "lost", "done"} /\ home \in {"up", "down"}
    /\ served \in 0..MaxReq /\ kills \in 0..MaxKills /\ fails \in 0..MaxFails
    /\ refused \in 0..MaxRefused /\ crashes \in 0..MaxCrashes

Init ==
    /\ reqs = 0 /\ exits = 0 /\ replies = 0
    /\ fpc = "accept" /\ kpc = "start" /\ rest = "up" /\ mpc = "menu" /\ home = "up"
    /\ served = 0 /\ kills = 0 /\ fails = 0 /\ refused = 0 /\ crashes = 0

-----------------------------------------------------------------------------
(* A page request reaches the FastCGI process.                             *)
FcgiAccept ==
    /\ fpc = "accept" /\ served < MaxReq
    /\ fpc' = "send" /\ served' = served + 1
    /\ UNCHANGED <<queues, threads, kills, fails, refused, crashes>>

(* mq_send of an empty text; blocks while /pktmq is full.                  *)
FcgiSend ==
    /\ fpc = "send" /\ reqs + exits < QMax
    /\ reqs' = reqs + 1 /\ fpc' = "recv"
    /\ UNCHANGED <<exits, replies, threads, bounds>>

(* mq_receive takes whichever reply is first and sends it to the browser.  *)
FcgiReceive ==
    /\ fpc = "recv" /\ replies > 0
    /\ replies' = replies - 1 /\ fpc' = "accept"
    /\ UNCHANGED <<reqs, exits, threads, bounds>>

(* Either call is interrupted by a signal: without mq_send the process     *)
(* exits, without mq_receive it sends an empty page and goes on.           *)
FcgiFails ==
    /\ fails < MaxFails /\ fails' = fails + 1
    /\ \/ fpc = "send" /\ fpc' = "dead"
       \/ fpc = "recv" /\ fpc' = "accept"
    /\ UNCHANGED <<queues, threads, served, kills, refused, crashes>>

(* The process is killed (undeploy.sh) and started again.                  *)
FcgiKill ==
    /\ fpc # "dead" /\ kills < MaxKills
    /\ fpc' = "dead" /\ kills' = kills + 1
    /\ UNCHANGED <<queues, threads, served, fails, refused, crashes>>
FcgiStart ==
    /\ fpc = "dead" /\ fpc' = "accept"
    /\ UNCHANGED <<queues, threads, bounds>>

-----------------------------------------------------------------------------
(* The packet thread opens both queues, ...                                *)
PktOpen ==
    /\ home = "up" /\ kpc = "start" /\ kpc' = "opened"
    /\ UNCHANGED <<queues, fpc, rest, mpc, home, bounds>>

(* ... binds its port and listens, ...                                     *)
PktListen ==
    /\ home = "up" /\ kpc = "opened" /\ kpc' = "wait"
    /\ UNCHANGED <<queues, fpc, rest, mpc, home, bounds>>

(* ... or cannot: it returns, and its queues stay open.                    *)
PktRefused ==
    /\ home = "up" /\ kpc = "opened" /\ refused < MaxRefused
    /\ kpc' = "refused" /\ refused' = refused + 1
    /\ UNCHANGED <<queues, fpc, rest, mpc, home, served, kills, fails, crashes>>

(* It receives; the request has the higher priority.                       *)
PktRequest ==
    /\ home = "up" /\ kpc = "wait" /\ reqs > 0
    /\ reqs' = reqs - 1 /\ kpc' = "reply"
    /\ UNCHANGED <<exits, replies, fpc, rest, mpc, home, bounds>>

(* Variants of the next definition: the disabled block that also answers   *)
(* "hello fcgi" is compiled in; an empty list is not answered.             *)
FcgiwriteTwice ==
    /\ home = "up" /\ kpc = "reply" /\ replies + 1 < QMax
    /\ replies' = replies + 2 /\ kpc' = "wait"
    /\ UNCHANGED <<reqs, exits, fpc, rest, mpc, home, bounds>>
FcgiwriteSilent ==
    /\ home = "up" /\ kpc = "reply"
    /\ kpc' = "wait"
    /\ UNCHANGED <<queues, fpc, rest, mpc, home, bounds>>

(* prevpkt_mq_fcgiwrite: the list as JSON, empty when it does not fit;     *)
(* blocks while /fastcgi_write is full.                                    *)
Fcgiwrite ==
    /\ home = "up" /\ kpc = "reply" /\ replies < QMax
    /\ replies' = replies + 1 /\ kpc' = "wait"
    /\ UNCHANGED <<reqs, exits, fpc, rest, mpc, home, bounds>>

(* Variants of the next definition: an empty text compares as "exit"; the  *)
(* thread goes on after "exit".                                            *)
PktExitPrefix ==
    /\ home = "up" /\ kpc = "wait" /\ kpc' = "off"
    /\ \/ reqs > 0 /\ reqs' = reqs - 1 /\ UNCHANGED exits
       \/ reqs = 0 /\ exits > 0 /\ exits' = exits - 1 /\ UNCHANGED reqs
    /\ UNCHANGED <<replies, fpc, rest, mpc, home, bounds>>
PktExitNoBreak ==
    /\ home = "up" /\ kpc = "wait" /\ reqs = 0 /\ exits > 0
    /\ exits' = exits - 1
    /\ UNCHANGED <<reqs, replies, fpc, threads, bounds>>

(* "exit" closes the queues and ends the thread; requests waiting are      *)
(* answered before it.                                                     *)
PktExit ==
    /\ home = "up" /\ kpc = "wait" /\ reqs = 0 /\ exits > 0
    /\ exits' = exits - 1 /\ kpc' = "off"
    /\ UNCHANGED <<reqs, replies, fpc, rest, mpc, home, bounds>>

-----------------------------------------------------------------------------
(* 'q' on the console.                                                     *)
Quit ==
    /\ home = "up" /\ mpc = "menu" /\ mpc' = "exit"
    /\ UNCHANGED <<queues, fpc, kpc, rest, home, bounds>>

MqdOpen == kpc \notin {"start", "off"}

(* Around its "exit" to the packet thread main tells the other three       *)
(* threads; that one may not hear it is VoiceQueue's matter.               *)
TellRest == rest' \in {"told", "deaf"}

(* mqueue_send2pkt blocks while /pktmq is full.                            *)
SendExit ==
    /\ home = "up" /\ mpc = "exit" /\ MqdOpen /\ reqs + exits < QMax
    /\ exits' = exits + 1 /\ mpc' = "join" /\ TellRest
    /\ UNCHANGED <<reqs, replies, fpc, kpc, home, bounds>>

(* mqd is still 0 or closed again: mq_send fails, and main joins anyway.   *)
SendExitFails ==
    /\ home = "up" /\ mpc = "exit" /\ ~MqdOpen /\ mpc' = "lost" /\ TellRest
    /\ UNCHANGED <<queues, fpc, kpc, home, bounds>>

RestLeave ==
    /\ home = "up" /\ rest = "told" /\ rest' = "off"
    /\ UNCHANGED <<queues, fpc, kpc, mpc, home, bounds>>

(* The four pthread_join.                                                  *)
Join ==
    /\ home = "up" /\ mpc \in {"join", "lost"} /\ mpc' = "done"
    /\ rest = "off" /\ kpc \in {"off", "refused"}
    /\ UNCHANGED <<queues, fpc, kpc, rest, home, bounds>>

(* The home process dies, also by its own exit(1) when a queue cannot be   *)
(* opened; what the packet thread had received is lost, the queues stay.   *)
(* It is started again by hand, if at all, as after 'q'.                   *)
HomeCrash ==
    /\ home = "up" /\ crashes < MaxCrashes
    /\ home' = "down" /\ crashes' = crashes + 1
    /\ UNCHANGED <<queues, fpc, kpc, rest, mpc, served, kills, fails, refused>>
HomeStart ==
    /\ home = "down" \/ mpc = "done"
    /\ home' = "up" /\ kpc' = "start" /\ rest' = "up" /\ mpc' = "menu"
    /\ UNCHANGED <<queues, fpc, bounds>>

FcgiStep == FcgiSend \/ FcgiReceive
PktStep  == PktOpen \/ PktListen \/ PktRequest \/ Fcgiwrite \/ PktExit
MainStep == SendExit \/ SendExitFails \/ Join

Next ==
    \/ FcgiAccept \/ FcgiStep \/ FcgiFails \/ FcgiKill \/ FcgiStart
    \/ PktStep \/ PktRefused \/ RestLeave \/ Quit \/ MainStep \/ HomeCrash \/ HomeStart

(* Running threads are scheduled, and a thread that was told to leave      *)
(* does; no request, failure, kill or restart is due.                      *)
Spec == Init /\ [][Next]_vars
             /\ WF_vars(FcgiStep) /\ WF_vars(PktStep) /\ WF_vars(RestLeave) /\ WF_vars(MainStep)

-----------------------------------------------------------------------------
Busy    == IF home = "up" /\ kpc = "reply" THEN 1 ELSE 0
Waiting == IF fpc = "recv" THEN 1 ELSE 0

(* Requests and replies on their way exceed the page being answered by at  *)
(* most one for each kill and each interrupted call: a page is at most     *)
(* that many answers behind, and gets its own answer as long as the        *)
(* FastCGI process was not disturbed.                                      *)
InFlight == reqs + Busy + replies <= kills + fails + Waiting

(* An "exit" this run's main has sent and its packet thread is still to    *)
(* get; a packet thread that left although main has not sent one.          *)
Due     == IF home = "up" /\ mpc = "join" /\ kpc \in {"opened", "wait", "reply"} THEN 1 ELSE 0
Unasked == IF kpc = "off" /\ mpc \in {"menu", "exit", "lost"} THEN 1 ELSE 0

(* Besides the thread that cannot get its port, a packet thread leaves     *)
(* unasked only for an "exit" an earlier run left in the queue, one for    *)
(* each crash of the home process and each start without the port.         *)
LeaveAsked == exits + Unasked <= crashes + refused + Due

(* A FastCGI process that waits gets an answer, unless the packet thread   *)
(* has left or the home process has crashed.                               *)
Answered == fpc = "recv" ~> (fpc # "recv" \/ kpc \in {"off", "refused"} \/ crashes > 0)

(* Sending the request does not hang: both queues fill only with the       *)
(* leftovers of disturbed pages, an "exit" of each start without the port, *)
(* and the "exit" of this run.                                             *)
SendReturns ==
    fpc = "send" ~>
        (fpc # "send" \/ kpc \in {"off", "refused"} \/ crashes > 0
            \/ kills + fails + refused >= 2 * QMax)

(* 'q' ends the home process if the packet thread had opened its queues    *)
(* and the other threads hear of it, unless so many replies were left      *)
(* behind that the packet thread blocks on a full /fastcgi_write, or main  *)
(* on a full /pktmq from which nobody receives.                            *)
QuitEnds ==
    (mpc = "exit" /\ kpc # "start") ~>
        (mpc = "done" \/ rest = "deaf" \/ crashes > 0 \/ kills + fails > QMax
            \/ (kpc = "refused" /\ kills + fails + refused >= QMax))
=============================================================================
