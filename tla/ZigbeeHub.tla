----------------------------- MODULE ZigbeeHub -----------------------------
(***************************************************************************)
(* The zigbee module of hali.  Main serves the TCP connection to the       *)
(* coordinator and the 10 s timer; libmosquitto's thread handles switch    *)
(* commands.  Both use the device list and g_izigbee_socketacceptfd        *)
(* without a lock, and a frame is two write() calls ("dd", then the        *)
(* frame).  SIGPIPE keeps its default action: a write after the            *)
(* connection was reset ends the process.                                  *)
(*                                                                         *)
(* The switches and the coordinator are external: a switch answers a       *)
(* discovery and a query, obeys a command, and may be operated by hand.    *)
(* MaxCmd, MaxMishap and MaxConn bound the commands, the lost frames and   *)
(* operations by hand together, and the connections.                       *)
(***************************************************************************)
EXTENDS Naturals, Sequences, FiniteSets, SequencesExt

CONSTANTS Switch, MaxCmd, MaxMishap, MaxConn

ASSUME HubAssumption ==
    IsFiniteSet(Switch) /\ {MaxCmd, MaxMishap, MaxConn} \subseteq Nat

VARIABLES
    life,    \* "up", "pipe" (killed by SIGPIPE) or "wild" (bad pointer)
    node,    \* list: "absent", "raw" (linked, attributes not initialised) or the state
    pub,     \* last state handed to hali_mosquitto_publish
    link,    \* "none", "open", "closed" (by the peer), "reset" (and written to)
    mpc,     \* main: "idle", "init", "publish", "accept",
               \*   "dd", "frame"
    mdev,    \* the switch main is at in "init" and "publish"
    todo,    \* frames main still has to write
    qpc,     \* mosquitto thread: "idle", "read", "dd", "frame"
    qcmd,    \* the command it is at
    actual,  \* states of the switches themselves
    toDev,   \* frames on their way to the switches
    toHub,   \* reports on their way to the hub
    want,    \* the command each switch is due to obey (see Command), or "none"
    count    \* how much of each bound is used

main == <<mpc, mdev, todo>>
mosq == <<qpc, qcmd>>
air  == <<actual, toDev, toHub>>
vars == <<life, node, pub, link, main, mosq, air, want, count>>

State   == {"off", "on"}
Frame   == [to : Switch, ask : {"query", "off", "on"}] \cup {[ask |-> "disc"]}
Report  == [from : Switch, tlv : {"disc", "off", "on"}]
NoFrame == [ask |-> "none"]
NoDev   == "none"
Up      == life = "up"

(* The type invariant.                                                     *)
TypeOK ==
    /\ life \in {"up", "pipe", "wild"}
    /\ node \in [Switch -> State \cup {"absent", "raw"}]
    /\ pub \in [Switch -> State \cup {"none"}]
    /\ link \in {"none", "open", "closed", "reset"}
    /\ mpc \in {"idle", "init", "publish", "accept", "dd", "frame"} /\ mdev \in Switch \cup {NoDev}
    /\ todo \in Seq(Frame) /\ (todo # <<>> <=> mpc \in {"dd", "frame"})
    /\ qpc \in {"idle", "read", "dd", "frame"} /\ qcmd \in Frame \cup {NoFrame}
    /\ actual \in [Switch -> State] /\ want \in [Switch -> State \cup {"none"}]
    /\ toDev \in Seq(Frame) /\ toHub \in Seq(Report)
    /\ count \in [cmd : 0..MaxCmd, mishap : 0..MaxMishap, conn : 0..MaxConn]

Init ==
    /\ life = "up" /\ link = "none"
    /\ node = [d \in Switch |-> "absent"] /\ pub = [d \in Switch |-> "none"]
    /\ mpc = "idle" /\ mdev = NoDev /\ todo = <<>>
    /\ qpc = "idle" /\ qcmd = NoFrame
    /\ actual \in [Switch -> State] /\ toDev = <<>> /\ toHub = <<>>
    /\ want = [d \in Switch |-> "none"]
    /\ count = [cmd |-> 0, mishap |-> 0, conn |-> 0]

NothingDue == want' = [d \in Switch |-> "none"]

Used(what) == count' = [count EXCEPT ![what] = @ + 1]

Agree == \A d \in Switch : node[d] = actual[d] /\ pub[d] = actual[d]
Quiet == mpc = "idle" /\ qpc = "idle" /\ toDev = <<>> /\ toHub = <<>>

-----------------------------------------------------------------------------
(* A write to g_izigbee_socketacceptfd: the peer answers the first one     *)
(* after its close with a reset, and the next one raises SIGPIPE.          *)
Write ==
    /\ link' = IF link = "closed" THEN "reset" ELSE link
    /\ life' = IF link = "reset" THEN "pipe" ELSE life

(* The second write of a frame; without a connection it fails (EBADF).     *)
WriteFrame(f) ==
    /\ Write
    /\ toDev' = IF link = "open" THEN Append(toDev, f) ELSE toDev

-----------------------------------------------------------------------------
(* Main accepts a connection and drops the one it had, with what was       *)
(* unread; g_izigbee_socketacceptfd is -1 for a moment, ...                *)
Accept ==
    /\ Up /\ mpc = "idle" /\ count.conn < MaxConn /\ Used("conn")
    /\ mpc' = "accept" /\ link' = "none" /\ toHub' = <<>> /\ toDev' \in {toDev, <<>>}
    /\ NothingDue
    /\ UNCHANGED <<life, node, pub, mdev, todo, mosq, actual>>

(* ... then the new connection.                                            *)
Accepted ==
    /\ Up /\ mpc = "accept" /\ mpc' = "idle" /\ link' = "open"
    /\ UNCHANGED <<life, node, pub, mdev, todo, mosq, air, want, count>>

(* read() returns 0: main closes the connection.                           *)
Eof ==
    /\ Up /\ mpc = "idle" /\ link \in {"closed", "reset"} /\ toHub = <<>>
    /\ link' = "none"
    /\ UNCHANGED <<life, node, pub, main, mosq, air, want, count>>

(* Variant of the next definition: a switch that is already listed is      *)
(* initialised again.                                                      *)
DevnodeAddAgain ==
    /\ Up /\ mpc = "idle" /\ toHub # <<>> /\ Head(toHub).tlv = "disc"
    /\ toHub' = Tail(toHub)
    /\ LET d == Head(toHub).from IN
         mpc' = "init" /\ mdev' = d /\ node' = [node EXCEPT ![d] = "raw"]
    /\ UNCHANGED <<life, pub, link, todo, mosq, actual, toDev, want, count>>

(* A discovery reply: zigbee_devnode_add links a new node at once, ...     *)
DevnodeAdd ==
    /\ Up /\ mpc = "idle" /\ toHub # <<>> /\ Head(toHub).tlv = "disc"
    /\ toHub' = Tail(toHub)
    /\ LET d == Head(toHub).from IN
         IF node[d] = "absent"
           THEN mpc' = "init" /\ mdev' = d /\ node' = [node EXCEPT ![d] = "raw"]
           ELSE UNCHANGED <<mpc, mdev, node>>
    /\ UNCHANGED <<life, pub, link, todo, mosq, actual, toDev, want, count>>

(* ... and initialises its attributes after that.                          *)
AttrInit ==
    /\ Up /\ mpc = "init" /\ mpc' = "idle" /\ mdev' = NoDev
    /\ node' = [node EXCEPT ![mdev] = "off"]
    /\ UNCHANGED <<life, pub, link, todo, mosq, air, want, count>>

(* A state report of a listed switch is stored, ...                        *)
SetAttr ==
    /\ Up /\ mpc = "idle" /\ toHub # <<>> /\ Head(toHub).tlv \in State
    /\ toHub' = Tail(toHub)
    /\ LET d == Head(toHub).from IN
         IF node[d] # "absent"
           THEN mpc' = "publish" /\ mdev' = d
                /\ node' = [node EXCEPT ![d] = Head(toHub).tlv]
           ELSE UNCHANGED <<mpc, mdev, node>>
    /\ UNCHANGED <<life, pub, link, todo, mosq, actual, toDev, want, count>>

(* ... then published.                                                     *)
SwitchPub ==
    /\ Up /\ mpc = "publish" /\ mpc' = "idle" /\ mdev' = NoDev
    /\ pub' = [pub EXCEPT ![mdev] = node[mdev]]
    /\ UNCHANGED <<life, node, link, todo, mosq, air, want, count>>

(* Variant of the next definition: only the discovery is sent.             *)
SynTimeoutNoQuery ==
    /\ Up /\ mpc = "idle" /\ toDev = <<>> /\ toHub = <<>> /\ link # "none"
    /\ mpc' = "dd" /\ todo' = << [ask |-> "disc"] >>
    /\ UNCHANGED <<life, node, pub, link, mdev, mosq, air, want, count>>

(* The timer: a discovery, then a query to every switch in the list.       *)
(* Bound: the answers of the period before have come.                      *)
SynTimeout ==
    /\ Up /\ mpc = "idle" /\ toDev = <<>> /\ toHub = <<>> /\ link # "none"
    /\ mpc' = "dd"
    /\ todo' = << [ask |-> "disc"] >>
               \o SetToSeq({[to |-> d, ask |-> "query"] : d \in {e \in Switch : node[e] # "absent"}})
    /\ UNCHANGED <<life, node, pub, link, mdev, mosq, air, want, count>>

(* zigbee_serialsend of main: nothing without a connection, else "dd", ... *)
MainDd ==
    /\ Up /\ mpc = "dd"
    /\ IF link = "none"
         THEN /\ todo' = Tail(todo) /\ mpc' = (IF Len(todo) = 1 THEN "idle" ELSE "dd")
              /\ UNCHANGED <<link, life>>
         ELSE Write /\ mpc' = "frame" /\ UNCHANGED todo
    /\ UNCHANGED <<node, pub, mdev, mosq, air, want, count>>

(* ... then the frame.                                                     *)
MainFrame ==
    /\ Up /\ mpc = "frame" /\ WriteFrame(Head(todo))
    /\ todo' = Tail(todo) /\ mpc' = (IF Len(todo) = 1 THEN "idle" ELSE "dd")
    /\ UNCHANGED <<node, pub, mdev, mosq, actual, toHub, want, count>>

-----------------------------------------------------------------------------
(* A command arrives at the mosquitto thread.  It is due to be obeyed if   *)
(* it comes while hub and switches agree; a loss, a change of the          *)
(* connection, an operation by hand or another command ends that.          *)
Command(d, s) ==
    /\ Up /\ qpc = "idle" /\ count.cmd < MaxCmd /\ Used("cmd")
    /\ qpc' = "read" /\ qcmd' = [to |-> d, ask |-> s]
    /\ want' = [want EXCEPT ![d] =
                  IF Quiet /\ Agree /\ link = "open" THEN s ELSE "none"]
    /\ UNCHANGED <<life, node, pub, link, main, air>>

(* What zigbee_devnode_getattrvlaue yields: OFF is the default without a   *)
(* node; the walk over an uninitialised list may find nothing or not       *)
(* return ("wild").                                                        *)
Stored(d) == CASE node[d] \in State   -> {node[d]}
               [] node[d] = "absent"  -> {"off"}
               [] OTHER               -> {"off", "wild"}

(* Variant of the next definition: the comparison is inverted.             *)
JudgeSame ==
    /\ Up /\ qpc = "read"
    /\ \E st \in Stored(qcmd.to) :
         /\ life' = IF st = "wild" THEN "wild" ELSE life
         /\ qpc' = IF st = qcmd.ask THEN "dd" ELSE "idle"
    /\ qcmd' = IF qpc' = "dd" THEN qcmd ELSE NoFrame
    /\ UNCHANGED <<node, pub, link, main, air, want, count>>

(* zigbee_mqttmsgproc sends the command only if the stored state differs.  *)
Judge ==
    /\ Up /\ qpc = "read"
    /\ \E st \in Stored(qcmd.to) :
         /\ life' = IF st = "wild" THEN "wild" ELSE life
         /\ qpc' = IF st \in State /\ st # qcmd.ask THEN "dd" ELSE "idle"
    /\ qcmd' = IF qpc' = "dd" THEN qcmd ELSE NoFrame
    /\ UNCHANGED <<node, pub, link, main, air, want, count>>

(* zigbee_serialsend of the mosquitto thread.                              *)
MosqDd ==
    /\ Up /\ qpc = "dd"
    /\ IF link = "none" THEN qpc' = "idle" /\ qcmd' = NoFrame /\ UNCHANGED <<link, life>>
                        ELSE qpc' = "frame" /\ Write /\ UNCHANGED qcmd
    /\ UNCHANGED <<node, pub, main, air, want, count>>

MosqFrame ==
    /\ Up /\ qpc = "frame" /\ qpc' = "idle" /\ qcmd' = NoFrame /\ WriteFrame(qcmd)
    /\ UNCHANGED <<node, pub, main, actual, toHub, want, count>>

-----------------------------------------------------------------------------
(* The switches take a frame: all answer a discovery, one a query; a       *)
(* switch obeys a command and may report its state.                        *)
Device ==
    /\ toDev # <<>> /\ toDev' = Tail(toDev)
    /\ LET f == Head(toDev) IN
       IF f.ask = "disc"
         THEN /\ toHub' = toHub \o SetToSeq({[from |-> d, tlv |-> "disc"] : d \in Switch})
              /\ UNCHANGED actual
         ELSE /\ actual' = IF f.ask \in State THEN [actual EXCEPT ![f.to] = f.ask] ELSE actual
              /\ \/ toHub' = Append(toHub, [from |-> f.to, tlv |-> actual'[f.to]])
                 \/ f.ask \in State /\ UNCHANGED toHub
    /\ UNCHANGED <<life, node, pub, link, main, mosq, want, count>>

(* A switch is operated by hand, unnoticed until it is asked.              *)
Toggle(d) ==
    /\ count.mishap < MaxMishap /\ Used("mishap")
    /\ actual' = [actual EXCEPT ![d] = IF @ = "on" THEN "off" ELSE "on"]
    /\ NothingDue
    /\ UNCHANGED <<life, node, pub, link, main, mosq, toDev, toHub>>

(* A frame or report is lost on the air, or was split by a read.           *)
Lose ==
    /\ count.mishap < MaxMishap /\ Used("mishap")
    /\ \/ toDev # <<>> /\ toDev' = Tail(toDev) /\ UNCHANGED toHub
       \/ toHub # <<>> /\ toHub' = Tail(toHub) /\ UNCHANGED toDev
    /\ NothingDue
    /\ UNCHANGED <<life, node, pub, link, main, mosq, actual>>

(* The coordinator closes the connection.  Bound: another one follows.     *)
PeerClose ==
    /\ link = "open" /\ count.conn < MaxConn
    /\ link' = "closed" /\ toDev' \in {toDev, <<>>} /\ NothingDue
    /\ UNCHANGED <<life, node, pub, main, mosq, actual, toHub, count>>

MainStep == Accepted \/ Eof \/ DevnodeAdd \/ AttrInit \/ SetAttr \/ SwitchPub \/ MainDd \/ MainFrame
MosqStep == Judge \/ MosqDd \/ MosqFrame

Next ==
    \/ Accept \/ MainStep \/ SynTimeout \/ MosqStep
    \/ \E d \in Switch, s \in State : Command(d, s)
    \/ Device \/ Lose \/ PeerClose \/ \E d \in Switch : Toggle(d)

(* Both threads run, the timer fires, the switches answer and the          *)
(* coordinator connects; commands, losses and closes are not due.          *)
Fair == WF_vars(MainStep) /\ WF_vars(SynTimeout) /\ WF_vars(MosqStep) /\ WF_vars(Device)
        /\ WF_vars(link = "none" /\ Accept)
Spec == Init /\ [][Next]_vars /\ Fair

-----------------------------------------------------------------------------
(* What subscribers were last told of a switch is what the hub has stored, *)
(* and nothing is told of a switch it has not listed, whichever reports,   *)
(* repeated discoveries and commands come in between.                      *)
PublishedIsStored ==
    \A d \in Switch :
      /\ node[d] \in {"absent", "raw"} => pub[d] = "none"
      /\ pub[d] # "none" /\ ~(mpc = "publish" /\ mdev = d) => pub[d] = node[d]

(* The periodic discovery and queries make the list, the published states  *)
(* and the switches agree again after losses, lost connections, commands   *)
(* and operations by hand, unless the process was killed.                  *)
Converges == []<>(Agree \/ ~Up)

(* A command given while hub and switches agree is obeyed, whatever main   *)
(* does with the connection and the list meanwhile.                        *)
Obeyed == \A d \in Switch, s \in State :
            want[d] = s ~> (actual[d] = s \/ want[d] # s \/ ~Up)
=============================================================================
