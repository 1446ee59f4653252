-------------------------- MODULE MqttConnProofs --------------------------
(***************************************************************************)
(* The safety of the MQTT client for any set of devices and any number of *)
(* lost connections.  StartInv ties g_pstmosq, the callback and the        *)
(* module's procedure to how far main is; CallbackInv says what a callback *)
(* that began after the start has subscribed at each of its points.        *)
(***************************************************************************)
EXTENDS MqttConn, TLAPS

Stopping == {"fini", "unreg", "destroy"}

StartInv ==
    /\ (mosq = "set") <=> mpc \in {"assigned", "serve", "off"} \cup Stopping
    /\ mpc = "serve" => submod = "set"
    /\ mpc \in {"set", "connected", "assigned", "serve"} => callback = "set"
    /\ conn # "none" => mpc \in {"connected", "assigned", "serve"} \cup Stopping
    /\ mpc \in {"started", "set"} => npc = "loop"
    /\ mpc = "off" => npc = "none" /\ subs = {}

CallbackInv ==
    /\ late = "yes" => mpc \in {"serve", "off"} \cup Stopping
    /\ conn = "sent" => npc = "loop"
    /\ late = "yes" /\ mpc = "serve" /\ npc = "info" /\ conn = "up" => Fixed \in subs

ConnInv == TypeOK /\ StartInv /\ CallbackInv /\ LateResubscribes

LEMMA ConnInit == Init => ConnInv
BY MqttAssumption DEF Init, ConnInv, TypeOK, StartInv, Stopping, CallbackInv, LateResubscribes,
   Settled, Topic

(* Main's steps up to the registration; none of them subscribes.           *)
LEMMA StartStep ==
    ASSUME ConnInv, LoopStart \/ StartFails \/ CallbackSet \/ Connect \/ AssignMosq \/ ZigbeeInit
    PROVE  ConnInv'
<1> USE DEF ConnInv, TypeOK, StartInv, Stopping, CallbackInv, LateResubscribes, Settled
<1>1. CASE LoopStart
  BY <1>1 DEF LoopStart
<1>2. CASE StartFails
  BY <1>2 DEF StartFails
<1>3. CASE CallbackSet
  BY <1>3 DEF CallbackSet
<1>4. CASE Connect
  BY <1>4 DEF Connect
<1>5. CASE AssignMosq
  BY <1>5 DEF AssignMosq
<1>6. CASE ZigbeeInit
  BY <1>6 DEF ZigbeeInit
<1> QED BY <1>1, <1>2, <1>3, <1>4, <1>5, <1>6

(* Main's steps from the end of its loop on.                               *)
LEMMA StopStep ==
    ASSUME ConnInv, MainBreak \/ ZigbeeFini \/ Unreg \/ MosquittoFini
    PROVE  ConnInv'
<1> USE DEF ConnInv, TypeOK, StartInv, Stopping, CallbackInv, LateResubscribes, Settled
<1>1. CASE MainBreak
  BY <1>1 DEF MainBreak
<1>2. CASE ZigbeeFini
  BY <1>2 DEF ZigbeeFini
<1>3. CASE Unreg
  BY <1>3 DEF Unreg
<1>4. CASE MosquittoFini
  BY <1>4 DEF MosquittoFini
<1> QED BY <1>1, <1>2, <1>3, <1>4

(* The network thread's steps, and those of the connection.                *)
LEMMA NetworkStep ==
    ASSUME ConnInv, NetStep \/ ConnLost
    PROVE  ConnInv'
<1> USE MqttAssumption DEF ConnInv, TypeOK, StartInv, Stopping, CallbackInv, LateResubscribes,
        Settled, Subscribed, Topic, start
<1>1. CASE Connack
  BY <1>1 DEF Connack
<1>2. CASE CallbackModules
  BY <1>2 DEF CallbackModules
<1>3. CASE CallbackInfo
  BY <1>3 DEF CallbackInfo
<1>4. CASE Reconnect
  BY <1>4 DEF Reconnect
<1>5. CASE ConnLost
  BY <1>5 DEF ConnLost
<1> QED BY <1>1, <1>2, <1>3, <1>4, <1>5 DEF NetStep

LEMMA AddStep ==
    ASSUME ConnInv, NEW d \in Device, NEW devtype \in {"switch", "other"}, DevnodeAdd(d, devtype)
    PROVE  ConnInv'
BY MqttAssumption DEF ConnInv, TypeOK, StartInv, Stopping, CallbackInv, LateResubscribes,
   Settled, Subscribed, Topic, start, DevnodeAdd

LEMMA ConnStep == ConnInv /\ [Next]_vars => ConnInv'
<1> SUFFICES ASSUME ConnInv, [Next]_vars PROVE ConnInv'
  OBVIOUS
<1>1. CASE MainStep \/ StartFails \/ MainBreak
  BY <1>1, StartStep, StopStep DEF MainStep
<1>2. CASE NetStep \/ ConnLost
  BY <1>2, NetworkStep
<1>3. CASE \E d \in Device, devtype \in {"switch", "other"} : DevnodeAdd(d, devtype)
  BY <1>3, AddStep
<1>4. CASE UNCHANGED vars
  BY <1>4 DEF ConnInv, TypeOK, StartInv, Stopping, CallbackInv, LateResubscribes, Settled,
     vars, start
<1> QED BY <1>1, <1>2, <1>3, <1>4 DEF Next

LEMMA ConnHolds == Spec => []ConnInv
BY ConnInit, ConnStep, PTL DEF Spec

(* The variables keep their types, for any topics, devices and bounds.    *)
THEOREM TypeCorrect == Spec => []TypeOK
<1>1. ConnInv => TypeOK
  BY DEF ConnInv
<1> QED BY <1>1, ConnHolds, PTL

(* A connect callback that begins after the start leaves the fixed topics  *)
(* and the broker's topic subscribed (hali_mosquitto.c:65-85).             *)
THEOREM ResubscribesHolds == Spec => []LateResubscribes
<1>1. ConnInv => LateResubscribes
  BY DEF ConnInv
<1> QED BY <1>1, ConnHolds, PTL
=============================================================================
