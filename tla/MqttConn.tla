------------------------------ MODULE MqttConn ------------------------------
(***************************************************************************)
(* The MQTT client of hali: main creates it, starts libmosquitto's network *)
(* thread, sets the callbacks, connects, and only then stores the client   *)
(* in g_pstmosq and registers the zigbee module's subscription procedure.  *)
(* The network thread runs hali_mosquitto_connectcallback whenever the     *)
(* broker accepts a connection, also while main is still starting; the     *)
(* session is a clean one, so a new connection starts without any          *)
(* subscription.  Subscribing is a no-op while g_pstmosq is NULL and fails *)
(* silently without a connection.                                          *)
(*                                                                         *)
(* Topics are Info ("1"), Fixed (the two commands zigbee_mqttsub knows) and*)
(* one command topic per zigbee device.  MaxLost bounds the lost           *)
(* connections.                                                            *)
(***************************************************************************)
EXTENDS Naturals, FiniteSets

CONSTANTS Device, Info, Fixed, MaxLost

ASSUME MqttAssumption ==
    Info # Fixed /\ {Info, Fixed} \cap Device = {} /\ MaxLost \in Nat

Topic == Device \cup {Info, Fixed}

VARIABLES
    mpc,       \* main: how far the start or the shutdown is
    mosq,      \* "null" or "set": g_pstmosq
    callback,  \* "unset" or "set": the connect callback
    submod,    \* "null" or "set": g_mqttsub[HALI_MODULE_ZIGBEE]
    conn,      \* "none", "sent" (CONNECT is out), "up", "lost"
    npc,       \* network thread: "none", "loop", "mods" and "info" in the callback
    late,      \* "no", or "yes": the current callback began after the start
    subs,      \* subscriptions the broker holds for this connection
    devs,      \* the device list: what type each device is listed with, or "none"
    lost       \* connections lost so far

start == <<mpc, mosq, callback, submod>>
vars  == <<start, conn, npc, late, subs, devs, lost>>

(* The type invariant.                                                     *)
TypeOK ==
    /\ mpc \in {"new", "started", "set", "connected", "assigned", "serve", "failed",
              "fini", "unreg", "destroy", "off"}
    /\ mosq \in {"null", "set"} /\ callback \in {"unset", "set"}
    /\ submod \in {"null", "set"}
    /\ conn \in {"none", "sent", "up", "lost"}
    /\ npc \in {"none", "loop", "mods", "info"} /\ late \in {"no", "yes"}
    /\ subs \subseteq Topic /\ lost \in 0..MaxLost
    /\ devs \in [Device -> {"none", "switch", "other"}]

Init ==
    /\ mpc = "new" /\ mosq = "null" /\ callback = "unset" /\ submod = "null"
    /\ conn = "none" /\ npc = "none" /\ late = "no"
    /\ subs = {} /\ devs = [d \in Device |-> "none"] /\ lost = 0

(* hali_mosquitto_subscribe: the broker hears it if the client is known    *)
(* and connected.                                                          *)
Subscribed(topics) == IF mosq = "set" /\ conn \in {"sent", "up"} THEN topics ELSE {}

-----------------------------------------------------------------------------
(* mosquitto_loop_start: the network thread exists from here on.           *)
LoopStart ==
    /\ mpc = "new" /\ mpc' = "started" /\ npc' = "loop"
    /\ UNCHANGED <<mosq, callback, submod, conn, late, subs, devs, lost>>

(* Either call fails: the client is destroyed and hali does not start.     *)
StartFails ==
    /\ mpc \in {"new", "set"} /\ mpc' = "failed" /\ npc' = "none"
    /\ UNCHANGED <<mosq, callback, submod, conn, late, subs, devs, lost>>

CallbackSet ==
    /\ mpc = "started" /\ mpc' = "set" /\ callback' = "set"
    /\ UNCHANGED <<mosq, submod, conn, npc, late, subs, devs, lost>>

(* mosquitto_connect has sent CONNECT and returns.                         *)
Connect ==
    /\ mpc = "set" /\ mpc' = "connected" /\ conn' = "sent"
    /\ UNCHANGED <<mosq, callback, submod, npc, late, subs, devs, lost>>

AssignMosq ==
    /\ mpc = "connected" /\ mpc' = "assigned" /\ mosq' = "set"
    /\ UNCHANGED <<callback, submod, conn, npc, late, subs, devs, lost>>

(* Variant of the next definition: the registration is forgotten.          *)
ZigbeeInitNoSub ==
    /\ mpc = "assigned" /\ mpc' = "serve"
    /\ UNCHANGED <<mosq, callback, submod, conn, npc, late, subs, devs, lost>>

(* zigbee_init registers the module's subscription procedure.              *)
ZigbeeInit ==
    /\ mpc = "assigned" /\ mpc' = "serve" /\ submod' = "set"
    /\ UNCHANGED <<mosq, callback, conn, npc, late, subs, devs, lost>>

(* zigbee_devnode_add: a new switch is subscribed to its command topic; a  *)
(* listed device only gets its type, also when it is a switch from now on. *)
DevnodeAdd(d, devtype) ==
    /\ mpc = "serve"
    /\ devs' = [devs EXCEPT ![d] = devtype]
    /\ subs' = subs \cup (IF devs[d] = "none" /\ devtype = "switch" THEN Subscribed({d}) ELSE {})
    /\ UNCHANGED <<start, conn, npc, late, lost>>

(* Main's loop has ended, or a thread could not be created: zigbee_fini    *)
(* frees the list while the network thread goes on, ...                    *)
ZigbeeFini ==
    /\ mpc = "fini" /\ mpc' = "unreg" /\ devs' = [d \in Device |-> "none"]
    /\ UNCHANGED <<mosq, callback, submod, conn, npc, late, subs, lost>>

(* ... takes the module's procedure back, ...                              *)
Unreg ==
    /\ mpc = "unreg" /\ mpc' = "destroy" /\ submod' = "null"
    /\ UNCHANGED <<mosq, callback, conn, npc, late, subs, devs, lost>>

(* ... and hali_mosquitto_fini destroys the client and its thread;         *)
(* g_pstmosq keeps the pointer.                                            *)
MosquittoFini ==
    /\ mpc = "destroy" /\ mpc' = "off"
    /\ npc' = "none" /\ conn' = "none" /\ subs' = {}
    /\ UNCHANGED <<mosq, callback, submod, late, devs, lost>>

MainBreak ==
    /\ mpc = "serve" /\ mpc' = "fini"
    /\ UNCHANGED <<mosq, callback, submod, conn, npc, late, subs, devs, lost>>

-----------------------------------------------------------------------------
(* The broker accepts; the callback, if set by now, starts.                *)
Connack ==
    /\ npc = "loop" /\ conn = "sent" /\ conn' = "up"
    /\ npc' = IF callback = "set" THEN "mods" ELSE "loop"
    /\ late' = IF mpc = "serve" THEN "yes" ELSE "no"
    /\ UNCHANGED <<start, subs, devs, lost>>

(* Variant of the next definition: the loop over the modules stops before  *)
(* the last one.                                                           *)
CallbackModulesShort ==
    /\ npc = "mods" /\ npc' = "info"
    /\ UNCHANGED <<start, conn, late, subs, devs, lost>>

(* The callback calls the subscription procedure of every module, ...      *)
CallbackModules ==
    /\ npc = "mods" /\ npc' = "info"
    /\ subs' = subs \cup (IF submod = "set" THEN Subscribed({Fixed}) ELSE {})
    /\ UNCHANGED <<start, conn, late, devs, lost>>

(* ... then subscribes to the broker's topic.                              *)
CallbackInfo ==
    /\ npc = "info" /\ npc' = "loop"
    /\ subs' = subs \cup Subscribed({Info})
    /\ UNCHANGED <<start, conn, late, devs, lost>>

(* The connection breaks, or the broker refuses it; the clean session's    *)
(* subscriptions are gone.                                                 *)
ConnLost ==
    /\ conn \in {"sent", "up"} /\ lost < MaxLost
    /\ conn' = "lost" /\ subs' = {} /\ lost' = lost + 1
    /\ UNCHANGED <<start, npc, late, devs>>

(* The network thread connects again.                                      *)
Reconnect ==
    /\ npc = "loop" /\ conn = "lost" /\ conn' = "sent"
    /\ UNCHANGED <<start, npc, late, subs, devs, lost>>

MainStep == LoopStart \/ CallbackSet \/ Connect \/ AssignMosq \/ ZigbeeInit
            \/ ZigbeeFini \/ Unreg \/ MosquittoFini
NetStep  == Connack \/ CallbackModules \/ CallbackInfo \/ Reconnect

Next ==
    \/ MainStep \/ StartFails \/ MainBreak \/ NetStep \/ ConnLost
    \/ \E d \in Device, devtype \in {"switch", "other"} : DevnodeAdd(d, devtype)

(* Both threads run and the broker answers; nothing else is due.           *)
Spec == Init /\ [][Next]_vars /\ WF_vars(MainStep) /\ WF_vars(NetStep)

-----------------------------------------------------------------------------
Settled == npc = "loop" /\ conn = "up"

(* A callback that begins after hali has started subscribes to the fixed   *)
(* topics and the broker's, unless the connection broke meanwhile or hali  *)
(* has begun to shut down.                                                 *)
LateResubscribes ==
    Settled /\ late = "yes" /\ mpc = "serve" => {Info, Fixed} \subseteq subs

(* After a loss the client comes back with its topics, as long as hali is  *)
(* up.                                                                     *)
LossRecovers ==
    (conn = "lost" /\ mpc = "serve") ~> ((Settled /\ {Info, Fixed} \subseteq subs) \/ mpc # "serve")
=============================================================================
