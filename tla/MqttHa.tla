-------------------------------- MODULE MqttHa --------------------------------
(***************************************************************************)
(* components/mqtt_ha/mqtt_ha.c: what Home Assistant's broker retains of   *)
(* the router, its availability and the state of its switches, against the *)
(* command line, the publish timer, the events of the MQTT client, lost    *)
(* connections and restarts.                                               *)
(*                                                                         *)
(* The client (esp-mqtt) and the broker are external.  The client's task   *)
(* holds its lock while it runs an event handler, so the calls of other    *)
(* tasks wait.  A connection that ends without DISCONNECT leaves the       *)
(* broker a dead session, whose last will it publishes.                    *)
(*                                                                         *)
(* The three switches (web_ui, remote_console, ap) are set, read and       *)
(* published alike: switch is one of them.                                 *)
(***************************************************************************)
EXTENDS Naturals, Sequences

VARIABLES
    mqtt_nvs,       \* mqtt_en and mqtt_uri in flash: [en |-> , uri |-> ]
    s_enabled, s_uri, s_connected,
    s_client,       \* "none", "live", "gone" (destroyed, not yet NULL)
    s_publish_timer,\* "none", "stopped", "running"
    switch,
    cmd, timer_cb, handler,     \* where mqtt_cmd(), publish_state() and the event handler are
    link,           \* the client's: "down", "up", "lost" (not noticed)
    session,        \* the broker's: "none", "open", "dead"
    avail, shown, found,        \* retained: availability, state, discovery
    missed          \* history: "online" came while a stop no longer looks

mqvars == <<mqtt_nvs, s_enabled, s_uri, s_connected, s_client, s_publish_timer, switch,
            cmd, timer_cb, handler, link, session, avail, shown, found, missed>>
config == <<mqtt_nvs, s_enabled, s_uri>>
client == <<s_connected, s_client, s_publish_timer>>
tasks == <<cmd, timer_cb, handler>>
retained == <<avail, shown, found>>

Idle == <<"idle">>
Reaches == s_client = "live" /\ link = "up"

-----------------------------------------------------------------------------
(* What the tasks publish                                                  *)

\* esp_mqtt_client_publish(): what is sent into a lost connection is lost.
Publish(topic, v) == IF Reaches THEN topic' = v ELSE UNCHANGED topic

publish_discovery == IF s_connected THEN Publish(found, TRUE) ELSE UNCHANGED found

-----------------------------------------------------------------------------
(* Start and stop                                                          *)

\* Mutant: a timer that was created before is not started again.
Mutmqtt_ha_start(ok) ==
    IF s_client # "none" \/ ~s_uri \/ ~ok THEN UNCHANGED <<s_client, s_publish_timer>>
    ELSE /\ s_client' = "live"
         /\ s_publish_timer' = IF s_publish_timer = "none" THEN "running" ELSE s_publish_timer

\* The client's creation or its start may fail.
mqtt_ha_start(ok) ==
    IF s_client # "none" \/ ~s_uri \/ ~ok THEN UNCHANGED <<s_client, s_publish_timer>>
    ELSE s_client' = "live" /\ s_publish_timer' = "running"

\* "mqtt enable": stored as enabled whether the start succeeds or not
MqttEnable(ok) ==
    /\ cmd = Idle
    /\ s_enabled' = TRUE /\ mqtt_nvs' = [mqtt_nvs EXCEPT !.en = TRUE]
    /\ mqtt_ha_start(ok)
    /\ UNCHANGED <<s_uri, s_connected, switch, tasks, link, session, retained, missed>>

\* "mqtt disable", and esp_timer_stop(): a publish_state() that runs goes on.
MqttDisable ==
    /\ cmd = Idle /\ cmd' = <<"look">>
    /\ s_enabled' = FALSE /\ mqtt_nvs' = [mqtt_nvs EXCEPT !.en = FALSE]
    /\ s_publish_timer' = IF s_publish_timer = "none" THEN "none" ELSE "stopped"
    /\ UNCHANGED <<s_uri, s_connected, s_client, switch, timer_cb, handler, link, session,
                   retained, missed>>

StopLooks ==
    /\ cmd = <<"look">>
    /\ cmd' = IF s_client = "none" THEN Idle
              ELSE IF s_connected THEN <<"offline">> ELSE <<"destroy">>
    /\ UNCHANGED <<config, client, switch, timer_cb, handler, link, session, retained, missed>>

\* Mutant: the client is stopped before it has said "offline".
MutStopPublishes ==
    /\ cmd = <<"offline">> /\ handler = Idle /\ cmd' = <<"destroy">>
    /\ UNCHANGED <<config, client, switch, timer_cb, handler, link, session, retained, missed>>

\* ... and 200 ms for it to get out
StopPublishes ==
    /\ cmd = <<"offline">> /\ handler = Idle /\ cmd' = <<"destroy">>
    /\ Publish(avail, "offline")
    /\ UNCHANGED <<config, client, switch, timer_cb, handler, link, session, shown, found, missed>>

\* esp_mqtt_client_stop() says DISCONNECT, so there is no last will.
StopDestroys ==
    /\ cmd = <<"destroy">> /\ handler = Idle /\ cmd' = <<"clear">>
    /\ s_client' = "gone" /\ link' = "down"
    /\ session' = IF link = "up" THEN "none" ELSE session
    /\ UNCHANGED <<config, s_connected, s_publish_timer, switch, timer_cb, handler, retained, missed>>

StopClears ==
    /\ cmd = <<"clear">> /\ cmd' = Idle
    /\ s_client' = "none" /\ s_connected' = FALSE
    /\ UNCHANGED <<config, s_publish_timer, switch, timer_cb, handler, link, session, retained, missed>>

mqtt_ha_stop == StopLooks \/ StopPublishes \/ StopDestroys \/ StopClears

\* "mqtt broker": for the next start
SetBroker ==
    /\ cmd = Idle
    /\ s_uri' = TRUE /\ mqtt_nvs' = [mqtt_nvs EXCEPT !.uri = TRUE]
    /\ UNCHANGED <<s_enabled, client, switch, tasks, link, session, retained, missed>>

mqtt_ha_rediscover ==
    /\ cmd = Idle /\ handler = Idle
    /\ publish_discovery
    /\ UNCHANGED <<config, client, switch, tasks, link, session, avail, shown, missed>>

\* Set on the command line or a web page; nothing is published.
SetSwitch ==
    /\ switch' = ~switch
    /\ UNCHANGED <<config, client, tasks, link, session, retained, missed>>

-----------------------------------------------------------------------------
(* publish_state() from the timer: it looks, reads the switches, publishes *)

TimerReads ==
    /\ s_publish_timer = "running" /\ timer_cb = Idle /\ s_connected
    /\ timer_cb' = <<"publish", switch>>
    /\ UNCHANGED <<config, client, switch, cmd, handler, link, session, retained, missed>>

\* A client that is gone by now may as well end in a panic: Restart.
TimerPublishes ==
    /\ timer_cb[1] = "publish" /\ handler = Idle /\ timer_cb' = Idle
    /\ Publish(shown, timer_cb[2])
    /\ UNCHANGED <<config, client, switch, cmd, handler, link, session, avail, found, missed>>

-----------------------------------------------------------------------------
(* The client's task: mqtt_event_handler()                                 *)

\* The broker ends a dead session with the same name: its last will.
Connect ==
    /\ s_client = "live" /\ link = "down" /\ handler = Idle
    /\ link' = "up" /\ session' = "open" /\ handler' = <<"connected">>
    /\ avail' = IF session = "dead" THEN "offline" ELSE avail
    /\ missed' = FALSE
    /\ UNCHANGED <<config, client, switch, cmd, timer_cb, shown, found>>

OnConnected ==
    /\ handler = <<"connected">> /\ handler' = <<"discover">>
    /\ s_connected' = TRUE
    /\ Publish(avail, "online")
    /\ missed' = (missed \/ (Reaches /\ cmd = <<"destroy">>))
    /\ UNCHANGED <<config, s_client, s_publish_timer, switch, cmd, timer_cb, link, session, shown, found>>

OnDiscover ==
    /\ handler = <<"discover">> /\ handler' = <<"read">>
    /\ publish_discovery
    /\ UNCHANGED <<config, client, switch, cmd, timer_cb, link, session, avail, shown, missed>>

HandlerReads ==
    /\ handler = <<"read">>
    /\ handler' = IF s_connected THEN <<"publish", switch>> ELSE Idle
    /\ UNCHANGED <<config, client, switch, cmd, timer_cb, link, session, retained, missed>>

HandlerPublishes ==
    /\ handler[1] = "publish" /\ handler' = Idle
    /\ Publish(shown, handler[2])
    /\ UNCHANGED <<config, client, switch, cmd, timer_cb, link, session, avail, found, missed>>

OnDisconnected ==
    /\ link = "lost" /\ handler = Idle
    /\ link' = "down" /\ s_connected' = FALSE
    /\ UNCHANGED <<config, s_client, s_publish_timer, switch, tasks, session, retained, missed>>

\* A command from the broker; the new state goes out at once.
OnData(on) ==
    /\ Reaches /\ s_connected /\ handler = Idle
    /\ switch' = on /\ handler' = <<"read">>
    /\ UNCHANGED <<config, client, cmd, timer_cb, link, session, retained, missed>>

Handler == OnConnected \/ OnDiscover \/ HandlerReads \/ HandlerPublishes \/ OnDisconnected

-----------------------------------------------------------------------------
(* The network, the broker, the power                                      *)

Lost ==
    /\ link = "up" /\ link' = "lost" /\ session' = "dead"
    /\ UNCHANGED <<config, client, switch, tasks, retained, missed>>

LastWill ==
    /\ session = "dead" /\ session' = "none" /\ avail' = "offline"
    /\ UNCHANGED <<config, client, switch, tasks, link, shown, found, missed>>

\* Power, a panic or the command to restart; load_config() and mqtt_ha_init()
Restart(ok) ==
    LET starts == mqtt_nvs.en /\ mqtt_nvs.uri /\ ok
    IN /\ s_enabled' = mqtt_nvs.en /\ s_uri' = mqtt_nvs.uri
       /\ s_connected' = FALSE
       /\ s_client' = IF starts THEN "live" ELSE "none"
       /\ s_publish_timer' = IF starts THEN "running" ELSE "none"
       /\ cmd' = Idle /\ timer_cb' = Idle /\ handler' = Idle
       /\ link' = "down" /\ session' = IF session = "open" THEN "dead" ELSE session
       /\ UNCHANGED <<mqtt_nvs, switch, retained, missed>>

-----------------------------------------------------------------------------

MqttInit ==
    /\ mqtt_nvs = [en |-> FALSE, uri |-> FALSE]
    /\ s_enabled = FALSE /\ s_uri = FALSE /\ s_connected = FALSE
    /\ s_client = "none" /\ s_publish_timer = "none" /\ switch = FALSE
    /\ cmd = Idle /\ timer_cb = Idle /\ handler = Idle
    /\ link = "down" /\ session = "none"
    /\ avail = "none" /\ shown = FALSE /\ found = FALSE /\ missed = FALSE

MqttNext ==
    \/ \E ok \in BOOLEAN : MqttEnable(ok) \/ Restart(ok)
    \/ MqttDisable \/ mqtt_ha_stop \/ SetBroker \/ mqtt_ha_rediscover \/ SetSwitch
    \/ TimerReads \/ TimerPublishes
    \/ Connect \/ Handler \/ \E on \in BOOLEAN : OnData(on)
    \/ Lost \/ LastWill

\* The client's task, the timer and the command in progress run.
MqttFairness ==
    /\ WF_mqvars(Handler) /\ WF_mqvars(mqtt_ha_stop)
    /\ WF_mqvars(TimerReads) /\ SF_mqvars(TimerPublishes)

MqttSpec == MqttInit /\ [][MqttNext]_mqvars

MqttFairSpec == MqttSpec /\ MqttFairness

-----------------------------------------------------------------------------
(* Properties                                                              *)

\* A service that is stopped, or that never came back, is not "online" for ever: either it said
\* so, or it left the broker its last will.  The exception is a connection that is made while
\* mqtt_ha_stop() no longer looks at s_connected.
OffIsOffline ==
    (cmd = Idle /\ s_client = "none" /\ session = "none" /\ avail = "online") => missed

\* However commands of the broker, the command line, the timer and the events interleave: while
\* the connection stays and a switch is left alone, the broker ends up with its position.
StateConverges ==
    \A v \in BOOLEAN : <>[](link = "up" /\ switch = v) => <>[](found /\ shown = v)
=============================================================================
