------------------------------ MODULE MCServices ------------------------------
(* The remote console, dynamic DNS, the Ethernet driver, the Wi-Fi uplink and  *)
(* MQTT: in each behaviour one of them runs (which) while the others stay as   *)
(* they start.  The fairness is theirs, for the one that runs.                 *)
EXTENDS RemoteConsole, W5500Mac, MqttHa

CONSTANTS
    WanAddresses, Providers, NoSettings,
    InitialMs, MaxMs, MaxEvents, ScanPages

VARIABLES
    which,
    g_ddns, ddns_nvs, g_wan_ip, g_timer_running, update, page, record,
    ap_connect, wifi_scan_active, delay_ms, timer, radio, scan, wevents, cli, dns, pages, deferred

ddvars == <<g_ddns, ddns_nvs, g_wan_ip, g_timer_running, update, page, record>>
stavars == <<ap_connect, wifi_scan_active, delay_ms, timer, radio, scan, wevents, cli, dns,
             pages, deferred>>

Dd == INSTANCE Ddns
Sta == INSTANCE StaUplink

MCInit ==
    /\ which \in {"console", "ddns", "ethernet", "station", "mqtt"}
    /\ Init /\ (which = "console" \/ (~enabled /\ handle = NoTask))
    /\ Dd!Init /\ MacInit /\ Sta!Init /\ MqttInit

MCNext ==
    \/ which = "console" /\ Next /\ UNCHANGED <<which, ddvars, w5500vars, stavars, mqvars>>
    \/ which = "ddns" /\ Dd!Next /\ UNCHANGED <<which, vars, w5500vars, stavars, mqvars>>
    \/ which = "ethernet" /\ MacNext /\ UNCHANGED <<which, vars, ddvars, stavars, mqvars>>
    \/ which = "station" /\ Sta!Next /\ UNCHANGED <<which, vars, ddvars, w5500vars, mqvars>>
    \/ which = "mqtt" /\ MqttNext /\ UNCHANGED <<which, vars, ddvars, w5500vars, stavars>>

ConsoleFair ==
    /\ \A t \in Tasks : WF_vars(which = "console" /\ Run(t))
    /\ \A c \in Who : WF_vars(which = "console" /\ Api(c))

DdnsFair ==
    /\ WF_ddvars(which = "ddns" /\ Dd!Task)
    /\ WF_ddvars(which = "ddns" /\ (Dd!ReloadClear \/ Dd!ddns_load_config))
    /\ WF_ddvars(which = "ddns" /\ Dd!ddns_timer_cb(TRUE))
    /\ SF_ddvars(which = "ddns" /\ Dd!Accepted)

EthernetFair ==
    /\ WF_w5500vars(which = "ethernet" /\ Task)
    /\ WF_w5500vars(which = "ethernet" /\ Later)
    /\ SF_w5500vars(which = "ethernet" /\ DrainEnds)
    /\ WF_w5500vars(which = "ethernet" /\ LwipGoesOn)

StationFair ==
    /\ WF_stavars(which = "station" /\ Sta!wifi_event_handler)
    /\ WF_stavars(which = "station" /\ Sta!sta_reconnect_timer_cb)
    /\ WF_stavars(which = "station" /\ Sta!ScanDone)
    /\ WF_stavars(which = "station" /\ (Sta!CliScan \/ Sta!CliEnd))
    /\ WF_stavars(which = "station" /\ radio = "trying" /\ Sta!LinkLost)
    /\ SF_stavars(which = "station" /\ Sta!LinkUp)
    /\ WF_stavars(which = "station" /\ Sta!resume_sta_if_scan_idle)

MqttFair ==
    /\ WF_mqvars(which = "mqtt" /\ Handler)
    /\ WF_mqvars(which = "mqtt" /\ mqtt_ha_stop)
    /\ WF_mqvars(which = "mqtt" /\ TimerReads)
    /\ SF_mqvars(which = "mqtt" /\ TimerPublishes)

MCSpec ==
    /\ MCInit /\ [][MCNext]_<<which, vars, ddvars, w5500vars, stavars, mqvars>>
    /\ ConsoleFair /\ DdnsFair /\ EthernetFair /\ StationFair /\ MqttFair

RecordFollows == Dd!RecordFollows
ReconnectsUnlessLeft == which = "station" => Sta!ReconnectsUnlessLeft
=============================================================================
