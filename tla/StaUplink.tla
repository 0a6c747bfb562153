----------------------------- MODULE StaUplink ------------------------------
(***************************************************************************)
(* The uplink over Wi-Fi (builds without CONFIG_ETH_UPLINK): the event     *)
(* handlers of main/esp32_nat_router.c and the back-off timer keep trying  *)
(* to connect; the scan page and the console's "scan" suspend that with    *)
(* wifi_scan_active.  The driver of Wi-Fi is external: it posts events,    *)
(* which one task handles in order, and it does not scan while it connects.*)
(***************************************************************************)
EXTENDS Naturals, Sequences

CONSTANTS
    InitialMs, MaxMs,  \* STA_RECONNECT_INITIAL_MS and STA_RECONNECT_MAX_MS
    MaxEvents,         \* bound: events not yet handled
    ScanPages          \* bound: loads of the scan page

VARIABLES
    ap_connect, wifi_scan_active,
    delay_ms,          \* sta_reconnect_delay_ms
    timer,             \* sta_reconnect_timer is armed
    radio,             \* "idle", "trying", "up"
    scan,              \* who scans: "none", "page", "cli"
    wevents,           \* the events not yet handled
    cli,               \* where the console's scan command stands
    dns,               \* the DNS server clients of the access point get
    pages,             \* loads of the scan page so far
    deferred           \* history: a reconnect was left to a page, and none has come since

stavars == <<ap_connect, wifi_scan_active, delay_ms, timer, radio, scan, wevents, cli, dns, pages,
             deferred>>
flags == <<ap_connect, wifi_scan_active>>

Post(e) == wevents' = Append(wevents, e)
Room == Len(wevents) < MaxEvents

-----------------------------------------------------------------------------
(* The driver                                                              *)

\* Connecting ends a scan, which is reported; while trying, or connected, it has no effect.
esp_wifi_connect ==
    IF radio # "idle" THEN UNCHANGED <<radio, scan, wevents, deferred>>
    ELSE /\ radio' = "trying" /\ scan' = "none" /\ deferred' = FALSE
         /\ IF scan = "none" THEN UNCHANGED wevents ELSE Post("SCAN_DONE")

\* The network is not found, refuses, or gives no address; or an established link is lost.
LinkLost ==
    /\ radio # "idle" /\ Room
    /\ radio' = "idle" /\ Post("STA_DISCONNECTED")
    /\ UNCHANGED <<flags, delay_ms, timer, scan, cli, dns, pages, deferred>>

LinkUp ==
    /\ radio = "trying" /\ Room
    /\ radio' = "up" /\ Post("STA_GOT_IP")
    /\ UNCHANGED <<flags, delay_ms, timer, scan, cli, dns, pages, deferred>>

ScanDone ==
    /\ scan # "none" /\ Room
    /\ scan' = "none" /\ Post("SCAN_DONE")
    /\ UNCHANGED <<flags, delay_ms, timer, radio, cli, dns, pages, deferred>>

-----------------------------------------------------------------------------
(* wifi_event_handler()                                                    *)

Handle(e) == wevents # <<>> /\ wevents[1] = e

sta_schedule_reconnect == timer' = TRUE

Disconnected ==
    /\ Handle("STA_DISCONNECTED") /\ wevents' = Tail(wevents)
    /\ ap_connect' = FALSE
    /\ IF wifi_scan_active THEN UNCHANGED timer ELSE sta_schedule_reconnect
    /\ deferred' = (wifi_scan_active /\ cli = "idle")
    /\ UNCHANGED <<wifi_scan_active, delay_ms, radio, scan, cli, dns, pages>>

\* "Just clear the flag - don't reconnect here."
ScanDoneEvent ==
    /\ Handle("SCAN_DONE") /\ wevents' = Tail(wevents)
    /\ wifi_scan_active' = FALSE
    /\ UNCHANGED <<ap_connect, delay_ms, timer, radio, scan, cli, dns, pages, deferred>>

\* The clients get the VPN's server, the one configured, or the uplink's.
effective_ap_dns == {"override", "upstream"}

GotIp ==
    /\ Handle("STA_GOT_IP") /\ wevents' = Tail(wevents)
    /\ ap_connect' = TRUE /\ delay_ms' = InitialMs /\ timer' = FALSE
    /\ dns' \in effective_ap_dns
    /\ UNCHANGED <<wifi_scan_active, radio, scan, cli, pages, deferred>>

sta_reconnect_timer_cb ==
    /\ timer /\ Room /\ timer' = FALSE
    /\ esp_wifi_connect
    /\ delay_ms' = IF 2 * delay_ms > MaxMs THEN MaxMs ELSE 2 * delay_ms
    /\ UNCHANGED <<flags, cli, dns, pages>>

-----------------------------------------------------------------------------
(* Scans                                                                   *)

\* A scan is started unless the driver is busy, which the page does not mind.
scan_get_handler ==
    /\ pages < ScanPages /\ pages' = pages + 1
    /\ wifi_scan_active' = (wifi_scan_active \/ ~ap_connect)
    /\ scan' = IF radio # "trying" /\ scan = "none" THEN "page" ELSE scan
    /\ UNCHANGED <<ap_connect, delay_ms, timer, radio, wevents, cli, dns, deferred>>

\* Any other page
resume_sta_if_scan_idle ==
    /\ wifi_scan_active /\ Room
    /\ wifi_scan_active' = FALSE
    /\ IF ap_connect THEN UNCHANGED <<radio, scan, wevents, deferred>> ELSE esp_wifi_connect
    /\ UNCHANGED <<ap_connect, delay_ms, timer, cli, dns, pages>>

\* The command disconnects, waits a tenth of a second ...
scan_cmd ==
    /\ cli = "idle" /\ cli' = "start" /\ Room
    /\ IF ap_connect THEN UNCHANGED <<wifi_scan_active, radio, wevents>>
       ELSE /\ wifi_scan_active' = TRUE /\ radio' = "idle"
            /\ IF radio = "idle" THEN UNCHANGED wevents ELSE Post("STA_DISCONNECTED")
    /\ UNCHANGED <<ap_connect, delay_ms, timer, scan, dns, pages, deferred>>

\* ... and scans, or fails at once.
CliScan ==
    /\ cli = "start" /\ cli' = "wait"
    /\ scan' = IF radio # "trying" /\ scan = "none" THEN "cli" ELSE scan
    /\ UNCHANGED <<flags, delay_ms, timer, radio, wevents, dns, pages, deferred>>

\* Mutant: the scan ends without an attempt.
MutCliEnd ==
    /\ cli = "wait" /\ scan # "cli" /\ Room
    /\ cli' = "idle" /\ wifi_scan_active' = FALSE
    /\ UNCHANGED <<ap_connect, delay_ms, timer, radio, scan, wevents, dns, pages, deferred>>

\* "Now safe to resume connection attempts"
CliEnd ==
    /\ cli = "wait" /\ scan # "cli" /\ Room
    /\ cli' = "idle" /\ wifi_scan_active' = FALSE
    /\ IF ap_connect THEN UNCHANGED <<radio, scan, wevents, deferred>> ELSE esp_wifi_connect
    /\ UNCHANGED <<ap_connect, delay_ms, timer, dns, pages>>

-----------------------------------------------------------------------------

\* WIFI_EVENT_STA_START has started the first attempt.
Init ==
    /\ ap_connect = FALSE /\ wifi_scan_active = FALSE
    /\ delay_ms = InitialMs /\ timer = FALSE
    /\ radio = "trying" /\ scan = "none" /\ wevents = <<>>
    /\ cli = "idle" /\ dns = "none" /\ pages = 0 /\ deferred = FALSE

wifi_event_handler == Disconnected \/ ScanDoneEvent \/ GotIp

Next ==
    \/ LinkLost \/ LinkUp \/ ScanDone
    \/ wifi_event_handler
    \/ sta_reconnect_timer_cb
    \/ scan_get_handler \/ resume_sta_if_scan_idle
    \/ scan_cmd \/ CliScan \/ CliEnd

\* Tasks and the timer run, scans end, attempts end, and a network that is tried again and
\* again lets the router in.  No page has to be loaded, but one that would resume is.
Fairness ==
    /\ WF_stavars(wifi_event_handler) /\ WF_stavars(sta_reconnect_timer_cb)
    /\ WF_stavars(ScanDone) /\ WF_stavars(CliScan \/ CliEnd)
    /\ WF_stavars(radio = "trying" /\ LinkLost) /\ SF_stavars(LinkUp)
    /\ WF_stavars(resume_sta_if_scan_idle)

Spec == Init /\ [][Next]_stavars
FairSpec == Spec /\ Fairness

-----------------------------------------------------------------------------
(* Properties                                                              *)

\* The router never stays without its uplink while the network can be had: whatever loses the
\* link, and whoever scans, "navigating away from /scan (or any other page load) restarts the
\* connection process" (http_server.c:741, resume_sta_if_scan_idle).
Reconnects == ~ap_connect ~> ap_connect

\* It does, unless the attempt that was due was left to a page of the web server: the events,
\* the timer and the console's scan never leave it to each other.
ReconnectsUnlessLeft == ~ap_connect ~> (ap_connect \/ deferred)
=============================================================================
