------------------------------ MODULE VpnTunnel ------------------------------
(***************************************************************************)
(* The WireGuard tunnel over PPPoE: main/vpn_manager.c with the parts of   *)
(* pppoe_manager.c, eth_event_handler() and the kill switch of             *)
(* netif_hooks.c that share its state.  The VPN is enabled, in route-all   *)
(* mode and with the kill switch on (vpn_enabled = vpn_route_all =         *)
(* vpn_killswitch = 1).                                                    *)
(*                                                                         *)
(* Three threads write the default route, the path MTU and the flags       *)
(* without a lock: the monitor task (mon), lwIP's tcpip thread in the      *)
(* PPPoE status callback (tcp), and the event task in pppoe_stop() (evt).  *)
(* The tcpip thread also forwards the clients' packets, so none is routed  *)
(* while it is inside a callback.  The library itself is external; its     *)
(* calls may fail.  The port maps are left out.                            *)
(***************************************************************************)
EXTENDS Naturals

CONSTANTS
    MaxDrops,      \* bound: PPPoE sessions, or attempts at one, that end
    MaxFailures,   \* bound: a call of the WireGuard library fails
    MaxPeerLosses  \* bound: the WireGuard peer stops answering

ASSUME TunnelAssumption ==
    MaxDrops \in Nat /\ MaxFailures \in Nat /\ MaxPeerLosses \in Nat

VARIABLES
    session,       \* lwIP has a PPPoE session
    connected,     \* pppoe_connected
    upBit,         \* WIFI_CONNECTED_BIT
    refused,       \* the login was refused: nobody dials before the next link event
    pmtu,          \* ap_pmtu and ap_mss_clamp: 0, or what fits PPPoE or the tunnel
    defRoute,      \* lwIP's default netif
    wgInit,        \* wg_initialized
    wgNetif,       \* wg_ctx.netif /= NULL
    peer,          \* esp_wireguardif_peer_is_up()
    vpn,           \* vpn_connected
    tcp, evt, mon, \* where each thread is
    seen,          \* vpn_disconnect(): pppoe_connected as it was read
    again,         \* vpn_disconnect() is followed by vpn_connect()
    exposed,       \* the tunnel missed the default route: esp_wireguard_set_default()
                   \* failed, or a session took it before vpn_connected was set
    drops, failures, peerLosses

pppVars   == <<session, connected, upBit, refused>>
netVars   == <<pmtu, defRoute>>
wgVars    == <<wgInit, wgNetif, peer, vpn>>
monVars   == <<mon, seen, again>>
boundVars == <<drops, failures, peerLosses>>
vars == <<pppVars, netVars, wgVars, tcp, evt, monVars, exposed, boundVars>>

Init ==
    /\ session = FALSE /\ connected = FALSE /\ upBit = FALSE /\ refused = FALSE
    /\ pmtu = "tunnel" /\ defRoute = "none"
    /\ wgInit = FALSE /\ wgNetif = FALSE /\ peer = FALSE /\ vpn = FALSE
    /\ tcp = "idle" /\ evt = "idle"
    /\ mon = "wait" /\ seen = FALSE /\ again = FALSE
    /\ exposed = FALSE
    /\ drops = 0 /\ failures = 0 /\ peerLosses = 0

\* vpn_is_connected()
IsConnected == wgInit /\ vpn /\ wgNetif /\ peer

\* The condition of vpn_reassert_default_route().
Reassertable == wgInit /\ wgNetif /\ vpn

\* vpn_reassert_default_route(); the outcome of the call is not looked at.
Reassert ==
    \/ Reassertable /\ defRoute' = "tunnel" /\ exposed' = FALSE /\ UNCHANGED failures
    \/ /\ Reassertable /\ failures < MaxFailures
       /\ failures' = failures + 1 /\ exposed' = TRUE
       /\ UNCHANGED defRoute
    \/ /\ ~Reassertable
       /\ exposed' = (exposed \/ mon \in {"mtu", "flag"})
       /\ UNCHANGED <<defRoute, failures>>

-----------------------------------------------------------------------------
(* The tcpip thread: ppp_link_status_cb().                                 *)

\* PPPERR_NONE: flags and path MTU first ...
UpFlags ==
    /\ tcp = "idle" /\ ~session /\ ~refused
    /\ session' = TRUE /\ connected' = TRUE
    /\ pmtu' = "pppoe"
    /\ tcp' = "upRoute"
    /\ UNCHANGED <<upBit, refused, defRoute, wgVars, evt, monVars, exposed, boundVars>>

\* ... then netif_set_default(&ppp_netif) ...
UpRoute ==
    /\ tcp = "upRoute"
    /\ defRoute' = "pppoe"
    /\ tcp' = "upReassert"
    /\ UNCHANGED <<pppVars, pmtu, wgVars, evt, monVars, exposed, boundVars>>

\* Mutant: the tunnel does not get the default route back.
MutUpReassert ==
    /\ tcp = "upReassert"
    /\ tcp' = "upBit"
    /\ UNCHANGED <<pppVars, netVars, wgVars, evt, monVars, exposed, boundVars>>

\* ... the tunnel, if there is one, gets the default route back ...
UpReassert ==
    /\ tcp = "upReassert"
    /\ Reassert
    /\ tcp' = "upBit"
    /\ UNCHANGED <<pppVars, pmtu, wgVars, evt, monVars, drops, peerLosses>>

\* ... and the monitor is told.
UpBit ==
    /\ tcp = "upBit"
    /\ upBit' = TRUE
    /\ tcp' = "idle"
    /\ UNCHANGED <<session, connected, refused, netVars, wgVars, evt, monVars, exposed, boundVars>>

\* handle_disconnect: a session is lost, or an attempt at one fails.
DownFlags ==
    /\ tcp = "idle" /\ ~refused /\ drops < MaxDrops
    /\ drops' = drops + 1
    /\ session' = FALSE /\ connected' = FALSE
    /\ pmtu' = "none"
    /\ tcp' = "downRoute"
    /\ UNCHANGED <<upBit, refused, defRoute, wgVars, evt, monVars, exposed, failures, peerLosses>>

DownRoute ==
    /\ tcp = "downRoute"
    /\ defRoute' = "none"
    /\ tcp' = "downBit"
    /\ UNCHANGED <<pppVars, pmtu, wgVars, evt, monVars, exposed, boundVars>>

DownBit ==
    /\ tcp = "downBit"
    /\ upBit' = FALSE
    /\ tcp' = "idle"
    /\ UNCHANGED <<session, connected, refused, netVars, wgVars, evt, monVars, exposed, boundVars>>

\* PPPERR_AUTHFAIL for a session that was up: it is gone, but the monitor is not
\* told, and nobody dials again before the next link event.  (PppoeSession has the
\* reconnect task of an earlier loss that may still be asleep.)
LoginRefused ==
    /\ tcp = "idle" /\ session /\ drops < MaxDrops
    /\ drops' = drops + 1
    /\ session' = FALSE /\ connected' = FALSE /\ refused' = TRUE
    /\ UNCHANGED <<upBit, netVars, wgVars, tcp, evt, monVars, exposed, failures, peerLosses>>

-----------------------------------------------------------------------------
(* The event task: link down, pppoe_stop().                                *)

StopFlags ==
    /\ evt = "idle" /\ drops < MaxDrops
    /\ drops' = drops + 1
    /\ connected' = FALSE /\ pmtu' = "none"
    /\ evt' = "close"
    /\ UNCHANGED <<session, upBit, refused, defRoute, wgVars, tcp, monVars, exposed, failures, peerLosses>>

\* pppapi_close() runs in the tcpip thread; ppp_netif is removed.
StopClose ==
    /\ evt = "close" /\ tcp = "idle"
    /\ session' = FALSE
    /\ defRoute' \in IF defRoute /= "pppoe" THEN {defRoute}
                     ELSE IF session THEN {"none"} ELSE {"none", "pppoe"}
    /\ evt' = "bit"
    /\ UNCHANGED <<connected, upBit, refused, pmtu, wgVars, tcp, monVars, exposed, boundVars>>

\* The link event that brings the cable back dials again.
StopBit ==
    /\ evt = "bit"
    /\ upBit' = FALSE /\ refused' = FALSE
    /\ evt' = "idle"
    /\ UNCHANGED <<session, connected, netVars, wgVars, tcp, monVars, exposed, boundVars>>

-----------------------------------------------------------------------------
(* vpn_connect()                                                           *)

MonGoto(l) == mon' = l /\ UNCHANGED <<seen, again>>

Fails ==
    /\ failures < MaxFailures
    /\ failures' = failures + 1
    /\ MonGoto("sleep")
    /\ UNCHANGED <<drops, peerLosses>>

WgInit ==
    /\ mon = "init"
    /\ \/ Fails /\ UNCHANGED wgInit
       \/ wgInit' = TRUE /\ MonGoto("connect") /\ UNCHANGED boundVars
    /\ UNCHANGED <<pppVars, netVars, wgNetif, peer, vpn, tcp, evt, exposed>>

\* "Reset so next attempt does a clean init"
WgConnect ==
    /\ mon = "connect"
    /\ \/ Fails /\ wgInit' = FALSE /\ UNCHANGED wgNetif
       \/ wgNetif' = TRUE /\ MonGoto("route") /\ UNCHANGED <<wgInit, boundVars>>
    /\ UNCHANGED <<pppVars, netVars, peer, vpn, tcp, evt, exposed>>

\* esp_wireguard_set_default(): a failure is logged, no more.
ConnectRoute ==
    /\ mon = "route"
    /\ \/ defRoute' = "tunnel" /\ UNCHANGED <<exposed, failures>>
       \/ /\ failures < MaxFailures
          /\ failures' = failures + 1 /\ exposed' = TRUE
          /\ UNCHANGED defRoute
    /\ MonGoto("mtu")
    /\ UNCHANGED <<pppVars, pmtu, wgVars, tcp, evt, drops, peerLosses>>

ConnectMtu ==
    /\ mon = "mtu"
    /\ pmtu' = "tunnel"
    /\ MonGoto("flag")
    /\ UNCHANGED <<pppVars, defRoute, wgVars, tcp, evt, exposed, boundVars>>

ConnectFlag ==
    /\ mon = "flag"
    /\ vpn' = TRUE
    /\ MonGoto("sleep")
    /\ UNCHANGED <<pppVars, netVars, wgInit, wgNetif, peer, tcp, evt, exposed, boundVars>>

-----------------------------------------------------------------------------
(* vpn_disconnect()                                                        *)

\* Mutant: the flag is not cleared first.
MutDisconnectFlag ==
    /\ mon = "disconnect"
    /\ exposed' = FALSE
    /\ MonGoto("readUplink")
    /\ UNCHANGED <<pppVars, netVars, wgVars, tcp, evt, boundVars>>

\* "Set vpn_connected false FIRST"
DisconnectFlag ==
    /\ mon = "disconnect"
    /\ vpn' = FALSE /\ exposed' = FALSE
    /\ MonGoto("readUplink")
    /\ UNCHANGED <<pppVars, netVars, wgInit, wgNetif, peer, tcp, evt, boundVars>>

\* pppoe_connected is read, and the path MTU written after that.
ReadUplink ==
    /\ mon = "readUplink"
    /\ seen' = connected
    /\ mon' = "restoreMtu"
    /\ UNCHANGED <<pppVars, netVars, wgVars, tcp, evt, again, exposed, boundVars>>

RestoreMtu ==
    /\ mon = "restoreMtu"
    /\ pmtu' = IF seen THEN "pppoe" ELSE "none"
    /\ MonGoto(IF wgInit THEN "shutdown" ELSE "after")
    /\ UNCHANGED <<pppVars, defRoute, wgVars, tcp, evt, exposed, boundVars>>

\* esp_wireguard_disconnect(): the tunnel's netif is gone; the library may give
\* the default route to the netif that had it before.
WgShutdown ==
    /\ mon = "shutdown"
    /\ wgInit' = FALSE /\ wgNetif' = FALSE /\ peer' = FALSE
    /\ defRoute' \in {IF defRoute = "tunnel" THEN "none" ELSE defRoute, "pppoe", "none"}
    /\ MonGoto("after")
    /\ UNCHANGED <<pppVars, pmtu, vpn, tcp, evt, exposed, boundVars>>

-----------------------------------------------------------------------------
(* vpn_monitor_task()                                                      *)

\* The bit is set, and then the clock is waited for, for 30 s at most.
WaitUplink ==
    /\ mon = "wait" /\ upBit
    /\ MonGoto("sntp")
    /\ UNCHANGED <<pppVars, netVars, wgVars, tcp, evt, exposed, boundVars>>

WaitSntp ==
    /\ mon = "sntp"
    /\ MonGoto("init")
    /\ UNCHANGED <<pppVars, netVars, wgVars, tcp, evt, exposed, boundVars>>

\* Mutant: the event bit is not looked at any more.
MutCheckUplink ==
    /\ mon = "sleep"
    /\ MonGoto("health")
    /\ UNCHANGED <<pppVars, netVars, wgVars, tcp, evt, exposed, boundVars>>

\* Every 15 s: is PPPoE still up ...
CheckUplink ==
    /\ mon = "sleep"
    /\ IF upBit THEN MonGoto("health")
       ELSE mon' = "disconnect" /\ again' = FALSE /\ UNCHANGED seen
    /\ UNCHANGED <<pppVars, netVars, wgVars, tcp, evt, exposed, boundVars>>

\* ... and does the peer answer?
CheckHealth ==
    /\ mon = "health"
    /\ IF IsConnected THEN MonGoto("reassert")
       ELSE mon' = "disconnect" /\ again' = TRUE /\ UNCHANGED seen
    /\ UNCHANGED <<pppVars, netVars, wgVars, tcp, evt, exposed, boundVars>>

\* Mutant: a healthy tunnel is left alone.
MutHealthyReassert ==
    /\ mon = "reassert"
    /\ MonGoto("sleep")
    /\ UNCHANGED <<pppVars, netVars, wgVars, tcp, evt, exposed, boundVars>>

\* vpn_reassert_default_route(), for a healthy tunnel.
HealthyReassert ==
    /\ mon = "reassert"
    /\ Reassert
    /\ MonGoto("sleep")
    /\ UNCHANGED <<pppVars, pmtu, wgVars, tcp, evt, drops, peerLosses>>

\* Mutant: a failed tunnel is not dialled again.
MutAfter ==
    /\ mon = "after"
    /\ MonGoto(IF again THEN "sleep" ELSE "wait")
    /\ UNCHANGED <<pppVars, netVars, wgVars, tcp, evt, exposed, boundVars>>

\* After vpn_disconnect(): another try in 2 s, or back to waiting.
After ==
    /\ mon = "after"
    /\ MonGoto(IF again THEN "init" ELSE "wait")
    /\ UNCHANGED <<pppVars, netVars, wgVars, tcp, evt, exposed, boundVars>>

-----------------------------------------------------------------------------
(* The WireGuard peer (external).                                          *)

PeerUp ==
    /\ wgNetif /\ ~peer /\ session
    /\ peer' = TRUE
    /\ UNCHANGED <<pppVars, netVars, wgInit, wgNetif, vpn, tcp, evt, monVars, exposed, boundVars>>

PeerDown ==
    /\ peer /\ peerLosses < MaxPeerLosses
    /\ peer' = FALSE /\ peerLosses' = peerLosses + 1
    /\ UNCHANGED <<pppVars, netVars, wgInit, wgNetif, vpn, tcp, evt, monVars, exposed, drops, failures>>

-----------------------------------------------------------------------------
Callback == UpRoute \/ UpReassert \/ UpBit \/ DownRoute \/ DownBit

Stop == StopClose \/ StopBit

Monitor ==
    \/ WaitUplink \/ WaitSntp \/ WgInit \/ WgConnect
    \/ ConnectRoute \/ ConnectMtu \/ ConnectFlag
    \/ CheckUplink \/ CheckHealth \/ HealthyReassert
    \/ DisconnectFlag \/ ReadUplink \/ RestoreMtu \/ WgShutdown \/ After

Next ==
    \/ UpFlags \/ DownFlags \/ LoginRefused \/ StopFlags
    \/ Callback \/ Stop \/ Monitor
    \/ PeerUp \/ PeerDown

Spec == Init /\ [][Next]_vars

\* Every thread that has something to do does it.  The monitor sleeps for 15 s, the
\* time of three handshakes: a peer that can be reached again and again during its
\* sleep answers in one of them.  No session has to come up or to end.
Fairness ==
    /\ WF_vars(Callback) /\ WF_vars(Stop) /\ WF_vars(Monitor)
    /\ SF_vars(mon = "sleep" /\ PeerUp)

FairSpec == Spec /\ Fairness
-----------------------------------------------------------------------------
(* Properties.                                                             *)

MonPcs == {"wait", "sntp", "init", "connect", "route", "mtu", "flag", "sleep", "health",
           "reassert", "disconnect", "readUplink", "restoreMtu", "shutdown", "after"}

UplinkTypes ==
    /\ session \in BOOLEAN /\ connected \in BOOLEAN /\ upBit \in BOOLEAN
    /\ refused \in BOOLEAN
    /\ pmtu \in {"none", "pppoe", "tunnel"} /\ defRoute \in {"none", "pppoe", "tunnel"}
    /\ tcp \in {"idle", "upRoute", "upReassert", "upBit", "downRoute", "downBit"}
    /\ evt \in {"idle", "close", "bit"}

TunnelTypes ==
    /\ wgInit \in BOOLEAN /\ wgNetif \in BOOLEAN /\ peer \in BOOLEAN /\ vpn \in BOOLEAN
    /\ mon \in MonPcs
    /\ seen \in BOOLEAN /\ again \in BOOLEAN /\ exposed \in BOOLEAN

\* Types; the hooks may follow wg_ctx.netif whenever vpn_connected is set.
TypeOK ==
    /\ UplinkTypes /\ TunnelTypes
    /\ drops \in Nat /\ failures \in Nat /\ peerLosses \in Nat
    /\ vpn => wgInit /\ wgNetif

\* The kill switch of ap_netif_input_hook() lets a client's packet pass, and the
\* tcpip thread would route it past the tunnel.
Leaking == IsConnected /\ tcp = "idle" /\ defRoute = "pppoe"

\* Whatever comes up, drops or is torn down: a packet that passes the kill switch
\* finds no default route past the tunnel, unless the tunnel missed the route when
\* it came up.
ProtectedUnlessExposed == Leaking => exposed

\* A leak that got through nevertheless is closed by a health check.
LeakEnds == Leaking ~> ~Leaking

\* With a session that stays, and the monitor told of it, the tunnel comes up and
\* stays, whatever failed before.  WIFI_CONNECTED_BIT alone does not promise a
\* session: a login that is refused in mid-session leaves it set.
TunnelReturns == (<>[](session /\ upBit)) => <>[]IsConnected

\* Without an uplink no tunnel is left behind.
TornDown == (<>[]~upBit) => <>[](~wgInit /\ ~wgNetif /\ ~vpn)

AtRest == tcp = "idle" /\ evt = "idle" /\ mon = "sleep"

\* "MTU and MSS are adjusted automatically to account for WireGuard overhead": what
\* is announced to the clients fits the tunnel that their packets take, once the
\* session and the tunnel are up and every thread is at rest.
MtuFitsTunnel ==
    AtRest /\ upBit /\ connected /\ IsConnected /\ defRoute = "tunnel" => pmtu = "tunnel"
=============================================================================
