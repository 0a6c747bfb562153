--------------------------- MODULE VpnTunnelProofs ---------------------------
(***************************************************************************)
(* For every number of drops, failures and peer losses: type correctness,  *)
(* and the promise of the kill switch (ProtectedUnlessExposed).            *)
(*                                                                         *)
(* The promise is not inductive.  RouteInv says it of the states in which  *)
(* the kill switch still blocks as well: from esp_wireguard_set_default()  *)
(* on, the default route passes the tunnel by only until the status        *)
(* callback gives it back.  TunnelPcs says where the monitor can be while  *)
(* there is a tunnel.                                                      *)
(***************************************************************************)
EXTENDS VpnTunnel, TLAPS

TunnelPcs ==
    /\ vpn => wgInit /\ wgNetif
    /\ mon = "connect" => wgInit
    /\ mon \in {"route", "mtu", "flag"} => wgInit /\ wgNetif
    /\ vpn => mon \in {"sleep", "health", "reassert", "disconnect"}

RouteInv ==
    (vpn \/ mon \in {"mtu", "flag"}) /\ defRoute = "pppoe" => exposed \/ tcp = "upReassert"

Counts == drops \in Nat /\ failures \in Nat /\ peerLosses \in Nat

IInv == UplinkTypes /\ TunnelTypes /\ Counts /\ TunnelPcs /\ RouteInv

-----------------------------------------------------------------------------
LEMMA InitInv == Init => IInv
  <1> SUFFICES ASSUME Init PROVE IInv
    OBVIOUS
  <1> USE DEF Init
  <1>1. UplinkTypes  BY DEF UplinkTypes
  <1>2. TunnelTypes  BY DEF TunnelTypes, MonPcs
  <1>3. Counts       BY DEF Counts
  <1>4. TunnelPcs    BY DEF TunnelPcs
  <1>5. RouteInv     BY DEF RouteInv
  <1> QED BY <1>1, <1>2, <1>3, <1>4, <1>5 DEF IInv

\* vpn_reassert_default_route() leaves no tunnel without the default route unnoticed.
LEMMA ReassertInv ==
    ASSUME IInv, Reassert
    PROVE  /\ defRoute' \in {"none", "pppoe", "tunnel"} /\ exposed' \in BOOLEAN
           /\ failures' \in Nat
           /\ (vpn \/ mon \in {"mtu", "flag"}) /\ defRoute' = "pppoe" => exposed'
  <1> USE DEF IInv, UplinkTypes, TunnelTypes, Counts
  <1>1. CASE Reassertable /\ defRoute' = "tunnel" /\ exposed' = FALSE /\ UNCHANGED failures
    BY <1>1
  <1>2. CASE failures' = failures + 1 /\ exposed' = TRUE /\ UNCHANGED defRoute
    BY <1>2
  <1>3. CASE ~Reassertable /\ UNCHANGED <<defRoute, failures>>
             /\ exposed' = (exposed \/ mon \in {"mtu", "flag"})
    <2>1. ~vpn
      BY <1>3 DEF Reassertable, TunnelPcs
    <2> QED BY <1>3, <2>1
  <1> QED BY <1>1, <1>2, <1>3 DEF Reassert

LEMMA CallbackInv ==
    ASSUME IInv, UpFlags \/ DownFlags \/ LoginRefused \/ Callback
    PROVE  IInv'
  <1> USE DEF IInv, UplinkTypes, TunnelTypes, Counts, MonPcs, TunnelPcs, RouteInv,
              pppVars, netVars, wgVars, monVars, boundVars
  <1>1. CASE UpFlags
    <2>1. UplinkTypes' BY <1>1 DEF UpFlags
    <2>2. TunnelTypes' BY <1>1 DEF UpFlags
    <2>3. Counts'      BY <1>1 DEF UpFlags
    <2>4. TunnelPcs'   BY <1>1 DEF UpFlags
    <2>5. RouteInv'    BY <1>1 DEF UpFlags
    <2> QED BY <2>1, <2>2, <2>3, <2>4, <2>5
  <1>2. CASE DownFlags
    <2>1. UplinkTypes' BY <1>2 DEF DownFlags
    <2>2. TunnelTypes' BY <1>2 DEF DownFlags
    <2>3. Counts'      BY <1>2 DEF DownFlags
    <2>4. TunnelPcs'   BY <1>2 DEF DownFlags
    <2>5. RouteInv'    BY <1>2 DEF DownFlags
    <2> QED BY <2>1, <2>2, <2>3, <2>4, <2>5
  <1>3. CASE UpRoute
    <2>1. UplinkTypes' BY <1>3 DEF UpRoute
    <2>2. TunnelTypes' BY <1>3 DEF UpRoute
    <2>3. Counts'      BY <1>3 DEF UpRoute
    <2>4. TunnelPcs'   BY <1>3 DEF UpRoute
    <2>5. RouteInv'    BY <1>3 DEF UpRoute
    <2> QED BY <2>1, <2>2, <2>3, <2>4, <2>5
  <1>4. CASE UpReassert
    <2>1. UplinkTypes' BY <1>4, ReassertInv DEF UpReassert
    <2>2. TunnelTypes' BY <1>4, ReassertInv DEF UpReassert
    <2>3. Counts'      BY <1>4, ReassertInv DEF UpReassert
    <2>4. TunnelPcs'   BY <1>4 DEF UpReassert
    <2>5. RouteInv'    BY <1>4, ReassertInv DEF UpReassert
    <2> QED BY <2>1, <2>2, <2>3, <2>4, <2>5
  <1>5. CASE UpBit
    <2>1. UplinkTypes' BY <1>5 DEF UpBit
    <2>2. TunnelTypes' BY <1>5 DEF UpBit
    <2>3. Counts'      BY <1>5 DEF UpBit
    <2>4. TunnelPcs'   BY <1>5 DEF UpBit
    <2>5. RouteInv'    BY <1>5 DEF UpBit
    <2> QED BY <2>1, <2>2, <2>3, <2>4, <2>5
  <1>6. CASE DownRoute
    <2>1. UplinkTypes' BY <1>6 DEF DownRoute
    <2>2. TunnelTypes' BY <1>6 DEF DownRoute
    <2>3. Counts'      BY <1>6 DEF DownRoute
    <2>4. TunnelPcs'   BY <1>6 DEF DownRoute
    <2>5. RouteInv'    BY <1>6 DEF DownRoute
    <2> QED BY <2>1, <2>2, <2>3, <2>4, <2>5
  <1>7. CASE DownBit
    <2>1. UplinkTypes' BY <1>7 DEF DownBit
    <2>2. TunnelTypes' BY <1>7 DEF DownBit
    <2>3. Counts'      BY <1>7 DEF DownBit
    <2>4. TunnelPcs'   BY <1>7 DEF DownBit
    <2>5. RouteInv'    BY <1>7 DEF DownBit
    <2> QED BY <2>1, <2>2, <2>3, <2>4, <2>5
  <1>8. CASE LoginRefused
    <2>1. UplinkTypes' BY <1>8 DEF LoginRefused
    <2>2. TunnelTypes' BY <1>8 DEF LoginRefused
    <2>3. Counts' BY <1>8 DEF LoginRefused
    <2>4. TunnelPcs' BY <1>8 DEF LoginRefused
    <2>5. RouteInv' BY <1>8 DEF LoginRefused
    <2> QED BY <2>1, <2>2, <2>3, <2>4, <2>5
  <1> QED BY <1>1, <1>2, <1>3, <1>4, <1>5, <1>6, <1>7, <1>8 DEF Callback

LEMMA StopInv ==
    ASSUME IInv, StopFlags \/ Stop
    PROVE  IInv'
  <1> USE DEF IInv, UplinkTypes, TunnelTypes, Counts, MonPcs, TunnelPcs, RouteInv,
              pppVars, netVars, wgVars, monVars, boundVars
  <1>1. CASE StopFlags
    <2>1. UplinkTypes' BY <1>1 DEF StopFlags
    <2>2. TunnelTypes' BY <1>1 DEF StopFlags
    <2>3. Counts'      BY <1>1 DEF StopFlags
    <2>4. TunnelPcs'   BY <1>1 DEF StopFlags
    <2>5. RouteInv'    BY <1>1 DEF StopFlags
    <2> QED BY <2>1, <2>2, <2>3, <2>4, <2>5
  <1>2. CASE StopClose
    <2>1. defRoute' \in {"none", "pppoe", "tunnel"} /\ (defRoute' = "pppoe" => defRoute = "pppoe")
      BY <1>2 DEF StopClose
    <2>2. UplinkTypes' BY <1>2, <2>1 DEF StopClose
    <2>3. TunnelTypes' BY <1>2 DEF StopClose
    <2>4. Counts'      BY <1>2 DEF StopClose
    <2>5. TunnelPcs'   BY <1>2 DEF StopClose
    <2>6. RouteInv'    BY <1>2, <2>1 DEF StopClose
    <2> QED BY <2>2, <2>3, <2>4, <2>5, <2>6
  <1>3. CASE StopBit
    <2>1. UplinkTypes' BY <1>3 DEF StopBit
    <2>2. TunnelTypes' BY <1>3 DEF StopBit
    <2>3. Counts'      BY <1>3 DEF StopBit
    <2>4. TunnelPcs'   BY <1>3 DEF StopBit
    <2>5. RouteInv'    BY <1>3 DEF StopBit
    <2> QED BY <2>1, <2>2, <2>3, <2>4, <2>5
  <1> QED BY <1>1, <1>2, <1>3 DEF Stop

\* vpn_connect()
LEMMA ConnectInv ==
    ASSUME IInv, WgInit \/ WgConnect \/ ConnectRoute \/ ConnectMtu \/ ConnectFlag
    PROVE  IInv'
  <1> USE DEF IInv, UplinkTypes, TunnelTypes, Counts, MonPcs, TunnelPcs, RouteInv, MonGoto, Fails,
              pppVars, netVars, wgVars, monVars, boundVars
  <1>1. CASE WgInit
    <2>1. UplinkTypes' BY <1>1 DEF WgInit
    <2>2. TunnelTypes' BY <1>1 DEF WgInit
    <2>3. Counts'      BY <1>1 DEF WgInit
    <2>4. TunnelPcs'   BY <1>1 DEF WgInit
    <2>5. RouteInv'    BY <1>1 DEF WgInit
    <2> QED BY <2>1, <2>2, <2>3, <2>4, <2>5
  <1>2. CASE WgConnect
    <2>1. UplinkTypes' BY <1>2 DEF WgConnect
    <2>2. TunnelTypes' BY <1>2 DEF WgConnect
    <2>3. Counts'
      <3>1. CASE Fails                BY <3>1, <1>2 DEF WgConnect
      <3>2. CASE UNCHANGED boundVars BY <3>2
      <3> QED BY <1>2, <3>1, <3>2 DEF WgConnect
    <2>4. TunnelPcs'   BY <1>2 DEF WgConnect
    <2>5. RouteInv'    BY <1>2 DEF WgConnect
    <2> QED BY <2>1, <2>2, <2>3, <2>4, <2>5
  <1>3. CASE ConnectRoute
    <2>1. UplinkTypes' BY <1>3 DEF ConnectRoute
    <2>2. TunnelTypes' BY <1>3 DEF ConnectRoute
    <2>3. Counts'      BY <1>3 DEF ConnectRoute
    <2>4. TunnelPcs'   BY <1>3 DEF ConnectRoute
    <2>5. RouteInv'    BY <1>3 DEF ConnectRoute
    <2> QED BY <2>1, <2>2, <2>3, <2>4, <2>5
  <1>4. CASE ConnectMtu
    <2>1. UplinkTypes' BY <1>4 DEF ConnectMtu
    <2>2. TunnelTypes' BY <1>4 DEF ConnectMtu
    <2>3. Counts'      BY <1>4 DEF ConnectMtu
    <2>4. TunnelPcs'   BY <1>4 DEF ConnectMtu
    <2>5. RouteInv'    BY <1>4 DEF ConnectMtu
    <2> QED BY <2>1, <2>2, <2>3, <2>4, <2>5
  <1>5. CASE ConnectFlag
    <2>1. UplinkTypes' BY <1>5 DEF ConnectFlag
    <2>2. TunnelTypes' BY <1>5 DEF ConnectFlag
    <2>3. Counts'      BY <1>5 DEF ConnectFlag
    <2>4. TunnelPcs'   BY <1>5 DEF ConnectFlag
    <2>5. RouteInv'    BY <1>5 DEF ConnectFlag
    <2> QED BY <2>1, <2>2, <2>3, <2>4, <2>5
  <1> QED BY <1>1, <1>2, <1>3, <1>4, <1>5

\* vpn_disconnect()
LEMMA DisconnectInv ==
    ASSUME IInv, DisconnectFlag \/ ReadUplink \/ RestoreMtu \/ WgShutdown \/ After
    PROVE  IInv'
  <1> USE DEF IInv, UplinkTypes, TunnelTypes, Counts, MonPcs, TunnelPcs, RouteInv, MonGoto,
              pppVars, netVars, wgVars, monVars, boundVars
  <1>1. CASE DisconnectFlag
    <2>1. UplinkTypes' BY <1>1 DEF DisconnectFlag
    <2>2. TunnelTypes' BY <1>1 DEF DisconnectFlag
    <2>3. Counts'      BY <1>1 DEF DisconnectFlag
    <2>4. TunnelPcs'   BY <1>1 DEF DisconnectFlag
    <2>5. RouteInv'    BY <1>1 DEF DisconnectFlag
    <2> QED BY <2>1, <2>2, <2>3, <2>4, <2>5
  <1>2. CASE ReadUplink
    <2>1. UplinkTypes' BY <1>2 DEF ReadUplink
    <2>2. TunnelTypes' BY <1>2 DEF ReadUplink
    <2>3. Counts'      BY <1>2 DEF ReadUplink
    <2>4. TunnelPcs'   BY <1>2 DEF ReadUplink
    <2>5. RouteInv'    BY <1>2 DEF ReadUplink
    <2> QED BY <2>1, <2>2, <2>3, <2>4, <2>5
  <1>3. CASE RestoreMtu
    <2>1. UplinkTypes' BY <1>3 DEF RestoreMtu
    <2>2. TunnelTypes' BY <1>3 DEF RestoreMtu
    <2>3. Counts'      BY <1>3 DEF RestoreMtu
    <2>4. TunnelPcs'   BY <1>3 DEF RestoreMtu
    <2>5. RouteInv'    BY <1>3 DEF RestoreMtu
    <2> QED BY <2>1, <2>2, <2>3, <2>4, <2>5
  <1>4. CASE WgShutdown
    <2>1. UplinkTypes' BY <1>4 DEF WgShutdown
    <2>2. TunnelTypes' BY <1>4 DEF WgShutdown
    <2>3. Counts'      BY <1>4 DEF WgShutdown
    <2>4. TunnelPcs'   BY <1>4 DEF WgShutdown
    <2>5. RouteInv'    BY <1>4 DEF WgShutdown
    <2> QED BY <2>1, <2>2, <2>3, <2>4, <2>5
  <1>5. CASE After
    <2>1. UplinkTypes' BY <1>5 DEF After
    <2>2. TunnelTypes' BY <1>5 DEF After
    <2>3. Counts'      BY <1>5 DEF After
    <2>4. TunnelPcs'   BY <1>5 DEF After
    <2>5. RouteInv'    BY <1>5 DEF After
    <2> QED BY <2>1, <2>2, <2>3, <2>4, <2>5
  <1> QED BY <1>1, <1>2, <1>3, <1>4, <1>5

\* The loop of vpn_monitor_task(), and the peer.
LEMMA MonitorInv ==
    ASSUME IInv,
           \/ WaitUplink \/ WaitSntp \/ CheckUplink \/ CheckHealth \/ HealthyReassert
           \/ PeerUp \/ PeerDown
    PROVE  IInv'
  <1> USE DEF IInv, UplinkTypes, TunnelTypes, Counts, MonPcs, TunnelPcs, RouteInv, MonGoto,
              pppVars, netVars, wgVars, monVars, boundVars
  <1>1. CASE WaitUplink
    <2>1. UplinkTypes' BY <1>1 DEF WaitUplink
    <2>2. TunnelTypes' BY <1>1 DEF WaitUplink
    <2>3. Counts'      BY <1>1 DEF WaitUplink
    <2>4. TunnelPcs'   BY <1>1 DEF WaitUplink
    <2>5. RouteInv'    BY <1>1 DEF WaitUplink
    <2> QED BY <2>1, <2>2, <2>3, <2>4, <2>5
  <1>2. CASE WaitSntp
    <2>1. UplinkTypes' BY <1>2 DEF WaitSntp
    <2>2. TunnelTypes' BY <1>2 DEF WaitSntp
    <2>3. Counts'      BY <1>2 DEF WaitSntp
    <2>4. TunnelPcs'   BY <1>2 DEF WaitSntp
    <2>5. RouteInv'    BY <1>2 DEF WaitSntp
    <2> QED BY <2>1, <2>2, <2>3, <2>4, <2>5
  <1>3. CASE CheckUplink
    <2>1. UplinkTypes' BY <1>3 DEF CheckUplink
    <2>2. TunnelTypes' BY <1>3 DEF CheckUplink
    <2>3. Counts'      BY <1>3 DEF CheckUplink
    <2>4. TunnelPcs'   BY <1>3 DEF CheckUplink
    <2>5. RouteInv'    BY <1>3 DEF CheckUplink
    <2> QED BY <2>1, <2>2, <2>3, <2>4, <2>5
  <1>4. CASE CheckHealth
    <2>1. UplinkTypes' BY <1>4 DEF CheckHealth
    <2>2. TunnelTypes' BY <1>4 DEF CheckHealth
    <2>3. Counts'      BY <1>4 DEF CheckHealth
    <2>4. TunnelPcs'   BY <1>4 DEF CheckHealth
    <2>5. RouteInv'    BY <1>4 DEF CheckHealth
    <2> QED BY <2>1, <2>2, <2>3, <2>4, <2>5
  <1>5. CASE HealthyReassert
    <2>1. UplinkTypes' BY <1>5, ReassertInv DEF HealthyReassert
    <2>2. TunnelTypes' BY <1>5, ReassertInv DEF HealthyReassert
    <2>3. Counts'      BY <1>5, ReassertInv DEF HealthyReassert
    <2>4. TunnelPcs'   BY <1>5 DEF HealthyReassert
    <2>5. RouteInv'    BY <1>5, ReassertInv DEF HealthyReassert
    <2> QED BY <2>1, <2>2, <2>3, <2>4, <2>5
  <1>6. CASE PeerUp
    <2>1. UplinkTypes' BY <1>6 DEF PeerUp
    <2>2. TunnelTypes' BY <1>6 DEF PeerUp
    <2>3. Counts'      BY <1>6 DEF PeerUp
    <2>4. TunnelPcs'   BY <1>6 DEF PeerUp
    <2>5. RouteInv'    BY <1>6 DEF PeerUp
    <2> QED BY <2>1, <2>2, <2>3, <2>4, <2>5
  <1>7. CASE PeerDown
    <2>1. UplinkTypes' BY <1>7 DEF PeerDown
    <2>2. TunnelTypes' BY <1>7 DEF PeerDown
    <2>3. Counts'      BY <1>7 DEF PeerDown
    <2>4. TunnelPcs'   BY <1>7 DEF PeerDown
    <2>5. RouteInv'    BY <1>7 DEF PeerDown
    <2> QED BY <2>1, <2>2, <2>3, <2>4, <2>5
  <1> QED BY <1>1, <1>2, <1>3, <1>4, <1>5, <1>6, <1>7

LEMMA StepInv == IInv /\ [Next]_vars => IInv'
  <1> SUFFICES ASSUME IInv, [Next]_vars PROVE IInv'
    OBVIOUS
  <1>1. CASE UpFlags \/ DownFlags \/ LoginRefused \/ Callback
    BY <1>1, CallbackInv
  <1>2. CASE StopFlags \/ Stop
    BY <1>2, StopInv
  <1>3. CASE WgInit \/ WgConnect \/ ConnectRoute \/ ConnectMtu \/ ConnectFlag
    BY <1>3, ConnectInv
  <1>4. CASE DisconnectFlag \/ ReadUplink \/ RestoreMtu \/ WgShutdown \/ After
    BY <1>4, DisconnectInv
  <1>5. CASE \/ WaitUplink \/ WaitSntp \/ CheckUplink \/ CheckHealth \/ HealthyReassert
             \/ PeerUp \/ PeerDown
    BY <1>5, MonitorInv
  <1>6. CASE UNCHANGED vars
    BY <1>6 DEF IInv, UplinkTypes, TunnelTypes, Counts, MonPcs, TunnelPcs, RouteInv,
                vars, pppVars, netVars, wgVars, monVars, boundVars
  <1> QED BY <1>1, <1>2, <1>3, <1>4, <1>5, <1>6 DEF Next, Monitor

\* The strengthened invariant holds of every behaviour.
THEOREM Invariance == Spec => []IInv
  BY InitInv, StepInv, PTL DEF Spec

\* Every variable keeps its type, and a connected tunnel has its netif.
THEOREM TypeCorrect == Spec => []TypeOK
  <1>1. IInv => TypeOK
    BY DEF IInv, TunnelPcs, Counts, TypeOK
  <1> QED BY <1>1, Invariance, PTL

\* Whatever the session, the cable and the peer do while vpn_connect() and
\* vpn_disconnect() run: what the kill switch lets pass is routed through the tunnel,
\* unless the tunnel missed the default route when it came up.
THEOREM KillSwitch == Spec => []ProtectedUnlessExposed
  <1>1. IInv => ProtectedUnlessExposed
    BY DEF IInv, RouteInv, ProtectedUnlessExposed, Leaking, IsConnected
  <1> QED BY <1>1, Invariance, PTL
=============================================================================
