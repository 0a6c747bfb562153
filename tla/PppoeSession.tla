---------------------------- MODULE PppoeSession ----------------------------
(***************************************************************************)
(* The life cycle of the PPPoE uplink: main/pppoe_manager.c together with  *)
(* the Ethernet part of eth_event_handler() in main/esp32_nat_router.c.    *)
(*                                                                         *)
(* Three kinds of actors share the statics of pppoe_manager.c without a    *)
(* lock:                                                                   *)
(*   - the event-loop task (Evt), which runs eth_event_handler() for every *)
(*     link event and so calls pppoe_start() and pppoe_stop();             *)
(*   - the reconnect tasks (Reconn), one of which is created by every      *)
(*     "disconnect" status callback;                                       *)
(*   - lwIP's tcpip thread, which runs every pppapi_*() call and every     *)
(*     status callback, one at a time: cb holds the callback it is inside. *)
(*                                                                         *)
(* A C statement that touches shared state is a step of its own, except    *)
(* runs of assignments with no call between them.  The callbacks for a new *)
(* and for a lost session take two steps, because pppoe_stop() and the     *)
(* event handler can run between their first assignments and the event bit *)
(* that they set, or clear, at the end.                                    *)
(***************************************************************************)
EXTENDS Naturals, Sequences, FiniteSets

CONSTANTS
    Pcbs,        \* PPP control blocks lwIP can hand out (addresses)
    NoPcb,       \* the NULL pointer
    Evt,         \* the event-loop task
    Reconn,      \* identities for reconnect tasks alive at one time (a bound)
    MaxFlaps,    \* bound: how often the Ethernet carrier changes
    MaxLosses,   \* bound: sessions or discoveries lost while the carrier is up
    MaxAuthFails,\* bound: authentication failures reported by the peer
    CreateMayFail\* whether pppapi_pppoe_create() may run out of memory

Threads == {Evt} \cup Reconn

ASSUME SessionAssumption ==
    /\ NoPcb \notin Pcbs
    /\ Evt \notin Reconn
    /\ MaxFlaps \in Nat /\ MaxLosses \in Nat /\ MaxAuthFails \in Nat
    /\ CreateMayFail \in BOOLEAN

VARIABLES
    carrier,    \* the cable carries a signal
    link,       \* NETIF_FLAG_LINK_UP of the Ethernet netif
    evq,        \* link events posted and not yet dispatched
    flaps, losses, authFails,
    phase,      \* lwIP phase of every control block ("free": not allocated)
    handle,     \* ppp_pcb_handle
    active,     \* pppoe_session_active
    cached,     \* eth_netif_cached /= NULL
    hook,       \* VLAN linkoutput hook installed (original_eth_linkoutput)
    connected,  \* pppoe_connected; pppoe_ip and my_ip are non-zero with it
    apConnect,  \* ap_connect
    upBit,      \* WIFI_CONNECTED_BIT
    clamp,      \* ap_mss_clamp and ap_pmtu are non-zero
    defRoute,   \* lwIP's default netif is ppp_netif
    pc,         \* where each task is
    ahead,      \* tasks that were inside a handler when a reconnect task went to
                \* sleep: its two seconds are longer than any handler runs
    loc,        \* the pcb pointer a task holds in a local or an argument
    cb,         \* the status callback that the tcpip thread has begun
    crash,      \* "none", or why the firmware has panicked
    overtaken,  \* history: the event handler cleared the published state after
                \* a callback for a new session had begun to publish it
    crossed     \* history: two handlers have been at work at the same time
                \* since lwIP last held no control block

envVars    == <<carrier, link, evq, flaps>>
budgetVars == <<losses, authFails>>
mgrVars    == <<handle, active, cached, hook>>
statusVars == <<connected, apConnect, upBit, clamp>>
taskVars   == <<pc, ahead, crossed>>
cbVars     == <<cb, overtaken>>
vars == <<envVars, budgetVars, phase, mgrVars, statusVars, defRoute, taskVars, loc, cbVars, crash>>

Phases  == {"free", "dead", "discover", "negotiate", "running", "terminate"}
Events  == {"connected", "disconnected"}
Callbacks == {"none", "up", "down"}
Crashes == {"none", "netif_already_added", "null_pcb", "freed_pcb"}

StartPcs  == {"start", "create", "auth", "connect", "connfail", "commit"}
StopPcs   == {"stop", "stopclose", "stopfinish"}
ReconnPcs == {"sleep", "take", "clear", "reclose", "refree", "relink"}
\* Not inside a handler: waiting for an event, not created, or in vTaskDelay().
Resting   == {"idle", "none", "sleep"}
EvtPcs    == {"idle"} \cup StartPcs \cup StopPcs
TaskPcs   == {"none"} \cup StartPcs \cup ReconnPcs

Allocated == {p \in Pcbs : phase[p] # "free"}
Running   == {p \in Pcbs : phase[p] = "running"}
Dialing   == {p \in Pcbs : phase[p] \in {"discover", "negotiate", "running"}}

Init ==
    /\ carrier = FALSE /\ link = FALSE /\ evq = <<>>
    /\ flaps = 0 /\ losses = 0 /\ authFails = 0
    /\ phase = [p \in Pcbs |-> "free"]
    /\ handle = NoPcb /\ active = FALSE /\ cached = FALSE /\ hook = FALSE
    /\ connected = FALSE /\ apConnect = FALSE /\ upBit = FALSE /\ clamp = FALSE
    /\ defRoute = FALSE
    /\ pc = [t \in Threads |-> IF t = Evt THEN "idle" ELSE "none"]
    /\ ahead = [t \in Reconn |-> {}]
    /\ loc = [t \in Threads |-> NoPcb]
    /\ cb = "none" /\ overtaken = FALSE /\ crossed = FALSE
    /\ crash = "none"

\* A panicked firmware takes no further step.
At(t, l) == crash = "none" /\ pc[t] = l
\* The tcpip thread runs one callback or call at a time.
InPhase(p, S) == crash = "none" /\ cb = "none" /\ phase[p] \in S

Goto(t, l) ==
    /\ pc' = [pc EXCEPT ![t] = l]
    /\ ahead' = IF l \in Resting THEN [r \in Reconn |-> ahead[r] \ {t}] ELSE ahead
    /\ crossed' = IF pc[t] \in Resting /\ l \notin Resting
                    THEN \/ \E u \in Threads \ {t} : pc[u] \notin Resting
                         \/ crossed /\ Allocated # {}
                    ELSE crossed

\* Return from pppoe_start() to whoever called it.
Return(t)  == Goto(t, IF t = Evt THEN "idle" ELSE "none")

Panic(why) ==
    /\ crash' = why
    /\ UNCHANGED <<phase, handle, active, defRoute>>

-----------------------------------------------------------------------------
(* lwIP, as pppoe_manager.c relies on it (external code).                  *)

\* ppp_free(): only a dead control block is released; otherwise ERR_CONN and
\* nothing happens.  netif_remove() also gives up the default route.
Freed(ph, p) == IF ph[p] = "dead" THEN [ph EXCEPT ![p] = "free"] ELSE ph

PppFree(p) ==
    \/ /\ phase[p] = "free"
       /\ Panic("freed_pcb")
    \/ /\ phase[p] # "free"
       /\ phase' = Freed(phase, p)
       /\ defRoute' = (defRoute /\ phase[p] # "dead")
       /\ UNCHANGED <<handle, active, crash>>

\* The PPPERR_USER branch of ppp_link_status_cb(), reached with the phases ph.
\* It frees whatever ppp_pcb_handle points to, not the pcb it was called for.
UserCallback(ph) ==
    /\ IF handle = NoPcb
         THEN phase' = ph /\ UNCHANGED <<handle, defRoute>>
         ELSE /\ phase' = Freed(ph, handle)
              /\ defRoute' = (defRoute /\ ph[handle] # "dead")
              /\ handle' = NoPcb
    /\ active' = FALSE
    /\ UNCHANGED crash

\* ppp_close(p, nocarrier = 1): synchronous when the block is dead, still
\* discovering or running; asynchronous while LCP, authentication or IPCP are
\* negotiating; ERR_INPROGRESS when it is already terminating.
PppClose(p) ==
    \/ /\ phase[p] = "free"
       /\ Panic("freed_pcb")
    \/ /\ phase[p] \in {"dead", "discover", "running"}
       /\ UserCallback([phase EXCEPT ![p] = "dead"])
    \/ /\ phase[p] \in {"negotiate", "terminate"}
       /\ phase' = [phase EXCEPT ![p] = "terminate"]
       /\ UNCHANGED <<handle, active, defRoute, crash>>

-----------------------------------------------------------------------------
(* The environment and the tcpip thread.                                   *)

\* The cable is plugged, unplugged, or the modem's port flaps.
CarrierChange ==
    /\ crash = "none" /\ flaps < MaxFlaps
    /\ flaps' = flaps + 1
    /\ carrier' = ~carrier
    /\ evq' = Append(evq, IF carrier' THEN "connected" ELSE "disconnected")
    /\ UNCHANGED <<link, budgetVars, phase, mgrVars, statusVars, defRoute, taskVars, loc, cbVars, crash>>

\* PADS received: discovery is over, LCP begins.
Discovered(p) ==
    /\ InPhase(p, {"discover"}) /\ carrier
    /\ phase' = [phase EXCEPT ![p] = "negotiate"]
    /\ UNCHANGED <<envVars, budgetVars, mgrVars, statusVars, defRoute, taskVars, loc, cbVars, crash>>

\* ppp_link_status_cb(PPPERR_NONE): IPCP is done.  The statics and the default
\* route come first ...
Established(p) ==
    /\ InPhase(p, {"negotiate"}) /\ carrier
    /\ phase' = [phase EXCEPT ![p] = "running"]
    /\ apConnect' = TRUE /\ connected' = TRUE /\ clamp' = TRUE
    /\ defRoute' = TRUE
    /\ cb' = "up" /\ overtaken' = FALSE
    /\ UNCHANGED <<envVars, budgetVars, mgrVars, upBit, taskVars, loc, crash>>

\* ... the event bit after the port map, DNS, syslog and DDNS have been told.
PublishUp ==
    /\ crash = "none" /\ cb = "up"
    /\ upBit' = TRUE
    /\ cb' = "none"
    /\ UNCHANGED <<envVars, budgetVars, phase, mgrVars, connected, apConnect, clamp, defRoute,
                   taskVars, loc, overtaken, crash>>

\* Mutant: a lost session leaves ap_connect set.
MutDisconnectKeepsAp(p) ==
    /\ \E t \in Reconn : pc[t] = "none"
    /\ phase' = [phase EXCEPT ![p] = "dead"]
    /\ connected' = FALSE /\ clamp' = FALSE /\ defRoute' = FALSE
    /\ cb' = "down"
    /\ UNCHANGED <<envVars, authFails, mgrVars, apConnect, upBit, taskVars, loc, overtaken, crash>>

\* Mutant: a lost session leaves the default route on ppp_netif.
MutDisconnectKeepsRoute(p) ==
    /\ \E t \in Reconn : pc[t] = "none"
    /\ phase' = [phase EXCEPT ![p] = "dead"]
    /\ connected' = FALSE /\ apConnect' = FALSE /\ clamp' = FALSE
    /\ cb' = "down"
    /\ UNCHANGED <<envVars, authFails, mgrVars, upBit, defRoute, taskVars, loc, overtaken, crash>>

\* handle_disconnect: the flags and the default route are cleared ...  (The task
\* that will be created needs an identity: the bound of Reconn.)
DisconnectCallback(p) ==
    /\ \E t \in Reconn : pc[t] = "none"
    /\ phase' = [phase EXCEPT ![p] = "dead"]
    /\ connected' = FALSE /\ apConnect' = FALSE /\ clamp' = FALSE
    /\ defRoute' = FALSE
    /\ cb' = "down"
    /\ UNCHANGED <<envVars, authFails, mgrVars, upBit, taskVars, loc, overtaken, crash>>

\* ... and, once the clients' DNS has been reset, the event bit; then the
\* reconnect task is created, which begins with its delay.
PublishDown ==
    /\ crash = "none" /\ cb = "down"
    /\ upBit' = FALSE /\ overtaken' = FALSE
    /\ cb' = "none"
    /\ \E t \in Reconn :
         /\ pc[t] = "none"
         /\ pc' = [pc EXCEPT ![t] = "sleep"]
         /\ ahead' = [ahead EXCEPT ![t] = {u \in Threads : pc[u] \notin Resting}]
    /\ UNCHANGED <<envVars, budgetVars, phase, mgrVars, connected, apConnect, clamp, defRoute, loc,
                   crossed, crash>>

\* PPPERR_CONNECT, PPPERR_PEERDEAD or the error of a failed discovery.
SessionLost(p) ==
    /\ InPhase(p, {"discover", "negotiate", "running"})
    /\ carrier => losses < MaxLosses
    /\ losses' = IF carrier THEN losses + 1 ELSE losses
    /\ DisconnectCallback(p)

\* Mutant: a rejected login leaves pppoe_connected set.
MutAuthFail(p) ==
    /\ InPhase(p, {"negotiate", "running"}) /\ carrier
    /\ authFails < MaxAuthFails
    /\ authFails' = authFails + 1
    /\ phase' = [phase EXCEPT ![p] = "dead"]
    /\ apConnect' = FALSE
    /\ UNCHANGED <<envVars, losses, mgrVars, connected, upBit, clamp, defRoute, taskVars, loc, cbVars, crash>>

\* PPPERR_AUTHFAIL: no reconnect; the event bit, the default route and the
\* clamp are left as they are.
AuthFail(p) ==
    /\ InPhase(p, {"negotiate", "running"}) /\ carrier
    /\ authFails < MaxAuthFails
    /\ authFails' = authFails + 1
    /\ phase' = [phase EXCEPT ![p] = "dead"]
    /\ connected' = FALSE /\ apConnect' = FALSE
    /\ UNCHANGED <<envVars, losses, mgrVars, upBit, clamp, defRoute, taskVars, loc, cbVars, crash>>

\* The asynchronous end of a ppp_close() made during negotiation.
Terminated(p) ==
    /\ InPhase(p, {"terminate"})
    /\ UserCallback([phase EXCEPT ![p] = "dead"])
    /\ UNCHANGED <<envVars, budgetVars, cached, hook, statusVars, taskVars, loc, cbVars>>

-----------------------------------------------------------------------------
(* pppoe_start(), run by the event task or by a reconnect task.            *)

StartCheck(t) ==
    /\ At(t, "start")
    /\ IF active
         THEN Return(t) /\ UNCHANGED <<cached, hook>>
         ELSE Goto(t, "create") /\ cached' = TRUE /\ hook' = TRUE
    /\ UNCHANGED <<envVars, budgetVars, phase, handle, active, statusVars, defRoute, loc, cbVars, crash>>

\* memset(&ppp_netif) and pppapi_pppoe_create(): netif_add() asserts that the
\* single ppp_netif is not in lwIP's list, where every allocated block keeps it.
StartCreate(t) ==
    /\ At(t, "create") /\ cb = "none"
    /\ \/ /\ Allocated # {}
          /\ Panic("netif_already_added") /\ UNCHANGED taskVars
       \/ /\ Allocated = {}
          /\ \E p \in Pcbs :
               /\ phase' = [phase EXCEPT ![p] = "dead"]
               /\ handle' = p
          /\ Goto(t, "auth")
          /\ UNCHANGED <<active, defRoute, crash>>
       \/ /\ Allocated = {} /\ CreateMayFail
          /\ handle' = NoPcb
          /\ Return(t)
          /\ UNCHANGED <<phase, active, defRoute, crash>>
    /\ UNCHANGED <<envVars, budgetVars, cached, hook, statusVars, loc, cbVars>>

\* ppp_set_auth() and ppp_set_usepeerdns() write through ppp_pcb_handle.
StartAuth(t) ==
    /\ At(t, "auth")
    /\ IF handle = NoPcb
         THEN Panic("null_pcb") /\ UNCHANGED taskVars
         ELSE /\ Goto(t, "connect")
              /\ UNCHANGED <<phase, handle, active, defRoute, crash>>
    /\ UNCHANGED <<envVars, budgetVars, cached, hook, statusVars, loc, cbVars>>

\* pppapi_connect(ppp_pcb_handle, 0): ERR_ALREADY unless the block is dead.
StartConnect(t) ==
    /\ At(t, "connect") /\ cb = "none"
    /\ \/ /\ handle = NoPcb
          /\ Panic("null_pcb") /\ UNCHANGED taskVars
       \/ /\ handle # NoPcb
          /\ IF phase[handle] = "dead"
               THEN phase' = [phase EXCEPT ![handle] = "discover"] /\ Goto(t, "commit")
               ELSE Goto(t, "connfail") /\ UNCHANGED phase
          /\ UNCHANGED <<handle, active, defRoute, crash>>
    /\ UNCHANGED <<envVars, budgetVars, cached, hook, statusVars, loc, cbVars>>

\* The error path: pppapi_free() and ppp_pcb_handle = NULL.
StartFail(t) ==
    /\ At(t, "connfail") /\ cb = "none"
    /\ \/ /\ handle = NoPcb
          /\ Panic("null_pcb") /\ UNCHANGED taskVars
       \/ /\ handle # NoPcb
          /\ phase' = Freed(phase, handle)
          /\ defRoute' = (defRoute /\ phase[handle] # "dead")
          /\ handle' = NoPcb
          /\ Return(t)
          /\ UNCHANGED <<active, crash>>
    /\ UNCHANGED <<envVars, budgetVars, cached, hook, statusVars, loc, cbVars>>

\* Mutant: pppoe_session_active is left to the callback of the new session.
MutStartCommit(t) ==
    /\ At(t, "commit")
    /\ Return(t)
    /\ UNCHANGED <<envVars, budgetVars, phase, mgrVars, statusVars, defRoute, loc, cbVars, crash>>

\* pppoe_session_active is set only here, after the session was initiated.
StartCommit(t) ==
    /\ At(t, "commit")
    /\ active' = TRUE
    /\ Return(t)
    /\ UNCHANGED <<envVars, budgetVars, phase, handle, cached, hook, statusVars, defRoute, loc, cbVars, crash>>

-----------------------------------------------------------------------------
(* eth_event_handler() and pppoe_stop(), run by the event task.            *)

\* The esp_netif glue sets or clears the link flag during the same dispatch.
LinkUp ==
    /\ At(Evt, "idle") /\ evq # <<>> /\ Head(evq) = "connected"
    /\ evq' = Tail(evq)
    /\ link' = TRUE
    /\ Goto(Evt, "start")
    /\ UNCHANGED <<carrier, flaps, budgetVars, phase, mgrVars, statusVars, defRoute, loc, cbVars, crash>>

\* pppoe_stop() clears the published state first ...
LinkDown ==
    /\ At(Evt, "idle") /\ evq # <<>> /\ Head(evq) = "disconnected"
    /\ evq' = Tail(evq)
    /\ link' = FALSE
    /\ connected' = FALSE /\ clamp' = FALSE
    /\ Goto(Evt, "stop")
    /\ UNCHANGED <<carrier, flaps, budgetVars, phase, mgrVars, apConnect, upBit, defRoute, loc, cbVars, crash>>

\* ... then decides whether there is a session to close ...
StopCheck ==
    /\ At(Evt, "stop")
    /\ IF active /\ handle # NoPcb
         THEN loc' = [loc EXCEPT ![Evt] = handle] /\ Goto(Evt, "stopclose") /\ UNCHANGED active
         ELSE active' = FALSE /\ Goto(Evt, "stopfinish") /\ UNCHANGED loc
    /\ UNCHANGED <<envVars, budgetVars, phase, handle, cached, hook, statusVars, defRoute, cbVars, crash>>

\* ... and closes it with the pointer it has read.
StopClose ==
    /\ At(Evt, "stopclose") /\ cb = "none"
    /\ PppClose(loc[Evt])
    /\ loc' = [loc EXCEPT ![Evt] = NoPcb]
    /\ Goto(Evt, "stopfinish")
    /\ UNCHANGED <<envVars, budgetVars, cached, hook, statusVars, cbVars>>

\* Mutant: ETHERNET_EVENT_DISCONNECTED relies on pppoe_stop() alone.
MutStopFinish ==
    /\ At(Evt, "stopfinish")
    /\ hook' = (hook /\ ~cached)
    /\ Goto(Evt, "idle")
    /\ UNCHANGED <<envVars, budgetVars, phase, handle, active, cached, statusVars, defRoute, loc, cbVars, crash>>

\* remove_vlan_hook(), and the rest of ETHERNET_EVENT_DISCONNECTED.
StopFinish ==
    /\ At(Evt, "stopfinish")
    /\ hook' = (hook /\ ~cached)
    /\ apConnect' = FALSE /\ upBit' = FALSE
    /\ overtaken' = (cb = "up")
    /\ Goto(Evt, "idle")
    /\ UNCHANGED <<envVars, budgetVars, phase, handle, active, cached, connected, clamp, defRoute, loc, cb, crash>>

-----------------------------------------------------------------------------
(* pppoe_reconnect_task()                                                  *)

\* The two-second delay is over.
ReconnWake(t) ==
    /\ At(t, "sleep") /\ ahead[t] = {}
    /\ Goto(t, "take")
    /\ UNCHANGED <<envVars, budgetVars, phase, mgrVars, statusVars, defRoute, loc, cbVars, crash>>

\* Mutant: the pointer is saved only after it has been cleared.
MutReconnTake(t) ==
    /\ At(t, "take")
    /\ loc' = [loc EXCEPT ![t] = NoPcb]
    /\ Goto(t, "clear")
    /\ UNCHANGED <<envVars, budgetVars, phase, mgrVars, statusVars, defRoute, cbVars, crash>>

\* pcb = ppp_pcb_handle
ReconnTake(t) ==
    /\ At(t, "take")
    /\ loc' = [loc EXCEPT ![t] = handle]
    /\ Goto(t, "clear")
    /\ UNCHANGED <<envVars, budgetVars, phase, mgrVars, statusVars, defRoute, cbVars, crash>>

\* Mutant: ppp_pcb_handle is not cleared before the close.
MutClearKeepsHandle(t) ==
    /\ At(t, "clear")
    /\ active' = FALSE
    /\ Goto(t, IF loc[t] = NoPcb THEN "relink" ELSE "reclose")
    /\ UNCHANGED <<envVars, budgetVars, phase, handle, cached, hook, statusVars, defRoute, loc, cbVars, crash>>

\* ppp_pcb_handle = NULL; pppoe_session_active = false
ReconnClear(t) ==
    /\ At(t, "clear")
    /\ handle' = NoPcb /\ active' = FALSE
    /\ Goto(t, IF loc[t] = NoPcb THEN "relink" ELSE "reclose")
    /\ UNCHANGED <<envVars, budgetVars, phase, cached, hook, statusVars, defRoute, loc, cbVars, crash>>

ReconnClose(t) ==
    /\ At(t, "reclose") /\ cb = "none"
    /\ PppClose(loc[t])
    /\ Goto(t, "refree")
    /\ UNCHANGED <<envVars, budgetVars, cached, hook, statusVars, loc, cbVars>>

ReconnFree(t) ==
    /\ At(t, "refree") /\ cb = "none"
    /\ PppFree(loc[t])
    /\ loc' = [loc EXCEPT ![t] = NoPcb]
    /\ Goto(t, "relink")
    /\ UNCHANGED <<envVars, budgetVars, cached, hook, statusVars, cbVars>>

\* Mutant: the link test is inverted.
MutReconnRelink(t) ==
    /\ At(t, "relink")
    /\ Goto(t, IF cached /\ ~link THEN "start" ELSE "none")
    /\ UNCHANGED <<envVars, budgetVars, phase, mgrVars, statusVars, defRoute, loc, cbVars, crash>>

\* Only retry if the Ethernet link is still up.
ReconnRelink(t) ==
    /\ At(t, "relink")
    /\ Goto(t, IF cached /\ link THEN "start" ELSE "none")
    /\ UNCHANGED <<envVars, budgetVars, phase, mgrVars, statusVars, defRoute, loc, cbVars, crash>>

-----------------------------------------------------------------------------
Start(t) ==
    \/ StartCheck(t) \/ StartCreate(t) \/ StartAuth(t)
    \/ StartConnect(t) \/ StartFail(t) \/ StartCommit(t)

EventTask == Start(Evt) \/ LinkUp \/ LinkDown \/ StopCheck \/ StopClose \/ StopFinish

ReconnectTask(t) ==
    \/ ReconnWake(t) \/ ReconnTake(t) \/ ReconnClear(t)
    \/ ReconnClose(t) \/ ReconnFree(t) \/ ReconnRelink(t) \/ Start(t)

Callback    == PublishUp \/ PublishDown
Progress(p) == Discovered(p) \/ Established(p) \/ Terminated(p)
Failure(p)  == SessionLost(p) \/ AuthFail(p)

Next ==
    \/ CarrierChange
    \/ EventTask
    \/ \E t \in Reconn : ReconnectTask(t)
    \/ Callback
    \/ \E p \in Pcbs : Progress(p) \/ Failure(p)

Spec == Init /\ [][Next]_vars

\* FreeRTOS runs every ready task, the tcpip thread retransmits until the peer
\* answers or its retries run out, and a closed session times out.
Fairness ==
    /\ WF_vars(EventTask)
    /\ \A t \in Reconn : WF_vars(ReconnectTask(t))
    /\ WF_vars(Callback)
    /\ \A p \in Pcbs : WF_vars(Progress(p))

FairSpec == Spec /\ Fairness
-----------------------------------------------------------------------------
(* Properties.                                                             *)

\* The types of the statics, of lwIP's phases and of every task's position.
TypeOK ==
    /\ carrier \in BOOLEAN /\ link \in BOOLEAN
    /\ evq \in Seq(Events)
    /\ flaps \in Nat /\ losses \in Nat /\ authFails \in Nat
    /\ phase \in [Pcbs -> Phases]
    /\ handle \in Pcbs \cup {NoPcb}
    /\ active \in BOOLEAN /\ cached \in BOOLEAN /\ hook \in BOOLEAN
    /\ connected \in BOOLEAN /\ apConnect \in BOOLEAN
    /\ upBit \in BOOLEAN /\ clamp \in BOOLEAN /\ defRoute \in BOOLEAN
    /\ pc \in [Threads -> EvtPcs \cup TaskPcs]
    /\ pc[Evt] \in EvtPcs
    /\ \A t \in Reconn : pc[t] \in TaskPcs
    /\ ahead \in [Reconn -> SUBSET Threads]
    /\ loc \in [Threads -> Pcbs \cup {NoPcb}]
    /\ cb \in Callbacks /\ overtaken \in BOOLEAN /\ crossed \in BOOLEAN
    /\ crash \in Crashes

\* Once the event task has handled every link event, the cable is dead and no
\* callback is under way, the rest of the router does not believe in an uplink,
\* whatever the tcpip thread and the reconnect tasks did in between: ap_connect
\* is clear, and so is the event bit that the VPN task waits on.  The code allows
\* one exception: pppoe_stop() finds pppoe_session_active clear (a reconnect task
\* has not committed its session yet), does not wait for the tcpip thread, and
\* the handler's clears overtake a callback that sets the bit afterwards.
NoUplinkWhileDown ==
    (~carrier /\ evq = <<>> /\ pc[Evt] = "idle" /\ cb = "none")
        => ~apConnect /\ (upBit => overtaken)

\* While ap_connect lets clients out, the MSS clamp and the path MTU of the
\* PPPoE uplink are in force.  pppoe_stop() clears the clamp before
\* eth_event_handler() clears ap_connect, so the event task may be in between.
ClampedWhileUp == apConnect => clamp \/ pc[Evt] \in StopPcs

\* Traffic is routed into the tunnel only while a session is running in it; a
\* login rejected in mid-session is the exception, it keeps the route.
RouteHasSession == defRoute => Running # {} \/ authFails > 0

\* No interleaving makes lwIP's netif_add() assert ("netif already added") or
\* follows a NULL or freed control block: what the comments in
\* ppp_link_status_cb() and pppoe_reconnect_task() are there to avoid.
NoCrash == crash = "none"

\* pppoe_connected tells the web pages, the console and the LED that a session
\* is up exactly while one is running.
StatusTruthful == connected <=> Running # {}

\* Every allocated control block is still reachable: through ppp_pcb_handle or
\* from the task that took it over in order to free it.
NoLeak ==
    \A p \in Allocated :
        handle = p \/ \E t \in Reconn : loc[t] = p

\* While a session is being dialled or is up, its frames go through the VLAN
\* hook (pppoe_vlan > 0), however often pppoe_stop() has removed it and whatever
\* sessions were lost in between: every dial installs it, and no session survives
\* its removal.  Only two handlers at work at the same time break this: they
\* share the hook without a lock.
DialsTagged == Dialing # {} => hook \/ crossed

\* The router is not left without anybody in charge: cable up, all events
\* handled, but no session, no reconnect task and no callback outstanding.
NotStranded ==
    ~( /\ carrier /\ evq = <<>> /\ pc[Evt] = "idle" /\ cb = "none"
       /\ \A t \in Reconn : pc[t] = "none"
       /\ Allocated = {} /\ crash = "none" )

\* With a carrier nothing keeps the uplink down for ever except a rejected
\* login: lost sessions and failed discoveries are redialled.
Redials == carrier ~> (Running # {} \/ authFails > 0)
=============================================================================
