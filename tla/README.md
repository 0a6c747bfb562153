# Verification of the ESP32 PPPoE NAT router

TLA+ models of the firmware's own control logic, TLC configurations that check them on small
instances, and theorems that TLAPS proves for every value of the constants.  Every definition is a
translation of the source (`PROJECT.json`, `map`, names the lines); the property behind a definition
is stated in a comment above it.  Paths are relative to `src/`.

## 1. The system and its parts

The router is an ESP32 with a Wi-Fi access point on one side and a W5500 Ethernet chip on the other,
over which it dials a PPPoE session.  FreeRTOS tasks, lwIP's tcpip thread and interrupt handlers
share C statics, mostly without locks.

| part | source | state | operations | talks to | what is hard |
|---|---|---|---|---|---|
| PPPoE uplink manager | `main/pppoe_manager.c` | `ppp_pcb_handle`, `pppoe_session_active`, `pppoe_connected`, VLAN hook, MSS clamp | start, stop, status callback, reconnect task | event task (calls it), tcpip thread (calls back), lwIP's PPP | three kinds of actors on statics without a lock; asynchronous closes; every lost session must be redialled |
| Boot and event handlers | `main/esp32_nat_router.c` | `ap_connect`, `my_ip`, event bits, reconnect timer, `wifi_scan_active` | Ethernet, IP and Wi-Fi events, scans, AP switch, boot | all others | order of events; flags written by two threads; who is to reconnect |
| Packet capture | `components/pcap_capture/` | ring buffer, mutex, semaphore, mode, client | hook writes, server task streams, mode change | network hooks, TCP client | wrap-around, lifetime of the buffer, lost signal, reset in mid-record |
| DHCP server | `components/dhcpserver/dhcpserver.c` | list of leases, next candidate, timers | messages, coarse timer, eviction, start, stop | clients, reservations | choice of an address on a full pool, lost answers, expiry, reservations that change |
| DHCP reservations | `main/dhcp_manager.c` | table of reservations | add, delete, clear, look up | DHCP server, web, console | edited while leases exist |
| WireGuard manager | `main/vpn_manager.c` | tunnel, default route, path MTU | connect, disconnect, monitor task | PPPoE manager, SNTP, hooks | monitor against reconnects of the uplink |
| Port forwarding | `main/portmap.c` | table, copy in NAPT | apply, delete, add, clear | events, web, console | table and NAPT diverge when edited while the address changes |
| Network hooks | `main/netif_hooks.c` | client statistics, byte counters | packet hooks, kill switch, MSS clamp | ACL, capture, VPN | run in several threads; checksum arithmetic |
| Firewall | `components/acl/` | rule lists, hit counters, copy in flash | add, delete, check, save; the rule that closes the web page to the uplink | hooks, web, console | rules addressed by index while others delete; a count read without the lock |
| Remote console | `components/remote_console/` | session, enable flag, listening task | enable, disable, kick, login, time-outs | console, TCP client | enabling while the previous task is still going down |
| Syslog client | `components/syslog/` | queue, sender task, address | log hook, enable, disable, connect | every task that logs | mutex given up during name resolution |
| Dynamic DNS | `components/ddns/` | configuration, task, last address | update, reload | uplink, HTTP | trigger against a running update |
| MQTT for Home Assistant | `components/mqtt_ha/` | client, switches | publish, command, start, stop | broker | publish against stop |
| W5500 MAC | `components/eth_w5500/` | transmission in progress, socket state | transmit, receive task, reopening | SPI, lwIP, PPPoE | a transmit that never completes; reopening under a transmit |
| Web server | `components/http_server/` | login session, form input, import/export | handlers | everything | a setting stored but not in force; a page left in the middle; a partial import |
| Command line | `components/cmd_router/`, `components/cmd_system/` | NVS keys and their copies in globals | commands | everything | a write that fails between others; the web page does the same in its own way |
| USB bridge script | `esp_nat_bridge.py` | serial connection | commands with retries | command line | a command repeated after it was executed |
| Pages, icons, build files | headers, `CMakeLists.txt` | none | none | - | no behaviour |

What makes each of them correct: an uplink that is published only while it exists and that comes back
(PPPoE, events); a stream of whole records in order (capture); one address, one client, for as long as
the client believes in it (DHCP); traffic never outside the tunnel while the kill switch is on, and a
path MTU that fits the tunnel (VPN, hooks); the NAPT entries equal to the table after every change
(port forwarding); the rule a user deletes is the one deleted (firewall, web WAN rule); an enabled
service listens, a disabled one holds nothing (remote console, syslog, MQTT, DDNS); a transmission
that is started ends (W5500); a session that has ended opens no page (web server).

## 2. What is modelled

| module | models | kind |
|---|---|---|
| `PppoeSession` | `main/pppoe_manager.c`, `eth_event_handler()` | detailed specification |
| `ByteFifo` | what a capture session promises | abstract specification |
| `PcapCapture` | `pcap_ringbuf.c`, `pcap_capture.c`; implements `ByteFifo` | detailed specification |
| `DhcpLeases` | `dhcpserver.c`, reservations of `dhcp_manager.c`, with clients that lose answers | detailed specification |
| `VpnTunnel` | `vpn_manager.c`, with what `pppoe_manager.c`, `eth_event_handler()` and the kill switch share with it | detailed specification |
| `AclPolicy` | what a user's list of rules promises | abstract specification |
| `Firewall` | `components/acl/`, `update_web_wan_acl()`, the hooks' checks; implements `AclPolicy` | detailed specification |
| `PortMap` | `main/portmap.c` and its callers, with lwIP's NAPT | detailed specification |
| `SyslogClient` | `syslog_client.c`: enable, disable, log hook, queue, sender | detailed specification |
| `RemoteConsole` | `remote_console.c`: the listening task and its session against enable, disable and kick | detailed specification |
| `Ddns` | `ddns.c` with the page and the commands that configure it | detailed specification |
| `W5500Mac` | `esp_eth_mac_w5500.c`: both ways to send, the driver's task, the chip | detailed specification |
| `StaUplink` | the Wi-Fi uplink's events, back-off timer and scans | detailed specification |
| `MqttHa` | `mqtt_ha.c`: what the broker retains of the router | detailed specification |
| `ConfigStore` | NVS, the globals loaded from it, handlers as scripts of effects | library of the next three |
| `CliCommands`, `WebPages` | the commands and pages that change settings, one script each | scripts |
| `Management` | all of them, with failing writes, vanished clients and restarts | composition |
| `MC...` | sets, bounds and symmetry for TLC; `MCRouter` and `MCServices` hold several components | instances |
| `...Proofs` | theorems; `RouterProofs` holds those of firewall, port forwarding and syslog, `ServiceProofs` those of console and MQTT, `ConfigProofs` those of `Management` | proofs |

### PppoeSession

Actors: the event task (`Evt`), which runs `eth_event_handler()` and so `pppoe_start()` and
`pppoe_stop()`; the reconnect tasks that the status callback creates; the tcpip thread, which runs the
callbacks and `pppapi_*` calls one at a time.  Every C
statement of the other tasks that touches a shared static is a step.  The callbacks for a new and for a lost
session are two steps each: `ap_connect` and the other statics first, the event bit at the end (`PublishUp`,
`PublishDown`), because `pppoe_stop()` waits for the tcpip thread only when it finds a session to close.  `cb` is
the callback under way; during it no other call of lwIP runs.  `phase` is lwIP's phase of each
control block, as far as the manager can see it; `handle`, `active`, `cached`, `hook`, `connected`,
`apConnect`, `upBit`, `clamp` and `defRoute` are the statics they are named after; `pc` and `loc` are
where a task is and the pointer it holds.  A panic (an assertion of lwIP, a NULL or freed pointer) is
the value of `crash`, and nothing happens after it.  Two variables are history, for the exceptions in the properties:
`overtaken` (the event handler cleared what a callback was still publishing) and `crossed` (two handlers have been at
work at once since lwIP last held no control block).  lwIP itself is external: a close is synchronous
for a block that is dead, discovering or running, and asynchronous while it negotiates.

A reconnect task sleeps two seconds.  A handler does not run that long, so the task wakes only when the
handlers that were running at its creation have returned (`ahead`).  Frames that were waiting in the
tcpip mailbox when the cable was pulled are taken to be handled before the loss is noticed: a session
is only established with a carrier.  The failure of `xTaskCreate()` and VLAN tagging of single frames
are not modelled.

### PcapCapture

Hooks (`Writers`), the server task and the task that changes the mode meet on the ring buffer's mutex.
Taking the mutex is a step and the critical section is one; what the code does without the mutex (the
test of `ringbuf_data`, the semaphore, the drain after allocation) is a step of its own.  A byte is its
record and its place in the record, so that a byte which is lost, repeated or overwritten shows.
`ByteFifo` accepts whole records up to a capacity and hands out bytes from the front;
`ImplementsFifo` is the refinement, with the buffer's contents read from the oldest byte as the queue.
Statistics, snap length and the failure to start the server are left out.  `FramedUnlessReset` excepts
a reset, because `pcap_set_mode()` resets the buffer under a connected client, also in mid-record.

### DhcpLeases

The server runs in the tcpip thread: a message with its answer, a tick of the coarse timer and a
restart are single steps; the console and the web server edit the reservations between them.  The
list of leases is kept sorted by the code, so it is a set here and the walk over it is defined from the
set (`Walk`, `FirstUnused`): two leases of one address are the only case in which the order is open,
and the model takes both.  Clients are external: they discover, request a remembered or offered
address, renew, release, decline, send an inform, or go without a word, and any answer may be lost.  A
client's lease lasts up to one tick more than the server's, because their clocks are not in step.
Memory exhaustion, option setters and two tasks that edit one reservation at the same instant are left
out; `dhcps_get_active_leases()`, which walks the list from another task, is listed as a hazard.

### VpnTunnel

Three threads without a lock: the monitor task (`mon`, its place in `vpn_monitor_task()`, `vpn_connect()`
or `vpn_disconnect()`), the tcpip thread in the status callback (`tcp`), and the event task in
`pppoe_stop()` (`evt`).  A step is what lies between two accesses to the state they share: the default
route (`defRoute`), `ap_pmtu` with `ap_mss_clamp` (`pmtu`), `pppoe_connected`, the event bit and the tunnel's
flags.  `Leaking` is the moment the kill switch is there to prevent: it lets packets pass and the default
route is the PPPoE session.  The PPPoE manager is reduced to sessions that come up and end, more freely
than `PppoeSession` allows, and to logins that are refused in mid-session (`LoginRefused`): the session is gone, but the event
bit, the path MTU and the default route stay, and nobody dials before the next link event (`refused`).  The WireGuard library is external: its calls may fail, its netif
vanishes at a disconnect, which may hand the default route back to PPPoE, and its peer answers while there
is a session.  The tunnel is modelled in route-all mode; split tunnel, port maps and baby-jumbo values (the
same assignments with other numbers) are left out.  In `PppoeSession` the VPN is off, so `ClampedWhileUp`
is about the PPPoE manager's own writes.

### RemoteConsole

`pc` is where each `remote_console_task()` is, `call` where each caller of the API is; a command of the
session is a call by the task itself.  The statics of `rc_config` and `rc_state` have variables of
their own, the socket is split into the number the code holds (`fd`) and what the TCP stack has (`sock`).
`remote_console_disable()` waits 3 s, so it gives up only where the task may stay longer than that
(`Slow`): in the 5 s after a failed bind or a third wrong password, in a command, in a send.  The "BUSY"
answer is left out because `OneServer` shows that no client meets a taken mutex: a second client waits in
the backlog.  With `Serial = TRUE` a call begins when the one before has returned.  Without it TLC finds
that an enable which is interrupted between its test of `task_handle` and `xTaskCreate()` may start a
second task, or a task of a service that has just been disabled (`OneServer`, `DisabledStops`).

### AclPolicy and Firewall

One of the four lists.  `acl_add()`, `acl_delete()`, `acl_clear()` and the matching loop hold `acl_mutex` and
are steps; what lies outside of it is a step of its own: the gate that reads `acl_rule_count` before the
mutex is taken, the snapshot, open, write and commit of `save_acl_rules()`, and the search,
deletion and addition of `update_web_wan_acl()`, which takes the mutex anew for each slot.  A manager is a task (console or
web server) with its place in `pc`; `Crews` says which work together in a behaviour.  A packet is what the hook sees:
what its first bytes look like, how much of it is there, protocol, addresses of two bits, ports, and what the
code reads where it takes the Ethernet header for an IP header (`at0`).  `Header` is the header `acl_check_packet()` settles on,
which for some frames is the wrong one; `AclPolicy` promises nothing of those (`Misleading`) except that the verdict is one of the list's.

`Policy` maps the table to the sequence its user wrote, the blob in flash to the list saved last (`kept`), the
snapshots of `save_acl_rules()` to lists being saved (`drafts`), and the last verdict to that of its first match:
adding appends, deleting strikes one out, no interleaving lets a packet see another list, a save may fail but stores one
of the lists that were in force, and a restart brings back what is stored.  The rule of `wan_access` is part of this module, with what makes
`update_web_wan_acl()` fail or go astray: a full list, and the port, which it reads from flash and not from the running server.  Monitoring
rules, statistics and the other three lists (alike) are left out.

### PortMap

The table, its blob in NVS, and how often lwIP holds each entry (it does not look for duplicates, and
ignores calls before `ip_napt_enable()`).  Every change of the uplink's address, the boot and the access point's
switch rebuild lwIP's copy from the table, in the order their callers do; console and web server edit single entries in
the steps of `add_portmap()` and `del_portmap()`.  `NaptIsTable` is checked and proved for tasks that do not
overlap (`Overlap = FALSE`); nothing in the code makes sure of that, see section 6.

### SyslogClient

Users of the command and the tasks that `syslog_notify_connected()` starts take `s_mutex`, which they give up while DNS is
asked; loggers take `s_fmt_mutex`, format into the shared buffers and post to the queue; the sender
owns the socket and leaves at a poison pill or when its queue is gone.  `stop_sender()` frees the buffers after it has waited for
the sender.

### ConfigStore, CliCommands, WebPages, Management

A handler is the flat sequence of its effects (store a key, set a global, allocate, take a lock, send, arm the restart
timer); the constructors `NvsSet`, `SaveThenLive`, `PutAndLive`, `LiveAndPut` and so on are the idioms of the source.  `at` is the place
of the next effect.  A checked write that fails leads behind the next `End` (`Chain` closes a nest of `if (err == ESP_OK)`), an
unchecked one to the next effect, and is noted in `failed`.  The access rule that goes with `wan_access` is no setting and belongs to `Firewall`.  `Management` begins any handler with any input, performs its effects one by
one, lets writes fail, the client vanish at a send, and the power go between any two.  A behaviour
watches one key, or those that a property relates (`Together`); the effects on all other keys are skipped, which
is sound because a script's control depends only on what it watches or on an input that is chosen
anew.  Handlers run one after the other: the interleaving of console and web
server is left to `Firewall`, `PortMap`, `SyslogClient`, `RemoteConsole` and `Ddns`.

### Ddns

`update` is the task that reports an address, with the address and the settings it read when it began; a
trigger that meets a running update is dropped, as in the code.  A reload clears the settings before it reads the new ones.
Providers answer with a status and words, or not at all, whether they have accepted the address or not.

### W5500Mac

lwIP's thread (`lwip`), the driver's task (`task`) and the chip.  Frames are numbered in the order in which lwIP
sends them, so `InOrder` reads the whole way from the queue to the wire.  The semaphore is `tx_idle_sem`; `late` is
whether ten milliseconds have passed since `tx_start_us`.  The chip may lose its registers
(`Glitch`), each SPI transfer may fail, those that read and clear SOCK_IR included, and a reset clears what was to be sent and read.  `emac_w5500_start()`, `stop()`,
filters and resets come from any thread at any time.

### StaUplink

Events of the Wi-Fi driver are queued and handled in order; the driver does not scan while it connects.
`deferred` is history: an attempt was left to the page that is loaded next.

### MqttHa

The command in progress (`cmd`), `publish_state()` in the timer's task (`timer_cb`) and the handler in the
client's task (`handler`); the library holds its lock while a handler runs.  The broker's side is its session and what it
retains.  A restart reads flash again and leaves the broker a dead session.  One switch stands for the three that are
set, read and published alike.  `missed` is history: a connection made while a stop no longer looks.

## 3. Runs

| run | question | result |
|---|---|---|
| `PppoeFull` | every interleaving with a flapping cable, losses, rejected logins and failed allocations | with the cable dead nobody is let out and the event bit is clear, unless a callback was overtaken; whoever is let out is clamped; dials are tagged unless handlers overlap |
| `PppoeLoss` | one change of carrier, any five losses and two rejected logins | no panic, no leak, truthful status, a route only with a session, and the session comes back |
| `PppoeStranded` | the comment at `main/pppoe_manager.c:299` | violated: a quick off/on during negotiation leaves nobody in charge |
| `PcapCapture` | two hooks, two clients, one mode change, a ring of four cells | the ring implements the FIFO, the stream is framed, no signal is lost, it drains |
| `Dhcp` | three clients, two addresses, an overflowing list, two edits, restarts | one lease per client, what is used is leased, a sound pool, reservations respected by new leases |
| `DhcpReserved` | "never handed to other devices", `README.md:153` | violated: a renewal ignores the reservation |
| `Vpn` | drops, failing calls and peer losses at any step of connect, disconnect and health check | nothing passes the kill switch past the tunnel unless the tunnel missed the default route when it came up; such a leak ends; the tunnel returns while the session and the bit stay, and is torn down while the bit stays clear |
| `VpnMtu` | "adjusted automatically", `README.md:186` | violated: a session that is re-established under the tunnel resets the path MTU for good |
| `Router` | safety of configuration, firewall, port forwarding and syslog | a restart changes no setting in force; a page that is left holds nothing; an import enables the tunnel last; the firewall implements its user's list, and a restart brings back the one saved last; lwIP forwards what the table says; no log call meets freed buffers |
| `Services` | liveness (and some safety) of console, DDNS, Ethernet, Wi-Fi uplink and MQTT | one console task, a disabled service ends, a kick ends the session; the name follows the address; frames in order, and a send that hangs is recovered; the uplink reconnects unless that is left to a page; the broker ends up with the router's state |
| `W5500Race` | the comment at `esp_eth_mac_w5500.c:238` | violated: the task takes an inline send that is being written for one that hangs |
| `StaScan` | the comment at `http_server.c:740` | violated: a link lost during the scan page's scan stays lost |

`Router` and `Services` hold several components that share no state in the code as far as the properties
go.  The variable `which` picks one of them per behaviour and the others keep their initial values, so the
state space is the union of the components' spaces, not their product; each has its own fairness.

The three properties of `PppoeFull` hold under every interleaving; the six of `PppoeLoss` hold
only while the cable stays in, and `PppoeStranded` shows why: the code orders nothing between a
link-down and a reconnect.

### Bounds

*PPPoE*: two control blocks (lwIP has one; a second one makes a wrong free visible), two reconnect
tasks (one may take over the session of another).  Six flaps are three link-downs, enough for an event to
meet a close of the session before and a reconnect of the one after, and for the VLAN hook to be removed and installed again; four or five losses exhaust both
reconnect tasks at once.
*Capture*: four cells, records of two and three bytes and a send buffer of two make records that wrap,
that fill the buffer exactly, that do not fit and that are read in pieces; three records and two
clients suffice for a record that meets the end of the previous session.
*DHCP*: two addresses and three clients run the pool out and wrap it around; `MaxStations` of two
makes the list overflow; a lease of two ticks distinguishes its last tick from the others.  Neither
messages nor ticks nor restarts are bounded.  Two edits allow a reservation to be made and taken back
or replaced.  One reservable address is in the pool, the other lies just below the router's.
*VPN*: three drops let a session end, be stopped and be lost again in one connect or disconnect; two
failures meet two calls in a row (init and connect, or the route and its repair), two peer losses a check
that fails twice.  The theorems do without these bounds.
*Router*: every key by itself, and the pairs the properties relate; two managers; a list of two slots, which is
full with the user's rule and the web rule; three packets (a bare one to the web server, a frame that is cut before its
ports, and one whose MAC address is taken for an IP header); a table of two entries for two ports; two addresses, so that one follows another; two
loggers and two users of syslog with a queue of two.  Nothing counts steps: restarts, edits and addresses go on for ever.
*Services*: console: two tasks, so that a second one would show, one caller beside the session, the code's three attempts.
DDNS: two addresses, two providers with different replies.  Ethernet: two buffers (a queue that is full), two frames in
`Services` and three in `W5500Race` (the third is the SEND over one in flight), two frames to be read, one SPI fault;
`FramesInOrder` does without these bounds.  Wi-Fi: three events in the queue, one scan page, a back-off of
250 to 1000 ms.  MQTT: nothing is bounded.

### Fairness and liveness

`Redials` (PPPoE): FreeRTOS runs every ready task, and a session that is dialling or closing ends one
way or the other (lwIP's retransmissions are bounded); losing a session and pulling the cable are not
fair.  `Drains` (capture): the tasks run, and a task that waits for the mutex is handed it sooner or
later (strong fairness of `Lock`: a FreeRTOS mutex wakes its waiter); nobody has to connect.

`LeakEnds`, `TunnelReturns`, `TornDown` (VPN): every task runs (weak fairness).  The check comes every
15 s, long enough for three handshakes, so a peer that can be reached again and again while the
monitor sleeps answers in one of the sleeps (strong fairness of `PeerUp` there, and only there); without it
a monitor that always gave up first would be a behaviour.  The uplink has to do nothing: `TunnelReturns` is about a session
that stays up with its event bit, `TornDown` about a bit that stays clear.  The bit alone would not do for the former: a login refused
in mid-session leaves it set without a session, see section 6.

`DisabledStops`, `KickEnds` (console): every task runs and every wait with a time-out ends; nobody has to
connect, log in, type or call, so a session may last for ever unless it is ended.

`RecordFollows` (DDNS): the update's task, the reload and the poll timer run; a provider that is asked again and again
accepts some time (strong fairness of `Accepted`), though its reply may be lost every time.

`TxRecovers` (Ethernet): both threads run and time passes; no burst of received frames lasts for ever (strong fairness of
`DrainEnds`: the chip's memory is read faster than a wire of 10 or 100 Mbit/s fills it).  The chip is never obliged to finish a send.

`ReconnectsUnlessLeft` (Wi-Fi): events are handled, the timer fires, scans end, an attempt ends; a network that is tried again and
again lets the router in (strong fairness of `LinkUp`).

`StateConverges` (MQTT): the handler, the command in progress and the timer run; a publication that waits for the
library's lock gets it (strong fairness of `TimerPublishes`).  Nothing obliges the network: the property is about a connection that stays.

Deadlock is not checked where the bounds on flaps, losses or packets let the system come to rest, or where a component has
nothing left to do; it is checked in the DHCP runs, which have no such end.

## 4. Proofs

Every theorem is `Spec => ...` for all constants that satisfy the module's ASSUME and what the theorem itself assumes.

* `PppoeSessionProofs`: `TypeCorrect`; `UplinkDown` and `UplinkClamped`.  `NoUplinkWhileDown` is not
  inductive: that the flags are clear when the event task is idle depends on the last link event being
  "disconnected" while the cable is out, and on the event task being inside `pppoe_stop()` until it
  clears them (`LastEventDown`).  A callback that has begun to publish a session and not set the bit yet may be overtaken by those
  clears; that is the exception of the statement, and the invariant says that the bit can come back in no other way.
* `PppoeSessionProofs`, `DialledTagged` (`DialsTagged`), for any number of link-downs: each of them removes the hook, so the argument is about who can
  still be dialling then.  lwIP holds one control block at most (`OneBlock`, or `netif_add()` asserts).  As long as handlers do not overlap (`Sole`),
  a session that is dialled or up is found by `pppoe_stop()` or is in the hands of the task that dials or closes it (`Kept`), so that the hook
  goes only when nothing is dialled (`AtWork`, `Orderly`).  `crossed` stays set until the last control block is gone, so that after an
  overlap the argument starts afresh.
* `PppoeSessionProofs`, the five invariants of `PppoeLoss` (`Steady...`): each is `Spec => [](flaps <= 1 => P)`, that is, it holds
  until the link goes down for the first time, under any number of losses, refused logins, control blocks and
  reconnect tasks.  The hypothesis is the run's `MaxFlaps`; later `pppoe_stop()` and the reconnect tasks collide, as section 6 and
  `PppoeStranded` show.  One invariant serves all five (`SteadyInv`): at each place of `pppoe_start()` and
  `pppoe_reconnect_task()` it says which block the task holds, what the statics say, and that nobody else is at work
  (`Starter`, `Reconnecter`, `Alone`); between two tasks somebody is in charge of the session (`InCharge`).  `SteadyInCharge` also
  assumes that the control block can be allocated (`CreateMayFail = FALSE`, as in the run): after a failed allocation the code does give up.
* `PcapCaptureProofs`: `TypeCorrect` and `RingImplementsFifo`.  The invariant adds to the types that
  the head follows from the tail and the fill level (`RingInv`) and what each thread holds at each
  place (`PcInv`).  The refinement then rests on three facts about the contents: storing a record
  appends it, reading takes the front, and the rest stays.
* `PcapCaptureProofs`, `StreamFramed` (`FramedUnlessReset`): whether a stream is framed depends on what is still in the buffer, so
  the invariant speaks of both (`All`): together they are framed, end with a whole record while there is a buffer
  (`FrameInv`), and no hook holds a record whose name occurs in them (`Named`).  `SignalKept` (`SignalNotLost`): the promise must hold
  from the moment the server has sent something, not only while it waits (`SignalInv`).
* `DhcpLeasesProofs`: `OneLease` (`OneLeasePerMac`) and `Leased` (`BoundIsLeased`).  The strengthening
  (`Covered`) says that a client's lease ends at most one tick after the server's; a message touches only
  its sender's leases (`Others`), and a tick ages both sides alike (`TickStep`).  Nothing is assumed about
  the addresses, so the result does not depend on the choice of an address or on reservations.
* `DhcpLeasesProofs`, `PoolSound` (`PoolIsSound`), `Exclusive` (`NoConflict`) and `NewLeases` (`NewLeaseRespectsReservations`): the
  list is finite, so the walk for a free address ends at the least one that is not leased (`NextIsFree`, by the
  least-number principle and a count of the leases), and the walk past reservations never goes back to a leased or a reserved one
  (`SkipEnds`, `ChosenAddress`).  `PoolInv` says what that makes of the addresses until the first edit; `Exclusive` joins it to `Covered`.
* `VpnTunnelProofs`: `TypeCorrect` and `KillSwitch` (`ProtectedUnlessExposed`).  The invariant adds where
  the monitor can be while there is a tunnel (`TunnelPcs`), and states the route's promise from the moment
  the tunnel takes it, when the kill switch still blocks (`RouteInv`).
* `W5500MacProofs`: `FramesInOrder` (`InOrder`).  Order is kept because the two threads never have a frame on its
  way at the same time (`Alone`): while lwIP's thread sends one itself the queue is empty and the task holds none,
  and while the task holds one the semaphore is taken.  This survives the race of `W5500Race`, in which the
  semaphore is given back too early, and is the reason why that race loses or repeats frames but never swaps them.
* `W5500MacProofs`, `BuffersSafe` (`BuffersKept`, which no run states): each transmit buffer is free, queued, the task's or in flight, and in one of
  these places only, given that `NoBuf` is no buffer.  `Engine` adds that none is in flight while the semaphore can be had or a frame is
  being started, so that `tx_active_buf` is never overwritten.
* `RouterProofs`: `ListStaysSound` (`ListSound`), assuming only that a table has a length, that `NoRule` is no
  rule and that the web server has a port.  The invariant adds that the copy in flash, and every snapshot on its way there,
  fills its slots from the first on as well, because the boot counts the rules of what it loads.
* `RouterProofs`, `ListIsPolicy` (`ImplementsPolicy`): the refinement, one lemma per action.  `acl_add()` appends to the
  user's list, `acl_delete()` strikes one rule out, a snapshot becomes a draft, the write of a snapshot a save (or nothing, when it fails), and the boot is
  `PowerOn` with the list saved last, because what it loads and counts is the stored list as it was (`SnapshotMaps`, `StoreMaps`).  The first rule
  that matches in the table is the first that fits in the list (`FirstSlot`, `VerdictOfRule`); where the code settles on the IP header, it is the
  packet's, for every packet that is not `Misleading` (`HeaderFound`).  Everything else is a stutter.  `BootIdle` adds that nothing is under way while the
  router starts.  Beyond the assumptions above it needs only `WellFormed`: rules of the shape the parsers make, and addresses of the model's two bits.
* `RouterProofs`: `NaptFollowsTable` (`NaptIsTable`), assuming that tasks do not overlap, for any ports, addresses and length of
  the table.  Between two tasks lwIP holds exactly the table (`Exact`); within one, the invariant says what is missing:
  the port being edited, or, in a rebuild, that lwIP holds at most one entry for each port of the table (`Thin`, `Known`), so
  that deleting the table's ports leaves nothing behind.  `BuffersLive` (`FormatsInLiveBuffers` of the syslog
  client), assuming that `NoServer` is no logger: inductive as it stands.
* `ServiceProofs`: `OneConsole` (`OneServer`), assuming that calls of the API do not overlap (`Serial`).  The handle names the one
  task from its creation to its last step (`Handled`), the mutex is held only in its session (`Locked`), and one caller at a time is
  between the test of the handle and the creation (`OneCall`).
* `ServiceProofs`, `StoppedIsOffline` (`OffIsOffline` of MQTT, which has no constants and needs no fairness): whoever is "online" without a
  session has been missed by a stop (`OnlineInv`), where the client, its connection and the stop can be at the same time
  (`Places`), and a connection whose first event is handled is known to the program (`Connected`).

* `ConfigProofs`: `ConfigurationAgrees` (`LiveAgrees`), `HandlersRelease` (`NothingHeld`) and `TunnelEnabledLast` (`EnablesWhole`), for any sets of
  keys watched together, while the runs take single keys and five pairs.  Assumed is only that those sets are sets of keys and that
  `Missing` is no value.  The argument has two halves.  The steps do not know which handler runs: from each place where a
  checked write may fail to each place where the handler goes on then (`Cuts`), what is left in NVS and what is left in the globals agree
  (`Settled`), or the rest arms the restart timer before a vanished client can end it (`LiveInv`).  So failing writes that the code looks at are
  covered, and only those it does not look at are excepted; whatever is held is released before the next place where the handler may return, which no failed write skips
  (`HeldInv`).  A handler may therefore begin with every script that is `Sound`.  The second half is that all of them are: forms change
  settings and hold nothing, pages hold and send and change nothing, both are closed under concatenation (`FormConcat`, `PageConcat`), and a
  form in its buffers followed by a page is sound (`AnswerIsSound`); then each command and each page is taken apart into such
  pieces, with the keys that take effect at once, the ranges their inputs were checked against, and `app_main()`'s way to load them (`SetsLive`).
  The import of a configuration file is the one handler that is not a form: it wipes, and is sound because it always restarts.
  `EnableInv` says of the import of a VPN file that no place is left where the tunnel is enabled before a mandatory value is stored.

Every safety property of a passing run is a theorem.  Only model-checked:

* all liveness (`Redials`, `Drains`, `LeakEnds`, `TunnelReturns`, `TornDown`, `DisabledStops`, `KickEnds`, `TxRecovers`, `RecordFollows`,
  `ReconnectsUnlessLeft`, `StateConverges`), which is out of the prover's reach.

## 5. Findings

Each violating run is a disagreement between the code and its own comments or README; `PROJECT.json`
quotes both sides.  Shortest traces: a reservation of an address in use, followed by its renewal
(`DhcpReserved`); a link-down during negotiation followed by a link-up (`PppoeStranded`); a session lost
and re-established within one health-check interval (`VpnMtu`); a received frame that wakes the driver's task while
lwIP's thread writes a frame, more than 10 ms after the send before (`W5500Race`); a link lost while the scan page scans
(`StaScan`).

## 6. Known deviations without a run of their own

Each was met while modelling; the definition named shows it under the instance named, or the property that excepts it says so.

* `MCPppoeSession`, `NoCrash` with `PppoeFull`'s constants: the reconnect task and `pppoe_stop()` free one
  control block (`main/pppoe_manager.c:253`, `:284`).
* `DhcpLeases!RouterNotLeased` with `Dhcp`'s constants: after a reservation of the address below the router's the next
  candidate is the router's own address (`dhcpserver.c:1179`, comment at `:1387`); `PoolIsSound` speaks of the time before the first edit.
* `RemoteConsole!EnabledIsServed` with `Serial = TRUE`: an enable within the 5 s after a disable that has met a failed bind leaves
  the enabled service without a task.  With `Serial = FALSE`, `OneServer` and `DisabledStops`: calls from two tasks at once
  may start a second task, or a task of a service that has just been disabled.
* `PortMap` with `Overlap = TRUE`: two rebuilds that interleave leave an entry in lwIP twice, and one of them
  stays when the entry is deleted (`main/esp32_nat_router.c:1612` knows of duplicates).
* `main/pppoe_manager.c:182` sets `ap_connect` and `:209` the event bit.  A link-down between the two, at a time when `pppoe_session_active` is
  still clear, clears both first (`main/esp32_nat_router.c:429`), and the bit stays set with the cable dead: the exception `overtaken` of `NoUplinkWhileDown`.
* `PppoeFull` without the exception of `DialsTagged`: a reconnect task whose dial begins while `pppoe_stop()` is on its way to
  the hook dials without a VLAN tag.
* `VpnTunnel`: a login refused in mid-session (`main/pppoe_manager.c:240`) leaves event bit, default route and path MTU as they were;
  the monitor goes on dialling over an uplink that is gone, and the tunnel does not return before the next link event.
* `Firewall!OnlyBlockRuleGoes` holds for one manager only, as it says: with two,
  `update_web_wan_acl()` may delete the slot into which another rule has moved.  A save may write an older snapshot over a newer one, which the
  restart then restores (`AclPolicy!Save` allows it).
* `update_web_wan_acl()` looks for the rule of the port in flash, which differs from the one served until the restart, and finds no room in a full list, while
  `web_ui wan_access` prints "effective immediately" (`cmd_router.c:1135`) and the stored setting says so too.
* `AclPolicy!Misleading` (`acl.c:251`): a frame whose destination MAC begins with 0x45 to 0x4f is taken for a bare IP packet, one with 0x60 to 0x6f is
  never filtered, and one with 0x40 to 0x44 is, although its EtherType says nothing.
* The pages store some settings that are in force already without looking at the result (`PutAndLive`): after a write that fails there, a restart
  brings the old value back; the exception `failed` of `LiveAgrees`.
* Channel 14 is accepted from the user, stored, and not loaded at the next start; setting a country after the channel
  may leave a channel that the country does not have (`README.md:65`, `:145`).
* `cmd_router.c:910` compares "the first 3 octets" of two addresses in network byte order with `0xFFFFFF00`: the last three.
* Syslog: a disable that comes while an enable asks DNS is followed by a sender that runs although the service is disabled; two
  connects at once leave a socket; a sender that takes longer than 2 s to leave outlives `stop_sender()`.
* DDNS: an update that ends writes its copy of the settings over what console or page have stored meanwhile; the command line does
  not load what it stores; the page stores a provider it has not checked; the loss of the address is never reported.
* W5500: with `DrainGlitch = TRUE` the loop that reads a burst may go on for ever once the registers are gone
  (`TxRecovers`); a SEND that fails leaves its frame in the chip, so it may go out twice; promiscuous mode is taken for a reset by the next check.
* Web pages: the VPN page stores `vpn_enabled` first; an export that is imported again may leave `wan_access` without the
  password; values are percent-decoded twice on some paths; a handler that arms the restart timer does not keep the next one from storing.
* MQTT: a connection made while `mqtt_ha_stop()` has passed its test of `s_connected`, or made again in its 200 ms, leaves the stopped
  service "online" at the broker (the exception of `OffIsOffline`); a publication that is under way may use the client that is being
  destroyed.  The two consoles may run `mqtt enable` at once and start two clients.

## 7. Not modelled

* The printed tables (`show` and the like), registration and parsing of arguments, HTML and CSS, the
  favicon and the build files: layout without state.
* The firmware upload: a stream that is handed to the SDK.
* Client statistics and byte counters of `netif_hooks.c` and the MSS clamp's checksum: per-packet arithmetic without control.  DNS
  forwarding is lwIP's.
* Memory safety of walks without a lock (`dhcps_get_active_leases()`, the remote console's capture buffer): below the level of the models,
  which see data, not pointers; they are hazards with a note.
* VLAN tagging of single frames, the W5500's PHY and its polling mode, the split tunnel and the port maps that are bound to it.
* The order of `app_main()`'s initialisations, the access point's client events and its counter.
* Two handlers of `Management` at the same moment.
* `esp_nat_bridge.py`, a tool on the user's computer that passes commands on to the remote console and keeps no state of the router.
* lwIP, the SDK's drivers, `esp_http_client`, `esp-mqtt` and the vendored WireGuard library: external, modelled from how the code uses them.

## 8. Plan

What is left, in this order: `PortMap`'s table and its
copy in flash (what a restart restores); the firewall's `OnlyBlockRuleGoes` for one manager; the incremental checksum of the MSS clamp and
the pool's range against reference definitions; the access point's client counter; `Serial = FALSE` and `Overlap = TRUE` once the code
orders those tasks.
