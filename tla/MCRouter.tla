------------------------------- MODULE MCRouter -------------------------------
(* The configuration, the firewall, the port forwardings and syslog: in each   *)
(* behaviour one of them runs (which) while the others stay as they start.     *)
EXTENDS Management, Firewall, PortMap, SyslogClient

VARIABLE which

MCInit ==
    /\ which \in {"config", "firewall", "portmap", "syslog"}
    /\ ConfigInit /\ (which = "config" \/ watch = {"heap"})
    /\ Init /\ (which = "firewall" \/ crew = {"console"})
    /\ PortInit
    /\ SyslogInit /\ (which = "syslog" \/ ~s_enabled)

MCNext ==
    \/ which = "config" /\ ConfigNext /\ UNCHANGED <<which, fwvars, pmvars, syvars>>
    \/ which = "firewall" /\ Next /\ UNCHANGED <<which, cfgvars, pmvars, syvars>>
    \/ which = "portmap" /\ PortNext /\ UNCHANGED <<which, cfgvars, fwvars, syvars>>
    \/ which = "syslog" /\ SyslogNext /\ UNCHANGED <<which, cfgvars, fwvars, pmvars>>

MCSpec == MCInit /\ [][MCNext]_<<which, cfgvars, fwvars, pmvars, syvars>>

-----------------------------------------------------------------------------

\* ap_ip and portmap are cleared together.
SetTogether ==
    {{"vpn_enabled", "vpn_privkey"}, {"vpn_enabled", "vpn_ip"}, {"wan_access", "web_password"},
     {"ap_channel", "wifi_cc"}, {"ap_ip", "portmap"}}

\* A rule for half of the addresses, and two settings of the web server's port
SetRules == {[proto |-> "ip", src |-> 3, sbits |-> 1, sport |-> 0,
              dst |-> 0, dbits |-> 0, dport |-> 0, action |-> "allow"]}
SetPorts == {80, 81}

\* A whole TCP packet to the web server, one cut before the ports, and a frame whose
\* destination MAC begins with 0x48: its bytes 12 to 15 are read as the source
Bytes(proto, src, len, dport) ==
    [proto |-> proto, src |-> src, dst |-> 0, len |-> len, sport |-> 9, dport |-> dport]
Arriving(first, raw, header, at0) ==
    [first |-> first, raw |-> raw, kind |-> "ip4", at0 |-> at0, len |-> header.len,
     proto |-> header.proto, src |-> header.src, dst |-> header.dst,
     sport |-> header.sport, dport |-> header.dport]
NoMacs == Bytes("gre", 0, "full", 0)
SetPackets ==
    {Arriving("4ihl", TRUE, Bytes("tcp", 3, "full", 80), NoMacs),
     Arriving("other", FALSE, Bytes("tcp", 1, "noports", 80), NoMacs),
     Arriving("4ihl", FALSE, Bytes("tcp", 1, "full", 80), Bytes("gre", 2, "full", 0))}

SetCrews == {{"console"}, {"console", "web"}}
=============================================================================
