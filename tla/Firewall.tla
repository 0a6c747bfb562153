------------------------------ MODULE Firewall ------------------------------
(***************************************************************************)
(* One access list of components/acl (to_esp): the table of slots, the     *)
(* packets that the netif hooks hold against it, the managers (console,    *)
(* web server) that edit and save it, and the rule that                    *)
(* update_web_wan_acl() puts into it and takes out again.                  *)
(*                                                                         *)
(* acl_add(), acl_delete(), acl_clear() and the matching loop run under    *)
(* acl_mutex and are steps; saving and update_web_wan_acl() take the mutex *)
(* several times.  Rules, packets and addresses are those of AclPolicy.    *)
(***************************************************************************)
EXTENDS Naturals, Sequences, FiniteSets, Functions

CONSTANTS
    Rules, Packets, MaxRules,
    NoRule,          \* an invalid slot
    Crews,           \* the sets of managers that may be at work together
    Ports            \* settings of web_port

VARIABLES
    crew,      \* the managers of this behaviour
    slots,     \* acl_lists[ACL_TO_ESP]
    count,     \* acl_rule_count, read without the mutex
    stored,    \* the blob acl_0
    wan,       \* wan_access in NVS
    port,      \* web_port in NVS
    pc,        \* where each manager, and app_main(), is
    copy,      \* the snapshot of save_acl_rules(); the slot that was found
    packet,    \* the packet between the gate and the mutex
    judged     \* the verdict on the last one

fwvars == <<crew, slots, count, stored, wan, port, pc, copy, packet, judged>>

Managers == crew \cup {"boot"}
Index == 1..MaxRules

Unmatched == "no match"

Min1(S) == CHOOSE i \in S : \A j \in S : i <= j

\* a & mask
Masked(a, bits) == a - (a % 2^(2 - bits))

Ported(proto) == proto \in {"tcp", "udp"}

\* Mutant: addresses are stored as they were given.
MutPremasked(r) == r

\* What acl_add() stores
Premasked(r) == [r EXCEPT !.src = Masked(@, r.sbits), !.dst = Masked(@, r.dbits)]

\* The rule of update_web_wan_acl(), for the web server's port
BlockRule(p) ==
    [proto |-> "tcp", src |-> 0, sbits |-> 0, sport |-> 0,
     dst |-> 0, dbits |-> 0, dport |-> p, action |-> "deny"]

BlockRules == {BlockRule(p) : p \in Ports}
Storable == {Premasked(r) : r \in Rules \cup BlockRules}

-----------------------------------------------------------------------------
(* The table                                                               *)

acl_clear == slots' = [i \in Index |-> NoRule] /\ count' = 0

\* Addresses are stored masked, in the first slot that is free.
acl_add(r) ==
    LET free == {i \in Index : slots[i] = NoRule}
    IN IF free = {} THEN UNCHANGED <<slots, count>>
       ELSE /\ slots' = [slots EXCEPT ![Min1(free)] =
                  Premasked(r)]
            /\ count' = count + 1

\* Mutant: the deleted slot is cleared, nothing moves up.
Mutacl_delete(n) ==
    /\ slots[n] # NoRule
    /\ slots' = [slots EXCEPT ![n] = NoRule]
    /\ count' = IF count > 0 THEN count - 1 ELSE count

\* The deleted slot is cleared and the valid ones behind it move up.
acl_delete(n) ==
    LET last == Min1({i \in n..MaxRules : i = MaxRules \/ slots[i + 1] = NoRule})
    IN /\ n \in Index /\ slots[n] # NoRule
       /\ slots' = [i \in Index |->
              IF i < n \/ i > last THEN slots[i]
              ELSE IF i = last THEN NoRule ELSE slots[i + 1]]
       /\ count' = IF count > 0 THEN count - 1 ELSE count

acl_is_empty == count = 0

\* Where the header is looked for: by the first byte, which belongs to the IP header of a
\* bare packet and to the destination MAC of a frame ("4" is a 4 with an impossible header
\* length, which lwIP drops when it is bare), and then by the EtherType
Located(p) ==
    CASE p.first = "4ihl" -> IF p.raw THEN "header" ELSE "in the MACs"
      [] p.first = "6"    -> "nowhere"
      [] OTHER            -> IF p.raw THEN "nowhere"
                             ELSE IF p.kind = "ip4" THEN "header"
                             ELSE IF p.first = "4" /\ p.kind = "other" THEN "in the MACs"
                             ELSE "nowhere"

\* What the bytes there say
Header(p) == IF Located(p) = "in the MACs" THEN p.at0 ELSE p

RuleFits(r, h) ==
    LET ported == Ported(h.proto) /\ h.len = "full"
    IN /\ r.proto \in {"ip", h.proto}
       /\ Masked(h.src, r.sbits) = r.src /\ Masked(h.dst, r.dbits) = r.dst
       /\ r.sport # 0 => ported /\ r.sport = h.sport
       /\ r.dport # 0 => ported /\ r.dport = h.dport

acl_check_packet(p) ==
    LET fit == {i \in Index : slots[i] # NoRule /\ RuleFits(slots[i], Header(p))}
    IN IF Located(p) = "nowhere" \/ Header(p).len = "short" \/ fit = {} THEN Unmatched
       ELSE slots[Min1(fit)].action

-----------------------------------------------------------------------------
(* Packets, on the tcpip thread                                            *)

\* The hooks ask for the number of rules without the mutex.
Gate(p) ==
    /\ pc["boot"] = "idle" /\ packet = <<>>
    /\ IF acl_is_empty
       THEN judged' = Unmatched /\ UNCHANGED packet
       ELSE packet' = <<p>> /\ UNCHANGED judged
    /\ UNCHANGED <<crew, slots, count, stored, wan, port, pc, copy>>

Check ==
    /\ packet # <<>>
    /\ judged' = acl_check_packet(packet[1])
    /\ packet' = <<>>
    /\ UNCHANGED <<crew, slots, count, stored, wan, port, pc, copy>>

-----------------------------------------------------------------------------
(* Managers                                                                *)

Goto(m, l) == pc' = [pc EXCEPT ![m] = l]
Idle(m) == pc[m] = "idle" /\ pc["boot"] = "idle"

\* "acl <list> <rule>", the Add Rule form; saved if there was room
AddRule(m, r) ==
    /\ Idle(m)
    /\ acl_add(r)
    /\ Goto(m, IF slots' = slots THEN "idle" ELSE "snapshot")
    /\ UNCHANGED <<crew, stored, wan, port, copy, packet, judged>>

DeleteRule(m, i) ==
    /\ Idle(m)
    /\ acl_delete(i)
    /\ Goto(m, "snapshot")
    /\ UNCHANGED <<crew, stored, wan, port, copy, packet, judged>>

ClearList(m) ==
    /\ Idle(m)
    /\ acl_clear
    /\ Goto(m, "snapshot")
    /\ UNCHANGED <<crew, stored, wan, port, copy, packet, judged>>

\* save_acl_rules(): a copy under the mutex, written when it is released
Snapshot(m) ==
    /\ pc[m] = "snapshot"
    /\ copy' = [copy EXCEPT ![m] = slots]
    /\ Goto(m, "store")
    /\ UNCHANGED <<crew, slots, count, stored, wan, port, packet, judged>>

\* A write that fails leaves what was stored.
Store(m) ==
    /\ pc[m] = "store"
    /\ stored' \in {stored, copy[m]}
    /\ copy' = [copy EXCEPT ![m] = <<>>]
    /\ Goto(m, "idle")
    /\ UNCHANGED <<crew, slots, count, wan, port, packet, judged>>

\* "web_ui wan_access", or the password removed by either manager
SetWan(m, on) ==
    /\ Idle(m)
    /\ wan' = on
    /\ Goto(m, "search")
    /\ UNCHANGED <<crew, slots, count, stored, port, copy, packet, judged>>

\* "web_ui port" only stores the port; the server keeps the old one until the restart.
SetPort(m, p) ==
    /\ Idle(m) /\ p # port
    /\ port' = p
    /\ UNCHANGED <<crew, slots, count, stored, wan, pc, copy, packet, judged>>

Found ==
    {i \in Index : /\ slots[i] # NoRule
                   /\ slots[i].proto = "tcp" /\ slots[i].dport = port
                   /\ slots[i].action = "deny" /\ slots[i].src = 0 /\ slots[i].dst = 0}

\* update_web_wan_acl() looks for its rule under the mutex ...
Search(m) ==
    /\ pc[m] = "search"
    /\ CASE ~wan /\ Found = {} -> Goto(m, "install") /\ UNCHANGED copy
         [] wan /\ Found # {} -> Goto(m, "uninstall") /\ copy' = [copy EXCEPT ![m] = <<Min1(Found)>>]
         [] OTHER -> Goto(m, "idle") /\ UNCHANGED copy
    /\ UNCHANGED <<crew, slots, count, stored, wan, port, packet, judged>>

\* ... and takes it again to add or to delete.
Install(m) ==
    /\ pc[m] = "install"
    /\ acl_add(BlockRule(port))
    /\ Goto(m, "idle")
    /\ UNCHANGED <<crew, stored, wan, port, copy, packet, judged>>

Uninstall(m) ==
    /\ pc[m] = "uninstall"
    /\ \/ acl_delete(copy[m][1])
       \/ slots[copy[m][1]] = NoRule /\ UNCHANGED <<slots, count>>
    /\ copy' = [copy EXCEPT ![m] = <<>>]
    /\ Goto(m, "idle")
    /\ UNCHANGED <<crew, stored, wan, port, packet, judged>>

\* The power goes, or a restart command: everything in memory is lost.
Halt ==
    /\ pc["boot"] = "idle"
    /\ pc' = [m \in Managers |-> IF m = "boot" THEN "load" ELSE "idle"]
    /\ copy' = [m \in Managers |-> <<>>]
    /\ packet' = <<>>
    /\ UNCHANGED <<crew, slots, count, stored, wan, port, judged>>

\* load_acl_rules() with its acl_recount(); then, unless the web server is disabled,
\* start_webserver() and the rule for it
Load ==
    /\ pc["boot"] = "load"
    /\ slots' = stored
    /\ count' = Cardinality({i \in Index : stored[i] # NoRule})
    /\ \E l \in {"search", "idle"} : Goto("boot", l)
    /\ UNCHANGED <<crew, stored, wan, port, copy, packet, judged>>

-----------------------------------------------------------------------------

Init ==
    /\ crew \in Crews
    /\ slots = [i \in Index |-> NoRule] /\ stored = slots
    /\ count = 0
    /\ wan = FALSE /\ port = (CHOOSE p \in Ports : TRUE)
    /\ pc = [m \in Managers |-> IF m = "boot" THEN "load" ELSE "idle"]
    /\ copy = [m \in Managers |-> <<>>]
    /\ packet = <<>> /\ judged = Unmatched

Next ==
    \/ \E p \in Packets : Gate(p)
    \/ Check
    \/ \E m \in Managers :
         \/ Snapshot(m) \/ Store(m)
         \/ Search(m) \/ Install(m) \/ Uninstall(m)
    \/ \E m \in crew :
         \/ \E r \in Rules : AddRule(m, r)
         \/ \E i \in Index : DeleteRule(m, i)
         \/ ClearList(m)
         \/ \E on \in BOOLEAN : SetWan(m, on)
         \/ \E p \in Ports : SetPort(m, p)
    \/ Halt \/ Load

Spec == Init /\ [][Next]_fwvars

-----------------------------------------------------------------------------
(* Properties                                                              *)

Valid == {i \in Index : slots[i] # NoRule}

\* Whoever edits the list at the same time, the rules fill the table from its first slot
\* on and their number is the one the hooks read, so that no rule is ever hidden by the
\* gate (acl_is_empty) or overtaken by one that was written later.
ListSound ==
    /\ slots \in [Index -> Storable \cup {NoRule}]
    /\ Valid = 1..count

\* Taking the block rule out again takes no other: with one manager at work, a rule that
\* the user wrote only goes when the user deletes it.
OnlyBlockRuleGoes ==
    [][\A m \in Managers :
         Cardinality(crew) = 1 /\ pc[m] = "uninstall" /\ pc'[m] = "idle" /\ pc'["boot"] = "idle"
         => \A r \in Storable \ BlockRules :
              Cardinality({i \in Index : slots'[i] = r}) = Cardinality({i \in Index : slots[i] = r})]_fwvars

\* The rules of a table
AsList(t) == [i \in 1..Cardinality({j \in Index : t[j] # NoRule}) |-> t[i]]

\* The list is what its user wrote, in that order, and the first rule that fits a packet
\* decides about it ("First-match wins", README.md:260); a restart brings back the list whose
\* save succeeded last.
Policy == INSTANCE AclPolicy WITH
    Rules   <- Storable,
    policy  <- [i \in 1..count |-> slots[i]],
    kept    <- AsList(stored),
    drafts  <- {AsList(copy[m]) : m \in {n \in Managers : pc[n] = "store"}},
    arrived <- packet,
    verdict <- judged,
    up      <- pc["boot"] # "load"

ImplementsPolicy == Policy!Spec
=============================================================================
