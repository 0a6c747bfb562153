------------------------------ MODULE AclPolicy ------------------------------
(***************************************************************************)
(* What an access list promises its user: an ordered list of rules, of     *)
(* which the first that fits a packet decides ("First-match wins;          *)
(* unmatched packets are allowed by default", README.md:260), and which    *)
(* after a restart is the one that was saved last.  A save may fail.       *)
(*                                                                         *)
(* An address has two bits, and a network is an address and the number of  *)
(* leading bits that count.  Port 0 is any port, protocol "ip" any.        *)
(*                                                                         *)
(* The promise has a hole: of a frame whose destination MAC begins like a  *)
(* bare IP packet nothing is promised (Misleading).                        *)
(***************************************************************************)
EXTENDS Naturals, Sequences, SequencesExt

CONSTANTS
    Rules,     \* the rules a user may write
    Packets,   \* the packets that may arrive
    MaxRules   \* MAX_ACL_ENTRIES

VARIABLES
    policy,    \* the rules, in the order they were written
    kept,      \* the list that was saved
    drafts,    \* lists that are being saved
    arrived,   \* the packet that waits for its verdict
    verdict,   \* what became of the last one
    up         \* the router is running

aclvars == <<policy, kept, drafts, arrived, verdict, up>>

Unmatched == "no match"

\* The addresses that agree with a in their first n bits
Network(a, n) == a - (a % 2^(2 - n))

Ported(proto) == proto \in {"tcp", "udp"}

\* A bare packet tells what it is by its first byte, a frame by its EtherType.
IsIp4(p) == IF p.raw THEN p.first = "4ihl" ELSE p.kind = "ip4"

\* A frame whose first byte, of the destination MAC, is one that a bare packet may have; an
\* impossible header length is enough where the EtherType says nothing.
Misleading(p) ==
    /\ ~p.raw
    /\ p.first \in {"4ihl", "6"} \/ (p.first = "4" /\ p.kind = "other")

Fits(r, p) ==
    /\ IsIp4(p) /\ p.len # "short"
    /\ r.proto \in {"ip", p.proto}
    /\ Network(p.src, r.sbits) = Network(r.src, r.sbits)
    /\ Network(p.dst, r.dbits) = Network(r.dst, r.dbits)
    /\ r.sport # 0 => Ported(p.proto) /\ p.len = "full" /\ p.sport = r.sport
    /\ r.dport # 0 => Ported(p.proto) /\ p.len = "full" /\ p.dport = r.dport

FirstMatch(rules, p) ==
    LET fit == {i \in DOMAIN rules : Fits(rules[i], p)}
    IN IF fit = {} THEN Unmatched
       ELSE rules[CHOOSE i \in fit : \A j \in fit : i <= j].action

Init ==
    /\ policy = <<>> /\ kept = <<>> /\ drafts = {}
    /\ arrived = <<>> /\ verdict = Unmatched /\ up = FALSE

Write(r)  == Len(policy) < MaxRules /\ policy' = Append(policy, r)
Strike(i) == policy' = RemoveAt(policy, i)
Clear     == policy' = <<>>

Edit ==
    /\ up /\ UNCHANGED <<up, arrived, verdict, kept, drafts>>
    /\ \/ \E r \in Rules : Write(r)
       \/ \E i \in DOMAIN policy : Strike(i)
       \/ Clear

\* A packet that finds no rule need not wait.
Pass      == policy = <<>> /\ verdict' = Unmatched /\ UNCHANGED arrived
Arrive(p) == arrived = <<>> /\ arrived' = <<p>> /\ UNCHANGED verdict
Judge(p)  ==
    /\ arrived = <<p>> /\ arrived' = <<>>
    /\ verdict' \in IF Misleading(p) THEN {Unmatched} \cup {policy[i].action : i \in DOMAIN policy}
                    ELSE {FirstMatch(policy, p)}

Filter ==
    /\ up /\ UNCHANGED <<up, policy, kept, drafts>>
    /\ Pass \/ \E p \in Packets : Arrive(p) \/ Judge(p)

\* Several may save at a time, in any order.
Draft == up /\ drafts' = drafts \cup {policy} /\ UNCHANGED <<policy, kept, arrived, verdict, up>>
Save(d) ==
    /\ up /\ kept' \in {kept, d} /\ drafts' \in {drafts, drafts \ {d}}
    /\ UNCHANGED <<policy, arrived, verdict, up>>

PowerOff == up' = FALSE /\ drafts' = {} /\ arrived' = <<>> /\ UNCHANGED <<policy, kept, verdict>>
PowerOn == ~up /\ up' = TRUE /\ policy' = kept /\ UNCHANGED <<kept, drafts, arrived, verdict>>

Next == Edit \/ Filter \/ Draft \/ (\E d \in drafts : Save(d)) \/ PowerOff \/ PowerOn

Spec == Init /\ [][Next]_aclvars
=============================================================================
