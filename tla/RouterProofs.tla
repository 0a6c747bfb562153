---------------------------- MODULE RouterProofs -----------------------------
(***************************************************************************)
(* What the tcpip thread consults for every packet, and what is logged.    *)
(*                                                                         *)
(* The firewall, for any rules, any size of the list and any number of     *)
(* managers at work on it together: ListSound, and that the list           *)
(* implements AclPolicy.  What must be added for the first: the tables     *)
(* that are on their way to the flash, and in it, are sound lists as well  *)
(* (Packed).  For the second: no packet waits and no manager works while   *)
(* the router starts (BootIdle).  Then acl_add() appends, acl_delete()     *)
(* strikes one out, save_acl_rules() drafts and keeps a list, the boot is  *)
(* PowerOn, and the first match in the table is the first in the list;     *)
(* every other step is none of the user's.                                 *)
(*                                                                         *)
(* Port forwarding, for any ports, targets, addresses and length of the    *)
(* table, while the tasks do not overlap: NaptIsTable.  Exact says what    *)
(* lwIP holds between two tasks.  In the middle of one, Busy says what is  *)
(* missing: nothing for a rebuild but that lwIP holds at most one entry    *)
(* for each port of the table (Thin, Known), so that deleting the table's  *)
(* ports empties it; a single port for an edit.                            *)
(*                                                                         *)
(* The syslog client: FormatsInLiveBuffers is inductive as it stands,      *)
(* provided that no logger is taken for nobody; the only step that frees   *)
(* the buffers finds their lock free.                                      *)
(***************************************************************************)
EXTENDS Firewall, PortMap, SyslogClient, FiniteSetTheorems, SequenceTheorems, TLAPS

-----------------------------------------------------------------------------
(* The firewall's list                                                     *)

Tables == [Index -> Storable \cup {NoRule}]
Used(t) == {i \in Index : t[i] # NoRule}

\* The rules fill a table from its first slot on.
Packed(t) == t \in Tables /\ \E n \in 0..MaxRules : Used(t) = 1..n

ListInv ==
    /\ slots \in Tables /\ count \in 0..MaxRules
    /\ Valid = 1..count

CopiesInv ==
    /\ Packed(stored)
    /\ DOMAIN pc = Managers /\ DOMAIN copy = Managers
    /\ \A m \in Managers : pc[m] = "store" => Packed(copy[m])

IInv == ListInv /\ CopiesInv /\ port \in Ports

\* An invalid slot is no rule.
Given == MaxRules \in Nat /\ NoRule \notin Storable /\ Ports # {}

-----------------------------------------------------------------------------
(* The table                                                               *)

LEMMA AddInv ==
    ASSUME Given, ListInv, NEW r, Premasked(r) \in Storable, acl_add(r)
    PROVE  ListInv'
  <1> DEFINE free == {i \in Index : slots[i] = NoRule}
  <1> USE DEF Given, ListInv, Index
  <1>1. free = (count + 1)..MaxRules
    BY DEF Valid
  <1>2. CASE free = {}
    BY <1>2 DEF acl_add, Valid
  <1>3. CASE free # {}
    <2>1. count < MaxRules /\ count + 1 \in free
      BY <1>1, <1>3
    <2>2. Min1(free) = count + 1
      BY <1>1, <2>1 DEF Min1
    <2>3. slots' = [slots EXCEPT ![count + 1] = Premasked(r)] /\ count' = count + 1
      BY <1>3, <2>2 DEF acl_add
    <2>4. slots' \in Tables
      BY <2>3 DEF Tables
    <2>5. \A i \in Index : slots'[i] # NoRule <=> i \in 1..count \/ i = count + 1
      BY <2>1, <2>3 DEF Valid, Tables
    <2>6. Valid' = 1..count'
      BY <2>1, <2>3, <2>5 DEF Valid
    <2> QED BY <2>1, <2>3, <2>4, <2>6
  <1> QED BY <1>2, <1>3

LEMMA DeleteInv ==
    ASSUME Given, ListInv, NEW n, acl_delete(n)
    PROVE  ListInv'
  <1> DEFINE ends == {i \in n..MaxRules : i = MaxRules \/ slots[i + 1] = NoRule}
  <1> USE DEF Given, ListInv, Index
  <1>1. n \in 1..count
    BY DEF acl_delete, Valid
  <1>2. count \in ends
    BY <1>1 DEF Valid
  <1>3. \A i \in ends : count <= i
    BY <1>1 DEF Valid
  <1>4. Min1(ends) = count
    BY <1>2, <1>3 DEF Min1
  <1>5. /\ slots' = [i \in Index |-> IF i < n \/ i > count THEN slots[i]
                                     ELSE IF i = count THEN NoRule ELSE slots[i + 1]]
        /\ count' = count - 1
    BY <1>1, <1>4 DEF acl_delete
  <1>6. slots' \in Tables
    BY <1>1, <1>5 DEF Tables
  <1>7. \A i \in Index : slots'[i] # NoRule <=> i \in 1..(count - 1)
    BY <1>1, <1>5 DEF Valid, Tables
  <1>8. Valid' = 1..count'
    BY <1>1, <1>5, <1>7 DEF Valid
  <1> QED BY <1>1, <1>5, <1>6, <1>8

-----------------------------------------------------------------------------
(* Steps                                                                   *)

LEMMA InitInv ==
    ASSUME Given, Init
    PROVE  IInv
  <1> USE DEF Given, Init, Index
  <1>1. slots \in Tables /\ Used(slots) = 1..0 /\ Valid = 1..0
    BY DEF Tables, Used, Valid
  <1>2. ListInv
    BY <1>1 DEF ListInv
  <1>3. Packed(stored)
    <2>1. stored \in Tables /\ 0 \in 0..MaxRules /\ Used(stored) = 1..0
      BY <1>1
    <2> QED BY <2>1 DEF Packed
  <1>4. CopiesInv
    BY <1>3 DEF CopiesInv
  <1> QED BY <1>2, <1>4 DEF IInv

\* A manager that goes anywhere but to "store" leaves the copies as they are.
LEMMA GotoInv ==
    ASSUME CopiesInv, NEW m \in Managers, NEW l, l # "store", Goto(m, l),
           UNCHANGED <<crew, stored>>,
           \/ UNCHANGED copy
           \/ \E c : copy' = [copy EXCEPT ![m] = c]
    PROVE  CopiesInv'
  BY DEF CopiesInv, Goto, Managers

LEMMA ManagerInv ==
    ASSUME Given, IInv, NEW m \in Managers,
           Snapshot(m) \/ Store(m) \/ Search(m) \/ Install(m) \/ Uninstall(m)
    PROVE  IInv'
  <1> USE DEF IInv
  <1>1. CASE Snapshot(m)
    <2>1. Packed(slots)
      BY DEF Packed, ListInv, Used, Valid
    <2>2. ListInv'
      BY <1>1 DEF Snapshot, ListInv, Valid
    <2>3. CopiesInv'
      BY <1>1, <2>1 DEF Snapshot, Goto, CopiesInv, Managers
    <2> QED BY <1>1, <2>2, <2>3 DEF Snapshot
  <1>2. CASE Store(m)
    <2>1. ListInv'
      BY <1>2 DEF Store, ListInv, Valid
    <2>2. CopiesInv'
      BY <1>2 DEF Store, Goto, CopiesInv, Managers
    <2> QED BY <1>2, <2>1, <2>2 DEF Store
  <1>3. CASE Search(m)
    <2>1. ListInv'
      BY <1>3 DEF Search, ListInv, Valid
    <2>2. /\ \E l \in {"install", "uninstall", "idle"} : Goto(m, l)
          /\ UNCHANGED copy \/ \E c : copy' = [copy EXCEPT ![m] = c]
      BY <1>3 DEF Search
    <2>3. CopiesInv'
      BY <1>3, <2>2, GotoInv DEF Search
    <2> QED BY <1>3, <2>1, <2>3 DEF Search
  <1>4. CASE Install(m)
    <2>1. Premasked(BlockRule(port)) \in Storable
      BY DEF Storable, BlockRules
    <2>2. ListInv'
      BY <1>4, <2>1, AddInv DEF Install
    <2>3. CopiesInv'
      BY <1>4, GotoInv DEF Install
    <2> QED BY <1>4, <2>2, <2>3 DEF Install
  <1>5. CASE Uninstall(m)
    <2>1. acl_delete(copy[m][1]) => ListInv'
      BY DeleteInv
    <2>2. UNCHANGED <<slots, count>> => ListInv'
      BY DEF ListInv, Valid
    <2>3. ListInv'
      BY <1>5, <2>1, <2>2 DEF Uninstall
    <2>4. CopiesInv'
      BY <1>5, GotoInv DEF Uninstall
    <2> QED BY <1>5, <2>3, <2>4 DEF Uninstall
  <1> QED BY <1>1, <1>2, <1>3, <1>4, <1>5

LEMMA CrewInv ==
    ASSUME Given, IInv, NEW m \in crew,
           \/ \E r \in Rules : AddRule(m, r)
           \/ \E i \in Index : DeleteRule(m, i)
           \/ ClearList(m)
           \/ \E on \in BOOLEAN : SetWan(m, on)
           \/ \E p \in Ports : SetPort(m, p)
    PROVE  IInv'
  <1> USE DEF IInv
  <1>m. m \in Managers
    BY DEF Managers
  <1>1. ASSUME NEW r \in Rules, AddRule(m, r)
        PROVE  IInv'
    <2>1. ListInv'
      BY <1>1, AddInv DEF AddRule, Storable
    <2>2. \E l \in {"idle", "snapshot"} : Goto(m, l)
      BY <1>1 DEF AddRule
    <2>3. CopiesInv'
      BY <1>1, <1>m, <2>2, GotoInv DEF AddRule
    <2> QED BY <1>1, <2>1, <2>3 DEF AddRule
  <1>2. ASSUME NEW i \in Index, DeleteRule(m, i)
        PROVE  IInv'
    <2>1. ListInv'
      BY <1>2, DeleteInv DEF DeleteRule
    <2>2. CopiesInv'
      BY <1>2, <1>m, GotoInv DEF DeleteRule
    <2> QED BY <1>2, <2>1, <2>2 DEF DeleteRule
  <1>3. CASE ClearList(m)
    <2>1. slots' \in Tables /\ Valid' = 1..0 /\ count' = 0
      BY <1>3 DEF ClearList, acl_clear, Tables, Valid, Index
    <2>2. ListInv'
      BY <2>1 DEF ListInv, Given
    <2>3. CopiesInv'
      BY <1>3, <1>m, GotoInv DEF ClearList
    <2> QED BY <1>3, <2>2, <2>3 DEF ClearList
  <1>4. ASSUME NEW on \in BOOLEAN, SetWan(m, on)
        PROVE  IInv'
    <2>1. ListInv'
      BY <1>4 DEF SetWan, ListInv, Valid
    <2>2. CopiesInv'
      BY <1>4, <1>m, GotoInv DEF SetWan
    <2> QED BY <1>4, <2>1, <2>2 DEF SetWan
  <1>5. ASSUME NEW p \in Ports, SetPort(m, p)
        PROVE  IInv'
    BY <1>5 DEF SetPort, ListInv, Valid, CopiesInv, Managers
  <1> QED BY <1>1, <1>2, <1>3, <1>4, <1>5

LEMMA PacketInv ==
    ASSUME IInv, UNCHANGED <<crew, slots, count, stored, port, pc, copy>>
    PROVE  IInv'
  BY DEF IInv, ListInv, Valid, CopiesInv, Managers

LEMMA HaltInv ==
    ASSUME IInv, Halt
    PROVE  IInv'
  <1>1. ListInv' /\ port' \in Ports
    BY DEF IInv, ListInv, Valid, Halt
  <1>2. CopiesInv'
    BY DEF IInv, CopiesInv, Halt, Managers
  <1> QED BY <1>1, <1>2 DEF IInv

LEMMA LoadInv ==
    ASSUME Given, IInv, Load
    PROVE  IInv'
  <1>1. PICK n \in 0..MaxRules : Used(stored) = 1..n
    BY DEF IInv, CopiesInv, Packed
  <1>2. Cardinality(1..n) = n
    BY FS_Interval DEF Given
  <1>3. slots' = stored /\ count' = n
    BY <1>1, <1>2 DEF Load, Used
  <1>4. ListInv'
    BY <1>1, <1>3 DEF IInv, ListInv, CopiesInv, Packed, Used, Valid
  <1>5. "boot" \in Managers /\ \E l \in {"search", "idle"} : Goto("boot", l)
    BY DEF Managers, Load
  <1>6. CopiesInv'
    BY <1>5, GotoInv DEF Load, IInv
  <1> QED BY <1>4, <1>6 DEF IInv, Load

-----------------------------------------------------------------------------

\* Whatever the managers, app_main() and the power do: the rules fill the list from its
\* first slot on, and the hooks read their number.
THEOREM ListStaysSound ==
    ASSUME MaxRules \in Nat, NoRule \notin Storable, Ports # {}
    PROVE  Spec => []ListSound
  <1> USE DEF Given
  <1>1. Init => IInv
    BY InitInv
  <1>2. IInv /\ [Next]_fwvars => IInv'
    <2> SUFFICES ASSUME IInv, [Next]_fwvars PROVE IInv'
      OBVIOUS
    <2>1. CASE Check \/ \E p \in Packets : Gate(p)
      BY <2>1, PacketInv DEF Check, Gate
    <2>2. CASE UNCHANGED fwvars
      BY <2>2, PacketInv DEF fwvars
    <2> QED BY <2>1, <2>2, ManagerInv, CrewInv, HaltInv, LoadInv DEF Next
  <1>3. IInv => ListSound
    BY DEF IInv, ListInv, ListSound, Tables
  <1> QED BY <1>1, <1>2, <1>3, PTL DEF Spec

-----------------------------------------------------------------------------
(* The list, and what its user wrote                                       *)

\* What AclPolicy is told: the rules in order, and whether the router is running.
Written == [i \in 1..count |-> slots[i]]
Kept == AsList(stored)
Drafts == {AsList(copy[m]) : m \in {n \in Managers : pc[n] = "store"}}
Running == pc["boot"] # "load"

\* What the edits of the list leave alone
Aside == <<Kept, Drafts, packet, judged, Running>>

\* One step of the list is a step of the user's list, or none.
Maps == Policy!Next \/ UNCHANGED <<Written, Aside>>

\* While the router is starting, no packet waits and no manager is at work.
BootIdle ==
    /\ packet = <<>> \/ \E p \in Packets : packet = <<p>>
    /\ ~Running => packet = <<>> /\ \A m \in Managers : m = "boot" \/ pc[m] = "idle"

\* A rule as parse_acl_args() and the Add Rule form make it.
Form ==
    [proto : {"ip", "tcp", "udp", "icmp"}, src : 0..3, sbits : 0..2, sport : Nat,
     dst : 0..3, dbits : 0..2, dport : Nat, action : {"allow", "deny"}]

\* Rules and packets are rules and packets, of the model's addresses.
WellFormed ==
    /\ Rules \subseteq Form /\ Ports \subseteq Nat
    /\ \A p \in Packets : p.src \in 0..3 /\ p.dst \in 0..3 /\ p.raw \in BOOLEAN

\* Masking an address again changes nothing.
LEMMA MaskedTwice ==
    ASSUME NEW a \in 0..3, NEW n \in 0..2
    PROVE  /\ Masked(a, n) \in 0..3 /\ Masked(Masked(a, n), n) = Masked(a, n)
           /\ Masked(a, 0) = 0
           /\ Policy!Network(a, n) = Masked(a, n)
<1>1. 2^(2 - 0) = 4 /\ 2^(2 - 1) = 2 /\ 2^(2 - 2) = 1
  OBVIOUS
<1>2. n = 0 \/ n = 1 \/ n = 2
  OBVIOUS
<1>3. Policy!Network(a, n) = Masked(a, n)
  BY DEF Policy!Network, Masked
<1>4. Masked(a, 0) = 0
  BY <1>1 DEF Masked
<1>5. ASSUME NEW m \in {1, 2, 4}
      PROVE  a - (a % m) \in 0..3 /\ (a - (a % m)) - ((a - (a % m)) % m) = a - (a % m)
  OBVIOUS
<1>6. 2^(2 - n) \in {1, 2, 4}
  BY <1>1, <1>2
<1>7. Masked(a, n) \in 0..3 /\ Masked(Masked(a, n), n) = Masked(a, n)
  BY <1>5, <1>6 DEF Masked
<1> QED
  BY <1>3, <1>4, <1>7

\* What is stored is the rule with both addresses masked.
LEMMA StoredForm ==
    ASSUME WellFormed, NEW r \in Storable
    PROVE  /\ r.sbits \in 0..2 /\ r.dbits \in 0..2 /\ r.src \in 0..3 /\ r.dst \in 0..3
           /\ Masked(r.src, r.sbits) = r.src /\ Masked(r.dst, r.dbits) = r.dst
<1>1. PICK g \in Form : r = Premasked(g)
  BY DEF Storable, BlockRules, BlockRule, WellFormed, Form
<1>2. /\ r.sbits = g.sbits /\ r.dbits = g.dbits
      /\ r.src = Masked(g.src, g.sbits) /\ r.dst = Masked(g.dst, g.dbits)
  BY <1>1 DEF Premasked, Form
<1>3. g.sbits \in 0..2 /\ g.dbits \in 0..2 /\ g.src \in 0..3 /\ g.dst \in 0..3
  BY DEF Form
<1> QED
  BY <1>2, <1>3, MaskedTwice

\* Where nothing misleads it, acl_check_packet() finds the header of what is IPv4.
LEMMA HeaderFound ==
    ASSUME WellFormed, NEW p \in Packets, ~Policy!Misleading(p)
    PROVE  /\ Located(p) = IF Policy!IsIp4(p) THEN "header" ELSE "nowhere"
           /\ Header(p) = p
<1>1. CASE p.raw
  BY <1>1 DEF Located, Header, Policy!IsIp4
<1>2. CASE ~p.raw
  BY <1>2 DEF Located, Header, Policy!IsIp4, Policy!Misleading
<1> QED
  BY <1>1, <1>2

\* The matching loop's test is the user's.
LEMMA FitsAgree ==
    ASSUME WellFormed, NEW r \in Storable, NEW p \in Packets, ~Policy!Misleading(p)
    PROVE  (RuleFits(r, Header(p)) /\ Located(p) # "nowhere" /\ p.len # "short")
               <=> Policy!Fits(r, p)
<1>h. Located(p) = (IF Policy!IsIp4(p) THEN "header" ELSE "nowhere") /\ Header(p) = p
  BY HeaderFound
<1>1. CASE Policy!IsIp4(p)
  <2>1. Located(p) = "header"
    BY <1>h, <1>1
  <2>2. /\ p.src \in 0..3 /\ p.dst \in 0..3
        /\ r.sbits \in 0..2 /\ r.dbits \in 0..2 /\ r.src \in 0..3 /\ r.dst \in 0..3
        /\ Masked(r.src, r.sbits) = r.src /\ Masked(r.dst, r.dbits) = r.dst
    BY StoredForm DEF WellFormed
  <2>3. /\ Masked(p.src, r.sbits) = r.src <=>
              Policy!Network(p.src, r.sbits) = Policy!Network(r.src, r.sbits)
        /\ Masked(p.dst, r.dbits) = r.dst <=>
              Policy!Network(p.dst, r.dbits) = Policy!Network(r.dst, r.dbits)
    BY <2>2, MaskedTwice
  <2>4. Policy!Ported(p.proto) <=> Ported(p.proto)
    BY DEF Policy!Ported, Ported
  <2> QED
    BY <1>h, <1>1, <2>1, <2>3, <2>4 DEF RuleFits, Policy!Fits
<1>2. CASE ~Policy!IsIp4(p)
  BY <1>h, <1>2 DEF Policy!Fits
<1> QED
  BY <1>1, <1>2

\* The least number of a set of natural numbers.
LEMMA LeastNat ==
    ASSUME NEW S \in SUBSET Nat, S # {}
    PROVE  \E n \in S : \A m \in S : n <= m
<1>1. PICK n \in S : \A m \in S : <<m, n>> \notin OpToRel(<, Nat)
  BY NatLessThanWellFounded, WFMin, Zenon
<1>2. ASSUME NEW m \in S
      PROVE  n <= m
  <2>1. ~(m < n)
    BY <1>1 DEF OpToRel
  <2> QED
    BY <2>1
<1> QED
  BY <1>2

LEMMA FirstSlot ==
    ASSUME MaxRules \in Nat, NEW S \in SUBSET Index, S # {}
    PROVE  Min1(S) \in S
<1>1. PICK i \in S : \A j \in S : i <= j
  BY LeastNat DEF Index
<1> QED
  BY <1>1 DEF Min1

\* The first match in the table is the first in the list.
LEMMA VerdictAgrees ==
    ASSUME WellFormed, ListInv, Given, NEW p \in Packets, ~Policy!Misleading(p)
    PROVE  acl_check_packet(p) = Policy!FirstMatch(Written, p)
<1> DEFINE fit == {i \in Index : slots[i] # NoRule /\ RuleFits(slots[i], Header(p))}
           user == {i \in DOMAIN Written : Policy!Fits(Written[i], p)}
           seen == Located(p) # "nowhere" /\ p.len # "short"
<1>1. DOMAIN Written = 1..count /\ 1..count \subseteq Index
  BY DEF Written, ListInv, Given, Index
<1>2. ASSUME NEW i \in 1..count
      PROVE  /\ Written[i] = slots[i] /\ slots[i] \in Storable /\ slots[i] # NoRule
             /\ (RuleFits(slots[i], Header(p)) /\ seen) <=> Policy!Fits(slots[i], p)
  <2>1. Written[i] = slots[i] /\ slots[i] \in Storable /\ slots[i] # NoRule
    BY <1>1 DEF Written, ListInv, Tables, Valid
  <2> QED
    BY <2>1, FitsAgree
<1>3. (\A i \in Index : slots[i] # NoRule => i \in 1..count) /\ Header(p) = p
  BY HeaderFound DEF ListInv, Valid
<1>4. user \subseteq fit /\ (seen => fit \subseteq user)
  BY <1>1, <1>2, <1>3
<1>5. CASE ~seen \/ fit = {}
  <2>1. user = {}
    BY <1>1, <1>2, <1>4, <1>5
  <2> QED
    BY <1>3, <1>5, <2>1 DEF acl_check_packet, Policy!FirstMatch, Unmatched, Policy!Unmatched
<1>6. CASE seen /\ fit # {}
  <2>1. fit = user
    BY <1>4, <1>6
  <2>2. acl_check_packet(p) = slots[Min1(fit)].action
    BY <1>3, <1>6 DEF acl_check_packet
  <2>3. Policy!FirstMatch(Written, p) = Written[Min1(user)].action
    BY <1>6, <2>1 DEF Policy!FirstMatch, Min1
  <2>4. Min1(fit) \in 1..count
    <3>1. Min1(fit) \in fit
      <4>1. fit \in SUBSET Index
        OBVIOUS
      <4> HIDE DEF fit
      <4> QED
        BY <1>6, <4>1, FirstSlot DEF Given
    <3> QED
      BY <1>1, <2>1, <3>1
  <2> QED
    BY <1>2, <2>1, <2>2, <2>3, <2>4
<1> QED
  BY <1>5, <1>6

\* Even of a frame that misleads it, what decides is a rule of the list, or nothing.
LEMMA VerdictOfRule ==
    ASSUME ListInv, Given, NEW p
    PROVE  acl_check_packet(p) \in {Unmatched} \cup {Written[i].action : i \in DOMAIN Written}
<1> DEFINE fit == {i \in Index : slots[i] # NoRule /\ RuleFits(slots[i], Header(p))}
<1>1. acl_check_packet(p) = Unmatched \/ (fit # {} /\ acl_check_packet(p) = slots[Min1(fit)].action)
  BY DEF acl_check_packet
<1>2. CASE fit # {}
  <2>1. fit \in SUBSET Index /\ fit \subseteq Valid
    BY DEF Valid
  <2>2. Min1(fit) \in Valid
    <3> HIDE DEF fit
    <3> QED
      BY <1>2, <2>1, FirstSlot DEF Given
  <2>3. Min1(fit) \in DOMAIN Written /\ Written[Min1(fit)] = slots[Min1(fit)]
    <3> HIDE DEF fit
    <3> QED
      BY <2>2 DEF ListInv, Written
  <2> HIDE DEF fit
  <2> QED
    BY <1>1, <2>3
<1> QED
  BY <1>1, <1>2

-----------------------------------------------------------------------------
\* The used slots of a table, as a sequence.
LEMMA SlotsAsList ==
    ASSUME NEW n \in Nat, NEW t, \A i \in 1..n : t[i] \in Storable
    PROVE  /\ [i \in 1..n |-> t[i]] \in Seq(Storable)
           /\ Len([i \in 1..n |-> t[i]]) = n
OBVIOUS

LEMMA WrittenIsList ==
    ASSUME ListInv, Given
    PROVE  /\ Written \in Seq(Storable) /\ Len(Written) = count
           /\ \A i \in 1..count : Written[i] = slots[i]
<1>1. count \in Nat /\ \A i \in 1..count : slots[i] \in Storable
  BY DEF ListInv, Tables, Valid, Given
<1> QED
  BY <1>1, SlotsAsList DEF Written

\* The same after a step.
LEMMA NextIsList ==
    ASSUME ListInv', Given
    PROVE  /\ Written' \in Seq(Storable) /\ Len(Written') = count'
           /\ \A i \in 1..count' : Written'[i] = slots'[i]
<1>1. count' \in Nat /\ \A i \in 1..count' : slots'[i] \in Storable
  BY DEF ListInv, Tables, Valid, Given
<1>2. Written' = [i \in 1..count' |-> slots'[i]]
  BY DEF Written
<1> QED
  BY <1>1, <1>2, SlotsAsList

\* A step of the table that leaves everything else alone is an edit.
LEMMA EditMaps ==
    ASSUME Running, UNCHANGED Aside,
           \/ \E r \in Storable : Policy!Write(r)
           \/ \E i \in DOMAIN Written : Policy!Strike(i)
           \/ Policy!Clear
    PROVE  Policy!Edit
BY DEF Policy!Edit, Written, Aside, Kept, Drafts, Running

\* acl_add() appends, unless the table is full.
LEMMA AddMaps ==
    ASSUME Given, ListInv, NEW r, Premasked(r) \in Storable, acl_add(r),
           Running, UNCHANGED Aside
    PROVE  Maps
<1> DEFINE free == {i \in Index : slots[i] = NoRule}
<1>1. free = (count + 1)..MaxRules
  BY DEF Given, ListInv, Index, Valid
<1>2. CASE free = {}
  BY <1>2 DEF acl_add, Maps, Written
<1>3. CASE free # {}
  <2>1. count \in Nat /\ count < MaxRules /\ count + 1 \in free
    BY <1>1, <1>3 DEF Given, ListInv
  <2>2. Min1(free) = count + 1
    BY <1>1, <2>1 DEF Min1, Given
  <2>3. slots' = [slots EXCEPT ![count + 1] = Premasked(r)] /\ count' = count + 1
    BY <1>3, <2>2 DEF acl_add
  <2>4. ListInv'
    BY AddInv
  <2>5. /\ Written \in Seq(Storable) /\ Len(Written) = count
        /\ Written' \in Seq(Storable) /\ Len(Written') = count + 1
    BY <2>3, <2>4, WrittenIsList, NextIsList
  <2>6. \A i \in 1..count + 1 : Written'[i] = Append(Written, Premasked(r))[i]
    BY <2>1, <2>3, <2>5 DEF Written, ListInv, Tables, Index
  <2>7. Written' = Append(Written, Premasked(r))
    BY <2>5, <2>6, SeqEqual, AppendProperties
  <2>8. Policy!Write(Premasked(r))
    BY <2>1, <2>5, <2>7 DEF Policy!Write, Written
  <2>9. Policy!Edit
    BY <2>8, EditMaps
  <2> QED
    BY <2>9 DEF Maps, Policy!Next
<1> QED
  BY <1>2, <1>3

\* acl_delete() strikes a rule out.
LEMMA DeleteMaps ==
    ASSUME Given, ListInv, NEW n, acl_delete(n),
           Running, UNCHANGED Aside
    PROVE  Maps
<1> DEFINE ends == {i \in n..MaxRules : i = MaxRules \/ slots[i + 1] = NoRule}
<1>1. n \in 1..count /\ count \in Nat
  BY DEF acl_delete, Valid, Given, ListInv, Index
<1>2. count \in ends /\ \A i \in ends : count <= i
  BY <1>1 DEF Valid, Given, ListInv, Index
<1>3. Min1(ends) = count
  BY <1>1, <1>2 DEF Min1, Given
<1>4. /\ slots' = [i \in Index |-> IF i < n \/ i > count THEN slots[i]
                                   ELSE IF i = count THEN NoRule ELSE slots[i + 1]]
      /\ count' = count - 1
  BY <1>1, <1>3 DEF acl_delete
<1>5. ListInv'
  BY DeleteInv
<1>6. /\ Written \in Seq(Storable) /\ Len(Written) = count
      /\ Written' \in Seq(Storable) /\ Len(Written') = count - 1
      /\ \A i \in 1..count : Written[i] = slots[i]
      /\ \A i \in 1..count - 1 : Written'[i] = slots'[i]
  BY <1>4, <1>5, WrittenIsList, NextIsList
<1> DEFINE front == SubSeq(Written, 1, n - 1)
           back  == SubSeq(Written, n + 1, count)
<1>7. /\ front \in Seq(Storable) /\ Len(front) = n - 1
      /\ \A i \in 1..n - 1 : front[i] = Written[i]
  BY <1>1, <1>6, SubSeqProperties
<1>8. /\ back \in Seq(Storable) /\ Len(back) = count - n
      /\ \A i \in 1..count - n : back[i] = Written[n + i]
  BY <1>1, <1>6, SubSeqProperties
<1>9. front \o back = Written'
  <2>1. front \o back \in Seq(Storable) /\ Len(front \o back) = count - 1
    BY <1>1, <1>7, <1>8, ConcatProperties
  <2>2. ASSUME NEW i \in 1..count - 1
        PROVE  (front \o back)[i] = Written'[i]
    <3>1. (front \o back)[i] = IF i < n THEN front[i] ELSE back[i - (n - 1)]
      BY <1>1, <1>7, <1>8, ConcatProperties
    <3>2. i \in Index /\ slots'[i] = IF i < n THEN slots[i] ELSE slots[i + 1]
      BY <1>1, <1>4 DEF ListInv, Index, Given
    <3>3. CASE i < n
      BY <1>1, <1>6, <1>7, <3>1, <3>2, <3>3
    <3>4. CASE i >= n
      <4>1. back[i - (n - 1)] = Written[i + 1] /\ Written[i + 1] = slots[i + 1]
        <5>1. i - (n - 1) \in 1..count - n /\ n + (i - (n - 1)) = i + 1 /\ i + 1 \in 1..count
          BY <1>1, <3>4
        <5> QED
          BY <1>6, <1>8, <5>1
      <4> QED
        BY <1>1, <1>6, <3>1, <3>2, <3>4, <4>1
    <3> QED
      BY <1>1, <3>3, <3>4
  <2> QED
    BY <1>6, <2>1, <2>2, SeqEqual
<1>10. n \in DOMAIN Written /\ Policy!Strike(n)
  BY <1>1, <1>6, <1>9 DEF Policy!Strike, Policy!RemoveAt, Written
<1>11. Policy!Edit
  BY <1>10, EditMaps
<1> QED
  BY <1>11 DEF Maps, Policy!Next

\* A step that changes no rule and nothing else of the list is none of the user's.
LEMMA Stutters ==
    ASSUME UNCHANGED <<slots, count>>, UNCHANGED Aside
    PROVE  Maps
BY DEF Maps, Written

\* What a manager goes to is never the boot.
LEMMA GotoRuns ==
    ASSUME CopiesInv, NEW m \in Managers, pc[m] # "load", NEW l, l # "load", Goto(m, l)
    PROVE  Running' <=> Running
BY DEF CopiesInv, Goto, Running

\* A manager that is not saving, and does not begin to, leaves the saved lists alone.
LEMMA GotoAside ==
    ASSUME CopiesInv, NEW m \in Managers, pc[m] \notin {"load", "store"},
           NEW l, l \notin {"load", "store"}, Goto(m, l),
           UNCHANGED <<crew, stored, packet, judged>>,
           \/ UNCHANGED copy
           \/ \E c : copy' = [copy EXCEPT ![m] = c]
    PROVE  UNCHANGED Aside
<1> DEFINE saving == {n \in Managers : pc[n] = "store"}
<1>1. \A n \in Managers : pc'[n] = IF n = m THEN l ELSE pc[n]
  BY DEF CopiesInv, Goto
<1>2. saving' = saving /\ \A n \in saving : n # m /\ copy'[n] = copy[n]
  BY <1>1 DEF CopiesInv, Managers
<1>3. Drafts' = Drafts
  <2>1. Drafts' = {AsList(copy'[n]) : n \in saving}
    BY <1>2 DEF Drafts, AsList
  <2>2. Drafts = {AsList(copy[n]) : n \in saving}
    BY DEF Drafts
  <2>3. \A n \in saving : copy'[n] = copy[n]
    BY <1>2
  <2> HIDE DEF saving
  <2> QED
    BY <2>1, <2>2, <2>3
<1>4. Kept' = Kept
  BY DEF Kept, AsList
<1> QED
  BY <1>3, <1>4, GotoRuns DEF Aside, Running

\* A manager is at work only when the router runs.
LEMMA ManagerRuns ==
    ASSUME BootIdle, NEW m \in Managers, pc[m] \notin {"idle", "load"}
    PROVE  Running
BY DEF BootIdle, Running

\* The copy of save_acl_rules() is the list as it is then.
LEMMA SnapshotMaps ==
    ASSUME Given, IInv, BootIdle, NEW m \in Managers, Snapshot(m)
    PROVE  Maps
<1> USE DEF IInv
<1> DEFINE saving == {n \in Managers : pc[n] = "store"}
<1>1. Running /\ Running'
  BY ManagerRuns, GotoRuns DEF Snapshot
<1>2. AsList(slots) = Written
  <2>1. {j \in Index : slots[j] # NoRule} = 1..count /\ count \in Nat
    BY DEF ListInv, Valid, Given
  <2>2. Cardinality(1..count) = count
    BY <2>1, FS_Interval
  <2> QED
    BY <2>1, <2>2 DEF AsList, Written
<1>3. saving' = saving \cup {m} /\ m \notin saving
  BY DEF Snapshot, Goto, CopiesInv, Managers
<1>4. copy'[m] = slots /\ \A n \in saving : copy'[n] = copy[n]
  BY <1>3 DEF Snapshot, CopiesInv
<1>5. Drafts' = Drafts \cup {Written}
  <2>1. Drafts' = {AsList(copy'[n]) : n \in saving \cup {m}}
    BY <1>3 DEF Drafts, AsList
  <2>2. \A n \in saving : AsList(copy'[n]) = AsList(copy[n])
    BY <1>4
  <2>3. AsList(copy'[m]) = Written
    BY <1>2, <1>4
  <2> HIDE DEF saving
  <2>4. Drafts = {AsList(copy[n]) : n \in saving}
    BY DEF saving, Drafts
  <2> QED
    BY <2>1, <2>2, <2>3, <2>4
<1>6. Written' = Written /\ Kept' = Kept /\ UNCHANGED <<packet, judged>>
  BY DEF Snapshot, Written, Kept, AsList
<1>7. Policy!Draft
  BY <1>1, <1>5, <1>6 DEF Policy!Draft, Written, Kept, Drafts, Running
<1> QED
  BY <1>7 DEF Maps, Policy!Next

\* What reaches the flash is one of these copies, or nothing does.
LEMMA StoreMaps ==
    ASSUME Given, IInv, BootIdle, NEW m \in Managers, Store(m)
    PROVE  Maps
<1> USE DEF IInv
<1> DEFINE saving == {n \in Managers : pc[n] = "store"}
           list(n) == AsList(copy[n])
<1>1. Running /\ Running'
  BY ManagerRuns, GotoRuns DEF Store
<1>2. m \in saving /\ saving' = saving \ {m}
  BY DEF Store, Goto, CopiesInv, Managers
<1>3. \A n \in saving \ {m} : copy'[n] = copy[n]
  BY DEF Store, CopiesInv
<1>4. Drafts = {list(n) : n \in saving} /\ list(m) \in Drafts
  BY <1>2 DEF Drafts
<1>5. Drafts' = {list(n) : n \in saving \ {m}}
  <2>1. Drafts' = {AsList(copy'[n]) : n \in saving \ {m}}
    BY <1>2 DEF Drafts, AsList
  <2>2. \A n \in saving \ {m} : AsList(copy'[n]) = list(n)
    BY <1>3
  <2> HIDE DEF saving, list
  <2> QED
    BY <2>1, <2>2
<1>6. Drafts' \in {Drafts, Drafts \ {list(m)}}
  <2> HIDE DEF saving, list
  <2>1. CASE \E n \in saving \ {m} : list(n) = list(m)
    BY <1>2, <1>4, <1>5, <2>1
  <2>2. CASE ~\E n \in saving \ {m} : list(n) = list(m)
    BY <1>2, <1>4, <1>5, <2>2
  <2> QED
    BY <2>1, <2>2
<1>7. Kept' \in {Kept, list(m)}
  BY DEF Store, Kept, AsList
<1>8. Written' = Written /\ UNCHANGED <<packet, judged>>
  BY DEF Store, Written
<1>9. \E d \in Drafts : /\ Kept' \in {Kept, d} /\ Drafts' \in {Drafts, Drafts \ {d}}
  <2> HIDE DEF list
  <2> QED
    BY <1>4, <1>6, <1>7
<1>10. \E d \in Drafts : Policy!Save(d)
  BY <1>1, <1>8, <1>9 DEF Policy!Save, Written, Kept, Drafts, Running
<1> QED
  BY <1>10 DEF Maps, Policy!Next, Drafts

LEMMA ManagerMaps ==
    ASSUME Given, IInv, BootIdle, NEW m \in Managers,
           Snapshot(m) \/ Store(m) \/ Search(m) \/ Install(m) \/ Uninstall(m)
    PROVE  Maps
<1> USE DEF IInv
<1>1. CASE Snapshot(m)
  BY <1>1, SnapshotMaps
<1>2. CASE Store(m)
  BY <1>2, StoreMaps
<1>3. CASE Search(m)
  <2>1. \E l \in {"install", "uninstall", "idle"} : Goto(m, l)
    BY <1>3 DEF Search
  <2>2. UNCHANGED Aside
    BY <1>3, <2>1, GotoAside DEF Search
  <2> QED
    BY <1>3, <2>2, Stutters DEF Search
<1>4. CASE Install(m)
  <2>1. Premasked(BlockRule(port)) \in Storable
    BY DEF Storable, BlockRules
  <2>2. Running /\ UNCHANGED Aside
    BY <1>4, ManagerRuns, GotoAside DEF Install
  <2> QED
    BY <1>4, <2>1, <2>2, AddMaps DEF Install
<1>5. CASE Uninstall(m)
  <2>1. Running /\ UNCHANGED Aside
    BY <1>5, ManagerRuns, GotoAside DEF Uninstall
  <2>2. CASE acl_delete(copy[m][1])
    BY <2>1, <2>2, DeleteMaps
  <2>3. CASE UNCHANGED <<slots, count>>
    BY <2>1, <2>3, Stutters
  <2> QED
    BY <1>5, <2>2, <2>3 DEF Uninstall
<1> QED
  BY <1>1, <1>2, <1>3, <1>4, <1>5

LEMMA CrewMaps ==
    ASSUME Given, IInv, NEW m \in crew,
           \/ \E r \in Rules : AddRule(m, r)
           \/ \E i \in Index : DeleteRule(m, i)
           \/ ClearList(m)
           \/ \E on \in BOOLEAN : SetWan(m, on)
           \/ \E p \in Ports : SetPort(m, p)
    PROVE  Maps
<1> USE DEF IInv
<1>m. m \in Managers
  BY DEF Managers
<1>i. Running /\ pc[m] = "idle"
  BY DEF AddRule, DeleteRule, ClearList, SetWan, SetPort, Idle, Running
<1>1. ASSUME NEW r \in Rules, AddRule(m, r)
      PROVE  Maps
  <2>1. \E l \in {"idle", "snapshot"} : Goto(m, l)
    BY <1>1 DEF AddRule
  <2>2. UNCHANGED Aside
    BY <1>1, <1>m, <1>i, <2>1, GotoAside DEF AddRule
  <2> QED
    BY <1>1, <1>i, <2>2, AddMaps DEF AddRule, Storable
<1>2. ASSUME NEW i \in Index, DeleteRule(m, i)
      PROVE  Maps
  <2>1. UNCHANGED Aside
    BY <1>2, <1>m, <1>i, GotoAside DEF DeleteRule
  <2> QED
    BY <1>2, <1>i, <2>1, DeleteMaps DEF DeleteRule
<1>3. CASE ClearList(m)
  <2>1. UNCHANGED Aside
    BY <1>3, <1>m, <1>i, GotoAside DEF ClearList
  <2>2. Written' = <<>>
    BY <1>3 DEF ClearList, acl_clear, Written
  <2>3. Policy!Clear
    BY <2>2 DEF Policy!Clear, Written
  <2>4. Policy!Edit
    BY <1>i, <2>1, <2>3, EditMaps
  <2> QED
    BY <2>4 DEF Maps, Policy!Next
<1>4. ASSUME NEW on \in BOOLEAN, SetWan(m, on)
      PROVE  Maps
  <2>1. UNCHANGED Aside
    BY <1>4, <1>m, <1>i, GotoAside DEF SetWan
  <2> QED
    BY <1>4, <2>1, Stutters DEF SetWan
<1>5. ASSUME NEW p \in Ports, SetPort(m, p)
      PROVE  Maps
  <2>1. UNCHANGED Aside
    BY <1>5 DEF SetPort, Aside, Kept, Drafts, AsList, Managers, Running
  <2> QED
    BY <1>5, <2>1, Stutters DEF SetPort
<1> QED
  BY <1>1, <1>2, <1>3, <1>4, <1>5

\* A packet that finds the list empty, or waits for the matching loop, or is judged by it
LEMMA PacketMaps ==
    ASSUME Given, WellFormed, IInv, BootIdle, Check \/ \E p \in Packets : Gate(p)
    PROVE  Maps
<1>1. Running /\ UNCHANGED <<Written, Kept, Drafts, Running>>
  <2>1. Running /\ UNCHANGED <<slots, count, stored, pc, copy, crew>>
    BY DEF Check, Gate, BootIdle, Running
  <2>2. UNCHANGED <<Written, Kept, Drafts>>
    BY <2>1 DEF Written, Kept, Drafts, AsList, Managers
  <2> QED
    BY <2>1, <2>2 DEF Running
<1>2. ASSUME NEW p \in Packets, Gate(p)
      PROVE  Policy!Pass \/ Policy!Arrive(p)
  <2>1. CASE count # 0
    BY <1>2, <2>1 DEF Gate, acl_is_empty, Policy!Arrive
  <2>2. CASE count = 0
    <3>1. Written = <<>>
      BY <2>2 DEF Written
    <3> QED
      BY <1>2, <2>2, <3>1
         DEF Gate, acl_is_empty, Policy!Pass, Written, Unmatched, Policy!Unmatched
  <2> QED
    BY <2>1, <2>2
<1>3. ASSUME Check
      PROVE  \E q \in Packets : Policy!Judge(q)
  <2>1. PICK p \in Packets : packet = <<p>>
    BY <1>3 DEF Check, BootIdle
  <2>2. judged' = acl_check_packet(p) /\ packet' = <<>>
    BY <1>3, <2>1 DEF Check
  <2>3. ASSUME Policy!Misleading(p)
        PROVE  Policy!Judge(p)
    <3>1. judged' \in {Policy!Unmatched} \cup {Written[i].action : i \in DOMAIN Written}
      BY <2>2, VerdictOfRule DEF IInv, Unmatched, Policy!Unmatched
    <3> QED
      BY <2>1, <2>2, <2>3, <3>1 DEF Policy!Judge, Written
  <2>4. ASSUME ~Policy!Misleading(p)
        PROVE  Policy!Judge(p)
    <3>1. judged' = Policy!FirstMatch(Written, p)
      BY <2>2, <2>4, VerdictAgrees DEF IInv
    <3> QED
      BY <2>1, <2>2, <2>4, <3>1 DEF Policy!Judge, Written
  <2> QED
    BY <2>3, <2>4
<1>4. Policy!Pass \/ \E p \in Packets : Policy!Arrive(p) \/ Policy!Judge(p)
  BY <1>2, <1>3
<1>5. Policy!Filter
  BY <1>1, <1>4 DEF Policy!Filter, Written, Kept, Drafts, Running
<1> QED
  BY <1>5 DEF Maps, Policy!Next

\* The power goes, and comes back with the list that was stored.
LEMMA PowerMaps ==
    ASSUME Given, IInv, Halt \/ Load
    PROVE  Maps
<1>1. CASE Halt
  <2>1. /\ pc' = [m \in Managers |-> IF m = "boot" THEN "load" ELSE "idle"]
        /\ Managers' = Managers /\ "boot" \in Managers
    BY <1>1 DEF Halt, Managers
  <2>2. Drafts' = {} /\ Running' = FALSE
    BY <2>1 DEF Drafts, Running
  <2>3. UNCHANGED <<Written, Kept, judged>> /\ packet' = <<>>
    BY <1>1 DEF Halt, Written, Kept, AsList
  <2>4. Policy!PowerOff
    BY <2>2, <2>3 DEF Policy!PowerOff, Written, Kept, Drafts, Running
  <2> QED
    BY <2>4 DEF Maps, Policy!Next
<1>2. CASE Load
  <2>1. PICK l \in {"search", "idle"} : Goto("boot", l)
    BY <1>2 DEF Load
  <2>2. ~Running /\ Running' /\ UNCHANGED <<judged, packet, copy, stored, Managers>>
    BY <1>2, <2>1 DEF Load, Running, Goto, IInv, CopiesInv, Managers
  <2>3. {n \in Managers : pc'[n] = "store"} = {n \in Managers : pc[n] = "store"}
    BY <1>2, <2>1 DEF Load, Goto, IInv, CopiesInv
  <2>4. UNCHANGED <<Drafts, Kept>>
    BY <2>2, <2>3 DEF Drafts, Kept, AsList
  <2>5. Written' = Kept
    BY <1>2 DEF Load, Written, Kept, AsList
  <2>6. Policy!PowerOn
    BY <2>2, <2>4, <2>5 DEF Policy!PowerOn, Written, Kept, Drafts, Running
  <2> QED
    BY <2>6 DEF Maps, Policy!Next
<1> QED
  BY <1>1, <1>2

\* BootIdle is kept: before the router runs, only the boot does anything.
LEMMA BootIdleStep ==
    ASSUME IInv, BootIdle, Next
    PROVE  BootIdle'
<1> USE DEF IInv
<1>1. CASE Check \/ \E p \in Packets : Gate(p)
  BY <1>1 DEF Check, Gate, BootIdle, Running, Managers
<1>2. ASSUME NEW m \in Managers,
             Snapshot(m) \/ Store(m) \/ Search(m) \/ Install(m) \/ Uninstall(m)
      PROVE  BootIdle'
  <2>1. pc[m] \notin {"idle", "load"} /\ UNCHANGED <<crew, packet>>
    BY <1>2 DEF Snapshot, Store, Search, Install, Uninstall
  <2>2. \E l : l # "load" /\ Goto(m, l)
    BY <1>2 DEF Snapshot, Store, Search, Install, Uninstall
  <2>3. Running /\ Running'
    BY <2>1, <2>2, ManagerRuns, GotoRuns
  <2> QED
    BY <2>1, <2>3 DEF BootIdle
<1>3. ASSUME NEW m \in crew,
             \/ \E r \in Rules : AddRule(m, r)
             \/ \E i \in Index : DeleteRule(m, i)
             \/ ClearList(m)
             \/ \E on \in BOOLEAN : SetWan(m, on)
      PROVE  BootIdle'
  <2>1. m \in Managers /\ pc[m] = "idle" /\ Running /\ UNCHANGED <<crew, packet>>
    BY <1>3 DEF AddRule, DeleteRule, ClearList, SetWan, Idle, Running, Managers
  <2>2. \E l : l # "load" /\ Goto(m, l)
    BY <1>3 DEF AddRule, DeleteRule, ClearList, SetWan
  <2>3. Running'
    BY <2>1, <2>2, GotoRuns
  <2> QED
    BY <2>1, <2>3 DEF BootIdle
<1>4. ASSUME NEW m \in crew, NEW p \in Ports, SetPort(m, p)
      PROVE  BootIdle'
  BY <1>4 DEF SetPort, BootIdle, Running, Managers
<1>5. CASE Halt
  BY <1>5 DEF Halt, BootIdle, Managers
<1>6. CASE Load
  <2>1. Running' /\ UNCHANGED packet
    BY <1>6 DEF Load, Running, Goto, CopiesInv, Managers
  <2> QED
    BY <2>1 DEF BootIdle
<1> QED
  BY <1>1, <1>2, <1>3, <1>4, <1>5, <1>6 DEF Next

\* The access list does what its user wrote: whatever the managers, the packets, the flash
\* and the power do, it behaves as an ordered list of which the first rule that fits decides,
\* and which a restart sets back to the list that was saved last.
THEOREM ListIsPolicy ==
    ASSUME MaxRules \in Nat, NoRule \notin Storable, Ports # {}, WellFormed
    PROVE  Spec => ImplementsPolicy
<1> USE DEF Given
<1>1. Init => IInv /\ BootIdle /\ Policy!Init
  <2> SUFFICES ASSUME Init PROVE IInv /\ BootIdle /\ Policy!Init
    OBVIOUS
  <2>1. BootIdle
    BY DEF Init, BootIdle
  <2>2. Written = <<>> /\ judged = Policy!Unmatched
    <3>1. count = 0 /\ judged = Unmatched
      BY DEF Init
    <3>2. Written = <<>>
      BY <3>1 DEF Written
    <3>3. judged = Policy!Unmatched
      BY <3>1 DEF Unmatched, Policy!Unmatched
    <3> QED
      BY <3>2, <3>3
  <2>3. pc["boot"] = "load" /\ Drafts = {} /\ packet = <<>>
    BY DEF Init, Managers, Drafts
  <2>4. Kept = <<>>
    <3>1. {j \in Index : stored[j] # NoRule} = {}
      BY DEF Init
    <3>2. Cardinality({j \in Index : stored[j] # NoRule}) = 0
      BY <3>1, FS_EmptySet
    <3>3. Kept = [i \in 1..0 |-> stored[i]]
      BY <3>2 DEF Kept, AsList
    <3> QED
      BY <3>3
  <2>5. Policy!Init
    BY <2>2, <2>3, <2>4 DEF Policy!Init, Written, Kept, Drafts
  <2> QED
    BY <2>1, <2>5, InitInv
<1>2. IInv /\ BootIdle /\ [Next]_fwvars => IInv' /\ BootIdle' /\ Maps
  <2> SUFFICES ASSUME IInv, BootIdle, [Next]_fwvars PROVE IInv' /\ BootIdle' /\ Maps
    OBVIOUS
  <2>1. CASE Next
    <3>1. CASE Check \/ \E p \in Packets : Gate(p)
      BY <2>1, <3>1, PacketInv, PacketMaps, BootIdleStep DEF Check, Gate
    <3> QED
      BY <2>1, <3>1, ManagerInv, CrewInv, HaltInv, LoadInv, BootIdleStep,
         ManagerMaps, CrewMaps, PowerMaps DEF Next
  <2>2. CASE UNCHANGED fwvars
    <3>1. UNCHANGED Aside
      BY <2>2 DEF fwvars, Aside, Kept, Drafts, AsList, Managers, Running
    <3>2. BootIdle'
      BY <2>2 DEF fwvars, BootIdle, Managers, Running
    <3> QED
      BY <2>2, <3>1, <3>2, PacketInv, Stutters DEF fwvars
  <2> QED
    BY <2>1, <2>2
<1>3. Maps => [Policy!Next]_(Policy!aclvars)
  BY DEF Maps, Written, Aside, Kept, Drafts, Running, Policy!aclvars
<1> QED
  BY <1>1, <1>2, <1>3, PTL DEF Spec, ImplementsPolicy, Policy!Spec

-----------------------------------------------------------------------------
(* The port forwardings                                                   *)

Entries == Mports \X Targets
Quiet == \A t \in Tasks : todo[t] = <<>>

Table(f) ==
    /\ f \in [Slot -> Entries \cup {Unused}]
    /\ \A i, j \in Slot : f[i] # Unused /\ f[j] # Unused /\ f[i][1] = f[j][1] => i = j

Want(k) == napton /\ bind # 0 /\ k[2] = bind /\ \E i \in InUse : tab[i] = <<k[1], k[3]>>

\* Apart from the ports in M, lwIP holds what the table says.
Exact(M) == \A k \in NaptKeys : k[1] \notin M => napt[k] = IF Want(k) THEN 1 ELSE 0

Empty == \A k \in NaptKeys : napt[k] = 0

Thin ==
    /\ \A k \in NaptKeys : napt[k] \in {0, 1}
    /\ \A k, l \in NaptKeys : napt[k] = 1 /\ napt[l] = 1 /\ k[1] = l[1] => k = l

Known == \A k \in NaptKeys : napt[k] = 1 => \E i \in InUse : tab[i][1] = k[1]

\* No entry of the table has this port.
Fresh(m) == \A i \in InUse : tab[i][1] # m

Filling(w) ==
    \E i \in Slot, e \in Entries :
      w = <<"fill", i, e>> /\ tab[i] = Unused /\ Fresh(e[1]) /\ Exact({})

\* What is missing while one entry is added, and while one is taken out
Without(e) ==
    (\E i \in Slot : tab[i] = e) /\ Exact({e[1]}) /\ \A k \in NaptKeys : k[1] = e[1] => napt[k] = 0
Over(m) == Fresh(m) /\ Exact({m}) /\ Thin

Busy(w) ==
    \/ w = <<"boot">> /\ ~napton /\ Empty
    \/ w = <<"delete">> /\ Thin /\ Known
    \/ w = <<"apply">> /\ Empty
    \/ Filling(w)
    \/ \E e \in Entries : (w = <<"save", "add", e>> \/ w = <<"add", e>>) /\ Without(e)
    \/ \E m \in Mports : (w = <<"save", "remove", m>> \/ w = <<"remove", m>>) /\ Over(m)
    \/ w = <<"save">> /\ Exact({})

Types ==
    /\ Table(tab) /\ Table(blob)
    /\ napt \in [NaptKeys -> Nat] /\ napton \in BOOLEAN
    /\ bind \in Addresses \cup {0}
    /\ DOMAIN todo = Tasks

Single == \A t, u \in Tasks : todo[t] # <<>> /\ todo[u] # <<>> => t = u

PhaseInv ==
    /\ Quiet => Exact({})
    /\ \A t \in Tasks : todo[t] # <<>> => Busy(todo[t])

PortInv == Types /\ Single /\ PhaseInv

PortsGiven == Overlap = FALSE /\ Unused \notin Entries /\ Slots \in Nat

-----------------------------------------------------------------------------
(* lwIP                                                                    *)

\* With at most one entry for each port, removing ports removes their entries.
LEMMA RemoveThin ==
    ASSUME Thin, napt \in [NaptKeys -> Nat], NEW ports, ip_portmap_remove(ports)
    PROVE  /\ napt' \in [NaptKeys -> Nat]
           /\ \A k \in NaptKeys : napt'[k] = IF k[1] \in ports THEN 0 ELSE napt[k]
  <1> DEFINE held(m) == {k \in NaptKeys : k[1] = m /\ napt[k] > 0}
             first == {CHOOSE k \in held(m) : TRUE : m \in {p \in ports : held(p) # {}}}
  <1>1. napt' = [k \in NaptKeys |-> IF k \in first THEN napt[k] - 1 ELSE napt[k]]
    BY DEF ip_portmap_remove
  <1>2. \A m : held(m) # {} => (CHOOSE k \in held(m) : TRUE) \in held(m)
    OBVIOUS
  <1>3. ASSUME NEW k \in first
        PROVE  k \in NaptKeys /\ k[1] \in ports /\ napt[k] = 1
    <2>1. PICK m \in ports : held(m) # {} /\ k = CHOOSE j \in held(m) : TRUE
      BY <1>3
    <2>2. k \in held(m)
      BY <1>2, <2>1
    <2> QED BY <2>1, <2>2 DEF Thin
  <1>4. ASSUME NEW k \in NaptKeys, k[1] \in ports, napt[k] = 1
        PROVE  k \in first
    <2> DEFINE c == CHOOSE j \in held(k[1]) : TRUE
    <2>1. k \in held(k[1])
      BY <1>4
    <2>2. c \in held(k[1])
      BY <1>2, <2>1
    <2>3. c \in NaptKeys /\ c[1] = k[1] /\ napt[c] > 0
      BY <2>2
    <2>4. napt[c] = 1
      BY <2>3 DEF Thin
    <2>5. c = k
      BY <1>4, <2>3, <2>4 DEF Thin
    <2>6. c \in first
      BY <1>4, <2>1
    <2> QED BY <2>5, <2>6
  <1>5. ASSUME NEW k \in NaptKeys
        PROVE  /\ napt'[k] \in Nat
               /\ napt'[k] = IF k[1] \in ports THEN 0 ELSE napt[k]
    <2>1. napt[k] = 0 \/ napt[k] = 1
      BY DEF Thin
    <2>2. k \in first <=> k[1] \in ports /\ napt[k] = 1
      BY <1>3, <1>4
    <2>3. napt'[k] = IF k \in first THEN napt[k] - 1 ELSE napt[k]
      BY <1>1
    <2> HIDE DEF first
    <2> QED BY <2>1, <2>2, <2>3
  <1>6. napt' \in [NaptKeys -> Nat]
    BY <1>1, <1>5
  <1> QED BY <1>5, <1>6

LEMMA ExactIsThin ==
    ASSUME Table(tab), Exact({})
    PROVE  Thin /\ Known
  <1>1. ASSUME NEW k \in NaptKeys
        PROVE  /\ napt[k] = 0 \/ napt[k] = 1
               /\ napt[k] = 1 => Want(k)
    BY DEF Exact
  <1>2. ASSUME NEW k \in NaptKeys, NEW l \in NaptKeys, Want(k), Want(l), k[1] = l[1]
        PROVE  k = l
    <2>1. PICK i \in Slot : tab[i] # Unused /\ tab[i] = <<k[1], k[3]>>
      BY <1>2 DEF Want, InUse
    <2>2. PICK j \in Slot : tab[j] # Unused /\ tab[j] = <<l[1], l[3]>>
      BY <1>2 DEF Want, InUse
    <2>3. tab[i][1] = k[1] /\ tab[j][1] = l[1]
      BY <2>1, <2>2
    <2>4. i = j
      BY <1>2, <2>1, <2>2, <2>3 DEF Table
    <2>5. k[3] = l[3] /\ k[2] = l[2]
      BY <1>2, <2>1, <2>2, <2>4 DEF Want
    <2> QED BY <1>2, <2>5 DEF NaptKeys
  <1>3. Known
    BY <1>1 DEF Known, Want
  <1> QED BY <1>1, <1>2, <1>3 DEF Thin

\* "delete, then apply": nothing is left of a state that holds one entry for each port.
LEMMA DeleteEmpties ==
    ASSUME Thin, Known, napt \in [NaptKeys -> Nat],
           ip_portmap_remove({tab[i][1] : i \in InUse})
    PROVE  napt' \in [NaptKeys -> Nat] /\ Empty'
  <1>1. /\ napt' \in [NaptKeys -> Nat]
        /\ \A k \in NaptKeys :
             napt'[k] = IF k[1] \in {tab[i][1] : i \in InUse} THEN 0 ELSE napt[k]
    BY RemoveThin
  <1>2. \A k \in NaptKeys : napt[k] = 1 => k[1] \in {tab[i][1] : i \in InUse}
    BY DEF Known
  <1>3. \A k \in NaptKeys : napt[k] = 0 \/ napt[k] = 1
    BY DEF Thin
  <1> QED BY <1>1, <1>2, <1>3 DEF Empty

LEMMA AddCounts ==
    ASSUME napt \in [NaptKeys -> Nat], NEW keys, ip_portmap_add(keys)
    PROVE  /\ napt' \in [NaptKeys -> Nat]
           /\ \A k \in NaptKeys :
                napt'[k] = IF napton /\ k \in keys THEN napt[k] + 1 ELSE napt[k]
  BY DEF ip_portmap_add

-----------------------------------------------------------------------------
(* Turns                                                                   *)

\* A task goes on, or comes to its end, while the others rest.
LEMMA Turn ==
    ASSUME Types', Single, NEW t \in Tasks, Quiet \/ todo[t] # <<>>, DOMAIN todo = Tasks,
           NEW w, Then(t, w),
           IF w = <<>> THEN Exact({})' ELSE Busy(w)'
    PROVE  PortInv'
  <1>1. todo'[t] = w /\ \A u \in Tasks \ {t} : todo'[u] = <<>>
    BY DEF Then, Single, Quiet
  <1>2. Single'
    BY <1>1 DEF Single
  <1>3. Quiet' => w = <<>>
    BY <1>1 DEF Quiet
  <1>4. \A u \in Tasks : todo'[u] # <<>> => w # <<>> /\ todo'[u] = w
    BY <1>1
  <1>5. PhaseInv'
    BY <1>3, <1>4 DEF PhaseInv
  <1> QED BY <1>2, <1>5 DEF PortInv

LEMMA PortInitInv ==
    ASSUME PortsGiven, PortInit
    PROVE  PortInv
  <1> USE DEF PortsGiven, PortInit
  <1>1. Types
    BY DEF Types, Table
  <1>2. Single
    BY DEF Single, Tasks
  <1>3. todo["boot"] = <<"boot">> /\ "boot" \in Tasks
    BY DEF Tasks
  <1>4. ~Quiet
    BY <1>3 DEF Quiet
  <1>5. \A t \in Tasks : todo[t] # <<>> => todo[t] = <<"boot">>
    BY DEF Tasks
  <1>6. Busy(<<"boot">>)
    BY DEF Busy, Empty
  <1> QED BY <1>1, <1>2, <1>4, <1>5, <1>6 DEF PortInv, PhaseInv

LEMMA RebootInv ==
    ASSUME PortsGiven, PortInv, Reboot
    PROVE  PortInv'
  <1> USE DEF PortsGiven, Reboot
  <1>1. Types'
    BY DEF PortInv, Types, Table
  <1>2. Single'
    BY DEF Single, Tasks
  <1>3. todo'["boot"] = <<"boot">> /\ "boot" \in Tasks
    BY DEF Tasks
  <1>4. ~Quiet'
    BY <1>3 DEF Quiet
  <1>5. \A t \in Tasks : todo'[t] # <<>> => todo'[t] = <<"boot">>
    BY DEF Tasks
  <1>6. Busy(<<"boot">>)'
    BY DEF Busy, Empty
  <1>7. PhaseInv'
    BY <1>4, <1>5, <1>6 DEF PhaseInv
  <1> QED BY <1>1, <1>2, <1>7 DEF PortInv

\* What a task that begins finds
LEMMA ReadyExact ==
    ASSUME PortsGiven, PortInv, NEW t, Ready(t)
    PROVE  Quiet /\ Exact({}) /\ Thin /\ Known
  <1>1. Quiet
    BY DEF PortsGiven, Ready, Quiet
  <1> QED BY <1>1, ExactIsThin DEF PortInv, Types, PhaseInv

\* What is known of a task by the first word of what it is still to do
LEMMA Words ==
    ASSUME NEW w, Busy(w)
    PROVE  /\ w[1] = "boot" => ~napton /\ Empty
           /\ w[1] = "delete" => Thin /\ Known
           /\ w[1] = "apply" => Empty
           /\ w[1] = "fill" => Filling(w)
           /\ w[1] = "add" => \E e \in Entries : w = <<"add", e>> /\ Without(e)
           /\ w[1] = "remove" => \E m \in Mports : w = <<"remove", m>> /\ Over(m)
           /\ w[1] = "save" => \/ \E e \in Entries : w = <<"save", "add", e>> /\ Without(e)
                               \/ \E m \in Mports : w = <<"save", "remove", m>> /\ Over(m)
                               \/ w = <<"save">> /\ Exact({})
  <1>1. CASE w = <<"boot">> /\ ~napton /\ Empty
    BY <1>1
  <1>2. CASE w = <<"delete">> /\ Thin /\ Known
    BY <1>2
  <1>3. CASE w = <<"apply">> /\ Empty
    BY <1>3
  <1>4. CASE Filling(w)
    <2>1. w[1] = "fill"
      BY <1>4 DEF Filling
    <2> QED BY <1>4, <2>1
  <1>5. ASSUME NEW e \in Entries, w = <<"save", "add", e>> \/ w = <<"add", e>>, Without(e)
        PROVE  \/ w[1] = "save" /\ \E f \in Entries : w = <<"save", "add", f>> /\ Without(f)
               \/ w[1] = "add" /\ \E f \in Entries : w = <<"add", f>> /\ Without(f)
    BY <1>5
  <1>6. ASSUME NEW m \in Mports, w = <<"save", "remove", m>> \/ w = <<"remove", m>>, Over(m)
        PROVE  \/ w[1] = "save" /\ \E f \in Mports : w = <<"save", "remove", f>> /\ Over(f)
               \/ w[1] = "remove" /\ \E f \in Mports : w = <<"remove", f>> /\ Over(f)
    BY <1>6
  <1>7. CASE w = <<"save">> /\ Exact({})
    BY <1>7
  <1> QED
    <2>1. CASE \E e \in Entries : (w = <<"save", "add", e>> \/ w = <<"add", e>>) /\ Without(e)
      BY <1>5, <2>1
    <2>2. CASE \E m \in Mports : (w = <<"save", "remove", m>> \/ w = <<"remove", m>>) /\ Over(m)
      BY <1>6, <2>2
    <2> QED BY <1>1, <1>2, <1>3, <1>4, <1>7, <2>1, <2>2 DEF Busy

LEMMA AtBusy ==
    ASSUME PortInv, NEW t \in Tasks, NEW l, At(t, l)
    PROVE  /\ todo[t] # <<>> /\ todo[t][1] = l /\ Busy(todo[t])
           /\ l = "boot" => ~napton /\ Empty
           /\ l = "delete" => Thin /\ Known
           /\ l = "apply" => Empty
  <1>1. todo[t] # <<>> /\ todo[t][1] = l /\ Busy(todo[t])
    BY DEF PortInv, PhaseInv, At
  <1> QED BY <1>1, Words

-----------------------------------------------------------------------------
(* Rebuilding                                                              *)

LEMMA RebuildInv ==
    ASSUME PortsGiven, PortInv, NEW t \in Tasks, delete_portmap_tab(t) \/ apply_portmap_tab(t)
    PROVE  PortInv'
  <1> USE DEF PortsGiven
  <1>0. Types /\ Single
    BY DEF PortInv
  <1>1. CASE delete_portmap_tab(t)
    <2>1. todo[t] # <<>> /\ Thin /\ Known
      BY <1>1, AtBusy DEF delete_portmap_tab
    <2>3. napt' \in [NaptKeys -> Nat] /\ Empty'
      BY <1>0, <1>1, <2>1, DeleteEmpties DEF delete_portmap_tab, Types
    <2>4. Types'
      BY <1>0, <1>1, <2>3 DEF Types, delete_portmap_tab, Then, Table
    <2>5. Busy(<<"apply">>)'
      BY <2>3 DEF Busy
    <2>6. Then(t, <<"apply">>) /\ <<"apply">> # <<>>
      BY <1>1 DEF delete_portmap_tab
    <2> QED BY <1>0, <2>1, <2>4, <2>5, <2>6, Turn DEF Types
  <1>2. CASE apply_portmap_tab(t)
    <2> DEFINE keys == {<<tab[i][1], bind, tab[i][2]>> : i \in InUse}
    <2>1. todo[t] # <<>>
      BY <1>2, AtBusy DEF apply_portmap_tab
    <2>2. Empty
      BY <1>2, AtBusy DEF apply_portmap_tab
    <2>3. /\ napt' \in [NaptKeys -> Nat]
          /\ \A k \in NaptKeys : napt'[k] = IF bind # 0 /\ napton /\ k \in keys THEN 1 ELSE 0
      <3>1. CASE bind = 0
        BY <1>0, <1>2, <2>2, <3>1 DEF apply_portmap_tab, Types, Empty
      <3>2. CASE bind # 0
        <4>1. ip_portmap_add(keys)
          BY <1>2, <3>2 DEF apply_portmap_tab
        <4>2. /\ napt' \in [NaptKeys -> Nat]
              /\ \A k \in NaptKeys :
                   napt'[k] = IF napton /\ k \in keys THEN napt[k] + 1 ELSE napt[k]
          BY <1>0, <4>1, AddCounts DEF Types
        <4> QED BY <2>2, <3>2, <4>2 DEF Empty
      <3> QED BY <3>1, <3>2
    <2>4. ASSUME NEW k \in NaptKeys
          PROVE  k \in keys <=> k[2] = bind /\ \E i \in InUse : tab[i] = <<k[1], k[3]>>
      <3>1. k = <<k[1], k[2], k[3]>>
        BY DEF NaptKeys
      <3>2. \A i \in InUse : tab[i] = <<tab[i][1], tab[i][2]>>
        BY <1>0 DEF InUse, Types, Table, Entries
      <3>3. k \in keys => k[2] = bind /\ \E i \in InUse : tab[i] = <<k[1], k[3]>>
        BY <3>2
      <3>4. ASSUME k[2] = bind, NEW i \in InUse, tab[i] = <<k[1], k[3]>>
            PROVE  k \in keys
        <4>1. tab[i][1] = k[1] /\ tab[i][2] = k[3]
          BY <3>4
        <4> QED BY <3>1, <3>4, <4>1
      <3> QED BY <3>3, <3>4
    <2>5. UNCHANGED <<tab, blob, napton, bind, InUse>> /\ Then(t, <<>>)
      BY <1>2 DEF apply_portmap_tab, Done, InUse
    <2>6. Types'
      BY <1>0, <2>3, <2>5 DEF Types, Then, Table
    <2>7. \A k \in NaptKeys : Want(k)' <=> bind # 0 /\ napton /\ k \in keys
      <3> HIDE DEF keys
      <3> QED BY <2>4, <2>5 DEF Want
    <2>8. Exact({})'
      <3> HIDE DEF keys
      <3> QED BY <2>3, <2>7 DEF Exact
    <2> QED BY <1>0, <2>1, <2>5, <2>6, <2>8, Turn DEF Types
  <1> QED BY <1>1, <1>2

\* Uplink, EnableNat and BootRouted
LEMMA BeginRebuildInv ==
    ASSUME PortsGiven, PortInv,
           \/ \E a \in Addresses \cup {0} : Uplink(a)
           \/ \E t \in Editors \cup {"boot"} : EnableNat(t)
           \/ BootRouted
    PROVE  PortInv'
  <1> USE DEF PortsGiven
  <1>0. Types /\ Single
    BY DEF PortInv
  <1>1. ASSUME NEW a \in Addresses \cup {0}, Uplink(a)
        PROVE  PortInv'
    <2>1. Quiet /\ Thin /\ Known
      BY <1>1, ReadyExact DEF Uplink
    <2>2. Types'
      BY <1>0, <1>1 DEF Types, Uplink, Then, Table
    <2>3. Busy(<<"delete">>)'
      BY <1>1, <2>1 DEF Uplink, Busy, Thin, Known, InUse
    <2>4. Then("uplink", <<"delete">>) /\ <<"delete">> # <<>> /\ "uplink" \in Tasks
      BY <1>1 DEF Uplink, Tasks
    <2> QED BY <1>0, <2>1, <2>2, <2>3, <2>4, Turn DEF Types
  <1>2. ASSUME NEW t \in Editors \cup {"boot"}, EnableNat(t)
        PROVE  PortInv'
    <2>0. t \in Tasks
      BY DEF Editors, Tasks
    <2>1. (Quiet \/ todo[t] # <<>>) /\ Thin /\ Known
      <3>1. CASE t = "boot"
        <4>1. todo[t] # <<>> /\ Empty
          BY <1>2, <2>0, <3>1, AtBusy DEF EnableNat
        <4> QED BY <4>1 DEF Empty, Thin, Known
      <3>2. CASE t # "boot"
        BY <1>2, <3>2, ReadyExact DEF EnableNat
      <3> QED BY <3>1, <3>2
    <2>2. Types'
      BY <1>0, <1>2 DEF Types, EnableNat, Then, Table
    <2>3. Busy(<<"delete">>)'
      BY <1>2, <2>1 DEF EnableNat, Busy, Thin, Known, InUse
    <2>4. Then(t, <<"delete">>) /\ <<"delete">> # <<>>
      BY <1>2 DEF EnableNat
    <2> QED BY <1>0, <2>0, <2>1, <2>2, <2>3, <2>4, Turn DEF Types
  <1>3. CASE BootRouted
    <2>1. todo["boot"] # <<>>
      BY <1>3, AtBusy DEF BootRouted, Tasks
    <2>2. ~napton /\ Empty
      BY <1>3, AtBusy DEF BootRouted, Tasks
    <2>3. Types'
      BY <1>0, <1>3 DEF Types, BootRouted, Done, Then, Table
    <2>4. Exact({})'
      BY <1>3, <2>2 DEF BootRouted, Exact, Empty, Want
    <2>5. Then("boot", <<>>) /\ "boot" \in Tasks
      BY <1>3 DEF BootRouted, Done, Tasks
    <2> QED BY <1>0, <2>1, <2>3, <2>4, <2>5, Turn DEF Types
  <1> QED BY <1>1, <1>2, <1>3

-----------------------------------------------------------------------------
(* Single entries                                                          *)

\* Nothing that the phases speak about changes, but what the task is to do.
LEMMA SameState ==
    ASSUME UNCHANGED <<tab, napt, napton, bind>>
    PROVE  /\ \A M : Exact(M)' <=> Exact(M)
           /\ \A e : Without(e)' <=> Without(e)
           /\ \A m : Over(m)' <=> Over(m)
  BY DEF Exact, Want, InUse, Without, Over, Fresh, Thin

LEMMA BeginAddInv ==
    ASSUME PortsGiven, PortInv, NEW t \in Editors, NEW e \in Entries, AddBegin(t, e)
    PROVE  PortInv'
  <1>0. Types /\ Single /\ t \in Tasks
    BY DEF PortInv, Editors, Tasks
  <1>1. Quiet /\ Exact({})
    BY ReadyExact DEF AddBegin
  <1>2. PICK i \in Slot \ InUse : Then(t, <<"fill", i, e>>)
    BY DEF AddBegin
  <1>4. Filling(<<"fill", i, e>>)'
    <2>1. tab[i] = Unused /\ Fresh(e[1])
      BY <1>2 DEF AddBegin, Fresh, InUse
    <2>2. tab'[i] = Unused /\ Fresh(e[1])' /\ Exact({})'
      BY <1>1, <2>1, SameState DEF AddBegin, Fresh, InUse
    <2> QED BY <2>2 DEF Filling
  <1>5. Types'
    BY <1>0, <1>2 DEF Types, AddBegin, Then, Table
  <1>6. <<"fill", i, e>> # <<>> /\ Busy(<<"fill", i, e>>)'
    BY <1>4 DEF Busy
  <1> QED BY <1>0, <1>1, <1>2, <1>5, <1>6, Turn DEF Types

LEMMA FillInv ==
    ASSUME PortsGiven, PortInv, NEW t \in Editors, Fill(t)
    PROVE  PortInv'
  <1> USE DEF PortsGiven
  <1>0. Types /\ Single /\ t \in Tasks
    BY DEF PortInv, Editors, Tasks
  <1>1. todo[t] # <<>> /\ todo[t][1] = "fill" /\ Busy(todo[t])
    BY <1>0, AtBusy DEF Fill
  <1>2. Filling(todo[t])
    BY <1>1, Words
  <1>3. PICK i \in Slot, e \in Entries :
          todo[t] = <<"fill", i, e>> /\ tab[i] = Unused /\ Fresh(e[1]) /\ Exact({})
    BY <1>2 DEF Filling
  <1>4. tab' = [tab EXCEPT ![i] = e] /\ Then(t, <<"save", "add", e>>)
    BY <1>3 DEF Fill
  <1>5. Table(tab')
    BY <1>0, <1>3, <1>4 DEF Types, Table, Fresh, InUse
  <1>6. Types'
    BY <1>0, <1>4, <1>5 DEF Types, Fill, Then, Table
  <1>7. ASSUME NEW k \in NaptKeys, k[1] # e[1]
        PROVE  Want(k)' <=> Want(k)
    <2>1. e # <<k[1], k[3]>>
      BY <1>7
    <2>2. \A j \in Slot : j \in InUse' /\ tab'[j] = <<k[1], k[3]>>
                      <=> j \in InUse /\ tab[j] = <<k[1], k[3]>>
      BY <1>0, <1>3, <1>4, <2>1 DEF InUse, Types, Table
    <2> QED BY <2>2 DEF Fill, Want, InUse
  <1>8. Exact({e[1]})'
    BY <1>3, <1>7 DEF Exact, Fill
  <1>9. ASSUME NEW k \in NaptKeys, k[1] = e[1]
        PROVE  napt[k] = 0
    <2>1. ~Want(k)
      <3>1. \A j \in InUse : tab[j] # <<k[1], k[3]>>
        BY <1>3, <1>9 DEF Fresh
      <3> QED BY <3>1 DEF Want
    <2> QED BY <1>3, <2>1 DEF Exact
  <1>10. Without(e)'
    <2>1. tab'[i] = e
      BY <1>0, <1>4 DEF Types, Table
    <2>2. \A k \in NaptKeys : k[1] = e[1] => napt'[k] = 0
      BY <1>9 DEF Fill
    <2> QED BY <1>8, <2>1, <2>2 DEF Without
  <1>11. <<"save", "add", e>> # <<>> /\ Busy(<<"save", "add", e>>)'
    BY <1>10 DEF Busy
  <1> QED BY <1>0, <1>1, <1>4, <1>6, <1>11, Turn DEF Types

LEMMA SaveInv ==
    ASSUME PortsGiven, PortInv, NEW t \in Editors, NEW ok \in BOOLEAN, Save(t, ok)
    PROVE  PortInv'
  <1>0. Types /\ Single /\ t \in Tasks
    BY DEF PortInv, Editors, Tasks
  <1>1. todo[t] # <<>> /\ todo[t][1] = "save" /\ Busy(todo[t])
    BY <1>0, AtBusy DEF Save
  <1>2. DOMAIN todo' = Tasks
    BY <1>0 DEF Save, Then, Done, Types
  <1>3. Types'
    BY <1>0, <1>2 DEF Types, Save, Table
  <1>4. ASSUME NEW e \in Entries, todo[t] = <<"save", "add", e>>, Without(e)
        PROVE  PortInv'
    <2>1. Then(t, <<"add", e>>)
      BY <1>4 DEF Save
    <2>2. <<"add", e>> # <<>> /\ Busy(<<"add", e>>)'
      BY <1>4, SameState DEF Save, Busy
    <2> QED BY <1>0, <1>1, <1>3, <2>1, <2>2, Turn DEF Types
  <1>5. ASSUME NEW m \in Mports, todo[t] = <<"save", "remove", m>>, Over(m)
        PROVE  PortInv'
    <2>1. Then(t, <<"remove", m>>)
      BY <1>5 DEF Save
    <2>2. <<"remove", m>> # <<>> /\ Busy(<<"remove", m>>)'
      BY <1>5, SameState DEF Save, Busy
    <2> QED BY <1>0, <1>1, <1>3, <2>1, <2>2, Turn DEF Types
  <1>6. CASE todo[t] = <<"save">> /\ Exact({})
    <2>1. Then(t, <<>>)
      BY <1>6 DEF Save, Done
    <2>2. Exact({})'
      BY <1>6, SameState DEF Save
    <2> QED BY <1>0, <1>1, <1>3, <2>1, <2>2, Turn DEF Types
  <1> QED BY <1>1, <1>4, <1>5, <1>6, Words

LEMMA AddNaptInv ==
    ASSUME PortsGiven, PortInv, NEW t \in Editors, AddNapt(t)
    PROVE  PortInv'
  <1> USE DEF PortsGiven
  <1>0. Types /\ Single /\ t \in Tasks
    BY DEF PortInv, Editors, Tasks
  <1>1. todo[t] # <<>> /\ todo[t][1] = "add" /\ Busy(todo[t])
    BY <1>0, AtBusy DEF AddNapt
  <1>2. PICK e \in Entries : todo[t] = <<"add", e>> /\ Without(e)
    BY <1>1, Words
  <1> DEFINE key == <<e[1], bind, e[2]>>
  <1>3. /\ napt' \in [NaptKeys -> Nat]
        /\ \A k \in NaptKeys :
             napt'[k] = IF bind # 0 /\ napton /\ k = key THEN napt[k] + 1 ELSE napt[k]
    <2>1. CASE bind = 0
      BY <1>0, <2>1 DEF AddNapt, Types
    <2>2. CASE bind # 0
      <3>1. ip_portmap_add({key})
        BY <1>2, <2>2 DEF AddNapt
      <3>2. /\ napt' \in [NaptKeys -> Nat]
            /\ \A k \in NaptKeys :
                 napt'[k] = IF napton /\ k \in {key} THEN napt[k] + 1 ELSE napt[k]
        BY <1>0, <3>1, AddCounts DEF Types
      <3> QED BY <2>2, <3>2
    <2> QED BY <2>1, <2>2
  <1>4. UNCHANGED <<tab, blob, napton, bind>> /\ Then(t, <<>>)
    BY DEF AddNapt, Done
  <1>5. Types'
    BY <1>0, <1>3, <1>4 DEF Types, Then, Table
  <1>6. ASSUME NEW k \in NaptKeys
        PROVE  napt'[k] = IF Want(k) THEN 1 ELSE 0
    <2>1. CASE k[1] # e[1]
      BY <1>2, <1>3, <2>1 DEF Without, Exact
    <2>2. CASE k[1] = e[1]
      <3>1. napt[k] = 0
        BY <1>2, <2>2 DEF Without
      <3>2. PICK i \in Slot : tab[i] = e
        BY <1>2 DEF Without
      <3>3. \A j \in InUse : tab[j] = <<k[1], k[3]>> => j = i
        BY <1>0, <2>2, <3>2 DEF InUse, Types, Table
      <3>4. e = <<e[1], e[2]>> /\ k = <<k[1], k[2], k[3]>> /\ i \in InUse
        BY <3>2 DEF Entries, NaptKeys, InUse
      <3>5. (\E j \in InUse : tab[j] = <<k[1], k[3]>>) <=> k[3] = e[2]
        BY <2>2, <3>2, <3>3, <3>4
      <3>6. k = key <=> k[2] = bind /\ k[3] = e[2]
        BY <2>2, <3>4
      <3>7. Want(k) <=> bind # 0 /\ napton /\ k = key
        BY <3>5, <3>6 DEF Want
      <3> QED BY <1>3, <3>1, <3>7
    <2> QED BY <2>1, <2>2
  <1>7. Exact({})'
    BY <1>4, <1>6 DEF Exact, Want, InUse
  <1> QED BY <1>0, <1>1, <1>4, <1>5, <1>7, Turn DEF Types

LEMMA DelInv ==
    ASSUME PortsGiven, PortInv, NEW t \in Editors, NEW m \in Mports, del_portmap(t, m)
    PROVE  PortInv'
  <1> USE DEF PortsGiven
  <1>0. Types /\ Single /\ t \in Tasks
    BY DEF PortInv, Editors, Tasks
  <1>1. Quiet /\ Exact({}) /\ Thin
    BY ReadyExact DEF del_portmap
  <1>2. PICK i \in InUse : tab[i][1] = m /\ tab' = [tab EXCEPT ![i] = Unused]
    BY DEF del_portmap
  <1>3. i \in Slot /\ tab[i] # Unused
    BY DEF InUse
  <1>4. Table(tab') /\ Fresh(m)'
    BY <1>0, <1>2, <1>3 DEF Types, Table, Fresh, InUse
  <1>5. Types'
    BY <1>0, <1>4 DEF Types, del_portmap, Then, Table
  <1>6. ASSUME NEW k \in NaptKeys, k[1] # m
        PROVE  Want(k)' <=> Want(k)
    <2>1. tab[i] # <<k[1], k[3]>>
      BY <1>2, <1>6
    <2>2. Unused # <<k[1], k[3]>>
      BY DEF NaptKeys, Entries
    <2>3. \A j \in Slot : j \in InUse' /\ tab'[j] = <<k[1], k[3]>>
                      <=> j \in InUse /\ tab[j] = <<k[1], k[3]>>
      BY <1>0, <1>2, <1>3, <2>1, <2>2 DEF InUse, Types, Table
    <2> QED BY <2>3 DEF del_portmap, Want, InUse
  <1>7. Over(m)'
    BY <1>1, <1>4, <1>6 DEF Over, Exact, Thin, del_portmap
  <1>8. <<"save", "remove", m>> # <<>> /\ Busy(<<"save", "remove", m>>)'
    BY <1>7 DEF Busy
  <1>9. Then(t, <<"save", "remove", m>>)
    BY DEF del_portmap
  <1> QED BY <1>0, <1>1, <1>5, <1>8, <1>9, Turn DEF Types

LEMMA RemoveNaptInv ==
    ASSUME PortsGiven, PortInv, NEW t \in Editors, RemoveNapt(t)
    PROVE  PortInv'
  <1>0. Types /\ Single /\ t \in Tasks
    BY DEF PortInv, Editors, Tasks
  <1>1. todo[t] # <<>> /\ todo[t][1] = "remove" /\ Busy(todo[t])
    BY <1>0, AtBusy DEF RemoveNapt
  <1>2. PICK m \in Mports : todo[t] = <<"remove", m>> /\ Over(m)
    BY <1>1, Words
  <1>3. ip_portmap_remove({m}) /\ UNCHANGED <<tab, blob, napton, bind>> /\ Then(t, <<>>)
    BY <1>2 DEF RemoveNapt, Done
  <1>4. /\ napt' \in [NaptKeys -> Nat]
        /\ \A k \in NaptKeys : napt'[k] = IF k[1] \in {m} THEN 0 ELSE napt[k]
    BY <1>0, <1>2, <1>3, RemoveThin DEF Over, Types
  <1>5. Types'
    BY <1>0, <1>3, <1>4 DEF Types, Then, Table
  <1>6. ASSUME NEW k \in NaptKeys
        PROVE  napt'[k] = IF Want(k) THEN 1 ELSE 0
    <2>1. k[1] = m => ~Want(k)
      <3>1. \A j \in InUse : tab[j] = <<k[1], k[3]>> => tab[j][1] = k[1]
        OBVIOUS
      <3> QED BY <1>2, <3>1 DEF Over, Fresh, Want
    <2> QED BY <1>2, <1>4, <2>1 DEF Over, Exact
  <1>7. Exact({})'
    BY <1>3, <1>6 DEF Exact, Want, InUse
  <1> QED BY <1>0, <1>1, <1>3, <1>5, <1>7, Turn DEF Types

LEMMA ClearInv ==
    ASSUME PortsGiven, PortInv, NEW t \in Editors, clear_all_portmaps(t)
    PROVE  PortInv'
  <1>0. Types /\ Single /\ t \in Tasks
    BY DEF PortInv, Editors, Tasks
  <1>1. Quiet /\ Thin /\ Known
    BY ReadyExact DEF clear_all_portmaps
  <1>2. napt' \in [NaptKeys -> Nat] /\ Empty'
    BY <1>0, <1>1, DeleteEmpties DEF clear_all_portmaps, Types
  <1>3. InUse' = {} /\ Table(tab')
    BY DEF clear_all_portmaps, InUse, Table
  <1>4. Types'
    BY <1>0, <1>2, <1>3 DEF Types, clear_all_portmaps, Then, Table
  <1>5. Exact({})'
    BY <1>2, <1>3 DEF Exact, Empty, Want
  <1>6. Then(t, <<"save">>) /\ <<"save">> # <<>> /\ Busy(<<"save">>)'
    BY <1>5 DEF clear_all_portmaps, Busy
  <1> QED BY <1>0, <1>1, <1>4, <1>6, Turn DEF Types

-----------------------------------------------------------------------------

\* One task after the other, whatever the order of addresses, NAT, edits, failed writes and
\* restarts: lwIP forwards exactly what the table says.
THEOREM NaptFollowsTable ==
    ASSUME Overlap = FALSE, Unused \notin Entries, Slots \in Nat
    PROVE  PortSpec => []NaptIsTable
  <1> USE DEF PortsGiven
  <1>1. PortInit => PortInv
    BY PortInitInv
  <1>2. PortInv /\ [PortNext]_pmvars => PortInv'
    <2> SUFFICES ASSUME PortInv, [PortNext]_pmvars PROVE PortInv'
      OBVIOUS
    <2>1. CASE UNCHANGED pmvars
      <3>1. UNCHANGED <<tab, blob, unsaved, napt, napton, bind, todo>>
        BY <2>1 DEF pmvars
      <3>2. Types' /\ Single' /\ (Quiet' <=> Quiet)
        BY <3>1 DEF PortInv, Types, Table, Single, Quiet
      <3>3. ASSUME NEW w, Busy(w)
            PROVE  Busy(w)'
        <4>1. /\ (Thin' <=> Thin) /\ (Known' <=> Known) /\ (Empty' <=> Empty)
              /\ \A m : Fresh(m)' <=> Fresh(m)
          BY <3>1 DEF Thin, Known, Empty, Fresh, InUse
        <4>2. Filling(w)' <=> Filling(w)
          BY <3>1, <4>1, SameState DEF Filling
        <4> QED BY <3>1, <3>3, <4>1, <4>2, SameState DEF Busy
      <3>4. Exact({}) => Exact({})'
        BY <3>1 DEF Exact, Want, InUse
      <3>5. PhaseInv'
        BY <3>1, <3>2, <3>3, <3>4 DEF PortInv, PhaseInv
      <3> QED BY <3>2, <3>5 DEF PortInv
    <2>2. ASSUME NEW e \in Mports \X Targets, NEW t \in Editors, AddBegin(t, e)
          PROVE  PortInv'
      BY <2>2, BeginAddInv DEF Entries
    <2> QED BY <2>1, <2>2, RebuildInv, BeginRebuildInv, FillInv, SaveInv, AddNaptInv, DelInv,
              RemoveNaptInv, ClearInv, RebootInv DEF PortNext
  <1>3. PortInv => NaptIsTable
    <2> SUFFICES ASSUME PortInv, AtRest, napton, bind # 0, NEW k \in NaptKeys
                 PROVE  napt[k] = IF k[2] = bind /\ \E i \in InUse : tab[i] = <<k[1], k[3]>>
                                  THEN 1 ELSE 0
      BY DEF NaptIsTable
    <2>1. Exact({})
      BY DEF PortInv, PhaseInv, Quiet, AtRest
    <2> QED BY <2>1 DEF Exact, Want
  <1> QED BY <1>1, <1>2, <1>3, PTL DEF PortSpec

-----------------------------------------------------------------------------
(* The syslog client                                                       *)

\* stop_sender() never frees the buffers under a log call.
THEOREM BuffersLive ==
    ASSUME NoServer \notin Loggers
    PROVE  SyslogSpec => []FormatsInLiveBuffers
  <1>1. SyslogInit => FormatsInLiveBuffers
    BY DEF SyslogInit, syslog_init, FormatsInLiveBuffers
  <1>2. FormatsInLiveBuffers /\ [SyslogNext]_syvars => FormatsInLiveBuffers'
    <2> SUFFICES ASSUME FormatsInLiveBuffers, [SyslogNext]_syvars PROVE FormatsInLiveBuffers'
      OBVIOUS
    <2> USE DEF FormatsInLiveBuffers, config, socket, sender, format
    <2>1. CASE sender_task
      BY <2>1 DEF sender_task
    <2>2. ASSUME NEW l \in Loggers,
                 HookEnter(l) \/ \E b \in BOOLEAN : HookFormat(l, b) \/ HookPost(l, b)
          PROVE  FormatsInLiveBuffers'
      BY <2>2 DEF HookEnter, HookFormat, HookPost
    <2>3. ASSUME NEW u \in SyslogUsers,
                 \/ \E s \in Servers : syslog_enable(u, s)
                 \/ syslog_notify_connected(u) \/ syslog_connect(u)
                 \/ save_config(u) \/ syslog_disable(u) \/ StopBegin(u) \/ StopWait(u)
                 \/ DisableEnd(u)
          PROVE  FormatsInLiveBuffers'
      <3>1. UNCHANGED format
        BY <2>3 DEF syslog_enable, syslog_notify_connected, syslog_connect, save_config,
                    syslog_disable, StopBegin, StopWait, DisableEnd
      <3> QED BY <3>1
    <2>4. ASSUME NEW u \in SyslogUsers, \E found \in BOOLEAN : Resolved(u, found)
          PROVE  FormatsInLiveBuffers'
      BY <2>4 DEF Resolved, start_sender
    <2>5. ASSUME NEW u \in SyslogUsers, stop_sender(u)
          PROVE  FormatsInLiveBuffers'
      BY <2>5 DEF stop_sender
    <2>6. CASE UNCHANGED syvars
      BY <2>6 DEF syvars
    <2> QED BY <2>1, <2>2, <2>3, <2>4, <2>5, <2>6 DEF SyslogNext
  <1> QED BY <1>1, <1>2, PTL DEF SyslogSpec
=============================================================================
