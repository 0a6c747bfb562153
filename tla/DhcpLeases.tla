----------------------------- MODULE DhcpLeases -----------------------------
(***************************************************************************)
(* The DHCP server of the access point: components/dhcpserver/dhcpserver.c *)
(* and the reservations of main/dhcp_manager.c.                            *)
(*                                                                         *)
(* The server runs in the tcpip thread: a message, a tick of its coarse    *)
(* timer and a restart are single steps.  Console and web server edit the  *)
(* reservations from their own tasks, between any two of these steps.      *)
(* Clients are external.  A message is handled in the step that sends it   *)
(* (the link to the access point keeps the order, and the answer depends   *)
(* on the server's state alone); messages and answers may be lost.         *)
(*                                                                         *)
(* An address is its last octet (the network is a /24).  The list of       *)
(* leases, which node_insert_to_list() keeps sorted by address, is a set;  *)
(* what the code finds by walking it in order is defined from the set.     *)
(***************************************************************************)
EXTENDS Naturals, FiniteSets

CONSTANTS
    Macs,              \* the clients
    Router,            \* server_address
    PoolStart, PoolEnd,\* dhcps_poll, to one side of the router's address
    LeaseTime,         \* lease time in ticks of the coarse timer
    MaxStations,       \* MAX_STATION_NUM
    Slots,             \* MAX_DHCP_RESERVATIONS
    Reservable,        \* addresses an administrator may reserve
    MaxEdits           \* bound: edits of the reservations

NoAddr == 0            \* 0.0.0.0; as a reservation it blocks the client

ASSUME DhcpAssumption ==
    /\ IsFiniteSet(Macs)
    /\ PoolStart \in Nat \ {0} /\ PoolEnd \in Nat /\ PoolStart <= PoolEnd
    /\ Router \in Nat \ {0} /\ Router \notin PoolStart .. PoolEnd
    /\ LeaseTime \in Nat \ {0} /\ MaxStations \in Nat \ {0} /\ Slots \in Nat
    /\ Reservable \subseteq Nat \ {0, Router}
    /\ MaxEdits \in Nat

VARIABLES
    leases,     \* plist
    plus,       \* client_address_plus, the address to try next
    declined,   \* has_declined_ip
    res,        \* dhcp_reservations: the reserved address of some MACs
    client,     \* what a client believes
    killed,     \* kill_oldest_dhcps_pool() has evicted a lease since the start
    edits       \* how often the reservations have been edited

serverVars == <<leases, plus, declined>>
vars == <<serverVars, res, client, killed, edits>>

Lease   == [mac : Macs, ip : Nat, left : Nat]
Unbound   == [st |-> "init", ip |-> NoAddr, left |-> 0]

Init ==
    /\ leases = {} /\ plus = PoolStart /\ declined = FALSE
    /\ res = [m \in {} |-> NoAddr]
    /\ client = [m \in Macs |-> Unbound]
    /\ killed = FALSE /\ edits = 0

-----------------------------------------------------------------------------
(* dhcp_manager.c: the reservations.  add_dhcp_reservation() updates the   *)
(* entry of a MAC or takes a free slot, so a MAC has one entry at most.    *)

\* lookup_dhcp_reservation()
Reserved(m) == IF m \in DOMAIN res THEN res[m] ELSE NoAddr

\* is_ip_reserved_for_other()
ReservedForOther(a, m) == \E n \in DOMAIN res \ {m} : a # NoAddr /\ res[n] = a

Edit == edits < MaxEdits /\ edits' = edits + 1

Reserve(m, a) ==
    /\ Edit
    /\ m \in DOMAIN res \/ Cardinality(DOMAIN res) < Slots
    /\ res' = [n \in DOMAIN res \cup {m} |-> IF n = m THEN a ELSE res[n]]
    /\ UNCHANGED <<serverVars, client, killed>>

Unreserve(m) ==
    /\ Edit
    /\ m \in DOMAIN res
    /\ res' = [n \in DOMAIN res \ {m} |-> res[n]]
    /\ UNCHANGED <<serverVars, client, killed>>

ClearReservations ==
    /\ Edit
    /\ res' = [n \in {} |-> NoAddr]
    /\ UNCHANGED <<serverVars, client, killed>>

-----------------------------------------------------------------------------
(* parse_msg(): the choice of an address.                                  *)

Ips == {l.ip : l \in leases}

\* Mutant: a lease in its last tick is taken for a lease that has run out.
MutLeasesOf(m) == {l \in leases : l.mac = m /\ l.left > 1}

LeasesOf(m) == {l \in leases : l.mac = m}

\* Mutant: it is moved on once at most.
MutWalk(from, ips) == IF from \in ips THEN from + 1 ELSE from

\* client_address_plus is moved on past the leases the walk meets.
Walk(from, ips) ==
    CHOOSE a \in from .. from + Cardinality(ips) :
        a \notin ips /\ \A b \in from .. a - 1 : b \in ips

\* Mutant: a lease that starts behind the candidate is taken for a free address.
MutFirstUnused ==
    PoolStart + CHOOSE k \in 0 .. Cardinality(leases) :
                    /\ Cardinality({l \in leases : l.ip < PoolStart + k}) <= k
                    /\ \A j \in 0 .. k - 1 : Cardinality({l \in leases : l.ip < PoolStart + j}) > j

\* first_address: it moves on by one for every lease that is not beyond it.
FirstUnused ==
    PoolStart + CHOOSE k \in 0 .. Cardinality(leases) :
                    /\ Cardinality({l \in leases : l.ip <= PoolStart + k}) <= k
                    /\ \A j \in 0 .. k - 1 : Cardinality({l \in leases : l.ip <= PoolStart + j}) > j

\* With no lease at all the pool starts over, unless an address was just declined.
NextInPool ==
    IF Walk(plus, Ips) > PoolEnd THEN FirstUnused
    ELSE IF leases = {} /\ ~declined THEN PoolStart
    ELSE Walk(plus, Ips)

\* Mutant: reservations of others are not looked at.
MutSkipReserved(a, m) == a

\* "Skip IPs that are reserved for a different MAC"
SkipReserved(a, m) ==
    IF a > PoolEnd THEN a
    ELSE CHOOSE b \in a .. PoolEnd + 1 :
             /\ b = PoolEnd + 1 \/ ~ReservedForOther(b, m)
             /\ \A c \in a .. b - 1 : ReservedForOther(c, m)

\* "Always use the reserved IP, regardless of pool range"
Chosen(m) ==
    IF Reserved(m) # NoAddr THEN Reserved(m) ELSE SkipReserved(NextInPool, m)

-----------------------------------------------------------------------------
(* parse_options() and handle_dhcp().                                      *)

\* The state of the exchange, for the address the server has in mind.
Verdict(q, ip, renew) ==
    LET asks == IF q.opt50 = NoAddr THEN "idle" ELSE IF q.opt50 = ip THEN "ack" ELSE "nak"
    IN  CASE q.type = "discover" -> "offer"
          [] q.type = "request"  -> IF asks # "idle" THEN asks ELSE IF renew THEN "ack" ELSE "nak"
          [] q.type = "decline"  -> "decline"
          [] q.type = "release"  -> "release"
          [] q.type = "inform"   -> asks

Drops(v) == v \in {"release", "nak", "decline"}

\* What an answer makes a client believe.  The server's ticks are not in step
\* with the client's clock: a lease may last one tick more for the client.
Told(c, v, ip) ==
    CASE v = "offer" -> [st |-> "offered", ip |-> ip, left |-> 0]
      [] v = "ack"   -> [st |-> "bound", ip |-> ip, left |-> LeaseTime + 1]
      [] v = "nak"   -> Unbound
      [] OTHER       -> c

\* A client that releases or declines its address forgets it.
Sender(m, q) == IF q.type \in {"release", "decline"} THEN Unbound ELSE client[m]

\* send_offer(), send_ack(), send_nak() or silence; the answer may be lost.
Respond(m, q, v, ip) ==
    \E c \in {Sender(m, q), Told(Sender(m, q), v, ip)} : client' = [client EXCEPT ![m] = c]

\* A client the server knows.  The walk stops at its lease; leases of the same
\* address may stand on either side of it.
HandleKnown(m, q) ==
    \E l \in LeasesOf(m) :
        LET before  == {k \in leases : k.ip < l.ip}
            twins   == {k \in leases \ {l} : k.ip = l.ip}
            verdict == Verdict(q, l.ip, q.ciaddr = l.ip)
        IN  /\ \E walked \in {before, before \cup twins} :
                   plus' = Walk(plus, {k.ip : k \in walked})
            /\ leases' = IF Drops(verdict) THEN leases \ {l}
                         ELSE (leases \ {l}) \cup {[l EXCEPT !.left = LeaseTime]}
            /\ declined' = (verdict = "decline")
            /\ Respond(m, q, verdict, l.ip)

After(a) == IF a = PoolEnd THEN PoolStart ELSE a + 1

\* A client without a lease gets one before its options are looked at.
HandleNew(m, q) ==
    LET ip      == Chosen(m)
        verdict == IF ip > PoolEnd THEN "nak" ELSE Verdict(q, ip, FALSE)
    IN  /\ LeasesOf(m) = {}
        /\ plus' = IF ip > PoolEnd THEN PoolStart ELSE After(ip)
        /\ leases' = IF Drops(verdict) THEN leases
                     ELSE leases \cup {[mac |-> m, ip |-> ip, left |-> LeaseTime]}
        /\ declined' = (verdict = "decline")
        /\ Respond(m, q, verdict, ip)

Handle(m, q) ==
    /\ HandleKnown(m, q) \/ HandleNew(m, q)
    /\ UNCHANGED <<res, killed, edits>>

-----------------------------------------------------------------------------
(* dhcps_tmr() and the server's life.                                      *)

\* Mutant: a lease is given up one tick early.
MutAged == {[l EXCEPT !.left = @ - 1] : l \in {k \in leases : k.left > 2}}

\* Leases lose a tick, those at zero are removed.
Aged == {[l EXCEPT !.left = @ - 1] : l \in {k \in leases : k.left # 1}}

\* kill_oldest_dhcps_pool(): the first of those with the least time left.
Oldest(l, S) == \A k \in S : l.left < k.left \/ (l.left = k.left /\ l.ip <= k.ip)

\* The client's clock: a lease that has run out is not used any more.
Passed(c) ==
    IF c.st # "bound" THEN c
    ELSE IF c.left = 1 THEN Unbound
    ELSE [c EXCEPT !.left = @ - 1]

Tick ==
    /\ IF Cardinality(Aged) > MaxStations
         THEN \E l \in Aged : Oldest(l, Aged) /\ leases' = Aged \ {l} /\ killed' = TRUE
         ELSE leases' = Aged /\ UNCHANGED killed
    /\ client' = [m \in Macs |-> Passed(client[m])]
    /\ UNCHANGED <<plus, declined, res, edits>>

\* dhcps_stop() and dhcps_start() when the access point is switched off and on;
\* the stations lose their association with it.
Restart ==
    /\ leases' = {} /\ plus' = PoolStart
    /\ client' = [m \in Macs |-> Unbound]
    /\ killed' = FALSE
    /\ UNCHANGED <<declined, res, edits>>

-----------------------------------------------------------------------------
(* The clients (external).                                                 *)

Send(m, type, ciaddr, opt50) ==
    Handle(m, [type |-> type, ciaddr |-> ciaddr, opt50 |-> opt50])

\* A client that remembers an address from before may ask for it at once.
Join(m) ==
    /\ client[m].st = "init"
    /\ \/ Send(m, "discover", NoAddr, NoAddr)
       \/ Send(m, "inform", NoAddr, NoAddr)
       \/ \E a \in PoolStart .. PoolEnd : Send(m, "request", NoAddr, a)

Select(m) ==
    /\ client[m].st = "offered"
    /\ Send(m, "request", NoAddr, client[m].ip)

Renew(m) ==
    /\ client[m].st = "bound"
    /\ Send(m, "request", client[m].ip, NoAddr)

Leave(m) ==
    /\ client[m].st = "bound"
    /\ \/ Send(m, "release", client[m].ip, NoAddr)
       \/ Send(m, "decline", NoAddr, client[m].ip)

\* It goes without a word, or its last message is lost.
Vanish(m) ==
    /\ client[m].st # "init"
    /\ client' = [client EXCEPT ![m] = Unbound]
    /\ UNCHANGED <<serverVars, res, killed, edits>>

-----------------------------------------------------------------------------
Administer ==
    \/ \E m \in Macs : Unreserve(m) \/ \E a \in Reservable \cup {NoAddr} : Reserve(m, a)
    \/ ClearReservations

Next ==
    \/ \E m \in Macs : Join(m) \/ Select(m) \/ Renew(m) \/ Leave(m) \/ Vanish(m)
    \/ Administer
    \/ Tick
    \/ Restart

Spec == Init /\ [][Next]_vars
-----------------------------------------------------------------------------
(* Properties.                                                             *)

\* Types; a lease never lies beyond the pool's end and has time left.
TypeOK ==
    /\ leases \subseteq Lease
    /\ \A l \in leases : l.ip \in 1 .. PoolEnd /\ l.left \in 1 .. LeaseTime
    /\ plus \in Nat \ {0}
    /\ declined \in BOOLEAN /\ killed \in BOOLEAN
    /\ DOMAIN res \subseteq Macs
    /\ \A m \in DOMAIN res : res[m] \in Reservable \cup {NoAddr}
    /\ client \in [Macs -> [st : {"init", "offered", "bound"}, ip : Nat, left : Nat]]
    /\ edits \in Nat

\* A MAC has one lease at most, however often its messages are repeated.
OneLeasePerMac == \A k, l \in leases : k.mac = l.mac => k = l

\* As long as nothing is reserved, every lease is in the pool and no two leases
\* share an address.
PoolIsSound ==
    edits = 0 => /\ \A l \in leases : l.ip >= PoolStart
                 /\ \A k, l \in leases : k.ip = l.ip => k = l

\* What a client uses the server has reserved for it: until the last tick of
\* its lease the lease is in the server's list, whatever was lost, repeated or
\* delayed, unless the list had overflowed.
BoundIsLeased ==
    \A m \in Macs :
        (client[m].st = "bound" /\ client[m].left > 1 /\ ~killed) =>
            \E l \in LeasesOf(m) : l.ip = client[m].ip

\* Without reservations and overflow no two clients use one address, the last
\* tick of a lease excepted.
NoConflict ==
    \A m, n \in Macs :
        ( /\ m # n /\ edits = 0 /\ ~killed
          /\ client[m].st = "bound" /\ client[m].left > 1
          /\ client[n].st = "bound" /\ client[n].left > 1 ) => client[m].ip # client[n].ip

\* A new lease is never of an address that is reserved for another client.
NewLeaseRespectsReservations ==
    [][\A m \in Macs :
          (LeasesOf(m) = {} /\ Reserved(m) = NoAddr) =>
              \A l \in leases' : l.mac = m => ~ReservedForOther(l.ip, m)]_vars

\* "Reserved IPs are never handed to other devices."
ReservedNeverToOthers ==
    [][\A m \in Macs :
          (client'[m].st = "bound" /\ client'[m].left > client[m].left)
              => ~ReservedForOther(client'[m].ip, m)]_vars

\* "config ip information can't contain local ip": the addresses the server gives
\* away do not contain its own.
RouterNotLeased == \A l \in leases : l.ip # Router
=============================================================================
