-------------------------- MODULE DhcpLeasesProofs --------------------------
(***************************************************************************)
(* What the DHCP server guarantees for every number of clients, every      *)
(* pool, lease time and set of reservations: a client has one lease, the   *)
(* address it uses is leased to it, and, until the first edit of the       *)
(* reservations, no two clients have one address and none is below the     *)
(* pool (its end is tested when a lease is granted).                       *)
(***************************************************************************)
EXTENDS DhcpLeases, FiniteSetTheorems, TLAPS

\* The parts of a lease and of what a client believes; nothing is said here of
\* the addresses.
Shaped ==
    /\ \A l \in leases : /\ l = [mac |-> l.mac, ip |-> l.ip, left |-> l.left]
                         /\ l.left \in 1 .. LeaseTime
    /\ client = [m \in Macs |-> client[m]]
    /\ \A m \in Macs : /\ client[m] = [st |-> client[m].st, ip |-> client[m].ip, left |-> client[m].left]
                       /\ client[m].left \in 0 .. LeaseTime + 1
                       /\ client[m].st = "bound" => client[m].left > 0

\* The lease lasts at least as long as the client believes, the client's last
\* tick excepted.
Lasts(m) ==
    \E l \in LeasesOf(m) : l.ip = client[m].ip /\ l.left >= client[m].left - 1

Covered ==
    \A m \in Macs : (client[m].st = "bound" /\ client[m].left > 1 /\ ~killed) => Lasts(m)

IInv == Shaped /\ OneLeasePerMac /\ Covered

-----------------------------------------------------------------------------
LEMMA InitHolds == Init => IInv
BY DhcpAssumption DEF Init, IInv, Shaped, OneLeasePerMac, Covered, Unbound

\* A message of one client leaves the leases of the others, and what they
\* believe, alone.
LEMMA Others ==
    ASSUME IInv, NEW m \in Macs,
           leases \ LeasesOf(m) \subseteq leases',
           \A l \in leases' : l.mac # m => l \in leases,
           NEW c, client' = [client EXCEPT ![m] = c],
           c = [st |-> c.st, ip |-> c.ip, left |-> c.left], c.left \in 0 .. LeaseTime + 1,
           c.st = "bound" => c.left > 0,
           \A l \in leases' : l.mac = m => /\ l = [mac |-> m, ip |-> l.ip, left |-> l.left]
                                           /\ l.left \in 1 .. LeaseTime,
           \A k, l \in leases' : k.mac = m /\ l.mac = m => k = l,
           killed' = killed,
           (c.st = "bound" /\ c.left > 1 /\ ~killed) =>
               \E l \in leases' : l.mac = m /\ l.ip = c.ip /\ l.left >= c.left - 1
    PROVE  IInv'
<1>1. Shaped'
  BY DEF IInv, Shaped
<1>2. OneLeasePerMac'
  BY DEF IInv, OneLeasePerMac
<1>3. Covered'
  <2> SUFFICES ASSUME NEW n \in Macs, (client[n].st = "bound" /\ client[n].left > 1 /\ ~killed)'
               PROVE  Lasts(n)'
    BY DEF Covered
  <2>1. CASE n = m
    <3>1. client'[n] = c
      BY <2>1 DEF IInv, Shaped
    <3> QED
      BY <2>1, <3>1 DEF Lasts, LeasesOf
  <2>2. CASE n # m
    <3>1. client'[n] = client[n]
      BY <2>2 DEF IInv, Shaped
    <3>2. PICK l \in LeasesOf(n) : l.ip = client[n].ip /\ l.left >= client[n].left - 1
      BY <3>1 DEF IInv, Covered, Lasts
    <3>3. l \in leases' /\ l.mac = n
      BY <2>2, <3>2 DEF LeasesOf
    <3> QED
      BY <3>1, <3>2, <3>3 DEF Lasts, LeasesOf
  <2> QED
    BY <2>1, <2>2
<1> QED
  BY <1>1, <1>2, <1>3 DEF IInv

-----------------------------------------------------------------------------
\* A client that uses an address only renews it, or gives it up.
Proper(m, q) ==
    \/ client[m].st # "bound"
    \/ q.type \in {"release", "decline"}
    \/ q.type = "request" /\ q.opt50 = NoAddr /\ q.ciaddr = client[m].ip

\* What a client believes after a message, its answer received or not.
Believes(m, q, v, ip, c) ==
    /\ client' = [client EXCEPT ![m] = c]
    /\ c = [st |-> c.st, ip |-> c.ip, left |-> c.left]
    /\ c.left \in 0 .. LeaseTime + 1
    /\ c.st = "bound" => c.left > 0
    /\ c.st = "bound" =>
          \/ v = "ack" /\ c.ip = ip /\ c.left = LeaseTime + 1
          \/ c = client[m] /\ q.type \notin {"release", "decline"}

LEMMA Answered ==
    ASSUME IInv, NEW m \in Macs, NEW q, NEW v, NEW ip, Respond(m, q, v, ip)
    PROVE  \E c : Believes(m, q, v, ip, c)
<1>1. PICK c \in {Sender(m, q), Told(Sender(m, q), v, ip)} : client' = [client EXCEPT ![m] = c]
  BY DEF Respond
<1>2. \/ Sender(m, q) = Unbound
      \/ Sender(m, q) = client[m] /\ q.type \notin {"release", "decline"}
  BY DEF Sender
<1>3. 0 \in 0 .. LeaseTime + 1 /\ LeaseTime + 1 \in 0 .. LeaseTime + 1
  BY DhcpAssumption
<1>4. \A x \in {Unbound, client[m]} : x = [st |-> x.st, ip |-> x.ip, left |-> x.left]
                                      /\ x.left \in 0 .. LeaseTime + 1
  BY <1>3 DEF IInv, Shaped, Unbound
<1>5. Unbound.st # "bound"
  BY DEF Unbound
<1>6. \/ c = Sender(m, q)
      \/ v = "offer" /\ c = [st |-> "offered", ip |-> ip, left |-> 0]
      \/ v = "ack" /\ c = [st |-> "bound", ip |-> ip, left |-> LeaseTime + 1]
      \/ v = "nak" /\ c = Unbound
  BY <1>1 DEF Told
<1>7. c = [st |-> c.st, ip |-> c.ip, left |-> c.left] /\ c.left \in 0 .. LeaseTime + 1
  BY <1>2, <1>3, <1>4, <1>6
<1>8. c.st = "bound" => \/ v = "ack" /\ c.ip = ip /\ c.left = LeaseTime + 1
                        \/ c = client[m] /\ q.type \notin {"release", "decline"}
  BY <1>2, <1>5, <1>6
<1>9. c.st = "bound" => c.left > 0
  BY <1>8, DhcpAssumption DEF IInv, Shaped
<1> QED
  BY <1>1, <1>7, <1>8, <1>9 DEF Believes

LEMMA KnownStep ==
    ASSUME IInv, NEW m \in Macs, NEW q, Proper(m, q), HandleKnown(m, q), killed' = killed
    PROVE  IInv'
<1>1. PICK l \in LeasesOf(m) :
          /\ leases' = IF Drops(Verdict(q, l.ip, q.ciaddr = l.ip)) THEN leases \ {l}
                       ELSE (leases \ {l}) \cup {[l EXCEPT !.left = LeaseTime]}
          /\ Respond(m, q, Verdict(q, l.ip, q.ciaddr = l.ip), l.ip)
  BY DEF HandleKnown
<1> DEFINE v == Verdict(q, l.ip, q.ciaddr = l.ip)
           r == [l EXCEPT !.left = LeaseTime]
<1>2. PICK c : Believes(m, q, v, l.ip, c)
  BY <1>1, Answered
<1>3. /\ client' = [client EXCEPT ![m] = c]
      /\ c = [st |-> c.st, ip |-> c.ip, left |-> c.left]
      /\ c.left \in 0 .. LeaseTime + 1
      /\ c.st = "bound" => c.left > 0
      /\ c.st = "bound" =>
            \/ v = "ack" /\ c.ip = l.ip /\ c.left = LeaseTime + 1
            \/ c = client[m] /\ q.type \notin {"release", "decline"}
  BY <1>2 DEF Believes
<1>4. l \in leases /\ l.mac = m /\ \A k \in leases : k.mac = m => k = l
  BY <1>1 DEF LeasesOf, IInv, OneLeasePerMac
<1>5. r = [mac |-> m, ip |-> l.ip, left |-> LeaseTime] /\ LeaseTime \in 1 .. LeaseTime
  BY <1>4, DhcpAssumption DEF IInv, Shaped
<1>6. \A k \in leases' : k.mac = m => k = r
  BY <1>1, <1>4
<1>7. leases \ LeasesOf(m) \subseteq leases' /\ \A k \in leases' : k.mac # m => k \in leases
  BY <1>1, <1>4, <1>5 DEF LeasesOf
<1>8. v = "ack" => r \in leases'
  BY <1>1 DEF Drops
<1>9. (c.st = "bound" /\ c.left > 1 /\ ~killed) =>
          \E k \in leases' : k.mac = m /\ k.ip = c.ip /\ k.left >= c.left - 1
  <2> SUFFICES ASSUME c.st = "bound", c.left > 1, ~killed
               PROVE  v = "ack" /\ c.ip = l.ip
    BY <1>3, <1>5, <1>8, DhcpAssumption
  <2>1. CASE v = "ack" /\ c.ip = l.ip
    BY <2>1
  <2>2. CASE c = client[m] /\ q.type \notin {"release", "decline"}
    <3>1. c = client[m] /\ q.type = "request" /\ q.opt50 = NoAddr /\ q.ciaddr = client[m].ip
      BY <2>2 DEF Proper
    <3>2. l.ip = client[m].ip
      BY <1>4, <3>1 DEF IInv, Covered, Lasts, LeasesOf
    <3> QED
      BY <3>1, <3>2 DEF Verdict
  <2> QED
    BY <1>3, <2>1, <2>2
<1> QED
  BY <1>3, <1>5, <1>6, <1>7, <1>9, Others

LEMMA NewStep ==
    ASSUME IInv, NEW m \in Macs, NEW q, Proper(m, q), HandleNew(m, q), killed' = killed
    PROVE  IInv'
<1>1. PICK a, v :
          /\ LeasesOf(m) = {}
          /\ leases' = IF Drops(v) THEN leases
                       ELSE leases \cup {[mac |-> m, ip |-> a, left |-> LeaseTime]}
          /\ Respond(m, q, v, a)
  BY DEF HandleNew
<1> DEFINE r == [mac |-> m, ip |-> a, left |-> LeaseTime]
<1>2. PICK c : Believes(m, q, v, a, c)
  BY <1>1, Answered
<1>3. /\ client' = [client EXCEPT ![m] = c]
      /\ c = [st |-> c.st, ip |-> c.ip, left |-> c.left]
      /\ c.left \in 0 .. LeaseTime + 1
      /\ c.st = "bound" => c.left > 0
      /\ c.st = "bound" =>
            \/ v = "ack" /\ c.ip = a /\ c.left = LeaseTime + 1
            \/ c = client[m] /\ q.type \notin {"release", "decline"}
  BY <1>2 DEF Believes
<1>4. \A k \in leases' : k.mac = m => k = r
  BY <1>1 DEF LeasesOf
<1>5. leases \ LeasesOf(m) \subseteq leases' /\ \A k \in leases' : k.mac # m => k \in leases
  BY <1>1
<1>6. LeaseTime \in 1 .. LeaseTime /\ LeaseTime >= LeaseTime + 1 - 1
  BY DhcpAssumption
<1>7. v = "ack" => r \in leases'
  BY <1>1 DEF Drops
<1>8. (c.st = "bound" /\ c.left > 1 /\ ~killed) =>
          \E k \in leases' : k.mac = m /\ k.ip = c.ip /\ k.left >= c.left - 1
  <2> SUFFICES ASSUME c.st = "bound", c.left > 1, ~killed
               PROVE  v = "ack" /\ c.ip = a /\ c.left = LeaseTime + 1
    BY <1>6, <1>7
  <2>1. c # client[m] \/ client[m].st # "bound"
    BY <1>1 DEF IInv, Covered, Lasts
  <2> QED
    BY <1>3, <2>1
<1>9. \A k \in leases' : k.mac = m => /\ k = [mac |-> m, ip |-> k.ip, left |-> k.left]
                                      /\ k.left \in 1 .. LeaseTime
  BY <1>4, <1>6
<1>10. \A k, l \in leases' : k.mac = m /\ l.mac = m => k = l
  BY <1>4
<1> HIDE DEF r
<1> QED
  BY <1>3, <1>5, <1>8, <1>9, <1>10, Others

LEMMA SendStep ==
    ASSUME IInv, NEW m \in Macs, NEW type, NEW ciaddr, NEW opt50, Send(m, type, ciaddr, opt50),
           \/ client[m].st # "bound"
           \/ type \in {"release", "decline"}
           \/ type = "request" /\ opt50 = NoAddr /\ ciaddr = client[m].ip
    PROVE  IInv'
<1> DEFINE q == [type |-> type, ciaddr |-> ciaddr, opt50 |-> opt50]
<1>1. Proper(m, q)
  BY DEF Proper
<1>2. HandleKnown(m, q) \/ HandleNew(m, q)
  BY DEF Send, Handle
<1>3. killed' = killed
  BY DEF Send, Handle
<1> HIDE DEF q
<1> QED
  BY <1>1, <1>2, <1>3, KnownStep, NewStep

-----------------------------------------------------------------------------
\* A tick ages the leases of both sides alike.
LEMMA AgedLeases ==
    ASSUME IInv
    PROVE  /\ \A l \in Aged : \E k \in leases : k.left > 1 /\ l = [k EXCEPT !.left = @ - 1]
           /\ \A k \in leases : k.left > 1 => [k EXCEPT !.left = @ - 1] \in Aged
<1>1. \A k \in leases : k.left # 1 <=> k.left > 1
  BY DEF IInv, Shaped
<1> QED
  BY <1>1 DEF Aged

LEMMA TickStep ==
    ASSUME IInv, Tick
    PROVE  IInv'
<1>1. /\ leases' \subseteq Aged
      /\ ~killed' => leases' = Aged /\ ~killed
  BY DEF Tick, IInv
<1>2. client' = [m \in Macs |-> Passed(client[m])]
  BY DEF Tick
<1>3. \A l \in leases' : \E k \in leases : k.left > 1 /\ l = [k EXCEPT !.left = @ - 1]
  BY <1>1, AgedLeases
<1>4. \A k \in leases : LET r == [k EXCEPT !.left = @ - 1]
                        IN  r.mac = k.mac /\ r.ip = k.ip /\ r.left = k.left - 1
                            /\ r = [mac |-> k.mac, ip |-> k.ip, left |-> k.left - 1]
  BY DEF IInv, Shaped
<1>5. Shaped'
  <2>1. ASSUME NEW l \in leases'
        PROVE  l = [mac |-> l.mac, ip |-> l.ip, left |-> l.left] /\ l.left \in 1 .. LeaseTime
    <3>1. PICK k \in leases : k.left > 1 /\ l = [k EXCEPT !.left = @ - 1]
      BY <1>3
    <3>2. k.left \in 1 .. LeaseTime
      BY DEF IInv, Shaped
    <3>3. l = [mac |-> k.mac, ip |-> k.ip, left |-> k.left - 1]
      BY <1>4, <3>1
    <3>4. k.left - 1 \in 1 .. LeaseTime
      BY <3>1, <3>2, DhcpAssumption
    <3> QED
      BY <3>3, <3>4
  <2>2. ASSUME NEW m \in Macs
        PROVE  /\ client'[m] = [st |-> client'[m].st, ip |-> client'[m].ip, left |-> client'[m].left]
               /\ client'[m].left \in 0 .. LeaseTime + 1
               /\ client'[m].st = "bound" => client'[m].left > 0
    <3>1. /\ client[m] = [st |-> client[m].st, ip |-> client[m].ip, left |-> client[m].left]
          /\ client[m].left \in 0 .. LeaseTime + 1
          /\ client[m].st = "bound" => client[m].left > 0
      BY DEF IInv, Shaped
    <3>2. client'[m] = Passed(client[m])
      BY <1>2
    <3>3. CASE client[m].st # "bound"
      BY <3>1, <3>2, <3>3 DEF Passed
    <3>4. CASE client'[m] = Unbound
      BY <3>4, DhcpAssumption DEF Unbound
    <3>5. CASE client[m].st = "bound" /\ client[m].left # 1 /\ client[m].left > 0
      <4>1. client'[m] = [st |-> client[m].st, ip |-> client[m].ip, left |-> client[m].left - 1]
        BY <3>1, <3>2, <3>5 DEF Passed
      <4>2. client[m].left - 1 \in 0 .. LeaseTime + 1 /\ client[m].left - 1 > 0
        BY <3>1, <3>5, DhcpAssumption
      <4> QED
        BY <4>1, <4>2
    <3> QED
      BY <3>1, <3>2, <3>3, <3>4, <3>5 DEF Passed
  <2> QED
    BY <1>2, <2>1, <2>2 DEF Shaped
<1>6. OneLeasePerMac'
  <2> SUFFICES ASSUME NEW k \in leases', NEW l \in leases', k.mac = l.mac
               PROVE  k = l
    BY DEF OneLeasePerMac
  <2>1. PICK i \in leases : k = [i EXCEPT !.left = @ - 1]
    BY <1>3
  <2>2. PICK j \in leases : l = [j EXCEPT !.left = @ - 1]
    BY <1>3
  <2>3. i.mac = j.mac
    BY <1>4, <2>1, <2>2
  <2> QED
    BY <2>1, <2>2, <2>3 DEF IInv, OneLeasePerMac
<1>7. Covered'
  <2> SUFFICES ASSUME NEW m \in Macs, client'[m].st = "bound", client'[m].left > 1, ~killed'
               PROVE  \E l \in leases' : l.mac = m /\ l.ip = client'[m].ip /\ l.left >= client'[m].left - 1
    BY DEF Covered, Lasts, LeasesOf
  <2>1. client[m].left \in 0 .. LeaseTime + 1
    BY DEF IInv, Shaped
  <2>2. client[m].st = "bound" /\ client[m].left > 2 /\ client'[m].ip = client[m].ip
        /\ client'[m].left = client[m].left - 1
    BY <1>2, <2>1 DEF Passed, Unbound, IInv, Shaped
  <2>3. PICK k \in leases : k.mac = m /\ k.ip = client[m].ip /\ k.left >= client[m].left - 1
    BY <1>1, <2>1, <2>2 DEF IInv, Covered, Lasts, LeasesOf
  <2>4. k.left \in 1 .. LeaseTime
    BY DEF IInv, Shaped
  <2>5. k.left > 1 /\ k.left - 1 >= client'[m].left - 1
    BY <2>1, <2>2, <2>3, <2>4, DhcpAssumption
  <2>6. [k EXCEPT !.left = @ - 1] \in leases'
    BY <1>1, <2>5, AgedLeases
  <2> QED
    BY <1>4, <2>2, <2>3, <2>5, <2>6
<1> QED
  BY <1>5, <1>6, <1>7 DEF IInv

-----------------------------------------------------------------------------
\* One step for every action.
LEMMA NextKeeps == IInv /\ [Next]_vars => IInv'
<1> SUFFICES ASSUME IInv, [Next]_vars
             PROVE  IInv'
  OBVIOUS
<1>1. ASSUME NEW m \in Macs, Join(m)
      PROVE  IInv'
  BY <1>1, SendStep DEF Join
<1>2. ASSUME NEW m \in Macs, Select(m)
      PROVE  IInv'
  BY <1>2, SendStep DEF Select
<1>3. ASSUME NEW m \in Macs, Renew(m)
      PROVE  IInv'
  BY <1>3, SendStep DEF Renew
<1>4. ASSUME NEW m \in Macs, Leave(m)
      PROVE  IInv'
  BY <1>4, SendStep DEF Leave
<1>5. ASSUME NEW m \in Macs, Vanish(m)
      PROVE  IInv'
  <2>1. client' = [client EXCEPT ![m] = Unbound] /\ leases' = leases /\ killed' = killed
    BY <1>5 DEF Vanish, serverVars
  <2>2. Unbound.st # "bound" /\ Unbound.left = 0
        /\ Unbound = [st |-> Unbound.st, ip |-> Unbound.ip, left |-> Unbound.left]
    BY DEF Unbound
  <2>3. 0 \in 0 .. LeaseTime + 1
    BY DhcpAssumption
  <2> HIDE DEF Unbound
  <2>4. Shaped'
    BY <2>1, <2>2, <2>3 DEF IInv, Shaped
  <2>5. OneLeasePerMac'
    BY <2>1 DEF IInv, OneLeasePerMac
  <2>6. Covered'
    BY <2>1, <2>2 DEF IInv, Shaped, Covered, Lasts, LeasesOf
  <2> QED
    BY <2>4, <2>5, <2>6 DEF IInv
<1>6. CASE Administer
  <2>1. leases' = leases /\ client' = client /\ killed' = killed
    BY <1>6 DEF Administer, Reserve, Unreserve, ClearReservations, serverVars
  <2> QED
    BY <2>1 DEF IInv, Shaped, OneLeasePerMac, Covered, Lasts, LeasesOf
<1>7. CASE Tick
  BY <1>7, TickStep
<1>8. CASE Restart
  BY <1>8, DhcpAssumption DEF Restart, IInv, Shaped, OneLeasePerMac, Covered, Unbound
<1>9. CASE UNCHANGED vars
  BY <1>9 DEF vars, serverVars, IInv, Shaped, OneLeasePerMac, Covered, Lasts, LeasesOf
<1> QED
  BY <1>1, <1>2, <1>3, <1>4, <1>5, <1>6, <1>7, <1>8, <1>9 DEF Next

LEMMA Inductive == Spec => []IInv
  BY InitHolds, NextKeeps, PTL DEF Spec

\* A MAC has one lease at most (parse_msg()), whatever is lost and repeated.
THEOREM OneLease == Spec => []OneLeasePerMac
<1>1. IInv => OneLeasePerMac
  BY DEF IInv
<1> QED
  BY <1>1, Inductive, PTL

\* What a client uses is leased to it until the last tick (parse_msg(),
\* dhcps_tmr()), whatever is lost and whatever the reservations are: for every
\* pool, lease time and number of clients.
THEOREM Leased == Spec => []BoundIsLeased
<1>1. IInv => BoundIsLeased
  BY DEF IInv, Covered, Lasts, BoundIsLeased
<1> QED
  BY <1>1, Inductive, PTL

-----------------------------------------------------------------------------
(* The choice of an address.                                               *)

\* The least number of a set of natural numbers.
LEMMA LeastNat ==
    ASSUME NEW S \in SUBSET Nat, S # {}
    PROVE  \E n \in S : \A m \in S : n <= m
<1>1. PICK n \in S : \A m \in S : <<m, n>> \notin OpToRel(<, Nat)
  BY NatLessThanWellFounded, WFMin, Zenon
<1>2. ASSUME NEW m \in S
      PROVE  n <= m
  <2>1. ~(m < n)
    BY <1>1 DEF OpToRel
  <2> QED
    BY <2>1
<1> QED
  BY <1>2

LEMMA FiniteIps ==
    ASSUME NEW L, IsFiniteSet(L)
    PROVE  IsFiniteSet({l.ip : l \in L})
<1> DEFINE f == [l \in L |-> l.ip]
<1>1. f \in Surjection(L, {l.ip : l \in L})
  BY DEF Surjection
<1> QED
  BY <1>1, FS_Surjection

\* One lease per client, and there are finitely many clients.
LEMMA FiniteLeases ==
    ASSUME IInv, \A l \in leases : l.mac \in Macs
    PROVE  IsFiniteSet(leases)
<1> DEFINE f == [l \in leases |-> l.mac]
<1>1. f \in Injection(leases, Macs)
  BY DEF Injection, IsInjective, IInv, OneLeasePerMac
<1> QED
  BY <1>1, FS_Injection, DhcpAssumption

\* Among one address more than there are leases one is free: the walk ends there.
LEMMA WalkEnds ==
    ASSUME NEW ips, IsFiniteSet(ips), NEW from \in Nat
    PROVE  Walk(from, ips) \in Nat /\ Walk(from, ips) >= from /\ Walk(from, ips) \notin ips
<1> DEFINE n == Cardinality(ips)
           S == {a \in from .. from + n : a \notin ips}
<1>1. n \in Nat
  BY FS_CardinalityType
<1>2. S # {}
  <2> SUFFICES ASSUME S = {}
               PROVE  FALSE
    OBVIOUS
  <2>1. from .. from + n \in SUBSET ips
    OBVIOUS
  <2>2. Cardinality(from .. from + n) <= n
    BY <2>1, FS_Subset
  <2>3. Cardinality(from .. from + n) = n + 1
    BY <1>1, FS_Interval
  <2> QED
    BY <1>1, <2>2, <2>3
<1>3. PICK a \in S : \A b \in S : a <= b
  <2>1. S \in SUBSET Nat
    BY <1>1
  <2> HIDE DEF S
  <2> QED
    BY <1>2, <2>1, LeastNat
<1>4. a \in from .. from + n /\ a \notin ips /\ \A b \in from .. a - 1 : b \in ips
  BY <1>1, <1>3
<1>5. /\ Walk(from, ips) \in from .. from + Cardinality(ips)
      /\ Walk(from, ips) \notin ips
  BY <1>4 DEF Walk
<1> QED
  BY <1>1, <1>5

\* The second search: as many leases as addresses passed lie at or before the
\* least k, none of them beyond the address before it.
LEMMA FirstUnusedIsUnused ==
    ASSUME IsFiniteSet(leases), \A l \in leases : l.ip \in Nat
    PROVE  FirstUnused \in Nat /\ FirstUnused >= PoolStart /\ FirstUnused \notin Ips
<1> DEFINE n == Cardinality(leases)
           UpTo(k) == {l \in leases : l.ip <= PoolStart + k}
           S == {k \in 0 .. n : Cardinality(UpTo(k)) <= k}
<1>1. n \in Nat
  BY FS_CardinalityType
<1>2. \A k \in Nat : IsFiniteSet(UpTo(k)) /\ Cardinality(UpTo(k)) \in Nat /\ Cardinality(UpTo(k)) <= n
  BY FS_Subset, FS_CardinalityType
<1>3. PICK k \in S : \A j \in S : k <= j
  <2>1. n \in S
    <3>1. Cardinality(UpTo(n)) <= n
      BY <1>1, <1>2
    <3>2. n \in 0 .. n
      BY <1>1
    <3> QED
      BY <3>1, <3>2
  <2>2. S \in SUBSET Nat
    OBVIOUS
  <2> HIDE DEF S
  <2> QED
    BY <2>1, <2>2, LeastNat
<1>4. /\ k \in 0 .. n /\ Cardinality(UpTo(k)) <= k
      /\ \A j \in 0 .. k - 1 : Cardinality(UpTo(j)) > j
  <2>1. ASSUME NEW j \in 0 .. k - 1
        PROVE  Cardinality(UpTo(j)) > j
    <3>1. j \in 0 .. n /\ j \notin S
      BY <1>1, <1>3
    <3> QED
      BY <1>2, <3>1
  <2> QED
    BY <1>3, <2>1
<1>5. PICK i \in 0 .. n : /\ FirstUnused = PoolStart + i /\ Cardinality(UpTo(i)) <= i
                          /\ \A j \in 0 .. i - 1 : Cardinality(UpTo(j)) > j
  BY <1>4 DEF FirstUnused
<1>6. \A l \in leases : l.ip # PoolStart + i
  <2>1. CASE i = 0
    <3>1. Cardinality(UpTo(i)) = 0
      <4>1. Cardinality(UpTo(i)) \in Nat /\ Cardinality(UpTo(i)) <= i
        BY <1>1, <1>2, <1>5
      <4> HIDE DEF UpTo
      <4> QED
        BY <2>1, <4>1
    <3>2. UpTo(i) = {}
      BY <1>2, <3>1, FS_EmptySet
    <3> QED
      BY <3>2, <2>1, DhcpAssumption
  <2>2. CASE i > 0
    <3>1. Cardinality(UpTo(i - 1)) > i - 1 /\ i - 1 \in Nat
      BY <1>1, <1>5, <2>2
    <3>2. UpTo(i - 1) \in SUBSET UpTo(i)
      BY <1>1, <2>2, DhcpAssumption
    <3>3. Cardinality(UpTo(i - 1)) <= Cardinality(UpTo(i))
      BY <1>1, <1>2, <3>2, FS_Subset
    <3>4. Cardinality(UpTo(i - 1)) = Cardinality(UpTo(i))
      <4> HIDE DEF UpTo
      <4>1. i \in Nat /\ Cardinality(UpTo(i)) \in Nat /\ Cardinality(UpTo(i)) <= i
        BY <1>1, <1>2, <1>5
      <4>2. Cardinality(UpTo(i - 1)) \in Nat
        BY <1>2, <3>1
      <4> QED
        BY <3>1, <3>3, <4>1, <4>2
    <3>5. UpTo(i - 1) = UpTo(i)
      BY <1>1, <1>2, <3>2, <3>4, FS_Subset
    <3> QED
      BY <1>1, <2>2, <3>5, DhcpAssumption
  <2> QED
    BY <1>1, <2>1, <2>2
<1> QED
  BY <1>1, <1>5, <1>6, DhcpAssumption DEF Ips

\* The candidate is a free address; the pool's beginning bounds it if it bounds
\* the addresses in use.
LEMMA NextIsFree ==
    ASSUME IsFiniteSet(leases), \A l \in leases : l.ip \in Nat, plus \in Nat
    PROVE  /\ NextInPool \in Nat /\ NextInPool \notin Ips
           /\ plus >= PoolStart => NextInPool >= PoolStart
<1>1. Walk(plus, Ips) \in Nat /\ Walk(plus, Ips) >= plus /\ Walk(plus, Ips) \notin Ips
  BY FiniteIps, WalkEnds DEF Ips
<1>2. leases = {} => Ips = {}
  BY DEF Ips
<1> QED
  BY <1>1, <1>2, FirstUnusedIsUnused, DhcpAssumption DEF NextInPool

\* Addresses reserved for others are passed over, up to the end of the pool.
LEMMA SkipEnds ==
    ASSUME NEW a \in Nat, NEW m
    PROVE  /\ SkipReserved(a, m) \in Nat /\ SkipReserved(a, m) >= a
           /\ SkipReserved(a, m) > PoolEnd \/ ~ReservedForOther(SkipReserved(a, m), m)
           /\ (a <= PoolEnd /\ ~ReservedForOther(a, m)) => SkipReserved(a, m) = a
<1>1. CASE a > PoolEnd
  BY <1>1, DhcpAssumption DEF SkipReserved
<1>2. CASE a <= PoolEnd
  <2> DEFINE S == {b \in a .. PoolEnd + 1 : b = PoolEnd + 1 \/ ~ReservedForOther(b, m)}
  <2>1. S \in SUBSET Nat /\ PoolEnd + 1 \in S
    BY <1>2, DhcpAssumption
  <2>2. PICK b \in S : \A c \in S : b <= c
    <3> HIDE DEF S
    <3> QED
      BY <2>1, LeastNat
  <2>3. /\ b \in a .. PoolEnd + 1 /\ (b = PoolEnd + 1 \/ ~ReservedForOther(b, m))
        /\ \A c \in a .. b - 1 : ReservedForOther(c, m)
    <3>1. ASSUME NEW c \in a .. b - 1
          PROVE  ReservedForOther(c, m)
      <4>1. c \in a .. PoolEnd + 1 /\ c \notin S
        BY <2>2, DhcpAssumption
      <4> QED
        BY <4>1
    <3> QED
      BY <2>2, <3>1
  <2>4. LET s == SkipReserved(a, m)
        IN  /\ s \in a .. PoolEnd + 1 /\ (s = PoolEnd + 1 \/ ~ReservedForOther(s, m))
            /\ \A c \in a .. s - 1 : ReservedForOther(c, m)
    <3>1. SkipReserved(a, m) = CHOOSE d \in a .. PoolEnd + 1 :
              /\ d = PoolEnd + 1 \/ ~ReservedForOther(d, m)
              /\ \A c \in a .. d - 1 : ReservedForOther(c, m)
      BY <1>2, DhcpAssumption DEF SkipReserved
    <3> QED
      BY <2>3, <3>1
  <2> QED
    BY <1>2, <2>4, DhcpAssumption
<1> QED
  BY <1>1, <1>2, DhcpAssumption

-----------------------------------------------------------------------------
\* What the addresses are.
Numbers ==
    /\ \A l \in leases : l.mac \in Macs /\ l.ip \in Nat
    /\ plus \in Nat /\ edits \in Nat
    /\ \A m \in DOMAIN res : res[m] \in Nat

\* Before the first edit of the reservations.
Untouched ==
    edits = 0 => /\ DOMAIN res = {} /\ plus >= PoolStart
                 /\ \A l \in leases : l.ip >= PoolStart
                 /\ \A k, l \in leases : k.ip = l.ip => k = l

PoolInv == Numbers /\ Untouched

LEMMA PoolInit == Init => PoolInv
  BY DhcpAssumption DEF Init, PoolInv, Numbers, Untouched

LEMMA ChosenAddress ==
    ASSUME IInv, PoolInv, NEW m \in Macs
    PROVE  /\ Chosen(m) \in Nat
           /\ Reserved(m) = NoAddr =>
                  Chosen(m) > PoolEnd \/ ~ReservedForOther(Chosen(m), m)
           /\ edits = 0 => /\ Reserved(m) = NoAddr
                           /\ Chosen(m) >= PoolStart
                           /\ Chosen(m) <= PoolEnd => Chosen(m) \notin Ips
<1>1. /\ NextInPool \in Nat /\ NextInPool \notin Ips
      /\ plus >= PoolStart => NextInPool >= PoolStart
  BY FiniteLeases, NextIsFree DEF PoolInv, Numbers
<1>2. Reserved(m) \in Nat
  BY DEF Reserved, NoAddr, PoolInv, Numbers
<1>3. edits = 0 => /\ Reserved(m) = NoAddr
                   /\ \A a : ~ReservedForOther(a, m)
  BY DEF Reserved, ReservedForOther, PoolInv, Untouched
<1> DEFINE s == SkipReserved(NextInPool, m)
<1>4. /\ s \in Nat /\ s >= NextInPool
      /\ s > PoolEnd \/ ~ReservedForOther(s, m)
      /\ (NextInPool <= PoolEnd /\ ~ReservedForOther(NextInPool, m)) => s = NextInPool
  BY <1>1, SkipEnds
<1>5. Chosen(m) = IF Reserved(m) # NoAddr THEN Reserved(m) ELSE s
  BY DEF Chosen
<1>6. edits = 0 => NextInPool >= PoolStart
  BY <1>1 DEF PoolInv, Untouched
<1> HIDE DEF s
<1> QED
  BY <1>1, <1>2, <1>3, <1>4, <1>5, <1>6, DhcpAssumption

\* A client with a lease keeps its address or gives it up.
LEMMA KnownPool ==
    ASSUME IInv, PoolInv, NEW m \in Macs, NEW q, HandleKnown(m, q), UNCHANGED <<res, edits>>
    PROVE  PoolInv'
<1>1. PICK l \in LeasesOf(m), walked \in SUBSET leases :
          /\ plus' = Walk(plus, {k.ip : k \in walked})
          /\ leases' \subseteq (leases \ {l}) \cup {[l EXCEPT !.left = LeaseTime]}
  BY DEF HandleKnown
<1>2. plus' \in Nat /\ plus' >= plus
  <2>1. IsFiniteSet(walked)
    BY FiniteLeases, FS_Subset DEF PoolInv, Numbers
  <2> QED
    BY <1>1, <2>1, FiniteIps, WalkEnds DEF PoolInv, Numbers
<1>3. /\ l \in leases
      /\ [l EXCEPT !.left = LeaseTime].mac = l.mac /\ [l EXCEPT !.left = LeaseTime].ip = l.ip
  BY DEF LeasesOf, IInv, Shaped
<1>4. Numbers'
  BY <1>1, <1>2, <1>3 DEF PoolInv, Numbers
<1>5. \A k \in leases' : \E j \in leases : k.ip = j.ip /\ k.mac = j.mac /\ (k = j \/ j = l)
  BY <1>1, <1>3
<1>6. ASSUME edits = 0, NEW i \in leases', NEW k \in leases', i.ip = k.ip
      PROVE  i = k
  <2>1. \A j \in leases' : (j \in leases /\ j # l) \/ j = [l EXCEPT !.left = LeaseTime]
    BY <1>1
  <2>2. \A j \in leases : j.ip = l.ip => j = l
    BY <1>3, <1>6 DEF PoolInv, Untouched
  <2>3. i \in leases /\ k \in leases => i = k
    BY <1>6 DEF PoolInv, Untouched
  <2> QED
    BY <1>3, <1>6, <2>1, <2>2, <2>3
<1>7. Untouched'
  BY <1>2, <1>5, <1>6, DhcpAssumption DEF PoolInv, Numbers, Untouched
<1> QED
  BY <1>4, <1>7 DEF PoolInv

\* A client without one is given a free address.
LEMMA NewPool ==
    ASSUME IInv, PoolInv, NEW m \in Macs, NEW q, HandleNew(m, q), UNCHANGED <<res, edits>>
    PROVE  PoolInv'
<1> DEFINE a == Chosen(m)
           r == [mac |-> m, ip |-> a, left |-> LeaseTime]
<1>1. /\ plus' = IF a > PoolEnd THEN PoolStart ELSE After(a)
      /\ leases' = leases \/ (a <= PoolEnd /\ leases' = leases \cup {r})
  <2>1. a > PoolEnd => leases' = leases
    BY DEF HandleNew, Drops
  <2>2. a \in Nat
    BY ChosenAddress
  <2>3. plus' = IF a > PoolEnd THEN PoolStart ELSE After(a)
    BY DEF HandleNew
  <2>4. leases' = leases \/ leases' = leases \cup {r}
    BY DEF HandleNew
  <2> HIDE DEF a, r
  <2> QED
    BY <2>1, <2>2, <2>3, <2>4, DhcpAssumption
<1>2. /\ a \in Nat
      /\ edits = 0 => a >= PoolStart /\ (a <= PoolEnd => a \notin Ips)
  BY ChosenAddress
<1>3. r.mac = m /\ r.ip = a
  OBVIOUS
<1> HIDE DEF a, r
<1>4. plus' \in Nat /\ (edits = 0 => plus' >= PoolStart)
  BY <1>1, <1>2, DhcpAssumption DEF After
<1>5. Numbers'
  BY <1>1, <1>2, <1>3, <1>4 DEF PoolInv, Numbers
<1>6. Untouched'
  BY <1>1, <1>2, <1>3, <1>4 DEF PoolInv, Untouched, Ips
<1> QED
  BY <1>5, <1>6 DEF PoolInv

LEMMA SendPool ==
    ASSUME IInv, PoolInv, NEW m \in Macs, NEW type, NEW ciaddr, NEW opt50, Send(m, type, ciaddr, opt50)
    PROVE  PoolInv'
  BY KnownPool, NewPool DEF Send, Handle

LEMMA TickPool ==
    ASSUME IInv, PoolInv, Tick
    PROVE  PoolInv'
<1>1. leases' \subseteq Aged /\ UNCHANGED <<plus, res, edits>>
  BY DEF Tick
<1>2. ASSUME NEW l \in leases'
      PROVE  \E k \in leases : l = [mac |-> k.mac, ip |-> k.ip, left |-> k.left - 1]
  <2>1. PICK k \in leases : l = [k EXCEPT !.left = @ - 1]
    BY <1>1, AgedLeases
  <2> QED
    BY <2>1 DEF IInv, Shaped
<1> QED
  BY <1>1, <1>2 DEF PoolInv, Numbers, Untouched

LEMMA PoolStep ==
    ASSUME IInv, PoolInv, [Next]_vars
    PROVE  PoolInv'
<1>1. ASSUME NEW m \in Macs, Join(m) \/ Select(m) \/ Renew(m) \/ Leave(m)
      PROVE  PoolInv'
  BY <1>1, SendPool DEF Join, Select, Renew, Leave
<1>2. ASSUME NEW m \in Macs, Vanish(m)
      PROVE  PoolInv'
  BY <1>2 DEF Vanish, serverVars, PoolInv, Numbers, Untouched
<1>3. CASE Administer
  <2>1. UNCHANGED <<leases, plus>> /\ edits' = edits + 1
    BY <1>3 DEF Administer, Reserve, Unreserve, ClearReservations, Edit, serverVars
  <2>2. \A m \in DOMAIN res' : res'[m] \in Nat
    <3>1. ASSUME NEW m \in Macs, NEW a \in Reservable \cup {NoAddr}, Reserve(m, a)
          PROVE  \A n \in DOMAIN res' : res'[n] \in Nat
      <4>1. a \in Nat
        BY DhcpAssumption DEF NoAddr
      <4>2. res' = [n \in DOMAIN res \cup {m} |-> IF n = m THEN a ELSE res[n]]
        BY <3>1 DEF Reserve
      <4> QED
        BY <4>1, <4>2 DEF PoolInv, Numbers
    <3>2. ASSUME NEW m \in Macs, Unreserve(m)
          PROVE  \A n \in DOMAIN res' : res'[n] \in Nat
      BY <3>2 DEF Unreserve, PoolInv, Numbers
    <3>3. CASE ClearReservations
      BY <3>3 DEF ClearReservations
    <3> QED
      BY <1>3, <3>1, <3>2, <3>3 DEF Administer
  <2> QED
    BY <2>1, <2>2 DEF PoolInv, Numbers, Untouched
<1>4. CASE Tick
  BY <1>4, TickPool
<1>5. CASE Restart
  BY <1>5, DhcpAssumption DEF Restart, PoolInv, Numbers, Untouched
<1>6. CASE UNCHANGED vars
  BY <1>6 DEF vars, serverVars, PoolInv, Numbers, Untouched
<1> QED
  BY <1>1, <1>2, <1>3, <1>4, <1>5, <1>6 DEF Next

LEMMA PoolInductive == Spec => [](IInv /\ PoolInv)
<1>1. Init => IInv /\ PoolInv
  BY InitHolds, PoolInit
<1>2. IInv /\ PoolInv /\ [Next]_vars => IInv' /\ PoolInv'
  BY NextKeeps, PoolStep
<1> QED
  BY <1>1, <1>2, PTL DEF Spec

\* Until reservations are made, no lease is below the pool and no address is leased
\* twice (the two walks of parse_msg()), however full the pool is.
THEOREM PoolSound == Spec => []PoolIsSound
<1>1. PoolInv => PoolIsSound
  BY DEF PoolInv, Untouched, PoolIsSound
<1> QED
  BY <1>1, PoolInductive, PTL

\* So no two clients use one address, a lease's last tick excepted.
THEOREM Exclusive == Spec => []NoConflict
<1>1. IInv /\ PoolInv => NoConflict
  <2> SUFFICES ASSUME IInv, PoolInv, NEW m \in Macs, NEW n \in Macs, m # n, edits = 0, ~killed,
                      client[m].st = "bound", client[m].left > 1,
                      client[n].st = "bound", client[n].left > 1,
                      client[m].ip = client[n].ip
               PROVE  FALSE
    BY DEF NoConflict
  <2>1. PICK k \in LeasesOf(m) : k.ip = client[m].ip
    BY DEF IInv, Covered, Lasts
  <2>2. PICK l \in LeasesOf(n) : l.ip = client[n].ip
    BY DEF IInv, Covered, Lasts
  <2>3. k \in leases /\ l \in leases /\ k.mac = m /\ l.mac = n /\ k.ip = l.ip
    BY <2>1, <2>2 DEF LeasesOf
  <2> QED
    BY <2>3 DEF PoolInv, Untouched
<1> QED
  BY <1>1, PoolInductive, PTL

-----------------------------------------------------------------------------
\* A lease in the list after a step belonged to its client before, or is the one
\* that the client's message has just been given.
LEMMA Origin ==
    ASSUME IInv, PoolInv, [Next]_vars, NEW m \in Macs, LeasesOf(m) = {}, Reserved(m) = NoAddr,
           NEW l \in leases', l.mac = m
    PROVE  ~ReservedForOther(l.ip, m)
<1>1. ASSUME NEW n \in Macs, NEW q, Handle(n, q)
      PROVE  ~ReservedForOther(l.ip, m)
  <2>1. CASE HandleKnown(n, q)
    <3>1. PICK k \in LeasesOf(n) : leases' \subseteq (leases \ {k}) \cup {[k EXCEPT !.left = LeaseTime]}
      BY <2>1 DEF HandleKnown
    <3>2. k \in leases /\ [k EXCEPT !.left = LeaseTime].mac = k.mac
      BY DEF LeasesOf, IInv, Shaped
    <3> QED
      BY <3>1, <3>2 DEF LeasesOf
  <2>2. CASE HandleNew(n, q)
    <3> DEFINE a == Chosen(n)
               r == [mac |-> n, ip |-> a, left |-> LeaseTime]
    <3>1. leases' = leases \/ (~(a > PoolEnd) /\ leases' = leases \cup {r})
      BY <2>2 DEF HandleNew, Drops
    <3>2. ~(a > PoolEnd) /\ l = r /\ n = m
      BY <3>1 DEF LeasesOf
    <3> QED
      BY <3>2, ChosenAddress
  <2> QED
    BY <1>1, <2>1, <2>2 DEF Handle
<1>2. ASSUME NEW n \in Macs, Join(n) \/ Select(n) \/ Renew(n) \/ Leave(n)
      PROVE  ~ReservedForOther(l.ip, m)
  BY <1>1, <1>2 DEF Join, Select, Renew, Leave, Send
<1>3. CASE Tick
  <2>1. l \in Aged
    BY <1>3 DEF Tick
  <2>2. PICK k \in leases : l = [k EXCEPT !.left = @ - 1]
    BY <2>1, AgedLeases
  <2>3. l.mac = k.mac
    BY <2>2 DEF IInv, Shaped
  <2> QED
    BY <2>3 DEF LeasesOf
<1>4. CASE UNCHANGED leases
  BY <1>4 DEF LeasesOf
<1>5. CASE Restart
  BY <1>5 DEF Restart
<1>6. \/ \E n \in Macs : Join(n) \/ Select(n) \/ Renew(n) \/ Leave(n)
      \/ Tick \/ Restart \/ UNCHANGED leases
  BY DEF Next, Vanish, Administer, Reserve, Unreserve, ClearReservations, vars, serverVars
<1> QED
  BY <1>2, <1>3, <1>4, <1>5, <1>6

\* SkipReserved() keeps a new lease off the addresses of others, whatever the pool
\* and the reservations are.
THEOREM NewLeases == Spec => NewLeaseRespectsReservations
<1>1. IInv /\ PoolInv /\ [Next]_vars =>
          [\A m \in Macs :
             (LeasesOf(m) = {} /\ Reserved(m) = NoAddr) =>
                 \A l \in leases' : l.mac = m => ~ReservedForOther(l.ip, m)]_vars
  BY Origin
<1> QED
  BY <1>1, PoolInductive, PTL DEF Spec, NewLeaseRespectsReservations
=============================================================================
