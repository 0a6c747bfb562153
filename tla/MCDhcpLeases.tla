---------------------------- MODULE MCDhcpLeases ----------------------------
(* Three clients and a pool of two addresses: the pool runs out, wraps       *)
(* around, and leases overflow; one address of the pool and one below the    *)
(* router's own can be reserved.                                             *)
(* The clients differ in nothing, and no liveness is checked here.           *)
EXTENDS DhcpLeases, TLC

SetReservable == {1, 4}
Anyone == Permutations(Macs)
=============================================================================
