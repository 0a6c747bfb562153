--------------------------- MODULE MCPppoeSession ---------------------------
(* Small instances of PppoeSession for TLC: two control blocks and two       *)
(* reconnect tasks are enough for one task to meet the session of another.   *)
EXTENDS PppoeSession, TLC

Symmetry == Permutations(Pcbs) \cup Permutations(Reconn)
=============================================================================
