------------------------------ MODULE ByteFifo ------------------------------
(* What a capture session promises, whatever its threads do: accepted        *)
(* records enter a bounded byte queue whole and in order, and the client is  *)
(* given bytes from its front, each once, none skipped.                      *)
EXTENDS Naturals, Sequences

CONSTANTS
    Capacity,   \* how many bytes the queue holds
    Record      \* the records that may be put: sequences of bytes

VARIABLES
    queue,      \* accepted and not yet taken
    out         \* given to the present client, in order

Init == queue = <<>> /\ out = <<>>

\* All of a record, or none of it.
Put(r) ==
    /\ Len(queue) + Len(r) <= Capacity
    /\ queue' = queue \o r
    /\ UNCHANGED out

Take(n) ==
    /\ out' = out \o SubSeq(queue, 1, n)
    /\ queue' = SubSeq(queue, n + 1, Len(queue))

\* The buffer is reset, or its session ends.
Clear == queue' = <<>> /\ UNCHANGED out

NewClient == queue = <<>> /\ out' = <<>> /\ UNCHANGED queue

Next ==
    \/ \E r \in Record : Put(r)
    \/ \E n \in 1 .. Len(queue) : Take(n)
    \/ Clear
    \/ NewClient

Spec == Init /\ [][Next]_<<queue, out>>
=============================================================================
