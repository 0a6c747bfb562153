---------------------------- MODULE PcapCapture -----------------------------
(***************************************************************************)
(* Packet capture: components/pcap_capture/pcap_ringbuf.c and              *)
(* pcap_capture.c, with CONFIG_PCAP_CAPTURE.                               *)
(*                                                                         *)
(*   - packet hooks (Writers: the tcpip thread, the Ethernet and the Wi-Fi *)
(*     tasks) append records to the ring buffer and never block;           *)
(*   - the server task (Srv) owns the buffer's life: it allocates it when  *)
(*     a client connects, streams it, frees it when the client leaves;     *)
(*   - a configuration task (Cfg: console or web server) switches modes.   *)
(*                                                                         *)
(* ringbuf_mutex guards every access to the buffer.  A critical section is *)
(* one step, but taking the mutex is another: a hook that finds it taken   *)
(* drops its packet.  A byte is the record it belongs to and its place in  *)
(* it.  The statistics captured_packets and dropped_packets, which no      *)
(* control depends on, are left out.                                       *)
(***************************************************************************)
EXTENDS Naturals, Sequences

CONSTANTS
    Writers, Srv, Cfg, \* the threads
    Nobody,            \* ringbuf_mutex is free
    RingSize,          \* PCAP_RINGBUF_SIZE
    SendBuf,           \* PCAP_SEND_BUF_SIZE
    Lens,              \* lengths of records, header included
    Selectable,        \* the modes pcap_set_mode() is called with
    MaxRecords,        \* bound: packets offered to the capture
    MaxSessions,       \* bound: clients that connect
    MaxModes           \* bound: calls of pcap_set_mode()

Threads == Writers \cup {Srv, Cfg}

ASSUME CaptureAssumption ==
    /\ Srv \notin Writers /\ Cfg \notin Writers /\ Srv # Cfg
    /\ Nobody \notin Threads
    /\ RingSize \in Nat \ {0} /\ SendBuf \in Nat \ {0}
    /\ Lens \subseteq Nat \ {0}
    /\ Selectable \subseteq {"off", "acl", "promiscuous"}
    /\ MaxRecords \in Nat /\ MaxSessions \in Nat /\ MaxModes \in Nat

VARIABLES
    alloc,              \* ringbuf_data /= NULL; ringbuf_size is RingSize with it
    mem,                \* the buffer's cells; Blank stands for what malloc() left there
    head, tail, avail,  \* ringbuf_head, ringbuf_tail, ringbuf_available
    mutex,              \* who holds ringbuf_mutex
    sem,                \* data_ready_sem, a binary semaphore
    conn,               \* client_connected
    mode,               \* capture_mode
    pc,
    rec,                \* the record each writer is about to store
    stream,             \* bytes read for the present client and passed to send()
    records, sessions, modes,
    resets,             \* ringbuf_reset() calls since this client connected
    woken               \* this client has been sent something

ringVars    == <<alloc, mem, head, tail, avail>>
sessionVars == <<conn, stream, sessions, resets, woken>>
modeVars    == <<mode, modes>>
offerVars   == <<rec, records>>
vars == <<ringVars, mutex, sem, sessionVars, modeVars, offerVars, pc>>

Cells == 0 .. RingSize - 1
Modes == {"off", "acl", "promiscuous"}
Byte  == [id : 0 .. MaxRecords, pos : Nat, len : Nat]
Blank == [id |-> 0, pos |-> 0, len |-> 0]
RecordOf(n, l) == [i \in 1 .. l |-> [id |-> n, pos |-> i, len |-> l]]
Records == {RecordOf(n, l) : n \in 1 .. MaxRecords, l \in Lens}

WriterPcs == {"idle", "check", "try", "body", "signal"}
SrvPcs == {"down", "accept", "alloc", "allocbody", "drain", "header", "wait", "read",
           "readbody", "send", "probe", "close", "free", "freebody"}
CfgPcs == {"idle", "reset", "resetbody"}

\* The cell n places after the start of the buffer, wrapped around once.
Wrap(n) == IF n < RingSize THEN n ELSE n - RingSize
\* How far cell c lies behind the write position.
Behind(c) == IF c >= head THEN c - head ELSE c + RingSize - head
\* The oldest n bytes of the buffer.
Oldest(n) == [i \in 1 .. n |-> mem[Wrap(tail + i - 1)]]

\* Mutant: a position that reaches the end of the buffer stays there.
MutAdvanceStays(at, n) == IF RingSize - at >= n THEN at + n ELSE n - (RingSize - at)

\* Mutant: a position that wraps forgets the first chunk.
MutAdvanceForgets(at, n) == IF RingSize - at >= n THEN (at + n) % RingSize ELSE n % RingSize

\* A position after n more bytes.
Advance(at, n) ==
    IF RingSize - at >= n THEN (at + n) % RingSize ELSE n - (RingSize - at)

Init ==
    /\ alloc = FALSE /\ mem = [c \in Cells |-> Blank]
    /\ head = 0 /\ tail = 0 /\ avail = 0
    /\ mutex = Nobody /\ sem = FALSE
    /\ conn = FALSE /\ stream = <<>> /\ sessions = 0 /\ resets = 0 /\ woken = FALSE
    /\ mode = "off" /\ modes = 0
    /\ rec = [w \in Writers |-> <<>>] /\ records = 0
    /\ pc = [t \in Threads |-> IF t = Srv THEN "down" ELSE "idle"]

Goto(t, l) == pc' = [pc EXCEPT ![t] = l]

\* xSemaphoreTake(ringbuf_mutex, portMAX_DELAY)
Locked(l) ==
    CASE l = "alloc" -> "allocbody" [] l = "read" -> "readbody"
      [] l = "free" -> "freebody" [] l = "reset" -> "resetbody"

Lock(t) ==
    /\ pc[t] \in {"alloc", "read", "free", "reset"}
    /\ mutex = Nobody
    /\ mutex' = t
    /\ Goto(t, Locked(pc[t]))
    /\ UNCHANGED <<ringVars, sem, sessionVars, modeVars, offerVars>>

\* The end of a critical section.
Unlock(t, l) == mutex' = Nobody /\ Goto(t, l)

\* A hook returns without having stored its record.
Drop(w) == Goto(w, "idle") /\ rec' = [rec EXCEPT ![w] = <<>>]

Emptied == head' = 0 /\ tail' = 0 /\ avail' = 0

-----------------------------------------------------------------------------
(* pcap_capture_packet() and ringbuf_write(), in a packet hook.            *)

\* pcap_should_capture()
ShouldCapture(monitored, apSide) ==
    conn /\ CASE mode = "off" -> FALSE
              [] mode = "acl" -> monitored
              [] mode = "promiscuous" -> ~apSide

Capture(w) ==
    /\ pc[w] = "idle" /\ records < MaxRecords
    /\ \E monitored, apSide \in BOOLEAN : ShouldCapture(monitored, apSide)
    /\ records' = records + 1
    /\ \E l \in Lens : rec' = [rec EXCEPT ![w] = RecordOf(records + 1, l)]
    /\ Goto(w, "check")
    /\ UNCHANGED <<ringVars, mutex, sem, sessionVars, modeVars>>

\* ringbuf_data is tested without the mutex ...
WriteCheck(w) ==
    /\ pc[w] = "check"
    /\ IF alloc THEN Goto(w, "try") /\ UNCHANGED rec ELSE Drop(w)
    /\ UNCHANGED <<ringVars, mutex, sem, sessionVars, modeVars, records>>

\* ... a busy mutex drops the packet ...
WriteTry(w) ==
    /\ pc[w] = "try"
    /\ IF mutex = Nobody
         THEN mutex' = w /\ Goto(w, "body") /\ UNCHANGED rec
         ELSE Drop(w) /\ UNCHANGED mutex
    /\ UNCHANGED <<ringVars, sem, sessionVars, modeVars, records>>

\* The two memcpy() of a record, and the new write position.
Store(r) ==
    /\ mem' = [c \in Cells |-> IF Behind(c) < Len(r) THEN r[Behind(c) + 1] ELSE mem[c]]
    /\ head' = Advance(head, Len(r))
    /\ avail' = avail + Len(r)
    /\ UNCHANGED <<alloc, tail>>

\* Mutant: one byte too many is accepted.
MutFits(r) == Len(r) <= RingSize - avail + 1

Fits(r) == Len(r) <= RingSize - avail

\* ... and with the mutex held everything is tested again.
WriteBody(w) ==
    /\ pc[w] = "body"
    /\ IF alloc /\ Fits(rec[w])
         THEN Store(rec[w]) /\ Unlock(w, "signal")
         ELSE Unlock(w, "idle") /\ UNCHANGED ringVars
    /\ rec' = [rec EXCEPT ![w] = <<>>]
    /\ UNCHANGED <<sem, sessionVars, modeVars, records>>

WriteSignal(w) ==
    /\ pc[w] = "signal"
    /\ sem' = TRUE
    /\ Goto(w, "idle")
    /\ UNCHANGED <<ringVars, mutex, sessionVars, modeVars, offerVars>>

-----------------------------------------------------------------------------
(* pcap_server_task()                                                      *)

\* A client connects: hooks may capture before there is a buffer.
Accept ==
    /\ pc[Srv] = "accept" /\ sessions < MaxSessions
    /\ sessions' = sessions + 1
    /\ conn' = TRUE /\ stream' = <<>> /\ resets' = 0 /\ woken' = FALSE
    /\ Goto(Srv, "alloc")
    /\ UNCHANGED <<ringVars, mutex, sem, modeVars, offerVars>>

\* ringbuf_alloc(), whose malloc() may fail.
AllocBody ==
    /\ pc[Srv] = "allocbody"
    /\ \/ alloc' = TRUE /\ mem' = [c \in Cells |-> Blank] /\ Emptied /\ Unlock(Srv, "drain")
       \/ Unlock(Srv, "close") /\ UNCHANGED ringVars
    /\ UNCHANGED <<sem, sessionVars, modeVars, offerVars>>

\* "Drain any stale semaphore signal", after the mutex has been given.
AllocDrain ==
    /\ pc[Srv] = "drain"
    /\ sem' = FALSE
    /\ Goto(Srv, "header")
    /\ UNCHANGED <<ringVars, mutex, sessionVars, modeVars, offerVars>>

\* The global header is sent, or the client is already gone.
SendHeader ==
    /\ pc[Srv] = "header"
    /\ \E l \in {"wait", "close"} : Goto(Srv, l)
    /\ UNCHANGED <<ringVars, mutex, sem, sessionVars, modeVars, offerVars>>

\* ringbuf_read() waits for the semaphore, for 100 ms at most.
ReadWait ==
    /\ pc[Srv] = "wait"
    /\ sem' = FALSE
    /\ Goto(Srv, IF sem THEN "read" ELSE "probe")
    /\ UNCHANGED <<ringVars, mutex, sessionVars, modeVars, offerVars>>

\* Mutant: what is left waits for the next packet.
MutResignal(n) == sem

Resignal(n) == sem \/ avail > n

\* It takes what fits in the send buffer, and signals again if more is left.
ReadBody ==
    /\ pc[Srv] = "readbody"
    /\ IF avail = 0
         THEN Unlock(Srv, "probe") /\ UNCHANGED <<head, tail, avail, sem, stream, woken>>
         ELSE LET n == IF SendBuf < avail THEN SendBuf ELSE avail
              IN  /\ stream' = stream \o Oldest(n)
                  /\ tail' = Advance(tail, n)
                  /\ avail' = avail - n
                  /\ sem' = Resignal(n)
                  /\ woken' = TRUE
                  /\ Unlock(Srv, "send")
                  /\ UNCHANGED head
    /\ UNCHANGED <<alloc, mem, conn, sessions, resets, modeVars, offerVars>>

\* send() succeeds, or recv() after an empty read finds the client connected.
StillThere ==
    /\ pc[Srv] \in {"send", "probe"}
    /\ Goto(Srv, "wait")
    /\ UNCHANGED <<ringVars, mutex, sem, sessionVars, modeVars, offerVars>>

ClientGone ==
    /\ pc[Srv] \in {"send", "probe"}
    /\ Goto(Srv, "close")
    /\ UNCHANGED <<ringVars, mutex, sem, sessionVars, modeVars, offerVars>>

\* client_disconnect: the flag, the socket, and then ringbuf_free().
Disconnect ==
    /\ pc[Srv] = "close"
    /\ conn' = FALSE
    /\ Goto(Srv, "free")
    /\ UNCHANGED <<ringVars, mutex, sem, stream, sessions, resets, woken, modeVars, offerVars>>

FreeBody ==
    /\ pc[Srv] = "freebody"
    /\ alloc' = FALSE /\ mem' = [c \in Cells |-> Blank] /\ Emptied
    /\ Unlock(Srv, "accept")
    /\ UNCHANGED <<sem, sessionVars, modeVars, offerVars>>

-----------------------------------------------------------------------------
(* pcap_set_mode()                                                         *)

\* Leaving "off" starts the server on first use and then resets the buffer.
SetMode(m) ==
    /\ pc[Cfg] = "idle" /\ modes < MaxModes
    /\ modes' = modes + 1
    /\ mode' = m
    /\ pc' = [pc EXCEPT ![Srv] = IF m # "off" /\ @ = "down" THEN "accept" ELSE @,
                        ![Cfg] = IF mode = "off" /\ m # "off" THEN "reset" ELSE @]
    /\ UNCHANGED <<ringVars, mutex, sem, sessionVars, offerVars>>

ResetBody ==
    /\ pc[Cfg] = "resetbody"
    /\ Emptied
    /\ resets' = resets + 1
    /\ Unlock(Cfg, "idle")
    /\ UNCHANGED <<alloc, mem, sem, conn, stream, sessions, woken, modeVars, offerVars>>

-----------------------------------------------------------------------------
Writer(w) == Capture(w) \/ WriteCheck(w) \/ WriteTry(w) \/ WriteBody(w) \/ WriteSignal(w)

Serve ==
    \/ AllocBody \/ AllocDrain \/ SendHeader \/ ReadWait \/ ReadBody
    \/ StillThere \/ ClientGone \/ Disconnect \/ FreeBody

Configure == ResetBody \/ \E m \in Selectable : SetMode(m)

Next ==
    \/ \E t \in {Srv, Cfg} : Lock(t)
    \/ \E w \in Writers : Writer(w)
    \/ Accept \/ Serve
    \/ Configure

Spec == Init /\ [][Next]_vars

\* Every ready task runs, and a task blocked on the mutex is handed it when it
\* is given; nobody has to connect or to change the mode.
Fairness ==
    /\ \A t \in {Srv, Cfg} : SF_vars(Lock(t))
    /\ \A w \in Writers : WF_vars(Writer(w) /\ ~Capture(w))
    /\ WF_vars(Serve)
    /\ WF_vars(ResetBody)

FairSpec == Spec /\ Fairness
-----------------------------------------------------------------------------
(* Properties.                                                             *)

Contents == Oldest(avail)

TypeOK ==
    /\ alloc \in BOOLEAN /\ sem \in BOOLEAN /\ conn \in BOOLEAN /\ woken \in BOOLEAN
    /\ mem \in [Cells -> Byte]
    /\ head \in Cells /\ tail \in Cells /\ avail \in 0 .. RingSize
    /\ mutex \in Threads \cup {Nobody}
    /\ mode \in Modes
    /\ rec \in [Writers -> Records \cup {<<>>}]
    /\ stream \in Seq(Byte)
    /\ records \in 0 .. MaxRecords /\ sessions \in Nat /\ modes \in Nat /\ resets \in Nat
    /\ pc \in [Threads -> WriterPcs \cup SrvPcs \cup CfgPcs]
    /\ \A w \in Writers : pc[w] \in WriterPcs
    /\ pc[Srv] \in SrvPcs
    /\ pc[Cfg] \in CfgPcs

\* The buffer with its positions, its wrap-around and its threads is a bounded
\* FIFO of bytes: records are accepted whole, and what a client is sent is what
\* was accepted, in order, no byte lost, repeated or overwritten in between.
Fifo == INSTANCE ByteFifo WITH
            Capacity <- RingSize, Record <- Records, queue <- Contents, out <- stream
ImplementsFifo == Fifo!Spec

\* Byte b may follow byte a in a PCAP file.
Follows(a, b) ==
    IF a.pos < a.len THEN b = [a EXCEPT !.pos = @ + 1] ELSE b.pos = 1 /\ b.id # a.id

\* The client's stream is a sequence of whole records (the last may be going on).
WellFramed ==
    /\ stream # <<>> => stream[1].pos = 1
    /\ \A i \in 1 .. Len(stream) - 1 : Follows(stream[i], stream[i + 1])

\* As long as capture is not switched off and on under a connected client, its
\* stream is well framed, even when clients come and go and packets are dropped.
FramedUnlessReset == resets = 0 => WellFramed

\* Once the first bytes have gone out, no data is left in the buffer without a
\* signal: the server sleeps on the semaphore only if the buffer is empty or a
\* writer is about to give it.  (Before that ringbuf_alloc() may have drained
\* the signal of a packet captured already.)
SignalNotLost ==
    (woken /\ pc[Srv] = "wait" /\ avail > 0) =>
        sem \/ \E w \in Writers : pc[w] = "signal"

\* What is captured for a client who stays is sent, and the buffer drains.
Drains == (woken /\ avail > 0) ~> (avail = 0)
=============================================================================
