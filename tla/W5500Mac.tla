------------------------------ MODULE W5500Mac ------------------------------
(***************************************************************************)
(* The W5500's driver, components/eth_w5500/esp_eth_mac_w5500.c: lwIP's    *)
(* thread sends a short frame itself when the engine is idle and nothing   *)
(* is queued, and queues a copy otherwise; the driver's task finishes      *)
(* sends, drains what was received, recovers a send that hangs, and starts *)
(* the next one.  A semaphore says that no send is in flight.  The chip is *)
(* external: it may lose its registers at any time (a power glitch).       *)
(* Frames are numbered in the order in which lwIP sends them.              *)
(***************************************************************************)
EXTENDS Naturals, Sequences, FiniteSets

CONSTANTS
    TxBufs,         \* the buffers of tx_pool: W5500_TX_QUEUE_DEPTH
    MaxFrames,      \* bound: frames sent
    MaxRx,          \* bound: frames received and not read
    MaxFaults,      \* bound: SPI transfers that fail
    TxRoom,         \* frames that fit in the chip's memory: 16 KB
    DrainGlitch,    \* the registers may go while a burst is being read
    NoBuf

VARIABLES
    tx_pool, tx_queue, tx_active_buf,
    tx_idle_sem,
    late,           \* W5500_TX_DONE_TMO_MS have passed since tx_start_us
    packets_remain,
    notified, task, lwip,
    frame, faults,  \* the last frame sent; SPI faults so far
    socket0,        \* socket 0: "closed", "macraw", "filter" (not our mode), "reset"
    mem, sending,   \* between TX_RD and TX_WR; SEND accepted, not done
    sir, rx, wire   \* SOCK_IR; frames to read; the last frame on the wire

w5500vars == <<tx_pool, tx_queue, tx_active_buf, tx_idle_sem, late, packets_remain,
               notified, task, lwip, frame, faults, socket0, mem, sending, sir, rx, wire>>
chip == <<socket0, mem, sending, sir, rx, wire>>
queues == <<tx_pool, tx_queue, tx_active_buf, tx_idle_sem>>

Fault == faults < MaxFaults /\ faults' = faults + 1
\* Each transfer over SPI succeeds, or is one of the MaxFaults.
Spi(ok) == IF ok THEN UNCHANGED faults ELSE Fault

-----------------------------------------------------------------------------
(* The chip                                                                *)

Raise(e) == sir' = sir \cup {e}
\* The interrupt line falls with the first event.
Edge == notified' = (notified \/ sir = {})

SendDone ==
    /\ sending /\ socket0 \in {"macraw", "filter"}
    /\ sending' = FALSE /\ mem' = <<>> /\ wire' = mem[Len(mem)]
    /\ Raise("SEND") /\ Edge
    /\ UNCHANGED <<queues, late, packets_remain, task, lwip, frame, faults, socket0, rx>>

Arrive ==
    /\ socket0 \in {"macraw", "filter"} /\ rx < MaxRx
    /\ rx' = rx + 1
    /\ Raise("RECV") /\ Edge
    /\ UNCHANGED <<queues, late, packets_remain, task, lwip, frame, faults, socket0, mem,
                   sending, wire>>

Glitch ==
    /\ DrainGlitch \/ task[1] # "drain"
    /\ socket0' = "reset"
    /\ mem' = <<>> /\ sending' = FALSE /\ sir' = {} /\ rx' = 0
    /\ UNCHANGED <<queues, late, packets_remain, notified, task, lwip, frame, faults, wire>>

\* esp_timer: ten milliseconds pass.
Later ==
    /\ ~late /\ late' = TRUE
    /\ UNCHANGED <<queues, packets_remain, notified, task, lwip, frame, faults, chip>>

\* CLOSE, w5500_setup_default(), OPEN: what was to be sent and to be read is gone; the
\* interrupt register is not touched.
Reopened == socket0' = "macraw" /\ mem' = <<>> /\ sending' = FALSE /\ rx' = 0

w5500_reopen_socket(ok) ==
    /\ Spi(ok)
    /\ IF ok THEN Reopened ELSE UNCHANGED <<socket0, mem, sending, rx>>
    /\ UNCHANGED <<sir, wire>>

\* Nobody reports a refusal: the callers go on.
w5500_reset_socket(ok) ==
    /\ w5500_reopen_socket(ok)
    /\ DrainGlitch \/ task[1] # "drain"
    /\ UNCHANGED <<queues, late, packets_remain, notified, task, lwip, frame>>

emac_w5500_start ==
    /\ socket0 \in {"closed", "reset"}
    /\ Reopened
    /\ UNCHANGED <<queues, late, packets_remain, notified, task, lwip, frame, faults, sir, wire>>

emac_w5500_stop ==
    /\ socket0 \in {"macraw", "filter"}
    /\ DrainGlitch \/ task[1] # "drain"
    /\ socket0' = "closed" /\ mem' = <<>> /\ sending' = FALSE /\ rx' = 0
    /\ UNCHANGED <<queues, late, packets_remain, notified, task, lwip, frame, faults, sir, wire>>

\* Promiscuous mode or multicast: the socket's mode is changed in place.
emac_w5500_set_filter ==
    /\ socket0 = "macraw" /\ socket0' = "filter"
    /\ UNCHANGED <<queues, late, packets_remain, notified, task, lwip, frame, faults, mem,
                   sending, sir, rx, wire>>

-----------------------------------------------------------------------------
(* w5500_start_tx(), run by either thread: make room, write, SEND          *)

\* A reset has left it 2 KB.
Room == IF socket0 = "reset" THEN 1 ELSE TxRoom

\* A chip that has no room is reopened.
Write(ok, f) ==
    /\ Spi(ok)
    /\ IF ~ok THEN UNCHANGED <<socket0, mem, sending, rx>>
       ELSE IF Len(mem) < Room THEN mem' = Append(mem, f) /\ UNCHANGED <<socket0, sending, rx>>
       ELSE socket0' = "macraw" /\ mem' = <<f>> /\ sending' = FALSE /\ rx' = 0
    /\ UNCHANGED <<sir, wire>>

\* "Fire and forget": a socket that is not in our mode never finishes.
w5500_issue_send(ok) ==
    /\ Spi(ok)
    /\ sending' = (sending \/ (ok /\ mem # <<>>))
    /\ UNCHANGED <<socket0, mem, sir, rx, wire>>

-----------------------------------------------------------------------------
(* lwIP's thread: emac_w5500_transmit()                                    *)

\* Mutant: a short frame overtakes the queue.
Mutemac_w5500_transmit(short) ==
    /\ lwip = "idle" /\ frame < MaxFrames
    /\ frame' = frame + 1
    /\ IF short /\ tx_idle_sem = 1
       THEN tx_idle_sem' = 0 /\ lwip' = "write"
       ELSE lwip' = "queue" /\ UNCHANGED tx_idle_sem
    /\ UNCHANGED <<tx_pool, tx_queue, tx_active_buf, late, packets_remain, notified, task,
                   faults, chip>>

emac_w5500_transmit(short) ==
    /\ lwip = "idle" /\ frame < MaxFrames
    /\ frame' = frame + 1
    /\ IF short /\ tx_idle_sem = 1 /\ tx_queue = <<>>
       THEN tx_idle_sem' = 0 /\ lwip' = "write"
       ELSE lwip' = "queue" /\ UNCHANGED tx_idle_sem
    /\ UNCHANGED <<tx_pool, tx_queue, tx_active_buf, late, packets_remain, notified, task,
                   faults, chip>>

InlineWrite(ok) ==
    /\ lwip = "write"
    /\ Write(ok, frame)
    /\ IF ok THEN lwip' = "issue" /\ UNCHANGED tx_idle_sem
       ELSE lwip' = "queue" /\ tx_idle_sem' = 1
    /\ UNCHANGED <<tx_pool, tx_queue, tx_active_buf, late, packets_remain, notified, task, frame>>

InlineIssue(ok) ==
    /\ lwip = "issue"
    /\ w5500_issue_send(ok)
    /\ IF ok THEN lwip' = "stamp" /\ UNCHANGED tx_idle_sem
       ELSE lwip' = "queue" /\ tx_idle_sem' = 1
    /\ UNCHANGED <<tx_pool, tx_queue, tx_active_buf, late, packets_remain, notified, task, frame>>

\* tx_start_us, only now
InlineStamp ==
    /\ lwip = "stamp" /\ lwip' = "idle"
    /\ late' = FALSE
    /\ UNCHANGED <<queues, packets_remain, notified, task, frame, faults, chip>>

\* Two milliseconds without a free buffer: the frame is dropped.
Enqueue ==
    /\ lwip = "queue" /\ lwip' = "idle"
    /\ IF tx_pool = {} THEN UNCHANGED <<tx_pool, tx_queue, notified>>
       ELSE \E b \in tx_pool : /\ tx_pool' = tx_pool \ {b}
                               /\ tx_queue' = Append(tx_queue, <<b, frame>>)
                               /\ notified' = TRUE
    /\ UNCHANGED <<tx_active_buf, tx_idle_sem, late, packets_remain, task, frame, faults, chip>>

-----------------------------------------------------------------------------
(* emac_w5500_task()                                                       *)

To(l) == task' = <<l>>
Held == IF tx_active_buf = NoBuf THEN {} ELSE {tx_active_buf}

\* The buffer goes back, the engine is idle.
Finish == tx_pool' = tx_pool \cup Held /\ tx_active_buf' = NoBuf /\ tx_idle_sem' = 1

\* By a notification or after a second
Wake ==
    /\ task[1] = "wait"
    /\ IF notified \/ sir # {} THEN To("mode") ELSE To("timeout")
    /\ notified' = FALSE
    /\ UNCHANGED <<queues, late, packets_remain, lwip, frame, faults, chip>>

\* "register reset detected".  A read of SOCK_MR that fails detects nothing, as if reopening
\* had failed.
CheckMode(ok) ==
    /\ task[1] = "mode" /\ To("events")
    /\ IF socket0 \in {"reset", "filter"} THEN w5500_reopen_socket(ok)
       ELSE ok /\ UNCHANGED <<faults, chip>>
    /\ UNCHANGED <<queues, late, packets_remain, notified, lwip, frame>>

\* SOCK_IR is read once, and what was read is cleared bit by bit.  A read that fails reads
\* zeros; an event whose bit could not be cleared is handled all the same, and again later.
Events ==
    /\ task[1] = "events"
    /\ \E status \in {sir, {}} : \E cleared \in SUBSET status :
         /\ faults' = faults + Cardinality(status \ cleared) + (IF status = sir THEN 0 ELSE 1)
         /\ faults' <= MaxFaults
         /\ sir' = sir \ cleared
         /\ IF "SEND" \in status THEN Finish ELSE UNCHANGED <<tx_pool, tx_active_buf, tx_idle_sem>>
         /\ IF "RECV" \in status THEN To("drain") ELSE To("timeout")
    /\ UNCHANGED <<tx_queue, late, packets_remain, notified, lwip, frame, socket0, mem,
                   sending, rx, wire>>

\* One turn of the loop that reads what was received.  A frame read, or flushed for want of
\* memory, says whether more follow.  With nothing to read, or when looking for a frame fails,
\* that stays as it was; a transfer that fails later says that there is no more, and the
\* frame may be gone already.
Drain(ok) ==
    /\ task[1] = "drain"
    /\ Spi(ok)
    /\ \/ ok /\ rx > 0 /\ rx' = rx - 1 /\ packets_remain' = (rx > 1)
       \/ ~(ok /\ rx > 0) /\ UNCHANGED <<rx, packets_remain>>
       \/ ~ok /\ rx > 0 /\ rx' \in {rx - 1, rx} /\ packets_remain' = FALSE
    /\ IF packets_remain' THEN UNCHANGED task ELSE To("timeout")
    /\ UNCHANGED <<queues, late, notified, lwip, frame, socket0, mem, sending, sir, wire>>

\* Mutant: the buffer goes back, the engine stays taken.
MutTxTimeout(ok) ==
    /\ task[1] = "timeout" /\ To("next")
    /\ IF tx_idle_sem = 0 /\ late
       THEN /\ w5500_reopen_socket(ok)
            /\ tx_pool' = tx_pool \cup Held /\ tx_active_buf' = NoBuf
            /\ UNCHANGED tx_idle_sem
       ELSE ok /\ UNCHANGED <<faults, chip, tx_pool, tx_active_buf, tx_idle_sem>>
    /\ UNCHANGED <<tx_queue, late, packets_remain, notified, lwip, frame>>

TxTimeout(ok) ==
    /\ task[1] = "timeout" /\ To("next")
    /\ IF tx_idle_sem = 0 /\ late
       THEN w5500_reopen_socket(ok) /\ Finish
       ELSE ok /\ UNCHANGED <<faults, chip, tx_pool, tx_active_buf, tx_idle_sem>>
    /\ UNCHANGED <<tx_queue, late, packets_remain, notified, lwip, frame>>

TakeNext ==
    /\ task[1] = "next"
    /\ IF tx_idle_sem = 1 /\ tx_queue # <<>>
       THEN /\ task' = <<"write", tx_queue[1]>>
            /\ tx_queue' = Tail(tx_queue) /\ tx_idle_sem' = 0
       ELSE To("wait") /\ UNCHANGED <<tx_queue, tx_idle_sem>>
    /\ UNCHANGED <<tx_pool, tx_active_buf, late, packets_remain, notified, lwip, frame, faults, chip>>

Drop == tx_pool' = tx_pool \cup {task[2][1]} /\ tx_idle_sem' = 1 /\ To("wait")

StartWrite(ok) ==
    /\ task[1] = "write"
    /\ Write(ok, task[2][2])
    /\ IF ok THEN task' = <<"issue", task[2]>> /\ UNCHANGED <<tx_pool, tx_idle_sem>> ELSE Drop
    /\ UNCHANGED <<tx_queue, tx_active_buf, late, packets_remain, notified, lwip, frame>>

StartIssue(ok) ==
    /\ task[1] = "issue"
    /\ w5500_issue_send(ok)
    /\ IF ok THEN /\ To("wait") /\ tx_active_buf' = task[2][1] /\ late' = FALSE
                  /\ UNCHANGED <<tx_pool, tx_idle_sem>>
       ELSE Drop /\ UNCHANGED <<tx_active_buf, late>>
    /\ UNCHANGED <<tx_queue, packets_remain, notified, lwip, frame>>

-----------------------------------------------------------------------------

MacInit ==
    /\ tx_pool = TxBufs /\ tx_queue = <<>> /\ tx_active_buf = NoBuf
    /\ tx_idle_sem = 1 /\ late = TRUE /\ packets_remain = FALSE
    /\ notified = FALSE /\ task = <<"wait">> /\ lwip = "idle"
    /\ frame = 0 /\ faults = 0
    /\ socket0 = "closed" /\ mem = <<>> /\ sending = FALSE /\ sir = {} /\ rx = 0 /\ wire = 0

Lwip ==
    \/ \E short \in BOOLEAN : emac_w5500_transmit(short)
    \/ \E ok \in BOOLEAN : InlineWrite(ok) \/ InlineIssue(ok)
    \/ InlineStamp \/ Enqueue

Task ==
    \/ Wake \/ Events \/ TakeNext
    \/ \E ok \in BOOLEAN : \/ CheckMode(ok) \/ Drain(ok) \/ TxTimeout(ok)
                           \/ StartWrite(ok) \/ StartIssue(ok)

MacNext ==
    \/ Lwip \/ Task
    \/ SendDone \/ Arrive \/ Glitch \/ Later
    \/ emac_w5500_start \/ emac_w5500_stop \/ emac_w5500_set_filter
    \/ \E ok \in BOOLEAN : w5500_reset_socket(ok)

DrainEnds == Drain(TRUE) /\ To("timeout")
LwipGoesOn == (\E ok \in BOOLEAN : InlineWrite(ok) \/ InlineIssue(ok)) \/ InlineStamp \/ Enqueue

\* Both threads run, time passes, and no burst of received frames lasts for ever.
MacFairness ==
    /\ WF_w5500vars(Task) /\ WF_w5500vars(Later)
    /\ SF_w5500vars(DrainEnds) /\ WF_w5500vars(LwipGoesOn)

MacSpec == MacInit /\ [][MacNext]_w5500vars
MacFairSpec == MacSpec /\ MacFairness

-----------------------------------------------------------------------------
(* Properties                                                              *)

\* "preserves frame order" (emac_w5500_transmit): what is on the wire, in the chip, held by the
\* task or by lwIP's thread and in the queue is in the order in which lwIP sent it.
InOrder ==
    LET started == IF Len(task) > 1 THEN <<task[2][2]>> ELSE <<>>
        inline == IF lwip \in {"write", "queue"} THEN <<frame>> ELSE <<>>
        all == <<wire>> \o mem \o started \o [i \in DOMAIN tx_queue |-> tx_queue[i][2]] \o inline
    IN \A i \in 2..Len(all) : all[i - 1] <= all[i]

\* A SEND that never completes does not keep the engine: it is idle again some time.
TxRecovers == (tx_idle_sem = 0) ~> (tx_idle_sem = 1)

\* "tx_idle_sem serializes SENDs: the next SEND is only issued after SIR_SEND has fired for
\* the previous one" (comment of w5500_issue_send)
SendsSerialized ==
    [][ (lwip = "issue" /\ lwip' = "stamp") \/ (task[1] = "issue" /\ task' = <<"wait">>)
        => ~sending ]_w5500vars
=============================================================================
