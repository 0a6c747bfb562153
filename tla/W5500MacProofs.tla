--------------------------- MODULE W5500MacProofs ---------------------------
(***************************************************************************)
(* For any number of buffers, frames, faults and glitches: InOrder, and    *)
(* that no buffer is lost or used twice (BuffersKept).                     *)
(*                                                                         *)
(* The order itself (Ordered) is kept because the two threads never have   *)
(* a frame on its way at the same time: while lwIP's thread sends one      *)
(* itself, the queue is empty and the task holds none, and while the task  *)
(* holds one, the semaphore is taken (Alone).  This is so although the     *)
(* semaphore may be given back too early (SendsSerialized is violated).    *)
(* For the same reason the buffer in flight never meets a second one:      *)
(* whoever starts a frame finds none (Engine).                             *)
(***************************************************************************)
EXTENDS W5500Mac, SequenceTheorems, TLAPS

Inline == lwip \in {"write", "issue", "stamp"}
Holds == Len(task) > 1

IdlePcs == {"wait", "mode", "events", "drain", "timeout", "next"}

TaskType(t) ==
    \/ \E l \in IdlePcs : t = <<l>>
    \/ \E l \in {"write", "issue"}, q \in TxBufs \X Nat : t = <<l, q>>

Types ==
    /\ tx_pool \subseteq TxBufs /\ tx_active_buf \in TxBufs \cup {NoBuf}
    /\ tx_queue \in Seq(TxBufs \X Nat)
    /\ tx_idle_sem \in {0, 1}
    /\ TaskType(task)
    /\ lwip \in {"idle", "write", "issue", "stamp", "queue"}
    /\ frame \in Nat /\ wire \in Nat /\ mem \in Seq(Nat)

Alone ==
    /\ Inline => tx_queue = <<>> /\ ~Holds
    /\ Holds => tx_idle_sem = 0
    /\ sending => mem # <<>>

\* From the wire over the chip, the task and the queue to the frame sent last
Ordered ==
    /\ wire <= frame
    /\ \A i \in 1..Len(mem) : wire <= mem[i] /\ mem[i] <= frame
    /\ \A i, j \in 1..Len(mem) : i < j => mem[i] <= mem[j]
    /\ Holds => /\ wire <= task[2][2] /\ task[2][2] <= frame
                /\ \A i \in 1..Len(mem) : mem[i] <= task[2][2]
    /\ \A i \in 1..Len(tx_queue) :
         /\ wire <= tx_queue[i][2] /\ tx_queue[i][2] <= frame
         /\ \A j \in 1..Len(mem) : mem[j] <= tx_queue[i][2]
         /\ Holds => task[2][2] <= tx_queue[i][2]
    /\ \A i, j \in 1..Len(tx_queue) : i < j => tx_queue[i][2] <= tx_queue[j][2]

IInv == Types /\ Alone /\ Ordered

-----------------------------------------------------------------------------
(* Sequences                                                               *)

Sorted(s) == \A i \in 2..Len(s) : s[i - 1] <= s[i]
Below(s, n) == \A i \in 1..Len(s) : s[i] <= n

LEMMA CatSorted ==
    ASSUME NEW s \in Seq(Nat), NEW t \in Seq(Nat), Sorted(s), Sorted(t),
           \A j \in 1..Len(t) : Below(s, t[j])
    PROVE  s \o t \in Seq(Nat) /\ Sorted(s \o t)
  <1> SUFFICES ASSUME NEW i \in 2..Len(s \o t) PROVE (s \o t)[i - 1] <= (s \o t)[i]
    BY DEF Sorted
  <1>1. CASE i <= Len(s)
    BY <1>1 DEF Sorted
  <1>2. CASE i = Len(s) + 1
    BY <1>2 DEF Below
  <1>3. CASE i > Len(s) + 1
    <2>1. i - Len(s) \in 2..Len(t)
      BY <1>3
    <2>2. (s \o t)[i] = t[i - Len(s)] /\ (s \o t)[i - 1] = t[(i - Len(s)) - 1]
      BY <1>3
    <2> QED BY <2>1, <2>2 DEF Sorted
  <1> QED BY <1>1, <1>2, <1>3

LEMMA CatBelow ==
    ASSUME NEW s \in Seq(Nat), NEW t \in Seq(Nat), NEW n \in Nat, Below(s, n), Below(t, n)
    PROVE  s \o t \in Seq(Nat) /\ Below(s \o t, n)
  <1> SUFFICES ASSUME NEW i \in 1..Len(s \o t) PROVE (s \o t)[i] <= n
    BY DEF Below
  <1>1. CASE i <= Len(s)
    BY <1>1 DEF Below
  <1>2. CASE i > Len(s)
    <2>1. i - Len(s) \in 1..Len(t) /\ (s \o t)[i] = t[i - Len(s)]
      BY <1>2
    <2> QED BY <2>1 DEF Below
  <1> QED BY <1>1, <1>2

LEMMA OneSorted ==
    ASSUME NEW n \in Nat, NEW m \in Nat, n <= m
    PROVE  <<n>> \in Seq(Nat) /\ Sorted(<<n>>) /\ Below(<<n>>, m)
  BY DEF Sorted, Below

LEMMA NoneSorted ==
    ASSUME NEW m \in Nat
    PROVE  <<>> \in Seq(Nat) /\ Sorted(<<>>) /\ Below(<<>>, m)
  BY DEF Sorted, Below

LEMMA OrderedInOrder ==
    ASSUME IInv
    PROVE  InOrder
  <1> DEFINE started == IF Len(task) > 1 THEN <<task[2][2]>> ELSE <<>>
             inline == IF lwip \in {"write", "queue"} THEN <<frame>> ELSE <<>>
             queued == [i \in DOMAIN tx_queue |-> tx_queue[i][2]]
             a == <<wire>> \o mem
             b == a \o started
             c == b \o queued
             d == c \o inline
  <1>1. frame \in Nat /\ wire \in Nat /\ mem \in Seq(Nat) /\ wire <= frame
    BY DEF IInv, Types, Ordered
  <1>2. Holds => task[2][2] \in Nat /\ wire <= task[2][2] /\ task[2][2] <= frame
    <2>1. Holds => \E l \in {"write", "issue"}, q \in TxBufs \X Nat : task = <<l, q>>
      <3>1. ASSUME NEW l, task = <<l>>
            PROVE  ~Holds
        BY <3>1 DEF Holds
      <3> QED BY <3>1 DEF IInv, Types, TaskType
    <2>2. Holds => task[2][2] \in Nat
      BY <2>1
    <2> QED BY <2>2 DEF IInv, Ordered
  <1>3. /\ queued \in Seq(Nat) /\ Len(queued) = Len(tx_queue)
        /\ \A i \in 1..Len(tx_queue) : queued[i] = tx_queue[i][2] /\ queued[i] \in Nat
    <2>1. \A i \in 1..Len(tx_queue) : tx_queue[i] \in TxBufs \X Nat
      BY DEF IInv, Types
    <2>2. DOMAIN tx_queue = 1..Len(tx_queue) /\ Len(tx_queue) \in Nat
      BY DEF IInv, Types
    <2>3. \A i \in 1..Len(tx_queue) : tx_queue[i][2] \in Nat
      BY <2>1
    <2> QED BY <2>2, <2>3
  <1> HIDE DEF queued
  <1>4. a \in Seq(Nat) /\ Sorted(a)
    <2>1. <<wire>> \in Seq(Nat) /\ Sorted(<<wire>>)
      BY <1>1, OneSorted
    <2>2. Sorted(mem)
      BY <1>1 DEF Sorted, IInv, Ordered
    <2>3. \A j \in 1..Len(mem) : Below(<<wire>>, mem[j])
      BY <1>1, OneSorted DEF IInv, Ordered
    <2> QED BY <1>1, <2>1, <2>2, <2>3, CatSorted
  <1>5. ASSUME NEW n \in Nat, wire <= n, Below(mem, n)
        PROVE  Below(a, n)
    BY <1>1, <1>5, OneSorted, CatBelow
  <1> HIDE DEF a
  <1>6. Below(a, frame) /\ \A i \in 1..Len(tx_queue) : Below(a, queued[i])
    BY <1>1, <1>3, <1>5 DEF Below, IInv, Ordered
  <1>7. /\ b \in Seq(Nat) /\ Sorted(b)
        /\ Below(b, frame) /\ \A i \in 1..Len(tx_queue) : Below(b, queued[i])
    <2>1. CASE Holds
      <3>1. started = <<task[2][2]>> /\ Len(started) = 1 /\ started[1] = task[2][2]
        BY <2>1 DEF Holds
      <3>2. started \in Seq(Nat) /\ Sorted(started) /\ Below(started, frame)
        BY <1>1, <1>2, <2>1, <3>1, OneSorted
      <3>3. \A i \in 1..Len(tx_queue) : Below(started, queued[i])
        BY <1>2, <1>3, <2>1, <3>1, OneSorted DEF IInv, Ordered
      <3>4. Below(a, task[2][2])
        BY <1>2, <1>5, <2>1 DEF Below, IInv, Ordered
      <3>5. \A j \in 1..Len(started) : Below(a, started[j])
        BY <3>1, <3>4
      <3> HIDE DEF started
      <3>6. b \in Seq(Nat) /\ Sorted(b)
        BY <1>4, <3>2, <3>5, CatSorted
      <3>7. Below(b, frame)
        BY <1>1, <1>4, <1>6, <3>2, CatBelow
      <3>8. \A i \in 1..Len(tx_queue) : Below(b, queued[i])
        BY <1>3, <1>4, <1>6, <3>2, <3>3, CatBelow
      <3> QED BY <3>6, <3>7, <3>8
    <2>2. CASE ~Holds
      <3>1. started = <<>>
        BY <2>2 DEF Holds
      <3>2. b = a
        BY <1>4, <3>1
      <3> HIDE DEF b
      <3> QED BY <1>4, <1>6, <3>2
    <2> QED BY <2>1, <2>2
  <1> HIDE DEF b
  <1>8. c \in Seq(Nat) /\ Sorted(c) /\ Below(c, frame)
    <2>1. Below(queued, frame)
      BY <1>3 DEF Below, IInv, Ordered
    <2>2. Sorted(queued)
      <3> SUFFICES ASSUME NEW i \in 2..Len(queued) PROVE queued[i - 1] <= queued[i]
        BY DEF Sorted
      <3>1. i \in 1..Len(tx_queue) /\ i - 1 \in 1..Len(tx_queue)
        BY <1>3
      <3>2. tx_queue[i - 1][2] <= tx_queue[i][2]
        BY <3>1 DEF IInv, Ordered
      <3> QED BY <1>3, <3>1, <3>2
    <2> QED BY <1>1, <1>3, <1>7, <2>1, <2>2, CatSorted, CatBelow
  <1> HIDE DEF c
  <1>9. Sorted(d)
    <2>1. CASE lwip \in {"write", "queue"}
      <3>1. inline = <<frame>> /\ Len(inline) = 1 /\ inline[1] = frame
        BY <2>1
      <3>2. inline \in Seq(Nat) /\ Sorted(inline)
        BY <1>1, <3>1, OneSorted
      <3>3. \A j \in 1..Len(inline) : Below(c, inline[j])
        BY <1>8, <3>1
      <3> HIDE DEF inline
      <3> QED BY <1>8, <3>2, <3>3, CatSorted
    <2>2. CASE lwip \notin {"write", "queue"}
      <3>1. inline = <<>> /\ d = c
        BY <1>8, <2>2
      <3> QED BY <1>8, <3>1
    <2> QED BY <2>1, <2>2
  <1> USE DEF a, b, c
  <1> QED BY <1>9 DEF InOrder, Sorted, queued

-----------------------------------------------------------------------------
(* Steps                                                                   *)

LEMMA TaskShape ==
    ASSUME Types
    PROVE  /\ Holds <=> task[1] \in {"write", "issue"}
           /\ Holds => /\ task = <<task[1], task[2]>> /\ task[2] \in TxBufs \X Nat
                       /\ task[2][1] \in TxBufs /\ task[2][2] \in Nat
  <1>1. ASSUME NEW l \in IdlePcs, task = <<l>>
        PROVE  ~Holds /\ task[1] \notin {"write", "issue"}
    BY <1>1 DEF Holds, IdlePcs
  <1>2. ASSUME NEW l \in {"write", "issue"}, NEW q \in TxBufs \X Nat, task = <<l, q>>
        PROVE  /\ Holds /\ task[1] \in {"write", "issue"}
               /\ task = <<task[1], task[2]>> /\ task[2] = q
    BY <1>2 DEF Holds
  <1>3. \A q \in TxBufs \X Nat : q[1] \in TxBufs /\ q[2] \in Nat
    OBVIOUS
  <1>4. CASE \E l \in IdlePcs : task = <<l>>
    BY <1>1, <1>4
  <1>5. CASE \E l \in {"write", "issue"}, q \in TxBufs \X Nat : task = <<l, q>>
    BY <1>2, <1>3, <1>5
  <1> QED BY <1>4, <1>5 DEF Types, TaskType

LEMMA OneWord ==
    ASSUME NEW l, task' = <<l>>
    PROVE  ~Holds'
  BY DEF Holds

\* The chip loses what it was to send, or goes on as it was.
LEMMA ChipStep ==
    ASSUME IInv, UNCHANGED <<queues, task, lwip, frame, wire>>,
           UNCHANGED <<mem, sending>> \/ (mem' = <<>> /\ sending' = FALSE)
    PROVE  IInv'
  <1> USE DEF queues
  <1>1. Types'
    <2>1. TaskType(task')
      BY DEF IInv, Types
    <2>2. mem' \in Seq(Nat)
      <3>1. <<>> \in Seq(Nat) /\ mem \in Seq(Nat)
        BY DEF IInv, Types
      <3>2. mem' = mem \/ mem' = <<>>
        OBVIOUS
      <3> QED BY <3>1, <3>2
    <2> QED BY <2>1, <2>2 DEF IInv, Types
  <1>2. Alone'
    BY DEF IInv, Alone, Inline, Holds
  <1>3. Ordered'
    <2>1. CASE UNCHANGED mem
      BY <2>1 DEF IInv, Ordered, Holds
    <2>2. CASE mem' = <<>>
      <3>1. Len(mem') = 0
        BY <2>2
      <3> QED BY <3>1 DEF IInv, Ordered, Holds
    <2> QED BY <2>1, <2>2
  <1> QED BY <1>1, <1>2, <1>3 DEF IInv

\* The task goes on without a frame of its own; a send may be given up.
LEMMA TaskStep ==
    ASSUME IInv, ~Holds, UNCHANGED <<tx_queue, lwip, frame, wire>>,
           tx_pool' \subseteq TxBufs, tx_active_buf' \in TxBufs \cup {NoBuf},
           tx_idle_sem' \in {0, 1},
           task' = task \/ \E l \in IdlePcs : task' = <<l>>,
           UNCHANGED <<mem, sending>> \/ (mem' = <<>> /\ sending' = FALSE)
    PROVE  IInv'
  <1>1. Types'
    <2>1. TaskType(task')
      BY DEF IInv, Types, TaskType
    <2>2. mem' \in Seq(Nat)
      <3>1. <<>> \in Seq(Nat) /\ mem \in Seq(Nat)
        BY DEF IInv, Types
      <3>2. mem' = mem \/ mem' = <<>>
        OBVIOUS
      <3> QED BY <3>1, <3>2
    <2>3. tx_queue' \in Seq(TxBufs \X Nat)
      BY DEF IInv, Types
    <2> QED BY <2>1, <2>2, <2>3 DEF IInv, Types
  <1>2. ~Holds'
    BY OneWord DEF Holds
  <1>3. Alone'
    BY <1>2 DEF IInv, Alone, Inline
  <1>4. Ordered'
    <2>1. CASE UNCHANGED mem
      BY <1>2, <2>1 DEF IInv, Ordered
    <2>2. CASE mem' = <<>>
      <3>1. Len(mem') = 0
        BY <2>2
      <3> QED BY <1>2, <3>1 DEF IInv, Ordered
    <2> QED BY <2>1, <2>2
  <1> QED BY <1>1, <1>3, <1>4 DEF IInv

\* w5500_start_tx(): the frame comes last, or everything before it is dropped.
LEMMA WriteStep ==
    ASSUME IInv, NEW ok \in BOOLEAN, NEW f \in Nat, Write(ok, f), wire <= f,
           \A i \in 1..Len(mem) : mem[i] <= f
    PROVE  /\ mem' \in Seq(Nat) /\ wire' = wire
           /\ \A i \in 1..Len(mem') : wire <= mem'[i] /\ mem'[i] <= f
           /\ \A i, j \in 1..Len(mem') : i < j => mem'[i] <= mem'[j]
           /\ sending' => mem' # <<>>
  <1>0. mem \in Seq(Nat) /\ wire \in Nat
    BY DEF IInv, Types
  <1>1. CASE UNCHANGED <<mem, sending>>
    BY <1>1 DEF Write, IInv, Types, Alone, Ordered
  <1>2. CASE mem' = Append(mem, f)
    <2>1. mem' \in Seq(Nat) /\ Len(mem') = Len(mem) + 1 /\ mem' # <<>>
      BY <1>0, <1>2
    <2>2. \A i \in 1..Len(mem') : mem'[i] = IF i = Len(mem') THEN f ELSE mem[i]
      BY <1>0, <1>2, <2>1
    <2>3. \A i \in 1..Len(mem') : i # Len(mem') => i \in 1..Len(mem)
      BY <1>0, <2>1
    <2>4. ASSUME NEW i \in 1..Len(mem')
          PROVE  wire <= mem'[i] /\ mem'[i] <= f
      <3>1. CASE i = Len(mem')
        BY <2>2, <3>1
      <3>2. CASE i # Len(mem')
        <4>1. i \in 1..Len(mem) /\ mem'[i] = mem[i]
          BY <2>2, <2>3, <3>2
        <4> QED BY <4>1 DEF IInv, Ordered
      <3> QED BY <3>1, <3>2
    <2>5. ASSUME NEW i \in 1..Len(mem'), NEW j \in 1..Len(mem'), i < j
          PROVE  mem'[i] <= mem'[j]
      <3>1. i \in 1..Len(mem) /\ mem'[i] = mem[i] /\ mem[i] \in Nat
        BY <1>0, <2>1, <2>2, <2>5
      <3>2. CASE j = Len(mem')
        BY <2>2, <3>1, <3>2
      <3>3. CASE j # Len(mem')
        <4>1. j \in 1..Len(mem) /\ mem'[j] = mem[j]
          BY <2>2, <2>3, <3>3
        <4> QED BY <2>5, <3>1, <4>1 DEF IInv, Ordered
      <3> QED BY <3>2, <3>3
    <2> QED BY <2>1, <2>4, <2>5 DEF Write
  <1>3. CASE mem' = <<f>> /\ sending' = FALSE
    <2>1. mem' \in Seq(Nat) /\ Len(mem') = 1 /\ mem'[1] = f
      BY <1>3
    <2> QED BY <1>0, <1>3, <2>1 DEF Write
  <1> QED BY <1>1, <1>2, <1>3 DEF Write

LEMMA InitInv ==
    ASSUME MacInit
    PROVE  IInv
  <1> USE DEF MacInit
  <1>1. ~Holds
    BY DEF Holds
  <1>2. <<>> \in Seq(Nat) /\ <<>> \in Seq(TxBufs \X Nat) /\ Len(<<>>) = 0
    OBVIOUS
  <1>3. TaskType(task)
    BY DEF TaskType, IdlePcs
  <1>4. Types
    BY <1>2, <1>3 DEF Types
  <1>5. Alone
    BY <1>1 DEF Alone, Inline
  <1>6. Ordered
    BY <1>1, <1>2 DEF Ordered
  <1> QED BY <1>4, <1>5, <1>6 DEF IInv

LEMMA ChipInv ==
    ASSUME IInv,
           \/ Arrive \/ Glitch \/ Later
           \/ emac_w5500_start \/ emac_w5500_stop \/ emac_w5500_set_filter
           \/ \E ok \in BOOLEAN : w5500_reset_socket(ok)
    PROVE  IInv'
  <1> USE DEF queues, chip, Reopened, w5500_reopen_socket
  <1>1. UNCHANGED <<queues, task, lwip, frame, wire>>
    BY DEF Arrive, Glitch, Later, emac_w5500_start, emac_w5500_stop, emac_w5500_set_filter,
           w5500_reset_socket
  <1>2. UNCHANGED <<mem, sending>> \/ (mem' = <<>> /\ sending' = FALSE)
    BY DEF Arrive, Glitch, Later, emac_w5500_start, emac_w5500_stop, emac_w5500_set_filter,
           w5500_reset_socket
  <1> QED BY <1>1, <1>2, ChipStep

\* The last of the frames in the chip gets on the wire.
LEMMA SendDoneInv ==
    ASSUME IInv, SendDone
    PROVE  IInv'
  <1>1. mem \in Seq(Nat) /\ Len(mem) \in 1..Len(mem) /\ wire' = mem[Len(mem)] /\ mem' = <<>>
    BY DEF IInv, Types, Alone, SendDone
  <1>2. /\ UNCHANGED <<tx_pool, tx_queue, tx_active_buf, tx_idle_sem, task, lwip, frame>>
        /\ sending' = FALSE
    BY DEF SendDone, queues
  <1>3. Len(mem') = 0 /\ <<>> \in Seq(Nat) /\ mem[Len(mem)] \in Nat
    BY <1>1
  <1>4. Types'
    <2>1. TaskType(task')
      BY <1>2 DEF IInv, Types
    <2> QED BY <1>1, <1>2, <1>3, <2>1 DEF IInv, Types
  <1>5. Alone'
    BY <1>2 DEF IInv, Alone, Inline, Holds
  <1>6. Ordered'
    <2>1. /\ wire' <= frame
          /\ Holds => wire' <= task[2][2]
          /\ \A i \in 1..Len(tx_queue) : wire' <= tx_queue[i][2]
      BY <1>1 DEF IInv, Ordered
    <2>2. 1..Len(mem') = {}
      BY <1>3
    <2> QED BY <1>2, <2>1, <2>2 DEF IInv, Ordered, Holds
  <1> QED BY <1>4, <1>5, <1>6 DEF IInv

-----------------------------------------------------------------------------
(* lwIP's thread                                                           *)

LEMMA TransmitInv ==
    ASSUME IInv, NEW short \in BOOLEAN, emac_w5500_transmit(short)
    PROVE  IInv'
  <1>1. /\ UNCHANGED <<tx_pool, tx_queue, tx_active_buf, task, wire, mem, sending>>
        /\ frame' = frame + 1
        /\ tx_idle_sem' \in {0, tx_idle_sem} /\ lwip' \in {"write", "queue"}
        /\ lwip' = "write" => tx_queue = <<>> /\ tx_idle_sem = 1
        /\ lwip' # "write" => UNCHANGED tx_idle_sem
    BY DEF emac_w5500_transmit, chip
  <1>2. Types'
    <2>1. TaskType(task')
      BY <1>1 DEF IInv, Types
    <2> QED BY <1>1, <2>1 DEF IInv, Types
  <1>3. Alone'
    BY <1>1 DEF IInv, Types, Alone, Inline, Holds
  <1>4. Ordered'
    <2>1. frame \in Nat /\ wire \in Nat /\ (\A i \in 1..Len(mem) : mem[i] \in Nat)
      BY DEF IInv, Types
    <2>2. \A i \in 1..Len(tx_queue) : tx_queue[i][2] \in Nat
      <3>1. \A i \in 1..Len(tx_queue) : tx_queue[i] \in TxBufs \X Nat
        BY DEF IInv, Types
      <3> QED BY <3>1
    <2>3. Holds => task[2][2] \in Nat
      BY TaskShape DEF IInv
    <2>4. \A n \in Nat : n <= frame => n <= frame'
      BY <1>1, <2>1
    <2> QED BY <1>1, <2>1, <2>2, <2>3, <2>4 DEF IInv, Ordered, Holds
  <1> QED BY <1>2, <1>3, <1>4 DEF IInv

LEMMA InlineWriteInv ==
    ASSUME IInv, NEW ok \in BOOLEAN, InlineWrite(ok)
    PROVE  IInv'
  <1>1. /\ frame \in Nat /\ lwip = "write" /\ Write(ok, frame)
        /\ wire <= frame /\ \A i \in 1..Len(mem) : mem[i] <= frame
    BY DEF InlineWrite, IInv, Types, Ordered
  <1>2. tx_queue = <<>> /\ ~Holds
    BY <1>1 DEF IInv, Alone, Inline
  <1>3. /\ mem' \in Seq(Nat) /\ wire' = wire
        /\ \A i \in 1..Len(mem') : wire <= mem'[i] /\ mem'[i] <= frame
        /\ \A i, j \in 1..Len(mem') : i < j => mem'[i] <= mem'[j]
        /\ sending' => mem' # <<>>
    BY <1>1, WriteStep
  <1>4. /\ UNCHANGED <<tx_pool, tx_queue, tx_active_buf, task, frame>>
        /\ tx_idle_sem' \in {1, tx_idle_sem} /\ lwip' \in {"issue", "queue"}
    BY DEF InlineWrite
  <1>5. ~Holds' /\ Len(tx_queue') = 0
    BY <1>2, <1>4 DEF Holds
  <1>6. Types'
    <2>1. TaskType(task')
      BY <1>4 DEF IInv, Types
    <2> QED BY <1>3, <1>4, <2>1 DEF IInv, Types
  <1>7. Alone'
    BY <1>2, <1>3, <1>4, <1>5 DEF Alone
  <1>8. Ordered'
    BY <1>1, <1>3, <1>4, <1>5 DEF Ordered
  <1> QED BY <1>6, <1>7, <1>8 DEF IInv

\* What is left of a step that moves no frame
LEMMA SameFrames ==
    ASSUME IInv, UNCHANGED <<tx_pool, tx_queue, tx_active_buf, task, frame, mem, wire>>,
           tx_idle_sem' \in {0, 1}, lwip' \in {"idle", "write", "issue", "stamp", "queue"},
           sending' => sending \/ mem # <<>>,
           Inline' => Inline,
           Holds => UNCHANGED tx_idle_sem
    PROVE  IInv'
  <1>1. Types'
    <2>1. TaskType(task')
      BY DEF IInv, Types
    <2> QED BY <2>1 DEF IInv, Types
  <1>2. Alone'
    BY DEF IInv, Alone, Holds
  <1>3. Ordered'
    BY DEF IInv, Ordered, Holds
  <1> QED BY <1>1, <1>2, <1>3 DEF IInv

LEMMA InlineIssueInv ==
    ASSUME IInv, (\E ok \in BOOLEAN : InlineIssue(ok)) \/ InlineStamp
    PROVE  IInv'
  <1>1. Inline /\ ~Holds
    BY DEF IInv, Alone, Inline, InlineIssue, InlineStamp
  <1>2. CASE \E ok \in BOOLEAN : InlineIssue(ok)
    BY <1>1, <1>2, SameFrames DEF InlineIssue, w5500_issue_send, Inline, IInv, Types
  <1>3. CASE InlineStamp
    BY <1>1, <1>3, SameFrames DEF InlineStamp, queues, chip, Inline, IInv, Types
  <1> QED BY <1>2, <1>3

LEMMA EnqueueInv ==
    ASSUME IInv, Enqueue
    PROVE  IInv'
  <1>1. ~Inline /\ lwip' = "idle" /\ ~Inline'
        /\ UNCHANGED <<tx_active_buf, tx_idle_sem, task, frame, mem, sending, wire>>
    BY DEF Enqueue, Inline, chip
  <1>2. CASE UNCHANGED <<tx_pool, tx_queue>>
    BY <1>1, <1>2, SameFrames DEF IInv, Types
  <1>3. ASSUME NEW b \in tx_pool, tx_pool' = tx_pool \ {b},
               tx_queue' = Append(tx_queue, <<b, frame>>)
        PROVE  IInv'
    <2>1. frame \in Nat /\ b \in TxBufs /\ tx_queue \in Seq(TxBufs \X Nat)
      BY DEF IInv, Types
    <2>2. tx_queue' \in Seq(TxBufs \X Nat) /\ Len(tx_queue') = Len(tx_queue) + 1
      BY <1>3, <2>1
    <2>3. /\ \A i \in 1..Len(tx_queue) : tx_queue'[i] = tx_queue[i]
          /\ tx_queue'[Len(tx_queue')] = <<b, frame>>
      BY <1>3, <2>1
    <2>4. \A i \in 1..Len(tx_queue') : i # Len(tx_queue') => i \in 1..Len(tx_queue)
      BY <2>1, <2>2
    <2>5. tx_queue'[Len(tx_queue')][2] = frame
      BY <2>3
    <2>6. Types'
      <3>1. TaskType(task')
        BY <1>1 DEF IInv, Types
      <3> QED BY <1>1, <1>3, <2>2, <3>1 DEF IInv, Types
    <2>7. Alone'
      BY <1>1 DEF IInv, Alone, Holds
    <2>8. ASSUME NEW i \in 1..Len(tx_queue')
          PROVE  /\ wire <= tx_queue'[i][2] /\ tx_queue'[i][2] <= frame
                 /\ \A j \in 1..Len(mem) : mem[j] <= tx_queue'[i][2]
                 /\ Holds => task[2][2] <= tx_queue'[i][2]
      <3>1. CASE i = Len(tx_queue')
        BY <2>1, <2>5, <3>1 DEF IInv, Ordered
      <3>2. CASE i # Len(tx_queue')
        <4>1. i \in 1..Len(tx_queue) /\ tx_queue'[i] = tx_queue[i]
          BY <2>3, <2>4, <3>2
        <4> QED BY <4>1 DEF IInv, Ordered
      <3> QED BY <3>1, <3>2
    <2>9. ASSUME NEW i \in 1..Len(tx_queue'), NEW j \in 1..Len(tx_queue'), i < j
          PROVE  tx_queue'[i][2] <= tx_queue'[j][2]
      <3>1. i # Len(tx_queue')
        BY <2>2, <2>9
      <3>2. i \in 1..Len(tx_queue) /\ tx_queue'[i] = tx_queue[i]
        BY <2>3, <2>4, <3>1
      <3>3. CASE j = Len(tx_queue')
        BY <2>5, <2>8, <3>2, <3>3
      <3>4. CASE j # Len(tx_queue')
        <4>1. j \in 1..Len(tx_queue) /\ tx_queue'[j] = tx_queue[j]
          BY <2>3, <2>4, <3>4
        <4> QED BY <2>9, <3>2, <4>1 DEF IInv, Ordered
      <3> QED BY <3>3, <3>4
    <2>10. Ordered'
      BY <1>1, <2>8, <2>9 DEF IInv, Ordered, Holds
    <2> QED BY <2>6, <2>7, <2>10 DEF IInv
  <1> QED BY <1>2, <1>3 DEF Enqueue

-----------------------------------------------------------------------------
(* The driver's task                                                       *)

LEMMA TaskInv ==
    ASSUME IInv,
           \/ Wake \/ Events
           \/ \E ok \in BOOLEAN : CheckMode(ok) \/ Drain(ok) \/ TxTimeout(ok)
    PROVE  IInv'
  <1> USE DEF To, IdlePcs, queues, chip, Reopened, w5500_reopen_socket
  <1>1. ~Holds
    BY TaskShape DEF IInv, Wake, Events, CheckMode, Drain, TxTimeout
  <1>2. /\ tx_pool \subseteq TxBufs /\ tx_active_buf \in TxBufs \cup {NoBuf}
        /\ tx_idle_sem \in {0, 1} /\ Held \subseteq TxBufs
    BY DEF IInv, Types, Held
  <1>3. CASE Wake
    BY <1>1, <1>2, <1>3, TaskStep DEF Wake
  <1>4. CASE Events
    BY <1>1, <1>2, <1>4, TaskStep DEF Events, Finish
  <1>5. ASSUME NEW ok \in BOOLEAN, CheckMode(ok)
        PROVE  IInv'
    BY <1>1, <1>2, <1>5, TaskStep DEF CheckMode
  <1>6. ASSUME NEW ok \in BOOLEAN, Drain(ok)
        PROVE  IInv'
    BY <1>1, <1>2, <1>6, TaskStep DEF Drain
  <1>7. ASSUME NEW ok \in BOOLEAN, TxTimeout(ok)
        PROVE  IInv'
    BY <1>1, <1>2, <1>7, TaskStep DEF TxTimeout, Finish
  <1> QED BY <1>3, <1>4, <1>5, <1>6, <1>7

\* The first of the queue is the task's; the others come after it.
LEMMA TakeNextInv ==
    ASSUME IInv, TakeNext
    PROVE  IInv'
  <1> USE DEF chip
  <1>0. ~Holds
    BY TaskShape DEF IInv, TakeNext
  <1>1. CASE UNCHANGED <<tx_queue, tx_idle_sem>> /\ task' = <<"wait">>
    BY <1>0, <1>1, TaskStep DEF IInv, Types, TakeNext, IdlePcs
  <1>2. CASE /\ tx_idle_sem = 1 /\ tx_queue # <<>>
             /\ task' = <<"write", tx_queue[1]>>
             /\ tx_queue' = Tail(tx_queue) /\ tx_idle_sem' = 0
    <2>1. /\ tx_queue \in Seq(TxBufs \X Nat) /\ Len(tx_queue) \in Nat \ {0}
          /\ 1 \in 1..Len(tx_queue)
      BY <1>2 DEF IInv, Types
    <2>2. /\ tx_queue' \in Seq(TxBufs \X Nat) /\ Len(tx_queue') = Len(tx_queue) - 1
          /\ \A i \in 1..Len(tx_queue') : tx_queue'[i] = tx_queue[i + 1]
                                          /\ i + 1 \in 1..Len(tx_queue)
      BY <1>2, <2>1
    <2>3. tx_queue[1] \in TxBufs \X Nat /\ Len(task') = 2 /\ task'[2] = tx_queue[1]
      BY <1>2, <2>1
    <2>4. Holds' /\ UNCHANGED <<tx_pool, tx_active_buf, lwip, frame, mem, sending, wire>>
      BY <2>3 DEF Holds, TakeNext
    <2>5. Types'
      <3>1. TaskType(task')
        BY <1>2, <2>3 DEF TaskType
      <3> QED BY <1>2, <2>2, <2>4, <3>1 DEF IInv, Types
    <2>6. Alone'
      BY <1>2, <2>4 DEF IInv, Alone, Inline
    <2>7. /\ wire <= task'[2][2] /\ task'[2][2] <= frame
          /\ \A i \in 1..Len(mem) : mem[i] <= task'[2][2]
      BY <2>1, <2>3 DEF IInv, Ordered
    <2>8. ASSUME NEW i \in 1..Len(tx_queue')
          PROVE  /\ wire <= tx_queue'[i][2] /\ tx_queue'[i][2] <= frame
                 /\ \A j \in 1..Len(mem) : mem[j] <= tx_queue'[i][2]
                 /\ task'[2][2] <= tx_queue'[i][2]
      <3>1. tx_queue'[i] = tx_queue[i + 1] /\ i + 1 \in 1..Len(tx_queue) /\ 1 < i + 1
        BY <2>2
      <3> QED BY <2>1, <2>3, <3>1 DEF IInv, Ordered
    <2>9. ASSUME NEW i \in 1..Len(tx_queue'), NEW j \in 1..Len(tx_queue'), i < j
          PROVE  tx_queue'[i][2] <= tx_queue'[j][2]
      <3>1. /\ tx_queue'[i] = tx_queue[i + 1] /\ i + 1 \in 1..Len(tx_queue)
            /\ tx_queue'[j] = tx_queue[j + 1] /\ j + 1 \in 1..Len(tx_queue)
            /\ i + 1 < j + 1
        BY <2>2, <2>9
      <3> QED BY <3>1 DEF IInv, Ordered
    <2>10. Ordered'
      BY <2>4, <2>7, <2>8, <2>9 DEF IInv, Ordered
    <2> QED BY <2>5, <2>6, <2>10 DEF IInv
  <1> QED BY <1>1, <1>2 DEF TakeNext, To

\* What the task holds goes into the chip; should that fail it is dropped.
LEMMA StartWriteInv ==
    ASSUME IInv, NEW ok \in BOOLEAN, StartWrite(ok)
    PROVE  IInv'
  <1> DEFINE f == task[2][2]
  <1>1. /\ Holds /\ f \in Nat /\ task[2] \in TxBufs \X Nat /\ task[2][1] \in TxBufs
        /\ Write(ok, f)
        /\ wire <= f /\ f <= frame /\ \A i \in 1..Len(mem) : mem[i] <= f
    BY TaskShape DEF StartWrite, IInv, Ordered
  <1>2. /\ mem' \in Seq(Nat) /\ wire' = wire
        /\ \A i \in 1..Len(mem') : wire <= mem'[i] /\ mem'[i] <= f
        /\ \A i, j \in 1..Len(mem') : i < j => mem'[i] <= mem'[j]
        /\ sending' => mem' # <<>>
    BY <1>1, WriteStep
  <1>3. /\ UNCHANGED <<tx_queue, tx_active_buf, lwip, frame>>
        /\ \/ task' = <<"issue", task[2]>> /\ UNCHANGED <<tx_pool, tx_idle_sem>>
           \/ tx_pool' = tx_pool \cup {task[2][1]} /\ tx_idle_sem' = 1 /\ task' = <<"wait">>
    BY DEF StartWrite, Drop, To
  <1>4. /\ task' = <<"issue", task[2]>> => Holds' /\ task'[2][2] = f
        /\ task' = <<"wait">> => ~Holds'
    BY DEF Holds
  <1>5. Types'
    <2>1. TaskType(task')
      BY <1>1, <1>3 DEF TaskType, IdlePcs
    <2> QED BY <1>1, <1>2, <1>3, <2>1 DEF IInv, Types
  <1>6. Alone'
    BY <1>1, <1>2, <1>3, <1>4 DEF IInv, Alone, Inline
  <1>7. /\ \A i \in 1..Len(tx_queue) : f <= tx_queue[i][2] /\ tx_queue[i][2] \in Nat
        /\ frame \in Nat /\ \A i \in 1..Len(mem') : mem'[i] \in Nat
    <2>1. \A i \in 1..Len(tx_queue) : tx_queue[i] \in TxBufs \X Nat
      BY DEF IInv, Types
    <2>2. \A i \in 1..Len(tx_queue) : tx_queue[i][2] \in Nat
      BY <2>1
    <2> QED BY <1>1, <1>2, <2>2 DEF IInv, Types, Ordered
  <1>8. /\ \A i \in 1..Len(mem') : mem'[i] <= frame
        /\ \A i \in 1..Len(tx_queue), j \in 1..Len(mem') : mem'[j] <= tx_queue[i][2]
    <2>1. ASSUME NEW j \in 1..Len(mem')
          PROVE  mem'[j] <= f /\ mem'[j] \in Nat
      BY <1>2, <1>7
    <2>2. ASSUME NEW j \in 1..Len(mem')
          PROVE  mem'[j] <= frame
      BY <2>1, <1>1, <1>7
    <2>3. ASSUME NEW i \in 1..Len(tx_queue), NEW j \in 1..Len(mem')
          PROVE  mem'[j] <= tx_queue[i][2]
      <3>1. f <= tx_queue[i][2] /\ tx_queue[i][2] \in Nat
        BY <1>7
      <3> QED BY <2>1, <3>1, <1>1
    <2> QED BY <2>2, <2>3
  <1>9. Ordered'
    BY <1>1, <1>2, <1>3, <1>4, <1>7, <1>8 DEF IInv, Ordered
  <1> QED BY <1>5, <1>6, <1>9 DEF IInv

\* A SEND that is refused drops the frame: the one it wrote stays in the chip's memory.
LEMMA StartIssueInv ==
    ASSUME IInv, NEW ok \in BOOLEAN, StartIssue(ok)
    PROVE  IInv'
  <1>1. Holds /\ task[2] \in TxBufs \X Nat /\ task[2][1] \in TxBufs
    BY TaskShape DEF StartIssue, IInv
  <1>2. /\ UNCHANGED <<tx_queue, lwip, frame, mem, wire>>
        /\ task' = <<"wait">>
        /\ sending' => sending \/ mem # <<>>
        /\ \/ tx_active_buf' = task[2][1] /\ UNCHANGED <<tx_pool, tx_idle_sem>>
           \/ tx_pool' = tx_pool \cup {task[2][1]} /\ tx_idle_sem' = 1 /\ UNCHANGED tx_active_buf
    BY DEF StartIssue, w5500_issue_send, Drop, To
  <1>3. ~Holds'
    BY <1>2 DEF Holds
  <1>4. Types'
    <2>1. TaskType(task')
      BY <1>2 DEF TaskType, IdlePcs
    <2> QED BY <1>1, <1>2, <2>1 DEF IInv, Types
  <1>5. Alone' /\ Ordered'
    BY <1>2, <1>3 DEF IInv, Alone, Ordered, Inline
  <1> QED BY <1>4, <1>5 DEF IInv

-----------------------------------------------------------------------------

LEMMA StepInv ==
    ASSUME IInv, [MacNext]_w5500vars
    PROVE  IInv'
  <1>1. CASE Lwip
    BY <1>1, TransmitInv, InlineWriteInv, InlineIssueInv, EnqueueInv DEF Lwip
  <1>2. CASE Task
    BY <1>2, TaskInv, TakeNextInv, StartWriteInv, StartIssueInv DEF Task
  <1>3. CASE SendDone
    BY <1>3, SendDoneInv
  <1>4. CASE \/ Arrive \/ Glitch \/ Later
             \/ emac_w5500_start \/ emac_w5500_stop \/ emac_w5500_set_filter
             \/ \E ok \in BOOLEAN : w5500_reset_socket(ok)
    BY <1>4, ChipInv
  <1>5. CASE UNCHANGED w5500vars
    BY <1>5, ChipStep DEF w5500vars, queues
  <1> QED BY <1>1, <1>2, <1>3, <1>4, <1>5 DEF MacNext

\* Frames leave the chip in the order in which lwIP sent them, whichever thread sends them and
\* however many buffers, failing transfers, resets and lost frames there are: the driver may
\* lose a frame or send it twice, never let one overtake another (emac_w5500_transmit,
\* emac_w5500_task, w5500_start_tx).
THEOREM FramesInOrder == MacSpec => []InOrder
  <1>1. MacInit => IInv
    BY InitInv
  <1>2. IInv /\ [MacNext]_w5500vars => IInv'
    BY StepInv
  <1>3. IInv => InOrder
    BY OrderedInOrder
  <1> QED BY <1>1, <1>2, <1>3, PTL DEF MacSpec

-----------------------------------------------------------------------------
(* The buffers                                                             *)

Queued == {tx_queue[i][1] : i \in 1..Len(tx_queue)}
OnTask == IF Holds THEN {task[2][1]} ELSE {}

\* The buffers, divided into the free, the queued, the task's and the one in flight
Divided(P, Q, T, H) ==
    /\ P \cup Q \cup T \cup H = TxBufs
    /\ P \cap Q = {} /\ P \cap T = {} /\ P \cap H = {}
    /\ Q \cap T = {} /\ Q \cap H = {} /\ T \cap H = {}

\* No buffer is queued twice.
Once(s) == \A i, j \in 1..Len(s) : s[i][1] = s[j][1] => i = j

BuffersKept == Divided(tx_pool, Queued, OnTask, Held) /\ Once(tx_queue)

\* While the semaphore can be had, or a frame is being started, no buffer is in flight.
Engine == tx_idle_sem = 1 \/ Holds \/ Inline => tx_active_buf = NoBuf

BufInv == BuffersKept /\ Engine

\* The task's own buffer and its queue, while both stay as they are
LEMMA SameBuffers ==
    ASSUME BufInv, UNCHANGED <<tx_pool, tx_queue, tx_active_buf, tx_idle_sem>>,
           Holds' <=> Holds, Holds => task'[2] = task[2], Inline' => Inline \/ tx_idle_sem = 1
    PROVE  BufInv'
  <1>1. Queued' = Queued /\ Held' = Held /\ (Once(tx_queue))'
    BY DEF Queued, Held, Once, BufInv, BuffersKept
  <1>2. OnTask' = OnTask
    BY DEF OnTask
  <1> QED BY <1>1, <1>2 DEF BufInv, BuffersKept, Engine, Divided

\* A buffer that was in flight is free again, or stays there.
LEMMA FinishBuffers ==
    ASSUME BufInv, ~Holds, ~Holds', UNCHANGED <<tx_queue, lwip>>,
           Finish \/ UNCHANGED <<tx_pool, tx_active_buf, tx_idle_sem>>
    PROVE  BufInv'
  <1>1. Queued' = Queued /\ OnTask' = {} /\ OnTask = {} /\ (Once(tx_queue))'
    BY DEF Queued, OnTask, Once, BufInv, BuffersKept
  <1>2. \/ Held' = {} /\ tx_pool' = tx_pool \cup Held
        \/ Held' = Held /\ tx_pool' = tx_pool
    BY DEF Finish, Held
  <1>3. Divided(tx_pool', Queued', OnTask', Held')
    BY <1>1, <1>2 DEF BufInv, BuffersKept, Divided
  <1>4. Engine'
    BY DEF Finish, BufInv, Engine, Inline
  <1> QED BY <1>1, <1>3, <1>4 DEF BufInv, BuffersKept

LEMMA LwipBuffers ==
    ASSUME IInv, BufInv, Lwip
    PROVE  BufInv'
  <1> USE DEF Inline, Holds
  <1>1. ASSUME NEW short \in BOOLEAN, emac_w5500_transmit(short)
        PROVE  BufInv'
    <2>1. UNCHANGED <<tx_pool, tx_queue, tx_active_buf, task>>
          /\ ((tx_idle_sem' = tx_idle_sem /\ ~Inline') \/ tx_idle_sem = 1)
      BY <1>1 DEF emac_w5500_transmit
    <2>2. Engine'
      BY <2>1 DEF BufInv, Engine
    <2>3. BuffersKept'
      BY <2>1 DEF BufInv, BuffersKept, Queued, OnTask, Held, Once, Divided
    <2> QED BY <2>2, <2>3 DEF BufInv
  <1>2. ASSUME NEW ok \in BOOLEAN, InlineWrite(ok) \/ InlineIssue(ok)
        PROVE  BufInv'
    <2>1. /\ UNCHANGED <<tx_pool, tx_queue, tx_active_buf, task>>
          /\ Inline
      BY <1>2 DEF InlineWrite, InlineIssue
    <2>2. Engine'
      BY <2>1 DEF BufInv, Engine
    <2>3. BuffersKept'
      BY <2>1 DEF BufInv, BuffersKept, Queued, OnTask, Held, Once, Divided
    <2> QED BY <2>2, <2>3 DEF BufInv
  <1>3. CASE InlineStamp
    BY <1>3, SameBuffers DEF InlineStamp, queues
  <1>4. CASE Enqueue
    <2>1. /\ UNCHANGED <<tx_active_buf, tx_idle_sem, task>> /\ ~Inline'
      BY <1>4 DEF Enqueue
    <2>2. Engine' /\ OnTask' = OnTask /\ Held' = Held
      BY <2>1 DEF BufInv, Engine, OnTask, Held
    <2>3. CASE UNCHANGED <<tx_pool, tx_queue>>
      BY <2>1, <2>3, SameBuffers
    <2>4. ASSUME NEW b \in tx_pool, tx_pool' = tx_pool \ {b},
                 tx_queue' = Append(tx_queue, <<b, frame>>)
          PROVE  BufInv'
      <3>1. tx_queue \in Seq(TxBufs \X Nat) /\ frame \in Nat /\ b \in TxBufs
        BY DEF IInv, Types
      <3>2. /\ Len(tx_queue') = Len(tx_queue) + 1
            /\ \A i \in 1..Len(tx_queue) : tx_queue'[i] = tx_queue[i]
            /\ tx_queue'[Len(tx_queue) + 1] = <<b, frame>>
        BY <2>4, <3>1
      <3>3. Len(tx_queue) \in Nat /\ 1..Len(tx_queue') = 1..Len(tx_queue) \cup {Len(tx_queue) + 1}
        BY <3>1, <3>2
      <3>4. Queued' = Queued \cup {b}
        BY <3>2, <3>3 DEF Queued
      <3>5. Divided(tx_pool', Queued', OnTask', Held')
        BY <2>2, <2>4, <3>4 DEF BufInv, BuffersKept, Divided
      <3>6. \A i \in 1..Len(tx_queue) : tx_queue[i][1] # b
        BY DEF BufInv, BuffersKept, Divided, Queued
      <3>7. (Once(tx_queue))'
        BY <3>2, <3>3, <3>6 DEF BufInv, BuffersKept, Once
      <3> QED BY <2>2, <3>5, <3>7 DEF BufInv, BuffersKept
    <2> QED BY <1>4, <2>3, <2>4 DEF Enqueue
  <1> QED BY <1>1, <1>2, <1>3, <1>4 DEF Lwip

LEMMA TaskBuffers ==
    ASSUME NoBuf \notin TxBufs, IInv, BufInv, Task
    PROVE  BufInv'
  <1> USE DEF To, IdlePcs, queues
  <1>1. CASE \/ Wake \/ Events
             \/ \E ok \in BOOLEAN : CheckMode(ok) \/ Drain(ok) \/ TxTimeout(ok)
    <2>1. ~Holds
      BY <1>1, TaskShape DEF IInv, Wake, Events, CheckMode, Drain, TxTimeout
    <2>2. ~Holds'
      BY <1>1, <2>1, OneWord DEF Wake, Events, CheckMode, Drain, TxTimeout, Holds
    <2>3. UNCHANGED <<tx_queue, lwip>> /\ (Finish \/ UNCHANGED <<tx_pool, tx_active_buf, tx_idle_sem>>)
      BY <1>1 DEF Wake, Events, CheckMode, Drain, TxTimeout
    <2> QED BY <2>1, <2>2, <2>3, FinishBuffers
  <1>2. CASE TakeNext
    <2>1. ~Holds /\ UNCHANGED <<tx_pool, tx_active_buf, lwip>>
      BY <1>2, TaskShape DEF IInv, TakeNext
    <2>2. CASE UNCHANGED <<tx_queue, tx_idle_sem>> /\ task' = <<"wait">>
      BY <2>1, <2>2, OneWord, FinishBuffers
    <2>3. CASE /\ tx_idle_sem = 1 /\ tx_queue # <<>>
               /\ task' = <<"write", tx_queue[1]>>
               /\ tx_queue' = Tail(tx_queue) /\ tx_idle_sem' = 0
      <3>1. tx_queue \in Seq(TxBufs \X Nat) /\ Len(tx_queue) \in Nat \ {0}
        BY <2>3 DEF IInv, Types
      <3>2. /\ Len(tx_queue') = Len(tx_queue) - 1
            /\ \A i \in 1..Len(tx_queue') : tx_queue'[i] = tx_queue[i + 1]
        BY <2>3, <3>1
      <3>3. Holds' /\ OnTask' = {tx_queue[1][1]} /\ OnTask = {}
        BY <2>1, <2>3 DEF OnTask, Holds
      <3>4. /\ \A i \in 1..Len(tx_queue') : i + 1 \in 1..Len(tx_queue) /\ i + 1 # 1
            /\ \A i \in 1..Len(tx_queue) : i = 1 \/ (i - 1 \in 1..Len(tx_queue') /\ i = (i - 1) + 1)
            /\ 1 \in 1..Len(tx_queue)
        BY <3>1, <3>2
      <3>5. \A i, j \in 1..Len(tx_queue) : tx_queue[i][1] = tx_queue[j][1] => i = j
        BY DEF BufInv, BuffersKept, Once
      <3>6. tx_queue[1][1] \in Queued /\ Queued' = Queued \ {tx_queue[1][1]}
        <4>1. ASSUME NEW b \in Queued' PROVE b \in Queued /\ b # tx_queue[1][1]
          BY <3>2, <3>4, <3>5 DEF Queued
        <4>2. ASSUME NEW b \in Queued, b # tx_queue[1][1] PROVE b \in Queued'
          <5>1. PICK i \in 1..Len(tx_queue) : b = tx_queue[i][1]
            BY DEF Queued
          <5>2. i - 1 \in 1..Len(tx_queue') /\ i = (i - 1) + 1
            BY <3>4, <4>2, <5>1
          <5>3. tx_queue'[i - 1] = tx_queue[i]
            BY <3>2, <5>2
          <5> QED BY <5>1, <5>2, <5>3 DEF Queued
        <4>3. tx_queue[1][1] \in Queued
          BY <3>4 DEF Queued
        <4> QED BY <4>1, <4>2, <4>3
      <3>7. (Once(tx_queue))'
        <4>1. ASSUME NEW i \in 1..Len(tx_queue'), NEW j \in 1..Len(tx_queue'),
                     tx_queue'[i][1] = tx_queue'[j][1]
              PROVE  i = j
          <5>1. i + 1 = j + 1
            BY <3>2, <3>4, <3>5, <4>1
          <5> QED BY <5>1
        <4> QED BY <4>1 DEF Once
      <3>8. Held = {} /\ Held' = {}
        BY <2>1, <2>3 DEF BufInv, Engine, Held
      <3>9. Divided(tx_pool', Queued', OnTask', Held')
        BY <2>1, <3>3, <3>6, <3>8 DEF BufInv, BuffersKept, Divided
      <3>10. Engine'
        BY <2>1, <2>3 DEF BufInv, Engine
      <3> QED BY <3>7, <3>9, <3>10 DEF BufInv, BuffersKept
    <2> QED BY <1>2, <2>2, <2>3 DEF TakeNext
  <1>3. ASSUME NEW ok \in BOOLEAN, StartWrite(ok) \/ StartIssue(ok)
        PROVE  BufInv'
    <2>1. /\ Holds /\ ~Inline /\ ~Inline' /\ tx_active_buf = NoBuf
          /\ OnTask = {task[2][1]} /\ task[2][1] \in TxBufs /\ Held = {}
          /\ UNCHANGED <<tx_queue, lwip>>
      <3>1. Holds
        BY <1>3, TaskShape DEF IInv, StartWrite, StartIssue
      <3>2. UNCHANGED <<tx_queue, lwip>>
        BY <1>3 DEF StartWrite, StartIssue
      <3> QED BY <3>1, <3>2, TaskShape DEF IInv, Alone, Inline, BufInv, Engine, OnTask, Held
    <2>2. \/ /\ task' = <<"issue", task[2]>>
             /\ UNCHANGED <<tx_pool, tx_active_buf, tx_idle_sem>>
          \/ /\ task' = <<"wait">> /\ tx_pool' = tx_pool \cup {task[2][1]}
             /\ tx_idle_sem' = 1 /\ tx_active_buf' = NoBuf
          \/ /\ task' = <<"wait">> /\ tx_active_buf' = task[2][1]
             /\ UNCHANGED <<tx_pool, tx_idle_sem>>
      BY <1>3, <2>1 DEF StartWrite, StartIssue, Drop
    <2>3. Queued' = Queued /\ (Once(tx_queue))'
      BY <2>1 DEF Queued, Once, BufInv, BuffersKept
    <2>4. CASE task' = <<"issue", task[2]>> /\ UNCHANGED <<tx_pool, tx_active_buf, tx_idle_sem>>
      <3>1. Holds' /\ task'[2] = task[2]
        BY <2>4 DEF Holds
      <3> QED BY <2>1, <2>4, <3>1, SameBuffers
    <2>5. CASE /\ task' = <<"wait">> /\ tx_pool' = tx_pool \cup {task[2][1]}
               /\ tx_idle_sem' = 1 /\ tx_active_buf' = NoBuf
      <3>1. OnTask' = {} /\ Held' = {}
        BY <2>5, OneWord DEF OnTask, Held
      <3>2. Divided(tx_pool', Queued', OnTask', Held')
        BY <2>1, <2>3, <2>5, <3>1 DEF BufInv, BuffersKept, Divided
      <3> QED BY <2>3, <2>5, <3>2 DEF BufInv, BuffersKept, Engine
    <2>6. CASE /\ task' = <<"wait">> /\ tx_active_buf' = task[2][1]
               /\ UNCHANGED <<tx_pool, tx_idle_sem>>
      <3>1. OnTask' = {} /\ Held' = {task[2][1]} /\ ~Holds'
        BY <2>1, <2>6, OneWord DEF OnTask, Held
      <3>2. Divided(tx_pool', Queued', OnTask', Held')
        BY <2>1, <2>3, <2>6, <3>1 DEF BufInv, BuffersKept, Divided
      <3>3. tx_idle_sem' = 0
        BY <2>1, <2>6 DEF IInv, Alone
      <3> QED BY <2>1, <2>3, <3>1, <3>2, <3>3 DEF BufInv, BuffersKept, Engine
    <2> QED BY <2>2, <2>4, <2>5, <2>6
  <1> QED BY <1>1, <1>2, <1>3 DEF Task

\* No buffer is lost and none is used twice, whichever thread sends, whichever transfer fails,
\* and although the semaphore may be given back too early: each is free, queued, the task's or
\* in flight, and in one of these places only (tx_pool, tx_queue, tx_active_buf).
THEOREM BuffersSafe ==
    ASSUME NoBuf \notin TxBufs
    PROVE  MacSpec => []BuffersKept
  <1>1. MacInit => IInv /\ BufInv
    <2> SUFFICES ASSUME MacInit PROVE IInv /\ BufInv
      OBVIOUS
    <2>1. tx_queue = <<>> /\ Len(tx_queue) = 0 /\ ~Holds
      BY DEF MacInit, Holds
    <2>2. Queued = {} /\ OnTask = {} /\ Held = {} /\ Once(tx_queue)
      BY <2>1 DEF Queued, OnTask, Held, Once, MacInit
    <2> QED BY <2>2, InitInv DEF BufInv, BuffersKept, Divided, Engine, MacInit
  <1>2. IInv /\ BufInv /\ [MacNext]_w5500vars => IInv' /\ BufInv'
    <2> SUFFICES ASSUME IInv, BufInv, [MacNext]_w5500vars PROVE BufInv'
      BY StepInv
    <2>1. CASE \/ SendDone \/ Arrive \/ Glitch \/ Later
               \/ emac_w5500_start \/ emac_w5500_stop \/ emac_w5500_set_filter
               \/ \E ok \in BOOLEAN : w5500_reset_socket(ok)
               \/ UNCHANGED w5500vars
      <3>1. UNCHANGED <<queues, task, lwip>>
        BY <2>1 DEF SendDone, Arrive, Glitch, Later, emac_w5500_start, emac_w5500_stop,
                    emac_w5500_set_filter, w5500_reset_socket, w5500vars, queues
      <3> QED BY <3>1, SameBuffers DEF queues, Holds, Inline
    <2> QED BY <2>1, LwipBuffers, TaskBuffers DEF MacNext
  <1>3. BufInv => BuffersKept
    BY DEF BufInv
  <1> QED BY <1>1, <1>2, <1>3, PTL DEF MacSpec
=============================================================================
