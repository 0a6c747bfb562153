------------------------- MODULE PcapCaptureProofs --------------------------
(***************************************************************************)
(* For any number of hooks, any buffer size and any lengths of records:    *)
(* PcapCapture is type correct, its positions stay consistent, it          *)
(* implements ByteFifo, a stream is well framed as long as the buffer is   *)
(* not reset under it, and the server never sleeps over waiting data.      *)
(*                                                                         *)
(* The refinement needs to know that the write position lies avail bytes   *)
(* after the read position (RingInv), that an unallocated buffer is empty, *)
(* and that a record still to be stored is a record (PcInv).  Framing      *)
(* speaks of the stream together with what the buffer holds (All): it ends *)
(* with a whole record while there is a buffer (FrameInv), and no hook     *)
(* holds a record whose name is in it (Named).                             *)
(***************************************************************************)
EXTENDS PcapCapture, SequenceTheorems, TLAPS

\* The write position follows from the read position and the fill level.
RingInv ==
    /\ head = Wrap(tail + avail)
    /\ ~alloc => avail = 0

\* Where the threads are, and what they hold there.
PcInv ==
    /\ \A w \in Writers : pc[w] \in {"check", "try", "body"} => rec[w] \in Records
    /\ pc[Srv] \in {"down", "accept", "alloc", "allocbody"} => ~alloc
    /\ pc[Srv] \in {"drain", "header", "wait", "read", "readbody", "send", "probe"} => alloc

IInv == TypeOK /\ RingInv /\ PcInv

-----------------------------------------------------------------------------
(* Arithmetic of positions.                                                *)

LEMMA ModOnce ==
    ASSUME NEW n \in 0 .. RingSize
    PROVE  n % RingSize = IF n = RingSize THEN 0 ELSE n
  BY CaptureAssumption

\* Advance() wraps around at most once.
LEMMA AdvanceWraps ==
    ASSUME NEW at \in Cells, NEW n \in 0 .. RingSize
    PROVE  Advance(at, n) = Wrap(at + n) /\ Advance(at, n) \in Cells
  <1>1. CASE RingSize - at >= n
    <2>1. at + n \in 0 .. RingSize
      BY <1>1, CaptureAssumption DEF Cells
    <2> QED BY <1>1, <2>1, ModOnce, CaptureAssumption DEF Advance, Wrap, Cells
  <1>2. CASE ~(RingSize - at >= n)
    BY <1>2, CaptureAssumption DEF Advance, Wrap, Cells
  <1> QED BY <1>1, <1>2

-----------------------------------------------------------------------------
(* Records and sequences of bytes.                                         *)

LEMMA RecordType ==
    ASSUME NEW r \in Records
    PROVE  r \in Seq(Byte) /\ Len(r) \in Nat \ {0} /\ r # <<>>
  <1>1. PICK n \in 1 .. MaxRecords, l \in Lens : r = RecordOf(n, l)
    BY DEF Records
  <1>2. l \in Nat \ {0}
    BY CaptureAssumption
  <1> QED BY <1>1, <1>2, CaptureAssumption DEF RecordOf, Byte

LEMMA BlankType == Blank \in Byte
  BY CaptureAssumption DEF Blank, Byte

LEMMA OldestType ==
    ASSUME TypeOK, NEW n \in 0 .. avail
    PROVE  Oldest(n) \in Seq(Byte) /\ Len(Oldest(n)) = n
  <1>1. ASSUME NEW i \in 1 .. n PROVE mem[Wrap(tail + i - 1)] \in Byte
    BY <1>1, CaptureAssumption DEF TypeOK, Wrap, Cells
  <1> QED BY <1>1, CaptureAssumption DEF Oldest, TypeOK

-----------------------------------------------------------------------------
(* Type correctness.                                                       *)

LEMMA GotoType ==
    ASSUME TypeOK, NEW t \in Threads, NEW l, Goto(t, l),
           t \in Writers => l \in WriterPcs,
           t = Srv => l \in SrvPcs,
           t = Cfg => l \in CfgPcs
    PROVE  /\ pc' \in [Threads -> WriterPcs \cup SrvPcs \cup CfgPcs]
           /\ \A w \in Writers : pc'[w] \in WriterPcs
           /\ pc'[Srv] \in SrvPcs
           /\ pc'[Cfg] \in CfgPcs
  BY CaptureAssumption DEF TypeOK, Goto, Threads

LEMMA WriterType ==
    ASSUME TypeOK, PcInv, NEW w \in Writers, Writer(w)
    PROVE  TypeOK'
  <1> USE CaptureAssumption
  <1>a. w \in Threads /\ w # Srv /\ w # Cfg
    BY DEF Threads
  <1>1. CASE Capture(w)
    <2>1. records' \in 0 .. MaxRecords /\ records + 1 \in 1 .. MaxRecords
      BY <1>1 DEF Capture, TypeOK
    <2>2. rec' \in [Writers -> Records \cup {<<>>}]
      BY <1>1, <2>1 DEF Capture, TypeOK, Records
    <2> QED BY <1>1, <1>a, <2>1, <2>2, GotoType
         DEF Capture, TypeOK, WriterPcs, ringVars, sessionVars, modeVars
  <1>2. CASE WriteCheck(w)
    <2>1. rec' \in [Writers -> Records \cup {<<>>}]
      BY <1>2 DEF WriteCheck, Drop, TypeOK
    <2> QED BY <1>2, <1>a, <2>1, GotoType
         DEF WriteCheck, Drop, TypeOK, WriterPcs, ringVars, sessionVars, modeVars
  <1>3. CASE WriteTry(w)
    <2>1. rec' \in [Writers -> Records \cup {<<>>}]
      BY <1>3 DEF WriteTry, Drop, TypeOK
    <2> QED BY <1>3, <1>a, <2>1, GotoType
         DEF WriteTry, Drop, TypeOK, WriterPcs, ringVars, sessionVars, modeVars
  <1>4. CASE WriteBody(w)
    <2>1. rec' \in [Writers -> Records \cup {<<>>}]
      BY <1>4 DEF WriteBody, TypeOK
    <2>2. ASSUME alloc, Fits(rec[w]), Store(rec[w])
          PROVE  /\ mem' \in [Cells -> Byte]
                 /\ head' \in Cells /\ tail' \in Cells /\ avail' \in 0 .. RingSize
                 /\ alloc' \in BOOLEAN
      <3>1. rec[w] \in Records
        BY <1>4 DEF WriteBody, PcInv
      <3>2. Len(rec[w]) \in 0 .. RingSize - avail /\ rec[w] \in Seq(Byte)
        BY <2>2, <3>1, RecordType DEF Fits, TypeOK
      <3>3. ASSUME NEW c \in Cells, Behind(c) < Len(rec[w]) PROVE rec[w][Behind(c) + 1] \in Byte
        BY <3>2, <3>3 DEF Behind, Cells, TypeOK
      <3>4. mem' \in [Cells -> Byte]
        BY <2>2, <3>3 DEF Store, TypeOK
      <3>5. head' \in Cells
        BY <2>2, <3>2, AdvanceWraps DEF Store, TypeOK
      <3> QED BY <2>2, <3>2, <3>4, <3>5 DEF Store, TypeOK
    <2> QED BY <1>4, <1>a, <2>1, <2>2, GotoType
         DEF WriteBody, Unlock, TypeOK, WriterPcs, ringVars, sessionVars, modeVars
  <1>5. CASE WriteSignal(w)
    BY <1>5, <1>a, GotoType
    DEF WriteSignal, TypeOK, WriterPcs, ringVars, sessionVars, modeVars, offerVars
  <1> QED BY <1>1, <1>2, <1>3, <1>4, <1>5 DEF Writer

LEMMA ReadType ==
    ASSUME TypeOK, ReadBody
    PROVE  TypeOK'
  <1> USE CaptureAssumption
  <1>a. Srv \in Threads
    BY DEF Threads
  <1>1. CASE avail = 0
    BY <1>1, <1>a, GotoType
    DEF ReadBody, Unlock, TypeOK, SrvPcs, modeVars, offerVars
  <1>2. CASE avail # 0
    <2> DEFINE n == IF SendBuf < avail THEN SendBuf ELSE avail
    <2>1. n \in 1 .. avail /\ n \in 0 .. RingSize
      BY <1>2 DEF TypeOK
    <2>2. stream' \in Seq(Byte)
      <3>1. Oldest(n) \in Seq(Byte)
        BY <2>1, OldestType DEF TypeOK
      <3>2. stream' = stream \o Oldest(n)
        BY <1>2 DEF ReadBody
      <3> QED BY <3>1, <3>2 DEF TypeOK
    <2>3. tail' \in Cells
      BY <1>2, <2>1, AdvanceWraps DEF ReadBody, TypeOK
    <2>4. avail' \in 0 .. RingSize
      BY <1>2, <2>1 DEF ReadBody, TypeOK
    <2>5. sem' \in BOOLEAN
      BY <1>2 DEF ReadBody, Resignal
    <2> QED BY <1>2, <1>a, <2>2, <2>3, <2>4, <2>5, GotoType
         DEF ReadBody, Unlock, TypeOK, SrvPcs, modeVars, offerVars
  <1> QED BY <1>1, <1>2

LEMMA ServeType ==
    ASSUME TypeOK, Accept \/ Serve
    PROVE  TypeOK'
  <1> USE CaptureAssumption
  <1>a. Srv \in Threads
    BY DEF Threads
  <1>b. [c \in Cells |-> Blank] \in [Cells -> Byte] /\ 0 \in Cells
    BY BlankType DEF Cells
  <1>1. CASE Accept
    <2>1. sessions' \in Nat /\ resets' \in Nat /\ stream' \in Seq(Byte)
      BY <1>1 DEF Accept, TypeOK
    <2> QED BY <1>1, <1>a, <2>1, GotoType
         DEF Accept, TypeOK, SrvPcs, ringVars, modeVars, offerVars
  <1>2. CASE AllocBody
    <2>1. /\ pc' \in [Threads -> WriterPcs \cup SrvPcs \cup CfgPcs]
          /\ \A w \in Writers : pc'[w] \in WriterPcs
          /\ pc'[Srv] \in SrvPcs /\ pc'[Cfg] \in CfgPcs
      BY <1>2, <1>a, GotoType DEF AllocBody, Unlock, SrvPcs
    <2>2. /\ mem' \in [Cells -> Byte]
          /\ head' \in Cells /\ tail' \in Cells /\ avail' \in 0 .. RingSize
      BY <1>2, <1>b DEF AllocBody, Emptied, TypeOK, ringVars
    <2>3. alloc' \in BOOLEAN
      BY <1>2 DEF AllocBody, TypeOK, ringVars
    <2> QED BY <1>2, <2>1, <2>2, <2>3
         DEF AllocBody, Unlock, TypeOK, sessionVars, modeVars, offerVars
  <1>3. CASE AllocDrain
    BY <1>3, <1>a, GotoType
    DEF AllocDrain, TypeOK, SrvPcs, ringVars, sessionVars, modeVars, offerVars
  <1>4. CASE SendHeader
    BY <1>4, <1>a, GotoType
    DEF SendHeader, TypeOK, SrvPcs, ringVars, sessionVars, modeVars, offerVars
  <1>5. CASE ReadWait
    BY <1>5, <1>a, GotoType
    DEF ReadWait, TypeOK, SrvPcs, ringVars, sessionVars, modeVars, offerVars
  <1>6. CASE ReadBody
    BY <1>6, ReadType
  <1>7. CASE StillThere \/ ClientGone
    BY <1>7, <1>a, GotoType
    DEF StillThere, ClientGone, TypeOK, SrvPcs, ringVars, sessionVars, modeVars, offerVars
  <1>8. CASE Disconnect
    BY <1>8, <1>a, GotoType
    DEF Disconnect, TypeOK, SrvPcs, ringVars, modeVars, offerVars
  <1>9. CASE FreeBody
    <2>1. /\ pc' \in [Threads -> WriterPcs \cup SrvPcs \cup CfgPcs]
          /\ \A w \in Writers : pc'[w] \in WriterPcs
          /\ pc'[Srv] \in SrvPcs /\ pc'[Cfg] \in CfgPcs
      BY <1>9, <1>a, GotoType DEF FreeBody, Unlock, SrvPcs
    <2>2. /\ mem' \in [Cells -> Byte] /\ alloc' \in BOOLEAN
          /\ head' \in Cells /\ tail' \in Cells /\ avail' \in 0 .. RingSize
      BY <1>9, <1>b DEF FreeBody, Emptied, TypeOK
    <2> QED BY <1>9, <2>1, <2>2
         DEF FreeBody, Unlock, TypeOK, sessionVars, modeVars, offerVars
  <1> QED BY <1>1, <1>2, <1>3, <1>4, <1>5, <1>6, <1>7, <1>8, <1>9 DEF Serve

LEMMA ConfigureType ==
    ASSUME TypeOK, Configure
    PROVE  TypeOK'
  <1> USE CaptureAssumption
  <1>a. Cfg \in Threads /\ Srv \in Threads /\ 0 \in Cells
    BY DEF Threads, Cells
  <1>1. ASSUME NEW m \in Selectable, SetMode(m) PROVE TypeOK'
    <2>1. /\ pc' \in [Threads -> WriterPcs \cup SrvPcs \cup CfgPcs]
          /\ \A w \in Writers : pc'[w] \in WriterPcs
          /\ pc'[Srv] \in SrvPcs
          /\ pc'[Cfg] \in CfgPcs
      BY <1>1, <1>a DEF SetMode, TypeOK, Threads, SrvPcs, CfgPcs
    <2>2. modes' \in Nat /\ mode' \in Modes
      BY <1>1 DEF SetMode, TypeOK, Modes
    <2> QED BY <1>1, <2>1, <2>2
         DEF SetMode, TypeOK, ringVars, sessionVars, offerVars
  <1>2. CASE ResetBody
    BY <1>2, <1>a, GotoType
    DEF ResetBody, Emptied, Unlock, TypeOK, CfgPcs, modeVars, offerVars
  <1> QED BY <1>1, <1>2 DEF Configure

LEMMA LockType ==
    ASSUME TypeOK, NEW t \in {Srv, Cfg}, Lock(t)
    PROVE  TypeOK'
  <1> USE CaptureAssumption
  <1>1. t \in Threads /\ t \notin Writers
    BY DEF Threads
  <1>2. (t = Srv => Locked(pc[t]) \in SrvPcs) /\ (t = Cfg => Locked(pc[t]) \in CfgPcs)
    BY DEF Lock, Locked, TypeOK, SrvPcs, CfgPcs
  <1> QED BY <1>1, <1>2, GotoType
       DEF Lock, TypeOK, ringVars, sessionVars, modeVars, offerVars

-----------------------------------------------------------------------------
(* Positions and places.                                                   *)

LEMMA InitInv == Init => IInv
  <1> SUFFICES ASSUME Init PROVE IInv
    OBVIOUS
  <1> USE CaptureAssumption
  <1>1. TypeOK
    <2>1. mem \in [Cells -> Byte]
      BY BlankType DEF Init
    <2>2. /\ pc \in [Threads -> WriterPcs \cup SrvPcs \cup CfgPcs]
          /\ \A w \in Writers : pc[w] \in WriterPcs
          /\ pc[Srv] \in SrvPcs /\ pc[Cfg] \in CfgPcs
      BY DEF Init, Threads, WriterPcs, SrvPcs, CfgPcs
    <2>3. head \in Cells /\ tail \in Cells /\ avail \in 0 .. RingSize /\ records \in 0 .. MaxRecords
      BY DEF Init, Cells
    <2>4. rec \in [Writers -> Records \cup {<<>>}] /\ stream \in Seq(Byte)
      BY DEF Init
    <2> QED BY <2>1, <2>2, <2>3, <2>4 DEF Init, TypeOK, Modes
  <1>2. RingInv
    BY DEF Init, RingInv, Wrap
  <1>3. PcInv
    BY DEF Init, PcInv, Threads
  <1> QED BY <1>1, <1>2, <1>3 DEF IInv

LEMMA TypeStep == IInv /\ [Next]_vars => TypeOK'
  <1> SUFFICES ASSUME IInv, [Next]_vars PROVE TypeOK'
    OBVIOUS
  <1>1. CASE Next
    BY <1>1, WriterType, ServeType, ConfigureType, LockType DEF Next, IInv
  <1>2. CASE UNCHANGED vars
    BY <1>2 DEF vars, ringVars, sessionVars, modeVars, offerVars, IInv, TypeOK
  <1> QED BY <1>1, <1>2

\* Storing and taking bytes keep the positions consistent.
LEMMA RingStep == IInv /\ [Next]_vars => RingInv'
  <1> SUFFICES ASSUME IInv, [Next]_vars PROVE RingInv'
    OBVIOUS
  <1> USE CaptureAssumption
  <1>a. TypeOK /\ RingInv /\ PcInv
    BY DEF IInv
  <1>1. ASSUME UNCHANGED ringVars PROVE RingInv'
    BY <1>a, <1>1 DEF RingInv, Wrap, ringVars
  <1>2. ASSUME Emptied PROVE RingInv'
    BY <1>2 DEF Emptied, RingInv, Wrap
  <1>3. ASSUME NEW w \in Writers, WriteBody(w) PROVE RingInv'
    <2>1. CASE alloc /\ Fits(rec[w])
      <3>1. rec[w] \in Records
        BY <1>a, <1>3 DEF WriteBody, PcInv
      <3>2. Len(rec[w]) \in 1 .. RingSize - avail
        BY <1>a, <2>1, <3>1, RecordType DEF Fits, TypeOK
      <3>3. head' = Wrap(head + Len(rec[w])) /\ UNCHANGED <<alloc, tail>>
            /\ avail' = avail + Len(rec[w])
        BY <1>a, <1>3, <2>1, <3>2, AdvanceWraps DEF WriteBody, Store, TypeOK
      <3> QED BY <1>a, <2>1, <3>2, <3>3 DEF RingInv, Wrap, TypeOK, Cells
    <2>2. CASE ~(alloc /\ Fits(rec[w]))
      BY <1>1, <1>3, <2>2 DEF WriteBody
    <2> QED BY <2>1, <2>2
  <1>4. CASE ReadBody
    <2>1. CASE avail = 0
      BY <1>1, <1>4, <2>1 DEF ReadBody, ringVars
    <2>2. CASE avail # 0
      <3> DEFINE n == IF SendBuf < avail THEN SendBuf ELSE avail
      <3>1. n \in 1 .. avail
        BY <1>a, <2>2 DEF TypeOK
      <3>2. tail' = Wrap(tail + n) /\ avail' = avail - n /\ UNCHANGED <<alloc, head>>
        BY <1>a, <1>4, <2>2, <3>1, AdvanceWraps DEF ReadBody, TypeOK
      <3>3. alloc
        BY <1>a, <1>4 DEF ReadBody, PcInv
      <3> QED BY <1>a, <3>1, <3>2, <3>3 DEF RingInv, Wrap, TypeOK, Cells
    <2> QED BY <2>1, <2>2
  <1>5. CASE AllocBody \/ FreeBody \/ ResetBody
    BY <1>1, <1>2, <1>5 DEF AllocBody, FreeBody, ResetBody
  <1>6. ASSUME NEW w \in Writers, Writer(w), ~WriteBody(w) PROVE UNCHANGED ringVars
    BY <1>6 DEF Writer, Capture, WriteCheck, WriteTry, WriteSignal
  <1>7. CASE Accept \/ AllocDrain \/ SendHeader \/ ReadWait \/ StillThere \/ ClientGone \/ Disconnect
    BY <1>1, <1>7 DEF Accept, AllocDrain, SendHeader, ReadWait, StillThere, ClientGone, Disconnect
  <1>8. ASSUME (\E t \in {Srv, Cfg} : Lock(t)) \/ (\E m \in Selectable : SetMode(m)) \/ UNCHANGED vars
        PROVE  UNCHANGED ringVars
    BY <1>8 DEF Lock, SetMode, vars
  <1> QED BY <1>1, <1>3, <1>4, <1>5, <1>6, <1>7, <1>8 DEF Next, Serve, Configure

\* The buffer exists from ringbuf_alloc() to ringbuf_free(), and a hook holds
\* its record until it has stored or dropped it.
LEMMA PcStep == IInv /\ [Next]_vars => PcInv'
  <1> SUFFICES ASSUME IInv, [Next]_vars PROVE PcInv'
    OBVIOUS
  <1> USE CaptureAssumption
  <1>a. TypeOK /\ PcInv
    BY DEF IInv
  <1>1. ASSUME NEW w \in Writers, Capture(w) PROVE PcInv'
    <2>1. records + 1 \in 1 .. MaxRecords
      BY <1>a, <1>1 DEF Capture, TypeOK
    <2>2. \A l \in Lens : RecordOf(records + 1, l) \in Records
      BY <2>1 DEF Records
    <2> QED BY <1>a, <1>1, <2>2 DEF Capture, Goto, PcInv, TypeOK, Threads, ringVars
  <1>2. ASSUME NEW w \in Writers, WriteCheck(w) \/ WriteTry(w) \/ WriteSignal(w) PROVE PcInv'
    BY <1>a, <1>2
    DEF WriteCheck, WriteTry, WriteSignal, Drop, Goto, PcInv, TypeOK, Threads, ringVars, offerVars
  <1>3. ASSUME NEW w \in Writers, WriteBody(w) PROVE PcInv'
    <2>1. UNCHANGED alloc
      BY <1>3 DEF WriteBody, Store, ringVars
    <2> QED BY <1>a, <1>3, <2>1 DEF WriteBody, Unlock, Goto, PcInv, TypeOK, Threads
  <1>4. CASE Accept \/ AllocBody \/ FreeBody
    BY <1>a, <1>4
    DEF Accept, AllocBody, FreeBody, Unlock, Goto, PcInv, TypeOK, Threads, ringVars, offerVars
  <1>5. CASE AllocDrain \/ SendHeader \/ ReadWait \/ StillThere \/ ClientGone \/ Disconnect
    BY <1>a, <1>5
    DEF AllocDrain, SendHeader, ReadWait, StillThere, ClientGone, Disconnect, Goto, PcInv,
        TypeOK, Threads, ringVars, offerVars
  <1>6. CASE ReadBody
    BY <1>a, <1>6 DEF ReadBody, Unlock, Goto, PcInv, TypeOK, Threads, offerVars
  <1>7. ASSUME NEW m \in Selectable, SetMode(m) PROVE PcInv'
    BY <1>a, <1>7 DEF SetMode, PcInv, TypeOK, Threads, ringVars, offerVars
  <1>8. CASE ResetBody
    BY <1>a, <1>8 DEF ResetBody, Unlock, Goto, PcInv, TypeOK, Threads, offerVars
  <1>9. ASSUME NEW t \in {Srv, Cfg}, Lock(t) PROVE PcInv'
    BY <1>a, <1>9 DEF Lock, Locked, Goto, PcInv, TypeOK, Threads, ringVars, offerVars
  <1>10. CASE UNCHANGED vars
    BY <1>a, <1>10 DEF vars, ringVars, offerVars, PcInv
  <1> QED BY <1>1, <1>2, <1>3, <1>4, <1>5, <1>6, <1>7, <1>8, <1>9, <1>10
       DEF Next, Writer, Serve, Configure

\* Type correctness of the capture, and with it that the positions never leave
\* the buffer and the fill level never exceeds it.
THEOREM TypeCorrect == Spec => []TypeOK
  <1>1. IInv /\ [Next]_vars => IInv'
    BY TypeStep, RingStep, PcStep DEF IInv
  <1>2. IInv => TypeOK
    BY DEF IInv
  <1> QED BY <1>1, <1>2, InitInv, PTL DEF Spec

-----------------------------------------------------------------------------
(* The buffer implements the FIFO.                                         *)

LEMMA EmptyContents == avail = 0 => Contents = <<>>
  BY DEF Contents, Oldest

LEMMA ConcatIs ==
    ASSUME NEW s \in Seq(Byte), NEW r \in Seq(Byte)
    PROVE  s \o r = [i \in 1 .. Len(s) + Len(r) |-> IF i <= Len(s) THEN s[i] ELSE r[i - Len(s)]]
  <1> DEFINE f == [i \in 1 .. Len(s) + Len(r) |-> IF i <= Len(s) THEN s[i] ELSE r[i - Len(s)]]
  <1>1. f \in Seq(Byte) /\ Len(f) = Len(s) + Len(r)
    OBVIOUS
  <1>2. \A i \in 1 .. Len(f) : (s \o r)[i] = f[i]
    BY <1>1, ConcatProperties
  <1> HIDE DEF f
  <1>3. s \o r = f
    <2>1. s \o r \in Seq(Byte) /\ Len(s \o r) = Len(f)
      BY <1>1, ConcatProperties
    <2>2. \A i \in 1 .. Len(s \o r) : (s \o r)[i] = f[i]
      BY <1>2, <2>1
    <2> QED
      BY <1>1, <2>1, <2>2, SeqEqual
  <1> QED BY <1>3 DEF f

\* A record is appended: its bytes land behind the contents, and no cell of the
\* contents is overwritten.
LEMMA StoreAppends ==
    ASSUME TypeOK, RingInv, NEW r \in Records, Fits(r), Store(r)
    PROVE  Contents' = Contents \o r
  <1> USE CaptureAssumption
  <1>1. r \in Seq(Byte) /\ Len(r) \in 1 .. RingSize - avail
    BY RecordType DEF Fits, TypeOK
  <1>2. tail' = tail /\ avail' = avail + Len(r)
    BY DEF Store
  <1>3. \A i \in 1 .. avail : Wrap(tail + i - 1) \in Cells /\ Behind(Wrap(tail + i - 1)) >= Len(r)
    BY <1>1 DEF TypeOK, RingInv, Wrap, Behind, Cells
  <1>4. \A i \in avail + 1 .. avail + Len(r) :
            /\ Wrap(tail + i - 1) \in Cells
            /\ Behind(Wrap(tail + i - 1)) = i - avail - 1
    BY <1>1 DEF TypeOK, RingInv, Wrap, Behind, Cells
  <1>5. \A i \in 1 .. avail : mem'[Wrap(tail + i - 1)] = mem[Wrap(tail + i - 1)]
    <2>1. \A c \in Cells : mem'[c] = IF Behind(c) < Len(r) THEN r[Behind(c) + 1] ELSE mem[c]
      BY DEF Store
    <2>2. \A c \in Cells : Behind(c) \in Nat
      BY DEF Behind, TypeOK, Cells
    <2> TAKE i \in 1 .. avail
    <2> DEFINE c == Wrap(tail + i - 1)
    <2>3. c \in Cells /\ Behind(c) >= Len(r)
      BY <1>3
    <2> HIDE DEF c
    <2>4. mem'[c] = mem[c]
      BY <1>1, <2>1, <2>2, <2>3
    <2> QED BY <2>4 DEF c
  <1>6. \A i \in avail + 1 .. avail + Len(r) : mem'[Wrap(tail + i - 1)] = r[i - avail]
    BY <1>1, <1>4 DEF Store, TypeOK
  <1>7. Contents' = [i \in 1 .. avail + Len(r) |-> mem'[Wrap(tail + i - 1)]]
    BY <1>2 DEF Contents, Oldest, Wrap
  <1>8. Contents \in Seq(Byte) /\ Len(Contents) = avail
        /\ \A i \in 1 .. avail : Contents[i] = mem[Wrap(tail + i - 1)]
    BY OldestType DEF Contents, Oldest, TypeOK
  <1> HIDE DEF Contents
  <1>9. Contents \o r =
            [i \in 1 .. avail + Len(r) |-> IF i <= avail THEN Contents[i] ELSE r[i - avail]]
    <2>1. Contents \o r = [i \in 1 .. Len(Contents) + Len(r) |->
                                IF i <= Len(Contents) THEN Contents[i] ELSE r[i - Len(Contents)]]
      BY <1>1, <1>8, ConcatIs
    <2> QED BY <1>8, <2>1
  <1>10. \A i \in 1 .. avail + Len(r) :
            mem'[Wrap(tail + i - 1)] = IF i <= avail THEN Contents[i] ELSE r[i - avail]
    <2> TAKE i \in 1 .. avail + Len(r)
    <2>1. CASE i <= avail
      BY <1>5, <1>8, <2>1
    <2>2. CASE ~(i <= avail)
      <3>1. i \in avail + 1 .. avail + Len(r)
        BY <1>1, <2>2 DEF TypeOK
      <3> QED BY <1>6, <2>2, <3>1
    <2> QED BY <2>1, <2>2
  <1> QED BY <1>7, <1>9, <1>10

\* What is taken is the front of the contents, and the rest stays.
LEMMA OldestIsFront ==
    ASSUME TypeOK, NEW n \in 1 .. avail
    PROVE  Oldest(n) = SubSeq(Contents, 1, n)
  <1> USE CaptureAssumption
  <1>1. Contents \in Seq(Byte) /\ Len(Contents) = avail
        /\ \A i \in 1 .. avail : Contents[i] = mem[Wrap(tail + i - 1)]
    BY OldestType DEF Contents, Oldest, TypeOK
  <1>2. SubSeq(Contents, 1, n) = [i \in 1 .. n |-> Contents[i]]
    BY <1>1 DEF TypeOK
  <1> QED BY <1>1, <1>2 DEF Oldest, TypeOK

LEMMA RestStays ==
    ASSUME TypeOK, NEW n \in 1 .. avail, tail' = Wrap(tail + n), avail' = avail - n, mem' = mem
    PROVE  Contents' = SubSeq(Contents, n + 1, Len(Contents))
  <1> USE CaptureAssumption
  <1>1. Contents \in Seq(Byte) /\ Len(Contents) = avail
        /\ \A i \in 1 .. avail : Contents[i] = mem[Wrap(tail + i - 1)]
    BY OldestType DEF Contents, Oldest, TypeOK
  <1>2. SubSeq(Contents, n + 1, Len(Contents)) = [i \in 1 .. avail - n |-> Contents[n + i]]
    BY <1>1 DEF TypeOK
  <1>3. Contents' = [i \in 1 .. avail - n |-> mem[Wrap(tail' + i - 1)]]
    BY DEF Contents, Oldest, Wrap
  <1>4. \A i \in 1 .. avail - n : Wrap(tail' + i - 1) = Wrap(tail + (n + i) - 1)
    BY DEF TypeOK, Wrap, Cells
  <1>5. \A i \in 1 .. avail - n : mem[Wrap(tail' + i - 1)] = Contents[n + i]
    BY <1>1, <1>4 DEF TypeOK
  <1> QED BY <1>2, <1>3, <1>5

LEMMA SameContents == UNCHANGED ringVars => UNCHANGED Contents
  BY DEF ringVars, Contents, Oldest, Wrap

LEMMA StepFifo == IInv /\ [Next]_vars => [Fifo!Next]_<<Contents, stream>>
  <1> SUFFICES ASSUME IInv, [Next]_vars PROVE [Fifo!Next]_<<Contents, stream>>
    OBVIOUS
  <1> USE CaptureAssumption
  <1>a. TypeOK /\ RingInv /\ PcInv
    BY DEF IInv
  <1>b. ASSUME UNCHANGED ringVars, UNCHANGED stream PROVE [Fifo!Next]_<<Contents, stream>>
    BY <1>b, SameContents
  <1>c. ASSUME avail' = 0, UNCHANGED stream PROVE [Fifo!Next]_<<Contents, stream>>
    <2>1. Contents' = <<>>
      BY <1>c DEF Contents, Oldest
    <2> QED BY <1>c, <2>1 DEF Fifo!Next, Fifo!Clear
  <1>1. ASSUME NEW w \in Writers, WriteBody(w) PROVE [Fifo!Next]_<<Contents, stream>>
    <2>1. UNCHANGED stream
      BY <1>1 DEF WriteBody, sessionVars
    <2>2. CASE alloc /\ Fits(rec[w])
      <3>1. rec[w] \in Records
        BY <1>a, <1>1 DEF WriteBody, PcInv
      <3>2. Contents' = Contents \o rec[w]
        BY <1>a, <1>1, <2>2, <3>1, StoreAppends DEF WriteBody
      <3>3. Len(Contents) + Len(rec[w]) <= RingSize
        BY <1>a, <2>2, <3>1, RecordType, OldestType DEF Fits, Contents, TypeOK
      <3> QED BY <2>1, <3>1, <3>2, <3>3 DEF Fifo!Next, Fifo!Put
    <2>3. CASE ~(alloc /\ Fits(rec[w]))
      BY <1>1, <1>b, <2>1, <2>3 DEF WriteBody
    <2> QED BY <2>2, <2>3
  <1>2. CASE ReadBody
    <2>1. CASE avail = 0
      BY <1>2, <1>b, <2>1 DEF ReadBody, ringVars
    <2>2. CASE avail # 0
      <3> DEFINE n == IF SendBuf < avail THEN SendBuf ELSE avail
      <3>1. n \in 1 .. avail /\ n \in 1 .. Len(Contents)
        BY <1>a, <2>2, OldestType DEF Contents, TypeOK
      <3>2. tail' = Wrap(tail + n) /\ avail' = avail - n /\ mem' = mem
        BY <1>a, <1>2, <2>2, <3>1, AdvanceWraps DEF ReadBody, TypeOK
      <3>3. stream' = stream \o SubSeq(Contents, 1, n)
        BY <1>a, <1>2, <2>2, <3>1, OldestIsFront DEF ReadBody
      <3>4. Contents' = SubSeq(Contents, n + 1, Len(Contents))
        BY <1>a, <3>1, <3>2, RestStays
      <3> HIDE DEF n
      <3> QED BY <3>1, <3>3, <3>4 DEF Fifo!Next, Fifo!Take
    <2> QED BY <2>1, <2>2
  <1>3. CASE Accept
    <2>1. avail = 0 /\ UNCHANGED ringVars
      BY <1>a, <1>3 DEF Accept, PcInv, RingInv
    <2>2. Contents = <<>> /\ UNCHANGED Contents
      BY <2>1, EmptyContents, SameContents
    <2> QED BY <1>3, <2>2 DEF Accept, Fifo!Next, Fifo!NewClient
  <1>4. CASE AllocBody \/ FreeBody \/ ResetBody
    BY <1>4, <1>b, <1>c DEF AllocBody, FreeBody, ResetBody, Emptied, sessionVars
  <1>5. ASSUME NEW w \in Writers, Writer(w), ~WriteBody(w) PROVE [Fifo!Next]_<<Contents, stream>>
    BY <1>5, <1>b DEF Writer, Capture, WriteCheck, WriteTry, WriteSignal, sessionVars
  <1>6. CASE AllocDrain \/ SendHeader \/ ReadWait \/ StillThere \/ ClientGone \/ Disconnect
    BY <1>6, <1>b
    DEF AllocDrain, SendHeader, ReadWait, StillThere, ClientGone, Disconnect, sessionVars
  <1>7. CASE (\E t \in {Srv, Cfg} : Lock(t)) \/ (\E m \in Selectable : SetMode(m)) \/ UNCHANGED vars
    BY <1>7, <1>b DEF Lock, SetMode, vars, sessionVars
  <1> QED BY <1>1, <1>2, <1>3, <1>4, <1>5, <1>6, <1>7 DEF Next, Serve, Configure

\* The ring buffer and the session around it implement a bounded FIFO of whole
\* records: for every buffer size, number of hooks and mode changes.
THEOREM RingImplementsFifo == Spec => ImplementsFifo
  <1>1. IInv /\ [Next]_vars => IInv'
    BY TypeStep, RingStep, PcStep DEF IInv
  <1>2. Init => Fifo!Init
    BY EmptyContents DEF Init, Fifo!Init
  <1> QED BY <1>1, <1>2, InitInv, StepFifo, PTL DEF Spec, ImplementsFifo, Fifo!Spec

-----------------------------------------------------------------------------
(* The client's stream, with what is still to come.                        *)

All == stream \o Contents

\* A stream of records, of which the last may be cut off ...
Framed(s) ==
    /\ s # <<>> => s[1].pos = 1
    /\ \A i \in 1 .. Len(s) - 1 : Follows(s[i], s[i + 1])

\* ... or is not.
Complete(s) == s = <<>> \/ s[Len(s)].pos = s[Len(s)].len

\* Records have names of their own: a hook's is no other hook's, and not in the stream.
Named ==
    /\ \A w \in Writers : rec[w] # <<>> => rec[w][1].id <= records
    /\ \A v, w \in Writers :
         v # w /\ rec[v] # <<>> /\ rec[w] # <<>> => rec[v][1].id # rec[w][1].id
    /\ \A i \in 1 .. Len(All) :
         /\ All[i].id <= records
         /\ \A w \in Writers : rec[w] # <<>> => All[i].id # rec[w][1].id

FrameInv ==
    /\ pc[Srv] \in {"alloc", "allocbody"} => stream = <<>>
    /\ resets = 0 => Framed(All) /\ (alloc => Complete(All))

LEMMA ContentsType == TypeOK => Contents \in Seq(Byte) /\ Len(Contents) = avail
BY OldestType DEF Contents, TypeOK

LEMMA AllType == TypeOK => All \in Seq(Byte) /\ stream \in Seq(Byte) /\ Contents \in Seq(Byte)
BY ContentsType, ConcatProperties DEF All, TypeOK

\* The bytes of a record.
LEMMA RecordBytes ==
    ASSUME NEW r \in Records
    PROVE  /\ r \in Seq(Byte) /\ Len(r) \in Nat \ {0} /\ r # <<>>
           /\ \A i \in 1 .. Len(r) : r[i] = [id |-> r[1].id, pos |-> i, len |-> Len(r)]
           /\ r[1].id \in 1 .. MaxRecords
<1>1. PICK n \in 1 .. MaxRecords, l \in Lens : r = RecordOf(n, l)
  BY DEF Records
<1>2. l \in Nat \ {0}
  BY CaptureAssumption
<1>3. Len(r) = l /\ \A i \in 1 .. l : r[i] = [id |-> n, pos |-> i, len |-> l]
  BY <1>1, <1>2 DEF RecordOf
<1> QED
  BY <1>2, <1>3, RecordType, CaptureAssumption

\* A record of another name behind a complete stream makes a complete stream.
LEMMA FramedAppend ==
    ASSUME NEW s \in Seq(Byte), NEW r \in Records, Framed(s), Complete(s),
           \A i \in 1 .. Len(s) : s[i].id # r[1].id
    PROVE  Framed(s \o r) /\ Complete(s \o r)
<1> DEFINE t == s \o r
<1>1. /\ r \in Seq(Byte) /\ Len(r) \in Nat \ {0} /\ r # <<>>
      /\ \A i \in 1 .. Len(r) : r[i] = [id |-> r[1].id, pos |-> i, len |-> Len(r)]
  BY RecordBytes
<1>e. r[1].pos = 1 /\ r[Len(r)].pos = r[Len(r)].len
  <2>1. ASSUME NEW i \in 1 .. Len(r)
        PROVE  r[i].pos = i /\ r[i].len = Len(r)
    <3>1. r[i] = [id |-> r[1].id, pos |-> i, len |-> Len(r)]
      BY <1>1
    <3> QED
      BY <3>1
  <2>2. 1 \in 1 .. Len(r) /\ Len(r) \in 1 .. Len(r)
    BY <1>1
  <2> QED
    BY <2>1, <2>2
<1>2. /\ t \in Seq(Byte) /\ Len(t) = Len(s) + Len(r)
      /\ \A i \in 1 .. Len(s) : t[i] = s[i]
      /\ \A i \in 1 .. Len(r) : t[Len(s) + i] = r[i]
  BY <1>1, ConcatProperties
<1>3. Len(s) \in Nat /\ (s = <<>> <=> Len(s) = 0)
  OBVIOUS
<1> HIDE DEF t
<1>4. t[1].pos = 1
  <2>1. CASE Len(s) = 0
    <3>1. t[Len(s) + 1] = r[1]
      BY <1>1, <1>2
    <3> QED
      BY <1>e, <2>1, <3>1
  <2>2. CASE Len(s) # 0
    BY <1>2, <1>3, <2>2 DEF Framed
  <2> QED
    BY <2>1, <2>2
<1>5. ASSUME NEW i \in 1 .. Len(t) - 1
      PROVE  Follows(t[i], t[i + 1])
  <2>1. CASE i < Len(s)
    <3>1. i \in 1 .. Len(s) - 1 /\ i \in 1 .. Len(s) /\ i + 1 \in 1 .. Len(s)
      BY <1>3, <2>1
    <3>2. t[i] = s[i] /\ t[i + 1] = s[i + 1]
      BY <1>2, <3>1
    <3> QED
      BY <3>1, <3>2 DEF Framed
  <2>2. CASE i = Len(s)
    <3>1. t[i] = s[Len(s)] /\ t[i + 1] = r[1] /\ s # <<>>
      BY <1>1, <1>2, <1>3, <2>2
    <3>2. s[Len(s)].pos = s[Len(s)].len /\ s[Len(s)] \in Byte /\ s[Len(s)].id # r[1].id
      BY <1>3, <2>2, <3>1 DEF Complete
    <3>3. r[1].pos = 1
      BY <1>e
    <3> QED
      BY <3>1, <3>2, <3>3 DEF Follows, Byte
  <2>3. CASE i > Len(s)
    <3> DEFINE j == i - Len(s)
    <3>1. j \in 1 .. Len(r) - 1 /\ i = Len(s) + j /\ i + 1 = Len(s) + (j + 1)
      BY <1>1, <1>2, <1>3, <2>3
    <3>2. t[i] = r[j] /\ t[i + 1] = r[j + 1]
      <4>1. j \in 1 .. Len(r) /\ j + 1 \in 1 .. Len(r)
        BY <1>1, <3>1
      <4> HIDE DEF j
      <4> QED
        BY <1>2, <3>1, <4>1
    <3>3. /\ r[j] = [id |-> r[1].id, pos |-> j, len |-> Len(r)]
          /\ r[j + 1] = [id |-> r[1].id, pos |-> j + 1, len |-> Len(r)]
      BY <1>1, <3>1
    <3> QED
      BY <1>1, <3>1, <3>2, <3>3 DEF Follows
  <2> QED
    BY <1>2, <1>3, <2>1, <2>2, <2>3
<1>6. t[Len(t)].pos = t[Len(t)].len
  <2>1. t[Len(s) + Len(r)] = r[Len(r)]
    BY <1>1, <1>2
  <2> QED
    BY <1>e, <1>2, <2>1
<1> QED
  BY <1>4, <1>5, <1>6 DEF Framed, Complete, t

\* The beginning of a framed stream is framed.
LEMMA FramedPrefix ==
    ASSUME NEW s \in Seq(Byte), NEW t \in Seq(Byte), Framed(s \o t)
    PROVE  Framed(s)
<1>1. /\ Len(s \o t) = Len(s) + Len(t) /\ Len(s) \in Nat /\ Len(t) \in Nat
      /\ \A i \in 1 .. Len(s) : (s \o t)[i] = s[i]
  BY ConcatProperties
<1>2. s # <<>> => Len(s) > 0 /\ s \o t # <<>>
  BY <1>1
<1> QED
  BY <1>1, <1>2 DEF Framed

LEMMA Regroup ==
    \A s, t, u \in Seq(Byte) : (s \o t) \o u = s \o (t \o u)
BY ConcatAssociative

\* Reading moves bytes from the buffer to the stream, a hook's record is appended, and the
\* end of a buffer takes away what was not sent.
LEMMA ReadAll ==
    ASSUME TypeOK, RingInv, ReadBody
    PROVE  All' = All
<1> USE CaptureAssumption
<1>1. CASE avail = 0
  BY <1>1, SameContents DEF ReadBody, ringVars, All
<1>2. CASE avail # 0
  <2> DEFINE n == IF SendBuf < avail THEN SendBuf ELSE avail
  <2>1. n \in 1 .. avail /\ n \in 1 .. Len(Contents) /\ Contents \in Seq(Byte)
    BY <1>2, ContentsType DEF TypeOK
  <2>2. tail' = Wrap(tail + n) /\ avail' = avail - n /\ mem' = mem
    BY <1>2, <2>1, AdvanceWraps DEF ReadBody, TypeOK
  <2>3. stream' = stream \o SubSeq(Contents, 1, n)
    BY <1>2, <2>1, OldestIsFront DEF ReadBody
  <2>4. Contents' = SubSeq(Contents, n + 1, Len(Contents))
    BY <2>1, <2>2, RestStays
  <2> HIDE DEF n
  <2>5. /\ SubSeq(Contents, 1, n) \in Seq(Byte)
        /\ SubSeq(Contents, n + 1, Len(Contents)) \in Seq(Byte)
    BY <2>1, SubSeqProperties
  <2>6. SubSeq(Contents, 1, n) \o SubSeq(Contents, n + 1, Len(Contents)) = Contents
    <3>1. /\ 1 \in 1 .. Len(Contents) + 1 /\ n \in 1 - 1 .. Len(Contents)
          /\ Len(Contents) \in n .. Len(Contents)
      BY <2>1
    <3>2. SubSeq(Contents, 1, n) \o SubSeq(Contents, n + 1, Len(Contents))
            = SubSeq(Contents, 1, Len(Contents))
      BY <2>1, <3>1, ConcatAdjacentSubSeq
    <3> QED
      BY <2>1, <3>2, SubSeqFull
  <2>7. stream \in Seq(Byte)
    BY DEF TypeOK
  <2> DEFINE front == SubSeq(Contents, 1, n)
             back  == SubSeq(Contents, n + 1, Len(Contents))
  <2>8. All' = (stream \o front) \o back
    BY <2>3, <2>4 DEF All
  <2>9. (stream \o front) \o back = stream \o (front \o back)
    BY <2>5, <2>7, Regroup
  <2> QED
    BY <2>6, <2>8, <2>9 DEF All
<1> QED
  BY <1>1, <1>2

LEMMA WriteAll ==
    ASSUME IInv, NEW w \in Writers, WriteBody(w), alloc, Fits(rec[w])
    PROVE  All' = All \o rec[w] /\ rec[w] \in Records
<1>1. rec[w] \in Records
  BY DEF IInv, PcInv, WriteBody
<1>2. Contents' = Contents \o rec[w] /\ stream' = stream
  BY <1>1, StoreAppends DEF IInv, WriteBody, sessionVars
<1>3. stream \in Seq(Byte) /\ Contents \in Seq(Byte) /\ rec[w] \in Seq(Byte)
  BY <1>1, AllType, RecordType DEF IInv
<1>4. (stream \o Contents) \o rec[w] = stream \o (Contents \o rec[w])
  BY <1>3, Regroup
<1>5. All' = stream \o (Contents \o rec[w])
  BY <1>2 DEF All
<1> QED
  BY <1>1, <1>4, <1>5 DEF All

LEMMA NoContents == ASSUME TypeOK, avail = 0 PROVE All = stream
BY EmptyContents, ConcatEmptySeq DEF All, TypeOK

LEMMA NoContentsNext ==
    ASSUME TypeOK', avail' = 0
    PROVE  All' = stream'
<1>1. Contents' = <<>>
  BY DEF Contents, Oldest
<1>2. stream' \in Seq(Byte)
  BY DEF TypeOK
<1> QED
  BY <1>1, <1>2, ConcatEmptySeq DEF All

\* The beginning of what has a name has one.
LEMMA NamedCut ==
    ASSUME TypeOK, Named, All' = stream, UNCHANGED offerVars
    PROVE  Named'
<1>1. stream \in Seq(Byte) /\ Contents \in Seq(Byte)
  BY AllType
<1>2. Len(stream) <= Len(All) /\ \A i \in 1 .. Len(stream) : All[i] = stream[i]
  BY <1>1, ConcatProperties DEF All
<1>3. \A i \in 1 .. Len(stream) : i \in 1 .. Len(All)
  BY <1>1, <1>2, AllType
<1> QED
  BY <1>2, <1>3 DEF Named, offerVars

LEMMA NamedStep ==
    ASSUME IInv, IInv', Named, [Next]_vars
    PROVE  Named'
<1> USE CaptureAssumption
<1>a. TypeOK /\ TypeOK' /\ All \in Seq(Byte)
  BY AllType DEF IInv
<1>b. ASSUME All' = All, UNCHANGED offerVars
      PROVE  Named'
  BY <1>b DEF Named, offerVars
<1>c. ASSUME All' = All, UNCHANGED records, NEW w \in Writers, rec' = [rec EXCEPT ![w] = <<>>]
      PROVE  Named'
  BY <1>a, <1>c DEF Named, TypeOK
<1>d. ASSUME UNCHANGED <<ringVars, stream>>
      PROVE  All' = All
  BY <1>d, SameContents DEF All
<1>1. ASSUME NEW w \in Writers, Capture(w)
      PROVE  Named'
  <2>1. PICK l \in Lens : rec' = [rec EXCEPT ![w] = RecordOf(records + 1, l)]
    BY <1>1 DEF Capture
  <2>2. RecordOf(records + 1, l)[1].id = records + 1
    BY DEF RecordOf
  <2>3. All' = All /\ records' = records + 1 /\ records \in Nat
    BY <1>1, <1>a, <1>d DEF Capture, sessionVars, TypeOK
  <2>4. \A i \in 1 .. Len(All) : All[i].id \in Nat
    <3>1. \A i \in 1 .. Len(All) : All[i] \in Byte
      BY <1>a
    <3> QED
      BY <3>1 DEF Byte
  <2>5. \A v \in Writers : rec[v] # <<>> => rec[v][1].id \in Nat
    BY <1>a, RecordBytes DEF TypeOK
  <2>6. \A v \in Writers : rec'[v] = IF v = w THEN RecordOf(records + 1, l) ELSE rec[v]
    BY <1>a, <2>1 DEF TypeOK
  <2>7. \A v \in Writers : rec'[v] # <<>> => rec'[v][1].id <= records'
    BY <2>2, <2>3, <2>5, <2>6 DEF Named
  <2>8. \A u, v \in Writers :
           u # v /\ rec'[u] # <<>> /\ rec'[v] # <<>> => rec'[u][1].id # rec'[v][1].id
    BY <2>2, <2>3, <2>5, <2>6 DEF Named
  <2>9. ASSUME NEW i \in 1 .. Len(All)
        PROVE  /\ All[i].id <= records'
               /\ \A v \in Writers : rec'[v] # <<>> => All[i].id # rec'[v][1].id
    BY <2>2, <2>3, <2>4, <2>6 DEF Named
  <2> QED
    BY <2>3, <2>7, <2>8, <2>9 DEF Named
<1>2. ASSUME NEW w \in Writers, WriteCheck(w) \/ WriteTry(w)
      PROVE  Named'
  BY <1>2, <1>b, <1>c, <1>d DEF WriteCheck, WriteTry, Drop, sessionVars, offerVars
<1>3. ASSUME NEW w \in Writers, WriteBody(w)
      PROVE  Named'
  <2>1. rec' = [rec EXCEPT ![w] = <<>>] /\ UNCHANGED records
    BY <1>3 DEF WriteBody
  <2>2. CASE alloc /\ Fits(rec[w])
    <3>1. All' = All \o rec[w] /\ rec[w] \in Records
      BY <1>3, <2>2, WriteAll
    <3>2. /\ rec[w] \in Seq(Byte) /\ rec[w] # <<>>
          /\ \A i \in 1 .. Len(rec[w]) : rec[w][i].id = rec[w][1].id
      <4>1. ASSUME NEW i \in 1 .. Len(rec[w])
            PROVE  rec[w][i].id = rec[w][1].id
        <5>1. rec[w][i] = [id |-> rec[w][1].id, pos |-> i, len |-> Len(rec[w])]
          BY <3>1, RecordBytes
        <5> QED
          BY <5>1
      <4> QED
        BY <3>1, <4>1, RecordType
    <3>3. /\ Len(All') = Len(All) + Len(rec[w])
          /\ \A i \in 1 .. Len(All') :
                All'[i] = IF i <= Len(All) THEN All[i] ELSE rec[w][i - Len(All)]
      BY <1>a, <3>1, <3>2, ConcatProperties
    <3>4. ASSUME NEW i \in 1 .. Len(All')
          PROVE  \/ i \in 1 .. Len(All) /\ All'[i] = All[i]
                 \/ All'[i].id = rec[w][1].id
      <4>1. CASE i <= Len(All)
        BY <1>a, <3>3, <4>1
      <4>2. CASE i > Len(All)
        <5>1. i - Len(All) \in 1 .. Len(rec[w]) /\ All'[i] = rec[w][i - Len(All)]
          BY <1>a, <3>2, <3>3, <4>2
        <5> QED
          BY <3>2, <5>1
      <4> QED
        BY <1>a, <3>3, <4>1, <4>2
    <3>5. \A v \in Writers : rec'[v] # <<>> => v # w /\ rec'[v] = rec[v]
      BY <1>a, <2>1 DEF TypeOK
    <3> QED
      BY <2>1, <3>2, <3>4, <3>5 DEF Named
  <2>3. CASE ~(alloc /\ Fits(rec[w]))
    BY <1>3, <1>c, <1>d, <2>1, <2>3 DEF WriteBody, sessionVars
  <2> QED
    BY <2>2, <2>3
<1>4. CASE ReadBody
  BY <1>4, <1>b, ReadAll DEF IInv, ReadBody
<1>5. CASE Accept
  <2>1. All' = <<>>
    <3>1. avail' = 0 /\ stream' = <<>>
      BY <1>5 DEF Accept, IInv, PcInv, RingInv, ringVars
    <3> QED
      BY <1>a, <3>1, NoContentsNext
  <2> QED
    BY <1>5, <2>1 DEF Accept, Named, offerVars
<1>6. CASE AllocBody \/ FreeBody \/ ResetBody
  <2>1. UNCHANGED offerVars /\ UNCHANGED stream
    BY <1>6 DEF AllocBody, FreeBody, ResetBody, sessionVars
  <2>2. CASE UNCHANGED ringVars
    BY <1>b, <1>d, <2>1, <2>2
  <2>3. CASE Emptied
    BY <1>a, <2>1, <2>3, NoContentsNext, NamedCut DEF Emptied
  <2> QED
    BY <1>6, <2>2, <2>3 DEF AllocBody, FreeBody, ResetBody
<1>7. ASSUME NEW w \in Writers, WriteSignal(w)
      PROVE  Named'
  BY <1>7, <1>b, <1>d DEF WriteSignal, sessionVars
<1>8. CASE AllocDrain \/ SendHeader \/ ReadWait \/ StillThere \/ ClientGone \/ Disconnect
  BY <1>8, <1>b, <1>d
  DEF AllocDrain, SendHeader, ReadWait, StillThere, ClientGone, Disconnect, sessionVars
<1>9. CASE (\E t \in {Srv, Cfg} : Lock(t)) \/ (\E m \in Selectable : SetMode(m)) \/ UNCHANGED vars
  BY <1>9, <1>b, <1>d DEF Lock, SetMode, vars, sessionVars
<1> QED
  BY <1>1, <1>2, <1>3, <1>4, <1>5, <1>6, <1>7, <1>8, <1>9 DEF Next, Writer, Serve, Configure

\* Only whole records are appended, and only to a buffer that has lost nothing since the
\* client connected.
LEMMA FrameStep ==
    ASSUME IInv, IInv', Named, FrameInv, [Next]_vars
    PROVE  FrameInv'
<1> USE CaptureAssumption
<1>a. TypeOK /\ TypeOK' /\ All \in Seq(Byte)
  BY AllType DEF IInv
<1>b. ASSUME All' = All, UNCHANGED <<alloc, stream, resets>>,
             pc'[Srv] \in {"alloc", "allocbody"} => pc[Srv] \in {"alloc", "allocbody"}
      PROVE  FrameInv'
  BY <1>b DEF FrameInv
<1>d. ASSUME UNCHANGED <<ringVars, stream>>
      PROVE  All' = All
  BY <1>d, SameContents DEF All
<1>1. ASSUME NEW w \in Writers, Capture(w) \/ WriteCheck(w) \/ WriteTry(w) \/ WriteSignal(w)
      PROVE  FrameInv'
  <2>1. UNCHANGED <<ringVars, sessionVars>> /\ pc'[Srv] = pc[Srv]
    BY <1>1, <1>a DEF Capture, WriteCheck, WriteTry, WriteSignal, Drop, Goto, TypeOK, Threads
  <2> QED
    BY <1>b, <1>d, <2>1 DEF ringVars, sessionVars
<1>3. ASSUME NEW w \in Writers, WriteBody(w)
      PROVE  FrameInv'
  <2>1. UNCHANGED <<alloc, stream, resets>> /\ pc'[Srv] = pc[Srv]
    BY <1>3, <1>a DEF WriteBody, Store, Unlock, Goto, TypeOK, Threads, ringVars, sessionVars
  <2>2. CASE alloc /\ Fits(rec[w])
    <3>1. All' = All \o rec[w] /\ rec[w] \in Records
      BY <1>3, <2>2, WriteAll
    <3>2. \A i \in 1 .. Len(All) : All[i].id # rec[w][1].id
      BY <3>1, RecordBytes DEF Named
    <3>3. resets = 0 => Framed(All') /\ Complete(All')
      BY <1>a, <2>2, <3>1, <3>2, FramedAppend DEF FrameInv
    <3> QED
      BY <2>1, <3>3 DEF FrameInv
  <2>3. CASE ~(alloc /\ Fits(rec[w]))
    BY <1>3, <1>b, <1>d, <2>1, <2>3 DEF WriteBody
  <2> QED
    BY <2>2, <2>3
<1>4. CASE ReadBody
  <2>1. All' = All /\ UNCHANGED <<alloc, resets>>
    BY <1>4, ReadAll DEF IInv, ReadBody
  <2>2. pc'[Srv] \in {"probe", "send"}
    BY <1>4, <1>a DEF ReadBody, Unlock, Goto, TypeOK, Threads
  <2> QED
    BY <2>1, <2>2 DEF FrameInv
<1>5. CASE Accept
  <2>1. avail' = 0 /\ stream' = <<>>
    BY <1>5 DEF Accept, IInv, PcInv, RingInv, ringVars
  <2>2. All' = <<>>
    BY <1>a, <2>1, NoContentsNext
  <2> QED
    BY <2>1, <2>2 DEF FrameInv, Framed, Complete
<1>6. CASE AllocBody
  <2>1. stream = <<>> /\ UNCHANGED <<stream, resets>>
    BY <1>6 DEF AllocBody, FrameInv, sessionVars
  <2>2. avail' = 0
    BY <1>6 DEF AllocBody, Emptied, IInv, PcInv, RingInv, ringVars
  <2>3. All' = <<>>
    BY <1>a, <2>1, <2>2, NoContentsNext
  <2> QED
    BY <2>1, <2>3 DEF FrameInv, Framed, Complete
<1>7. CASE FreeBody
  <2>1. avail' = 0 /\ ~alloc' /\ UNCHANGED <<stream, resets>> /\ pc'[Srv] = "accept"
    BY <1>7, <1>a DEF FreeBody, Emptied, Unlock, Goto, sessionVars, TypeOK, Threads
  <2>2. All' = stream
    BY <1>a, <2>1, NoContentsNext
  <2>3. Framed(All) => Framed(stream)
    BY <1>a, AllType, FramedPrefix DEF All
  <2> QED
    BY <2>1, <2>2, <2>3 DEF FrameInv
<1>8. CASE ResetBody
  <2>1. resets' # 0 /\ UNCHANGED stream /\ pc'[Srv] = pc[Srv]
    BY <1>8, <1>a DEF ResetBody, Unlock, Goto, TypeOK, Threads
  <2> QED
    BY <2>1 DEF FrameInv
<1>9. CASE AllocDrain \/ SendHeader \/ ReadWait \/ StillThere \/ ClientGone \/ Disconnect
  <2>1. UNCHANGED <<ringVars, stream, resets>>
    BY <1>9 DEF AllocDrain, SendHeader, ReadWait, StillThere, ClientGone, Disconnect, sessionVars
  <2>2. pc'[Srv] \notin {"alloc", "allocbody"}
    BY <1>9, <1>a
    DEF AllocDrain, SendHeader, ReadWait, StillThere, ClientGone, Disconnect, Goto, TypeOK, Threads
  <2> QED
    BY <1>b, <1>d, <2>1, <2>2 DEF ringVars
<1>10. ASSUME NEW t \in {Srv, Cfg}, Lock(t)
       PROVE  FrameInv'
  <2>1. UNCHANGED <<ringVars, stream, resets>>
    BY <1>10 DEF Lock, sessionVars
  <2>2. pc'[Srv] \in {"alloc", "allocbody"} => pc[Srv] \in {"alloc", "allocbody"}
    BY <1>10, <1>a DEF Lock, Locked, Goto, TypeOK, Threads
  <2> QED
    BY <1>b, <1>d, <2>1, <2>2 DEF ringVars
<1>11. ASSUME NEW m \in Selectable, SetMode(m)
       PROVE  FrameInv'
  <2>1. UNCHANGED <<ringVars, stream, resets>>
    BY <1>11 DEF SetMode, sessionVars
  <2>2. pc'[Srv] \in {"alloc", "allocbody"} => pc[Srv] \in {"alloc", "allocbody"}
    BY <1>11, <1>a DEF SetMode, TypeOK, Threads
  <2> QED
    BY <1>b, <1>d, <2>1, <2>2 DEF ringVars
<1>12. CASE UNCHANGED vars
  BY <1>12, <1>b, <1>d DEF vars, ringVars, sessionVars
<1> QED
  BY <1>1, <1>3, <1>4, <1>5, <1>6, <1>7, <1>8, <1>9, <1>10, <1>11, <1>12
  DEF Next, Writer, Serve, Configure

\* As long as pcap_set_mode() does not reset the buffer under a connected client, it is sent
\* whole records, one after the other, however many hooks write and lose their packets.
THEOREM StreamFramed == Spec => []FramedUnlessReset
<1>1. Init => IInv /\ Named /\ FrameInv
  <2> SUFFICES ASSUME Init PROVE Named /\ FrameInv /\ IInv
    OBVIOUS
  <2>1. IInv
    BY InitInv
  <2>2. All = <<>>
    <3>1. stream = <<>> /\ avail = 0
      BY DEF Init
    <3> QED
      BY <2>1, <3>1, NoContents DEF IInv
  <2>3. Named
    BY <2>2 DEF Named, Init
  <2>4. FrameInv
    BY <2>2 DEF FrameInv, Init, Framed, Complete
  <2> QED
    BY <2>1, <2>3, <2>4
<1>2. IInv /\ Named /\ FrameInv /\ [Next]_vars => IInv' /\ Named' /\ FrameInv'
  <2> SUFFICES ASSUME IInv, Named, FrameInv, [Next]_vars PROVE IInv' /\ Named' /\ FrameInv'
    OBVIOUS
  <2>1. IInv'
    BY TypeStep, RingStep, PcStep DEF IInv
  <2> QED
    BY <2>1, NamedStep, FrameStep
<1>3. IInv /\ FrameInv => FramedUnlessReset
  <2> SUFFICES ASSUME IInv, FrameInv, resets = 0 PROVE WellFramed
    BY DEF FramedUnlessReset
  <2>1. stream \in Seq(Byte) /\ Contents \in Seq(Byte) /\ Framed(stream \o Contents)
    BY AllType DEF IInv, FrameInv, All
  <2>2. Framed(stream)
    BY <2>1, FramedPrefix
  <2> QED
    BY <2>2 DEF Framed, WellFramed
<1> QED
  BY <1>1, <1>2, <1>3, PTL DEF Spec

-----------------------------------------------------------------------------
(* The server's signal.                                                    *)

\* From its first bytes on, a client who waits has a signal for what is left, or a hook is
\* about to give it.
SignalInv ==
    /\ pc[Srv] \in {"alloc", "allocbody", "drain", "header"} => ~woken
    /\ (woken /\ pc[Srv] \in {"wait", "send", "probe"} /\ avail > 0) =>
           sem \/ \E w \in Writers : pc[w] = "signal"

LEMMA SignalStep ==
    ASSUME TypeOK, SignalInv, [Next]_vars
    PROVE  SignalInv'
<1> USE CaptureAssumption
<1>1. ASSUME NEW w \in Writers, Capture(w) \/ WriteCheck(w) \/ WriteTry(w)
      PROVE  SignalInv'
  <2>1. UNCHANGED <<sem, woken, avail>> /\ pc[w] # "signal"
    BY <1>1 DEF Capture, WriteCheck, WriteTry, ringVars, sessionVars
  <2>2. \E l : Goto(w, l)
    BY <1>1 DEF Capture, WriteCheck, WriteTry, Drop
  <2>3. \A t \in Threads : t # w => pc'[t] = pc[t]
    BY <2>2 DEF Goto, TypeOK
  <2> QED
    BY <2>1, <2>3 DEF SignalInv, Threads
<1>2. ASSUME NEW w \in Writers, WriteBody(w)
      PROVE  SignalInv'
  <2>1. UNCHANGED <<sem, woken>> /\ pc[w] = "body"
    BY <1>2 DEF WriteBody, sessionVars
  <2>2. \/ pc' = [pc EXCEPT ![w] = "signal"]
        \/ pc' = [pc EXCEPT ![w] = "idle"] /\ UNCHANGED avail
    <3>1. CASE alloc /\ Fits(rec[w])
      BY <1>2, <3>1 DEF WriteBody, Unlock, Goto
    <3>2. CASE ~(alloc /\ Fits(rec[w]))
      BY <1>2, <3>2 DEF WriteBody, Unlock, Goto, ringVars
    <3> QED
      BY <3>1, <3>2
  <2> QED
    BY <2>1, <2>2 DEF SignalInv, Threads, TypeOK
<1>3. ASSUME NEW w \in Writers, WriteSignal(w)
      PROVE  SignalInv'
  <2>1. sem' = TRUE /\ UNCHANGED woken /\ pc'[Srv] = pc[Srv]
    BY <1>3 DEF WriteSignal, Goto, sessionVars, TypeOK, Threads
  <2> QED
    BY <2>1 DEF SignalInv
<1>4. CASE Accept
  BY <1>4 DEF Accept, SignalInv
<1>5. CASE AllocBody \/ AllocDrain \/ SendHeader
  <2>1. UNCHANGED woken /\ ~woken
    BY <1>5 DEF AllocBody, AllocDrain, SendHeader, SignalInv, sessionVars
  <2> QED
    BY <2>1 DEF SignalInv
<1>6. CASE ReadWait
  <2>1. UNCHANGED <<woken, avail>> /\ pc[Srv] = "wait"
    BY <1>6 DEF ReadWait, ringVars, sessionVars
  <2>2. pc' = [pc EXCEPT ![Srv] = IF sem THEN "read" ELSE "probe"]
    BY <1>6 DEF ReadWait, Goto
  <2>3. pc'[Srv] = IF sem THEN "read" ELSE "probe"
    BY <2>2 DEF TypeOK, Threads
  <2>4. \A w \in Writers : pc'[w] = pc[w]
    BY <2>2 DEF TypeOK, Threads
  <2> QED
    BY <2>1, <2>3, <2>4 DEF SignalInv
<1>7. CASE ReadBody
  <2>1. pc'[Srv] \in {"probe", "send"}
    BY <1>7 DEF ReadBody, Unlock, Goto, TypeOK, Threads
  <2>2. avail' > 0 => sem'
    <3> DEFINE n == IF SendBuf < avail THEN SendBuf ELSE avail
    <3>1. CASE avail = 0
      BY <1>7, <3>1 DEF ReadBody
    <3>2. CASE avail # 0
      <4>1. avail' = avail - n /\ sem' = Resignal(n) /\ n \in Nat /\ avail \in Nat
        BY <1>7, <3>2 DEF ReadBody, TypeOK
      <4>2. avail - n > 0 => avail > n
        BY <4>1
      <4> HIDE DEF n
      <4> QED
        BY <4>1, <4>2 DEF Resignal
    <3> QED
      BY <3>1, <3>2
  <2> QED
    BY <2>1, <2>2 DEF SignalInv
<1>8. CASE StillThere \/ ClientGone \/ Disconnect
  <2>1. UNCHANGED <<sem, woken, avail>>
    BY <1>8 DEF StillThere, ClientGone, Disconnect, ringVars, sessionVars
  <2>2. /\ \A w \in Writers : pc'[w] = pc[w]
        /\ pc'[Srv] \in {"wait", "close", "free"}
        /\ pc'[Srv] = "wait" => pc[Srv] \in {"send", "probe"}
    BY <1>8 DEF StillThere, ClientGone, Disconnect, Goto, TypeOK, Threads
  <2> QED
    BY <2>1, <2>2 DEF SignalInv
<1>9. CASE FreeBody
  <2>1. pc'[Srv] = "accept"
    BY <1>9 DEF FreeBody, Unlock, Goto, TypeOK, Threads
  <2> QED
    BY <2>1 DEF SignalInv
<1>10. CASE ResetBody
  <2>1. avail' = 0 /\ UNCHANGED woken /\ pc'[Srv] = pc[Srv]
    BY <1>10 DEF ResetBody, Emptied, Unlock, Goto, TypeOK, Threads
  <2> QED
    BY <2>1 DEF SignalInv
<1>11. ASSUME NEW t \in {Srv, Cfg}, Lock(t)
       PROVE  SignalInv'
  <2>1. UNCHANGED <<sem, woken, avail>>
    BY <1>11 DEF Lock, ringVars, sessionVars
  <2>2. \A w \in Writers : pc'[w] = pc[w]
    BY <1>11 DEF Lock, Goto, TypeOK, Threads
  <2>3. \/ pc'[Srv] = pc[Srv]
        \/ pc[Srv] = "alloc" /\ pc'[Srv] = "allocbody"
        \/ pc'[Srv] \in {"readbody", "freebody", "resetbody"}
    BY <1>11 DEF Lock, Locked, Goto, TypeOK, Threads
  <2> QED
    BY <2>1, <2>2, <2>3 DEF SignalInv
<1>12. ASSUME NEW m \in Selectable, SetMode(m)
       PROVE  SignalInv'
  <2>1. UNCHANGED <<sem, woken, avail>>
    BY <1>12 DEF SetMode, ringVars, sessionVars
  <2>2. \A w \in Writers : pc'[w] = pc[w]
    BY <1>12 DEF SetMode, TypeOK, Threads
  <2>3. pc'[Srv] = pc[Srv] \/ pc'[Srv] = "accept"
    BY <1>12 DEF SetMode, TypeOK, Threads
  <2> QED
    BY <2>1, <2>2, <2>3 DEF SignalInv
<1>13. CASE UNCHANGED vars
  BY <1>13 DEF vars, ringVars, sessionVars, SignalInv
<1> QED
  BY <1>1, <1>2, <1>3, <1>4, <1>5, <1>6, <1>7, <1>8, <1>9, <1>10, <1>11, <1>12, <1>13
  DEF Next, Writer, Serve, Configure

\* The server task never sleeps on data_ready_sem over what a client who has been sent
\* something waits for.
THEOREM SignalKept == Spec => []SignalNotLost
<1>1. Init => SignalInv
  BY DEF Init, SignalInv
<1>2. SignalInv => SignalNotLost
  BY DEF SignalInv, SignalNotLost
<1> QED
  BY <1>1, <1>2, TypeCorrect, SignalStep, PTL DEF Spec

=============================================================================
