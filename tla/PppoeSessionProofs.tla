------------------------- MODULE PppoeSessionProofs -------------------------
(***************************************************************************)
(* What PppoeSession guarantees for any number of control blocks and       *)
(* reconnect tasks and any number of flaps, losses and rejected logins:    *)
(* type correctness, and the two promises the rest of the router relies on *)
(* (NoUplinkWhileDown, ClampedWhileUp),                                    *)
(* and that no session outlives its VLAN hook unless handlers overlap.     *)
(*                                                                         *)
(* TypeOK is inductive.  NoUplinkWhileDown is not: LastEventDown says why  *)
(* it holds, namely that a dead cable has its "disconnected" event last in *)
(* the queue, or in the event task's hands, until ap_connect is cleared,   *)
(* and that a callback which then still has the event bit to set is one    *)
(* that was overtaken.                                                     *)
(*                                                                         *)
(* Until the link goes down for the first time (flaps <= 1; later          *)
(* pppoe_stop() interferes, and TLC finds the violations), sessions come   *)
(* and go, logins are refused and the reconnect tasks dial again, and the  *)
(* statics remain true: SteadyInv says, for each place of pppoe_start()    *)
(* and pppoe_reconnect_task(), that nobody else is at work on the session, *)
(* except for the start whose session was lost before it returned.         *)
(***************************************************************************)
EXTENDS PppoeSession, TLAPS

LastEventDown ==
    ~carrier =>
        \/ evq # <<>> /\ evq[Len(evq)] = "disconnected"
        \/ evq = <<>> /\ (pc[Evt] \in StopPcs \/ (~apConnect /\ (upBit \/ cb = "up" => overtaken)))

\* A task that is about to close or free a control block holds one.
HoldsPcb ==
    /\ pc[Evt] = "stopclose" => loc[Evt] \in Pcbs
    /\ \A t \in Reconn : pc[t] \in {"reclose", "refree"} => loc[t] \in Pcbs

TypeInv == TypeOK /\ HoldsPcb

\* The strengthening of NoUplinkWhileDown and ClampedWhileUp that every step preserves.
IInv == TypeInv /\ LastEventDown /\ ClampedWhileUp

-----------------------------------------------------------------------------
(* Facts about queues of events.                                           *)

\* The last event stays last when an earlier one is dispatched, and an event
\* that has just been posted is the last one.
LEMMA LastOfQueue ==
    ASSUME NEW q \in Seq(Events), NEW e \in Events
    PROVE  /\ Append(q, e) \in Seq(Events)
           /\ Append(q, e) # <<>>
           /\ Append(q, e)[Len(Append(q, e))] = e
           /\ q # <<>> => /\ Head(q) \in Events
                          /\ Tail(q) \in Seq(Events)
                          /\ Tail(q) # <<>> => Tail(q)[Len(Tail(q))] = q[Len(q)]
                          /\ Tail(q) = <<>> => q[Len(q)] = Head(q)
<1>1. /\ Append(q, e) \in Seq(Events)
      /\ Len(Append(q, e)) = Len(q) + 1
      /\ Len(q) \in Nat
      /\ Append(q, e)[Len(q) + 1] = e
  OBVIOUS
<1>2. Append(q, e) # <<>> /\ Append(q, e)[Len(Append(q, e))] = e
  BY <1>1
<1>3. ASSUME q # <<>>
      PROVE  /\ Head(q) \in Events
             /\ Tail(q) \in Seq(Events)
             /\ Tail(q) # <<>> => Tail(q)[Len(Tail(q))] = q[Len(q)]
             /\ Tail(q) = <<>> => q[Len(q)] = Head(q)
  <2>1. Len(q) \in Nat /\ Len(q) >= 1 /\ Head(q) = q[1] /\ Head(q) \in Events
    BY <1>3
  <2>2. Tail(q) \in Seq(Events) /\ Len(Tail(q)) = Len(q) - 1
    BY <1>3
  <2>3. \A i \in 1..Len(Tail(q)) : Tail(q)[i] = q[i + 1]
    BY <1>3
  <2>4. Tail(q) # <<>> => Len(Tail(q)) >= 1
    BY <2>2
  <2>5. Tail(q) = <<>> => Len(q) = 1
    <3>1. Len(<<>>) = 0
      OBVIOUS
    <3>2. Tail(q) = <<>> => Len(Tail(q)) = 0
      BY <3>1, Zenon
    <3>3. QED BY <2>1, <2>2, <3>2
  <2>6. Tail(q) # <<>> => Tail(q)[Len(Tail(q))] = q[Len(q)]
    BY <2>1, <2>2, <2>3, <2>4
  <2>7. QED BY <2>1, <2>2, <2>5, <2>6
<1>4. QED BY <1>1, <1>2, <1>3

\* Releasing a control block keeps every phase a phase.
LEMMA FreedType ==
    ASSUME NEW ph \in [Pcbs -> Phases], NEW p \in Pcbs
    PROVE  Freed(ph, p) \in [Pcbs -> Phases]
  BY DEF Freed, Phases

\* A close reports to UserCallback, which may free a second block.
LEMMA UserCallbackType ==
    ASSUME TypeOK, NEW ph \in [Pcbs -> Phases], UserCallback(ph)
    PROVE  /\ phase' \in [Pcbs -> Phases]
           /\ handle' \in Pcbs \cup {NoPcb}
           /\ active' \in BOOLEAN /\ defRoute' \in BOOLEAN /\ crash' \in Crashes
  BY FreedType DEF UserCallback, TypeOK

LEMMA PppCloseType ==
    ASSUME TypeOK, NEW p \in Pcbs, PppClose(p)
    PROVE  /\ phase' \in [Pcbs -> Phases]
           /\ handle' \in Pcbs \cup {NoPcb}
           /\ active' \in BOOLEAN /\ defRoute' \in BOOLEAN /\ crash' \in Crashes
  <1>1. [phase EXCEPT ![p] = "dead"] \in [Pcbs -> Phases]
    BY DEF TypeOK, Phases
  <1>2. CASE UserCallback([phase EXCEPT ![p] = "dead"])
    BY <1>1, <1>2, UserCallbackType
  <1>3. CASE Panic("freed_pcb")
    BY <1>3 DEF Panic, TypeOK, Crashes
  <1>4. CASE phase' = [phase EXCEPT ![p] = "terminate"] /\ UNCHANGED <<handle, active, defRoute, crash>>
    BY <1>4 DEF TypeOK, Phases
  <1> QED BY <1>2, <1>3, <1>4 DEF PppClose

LEMMA PppFreeType ==
    ASSUME TypeOK, NEW p \in Pcbs, PppFree(p)
    PROVE  /\ phase' \in [Pcbs -> Phases]
           /\ handle' \in Pcbs \cup {NoPcb}
           /\ active' \in BOOLEAN /\ defRoute' \in BOOLEAN /\ crash' \in Crashes
  BY FreedType DEF PppFree, Panic, TypeOK, Crashes

\* A task moves to one of its own places.
LEMMA GotoType ==
    ASSUME TypeOK, NEW t \in Threads, NEW l, Goto(t, l),
           t = Evt => l \in EvtPcs,
           t # Evt => l \in TaskPcs
    PROVE  /\ pc' \in [Threads -> EvtPcs \cup TaskPcs]
           /\ pc'[Evt] \in EvtPcs
           /\ \A r \in Reconn : pc'[r] \in TaskPcs
           /\ ahead' \in [Reconn -> SUBSET Threads]
           /\ pc'[t] = l
           /\ \A u \in Threads : u # t => pc'[u] = pc[u]
           /\ crossed' \in BOOLEAN
  BY SessionAssumption DEF TypeOK, Goto, Threads

-----------------------------------------------------------------------------
(* Type correctness.                                                       *)

LEMMA InitType == Init => TypeInv
  <1> SUFFICES ASSUME Init PROVE TypeInv
    OBVIOUS
  <1>1. phase \in [Pcbs -> Phases] /\ evq \in Seq(Events) /\ crash \in Crashes
    BY DEF Init, Phases, Crashes
  <1>2. ahead \in [Reconn -> SUBSET Threads] /\ loc \in [Threads -> Pcbs \cup {NoPcb}]
    BY DEF Init
  <1>3. /\ pc \in [Threads -> EvtPcs \cup TaskPcs]
        /\ pc[Evt] = "idle"
        /\ \A t \in Reconn : pc[t] = "none"
    BY SessionAssumption DEF Init, Threads, EvtPcs, TaskPcs
  <1> QED BY <1>1, <1>2, <1>3 DEF Init, TypeInv, TypeOK, Callbacks, HoldsPcb, EvtPcs, TaskPcs

LEMMA CarrierType ==
    ASSUME TypeOK, CarrierChange
    PROVE  TypeOK'
  <1>1. evq' \in Seq(Events)
    BY LastOfQueue DEF CarrierChange, TypeOK, Events
  <1> QED BY <1>1 DEF CarrierChange, TypeOK, cbVars, budgetVars, mgrVars, statusVars, taskVars

\* The steps of the peer and of the tcpip thread.
LEMMA PeerType ==
    ASSUME TypeOK, NEW p \in Pcbs, Progress(p) \/ Failure(p)
    PROVE  TypeOK'
  <1> USE SessionAssumption
  <1>1. CASE Discovered(p)
    BY <1>1 DEF Discovered, TypeOK, cbVars, Phases, envVars, budgetVars, mgrVars, statusVars, taskVars
  <1>2. CASE Established(p)
    BY <1>2 DEF Established, Callbacks, TypeOK, cbVars, Phases, envVars, budgetVars, mgrVars, taskVars
  <1>3. CASE Terminated(p)
    <2>1. [phase EXCEPT ![p] = "dead"] \in [Pcbs -> Phases]
      BY DEF TypeOK, Phases
    <2>2. UserCallback([phase EXCEPT ![p] = "dead"])
      BY <1>3 DEF Terminated
    <2> QED BY <1>3, <2>1, <2>2, UserCallbackType
         DEF Terminated, TypeOK, cbVars, envVars, budgetVars, statusVars, taskVars
  <1>4. CASE SessionLost(p)
    <2>3. losses' \in Nat /\ phase' \in [Pcbs -> Phases] /\ cb' \in Callbacks
      BY <1>4 DEF SessionLost, DisconnectCallback, TypeOK, Phases, Callbacks
    <2> QED BY <1>4, <2>3
         DEF SessionLost, DisconnectCallback, TypeOK, envVars, mgrVars, taskVars
  <1>5. CASE AuthFail(p)
    <2>1. authFails' \in Nat /\ phase' \in [Pcbs -> Phases]
      BY <1>5 DEF AuthFail, TypeOK, Phases
    <2> QED BY <1>5, <2>1 DEF AuthFail, TypeOK, cbVars, envVars, mgrVars, taskVars
  <1> QED BY <1>1, <1>2, <1>3, <1>4, <1>5 DEF Progress, Failure

\* The second halves of the status callbacks.
LEMMA CallbackType ==
    ASSUME TypeOK, Callback
    PROVE  TypeOK'
  <1>1. CASE PublishUp
    BY <1>1 DEF PublishUp, TypeOK, Callbacks, envVars, budgetVars, mgrVars, taskVars
  <1>2. CASE PublishDown
    <2>1. pc' \in [Threads -> EvtPcs \cup TaskPcs] /\ pc'[Evt] \in EvtPcs
          /\ \A t \in Reconn : pc'[t] \in TaskPcs
      BY <1>2, SessionAssumption DEF PublishDown, TypeOK, Threads, TaskPcs, ReconnPcs
    <2>2. ahead' \in [Reconn -> SUBSET Threads]
      BY <1>2 DEF PublishDown, TypeOK
    <2> QED BY <1>2, <2>1, <2>2 DEF PublishDown, TypeOK, Callbacks, envVars, budgetVars, mgrVars
  <1> QED BY <1>1, <1>2 DEF Callback

\* The steps of pppoe_start(), whoever runs it.
LEMMA StartType ==
    ASSUME TypeOK, NEW t \in Threads, Start(t)
    PROVE  TypeOK'
  <1> USE SessionAssumption
  <1> DEFINE Placed(l) ==
        /\ pc' \in [Threads -> EvtPcs \cup TaskPcs]
        /\ pc'[Evt] \in EvtPcs
        /\ \A r \in Reconn : pc'[r] \in TaskPcs
        /\ ahead' \in [Reconn -> SUBSET Threads]
        /\ crossed' \in BOOLEAN
  <1>1. ASSUME NEW l \in StartPcs, Goto(t, l) PROVE Placed(l)
    BY <1>1, GotoType DEF EvtPcs, TaskPcs
  <1>2. ASSUME Return(t) PROVE Placed("idle")
    BY <1>2, GotoType DEF Return, EvtPcs, TaskPcs
  <1>3. ASSUME UNCHANGED taskVars PROVE Placed("idle")
    BY <1>3 DEF taskVars, TypeOK
  <1>4. CASE StartCheck(t)
    <2>1. Placed("idle")
      BY <1>1, <1>2, <1>4 DEF StartCheck, StartPcs
    <2>2. cached' \in BOOLEAN /\ hook' \in BOOLEAN
      BY <1>4 DEF StartCheck, TypeOK
    <2>3. UNCHANGED <<envVars, budgetVars, phase, handle, active, statusVars, defRoute, loc, cbVars, crash>>
      BY <1>4 DEF StartCheck
    <2> QED BY <2>1, <2>2, <2>3 DEF TypeOK, cbVars, envVars, budgetVars, statusVars
  <1>5. CASE StartCreate(t)
    BY <1>1, <1>2, <1>3, <1>5
    DEF StartCreate, StartPcs, Panic, Phases, Crashes, TypeOK, cbVars, envVars, budgetVars, statusVars
  <1>6. CASE StartAuth(t)
    BY <1>1, <1>3, <1>6
    DEF StartAuth, StartPcs, Panic, Crashes, TypeOK, cbVars, envVars, budgetVars, statusVars
  <1>7. CASE StartConnect(t)
    BY <1>1, <1>3, <1>7
    DEF StartConnect, StartPcs, Panic, Phases, Crashes, TypeOK, cbVars, envVars, budgetVars, statusVars
  <1>8. CASE StartFail(t)
    <2>1. CASE handle = NoPcb
      BY <1>3, <1>8, <2>1
      DEF StartFail, Panic, Crashes, TypeOK, cbVars, envVars, budgetVars, statusVars
    <2>2. CASE handle # NoPcb
      <3>1. phase' \in [Pcbs -> Phases]
        BY <1>8, <2>2, FreedType DEF StartFail, TypeOK
      <3>2. defRoute' \in BOOLEAN
        BY <1>8, <2>2 DEF StartFail
      <3> QED BY <1>2, <1>8, <2>2, <3>1, <3>2
           DEF StartFail, TypeOK, cbVars, envVars, budgetVars, statusVars
    <2> QED BY <2>1, <2>2
  <1>9. CASE StartCommit(t)
    BY <1>2, <1>9 DEF StartCommit, TypeOK, cbVars, envVars, budgetVars, statusVars
  <1> QED BY <1>4, <1>5, <1>6, <1>7, <1>8, <1>9 DEF Start

\* The link events and pppoe_stop().
LEMMA EventTaskType ==
    ASSUME TypeInv, EventTask
    PROVE  TypeOK'
  <1> USE SessionAssumption
  <1>a. TypeOK /\ Evt \in Threads
    BY DEF TypeInv, Threads
  <1>1. CASE Start(Evt)
    BY <1>1, <1>a, StartType
  <1>2. CASE LinkUp
    <2>1. evq' \in Seq(Events)
      BY <1>2, <1>a, LastOfQueue DEF LinkUp, TypeOK, Events
    <2> QED BY <1>2, <1>a, <2>1, GotoType
         DEF LinkUp, EvtPcs, StartPcs, TypeOK, cbVars, budgetVars, mgrVars, statusVars
  <1>3. CASE LinkDown
    <2>1. evq' \in Seq(Events)
      BY <1>3, <1>a, LastOfQueue DEF LinkDown, TypeOK, Events
    <2> QED BY <1>3, <1>a, <2>1, GotoType
         DEF LinkDown, EvtPcs, StopPcs, TypeOK, cbVars, budgetVars, mgrVars
  <1>4. CASE StopCheck
    <2>1. /\ pc' \in [Threads -> EvtPcs \cup TaskPcs]
          /\ pc'[Evt] \in EvtPcs
          /\ \A r \in Reconn : pc'[r] \in TaskPcs
          /\ ahead' \in [Reconn -> SUBSET Threads]
          /\ crossed' \in BOOLEAN
      <3>1. Goto(Evt, "stopclose") \/ Goto(Evt, "stopfinish")
        BY <1>4 DEF StopCheck
      <3> QED BY <1>a, <3>1, GotoType DEF EvtPcs, StopPcs
    <2>2. loc' \in [Threads -> Pcbs \cup {NoPcb}] /\ active' \in BOOLEAN
      BY <1>4, <1>a DEF StopCheck, TypeOK
    <2> QED BY <1>4, <1>a, <2>1, <2>2
         DEF StopCheck, TypeOK, cbVars, envVars, budgetVars, statusVars
  <1>5. CASE StopClose
    <2>1. loc[Evt] \in Pcbs
      BY <1>5 DEF StopClose, At, TypeInv, HoldsPcb
    <2> QED BY <1>5, <1>a, <2>1, GotoType, PppCloseType
         DEF StopClose, EvtPcs, StopPcs, TypeOK, cbVars, envVars, budgetVars, statusVars
  <1>6. CASE StopFinish
    BY <1>6, <1>a, GotoType
    DEF StopFinish, EvtPcs, TypeOK, cbVars, envVars, budgetVars
  <1> QED BY <1>1, <1>2, <1>3, <1>4, <1>5, <1>6 DEF EventTask

\* The steps of a reconnect task.
LEMMA ReconnectType ==
    ASSUME TypeInv, NEW t \in Reconn, ReconnectTask(t)
    PROVE  TypeOK'
  <1> USE SessionAssumption
  <1>a. TypeOK /\ t \in Threads /\ t # Evt
    BY DEF TypeInv, Threads
  <1>1. CASE Start(t)
    BY <1>1, <1>a, StartType
  <1>2. CASE ReconnWake(t)
    BY <1>2, <1>a, GotoType
    DEF ReconnWake, TaskPcs, ReconnPcs, TypeOK, cbVars, envVars, budgetVars, mgrVars, statusVars
  <1>3. CASE ReconnTake(t)
    BY <1>3, <1>a, GotoType
    DEF ReconnTake, TaskPcs, ReconnPcs, TypeOK, cbVars, envVars, budgetVars, mgrVars, statusVars
  <1>4. CASE ReconnClear(t)
    <2>1. /\ pc' \in [Threads -> EvtPcs \cup TaskPcs]
          /\ pc'[Evt] \in EvtPcs
          /\ \A r \in Reconn : pc'[r] \in TaskPcs
          /\ ahead' \in [Reconn -> SUBSET Threads]
          /\ crossed' \in BOOLEAN
      <3>1. Goto(t, "relink") \/ Goto(t, "reclose")
        BY <1>4 DEF ReconnClear
      <3> QED BY <1>a, <3>1, GotoType DEF TaskPcs, ReconnPcs
    <2> QED BY <1>4, <1>a, <2>1
         DEF ReconnClear, TypeOK, cbVars, envVars, budgetVars, statusVars
  <1>5. CASE ReconnClose(t)
    <2>1. loc[t] \in Pcbs
      BY <1>5 DEF ReconnClose, At, TypeInv, HoldsPcb
    <2> QED BY <1>5, <1>a, <2>1, GotoType, PppCloseType
         DEF ReconnClose, TaskPcs, ReconnPcs, TypeOK, cbVars, envVars, budgetVars, statusVars
  <1>6. CASE ReconnFree(t)
    <2>1. loc[t] \in Pcbs
      BY <1>6 DEF ReconnFree, At, TypeInv, HoldsPcb
    <2> QED BY <1>6, <1>a, <2>1, GotoType, PppFreeType
         DEF ReconnFree, TaskPcs, ReconnPcs, TypeOK, cbVars, envVars, budgetVars, statusVars
  <1>7. CASE ReconnRelink(t)
    BY <1>7, <1>a, GotoType
    DEF ReconnRelink, TaskPcs, StartPcs, TypeOK, cbVars, envVars, budgetVars, mgrVars, statusVars
  <1> QED BY <1>1, <1>2, <1>3, <1>4, <1>5, <1>6, <1>7 DEF ReconnectTask

\* Only StopCheck and ReconnClear lead to a close, with the pointer they tested.
LEMMA HoldsPcbStep ==
    ASSUME TypeInv, Next
    PROVE  HoldsPcb'
  <1> USE SessionAssumption
  <1>a. TypeOK /\ HoldsPcb /\ Evt \in Threads
    BY DEF TypeInv, Threads
  <1>1. ASSUME NEW t \in Threads, Start(t) PROVE HoldsPcb'
    <2>1. UNCHANGED loc
      BY <1>1 DEF Start, StartCheck, StartCreate, StartAuth, StartConnect, StartFail, StartCommit
    <2>2. \/ UNCHANGED pc
          \/ \E l \in StartPcs \cup {"idle", "none"} : pc' = [pc EXCEPT ![t] = l]
      BY <1>1 DEF Start, StartCheck, StartCreate, StartAuth, StartConnect, StartFail,
                  StartCommit, Return, Goto, StartPcs, taskVars
    <2> QED BY <1>a, <2>1, <2>2 DEF HoldsPcb, TypeOK, StartPcs, Threads
  <1>2. CASE CarrierChange
    BY <1>a, <1>2 DEF CarrierChange, HoldsPcb, taskVars
  <1>3. ASSUME NEW p \in Pcbs, Progress(p) \/ AuthFail(p) PROVE HoldsPcb'
    BY <1>a, <1>3 DEF Progress, AuthFail, Discovered, Established, Terminated, HoldsPcb, taskVars
  <1>4. ASSUME NEW p \in Pcbs, SessionLost(p) PROVE HoldsPcb'
    BY <1>a, <1>4 DEF SessionLost, DisconnectCallback, HoldsPcb, TypeOK, Threads, taskVars
  <1>5. CASE LinkUp \/ LinkDown \/ StopFinish \/ StopClose
    BY <1>a, <1>5 DEF LinkUp, LinkDown, StopFinish, StopClose, Goto, HoldsPcb, TypeOK, Threads
  <1>6. CASE StopCheck
    BY <1>a, <1>6 DEF StopCheck, Goto, HoldsPcb, TypeOK, Threads
  <1>7. ASSUME NEW t \in Reconn, ReconnectTask(t), ~Start(t) PROVE HoldsPcb'
    BY <1>a, <1>7
    DEF ReconnectTask, ReconnWake, ReconnTake, ReconnClear, ReconnClose, ReconnFree,
        ReconnRelink, At, Goto, HoldsPcb, TypeOK, Threads
  <1>8. CASE Callback
    BY <1>a, <1>8 DEF Callback, PublishUp, PublishDown, HoldsPcb, TypeOK, Threads, taskVars
  <1> QED BY <1>1, <1>2, <1>3, <1>4, <1>5, <1>6, <1>7, <1>8
       DEF Next, EventTask, Failure, ReconnectTask, Threads

LEMMA TypeStep == TypeInv /\ [Next]_vars => TypeInv'
  <1> SUFFICES ASSUME TypeInv, [Next]_vars PROVE TypeInv'
    OBVIOUS
  <1>1. CASE Next
    <2>1. TypeOK'
      BY <1>1, CarrierType, PeerType, CallbackType, EventTaskType, ReconnectType DEF Next, TypeInv
    <2> QED BY <1>1, <2>1, HoldsPcbStep DEF TypeInv
  <1>2. CASE UNCHANGED vars
    BY <1>2 DEF vars, envVars, budgetVars, mgrVars, statusVars, taskVars, cbVars, TypeInv, TypeOK, HoldsPcb
  <1> QED BY <1>1, <1>2

\* Type correctness of the session manager, for every value of the constants.
THEOREM TypeCorrect == Spec => []TypeOK
  <1>1. TypeInv => TypeOK
    BY DEF TypeInv
  <1> QED BY <1>1, InitType, TypeStep, PTL DEF Spec

-----------------------------------------------------------------------------
(* The uplink is down when the cable is, and clamped while it is up.       *)

LEMMA InitInv == Init => IInv
  BY InitType, SessionAssumption
  DEF Init, IInv, LastEventDown, ClampedWhileUp

\* What LastEventDown and ClampedWhileUp talk about.
linkView == <<carrier, evq, apConnect, upBit, clamp, cb, overtaken>>

\* A step that leaves linkView alone and the event task inside, or outside, of
\* pppoe_stop() preserves both.
LEMMA ViewUnchanged ==
    ASSUME IInv, UNCHANGED linkView, pc[Evt] \in StopPcs => pc'[Evt] \in StopPcs
    PROVE  LastEventDown' /\ ClampedWhileUp'
  BY DEF IInv, linkView, LastEventDown, ClampedWhileUp

\* pppoe_start() does not touch what the rest of the router looks at.
LEMMA StartView ==
    ASSUME TypeOK, NEW t \in Threads, Start(t)
    PROVE  UNCHANGED linkView /\ (pc[Evt] \in StopPcs => pc'[Evt] \in StopPcs)
  <1>1. UNCHANGED linkView
    BY DEF Start, StartCheck, StartCreate, StartAuth, StartConnect, StartFail, StartCommit,
           linkView, envVars, statusVars, cbVars
  <1>2. pc[t] \in StartPcs
    BY DEF Start, StartCheck, StartCreate, StartAuth, StartConnect, StartFail, StartCommit,
           At, StartPcs
  <1>3. UNCHANGED pc \/ \E l \in StartPcs \cup {"idle", "none"} : pc' = [pc EXCEPT ![t] = l]
    BY DEF Start, StartCheck, StartCreate, StartAuth, StartConnect, StartFail,
           StartCommit, Return, Goto, StartPcs, taskVars
  <1> QED BY <1>1, <1>2, <1>3 DEF TypeOK, StartPcs, StopPcs, Threads

LEMMA InvStep == IInv /\ [Next]_vars => IInv'
  <1> SUFFICES ASSUME IInv, [Next]_vars PROVE LastEventDown' /\ ClampedWhileUp'
    BY TypeStep DEF IInv
  <1> USE SessionAssumption
  <1>a. TypeOK /\ Evt \in Threads
    BY DEF IInv, TypeInv, Threads
  <1>1. CASE CarrierChange
    <2>1. carrier' = ~carrier /\ UNCHANGED <<apConnect, upBit, clamp, pc, cb, overtaken>>
      BY <1>1 DEF CarrierChange, statusVars, taskVars, cbVars
    <2>2. ~carrier' => evq' # <<>> /\ evq'[Len(evq')] = "disconnected"
      BY <1>1, <1>a, LastOfQueue DEF CarrierChange, TypeOK, Events
    <2> QED BY <2>1, <2>2 DEF IInv, LastEventDown, ClampedWhileUp
  <1>2. ASSUME NEW p \in Pcbs, Established(p) PROVE LastEventDown' /\ ClampedWhileUp'
    BY <1>2 DEF Established, envVars, LastEventDown, ClampedWhileUp
  <1>3. ASSUME NEW p \in Pcbs, Discovered(p) \/ Terminated(p) PROVE LastEventDown' /\ ClampedWhileUp'
    BY <1>3, ViewUnchanged
    DEF Discovered, Terminated, linkView, envVars, statusVars, taskVars, cbVars
  <1>4. ASSUME NEW p \in Pcbs, SessionLost(p) PROVE LastEventDown' /\ ClampedWhileUp'
    <2>1. pc'[Evt] = pc[Evt]
      BY <1>4 DEF SessionLost, DisconnectCallback, taskVars
    <2> QED BY <1>4, <2>1
         DEF SessionLost, DisconnectCallback, InPhase, envVars, IInv, LastEventDown, ClampedWhileUp
  <1>5. ASSUME NEW p \in Pcbs, AuthFail(p) PROVE LastEventDown' /\ ClampedWhileUp'
    BY <1>5 DEF AuthFail, envVars, taskVars, IInv, LastEventDown, ClampedWhileUp
  <1>6. ASSUME NEW t \in Threads, Start(t) PROVE LastEventDown' /\ ClampedWhileUp'
    BY <1>6, <1>a, StartView, ViewUnchanged
  <1>7. CASE LinkUp
    <2>1. pc[Evt] = "idle" /\ pc'[Evt] = "start" /\ UNCHANGED <<carrier, apConnect, upBit, clamp, cb, overtaken>>
      BY <1>7, <1>a DEF LinkUp, At, Goto, TypeOK, statusVars, cbVars
    <2>2. ~carrier => evq' # <<>> /\ evq'[Len(evq')] = "disconnected"
      BY <1>7, <1>a, LastOfQueue DEF LinkUp, TypeOK, IInv, LastEventDown
    <2> QED BY <2>1, <2>2 DEF IInv, LastEventDown, ClampedWhileUp, StopPcs
  <1>8. CASE LinkDown
    <2>1. pc'[Evt] = "stop" /\ UNCHANGED <<carrier, apConnect, upBit>>
      BY <1>8, <1>a DEF LinkDown, Goto, TypeOK
    <2>2. ~carrier => evq' = <<>> \/ (evq' # <<>> /\ evq'[Len(evq')] = "disconnected")
      BY <1>8, <1>a, LastOfQueue DEF LinkDown, TypeOK, IInv, LastEventDown
    <2> QED BY <2>1, <2>2 DEF LastEventDown, ClampedWhileUp, StopPcs
  <1>9. CASE StopCheck \/ StopClose
    <2>1. pc'[Evt] \in StopPcs
      BY <1>9, <1>a DEF StopCheck, StopClose, Goto, TypeOK, StopPcs
    <2> QED BY <1>9, <2>1, ViewUnchanged
         DEF StopCheck, StopClose, linkView, envVars, statusVars, cbVars
  <1>10. CASE StopFinish
    BY <1>10 DEF StopFinish, envVars, IInv, LastEventDown, ClampedWhileUp
  <1>11. ASSUME NEW t \in Reconn, ReconnectTask(t), ~Start(t) PROVE LastEventDown' /\ ClampedWhileUp'
    <2>1. UNCHANGED linkView
      BY <1>11 DEF ReconnectTask, ReconnWake, ReconnTake, ReconnClear, ReconnClose, ReconnFree,
                   ReconnRelink, linkView, envVars, statusVars, cbVars
    <2>2. pc'[Evt] = pc[Evt]
      BY <1>11, <1>a DEF ReconnectTask, ReconnWake, ReconnTake, ReconnClear, ReconnClose,
                         ReconnFree, ReconnRelink, Goto, TypeOK, Threads
    <2> QED BY <2>1, <2>2, ViewUnchanged
  <1>12. CASE UNCHANGED vars
    BY <1>12, ViewUnchanged DEF vars, envVars, statusVars, taskVars, cbVars, linkView
  <1>13. CASE PublishUp
    BY <1>13 DEF PublishUp, envVars, taskVars, IInv, LastEventDown, ClampedWhileUp
  <1>14. CASE PublishDown
    <2>1. pc'[Evt] = pc[Evt]
      BY <1>14, <1>a DEF PublishDown, TypeOK, Threads
    <2> QED BY <1>14, <2>1 DEF PublishDown, envVars, IInv, LastEventDown, ClampedWhileUp
  <1> QED BY <1>1, <1>2, <1>3, <1>4, <1>5, <1>6, <1>7, <1>8, <1>9, <1>10, <1>11, <1>12, <1>13, <1>14
       DEF Next, Callback, EventTask, Progress, Failure, ReconnectTask, Threads

\* With the cable dead, every link event handled and no callback under way,
\* ap_connect is clear however the tcpip thread and the reconnect tasks interleave
\* with pppoe_stop(), and WIFI_CONNECTED_BIT is set only by a callback that the
\* event handler overtook between its two halves.
THEOREM UplinkDown == Spec => []NoUplinkWhileDown
  <1>1. IInv => NoUplinkWhileDown
    BY DEF IInv, LastEventDown, NoUplinkWhileDown, StopPcs
  <1> QED BY <1>1, InitInv, InvStep, PTL DEF Spec

\* Clients are let out only with the clamp in force, or during pppoe_stop().
THEOREM UplinkClamped == Spec => []ClampedWhileUp
  <1>1. IInv => ClampedWhileUp
    BY DEF IInv
  <1> QED BY <1>1, InitInv, InvStep, PTL DEF Spec

-----------------------------------------------------------------------------
(* The VLAN hook, for any number of link-downs, as long as the handlers do *)
(* not overlap.                                                            *)

\* netif_add() asserts that no second control block is in lwIP's list.
OneBlock == \A p, q \in Allocated : p = q

\* One handler at a time.
Sole == \A u, v \in Threads : pc[u] \notin Resting /\ pc[v] \notin Resting => u = v

\* A session that is dialled, or up, is one that pppoe_stop() will find, or in the hands of
\* the task that dials it or is about to close it.
Kept(p) ==
    \/ handle = p /\ active
    \/ \E t \in Threads : pc[t] \in {"commit", "reclose"}

\* What a task relies on at each place.
AtWork(t) ==
    /\ pc[t] \in {"create", "auth", "connect", "commit"} => hook
    /\ pc[t] \in {"create", "auth", "connect", "connfail", "refree", "relink", "stopfinish"} =>
          Dialing = {}
    /\ pc[t] = "commit" => Dialing \subseteq {handle}
    /\ pc[t] \in {"clear", "reclose", "stopclose"} => Dialing \subseteq {loc[t]}

Orderly ==
    /\ Sole
    /\ \A p \in Dialing : hook /\ Kept(p)
    /\ \A t \in Threads : AtWork(t)

TagInv == OneBlock /\ (~crossed => Orderly)

\* Where a step in the middle of a handler leaves the others.
LEMMA OthersRest ==
    ASSUME TypeOK, Sole, NEW t \in Threads, NEW l, pc[t] \notin Resting, Goto(t, l), AtWork(t)'
    PROVE  /\ pc' = [pc EXCEPT ![t] = l] /\ crossed' = crossed
           /\ \A u \in Threads : u # t => pc[u] \in Resting
           /\ Sole' /\ \A u \in Threads : AtWork(u)'
  <1>1. pc' = [pc EXCEPT ![t] = l] /\ crossed' = crossed
    BY DEF Goto
  <1>2. \A u \in Threads : u # t => pc[u] \in Resting /\ pc'[u] = pc[u]
    BY <1>1 DEF Sole, TypeOK
  <1> QED BY <1>1, <1>2 DEF Sole, AtWork, Resting

\* A handler that enters alone starts from what the last one left, or from nothing.
LEMMA EnterTagged ==
    ASSUME TypeOK, TagInv, NEW t \in Threads, NEW l \in {"start", "stop", "take"},
           pc[t] \in Resting, Goto(t, l), UNCHANGED <<phase, handle, active, hook, loc>>
    PROVE  TagInv'
  <1>1. OneBlock'
    BY DEF TagInv, OneBlock, Allocated
  <1>2. ASSUME ~crossed' PROVE Orderly'
    <2>1. /\ pc' = [pc EXCEPT ![t] = l]
          /\ \A u \in Threads : u # t => pc[u] \in Resting
          /\ ~crossed \/ Allocated = {}
      BY <1>2 DEF Goto, Resting
    <2>2. \A u \in Threads : pc'[u] \in Resting \cup {"start", "stop", "take"} /\ (u # t => pc'[u] \in Resting)
      BY <2>1 DEF TypeOK
    <2>3. \A p \in Dialing : hook /\ handle = p /\ active
      <3>1. CASE Allocated = {}
        BY <3>1 DEF Allocated, Dialing
      <3>2. CASE ~crossed
        BY <3>2, <2>1 DEF TagInv, Orderly, Kept, Resting
      <3> QED BY <2>1, <3>1, <3>2
    <2> QED BY <2>2, <2>3 DEF Orderly, Sole, Kept, AtWork, Dialing, Resting
  <1> QED BY <1>1, <1>2 DEF TagInv

\* Nobody else dials while a task is in the middle of pppoe_start().
LEMMA StartTagged ==
    ASSUME TypeOK, TagInv, NEW t \in Threads, Start(t)
    PROVE  TagInv'
  <1>a. pc[t] \in StartPcs /\ pc[t] \notin Resting
    BY DEF Start, StartCheck, StartCreate, StartAuth, StartConnect, StartFail, StartCommit, At,
           StartPcs, Resting
  <1>1. CASE StartCheck(t)
    <2>1. OneBlock' /\ Dialing' = Dialing
      BY <1>1 DEF StartCheck, TagInv, OneBlock, Allocated, Dialing
    <2>2. ASSUME ~crossed' PROVE Orderly'
      <3>1. PICK l \in {"idle", "none", "create"} : Goto(t, l) /\ (l = "create" => ~active /\ hook' = TRUE)
        BY <1>1 DEF StartCheck, Return
      <3>2. ~crossed /\ Orderly
        BY <1>a, <2>2, <3>1 DEF Goto, TagInv
      <3>3. pc[t] = "start" /\ \A u \in Threads : u # t => pc[u] \in Resting
        BY <1>1, <1>a, <3>2 DEF StartCheck, At, Orderly, Sole
      <3>4. \A p \in Dialing : hook /\ handle = p /\ active
        BY <3>2, <3>3 DEF Orderly, Kept, Resting
      <3>5. UNCHANGED <<handle, active, loc>> /\ (hook => hook')
        BY <1>1 DEF StartCheck
      <3>6. AtWork(t)'
        BY <2>1, <3>1, <3>4 DEF AtWork, Goto, TypeOK
      <3> QED BY <1>a, <2>1, <3>1, <3>2, <3>4, <3>5, <3>6, OthersRest DEF Orderly, Kept
    <2> QED BY <2>1, <2>2 DEF TagInv
  <1>2. CASE StartCreate(t)
    <2>1. OneBlock'
      BY <1>2 DEF StartCreate, Panic, TagInv, OneBlock, Allocated, TypeOK
    <2>2. ASSUME ~crossed' PROVE Orderly'
      <3>1. CASE UNCHANGED taskVars
        BY <1>2, <2>2, <3>1
        DEF StartCreate, Panic, At, Goto, Return, taskVars, TypeOK, TagInv, Orderly, Sole, Kept, AtWork,
            Dialing
      <3>2. CASE \E l \in {"idle", "none", "auth"} : Goto(t, l)
        <4>1. PICK l \in {"idle", "none", "auth"} : Goto(t, l)
          BY <3>2
        <4>2. ~crossed /\ Orderly
          BY <1>a, <2>2, <4>1 DEF Goto, TagInv
        <4>3. hook /\ Dialing = {} /\ UNCHANGED hook
          BY <1>2, <4>2 DEF StartCreate, At, Orderly, AtWork
        <4>4. Dialing' = {}
          BY <1>2, <4>3 DEF StartCreate, Panic, Dialing, TypeOK
        <4>5. AtWork(t)'
          BY <4>1, <4>3, <4>4 DEF AtWork, Goto, TypeOK
        <4> QED BY <1>a, <4>1, <4>2, <4>4, <4>5, OthersRest DEF Orderly
      <3> QED BY <1>2, <3>1, <3>2 DEF StartCreate, Return
    <2> QED BY <2>1, <2>2 DEF TagInv
  <1>3. CASE StartAuth(t)
    <2>1. UNCHANGED <<phase, handle, active, hook, loc>>
      BY <1>3 DEF StartAuth, Panic
    <2>2. OneBlock' /\ Dialing' = Dialing
      BY <2>1 DEF TagInv, OneBlock, Allocated, Dialing
    <2>3. CASE UNCHANGED taskVars
      BY <2>1, <2>2, <2>3 DEF taskVars, TagInv, Orderly, Sole, Kept, AtWork
    <2>4. CASE Goto(t, "connect")
      <3>1. ASSUME ~crossed PROVE Orderly'
        <4>1. Orderly /\ hook /\ Dialing = {}
          BY <1>3, <3>1 DEF StartAuth, At, TagInv, Orderly, AtWork
        <4>2. AtWork(t)'
          BY <2>1, <2>2, <2>4, <4>1 DEF AtWork, Goto, TypeOK
        <4> QED BY <1>a, <2>2, <2>4, <4>1, <4>2, OthersRest DEF Orderly
      <3> QED BY <1>a, <2>2, <2>4, <3>1 DEF TagInv, Goto
    <2> QED BY <1>3, <2>3, <2>4 DEF StartAuth
  <1>4. CASE StartConnect(t)
    <2>1. OneBlock'
      BY <1>4 DEF StartConnect, Panic, TagInv, OneBlock, Allocated, TypeOK
    <2>2. ASSUME ~crossed' PROVE Orderly'
      <3>1. CASE UNCHANGED taskVars /\ UNCHANGED phase
        BY <1>4, <2>2, <3>1
        DEF StartConnect, Panic, taskVars, mgrVars, TagInv, Orderly, Sole, Kept, AtWork, Dialing
      <3>2. CASE handle # NoPcb
        <4>1. PICK l \in {"commit", "connfail"} :
                 /\ Goto(t, l)
                 /\ l = "commit" => phase' = [phase EXCEPT ![handle] = "discover"]
                 /\ l = "connfail" => UNCHANGED phase
          BY <1>4, <3>2 DEF StartConnect
        <4>2. ~crossed /\ Orderly
          BY <1>a, <2>2, <4>1 DEF Goto, TagInv
        <4>3. hook /\ Dialing = {} /\ UNCHANGED <<hook, handle, active, loc>>
          BY <1>4, <3>2, <4>2 DEF StartConnect, At, Orderly, AtWork
        <4>4. Dialing' \subseteq {handle} /\ (l = "connfail" => Dialing' = {})
          BY <3>2, <4>1, <4>3 DEF Dialing, TypeOK
        <4>5. AtWork(t)' /\ pc'[t] = l
          BY <4>1, <4>3, <4>4 DEF AtWork, Goto, TypeOK
        <4>6. \A p \in Dialing' : hook' /\ Kept(p)'
          BY <4>1, <4>3, <4>4, <4>5 DEF Kept
        <4> QED BY <1>a, <4>1, <4>2, <4>5, <4>6, OthersRest DEF Orderly
      <3> QED BY <1>4, <3>1, <3>2 DEF StartConnect, Panic
    <2> QED BY <2>1, <2>2 DEF TagInv
  <1>5. CASE StartFail(t)
    <2>1. \A p \in Pcbs : phase'[p] \in {phase[p], "free"}
      BY <1>5 DEF StartFail, Panic, Freed, TypeOK
    <2>2. OneBlock' /\ Dialing' \subseteq Dialing
      BY <2>1 DEF TagInv, OneBlock, Allocated, Dialing
    <2>3. CASE UNCHANGED taskVars
      BY <1>5, <2>2, <2>3
      DEF StartFail, Return, Goto, Panic, At, taskVars, TagInv, Orderly, Sole, Kept, AtWork, Dialing
    <2>4. CASE Return(t)
      <3>1. PICK l \in {"idle", "none"} : Goto(t, l)
        BY <2>4 DEF Return
      <3>2. ASSUME ~crossed PROVE Orderly'
        <4>1. Orderly /\ Dialing = {}
          BY <1>5, <3>2 DEF StartFail, At, TagInv, Orderly, AtWork
        <4>2. AtWork(t)'
          BY <3>1, <4>1 DEF AtWork, Goto, TypeOK
        <4> QED BY <1>a, <2>2, <3>1, <4>1, <4>2, OthersRest DEF Orderly
      <3> QED BY <1>a, <2>2, <3>1, <3>2 DEF TagInv, Goto
    <2> QED BY <1>5, <2>3, <2>4 DEF StartFail
  <1>6. CASE StartCommit(t)
    <2>1. OneBlock' /\ Dialing' = Dialing /\ UNCHANGED <<handle, hook>> /\ active' = TRUE
      BY <1>6 DEF StartCommit, TagInv, OneBlock, Allocated, Dialing
    <2>2. PICK l \in {"idle", "none"} : Goto(t, l)
      BY <1>6 DEF StartCommit, Return
    <2>3. ASSUME ~crossed PROVE Orderly'
      <3>1. Orderly /\ hook /\ Dialing \subseteq {handle}
        BY <1>6, <2>3 DEF StartCommit, At, TagInv, Orderly, AtWork
      <3>2. AtWork(t)'
        BY <2>2 DEF AtWork, Goto, TypeOK
      <3> QED BY <1>a, <2>1, <2>2, <3>1, <3>2, OthersRest DEF Orderly, Kept
    <2> QED BY <1>a, <2>1, <2>2, <2>3 DEF TagInv, Goto
  <1> QED BY <1>1, <1>2, <1>3, <1>4, <1>5, <1>6 DEF Start

\* Closing a block, or hearing of its end, starts no session and frees none but dead ones.
LEMMA CloseTagged ==
    ASSUME TypeOK, NEW p \in Pcbs, PppClose(p) \/ PppFree(p)
    PROVE  /\ Allocated' \subseteq Allocated
           /\ Dialing' \subseteq Dialing
           /\ PppClose(p) => p \notin Dialing'
  <1>1. CASE UserCallback([phase EXCEPT ![p] = "dead"]) /\ phase[p] # "free"
    BY <1>1 DEF UserCallback, Freed, TypeOK, Allocated, Dialing
  <1>2. CASE Panic("freed_pcb") /\ phase[p] = "free"
    BY <1>2 DEF Panic, Allocated, Dialing
  <1>3. CASE phase' = [phase EXCEPT ![p] = "terminate"] /\ phase[p] # "free"
    BY <1>3 DEF TypeOK, Allocated, Dialing
  <1>4. CASE PppFree(p) /\ phase' = Freed(phase, p)
    <2>1. \A q \in Pcbs : phase'[q] \in {phase[q], "free"}
      BY <1>4 DEF Freed, TypeOK
    <2>2. p \notin Dialing' \/ ~PppClose(p)
      BY <1>4 DEF PppClose, UserCallback, Panic, Freed, TypeOK, Dialing
    <2> QED BY <2>1, <2>2 DEF Allocated, Dialing
  <1> QED BY <1>1, <1>2, <1>3, <1>4 DEF PppClose, PppFree

\* pppoe_stop() removes the hook only after it has closed what was dialled.
LEMMA StopTagged ==
    ASSUME TypeOK, TagInv, HoldsPcb, StopCheck \/ StopClose \/ StopFinish
    PROVE  TagInv'
  <1> USE SessionAssumption
  <1>a. Evt \in Threads /\ pc[Evt] \in StopPcs /\ pc[Evt] \notin Resting
    BY DEF StopCheck, StopClose, StopFinish, At, StopPcs, Threads, Resting
  <1>1. CASE StopCheck
    <2>1. OneBlock' /\ Dialing' = Dialing
      BY <1>1 DEF StopCheck, TagInv, OneBlock, Allocated, Dialing
    <2>2. PICK l \in {"stopclose", "stopfinish"} :
             /\ Goto(Evt, l)
             /\ l = "stopclose" => active /\ loc' = [loc EXCEPT ![Evt] = handle] /\ UNCHANGED active
             /\ l = "stopfinish" => (~active \/ handle = NoPcb)
      BY <1>1 DEF StopCheck
    <2>3. ASSUME ~crossed PROVE Orderly'
      <3>1. Orderly /\ pc[Evt] = "stop" /\ \A u \in Threads : u # Evt => pc[u] \in Resting
        BY <1>1, <1>a, <2>3 DEF StopCheck, At, TagInv, Orderly, Sole
      <3>2. \A p \in Dialing : hook /\ handle = p /\ active
        BY <3>1 DEF Orderly, Kept, Resting
      <3>3. Dialing \subseteq {handle} /\ (l = "stopfinish" => Dialing = {})
        BY <2>2, <3>2 DEF Dialing
      <3>4. AtWork(Evt)'
        BY <1>a, <2>1, <2>2, <3>3 DEF AtWork, Goto, TypeOK
      <3>5. UNCHANGED <<handle, hook>>
        BY <1>1 DEF StopCheck
      <3> QED BY <1>a, <2>1, <2>2, <3>1, <3>2, <3>3, <3>4, <3>5, OthersRest DEF Orderly, Kept
    <2> QED BY <1>a, <2>1, <2>2, <2>3 DEF TagInv, Goto
  <1>2. CASE StopClose
    <2>1. loc[Evt] \in Pcbs /\ Goto(Evt, "stopfinish") /\ PppClose(loc[Evt])
      BY <1>2 DEF StopClose, At, HoldsPcb
    <2>2. OneBlock' /\ Dialing' \subseteq Dialing /\ loc[Evt] \notin Dialing'
      BY <2>1, CloseTagged DEF TagInv, OneBlock
    <2>3. ASSUME ~crossed PROVE Orderly'
      <3>1. Orderly /\ Dialing' = {}
        BY <1>2, <1>a, <2>2, <2>3 DEF StopClose, At, TagInv, Orderly, AtWork
      <3>2. AtWork(Evt)'
        BY <1>a, <2>1, <3>1 DEF AtWork, Goto, TypeOK
      <3> QED BY <1>a, <2>1, <3>1, <3>2, OthersRest DEF Orderly
    <2> QED BY <1>a, <2>1, <2>2, <2>3 DEF TagInv, Goto
  <1>3. CASE StopFinish
    <2>1. OneBlock' /\ Dialing' = Dialing /\ Goto(Evt, "idle")
      BY <1>3 DEF StopFinish, TagInv, OneBlock, Allocated, Dialing
    <2>2. ASSUME ~crossed PROVE Orderly'
      <3>1. Orderly /\ Dialing = {}
        BY <1>3, <1>a, <2>2 DEF StopFinish, At, TagInv, Orderly, AtWork
      <3>2. AtWork(Evt)'
        BY <1>a, <2>1 DEF AtWork, Goto, TypeOK
      <3> QED BY <1>a, <2>1, <3>1, <3>2, OthersRest DEF Orderly
    <2> QED BY <1>a, <2>1, <2>2 DEF TagInv, Goto
  <1> QED BY <1>1, <1>2, <1>3

\* The reconnect task closes the session that it takes out of ppp_pcb_handle.
LEMMA ReconnTagged ==
    ASSUME TypeOK, TagInv, HoldsPcb, NEW t \in Reconn,
           ReconnTake(t) \/ ReconnClear(t) \/ ReconnClose(t) \/ ReconnFree(t) \/ ReconnRelink(t)
    PROVE  TagInv'
  <1>a. t \in Threads /\ pc[t] \in ReconnPcs /\ pc[t] \notin Resting
    BY DEF ReconnTake, ReconnClear, ReconnClose, ReconnFree, ReconnRelink, At, ReconnPcs, Threads, Resting
  <1>b. ~crossed => Orderly /\ \A u \in Threads : u # t => pc[u] \in Resting
    BY <1>a DEF TagInv, Orderly, Sole
  <1>1. CASE ReconnTake(t)
    <2>1. /\ OneBlock' /\ Dialing' = Dialing /\ Goto(t, "clear") /\ loc' = [loc EXCEPT ![t] = handle]
          /\ UNCHANGED <<handle, hook, active>>
      BY <1>1 DEF ReconnTake, TagInv, OneBlock, Allocated, Dialing, mgrVars
    <2>2. ASSUME ~crossed PROVE Orderly'
      <3>1. \A p \in Dialing : hook /\ handle = p /\ active
        BY <1>1, <1>b, <2>2 DEF ReconnTake, At, Orderly, Kept, Resting
      <3>2. AtWork(t)'
        BY <1>a, <2>1, <3>1 DEF AtWork, Goto, TypeOK
      <3> QED BY <1>a, <1>b, <2>1, <2>2, <3>1, <3>2, OthersRest DEF Orderly, Kept
    <2> QED BY <1>a, <2>1, <2>2 DEF TagInv, Goto
  <1>2. CASE ReconnClear(t)
    <2>1. OneBlock' /\ Dialing' = Dialing /\ UNCHANGED <<loc, hook>>
      BY <1>2 DEF ReconnClear, TagInv, OneBlock, Allocated, Dialing
    <2>2. PICK l \in {"relink", "reclose"} : Goto(t, l) /\ (l = "relink" => loc[t] = NoPcb)
      BY <1>2 DEF ReconnClear
    <2>3. ASSUME ~crossed PROVE Orderly'
      <3>1. Dialing \subseteq {loc[t]} /\ Dialing \subseteq Pcbs
        BY <1>2, <1>a, <1>b, <2>3 DEF ReconnClear, At, Orderly, AtWork, Dialing
      <3>2. l = "relink" => Dialing = {}
        BY <2>2, <3>1, SessionAssumption
      <3>3. AtWork(t)' /\ pc'[t] = l
        BY <1>a, <2>1, <2>2, <3>1, <3>2 DEF AtWork, Goto, TypeOK
      <3>4. \A p \in Dialing' : hook' /\ Kept(p)'
        BY <1>a, <1>b, <2>1, <2>3, <3>2, <3>3 DEF Orderly, Kept
      <3> QED BY <1>a, <1>b, <2>2, <2>3, <3>3, <3>4, OthersRest DEF Orderly
    <2> QED BY <1>a, <2>1, <2>2, <2>3 DEF TagInv, Goto
  <1>3. CASE ReconnClose(t)
    <2>1. loc[t] \in Pcbs /\ Goto(t, "refree") /\ PppClose(loc[t])
      BY <1>3 DEF ReconnClose, At, HoldsPcb
    <2>2. OneBlock' /\ Dialing' \subseteq Dialing /\ loc[t] \notin Dialing'
      BY <2>1, CloseTagged DEF TagInv, OneBlock
    <2>3. ASSUME ~crossed PROVE Orderly'
      <3>1. Dialing' = {}
        BY <1>3, <1>a, <1>b, <2>2, <2>3 DEF ReconnClose, At, Orderly, AtWork
      <3>2. AtWork(t)'
        BY <1>a, <2>1, <3>1 DEF AtWork, Goto, TypeOK
      <3> QED BY <1>a, <1>b, <2>1, <2>3, <3>1, <3>2, OthersRest DEF Orderly
    <2> QED BY <1>a, <2>1, <2>2, <2>3 DEF TagInv, Goto
  <1>4. CASE ReconnFree(t)
    <2>1. loc[t] \in Pcbs /\ Goto(t, "relink") /\ PppFree(loc[t])
      BY <1>4 DEF ReconnFree, At, HoldsPcb
    <2>2. OneBlock' /\ Dialing' \subseteq Dialing
      BY <2>1, CloseTagged DEF TagInv, OneBlock
    <2>3. ASSUME ~crossed PROVE Orderly'
      <3>1. Dialing' = {}
        BY <1>4, <1>a, <1>b, <2>2, <2>3 DEF ReconnFree, At, Orderly, AtWork
      <3>2. AtWork(t)'
        BY <1>a, <2>1, <3>1 DEF AtWork, Goto, TypeOK
      <3> QED BY <1>a, <1>b, <2>1, <2>3, <3>1, <3>2, OthersRest DEF Orderly
    <2> QED BY <1>a, <2>1, <2>2, <2>3 DEF TagInv, Goto
  <1>5. CASE ReconnRelink(t)
    <2>1. OneBlock' /\ Dialing' = Dialing
      BY <1>5 DEF ReconnRelink, TagInv, OneBlock, Allocated, Dialing
    <2>2. PICK l \in {"start", "none"} : Goto(t, l)
      BY <1>5 DEF ReconnRelink
    <2>3. ASSUME ~crossed PROVE Orderly'
      <3>1. Dialing = {}
        BY <1>5, <1>a, <1>b, <2>3 DEF ReconnRelink, At, Orderly, AtWork
      <3>2. AtWork(t)'
        BY <1>a, <2>2 DEF AtWork, Goto, TypeOK
      <3> QED BY <1>a, <1>b, <2>1, <2>2, <2>3, <3>1, <3>2, OthersRest DEF Orderly
    <2> QED BY <1>a, <2>1, <2>2, <2>3 DEF TagInv, Goto
  <1> QED BY <1>1, <1>2, <1>3, <1>4, <1>5

\* The peer and the callbacks end sessions, or promote the one that is dialled.
LEMMA PeerTagged ==
    ASSUME TypeOK, TagInv, NEW p \in Pcbs, Progress(p) \/ Failure(p)
    PROVE  TagInv'
  <1>1. CASE Terminated(p)
    <2>1. Dialing = {}
      BY <1>1 DEF Terminated, InPhase, TagInv, OneBlock, Allocated, Dialing
    <2>2. \A q \in Pcbs : phase[q] = "free" => phase'[q] = "free"
      BY <1>1 DEF Terminated, InPhase, UserCallback, Freed, TypeOK
    <2>3. \A q \in Pcbs : phase'[q] \in {phase[q], "dead", "free"}
      BY <1>1 DEF Terminated, UserCallback, Freed, TypeOK
    <2>4. OneBlock' /\ Dialing' = {}
      BY <2>1, <2>2, <2>3 DEF TagInv, OneBlock, Allocated, Dialing
    <2>5. UNCHANGED <<pc, crossed, hook, loc>>
      BY <1>1 DEF Terminated, taskVars
    <2> QED BY <2>1, <2>4, <2>5 DEF TagInv, Orderly, Sole, AtWork
  <1>2. CASE ~Terminated(p)
    <2>1. /\ p \in Allocated
          /\ \E q \in Phases \ {"free"} : phase' = [phase EXCEPT ![p] = q]
          /\ UNCHANGED <<pc, crossed, handle, active, hook, loc>>
      BY <1>2 DEF Progress, Failure, Discovered, Established, SessionLost, DisconnectCallback, AuthFail,
                  InPhase, Allocated, Phases, mgrVars, taskVars
    <2>2. Allocated' = Allocated
      BY <2>1 DEF Allocated, TypeOK
    <2>3. phase[p] \in {"discover", "negotiate", "running"}
      BY <1>2 DEF Progress, Failure, Discovered, Established, SessionLost, AuthFail, InPhase
    <2>4. Dialing' \subseteq Dialing
      BY <2>1, <2>3 DEF Dialing, TypeOK
    <2> QED BY <2>1, <2>2, <2>4 DEF TagInv, OneBlock, Orderly, Sole, Kept, AtWork
  <1> QED BY <1>1, <1>2

LEMMA TagStep ==
    ASSUME TypeInv, TagInv, [Next]_vars
    PROVE  TagInv'
  <1> USE SessionAssumption
  <1>a. TypeOK /\ HoldsPcb /\ Evt \in Threads /\ Reconn \subseteq Threads
    BY DEF TypeInv, Threads
  <1>1. CASE LinkUp \/ LinkDown
    BY <1>1, <1>a, EnterTagged DEF LinkUp, LinkDown, At, Resting, mgrVars
  <1>2. ASSUME NEW t \in Reconn, ReconnWake(t) PROVE TagInv'
    BY <1>2, <1>a, EnterTagged DEF ReconnWake, At, Resting, mgrVars
  <1>3. CASE PublishDown
    <2>1. UNCHANGED <<phase, handle, active, hook, loc, crossed>>
      BY <1>3 DEF PublishDown, mgrVars
    <2>2. \A u \in Threads : pc'[u] = pc[u] \/ (pc[u] = "none" /\ pc'[u] = "sleep")
      BY <1>3, <1>a DEF PublishDown, TypeOK
    <2> QED BY <2>1, <2>2
        DEF TagInv, OneBlock, Orderly, Sole, Kept, AtWork, Allocated, Dialing, Resting
  <1>4. CASE PublishUp \/ CarrierChange \/ UNCHANGED vars
    <2>1. UNCHANGED <<phase, handle, active, hook, loc, crossed, pc>>
      BY <1>4 DEF PublishUp, CarrierChange, vars, mgrVars, taskVars
    <2> QED BY <2>1 DEF TagInv, OneBlock, Orderly, Sole, Kept, AtWork, Allocated, Dialing
  <1> QED BY <1>1, <1>2, <1>3, <1>4, <1>a, StartTagged, StopTagged, ReconnTagged, PeerTagged
      DEF Next, EventTask, ReconnectTask, Callback

\* However often the cable goes and comes, whatever sessions are lost and logins refused: a
\* session is dialled, and stays up, only with the VLAN hook installed, unless two handlers
\* have been at work at once since lwIP last held no control block.
THEOREM DialledTagged == Spec => []DialsTagged
  <1>1. Init => TagInv
    BY SessionAssumption
    DEF Init, TagInv, OneBlock, Orderly, Sole, AtWork, Allocated, Dialing, Threads, Resting
  <1>2. TagInv => DialsTagged
    BY DEF TagInv, Orderly, DialsTagged
  <1> QED BY <1>1, <1>2, InitType, TypeStep, TagStep, PTL DEF Spec

-----------------------------------------------------------------------------
(* Until the link has gone down once.                                      *)

\* Nobody but t is at work on the session.
Alone(t) == \A u \in Threads : u # t => pc[u] \in {"idle", "none"}

\* Before the first link event is dispatched nothing has been touched.
Fresh ==
    /\ \A u \in Threads : pc[u] \in {"idle", "none"}
    /\ \A p \in Pcbs : phase[p] = "free"
    /\ handle = NoPcb /\ ~active /\ ~connected /\ ~defRoute

\* The control block behind ppp_pcb_handle lost its session.
Lost == handle # NoPcb /\ phase[handle] = "dead"

\* There is no control block, and pppoe_start() may create one.
Clear == handle = NoPcb /\ ~active /\ \A p \in Pcbs : phase[p] = "free"

\* What the statics are while t is at each place of pppoe_start() ...
Starter(t) ==
    /\ pc[t] # "connfail"
    /\ pc[t] = "start" => Alone(t) /\ Clear
    /\ pc[t] = "create" => Alone(t) /\ Clear /\ cached /\ hook
    /\ pc[t] \in {"auth", "connect"} => Alone(t) /\ Lost /\ cached /\ hook
    /\ pc[t] = "commit" =>
          /\ handle # NoPcb /\ cached /\ hook
          /\ \A u \in Threads : u # t =>
                \/ pc[u] \in {"idle", "none"}
                \/ pc[u] = "sleep" /\ t \in ahead[u]

\* ... and of pppoe_reconnect_task(): it sleeps at least as long as the start
\* that it follows, takes the dead block over and frees it.
Reconnecter(t) ==
    /\ pc[t] = "sleep" =>
          /\ Lost /\ cached /\ hook
          /\ \A u \in Threads : u # t =>
                \/ pc[u] \in {"idle", "none"}
                \/ pc[u] = "commit" /\ u \in ahead[t]
    /\ pc[t] = "take" => Alone(t) /\ Lost /\ cached /\ hook
    /\ pc[t] = "clear" => Alone(t) /\ Lost /\ loc[t] = handle /\ cached /\ hook
    /\ pc[t] \in {"reclose", "refree"} =>
          /\ Alone(t) /\ handle = NoPcb /\ ~active /\ cached /\ hook
          /\ loc[t] # NoPcb /\ phase[loc[t]] = "dead"
    /\ pc[t] = "relink" => Alone(t) /\ Clear /\ cached /\ hook
    /\ loc[t] # NoPcb => pc[t] \in {"clear", "reclose", "refree"}

\* A control block is the one behind ppp_pcb_handle, or a task's to free.
Owned ==
    /\ handle # NoPcb => phase[handle] # "free"
    /\ \A p \in Pcbs : phase[p] # "free" =>
          /\ phase[p] # "terminate"
          /\ p = handle \/ phase[p] = "dead"
          /\ p = handle \/ \E t \in Reconn : loc[t] = p
          /\ cached /\ hook

\* What the callbacks publish.
Published ==
    /\ connected => handle # NoPcb /\ phase[handle] = "running"
    /\ handle # NoPcb /\ phase[handle] = "running" => connected
    /\ defRoute => connected \/ authFails > 0

\* Once the link is up there is a session, somebody at work on it, or a refused login.
InCharge ==
    ~CreateMayFail =>
        \/ \E u \in Threads : pc[u] \notin {"idle", "none"}
        \/ handle # NoPcb

\* Between the two halves of the callback for a lost session.
Losing ==
    cb = "down" =>
        Lost /\ cached /\ hook /\ \A u \in Threads : pc[u] \in {"idle", "none", "commit"}

SteadyInv ==
    /\ crash = "none"
    /\ Losing
    /\ loc[Evt] = NoPcb
    /\ pc[Evt] \notin StopPcs
    /\ carrier <=> flaps = 1
    /\ evq = <<>> \/ (evq = <<"connected">> /\ carrier)
    /\ ~carrier => evq = <<>>
    /\ ~carrier \/ evq # <<>> => Fresh
    /\ carrier /\ evq = <<>> => link /\ InCharge
    /\ \A t \in Threads : Starter(t)
    /\ \A t \in Reconn : Reconnecter(t)
    /\ Owned
    /\ Published

\* The cable comes up for the first time, and its event is posted.
LEMMA SteadyCarrier ==
    ASSUME TypeInv, SteadyInv, CarrierChange, flaps' <= 1
    PROVE  SteadyInv'
  <1> USE SessionAssumption
  <1>a. flaps = 0 /\ flaps' = 1
    BY DEF CarrierChange, SteadyInv, TypeInv, TypeOK
  <1>c. ~carrier /\ evq = <<>>
    BY <1>a DEF SteadyInv
  <1>d. carrier'
    BY <1>c DEF CarrierChange
  <1>1. flaps' = 1 /\ ~carrier /\ carrier' /\ evq = <<>>
    BY <1>a, <1>c, <1>d
  <1>b. evq' = <<"connected">>
    BY <1>1 DEF CarrierChange
  <1>2. UNCHANGED <<link, phase, mgrVars, statusVars, authFails, defRoute, pc, ahead, loc, cb, crash>>
    BY DEF CarrierChange, budgetVars, taskVars, cbVars
  <1> QED BY <1>1, <1>2, <1>b
      DEF SteadyInv, Losing, Fresh, Starter, Reconnecter, Owned, Published, Alone, Lost, Clear,
          mgrVars, statusVars

\* The event task is the first to touch anything.
LEMMA SteadyLinkUp ==
    ASSUME TypeInv, SteadyInv, LinkUp
    PROVE  SteadyInv'
  <1> USE SessionAssumption
  <1>b. evq # <<>> /\ evq' = Tail(evq)
    BY DEF LinkUp
  <1>c. evq = <<"connected">> /\ carrier /\ Fresh
    BY <1>b DEF SteadyInv
  <1>1. evq = <<"connected">> /\ evq' = <<>> /\ carrier /\ Fresh
    BY <1>b, <1>c
  <1>2. pc' = [pc EXCEPT ![Evt] = "start"] /\ ahead' = ahead /\ link' = TRUE
    BY DEF LinkUp, Goto, Resting
  <1>3. UNCHANGED <<carrier, flaps, phase, mgrVars, statusVars, authFails, defRoute, loc, cb, crash>>
    BY DEF LinkUp, budgetVars, cbVars
  <1>a. Evt \in Threads /\ pc \in [Threads -> EvtPcs \cup TaskPcs]
    BY DEF TypeInv, TypeOK, Threads
  <1>4. \A t \in Threads : Starter(t)'
    BY <1>1, <1>2, <1>3, <1>a DEF Starter, Fresh, Alone, Clear, Lost, mgrVars
  <1>5. \A t \in Reconn : Reconnecter(t)'
    BY <1>1, <1>2, <1>3, <1>a DEF SteadyInv, Reconnecter, Fresh, Threads
  <1>6. Losing'
    BY <1>1, <1>3 DEF SteadyInv, Losing, Lost, Fresh
  <1> QED BY <1>1, <1>2, <1>3, <1>4, <1>5, <1>6, <1>a
      DEF SteadyInv, Fresh, Owned, Published, InCharge, StopPcs, mgrVars, statusVars

\* pppoe_start() of a router without a control block goes on.
LEMMA SteadyStartCheck ==
    ASSUME TypeInv, SteadyInv, NEW t \in Threads, StartCheck(t)
    PROVE  SteadyInv'
  <1> USE SessionAssumption
  <1>1. pc[t] = "start" /\ Alone(t) /\ Clear /\ ~Fresh
    BY DEF StartCheck, At, SteadyInv, Starter, Fresh
  <1>2. pc' = [pc EXCEPT ![t] = "create"] /\ ahead' = ahead /\ cached' = TRUE /\ hook' = TRUE
    BY <1>1 DEF StartCheck, Goto, Resting, Clear
  <1>3. UNCHANGED <<carrier, flaps, evq, link, phase, handle, active, connected, authFails,
                    defRoute, loc, cb, crash>>
    BY DEF StartCheck, envVars, budgetVars, statusVars, cbVars
  <1>a. Evt \in Threads /\ pc \in [Threads -> EvtPcs \cup TaskPcs]
    BY DEF TypeInv, TypeOK, Threads
  <1>4. \A u \in Threads : Starter(u)'
    BY <1>1, <1>2, <1>3, <1>a DEF Starter, Alone, Clear, Lost
  <1>5. \A u \in Reconn : Reconnecter(u)'
    BY <1>1, <1>2, <1>3, <1>a DEF SteadyInv, Reconnecter, Alone, Threads
  <1> QED BY <1>1, <1>2, <1>3, <1>4, <1>5, <1>a DEF SteadyInv, Losing, Fresh, Owned, Published, InCharge, StopPcs

\* The statics that a step of t leaves alone, with the types the proofs need.
LEMMA SteadyTypes ==
    ASSUME TypeInv, SteadyInv
    PROVE  /\ Evt \in Threads /\ Reconn \subseteq Threads /\ Evt \notin Reconn
           /\ pc \in [Threads -> EvtPcs \cup TaskPcs]
           /\ loc \in [Threads -> Pcbs \cup {NoPcb}]
           /\ phase \in [Pcbs -> Phases] /\ handle \in Pcbs \cup {NoPcb}
           /\ NoPcb \notin Pcbs
           /\ ahead \in [Reconn -> SUBSET Threads]
           /\ \A t \in Threads : loc[t] # NoPcb =>
                 t \in Reconn /\ pc[t] \in {"clear", "reclose", "refree"}
           /\ authFails \in Nat
  BY SessionAssumption DEF TypeInv, TypeOK, SteadyInv, Threads, Reconnecter

\* The new control block becomes that of ppp_pcb_handle.
LEMMA SteadyStartCreate ==
    ASSUME TypeInv, SteadyInv, NEW t \in Threads, StartCreate(t)
    PROVE  SteadyInv'
  <1>1. pc[t] = "create" /\ Alone(t) /\ Clear /\ cached /\ hook /\ ~Fresh
    BY DEF StartCreate, At, SteadyInv, Starter, Fresh
  <1>2. UNCHANGED <<carrier, flaps, evq, link, active, cached, hook, connected, authFails, defRoute,
                    loc, cb, crash>>
    BY <1>1 DEF StartCreate, Clear, Allocated, envVars, budgetVars, statusVars, cbVars
  <1>3. CASE Goto(t, "auth") /\ \E p \in Pcbs : phase' = [phase EXCEPT ![p] = "dead"] /\ handle' = p
    <2>1. pc' = [pc EXCEPT ![t] = "auth"] /\ ahead' = ahead
      BY <1>3 DEF Goto, Resting
    <2>2. PICK p \in Pcbs : phase' = [phase EXCEPT ![p] = "dead"] /\ handle' = p
      BY <1>3
    <2>4. \A u \in Threads : Starter(u)'
      BY <1>1, <1>2, <2>1, <2>2, SteadyTypes DEF Starter, Alone, Clear, Lost
    <2>5. \A u \in Reconn : Reconnecter(u)'
      BY <1>1, <1>2, <2>1, <2>2, SteadyTypes DEF Reconnecter, Alone
    <2>6. Owned' /\ Published'
      BY <1>1, <1>2, <2>1, <2>2, SteadyTypes DEF SteadyInv, Owned, Published, Clear
    <2> QED BY <1>1, <1>2, <2>1, <2>2, <2>4, <2>5, <2>6, SteadyTypes DEF SteadyInv, Losing, InCharge, StopPcs
  <1>4. CASE CreateMayFail /\ handle' = NoPcb /\ Return(t) /\ UNCHANGED phase
    <2>1. /\ pc' = [pc EXCEPT ![t] = IF t = Evt THEN "idle" ELSE "none"]
          /\ \A r \in Reconn : ahead'[r] = ahead[r] \ {t}
      BY <1>4 DEF Return, Goto, Resting
    <2>4. \A u \in Threads : Starter(u)'
      BY <1>1, <1>2, <1>4, <2>1, SteadyTypes DEF Starter, Alone, Clear, Lost
    <2>5. \A u \in Reconn : Reconnecter(u)'
      BY <1>1, <1>2, <1>4, <2>1, SteadyTypes DEF Reconnecter, Alone
    <2> QED BY <1>1, <1>2, <1>4, <2>1, <2>4, <2>5, SteadyTypes
        DEF SteadyInv, Losing, Owned, Published, Clear, InCharge, StopPcs
  <1> QED BY <1>1, <1>3, <1>4 DEF StartCreate, Clear, Allocated

\* Nothing that SteadyInv speaks of changes but the place.
LEMMA SteadyStartAuth ==
    ASSUME TypeInv, SteadyInv, NEW t \in Threads, StartAuth(t)
    PROVE  SteadyInv'
  <1>1. pc[t] = "auth" /\ Alone(t) /\ Lost /\ cached /\ hook /\ ~Fresh
    BY DEF StartAuth, At, SteadyInv, Starter, Fresh
  <1>2. UNCHANGED <<carrier, flaps, evq, link, phase, handle, active, cached, hook, connected,
                    authFails, defRoute, loc, cb, crash>>
    BY <1>1 DEF StartAuth, Lost, envVars, budgetVars, statusVars, cbVars
  <1>3. pc' = [pc EXCEPT ![t] = "connect"] /\ ahead' = ahead
    BY <1>1 DEF StartAuth, Lost, Goto, Resting
  <1>4. \A u \in Threads : Starter(u)'
    BY <1>1, <1>2, <1>3, SteadyTypes DEF Starter, Alone, Clear, Lost
  <1>5. \A u \in Reconn : Reconnecter(u)'
    BY <1>1, <1>2, <1>3, SteadyTypes DEF SteadyInv, Reconnecter, Alone
  <1> QED BY <1>1, <1>2, <1>3, <1>4, <1>5, SteadyTypes
      DEF SteadyInv, Losing, Fresh, Owned, Published, InCharge, StopPcs

\* The block is dead, so pppapi_connect() accepts it.
LEMMA SteadyStartConnect ==
    ASSUME TypeInv, SteadyInv, NEW t \in Threads, StartConnect(t)
    PROVE  SteadyInv'
  <1>1. pc[t] = "connect" /\ Alone(t) /\ Lost /\ cached /\ hook /\ ~Fresh
    BY DEF StartConnect, At, SteadyInv, Starter, Fresh
  <1>2. UNCHANGED <<carrier, flaps, evq, link, handle, active, cached, hook, connected, authFails,
                    defRoute, loc, cb, crash>>
    BY <1>1 DEF StartConnect, Lost, envVars, budgetVars, statusVars, cbVars
  <1>3. pc' = [pc EXCEPT ![t] = "commit"] /\ ahead' = ahead
        /\ phase' = [phase EXCEPT ![handle] = "discover"]
    BY <1>1 DEF StartConnect, Lost, Goto, Resting
  <1>4. \A u \in Threads : Starter(u)'
    BY <1>1, <1>2, <1>3, SteadyTypes DEF Starter, Alone, Clear, Lost
  <1>5. \A u \in Reconn : Reconnecter(u)'
    BY <1>1, <1>2, <1>3, SteadyTypes DEF SteadyInv, Reconnecter, Alone
  <1>6. Owned' /\ Published'
    BY <1>1, <1>2, <1>3, SteadyTypes DEF SteadyInv, Owned, Published, Lost
  <1> QED BY <1>1, <1>2, <1>3, <1>4, <1>5, <1>6, SteadyTypes DEF SteadyInv, Losing, Fresh, InCharge, StopPcs

\* The start returns, maybe after its session was lost: a reconnect task then sleeps.
LEMMA SteadyStartCommit ==
    ASSUME TypeInv, SteadyInv, NEW t \in Threads, StartCommit(t)
    PROVE  SteadyInv'
  <1>1. pc[t] = "commit" /\ handle # NoPcb /\ cached /\ hook /\ ~Fresh
    BY DEF StartCommit, At, SteadyInv, Starter, Fresh
  <1>2. UNCHANGED <<carrier, flaps, evq, link, phase, handle, cached, hook, connected, authFails,
                    defRoute, loc, cb, crash>>
    BY DEF StartCommit, envVars, budgetVars, statusVars, cbVars
  <1>3. /\ pc' = [pc EXCEPT ![t] = IF t = Evt THEN "idle" ELSE "none"]
        /\ ahead' = [r \in Reconn |-> ahead[r] \ {t}]
    BY DEF StartCommit, Return, Goto, Resting
  <1>a. \A u \in Threads : u # t => pc[u] \in {"idle", "none", "sleep"}
    BY <1>1 DEF SteadyInv, Starter
  <1>b. \A u \in Reconn : pc[u] = "sleep" =>
            \A v \in Threads : v \notin {u, t} => pc[v] \in {"idle", "none"}
    BY <1>1, <1>a, SteadyTypes DEF SteadyInv, Reconnecter
  <1>4. \A u \in Threads : Starter(u)'
    BY <1>1, <1>2, <1>3, <1>a, SteadyTypes DEF Starter, Alone, Clear, Lost
  <1>5. \A u \in Reconn : Reconnecter(u)'
    BY <1>1, <1>2, <1>3, <1>a, <1>b, SteadyTypes DEF SteadyInv, Reconnecter, Alone, Lost
  <1>6. Losing'
    BY <1>2, <1>3, SteadyTypes DEF SteadyInv, Losing, Lost
  <1> QED BY <1>1, <1>2, <1>3, <1>4, <1>5, <1>6, SteadyTypes
      DEF SteadyInv, Fresh, Owned, Published, InCharge, StopPcs

\* The session is the one of ppp_pcb_handle.
LEMMA SteadyOwner ==
    ASSUME TypeInv, SteadyInv, NEW p \in Pcbs, phase[p] \notin {"free", "dead"}
    PROVE  /\ p = handle /\ cached /\ hook /\ carrier /\ evq = <<>> /\ ~Fresh
           /\ \A t \in Threads : pc[t] \in {"idle", "none", "commit"}
  <1>1. p = handle /\ cached /\ hook /\ handle # NoPcb /\ ~Fresh
    BY SteadyTypes DEF SteadyInv, Owned, Fresh
  <1>2. carrier /\ evq = <<>>
    BY <1>1 DEF SteadyInv
  <1>3. \A t \in Threads : pc[t] \in StartPcs => pc[t] = "commit"
    BY <1>1, SteadyTypes DEF SteadyInv, Starter, Lost, Clear, StartPcs
  <1>4. \A t \in Reconn : pc[t] \notin ReconnPcs
    BY <1>1, SteadyTypes DEF SteadyInv, Reconnecter, Lost, Clear, ReconnPcs
  <1>5. pc[Evt] \in EvtPcs \ StopPcs /\ \A t \in Reconn : pc[t] \in TaskPcs
    BY DEF TypeInv, TypeOK, SteadyInv
  <1> QED BY <1>1, <1>2, <1>3, <1>4, <1>5 DEF Threads, EvtPcs, TaskPcs

\* Negotiation, and the status callback with PPPERR_NONE.
LEMMA SteadyProgress ==
    ASSUME TypeInv, SteadyInv, NEW p \in Pcbs, Progress(p)
    PROVE  SteadyInv'
  <1>1. PICK q \in {"negotiate", "running"} :
           /\ phase[p] \notin {"free", "dead"}
           /\ phase' = [phase EXCEPT ![p] = q]
           /\ q = "running" => connected' = TRUE /\ defRoute' = TRUE
           /\ q = "negotiate" => phase[p] # "running" /\ UNCHANGED <<connected, defRoute>>
           /\ cb' # "down"
           /\ UNCHANGED <<carrier, flaps, evq, link, handle, active, cached, hook, pc, ahead,
                         authFails, loc, crash>>
    BY DEF Progress, Discovered, Established, Terminated, InPhase, SteadyInv, Owned, envVars, budgetVars,
           mgrVars, statusVars, taskVars, cbVars
  <1>2. p = handle /\ cached /\ hook /\ carrier /\ evq = <<>> /\ ~Fresh
           /\ \A t \in Threads : pc[t] \in {"idle", "none", "commit"}
    BY <1>1, SteadyOwner
  <1>4. \A u \in Threads : Starter(u)'
    BY <1>1, <1>2, SteadyTypes DEF SteadyInv, Starter
  <1>5. \A u \in Reconn : Reconnecter(u)'
    BY <1>1, <1>2, SteadyTypes DEF SteadyInv, Reconnecter
  <1>6. Owned' /\ Published'
    BY <1>1, <1>2, SteadyTypes DEF SteadyInv, Owned, Published
  <1> QED BY <1>1, <1>2, <1>4, <1>5, <1>6, SteadyTypes DEF SteadyInv, Losing, InCharge

\* The status callback with an error: the statics are cleared at once.
LEMMA SteadySessionLost ==
    ASSUME TypeInv, SteadyInv, NEW p \in Pcbs, SessionLost(p)
    PROVE  SteadyInv'
  <1>1. /\ phase[p] \notin {"free", "dead"}
        /\ phase' = [phase EXCEPT ![p] = "dead"]
        /\ connected' = FALSE /\ defRoute' = FALSE /\ cb' = "down"
        /\ UNCHANGED <<carrier, flaps, evq, link, handle, active, cached, hook, authFails, pc, ahead,
                       loc, crash>>
    BY DEF SessionLost, DisconnectCallback, InPhase, envVars, mgrVars, taskVars
  <1>2. p = handle /\ cached /\ hook /\ carrier /\ evq = <<>> /\ ~Fresh
           /\ \A t \in Threads : pc[t] \in {"idle", "none", "commit"}
    BY <1>1, SteadyOwner
  <1>4. \A u \in Threads : Starter(u)'
    BY <1>1, <1>2, SteadyTypes DEF SteadyInv, Starter
  <1>5. \A u \in Reconn : Reconnecter(u)'
    BY <1>1, <1>2, SteadyTypes DEF SteadyInv, Reconnecter
  <1>6. Owned' /\ Published' /\ Losing'
    BY <1>1, <1>2, SteadyTypes DEF SteadyInv, Owned, Published, Losing, Lost
  <1> QED BY <1>1, <1>2, <1>4, <1>5, <1>6, SteadyTypes DEF SteadyInv, InCharge, StopPcs

\* The rest of the callbacks.  Only the start that made the session can be under way when
\* it is lost, and the new reconnect task sleeps until it has returned.
LEMMA SteadyCallback ==
    ASSUME TypeInv, SteadyInv, Callback
    PROVE  SteadyInv'
  <1>1. CASE PublishUp
    BY <1>1 DEF PublishUp, SteadyInv, Losing, Fresh, Starter, Reconnecter, Owned, Published, InCharge,
           Alone, Lost, Clear, envVars, budgetVars, mgrVars, taskVars
  <1>2. CASE PublishDown
    <2>1. /\ Lost /\ cached /\ hook /\ ~Fresh /\ carrier /\ evq = <<>>
          /\ \A t \in Threads : pc[t] \in {"idle", "none", "commit"}
      BY <1>2 DEF PublishDown, SteadyInv, Losing, Lost, Fresh
    <2>2. UNCHANGED <<carrier, flaps, evq, link, phase, handle, active, cached, hook, connected,
                      authFails, defRoute, loc, crash>>
      BY <1>2 DEF PublishDown, envVars, budgetVars, mgrVars
    <2>3. PICK t \in Reconn :
             /\ pc[t] = "none"
             /\ pc' = [pc EXCEPT ![t] = "sleep"]
             /\ ahead' = [ahead EXCEPT ![t] = {u \in Threads : pc[u] \notin Resting}]
      BY <1>2 DEF PublishDown
    <2>a. \A u, v \in Threads : pc[u] = "commit" /\ pc[v] = "commit" => u = v
      BY <2>1 DEF SteadyInv, Starter
    <2>b. \A u \in Threads : pc[u] = "commit" => u \in ahead'[t]
      BY <2>3, SteadyTypes DEF Resting
    <2>4. \A u \in Threads : Starter(u)'
      BY <2>1, <2>2, <2>3, <2>a, <2>b, SteadyTypes DEF SteadyInv, Starter
    <2>5. \A u \in Reconn : Reconnecter(u)'
      BY <2>1, <2>2, <2>3, <2>a, <2>b, SteadyTypes DEF SteadyInv, Reconnecter, Lost
    <2>6. Owned' /\ Published' /\ Losing'
      BY <1>2, <2>1, <2>2, SteadyTypes DEF SteadyInv, Owned, Published, Losing, PublishDown
    <2> QED BY <2>1, <2>2, <2>3, <2>4, <2>5, <2>6, SteadyTypes DEF SteadyInv, InCharge, StopPcs
  <1> QED BY <1>1, <1>2 DEF Callback

\* A refused login leaves the block and the default route.
LEMMA SteadyAuthFail ==
    ASSUME TypeInv, SteadyInv, NEW p \in Pcbs, AuthFail(p)
    PROVE  SteadyInv'
  <1>1. /\ phase[p] \notin {"free", "dead"}
        /\ phase' = [phase EXCEPT ![p] = "dead"]
        /\ connected' = FALSE /\ authFails' = authFails + 1 /\ defRoute' = defRoute /\ cb = "none"
        /\ UNCHANGED <<carrier, flaps, evq, link, handle, active, cached, hook, pc, ahead, loc, cb, crash>>
    BY DEF AuthFail, InPhase, envVars, mgrVars, taskVars, cbVars
  <1>2. p = handle /\ cached /\ hook /\ carrier /\ evq = <<>> /\ ~Fresh
           /\ \A t \in Threads : pc[t] \in {"idle", "none", "commit"}
    BY <1>1, SteadyOwner
  <1>4. \A u \in Threads : Starter(u)'
    BY <1>1, <1>2, SteadyTypes DEF SteadyInv, Starter
  <1>5. \A u \in Reconn : Reconnecter(u)'
    BY <1>1, <1>2, SteadyTypes DEF SteadyInv, Reconnecter
  <1>6. Owned' /\ Published'
    BY <1>1, <1>2, SteadyTypes DEF SteadyInv, Owned, Published
  <1> QED BY <1>1, <1>2, <1>4, <1>5, <1>6, SteadyTypes DEF SteadyInv, Losing, InCharge

\* The sleep is over: the start that was ahead has returned.
LEMMA SteadyWake ==
    ASSUME TypeInv, SteadyInv, NEW t \in Reconn, ReconnWake(t)
    PROVE  SteadyInv'
  <1>1. pc[t] = "sleep" /\ Lost /\ cached /\ hook /\ ~Fresh /\ ahead[t] = {}
    BY SteadyTypes DEF ReconnWake, At, SteadyInv, Reconnecter, Fresh
  <1>2. Alone(t)
    BY <1>1, SteadyTypes DEF SteadyInv, Reconnecter, Alone
  <1>3. UNCHANGED <<carrier, flaps, evq, link, phase, handle, active, cached, hook, connected,
                    authFails, defRoute, loc, cb, crash>>
    BY DEF ReconnWake, envVars, budgetVars, mgrVars, statusVars, cbVars
  <1>4. pc' = [pc EXCEPT ![t] = "take"] /\ ahead' = ahead
    BY DEF ReconnWake, Goto, Resting
  <1>5. \A u \in Threads : Starter(u)'
    BY <1>1, <1>2, <1>3, <1>4, SteadyTypes DEF Starter, Alone
  <1>6. \A u \in Reconn : Reconnecter(u)'
    BY <1>1, <1>2, <1>3, <1>4, SteadyTypes DEF SteadyInv, Reconnecter, Alone, Lost
  <1> QED BY <1>1, <1>2, <1>3, <1>4, <1>5, <1>6, SteadyTypes
      DEF SteadyInv, Losing, Owned, Published, InCharge, StopPcs

\* The reconnect task takes the handle of the dead block ...
LEMMA SteadyTake ==
    ASSUME TypeInv, SteadyInv, NEW t \in Reconn, ReconnTake(t)
    PROVE  SteadyInv'
  <1>1. pc[t] = "take" /\ Alone(t) /\ Lost /\ cached /\ hook /\ ~Fresh
    BY SteadyTypes DEF ReconnTake, At, SteadyInv, Reconnecter, Fresh
  <1>3. UNCHANGED <<carrier, flaps, evq, link, phase, handle, active, cached, hook, connected,
                    authFails, defRoute, cb, crash>>
    BY DEF ReconnTake, envVars, budgetVars, mgrVars, statusVars, cbVars
  <1>4. pc' = [pc EXCEPT ![t] = "clear"] /\ ahead' = ahead /\ loc' = [loc EXCEPT ![t] = handle]
    BY DEF ReconnTake, Goto, Resting
  <1>5. \A u \in Threads : Starter(u)'
    BY <1>1, <1>3, <1>4, SteadyTypes DEF Starter, Alone
  <1>6. \A u \in Reconn : Reconnecter(u)'
    BY <1>1, <1>3, <1>4, SteadyTypes DEF SteadyInv, Reconnecter, Alone, Lost
  <1>7. Owned' /\ Published'
    BY <1>1, <1>3, <1>4, SteadyTypes DEF SteadyInv, Owned, Published, Lost
  <1> QED BY <1>1, <1>3, <1>4, <1>5, <1>6, <1>7, SteadyTypes DEF SteadyInv, Losing, InCharge, StopPcs

\* ... and clears it.
LEMMA SteadyClear ==
    ASSUME TypeInv, SteadyInv, NEW t \in Reconn, ReconnClear(t)
    PROVE  SteadyInv'
  <1>1. /\ pc[t] = "clear" /\ Alone(t) /\ Lost /\ cached /\ hook /\ ~Fresh
        /\ loc[t] = handle
    BY SteadyTypes DEF ReconnClear, At, SteadyInv, Reconnecter, Fresh
  <1>3. /\ handle' = NoPcb /\ active' = FALSE
        /\ UNCHANGED <<carrier, flaps, evq, link, phase, cached, hook, connected,
                      authFails, defRoute, loc, cb, crash>>
    BY DEF ReconnClear, envVars, budgetVars, statusVars, cbVars
  <1>4. pc' = [pc EXCEPT ![t] = "reclose"] /\ ahead' = ahead
    BY <1>1 DEF ReconnClear, Goto, Resting, Lost
  <1>5. \A u \in Threads : Starter(u)'
    BY <1>1, <1>3, <1>4, SteadyTypes DEF Starter, Alone
  <1>6. \A u \in Reconn : Reconnecter(u)'
    BY <1>1, <1>3, <1>4, SteadyTypes DEF SteadyInv, Reconnecter, Alone, Lost
  <1>7. Owned' /\ Published'
    BY <1>1, <1>3, <1>4, SteadyTypes DEF SteadyInv, Owned, Published, Lost
  <1> QED BY <1>1, <1>3, <1>4, <1>5, <1>6, <1>7, SteadyTypes DEF SteadyInv, Losing, InCharge, StopPcs

\* The block is dead: the close reports to the status callback at once, which finds
\* ppp_pcb_handle cleared and frees nothing.
LEMMA SteadyClose ==
    ASSUME TypeInv, SteadyInv, NEW t \in Reconn, ReconnClose(t)
    PROVE  SteadyInv'
  <1>1. /\ pc[t] = "reclose" /\ Alone(t) /\ handle = NoPcb /\ ~active /\ cached /\ hook /\ ~Fresh
        /\ loc[t] \in Pcbs /\ phase[loc[t]] = "dead"
    BY SteadyTypes DEF ReconnClose, At, SteadyInv, Reconnecter, Fresh
  <1>2. phase' = [phase EXCEPT ![loc[t]] = "dead"] /\ handle' = NoPcb /\ active' = FALSE
        /\ UNCHANGED <<defRoute, crash>>
    BY <1>1 DEF ReconnClose, PppClose, UserCallback
  <1>a. phase' = phase
    BY <1>1, <1>2, SteadyTypes
  <1>3. UNCHANGED <<carrier, flaps, evq, link, cached, hook, connected, authFails, loc, cb>>
    BY DEF ReconnClose, envVars, budgetVars, statusVars, cbVars
  <1>4. pc' = [pc EXCEPT ![t] = "refree"] /\ ahead' = ahead
    BY DEF ReconnClose, Goto, Resting
  <1>5. \A u \in Threads : Starter(u)'
    BY <1>1, <1>2, <1>a, <1>3, <1>4, SteadyTypes DEF Starter, Alone
  <1>6. \A u \in Reconn : Reconnecter(u)'
    BY <1>1, <1>2, <1>a, <1>3, <1>4, SteadyTypes DEF SteadyInv, Reconnecter, Alone
  <1> QED BY <1>1, <1>2, <1>a, <1>3, <1>4, <1>5, <1>6, SteadyTypes
      DEF SteadyInv, Losing, Owned, Published, InCharge, StopPcs

\* The block that the task took is freed, and nothing is left.
LEMMA SteadyFree ==
    ASSUME TypeInv, SteadyInv, NEW t \in Reconn, ReconnFree(t)
    PROVE  SteadyInv'
  <1>1. /\ pc[t] = "refree" /\ Alone(t) /\ handle = NoPcb /\ ~active /\ cached /\ hook /\ ~Fresh
        /\ loc[t] \in Pcbs /\ phase[loc[t]] = "dead"
    BY SteadyTypes DEF ReconnFree, At, SteadyInv, Reconnecter, Fresh
  <1>2. phase' = [phase EXCEPT ![loc[t]] = "free"] /\ defRoute' = FALSE
        /\ UNCHANGED <<handle, active, crash>>
    BY <1>1 DEF ReconnFree, PppFree, Freed
  <1>3. /\ loc' = [loc EXCEPT ![t] = NoPcb]
        /\ UNCHANGED <<carrier, flaps, evq, link, cached, hook, connected, authFails, cb>>
    BY DEF ReconnFree, envVars, budgetVars, statusVars, cbVars
  <1>4. pc' = [pc EXCEPT ![t] = "relink"] /\ ahead' = ahead
    BY DEF ReconnFree, Goto, Resting
  <1>a. \A p \in Pcbs : phase'[p] = "free"
    BY <1>1, <1>2, SteadyTypes DEF SteadyInv, Owned, Alone
  <1>5. \A u \in Threads : Starter(u)'
    BY <1>1, <1>2, <1>a, <1>3, <1>4, SteadyTypes DEF Starter, Alone
  <1>6. \A u \in Reconn : Reconnecter(u)'
    BY <1>1, <1>2, <1>a, <1>3, <1>4, SteadyTypes DEF SteadyInv, Reconnecter, Alone, Clear
  <1> QED BY <1>1, <1>2, <1>a, <1>3, <1>4, <1>5, <1>6, SteadyTypes
      DEF SteadyInv, Losing, Owned, Published, InCharge, StopPcs

\* The link is up and the netif known, so the task dials again.
LEMMA SteadyRelink ==
    ASSUME TypeInv, SteadyInv, NEW t \in Reconn, ReconnRelink(t)
    PROVE  SteadyInv'
  <1>1. /\ pc[t] = "relink" /\ Alone(t) /\ Clear /\ cached /\ hook /\ ~Fresh
        /\ carrier /\ evq = <<>> /\ link
    BY SteadyTypes DEF ReconnRelink, At, SteadyInv, Reconnecter, Fresh
  <1>3. UNCHANGED <<carrier, flaps, evq, link, phase, handle, active, cached, hook, connected,
                    authFails, defRoute, loc, cb, crash>>
    BY DEF ReconnRelink, envVars, budgetVars, mgrVars, statusVars, cbVars
  <1>4. pc' = [pc EXCEPT ![t] = "start"] /\ ahead' = ahead
    BY <1>1 DEF ReconnRelink, Goto, Resting
  <1>5. \A u \in Threads : Starter(u)'
    BY <1>1, <1>3, <1>4, SteadyTypes DEF Starter, Alone, Clear
  <1>6. \A u \in Reconn : Reconnecter(u)'
    BY <1>1, <1>3, <1>4, SteadyTypes DEF SteadyInv, Reconnecter, Alone
  <1> QED BY <1>1, <1>3, <1>4, <1>5, <1>6, SteadyTypes DEF SteadyInv, Losing, Owned, Published, InCharge, StopPcs

\* At boot nothing has been touched.
LEMMA SteadyInit == Init => (flaps <= 1 => SteadyInv)
  BY SessionAssumption
  DEF Init, SteadyInv, Losing, Fresh, Starter, Reconnecter, Owned, Published, StopPcs, Threads

\* No step but a second change of the cable breaks SteadyInv.
LEMMA SteadyStep ==
    ASSUME TypeInv, [Next]_vars, flaps <= 1 => SteadyInv
    PROVE  flaps' <= 1 => SteadyInv'
  <1> SUFFICES ASSUME flaps' <= 1 PROVE SteadyInv'
    OBVIOUS
  <1>1. CASE CarrierChange
    <2>1. flaps <= 1
      BY <1>1 DEF CarrierChange, TypeInv, TypeOK
    <2> QED BY <1>1, <2>1, SteadyCarrier
  <1>2. CASE UNCHANGED flaps
    <2> SteadyInv
      BY <1>2
    <2>1. ASSUME NEW t \in Threads, Start(t) PROVE SteadyInv'
      <3>1. ~StartFail(t)
        BY DEF SteadyInv, Starter, StartFail, At
      <3> QED BY <2>1, <3>1, SteadyStartCheck, SteadyStartCreate, SteadyStartAuth, SteadyStartConnect,
                 SteadyStartCommit DEF Start
    <2>2. CASE EventTask
      <3>1. ~LinkDown /\ ~StopCheck /\ ~StopClose /\ ~StopFinish
        BY DEF SteadyInv, Losing, LinkDown, StopCheck, StopClose, StopFinish, At, StopPcs
      <3> QED BY <2>1, <2>2, <3>1, SteadyLinkUp, SteadyTypes DEF EventTask
    <2>3. ASSUME NEW t \in Reconn, ReconnectTask(t) PROVE SteadyInv'
      BY <2>1, <2>3, SteadyTypes, SteadyWake, SteadyTake, SteadyClear, SteadyClose, SteadyFree, SteadyRelink
      DEF ReconnectTask
    <2>4. CASE UNCHANGED vars
      BY <2>4
      DEF vars, envVars, budgetVars, mgrVars, statusVars, taskVars, cbVars, SteadyInv, Losing, Fresh, Starter,
          Reconnecter, Owned, Published, InCharge, Alone, Lost, Clear
    <2>5. CASE CarrierChange
      BY <1>1, <2>5
    <2> QED BY <2>2, <2>3, <2>4, <2>5, SteadyProgress, SteadyCallback, SteadySessionLost,
           SteadyAuthFail DEF Next, Failure
  <1>3. CarrierChange \/ UNCHANGED flaps
    BY DEF Next, EventTask, ReconnectTask, Callback, Start, Progress, Failure, LinkUp, LinkDown,
           StopCheck, StopClose, StopFinish, StartCheck, StartCreate, StartAuth, StartConnect,
           StartFail, StartCommit, ReconnWake, ReconnTake, ReconnClear, ReconnClose, ReconnFree,
           ReconnRelink, Discovered, Established, Terminated, SessionLost, DisconnectCallback,
           AuthFail, PublishUp, PublishDown, vars, envVars
  <1> QED BY <1>1, <1>2, <1>3

\* SteadyInv holds until the link goes down.
LEMMA Steady == Spec => [](flaps <= 1 => TypeInv /\ SteadyInv)
  <1>1. Init => TypeInv /\ (flaps <= 1 => SteadyInv)
    BY InitType, SteadyInit
  <1>2. TypeInv /\ (flaps <= 1 => SteadyInv) /\ [Next]_vars => TypeInv' /\ (flaps <= 1 => SteadyInv)'
    BY TypeStep, SteadyStep
  <1> QED BY <1>1, <1>2, PTL DEF Spec

\* Until the link has gone down, no task uses a control block that another has freed or
\* that lwIP no longer expects: lost sessions and refused logins alone never crash.
THEOREM SteadyNoCrash == Spec => [](flaps <= 1 => NoCrash)
  <1>1. SteadyInv => NoCrash
    BY DEF SteadyInv, NoCrash
  <1> QED BY <1>1, Steady, PTL

\* Until the link has gone down, pppoe_is_connected() says whether there is a session, also
\* while it is lost and dialled again.
THEOREM SteadyStatus == Spec => [](flaps <= 1 => StatusTruthful)
  <1>1. TypeInv /\ SteadyInv => StatusTruthful
    BY SteadyTypes DEF SteadyInv, StatusTruthful, Running, Owned, Published
  <1> QED BY <1>1, Steady, PTL

\* Until the link has gone down, every control block is in ppp_pcb_handle or in the hands of
\* the reconnect task that frees it.
THEOREM SteadyNoLeak == Spec => [](flaps <= 1 => NoLeak)
  <1>1. SteadyInv => NoLeak
    BY DEF SteadyInv, NoLeak, Allocated, Owned
  <1> QED BY <1>1, Steady, PTL

\* Until the link has gone down, and but for refused logins, the default route leads to a
\* session.
THEOREM SteadyRoute == Spec => [](flaps <= 1 => RouteHasSession)
  <1>1. TypeInv /\ SteadyInv => RouteHasSession
    BY SteadyTypes DEF SteadyInv, RouteHasSession, Running, Published
  <1> QED BY <1>1, Steady, PTL

\* With memory for the control block, and until the link has gone down: a router with a
\* link is never left without a session that nobody is dialling.
THEOREM SteadyInCharge ==
    ASSUME CreateMayFail = FALSE
    PROVE  Spec => [](flaps <= 1 => NotStranded)
  <1>1. TypeInv /\ SteadyInv => NotStranded
    <2> SUFFICES ASSUME TypeInv, SteadyInv, ~NotStranded PROVE FALSE
      OBVIOUS
    <2>1. handle # NoPcb
      BY SteadyTypes DEF NotStranded, SteadyInv, Losing, InCharge, Threads
    <2>2. phase[handle] = "free" /\ handle \in Pcbs /\ \A u \in Threads : pc[u] \in {"idle", "none"}
      BY <2>1, SteadyTypes DEF NotStranded, Allocated, Threads
    <2> QED BY <2>1, <2>2 DEF SteadyInv, Owned
  <1> QED BY <1>1, Steady, PTL
=============================================================================
