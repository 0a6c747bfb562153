---------------------------- MODULE ServiceProofs ----------------------------
(***************************************************************************)
(* Two services that other tasks switch on and off while they run.         *)
(*                                                                         *)
(* The remote console, for any number of tasks and callers: OneServer,     *)
(* provided that the calls of its API do not overlap.  The handle names    *)
(* the one task there is, from its creation to its last step, so that no   *)
(* call that finds no handle can be followed by a second task; the mutex   *)
(* belongs to that task's session.                                         *)
(*                                                                         *)
(* MQTT, which has no constants: OffIsOffline.  Whoever is "online" at the *)
(* broker has a session there, alive or dead, unless the last stop missed  *)
(* it; a stop that is about to disconnect has said "offline", or finds the *)
(* client before its first "online".                                       *)
(***************************************************************************)
EXTENDS RemoteConsole, MqttHa, FiniteSetTheorems, TLAPS

-----------------------------------------------------------------------------
(* The remote console                                                      *)

TaskPcs == {"none", "outer", "retry", "socket", "bind", "inner", "accept", "close", "exit",
            "gone", "take", "auth", "delay", "start", "loop", "recv", "run", "api", "cleanup"}

\* Where a task holds rc_state.session_mutex.
Sessions == {"auth", "delay", "start", "loop", "recv", "run", "api", "cleanup"}

\* The handle is NULL exactly when there is no task.
Handled ==
    /\ pc \in [Tasks -> TaskPcs]
    /\ handle \in Tasks \cup {NoTask}
    /\ \A t \in Tasks : pc[t] /= "none" <=> handle = t

\* The mutex is held by nobody but the client's session.
Locked == \A t \in Tasks : mutex = t => pc[t] \in Sessions

\* At most one call is under way, and one that creates the task has found no handle.
OneCall ==
    /\ call = [c \in Who |-> call[c]]
    /\ \A c, d \in Who : call[c] /= "idle" /\ call[d] /= "idle" => c = d
    /\ \A c \in Who : call[c] = "enCreate" => handle = NoTask

ConsoleInv == Handled /\ (mutex \in Tasks \cup {NoTask} /\ Locked) /\ OneCall

\* Nothing runs before remote_console_init() has created the task.
LEMMA ConsoleInit == Init => ConsoleInv
BY ConsoleAssumption DEF Init, ConsoleInv, Handled, Locked, OneCall, TaskPcs

\* A step of the task that neither starts nor ends it.
LEMMA TaskMoves ==
    ASSUME ConsoleInv, NEW t \in Tasks, NEW l \in TaskPcs \ {"none"}, pc[t] /= "none",
           Goto(t, l), UNCHANGED <<handle, call>>,
           \/ mutex' = NoTask
           \/ mutex' = t /\ l \in Sessions
           \/ mutex' = mutex /\ (pc[t] \in Sessions => l \in Sessions)
    PROVE  ConsoleInv'
<1>1. Handled'
  BY DEF ConsoleInv, Handled, Goto
<1>2. (mutex \in Tasks \cup {NoTask} /\ Locked)'
  BY ConsoleAssumption DEF ConsoleInv, Handled, Locked, Goto
<1>3. OneCall'
  BY DEF ConsoleInv, OneCall
<1> QED
  BY <1>1, <1>2, <1>3 DEF ConsoleInv

\* The task runs, from the first step to the last.
LEMMA TaskSteps ==
    ASSUME ConsoleInv, NEW t \in Tasks, Run(t) \/ Client(t)
    PROVE  ConsoleInv'
<1> USE DEF flags, sockets, TaskPcs, Sessions
<1>1. CASE Outer(t) \/ MakeSocket(t) \/ Listen(t) \/ Inner(t)
  BY <1>1, TaskMoves DEF Outer, MakeSocket, Listen, Inner
<1>2. CASE AcceptClient(t) \/ AcceptFails(t) \/ CloseServer(t) \/ ExitState(t)
  BY <1>2, TaskMoves DEF AcceptClient, AcceptFails, CloseServer, ExitState
<1>3. CASE ExitHandle(t)
  <2>1. handle' = NoTask /\ pc' = [pc EXCEPT ![t] = "none"] /\ mutex' = mutex /\ call' = call
    BY <1>3 DEF ExitHandle, Goto
  <2>2. pc[t] = "gone" /\ handle = t
    BY <1>3 DEF ExitHandle, ConsoleInv, Handled
  <2>3. Handled'
    BY <2>1, <2>2, ConsoleAssumption DEF ConsoleInv, Handled
  <2>4. (mutex \in Tasks \cup {NoTask} /\ Locked)'
    BY <2>1, <2>2 DEF ConsoleInv, Handled, Locked
  <2>5. OneCall'
    BY <2>1 DEF ConsoleInv, OneCall
  <2> QED
    BY <2>3, <2>4, <2>5 DEF ConsoleInv
<1>4. CASE Take(t) \/ LogIn(t) \/ NoLogin(t) \/ AuthDelay(t)
  BY <1>4, TaskMoves DEF Take, LogIn, NoLogin, AuthDelay
<1>5. CASE WrongPassword(t) \/ Start(t) \/ Loop(t)
  BY <1>5, TaskMoves DEF WrongPassword, Start, Loop
<1>6. CASE RecvLine(t) \/ RecvPoll(t) \/ RunDone(t) \/ Cleanup(t)
  BY <1>6, TaskMoves DEF RecvLine, RecvPoll, RunDone, Cleanup
<1> QED
  BY <1>1, <1>2, <1>3, <1>4, <1>5, <1>6 DEF Run, Client

\* A call goes on; only the one that has found no handle may create the task.
LEMMA CallGoesOn ==
    ASSUME ConsoleInv, NEW c \in Who, NEW l, call[c] /= "idle", Call(c, l),
           UNCHANGED <<handle, mutex, pc>>, l = "enCreate" => handle = NoTask
    PROVE  ConsoleInv'
<1>1. Handled' /\ (mutex \in Tasks \cup {NoTask} /\ Locked)'
  BY DEF ConsoleInv, Handled, Locked
<1>2. OneCall'
  BY DEF ConsoleInv, OneCall, Call
<1> QED
  BY <1>1, <1>2 DEF ConsoleInv

LEMMA ApiSteps ==
    ASSUME ConsoleInv, NEW c \in Who, Api(c)
    PROVE  ConsoleInv'
<1> USE DEF flags, sockets, server
<1>1. CASE Enable(c) \/ EnableHandle(c) \/ EnableState(c)
  BY <1>1, CallGoesOn DEF Enable, EnableHandle, EnableState
<1>2. CASE EnableCreate(c)
  <2>0. call[c] = "enCreate" /\ handle = NoTask /\ mutex' = mutex
    BY <1>2 DEF EnableCreate, ConsoleInv, OneCall
  <2>1. CASE Call(c, "idle") /\ UNCHANGED <<handle, pc>>
    BY <2>0, <2>1, CallGoesOn
  <2>2. ASSUME NEW t \in Tasks, pc[t] = "none", handle' = t, Goto(t, "outer"),
               Call(c, "enState")
        PROVE  ConsoleInv'
    <3>1. Handled'
      BY <2>0, <2>2, ConsoleAssumption DEF ConsoleInv, Handled, Goto, TaskPcs
    <3>2. (mutex \in Tasks \cup {NoTask} /\ Locked)'
      BY <2>0, <2>2 DEF ConsoleInv, Handled, Locked, Goto, Sessions
    <3>3. OneCall'
      BY <2>0, <2>2 DEF ConsoleInv, OneCall, Call
    <3> QED
      BY <3>1, <3>2, <3>3 DEF ConsoleInv
  <2> QED
    BY <1>2, <2>1, <2>2 DEF EnableCreate
<1>3. CASE Disable(c) \/ DisableSignal(c) \/ DisableClose(c) \/ DisableForget(c)
  BY <1>3, CallGoesOn DEF Disable, DisableSignal, DisableClose, DisableForget
<1>4. CASE DisableWait(c) \/ DisableState(c) \/ Kick(c) \/ KickSet(c)
  BY <1>4, CallGoesOn DEF DisableWait, DisableState, Kick, KickSet
<1> QED
  BY <1>1, <1>2, <1>3, <1>4 DEF Api

\* With calls that do not overlap, a call begins when no other is under way.
LEMMA BeginStep ==
    ASSUME ConsoleInv, Serial, NEW c \in Who, Begin(c)
    PROVE  ConsoleInv'
<1>1. /\ \A d \in Who : call[d] = "idle"
      /\ \E f \in {"enable", "disable", "kick"} : call' = [call EXCEPT ![c] = f]
      /\ handle' = handle /\ mutex' = mutex
  BY DEF Begin, Call
<1>2. OneCall'
  BY <1>1 DEF ConsoleInv, OneCall
<1>3. CASE UNCHANGED pc
  BY <1>1, <1>2, <1>3 DEF ConsoleInv, Handled, Locked
<1>4. CASE c \in Tasks /\ pc[c] = "run" /\ Goto(c, "api")
  BY <1>1, <1>2, <1>4 DEF ConsoleInv, Handled, Locked, Goto, TaskPcs, Sessions
<1> QED
  BY <1>3, <1>4 DEF Begin

\* With one handle there is one task, and a task about to take the mutex does not hold it.
LEMMA HandledOnce == ConsoleInv => OneServer
<1> SUFFICES ASSUME ConsoleInv PROVE OneServer
  OBVIOUS
<1>1. Alive = {} \/ Alive = {handle}
  BY DEF ConsoleInv, Handled, Alive
<1>2. Cardinality(Alive) <= 1
  <2>1. CASE Alive = {}
    BY <2>1, FS_EmptySet
  <2>2. CASE Alive = {handle}
    <3>1. Cardinality({handle}) = 1
      BY FS_Singleton
    <3> QED
      BY <2>2, <3>1
  <2> QED
    BY <1>1, <2>1, <2>2
<1>3. \A t \in Tasks : pc[t] = "take" => mutex = NoTask
  BY DEF ConsoleInv, Handled, Locked, Sessions
<1> QED
  BY <1>2, <1>3 DEF OneServer

\* However often remote_console_enable() and _disable() follow each other: there is one
\* remote_console_task().
THEOREM OneConsole == ASSUME Serial PROVE Spec => []OneServer
<1>1. ConsoleInv /\ [Next]_vars => ConsoleInv'
  <2> SUFFICES ASSUME ConsoleInv, [Next]_vars PROVE ConsoleInv'
    OBVIOUS
  <2>1. CASE Next
    BY <2>1, TaskSteps, ApiSteps, BeginStep DEF Next
  <2>2. CASE UNCHANGED vars
    BY <2>2 DEF vars, server, ConsoleInv, Handled, Locked, OneCall
  <2> QED
    BY <2>1, <2>2
<1> QED
  BY <1>1, ConsoleInit, HandledOnce, PTL DEF Spec

-----------------------------------------------------------------------------
(* MQTT                                                                    *)

\* Where the client, its connection and mqtt_ha_stop() can be at the same time
Places ==
    /\ s_client # "live" => link = "down" /\ handler = Idle
    /\ s_client \in {"none", "live", "gone"}
    /\ cmd = <<"clear">> <=> s_client = "gone"
    /\ cmd \in {<<"offline">>, <<"destroy">>} => s_client = "live"

\* A connection the client believes in has a session; once its first event is handled the
\* program knows of it.
Connected ==
    link = "up" => session = "open" /\ (handler = <<"connected">> \/ s_connected)

\* No session is left "online" without a stop that missed it, and none is about to be.
OnlineInv ==
    /\ session = "none" /\ avail = "online" => missed
    /\ cmd = <<"destroy">> /\ link = "up" /\ avail = "online" /\ handler # <<"connected">>
         => missed

MqttInv == Places /\ Connected /\ OnlineInv

LEMMA MqttStart == MqttInit => MqttInv
  BY DEF MqttInit, MqttInv, Places, Connected, OnlineInv, Idle

\* The commands of the command line, and mqtt_ha_stop()
LEMMA CommandSteps ==
    ASSUME MqttInv,
           \/ \E ok \in BOOLEAN : MqttEnable(ok)
           \/ MqttDisable \/ mqtt_ha_stop \/ SetBroker \/ mqtt_ha_rediscover \/ SetSwitch
    PROVE  MqttInv'
  <1> USE DEF MqttInv, Places, Connected, OnlineInv, config, client, tasks, retained, Idle
  <1>1. ASSUME NEW ok \in BOOLEAN, MqttEnable(ok) PROVE MqttInv'
    BY <1>1 DEF MqttEnable, mqtt_ha_start
  <1>2. CASE MqttDisable
    BY <1>2 DEF MqttDisable
  <1>3. CASE StopLooks
    BY <1>3 DEF StopLooks
  <1>4. CASE StopPublishes
    BY <1>4 DEF StopPublishes, Publish, Reaches
  <1>5. CASE StopDestroys
    BY <1>5 DEF StopDestroys
  <1>6. CASE StopClears
    BY <1>6 DEF StopClears
  <1>7. CASE SetBroker \/ SetSwitch
    BY <1>7 DEF SetBroker, SetSwitch
  <1>8. CASE mqtt_ha_rediscover
    BY <1>8 DEF mqtt_ha_rediscover, publish_discovery, Publish
  <1> QED
    BY <1>1, <1>2, <1>3, <1>4, <1>5, <1>6, <1>7, <1>8 DEF mqtt_ha_stop

\* The publish timer and the client's task
LEMMA EventSteps ==
    ASSUME MqttInv,
           \/ TimerReads \/ TimerPublishes \/ Connect \/ Handler
           \/ \E on \in BOOLEAN : OnData(on)
    PROVE  MqttInv'
  <1> USE DEF MqttInv, Places, Connected, OnlineInv, config, client, tasks, retained, Idle
  <1>1. CASE TimerReads
    BY <1>1 DEF TimerReads
  <1>2. CASE TimerPublishes
    BY <1>2 DEF TimerPublishes, Publish
  <1>3. CASE Connect
    BY <1>3 DEF Connect
  <1>4. CASE OnConnected
    BY <1>4 DEF OnConnected, Publish, Reaches
  <1>5. CASE OnDiscover
    BY <1>5 DEF OnDiscover, publish_discovery, Publish
  <1>6. CASE HandlerReads
    BY <1>6 DEF HandlerReads
  <1>7. CASE HandlerPublishes
    BY <1>7 DEF HandlerPublishes, Publish
  <1>8. CASE OnDisconnected
    BY <1>8 DEF OnDisconnected
  <1>9. ASSUME NEW on \in BOOLEAN, OnData(on) PROVE MqttInv'
    BY <1>9 DEF OnData, Reaches
  <1> QED
    BY <1>1, <1>2, <1>3, <1>4, <1>5, <1>6, <1>7, <1>8, <1>9 DEF Handler

\* The network, the broker, the power
LEMMA OutsideSteps ==
    ASSUME MqttInv, Lost \/ LastWill \/ \E ok \in BOOLEAN : Restart(ok)
    PROVE  MqttInv'
  BY DEF MqttInv, Places, Connected, OnlineInv, config, client, tasks, retained, Idle,
         Lost, LastWill, Restart

\* Whoever stops the service or the router, and at whatever step of a connection: the broker
\* does not keep "online" without a session whose last will takes it back, unless the
\* connection was made while mqtt_ha_stop() no longer looked at s_connected.
THEOREM StoppedIsOffline == MqttSpec => []OffIsOffline
<1>1. MqttInv /\ [MqttNext]_mqvars => MqttInv'
  <2> SUFFICES ASSUME MqttInv, [MqttNext]_mqvars PROVE MqttInv'
    OBVIOUS
  <2>1. CASE MqttNext
    BY <2>1, CommandSteps, EventSteps, OutsideSteps DEF MqttNext
  <2>2. CASE UNCHANGED mqvars
    BY <2>2 DEF mqvars, MqttInv, Places, Connected, OnlineInv
  <2> QED
    BY <2>1, <2>2
<1>2. MqttInv => OffIsOffline
  BY DEF MqttInv, OnlineInv, OffIsOffline
<1> QED
  BY <1>1, <1>2, MqttStart, PTL DEF MqttSpec
=============================================================================
