---------------------------- MODULE RemoteConsole ----------------------------
(***************************************************************************)
(* The remote console of components/remote_console/remote_console.c: the   *)
(* task that listens, logs a client in and runs its commands, against      *)
(* remote_console_enable(), _disable() and _kick(), which the web server,  *)
(* the MQTT client, the serial console and the remote session itself call. *)
(*                                                                         *)
(* An action is what lies between two accesses to rc_config and rc_state,  *)
(* or a call that blocks.  Clients and the TCP stack are external: at most *)
(* any moment one may connect, type, or go away.  Left out: the captured   *)
(* output, the port, and the "BUSY" answer, which needs a second task      *)
(* (OneServer).                                                            *)
(***************************************************************************)
EXTENDS Naturals, FiniteSets

CONSTANTS
    Tasks,       \* identities for remote_console_task()
    NoTask,      \* NULL
    Callers,     \* tasks that call the API, other than the console's own
    MaxAttempts, \* RC_MAX_AUTH_ATTEMPTS
    Serial       \* calls of the API do not overlap

ASSUME ConsoleAssumption ==
    NoTask \notin Tasks /\ Tasks \cap Callers = {} /\ Serial \in BOOLEAN
    /\ MaxAttempts \in Nat \ {0}

VARIABLES
    enabled,     \* rc_config.enabled
    handle,      \* rc_state.task_handle
    state,       \* rc_state.state
    shutdown,    \* rc_state.shutdown_requested
    kick,        \* rc_state.kick_requested
    fd,          \* rc_state.server_socket >= 0
    sock,        \* that socket: "none", "open" or "listening"
    mutex,       \* the holder of rc_state.session_mutex
    pc,          \* where each task is; "none": it does not exist
    attempt,     \* failed logins of the current client
    call         \* where each caller is in a function of the API

flags   == <<enabled, shutdown, kick>>
sockets == <<fd, sock>>
server  == <<pc, attempt, mutex>>
vars == <<flags, handle, state, sockets, server, call>>

Who == Callers \cup Tasks

\* remote_console_init()
Init ==
    /\ enabled \in BOOLEAN
    /\ \E t \in Tasks :
         /\ handle = IF enabled THEN t ELSE NoTask
         /\ pc = [u \in Tasks |-> IF enabled /\ u = t THEN "outer" ELSE "none"]
    /\ state = IF enabled THEN "listening" ELSE "disabled"
    /\ shutdown = FALSE /\ kick = FALSE
    /\ fd = FALSE /\ sock = "none" /\ mutex = NoTask
    /\ attempt = 0
    /\ call = [c \in Who |-> "idle"]

Goto(t, l) == pc' = [pc EXCEPT ![t] = l]

-----------------------------------------------------------------------------
(* remote_console_task(): listening.                                       *)

Outer(t) ==
    /\ pc[t] \in {"outer", "retry"}
    /\ Goto(t, IF shutdown THEN "exit" ELSE "socket")
    /\ UNCHANGED <<flags, handle, state, sockets, attempt, mutex, call>>

\* Whatever fails is tried again in 5 s.
MakeSocket(t) ==
    /\ pc[t] = "socket"
    /\ \/ fd' = TRUE /\ sock' = "open" /\ Goto(t, "bind")
       \/ fd' = FALSE /\ Goto(t, "retry") /\ UNCHANGED sock
    /\ UNCHANGED <<flags, handle, state, attempt, mutex, call>>

\* bind() and listen(); both fail on a socket that disable() has closed.
Listen(t) ==
    /\ pc[t] = "bind"
    /\ \/ fd /\ sock = "open"
          /\ sock' = "listening" /\ state' = "listening" /\ Goto(t, "inner")
          /\ UNCHANGED fd
       \/ fd' = FALSE /\ sock' = "none" /\ Goto(t, "retry") /\ UNCHANGED state
    /\ UNCHANGED <<flags, handle, attempt, mutex, call>>

Inner(t) ==
    /\ pc[t] = "inner"
    /\ Goto(t, IF shutdown THEN "close" ELSE "accept")
    /\ UNCHANGED <<flags, handle, state, sockets, attempt, mutex, call>>

\* A client connects; one from the WAN side may be turned away.
AcceptClient(t) ==
    /\ pc[t] = "accept" /\ fd /\ sock = "listening"
    /\ \/ Goto(t, "inner")
       \/ Goto(t, "take")
    /\ UNCHANGED <<flags, handle, state, sockets, attempt, mutex, call>>

\* accept() on a socket that disable() has closed.
AcceptFails(t) ==
    /\ pc[t] = "accept" /\ ~(fd /\ sock = "listening")
    /\ Goto(t, IF shutdown THEN "close" ELSE "inner")
    /\ UNCHANGED <<flags, handle, state, sockets, attempt, mutex, call>>

CloseServer(t) ==
    /\ pc[t] = "close"
    /\ fd' = FALSE
    /\ sock' = IF fd THEN "none" ELSE sock
    /\ Goto(t, "outer")
    /\ UNCHANGED <<flags, handle, state, attempt, mutex, call>>

ExitState(t) ==
    /\ pc[t] = "exit"
    /\ state' = "disabled"
    /\ Goto(t, "gone")
    /\ UNCHANGED <<flags, handle, sockets, attempt, mutex, call>>

ExitHandle(t) ==
    /\ pc[t] = "gone"
    /\ handle' = NoTask
    /\ Goto(t, "none")
    /\ UNCHANGED <<flags, state, sockets, attempt, mutex, call>>

-----------------------------------------------------------------------------
(* remote_console_task(): one client.                                      *)

Take(t) ==
    /\ pc[t] = "take"
    /\ mutex' = t /\ state' = "auth" /\ kick' = FALSE /\ attempt' = 0
    /\ Goto(t, "auth")
    /\ UNCHANGED <<enabled, shutdown, handle, sockets, call>>

\* No password is set, or the right one is typed.
LogIn(t) ==
    /\ pc[t] = "auth"
    /\ Goto(t, "start")
    /\ UNCHANGED <<flags, handle, state, sockets, attempt, mutex, call>>

WrongPassword(t) ==
    /\ pc[t] = "auth"
    /\ attempt' = attempt + 1
    /\ Goto(t, IF attempt + 1 = MaxAttempts THEN "delay" ELSE "auth")
    /\ UNCHANGED <<flags, handle, state, sockets, mutex, call>>

\* recv_line() gives up: after 60 s, on an error, when it is kicked or shut down.
NoLogin(t) ==
    /\ pc[t] = "auth"
    /\ Goto(t, "cleanup")
    /\ UNCHANGED <<flags, handle, state, sockets, attempt, mutex, call>>

\* Five seconds, whatever is requested meanwhile.
AuthDelay(t) ==
    /\ pc[t] = "delay"
    /\ Goto(t, "cleanup")
    /\ UNCHANGED <<flags, handle, state, sockets, attempt, mutex, call>>

\* handle_session(); without memory for the capture it ends at once.
Start(t) ==
    /\ pc[t] = "start"
    /\ \/ state' = "active" /\ Goto(t, "loop")
       \/ state' = "listening" /\ Goto(t, "cleanup")
    /\ UNCHANGED <<flags, handle, sockets, attempt, mutex, call>>

Loop(t) ==
    /\ pc[t] = "loop"
    /\ Goto(t, IF kick \/ shutdown THEN "cleanup" ELSE "recv")
    /\ UNCHANGED <<flags, handle, state, sockets, attempt, mutex, call>>

\* The client types a line; it logs out, goes away or has been idle for too long; or
\* it types a command.
RecvLine(t) ==
    /\ pc[t] = "recv"
    /\ \E l \in {"loop", "cleanup", "run"} : Goto(t, l)
    /\ UNCHANGED <<flags, handle, state, sockets, attempt, mutex, call>>

\* Mutant: recv_line() does not look at kick_requested.
MutRecvPoll(t) ==
    /\ pc[t] = "recv" /\ shutdown
    /\ Goto(t, "cleanup")
    /\ UNCHANGED <<flags, handle, state, sockets, attempt, mutex, call>>

\* Once a second recv_line() looks at the requests.
RecvPoll(t) ==
    /\ pc[t] = "recv" /\ (kick \/ shutdown)
    /\ Goto(t, "cleanup")
    /\ UNCHANGED <<flags, handle, state, sockets, attempt, mutex, call>>

\* The command returns, with the function of the API that it called.
RunDone(t) ==
    /\ pc[t] \in {"run", "api"} /\ call[t] = "idle"
    /\ Goto(t, "loop")
    /\ UNCHANGED <<flags, handle, state, sockets, attempt, mutex, call>>

Cleanup(t) ==
    /\ pc[t] = "cleanup"
    /\ state' = "listening" /\ kick' = FALSE /\ mutex' = NoTask
    /\ Goto(t, "inner")
    /\ UNCHANGED <<enabled, shutdown, handle, sockets, attempt, call>>

-----------------------------------------------------------------------------
(* The API.                                                                *)

Call(c, l) == call' = [call EXCEPT ![c] = l]

\* A function is called: by another task, or by a command of the session.
Begin(c) ==
    /\ call[c] = "idle"
    /\ Serial => \A d \in Who : call[d] = "idle"
    /\ \E f \in {"enable", "disable", "kick"} : Call(c, f)
    /\ \/ c \in Callers /\ UNCHANGED pc
       \/ c \in Tasks /\ pc[c] = "run" /\ Goto(c, "api")
    /\ UNCHANGED <<flags, handle, state, sockets, attempt, mutex>>

\* remote_console_enable()
Enable(c) ==
    /\ call[c] = "enable"
    /\ enabled' = TRUE
    /\ Call(c, IF enabled THEN "idle" ELSE "enHandle")
    /\ UNCHANGED <<shutdown, kick, handle, state, sockets, server>>

\* Mutant: a task that is still shutting down does not matter.
MutEnableHandle(c) ==
    /\ call[c] = "enHandle"
    /\ shutdown' = FALSE
    /\ Call(c, "enCreate")
    /\ UNCHANGED <<enabled, kick, handle, state, sockets, server>>

EnableHandle(c) ==
    /\ call[c] = "enHandle"
    /\ shutdown' = (shutdown /\ handle /= NoTask)
    /\ Call(c, IF handle = NoTask THEN "enCreate" ELSE "idle")
    /\ UNCHANGED <<enabled, kick, handle, state, sockets, server>>

EnableCreate(c) ==
    /\ call[c] = "enCreate"
    /\ \/ \E t \in Tasks :
            /\ pc[t] = "none"
            /\ handle' = t /\ Goto(t, "outer") /\ Call(c, "enState")
            /\ UNCHANGED enabled
       \/ enabled' = FALSE /\ Call(c, "idle") /\ UNCHANGED <<handle, pc>>
    /\ UNCHANGED <<shutdown, kick, state, sockets, attempt, mutex>>

EnableState(c) ==
    /\ call[c] = "enState"
    /\ state' = "listening"
    /\ Call(c, "idle")
    /\ UNCHANGED <<flags, handle, sockets, server>>

\* remote_console_disable()
Disable(c) ==
    /\ call[c] = "disable"
    /\ enabled' = FALSE
    /\ Call(c, IF enabled THEN "disSignal" ELSE "idle")
    /\ UNCHANGED <<shutdown, kick, handle, state, sockets, server>>

DisableSignal(c) ==
    /\ call[c] = "disSignal"
    /\ shutdown' = TRUE /\ kick' = TRUE
    /\ Call(c, "disClose")
    /\ UNCHANGED <<enabled, handle, state, sockets, server>>

\* Mutant: accept() is left waiting.
MutDisableClose(c) ==
    /\ call[c] = "disClose"
    /\ Call(c, "disWait")
    /\ UNCHANGED <<flags, handle, state, sockets, server>>

\* The socket is closed, and forgotten after that.
DisableClose(c) ==
    /\ call[c] = "disClose"
    /\ sock' = IF fd THEN "none" ELSE sock
    /\ Call(c, IF fd THEN "disForget" ELSE "disWait")
    /\ UNCHANGED <<flags, handle, state, fd, server>>

DisableForget(c) ==
    /\ call[c] = "disForget"
    /\ fd' = FALSE
    /\ Call(c, "disWait")
    /\ UNCHANGED <<flags, handle, state, sock, server>>

\* Where a task may stay for more than 3 s: it sleeps, runs a command (which may be
\* this very call), or sends to a client that does not read.
Slow == {"retry", "auth", "delay", "start", "loop", "run", "api"}

\* The task has cleared its handle, or 3 s have passed.
DisableWait(c) ==
    /\ call[c] = "disWait"
    /\ handle = NoTask \/ \E t \in Tasks : pc[t] \in Slow
    /\ Call(c, "disState")
    /\ UNCHANGED <<flags, handle, state, sockets, server>>

DisableState(c) ==
    /\ call[c] = "disState"
    /\ state' = "disabled"
    /\ Call(c, "idle")
    /\ UNCHANGED <<flags, handle, sockets, server>>

\* remote_console_kick()
Kick(c) ==
    /\ call[c] = "kick"
    /\ Call(c, IF state = "active" THEN "kickSet" ELSE "idle")
    /\ UNCHANGED <<flags, handle, state, sockets, server>>

KickSet(c) ==
    /\ call[c] = "kickSet"
    /\ kick' = TRUE
    /\ Call(c, "idle")
    /\ UNCHANGED <<enabled, shutdown, handle, state, sockets, server>>

-----------------------------------------------------------------------------
\* Steps that a task takes on its own; a client is not waited for.
Run(t) ==
    \/ Outer(t) \/ MakeSocket(t) \/ Listen(t) \/ Inner(t) \/ AcceptFails(t)
    \/ CloseServer(t) \/ ExitState(t) \/ ExitHandle(t)
    \/ Take(t) \/ NoLogin(t) \/ AuthDelay(t) \/ Start(t) \/ Loop(t)
    \/ RecvPoll(t) \/ RunDone(t) \/ Cleanup(t)

Client(t) == AcceptClient(t) \/ LogIn(t) \/ WrongPassword(t) \/ RecvLine(t)

Api(c) ==
    \/ Enable(c) \/ EnableHandle(c) \/ EnableCreate(c) \/ EnableState(c)
    \/ Disable(c) \/ DisableSignal(c) \/ DisableClose(c) \/ DisableForget(c)
    \/ DisableWait(c) \/ DisableState(c)
    \/ Kick(c) \/ KickSet(c)

Next ==
    \/ \E t \in Tasks : Run(t) \/ Client(t)
    \/ \E c \in Who : Begin(c) \/ Api(c)

Spec == Init /\ [][Next]_vars

\* The scheduler runs every ready task; nobody has to connect, type or call.
Fairness ==
    /\ \A t \in Tasks : WF_vars(Run(t))
    /\ \A c \in Who : WF_vars(Api(c))

FairSpec == Spec /\ Fairness
-----------------------------------------------------------------------------
(* Properties.                                                             *)

SessionPcs == {"start", "loop", "recv", "run", "api"}

Alive == {t \in Tasks : pc[t] /= "none"}

\* However often the service is switched, also while a shutdown goes on: there is one
\* task on the port, and the mutex is free for its next client.
OneServer ==
    /\ Cardinality(Alive) <= 1
    /\ \A t \in Tasks : pc[t] = "take" => mutex = NoTask

\* After remote_console_disable() nothing is left of the service, unless it is enabled.
DisabledStops == ~enabled ~> enabled \/ (Alive = {} /\ sock = "none")

\* A kick that was accepted ends the session.
KickEnds == \A t \in Tasks : (kick /\ pc[t] \in SessionPcs) ~> pc[t] \notin SessionPcs

\* "Enable remote console service ... and starts the server": with every call finished,
\* an enabled service has its task.
EnabledIsServed == enabled /\ (\A c \in Who : call[c] = "idle") => Alive /= {}
=============================================================================
