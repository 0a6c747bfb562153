---------------------------- MODULE SyslogClient ----------------------------
(***************************************************************************)
(* Remote syslog, components/syslog/syslog_client.c.  Any task's log call  *)
(* passes the hook, which formats into shared buffers and posts to a       *)
(* queue; a sender task owns the socket.  Consoles enable and disable the  *)
(* service; a new uplink address starts a task that resolves the server    *)
(* again.  The configuration mutex is released while DNS is asked.         *)
(***************************************************************************)
EXTENDS Naturals, Sequences, FiniteSets

CONSTANTS
    Servers,      \* names of servers
    SyslogUsers,  \* tasks that run the command, and tasks started by syslog_notify_connected()
    Loggers,      \* tasks that log
    QueueDepth,   \* SYSLOG_QUEUE_DEPTH
    NoServer

VARIABLES
    s_enabled, s_server,
    syslog_nvs,   \* the two, as saved
    s_mutex,      \* its holder, or NoServer
    syslogpc,     \* where each of SyslogUsers stands
    s_queue,      \* <<>> is no queue; a message is TRUE, the poison pill FALSE
    queue_on,     \* s_queue is not NULL
    s_sender_task,
    s_sock, s_resolved,
    s_dest,       \* the server s_dest_addr belongs to
    s_fmt_mutex,  \* the logger that holds it, "stop", or NoServer
    buffers,      \* s_rawbuf and s_pktbuf are allocated
    line          \* how much of a line s_rawbuf holds: "none", "part", "whole"

syvars == <<s_enabled, s_server, syslog_nvs, s_mutex, syslogpc, s_queue, queue_on, s_sender_task,
            s_sock, s_resolved, s_dest, s_fmt_mutex, buffers, line>>
config == <<s_enabled, s_server, syslog_nvs>>
socket == <<s_sock, s_resolved, s_dest>>
sender == <<s_queue, queue_on, s_sender_task>>
format == <<s_fmt_mutex, buffers, line>>

Stands(u, l) == syslogpc[u][1] = l
To(u, next) == syslogpc' = [syslogpc EXCEPT ![u] = next]
Free == s_mutex = NoServer

-----------------------------------------------------------------------------
(* The sender's task                                                       *)

\* A message is sent if there is a server; the pill ends the task and closes the socket.
sender_task ==
    /\ s_sender_task /\ s_queue # <<>>
    /\ s_queue' = Tail(s_queue)
    /\ IF s_queue[1] THEN UNCHANGED <<s_sender_task, s_sock, s_resolved>>
       ELSE s_sender_task' = FALSE /\ s_sock' = FALSE /\ s_resolved' = FALSE
    /\ UNCHANGED <<config, s_mutex, syslogpc, queue_on, s_dest, format>>

-----------------------------------------------------------------------------
(* The hook: syslog_vprintf()                                              *)

\* Formatting is never waited for: a second task's line is dropped.
HookEnter(l) ==
    /\ s_enabled /\ queue_on
    /\ s_fmt_mutex = NoServer
    /\ s_fmt_mutex' = IF buffers /\ s_resolved THEN l ELSE NoServer
    /\ UNCHANGED <<config, s_mutex, syslogpc, sender, socket, buffers, line>>

\* The driver of Wi-Fi prints a line in parts.
HookFormat(l, end) ==
    /\ s_fmt_mutex = l /\ line # "whole"
    /\ line' = IF end THEN "whole" ELSE "part"
    /\ s_fmt_mutex' = IF end THEN l ELSE NoServer
    /\ UNCHANGED <<config, s_mutex, syslogpc, sender, socket, buffers>>

\* A stub of a line is not worth a message; a full queue loses it.
HookPost(l, stub) ==
    /\ s_fmt_mutex = l /\ line = "whole"
    /\ line' = "none" /\ s_fmt_mutex' = NoServer
    /\ s_queue' = IF ~stub /\ queue_on /\ Len(s_queue) < QueueDepth THEN Append(s_queue, TRUE)
                  ELSE s_queue
    /\ UNCHANGED <<config, s_mutex, syslogpc, queue_on, s_sender_task, socket, buffers>>

-----------------------------------------------------------------------------
(* Connecting                                                              *)

syslog_enable(u, srv) ==
    /\ Stands(u, "idle") /\ Free
    /\ s_server' = srv /\ s_enabled' = TRUE /\ s_resolved' = FALSE
    /\ To(u, <<"connect", "save">>)
    /\ UNCHANGED <<syslog_nvs, s_mutex, sender, s_sock, s_dest, format>>

\* From the handlers of a new address; the task is one of SyslogUsers.
syslog_notify_connected(u) ==
    /\ Stands(u, "idle") /\ s_enabled /\ ~s_resolved
    /\ To(u, <<"connect", "idle">>)
    /\ UNCHANGED <<config, s_mutex, sender, socket, format>>

syslog_connect(u) ==
    /\ Stands(u, "connect") /\ Free
    /\ IF s_enabled /\ s_server # NoServer
       THEN /\ s_sock' = FALSE /\ s_resolved' = FALSE
            /\ To(u, <<"dns", syslogpc[u][2], s_server>>)
       ELSE To(u, <<syslogpc[u][2]>>) /\ UNCHANGED <<s_sock, s_resolved>>
    /\ UNCHANGED <<config, s_mutex, sender, s_dest, format>>

start_sender ==
    /\ queue_on' = TRUE /\ s_sender_task' = TRUE
    /\ s_queue' = IF queue_on THEN s_queue ELSE <<>>
    /\ buffers' = TRUE /\ line' = IF buffers THEN line ELSE "none"

\* DNS has answered, or not; whatever was decided meanwhile, the sender is started.
Resolved(u, found) ==
    /\ Stands(u, "dns") /\ Free
    /\ IF found
       THEN s_dest' = syslogpc[u][3] /\ s_sock' = TRUE /\ s_resolved' = TRUE
       ELSE UNCHANGED socket
    /\ start_sender
    /\ To(u, <<syslogpc[u][2]>>)
    /\ UNCHANGED <<config, s_mutex, s_fmt_mutex>>

save_config(u) ==
    /\ Stands(u, "save") /\ To(u, <<"idle">>)
    /\ syslog_nvs' = <<s_enabled, s_server>>
    /\ UNCHANGED <<s_enabled, s_server, s_mutex, sender, socket, format>>

-----------------------------------------------------------------------------
(* Disabling                                                               *)

\* The flag first; then, with the mutex, the pill if there is a sender ...
syslog_disable(u) ==
    /\ Stands(u, "idle")
    /\ s_enabled' = FALSE /\ To(u, <<"lock">>)
    /\ UNCHANGED <<s_server, syslog_nvs, s_mutex, sender, socket, format>>

StopBegin(u) ==
    /\ Stands(u, "lock") /\ Free
    /\ s_mutex' = u /\ To(u, <<"stopping">>)
    /\ s_queue' = IF queue_on /\ s_sender_task /\ Len(s_queue) < QueueDepth
                  THEN Append(s_queue, FALSE) ELSE s_queue
    /\ UNCHANGED <<config, queue_on, s_sender_task, socket, format>>

\* ... for whose end it waits SYSLOG_STOP_TIMEOUT_MS; a sender that still runs keeps its queue.
StopWait(u) ==
    /\ Stands(u, "stopping")
    /\ IF s_sender_task THEN To(u, <<"close">>) /\ UNCHANGED <<queue_on, s_queue>>
       ELSE To(u, <<"buffers">>) /\ queue_on' = FALSE /\ s_queue' = <<>>
    /\ UNCHANGED <<config, s_mutex, s_sender_task, socket, format>>

\* Mutant: the buffers are freed without the formatters' lock.
Mutstop_sender(u) ==
    /\ Stands(u, "buffers")
    /\ buffers' = FALSE /\ line' = "none"
    /\ To(u, <<"close">>)
    /\ UNCHANGED <<config, s_mutex, sender, socket, s_fmt_mutex>>

\* "so a concurrent log call sees them NULL rather than freed"
stop_sender(u) ==
    /\ Stands(u, "buffers") /\ s_fmt_mutex = NoServer
    /\ buffers' = FALSE /\ line' = "none"
    /\ To(u, <<"close">>)
    /\ UNCHANGED <<config, s_mutex, sender, socket, s_fmt_mutex>>

DisableEnd(u) ==
    /\ Stands(u, "close") /\ To(u, <<"save">>)
    /\ s_sock' = FALSE /\ s_resolved' = FALSE /\ s_mutex' = NoServer
    /\ UNCHANGED <<config, sender, s_dest, format>>

-----------------------------------------------------------------------------

\* load_config(); a syslog that was on is connected from app_main().
syslog_init(stored) ==
    /\ s_enabled = stored[1] /\ s_server = stored[2] /\ syslog_nvs = stored
    /\ s_mutex = NoServer
    /\ \E u \in SyslogUsers :
         syslogpc = [v \in SyslogUsers |-> IF v = u /\ stored[1] THEN <<"connect", "idle">>
                                           ELSE <<"idle">>]
    /\ s_queue = <<>> /\ queue_on = FALSE /\ s_sender_task = FALSE
    /\ s_sock = FALSE /\ s_resolved = FALSE /\ s_dest = NoServer
    /\ s_fmt_mutex = NoServer /\ buffers = FALSE /\ line = "none"

SyslogInit == \E stored \in {<<FALSE, NoServer>>} \cup {<<TRUE, s>> : s \in Servers} : syslog_init(stored)

SyslogNext ==
    \/ sender_task
    \/ \E l \in Loggers :
         \/ HookEnter(l)
         \/ \E b \in BOOLEAN : HookFormat(l, b) \/ HookPost(l, b)
    \/ \E u \in SyslogUsers :
         \/ \E s \in Servers : syslog_enable(u, s)
         \/ syslog_notify_connected(u) \/ syslog_connect(u)
         \/ \E found \in BOOLEAN : Resolved(u, found)
         \/ save_config(u)
         \/ syslog_disable(u) \/ StopBegin(u) \/ StopWait(u) \/ stop_sender(u) \/ DisableEnd(u)

SyslogSpec == SyslogInit /\ [][SyslogNext]_syvars

-----------------------------------------------------------------------------
(* Properties                                                              *)

\* stop_sender() never frees the buffers under a log call: whoever has passed the test for them
\* still has them, and the line it assembles, until it lets go.
FormatsInLiveBuffers ==
    /\ s_fmt_mutex \in Loggers => buffers
    /\ line # "none" => buffers
=============================================================================
