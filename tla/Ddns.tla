-------------------------------- MODULE Ddns --------------------------------
(***************************************************************************)
(* Dynamic DNS, components/ddns.  A new uplink address, the poll timer or  *)
(* the user start a task that reports the address to the provider, unless  *)
(* one runs already; console and web page write the settings to NVS, and   *)
(* the page has them loaded again.  The provider is external: it accepts   *)
(* an update or not, and its reply may be lost.                            *)
(***************************************************************************)
EXTENDS Naturals, Sequences

CONSTANTS
    WanAddresses,   \* 0 is none
    Providers,      \* those a user chooses among
    NoSettings

VARIABLES
    g_ddns,         \* the settings in memory: enabled, the rest of them, saved_ip
    ddns_nvs,       \* as stored
    g_wan_ip,
    g_timer_running,
    update,         \* the update's task: <<>>, or where it stands, its address, its settings
    page,           \* the web page's handler
    record          \* the provider's address record

ddvars == <<g_ddns, ddns_nvs, g_wan_ip, g_timer_running, update, page, record>>

Settings == [provider : Providers, named : BOOLEAN]
Config == [enabled : BOOLEAN, settings : Settings \cup {NoSettings}, saved_ip : WanAddresses \cup {0}]
clear_config == [enabled |-> FALSE, settings |-> NoSettings, saved_ip |-> 0]

-----------------------------------------------------------------------------
(* The providers' replies.  A reply is an HTTP status and the words in its *)
(* body; <<0, {}>> is no reply.                                            *)

Replies == {<<0, {}>>, <<200, {"good"}>>, <<200, {"nochg"}>>, <<200, {"OK"}>>, <<200, {"SUCCESS"}>>,
            <<200, {"badauth"}>>, <<200, {}>>, <<401, {}>>, <<500, {}>>}

Says(r, words) == r[1] = 200 /\ r[2] \cap words # {}

noip_update(r) == Says(r, {"good", "nochg"})
selfhost_update(r) == Says(r, {"good", "nochg"})
dynu_update(r) == Says(r, {"good", "nochg"})
duckdns_update(r) == Says(r, {"OK"})
namecheap_update(r) == Says(r, {"SUCCESS"})

\* Without a host name only Selfhost.de is asked: its account knows the name.
Asked(s) == s # NoSettings /\ (s.named \/ s.provider = "Selfhost.de")

ddns_update(s, r) ==
    /\ Asked(s)
    /\ CASE s.provider = "NoIP" -> noip_update(r)
         [] s.provider = "DuckDNS" -> duckdns_update(r)
         [] s.provider = "Selfhost.de" -> selfhost_update(r)
         [] s.provider = "Dynu" -> dynu_update(r)
         [] s.provider = "Namecheap" -> namecheap_update(r)

-----------------------------------------------------------------------------
(* Starting an update                                                      *)

\* "skipped - update already in progress"; the task may not be created (made).
Trigger(wan, made) ==
    update' = IF g_ddns.enabled /\ wan # 0 /\ update = <<>> /\ made THEN <<"begin">> ELSE update

\* From the handlers of a new address.  Nobody reports that the address is gone.
ddns_update_wan_ip(a, made) ==
    /\ g_wan_ip' = a
    /\ Trigger(a, made)
    /\ UNCHANGED <<g_ddns, ddns_nvs, g_timer_running, page, record>>

\* Mutant: nothing is repeated once an address has been reported.
Mutddns_timer_cb(made) ==
    /\ g_timer_running /\ g_ddns.saved_ip = 0
    /\ Trigger(g_wan_ip, made)
    /\ UNCHANGED <<g_ddns, ddns_nvs, g_wan_ip, g_timer_running, page, record>>

ddns_timer_cb(made) ==
    /\ g_timer_running
    /\ Trigger(g_wan_ip, made)
    /\ UNCHANGED <<g_ddns, ddns_nvs, g_wan_ip, g_timer_running, page, record>>

\* "ddns update", or the page's button
ManualUpdate(made) ==
    /\ Trigger(g_wan_ip, made)
    /\ UNCHANGED <<g_ddns, ddns_nvs, g_wan_ip, g_timer_running, page, record>>

-----------------------------------------------------------------------------
(* ddns_update_task()                                                      *)

UpdateBegin ==
    /\ update # <<>> /\ update[1] = "begin"
    /\ update' = <<"ask", g_wan_ip, g_ddns.settings>>
    /\ UNCHANGED <<g_ddns, ddns_nvs, g_wan_ip, g_timer_running, page, record>>

\* The provider takes the address or not; the reply arrives or not.
Ask(r, taken) ==
    /\ update # <<>> /\ update[1] = "ask"
    /\ record' = IF taken /\ Asked(update[3]) THEN update[2] ELSE record
    /\ ddns_update(update[3], r) => taken
    /\ IF ddns_update(update[3], r)
       THEN update' = <<"save", update[2]>> ELSE update' = <<"end">>
    /\ UNCHANGED <<g_ddns, ddns_nvs, g_wan_ip, g_timer_running, page>>

\* All of memory's settings are written, not only what the update has changed.
ddns_save_config ==
    /\ update # <<>> /\ update[1] = "save"
    /\ g_ddns' = [g_ddns EXCEPT !.saved_ip = update[2]]
    /\ ddns_nvs' = g_ddns'
    /\ update' = <<"end">>
    /\ UNCHANGED <<g_wan_ip, g_timer_running, page, record>>

UpdateEnd ==
    /\ update # <<>> /\ update[1] = "end"
    /\ update' = <<>>
    /\ UNCHANGED <<g_ddns, ddns_nvs, g_wan_ip, g_timer_running, page, record>>

-----------------------------------------------------------------------------
(* Settings                                                                *)

\* The console's "enable", "provider", "hostname", ... are stored and nothing more.
ddns_cmd(en, s) ==
    /\ \/ ddns_nvs' = [ddns_nvs EXCEPT !.enabled = en]
       \/ ddns_nvs' = [ddns_nvs EXCEPT !.settings = s]
    /\ UNCHANGED <<g_ddns, g_wan_ip, g_timer_running, update, page, record>>

\* The page stores all of them, then ddns_reload_config(): stop the timer and clear ...
ddns_get_handler(en, s) ==
    /\ page = "idle" /\ page' = "stored"
    /\ ddns_nvs' = [ddns_nvs EXCEPT !.enabled = en, !.settings = s]
    /\ UNCHANGED <<g_ddns, g_wan_ip, g_timer_running, update, record>>

ReloadClear ==
    /\ page = "stored" /\ page' = "cleared"
    /\ g_timer_running' = FALSE /\ g_ddns' = clear_config
    /\ UNCHANGED <<ddns_nvs, g_wan_ip, update, record>>

\* ... load, and start the timer if updates are enabled.
ddns_load_config ==
    /\ page = "cleared" /\ page' = "idle"
    /\ g_ddns' = ddns_nvs /\ g_timer_running' = ddns_nvs.enabled
    /\ UNCHANGED <<ddns_nvs, g_wan_ip, update, record>>

\* ddns_init(), after a restart at any moment
ddns_init ==
    /\ g_ddns' = ddns_nvs /\ g_timer_running' = ddns_nvs.enabled
    /\ g_wan_ip' = 0 /\ update' = <<>> /\ page' = "idle"
    /\ UNCHANGED <<ddns_nvs, record>>

-----------------------------------------------------------------------------

Init ==
    /\ g_ddns = clear_config /\ ddns_nvs = clear_config
    /\ g_wan_ip = 0 /\ g_timer_running = FALSE
    /\ update = <<>> /\ page = "idle" /\ record = 0

Task ==
    \/ UpdateBegin \/ ddns_save_config \/ UpdateEnd
    \/ \E r \in Replies, taken \in BOOLEAN : Ask(r, taken)

Next ==
    \/ Task
    \/ \E made \in BOOLEAN :
         \/ \E a \in WanAddresses : ddns_update_wan_ip(a, made)
         \/ ddns_timer_cb(made) \/ ManualUpdate(made)
    \/ \E en \in BOOLEAN, s \in Settings : ddns_cmd(en, s) \/ ddns_get_handler(en, s)
    \/ ReloadClear \/ ddns_load_config \/ ddns_init

Accepted == \E r \in Replies : Ask(r, TRUE) /\ ddns_update(update[3], r)

\* Tasks and handlers run to their end, the timer fires, and a provider that is asked
\* again and again accepts and answers some time.
Fairness ==
    /\ WF_ddvars(Task) /\ WF_ddvars(ReloadClear \/ ddns_load_config)
    /\ WF_ddvars(ddns_timer_cb(TRUE))
    /\ SF_ddvars(Accepted)

Spec == Init /\ [][Next]_ddvars
FairSpec == Spec /\ Fairness

-----------------------------------------------------------------------------
(* Properties                                                              *)

\* The name follows the address: once the uplink keeps an address and updates stay enabled with a
\* usable name, the provider's record becomes that address and stays, although an address that
\* comes while an update runs is not reported, updates fail, and replies are lost.
RecordFollows ==
    \A a \in WanAddresses :
      <>[](g_wan_ip = a /\ g_ddns.enabled /\ Asked(g_ddns.settings)) => <>[](record = a)
=============================================================================
