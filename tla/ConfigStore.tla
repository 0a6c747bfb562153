----------------------------- MODULE ConfigStore -----------------------------
(***************************************************************************)
(* The settings: the NVS namespace of the router, the copy of it that      *)
(* app_main() loads into globals, and the handlers (console commands, web  *)
(* pages) that change either.                                              *)
(*                                                                         *)
(* A handler is the sequence of its effects, which take place one at a     *)
(* time; a write may fail and the power may go between any two.  A checked *)
(* write that fails leads behind the next End (the nested                  *)
(* "if (err == ESP_OK)" of the source), an unchecked one to the next       *)
(* effect.  A peer that is gone ends the whole handler.                    *)
(*                                                                         *)
(* Handlers write dozens of keys, and the properties relate one, two or    *)
(* three of them: each behaviour watches a few keys, and the effects on    *)
(* all others are skipped.  "heap" among the watched keys stands for what  *)
(* a handler must release, and for its answer to the browser.              *)
(*                                                                         *)
(* Values are those the code tells apart: 0 is empty or zero, 1 and 2 are  *)
(* two settings, Bad is one that the range checks refuse.                  *)
(***************************************************************************)
EXTENDS Naturals, Sequences, SequencesExt

CONSTANTS
    Missing,   \* no such key in NVS; an option that is not given
    Together   \* the sets of keys that a property relates

VARIABLES
    watch,     \* the watched keys
    nvs,       \* what is stored under them
    run,       \* the globals they are loaded into
    job,       \* the effects of the running handler, <<>> if there is none
    at,        \* the place in job of the one that comes next, 0 if there is none
    handler,   \* its name
    held,      \* the buffers and locks it has to release
    timer,     \* restart_timer is armed
    failed     \* a write whose result nobody looks at has failed since the start

cfgvars == <<watch, nvs, run, job, at, handler, held, timer, failed>>

Bad == 3

ASSUME MissingAssumption == Missing \notin 0..Bad

Flags == {"no_time_chk", "cert_bundle", "led_low", "cstats_en", "ap_nat", "ap_hidden",
    "ap_known_only", "ap_disabled", "rf_switch", "web_disabled", "wan_access", "pppoe_en",
    "pppoe_bj", "vpn_enabled", "vpn_ks", "vpn_rall", "ddns_en"}

Ranged == {"sta_ttl", "tx_power", "ap_authmode", "ap_channel", "sta_band", "led_gpio",
    "web_port", "hostname", "wifi_cc", "spi_clk_mhz", "ddns_prov", "ddns_poll", "log_level",
    "mac", "ap_mac"}

Domain(k) ==
    CASE k \in Flags  -> {0, 1}
      [] k \in Ranged -> {0, 1, 2, Bad}
      [] OTHER        -> {0, 1, 2}

Settings == watch \ {"heap"}

\* What app_main() puts into a global, from what is stored
LoadString(v)  == IF v = Missing THEN 0 ELSE v
LoadOption(k, v) ==
    CASE v = Missing                -> IF k = "ap_nat" THEN 1 ELSE 0
      [] k = "sta_ttl" /\ v = Bad   -> 0
      [] OTHER                      -> v
LoadRadio(k, v) ==
    IF v = Missing \/ v = Bad THEN 0 ELSE v
LoadUplink(k, v) ==
    IF v = Missing THEN (IF k \in {"pppoe_bj", "vpn_ks", "vpn_rall"} THEN 1 ELSE 0) ELSE v

OptionKeys == {"led_gpio", "led_low", "rf_switch", "cstats_en", "sta_ttl", "ap_disabled",
    "ap_nat", "ap_hidden", "ap_known_only"}
RadioKeys  == {"ap_authmode", "wifi_cc", "ap_channel", "sta_band", "eap_method", "ttls_phase2",
    "cert_bundle", "no_time_chk", "tx_power"}
UplinkKeys == {"pppoe_en", "pppoe_bj", "pppoe_vlan", "pppoe_auth", "vpn_enabled", "vpn_ks",
    "vpn_rall", "vpn_port", "vpn_ka"}

Loaded(k, v) ==
    CASE k \in OptionKeys -> LoadOption(k, v)
      [] k \in RadioKeys   -> LoadRadio(k, v)
      [] k \in UplinkKeys  -> LoadUplink(k, v)
      [] OTHER         -> LoadString(v)

LoadAll(store) == [k \in DOMAIN store |-> Loaded(k, store[k])]

FirstStart ==
    /\ nvs = [k \in watch \ {"heap"} |-> Missing]
    /\ run = LoadAll(nvs)
    /\ job = <<>> /\ at = 0 /\ handler = "none" /\ held = {}
    /\ timer = FALSE /\ failed = FALSE

-----------------------------------------------------------------------------
(* Effects, and the scripts made of them                                   *)

NvsSet(k, v) == <<"save", k, v>>    \* nvs_set_*(), set_config_param_*(), result checked
Put(k, v)    == <<"put", k, v>>     \* the same, result ignored
Live(k, v)   == <<"live", k, v>>    \* the global is set, or the driver told
Erase(k)     == <<"put", k, Missing>>
Wipe         == <<"wipe", "*", 0>>  \* nvs_erase_all()
Alloc(b)     == <<"alloc", b, 0>>   \* malloc() and the like; a lock taken
Drop(b)      == <<"free", b, 0>>
Send         == <<"send", "*", 0>>  \* httpd_resp_send_chunk(), result checked
Arm          == <<"arm", "*", 0>>   \* esp_timer_start_once(restart_timer)
End          == <<"end", "*", 0>>   \* where a checked write that fails leads to
Skip         == <<"skip", "*", 0>>  \* an option that is not given

None == <<>>
Do(e)              == <<e>>
Chain(script)      == Append(script, End)
PutAndLive(k, v)   == <<Put(k, v), Live(k, v)>>
LiveAndPut(k, v)   == <<Live(k, v), Put(k, v)>>
PutOnly(k, v)      == <<Put(k, v)>>
SaveOnly(k, v)     == <<NvsSet(k, v), End>>

\* Mutant: the global is set although the write failed.
MutSaveThenLive(k, v) == <<NvsSet(k, v), End, Live(k, v)>>

\* set_config_param_int(); if (err == ESP_OK) the global is set
SaveThenLive(k, v) == <<NvsSet(k, v), Live(k, v), End>>

\* keys, in this order, each with its value in x
Saves(keys, x) == [i \in DOMAIN keys |-> NvsSet(keys[i], x[keys[i]])]
Puts(keys, x)  == [i \in DOMAIN keys |-> Put(keys[i], x[keys[i]])]
PutsGiven(keys, x) ==
    [i \in DOMAIN keys |-> IF x[keys[i]] = Missing THEN Skip ELSE Put(keys[i], x[keys[i]])]

When(c, script) == IF c THEN script ELSE None

Watched(e) ==
    \/ e[1] \in {"save", "put", "live"} /\ e[2] \in watch
    \/ e[1] \in {"alloc", "free", "send"} /\ "heap" \in watch
    \/ e[1] \in {"wipe", "arm"}

-----------------------------------------------------------------------------
(* Running a handler                                                       *)

\* The places of the effects that are watched
Seen(script) == {i \in DOMAIN script : Watched(script[i])}

\* The handler goes on with the first of these places, or is done.
GoOn(name, script, places) ==
    IF places = {}
    THEN job' = <<>> /\ at' = 0 /\ handler' = "none"
    ELSE job' = script /\ at' = Min(places) /\ handler' = name

\* Handlers are called one after the other.
Begin(name, script) ==
    /\ job = <<>>
    /\ GoOn(name, script, Seen(script))
    /\ UNCHANGED <<watch, nvs, run, held, timer, failed>>

Effect == job[at]
NextEffect == GoOn(handler, job, {i \in Seen(job) : i > at})
NextChain  == GoOn(handler, job, {i \in Seen(job) : \E j \in at..i : job[j] = End})

Write ==
    /\ job # <<>> /\ Effect[1] \in {"save", "put"}
    /\ nvs' = [nvs EXCEPT ![Effect[2]] = Effect[3]]
    /\ NextEffect
    /\ UNCHANGED <<watch, run, held, timer, failed>>

WriteFails ==
    /\ job # <<>> /\ Effect[1] \in {"save", "put"}
    /\ failed' = (failed \/ Effect[1] = "put")
    /\ IF Effect[1] = "save" THEN NextChain ELSE NextEffect
    /\ UNCHANGED <<watch, nvs, run, held, timer>>

EraseAll ==
    /\ job # <<>> /\ Effect[1] = "wipe"
    /\ nvs' = [k \in DOMAIN nvs |-> Missing]
    /\ NextEffect
    /\ UNCHANGED <<watch, run, held, timer, failed>>

SetLive ==
    /\ job # <<>> /\ Effect[1] = "live"
    /\ run' = [run EXCEPT ![Effect[2]] = Effect[3]]
    /\ NextEffect
    /\ UNCHANGED <<watch, nvs, held, timer, failed>>

Hold ==
    /\ job # <<>> /\ Effect[1] = "alloc"
    /\ held' = held \cup {Effect[2]}
    /\ NextEffect
    /\ UNCHANGED <<watch, nvs, run, timer, failed>>

Release ==
    /\ job # <<>> /\ Effect[1] = "free"
    /\ held' = held \ {Effect[2]}
    /\ NextEffect
    /\ UNCHANGED <<watch, nvs, run, timer, failed>>

SendChunk ==
    /\ job # <<>> /\ Effect[1] = "send"
    /\ NextEffect
    /\ UNCHANGED <<watch, nvs, run, held, timer, failed>>

\* SEND_CHUNK returns from the handler.
PeerGone ==
    /\ job # <<>> /\ Effect[1] = "send"
    /\ GoOn(handler, job, {})
    /\ UNCHANGED <<watch, nvs, run, held, timer, failed>>

ArmRestart ==
    /\ job # <<>> /\ Effect[1] = "arm"
    /\ timer' = TRUE
    /\ NextEffect
    /\ UNCHANGED <<watch, nvs, run, held, failed>>

\* app_main() after the restart timer, a restart command, a crash or a power cut
Restart ==
    /\ run' = LoadAll(nvs)
    /\ GoOn(handler, job, {}) /\ held' = {}
    /\ timer' = FALSE /\ failed' = FALSE
    /\ UNCHANGED <<watch, nvs>>

Step ==
    \/ Write \/ WriteFails \/ EraseAll \/ SetLive
    \/ Hold \/ Release \/ SendChunk \/ PeerGone \/ ArmRestart
    \/ Restart
=============================================================================
