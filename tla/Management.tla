----------------------------- MODULE Management -----------------------------
(***************************************************************************)
(* Every way to change a setting: the commands of CliCommands and the      *)
(* pages of WebPages, one after the other, with failing writes, clients    *)
(* that go away and restarts at any place.                                 *)
(***************************************************************************)
EXTENDS WebPages

\* The keys that appear in some handler
Keys == {"ssid", "passwd", "ent_username", "ent_identity", "eap_method", "ttls_phase2",
    "cert_bundle", "no_time_chk", "static_ip", "subnet_mask", "gateway_addr", "mac", "ap_mac",
    "sta_band", "sta_ttl", "ap_ssid", "ap_passwd", "ap_ip", "ap_dns", "hostname", "ap_nat",
    "ap_hidden", "ap_known_only", "ap_authmode", "ap_channel", "wifi_cc", "tx_power",
    "ap_disabled", "web_disabled", "web_port", "wan_access", "web_password", "session",
    "ddns_en", "ddns_prov", "ddns_host", "ddns_token", "ddns_pass", "ddns_poll", "led_gpio",
    "led_low", "cstats_en", "rf_switch", "spi_clk_mhz", "tz", "log_level", "rc_enabled",
    "rc_port", "rc_timeout", "portmap", "dhcp_res"}
    \cup Range(PppoeKeys) \cup Range(VpnKeys)

ASSUME TogetherAssumption == Together \subseteq SUBSET (Keys \cup {"heap"})

\* Every key by itself, and those that a property relates
ConfigInit == watch \in {{k} : k \in Keys \cup {"heap"}} \cup Together /\ FirstStart

\* All arguments and fields, the unwatched ones just given
Args ==
    {[k \in Keys |-> IF k \in Settings THEN v[k] ELSE 1] :
       v \in {f \in [Settings -> 0..3 \cup {Missing}] :
                \A k \in Settings : f[k] \in Domain(k) \cup {Missing}}}

Cli(x) ==
    \/ Begin("set_sta", set_sta(x))
    \/ Begin("set_sta_static", set_sta_static(x))
    \/ Begin("set_sta_static", set_sta_static_dhcp)
    \/ Begin("set_mac", set_mac("mac", x))
    \/ Begin("set_ap_mac", set_mac("ap_mac", x))
    \/ Begin("set_sta_band", set_sta_band_cmd(x))
    \/ Begin("set_ttl", set_ttl_cmd(x))
    \/ Begin("set_ap", set_ap(x))
    \/ Begin("set_ap_ip", set_ap_ip(x))
    \/ Begin("set_ap_dns", set_ap_dns(x))
    \/ Begin("set_hostname", set_hostname(x))
    \/ Begin("set_ap_nat", set_ap_nat_cmd(x))
    \/ Begin("set_ap_hidden", set_ap_hidden_cmd(x))
    \/ Begin("set_ap_known_only", set_ap_known_only_cmd(x))
    \/ Begin("set_ap_auth", set_ap_auth_cmd(x))
    \/ Begin("set_ap_channel", set_ap_channel_cmd(x))
    \/ Begin("set_wifi_country", set_wifi_country_cmd(x))
    \/ Begin("set_tx_power", set_tx_power_cmd(x))
    \/ \E on \in BOOLEAN : Begin("ap", ap_cmd(on))
    \/ \E a \in {"enable", "disable", "port", "wan_access"} : Begin("web_ui", web_ui_cmd(a, x))
    \/ Has(x, "web_password") /\ Begin("set_router_password", set_router_password_cmd(x["web_password"]))
    \/ Begin("set_pppoe", set_pppoe_cmd(x))
    \/ Begin("set_vpn", set_vpn_cmd(x))
    \/ \E k \in {"ddns_en", "ddns_prov", "ddns_host", "ddns_token", "ddns_pass", "ddns_poll"} :
         Begin("ddns", ddns_cmd(k, x))
    \/ Begin("set_led_gpio", set_led_gpio_cmd(x))
    \/ Begin("set_led_lowactive", set_led_lowactive_cmd(x))
    \/ Begin("client_stats", client_stats_cmd(x))
    \/ Begin("set_rf_switch", set_rf_switch_cmd(x))
    \/ Begin("set_spi_clock", set_spi_clock_cmd(x))
    \/ Begin("set_tz", set_tz_cmd(x))
    \/ Begin("log_level", log_level_cmd(x))
    \/ \E k \in {"rc_port", "rc_timeout"} : Begin("remote_console", remote_console_cmd(k, x))
    \/ Begin("portmap", portmap(x))
    \/ Begin("dhcp_reserve", dhcp_reserve(x))
    \/ Begin("scan", scan_cmd)
    \/ Begin("factory_reset", factory_reset)

Web(x) ==
    \/ Begin("index", Query(index_logout) \o index_page)
    \/ Has(x, "web_password") /\ Begin("index", Query(index_login(x["web_password"])))
    \/ Has(x, "web_password") /\ Begin("index", Query(index_new_password(x["web_password"])))
    \/ Begin("scan_page", scan_get_handler)
    \/ Authorized /\
         \/ Begin("config", Query(config_reset))
         \/ Begin("config", Query(config_disable_interface))
         \/ \E open \in BOOLEAN : Begin("config", config_get_handler(x, open))
         \/ Begin("config", Query(config_rc_form(x)))
         \/ Begin("mappings", Query(mappings_known(x)))
         \/ Begin("mappings", mappings_get_handler(x))
         \/ Begin("firewall", firewall_get_handler)
         \/ Begin("setup", setup_get_handler(x))
         \/ Begin("pppoe", pppoe_get_handler(x) \o pppoe_page)
         \/ Begin("vpn", vpn_get_handler(x) \o vpn_page)
         \/ Begin("ddns", ddns_get_handler(x))
         \/ Begin("ddns", ddns_page)
         \/ \E e \in BOOLEAN :
              \/ Begin("config_export", config_export_handler(e))
              \/ Begin("config_import", config_import_fails(e))
              \/ Begin("config_import", config_import_handler(x, e))
         \/ \E psk \in {0, 2}, optional \in {<<>>, <<"vpn_dns", "vpn_port", "vpn_ka", "vpn_rall">>} :
              Begin("vpn_import", vpn_import_handler(psk, optional))

ConfigNext ==
    \/ \E x \in Args : job = <<>> /\ (Cli(x) \/ Web(x))
    \/ Step

ConfigSpec == ConfigInit /\ [][ConfigNext]_cfgvars

-----------------------------------------------------------------------------
(* Properties                                                              *)

\* The settings that take effect without a restart
LiveKeys == {"eap_method", "ttls_phase2", "cert_bundle", "no_time_chk", "led_low", "sta_ttl",
    "cstats_en", "ap_nat", "wifi_cc", "rf_switch", "ap_hidden", "ap_known_only", "ap_authmode",
    "ap_channel", "ap_disabled", "sta_band", "tz", "ap_dns", "log_level",
    "rc_enabled", "rc_port", "rc_timeout", "portmap", "dhcp_res"}

\* A restart never changes a setting that is already in force: once a handler is done, the
\* router runs with what app_main() would load, although writes fail whose result the
\* handler looks at.  A write that fails unseen is excepted.  (Channel 14 is taken from the
\* user, but not by app_main(): see the README.)
LiveAgrees ==
    job = <<>> /\ ~failed /\ ~timer =>
      \A k \in LiveKeys \cap Settings :
        run[k] = Loaded(k, nvs[k]) \/ (k = "ap_channel" /\ nvs[k] = Bad)

\* vpn_import_conf() enables the tunnel last: a file that turns it on has all its
\* mandatory values stored by then, wherever the power goes.
EnablesWhole ==
    [][handler = "vpn_import" /\ "vpn_enabled" \in Settings /\ ~failed
       /\ nvs["vpn_enabled"] # 1 /\ nvs'["vpn_enabled"] = 1
       => \A k \in Range(VpnMandatory) \cap Settings : nvs[k] = 2]_cfgvars

\* A handler that SEND_CHUNK leaves, or that ends, has released the heap and the locks
\* ("must NOT hold a heap allocation across the chunk loop", http_server.c:72).
NothingHeld ==
    job = <<>> \/ Effect[1] = "send" => held = {}
=============================================================================
