----------------------------- MODULE CliCommands -----------------------------
(***************************************************************************)
(* The console commands of components/cmd_router/cmd_router.c and          *)
(* components/cmd_system/cmd_system.c that change settings: what each does *)
(* to NVS and to the globals, as scripts of ConfigStore.  x holds the      *)
(* arguments under the names of the keys they set, Missing if an option is *)
(* not given.  Several are called by the web pages as well.                *)
(***************************************************************************)
EXTENDS ConfigStore

Refuse(k, x) == x[k] \in {Missing, Bad}   \* no argument: usage; out of range: refused

\* A stored value; where nobody watches the key, some setting
Stored(k) == IF k \in Settings THEN nvs[k] ELSE 1

is_web_password_set == Stored("web_password") \notin {Missing, 0}

-----------------------------------------------------------------------------
(* The uplink station                                                      *)

\* The four strings are nested in each other's success; the options come with the last.
set_sta(x) ==
    LET Or0(k) == IF x[k] = Missing THEN 0 ELSE x[k]
        optional(k) == When(x[k] # Missing, PutAndLive(k, x[k]))
    IN When(x["ssid"] # Missing /\ x["passwd"] # Missing,
            Chain(Saves(<<"ssid", "passwd">>, x)
                  \o <<NvsSet("ent_username", Or0("ent_username")),
                       NvsSet("ent_identity", Or0("ent_identity"))>>
                  \o optional("eap_method") \o optional("ttls_phase2")
                  \o optional("cert_bundle") \o optional("no_time_chk")))

StaticKeys == <<"static_ip", "subnet_mask", "gateway_addr">>

set_sta_static(x) ==
    When(\A i \in 1..3 : x[StaticKeys[i]] # Missing, Chain(Saves(StaticKeys, x)))

set_sta_static_dhcp == [i \in 1..3 |-> Erase(StaticKeys[i])]

set_mac(key, x) == When(~Refuse(key, x), SaveOnly(key, x[key]))

set_sta_band_cmd(x) == When(~Refuse("sta_band", x), SaveThenLive("sta_band", x["sta_band"]))

set_ttl_cmd(x) == When(~Refuse("sta_ttl", x), SaveThenLive("sta_ttl", x["sta_ttl"]))

-----------------------------------------------------------------------------
(* The access point                                                        *)

set_ap(x) ==
    When(x["ap_ssid"] # Missing /\ x["ap_passwd"] # Missing,
         Chain(Saves(<<"ap_ssid", "ap_passwd">>, x)))

\* Addresses: 0 is 192.168.4.1, the default; 1 is 192.168.4.2, 2 is 10.168.4.1.
Subnet(a)    == IF a = 2 THEN "10.168.4" ELSE "192.168.4"
LastThree(a) == IF a = 1 THEN "168.4.2" ELSE "168.4.1"

clear_all_dhcp_reservations == LiveAndPut("dhcp_res", 0)

\* What is compared are the octets under 0xFFFFFF00 of an address in network order: the last
\* three.  Without a stored address nothing is cleared.
set_ap_ip(x) ==
    LET old == Stored("ap_ip")
        moved == old # Missing /\ LastThree(old) # LastThree(x["ap_ip"])
        cleared == When(moved, clear_all_dhcp_reservations \o LiveAndPut("portmap", 0))
    IN When(x["ap_ip"] # Missing, Chain(<<NvsSet("ap_ip", x["ap_ip"])>> \o cleared))

set_ap_dns(x) == When(x["ap_dns"] # Missing, PutAndLive("ap_dns", x["ap_dns"]))

set_hostname(x) == When(~Refuse("hostname", x), SaveThenLive("hostname", x["hostname"]))

set_ap_nat_cmd(x) == When(~Refuse("ap_nat", x), PutAndLive("ap_nat", x["ap_nat"]))

set_ap_hidden_cmd(x) == When(~Refuse("ap_hidden", x), SaveThenLive("ap_hidden", x["ap_hidden"]))

set_ap_known_only_cmd(x) ==
    When(~Refuse("ap_known_only", x), SaveThenLive("ap_known_only", x["ap_known_only"]))

set_ap_auth_cmd(x) ==
    When(~Refuse("ap_authmode", x), SaveThenLive("ap_authmode", x["ap_authmode"]))

\* Channels: 0 auto, 1 up to 11, 2 up to 13, Bad 14.  Countries: 1 Japan, 2 Germany, 0 world.
wifi_country_max_channel(cc) == CASE cc = 1 -> 3 [] cc = 2 -> 2 [] OTHER -> 1

Country == IF "wifi_cc" \in watch THEN run["wifi_cc"] ELSE 2

set_ap_channel_cmd(x) ==
    When(x["ap_channel"] # Missing /\ x["ap_channel"] <= wifi_country_max_channel(Country),
         SaveThenLive("ap_channel", x["ap_channel"]))

set_wifi_country_cmd(x) == When(~Refuse("wifi_cc", x), SaveThenLive("wifi_cc", x["wifi_cc"]))

\* 0, the maximum, takes effect at the next start.
set_tx_power_cmd(x) ==
    When(~Refuse("tx_power", x),
         IF x["tx_power"] = 0 THEN SaveOnly("tx_power", 0)
         ELSE SaveThenLive("tx_power", x["tx_power"]))

ap_set_enabled(on) ==
    LiveAndPut("ap_disabled", IF on THEN 0 ELSE 1)

ap_cmd(on) ==
    When("ap_disabled" \in watch => run["ap_disabled"] = (IF on THEN 1 ELSE 0),
         ap_set_enabled(on))

-----------------------------------------------------------------------------
(* The web interface                                                       *)

\* The rule of wan_access is in the module Firewall: it is not a setting, may find the list
\* full and is for the stored web_port.
web_ui_cmd(action, x) ==
    CASE action = "enable"  -> SaveOnly("web_disabled", 0)
      [] action = "disable" -> SaveOnly("web_disabled", 1)
      [] action = "port"    -> When(~Refuse("web_port", x), SaveOnly("web_port", x["web_port"]))
      [] action = "wan_access" ->
           When(x["wan_access"] # Missing /\ (x["wan_access"] = 1 => is_web_password_set),
                SaveOnly("wan_access", x["wan_access"]))

set_web_password_hashed(v) == NvsSet("web_password", v)

\* No password, no access from the WAN
RevokeWan == When(Stored("wan_access") = 1, PutOnly("wan_access", 0))

set_router_password_cmd(v) ==
    Chain(<<set_web_password_hashed(v)>> \o When(v = 0, RevokeWan))

\* A password of an older firmware is stored in the clear (2) until it is first used.
verify_web_password(v) ==
    When(v = 2 /\ Stored("web_password") = 2, Chain(<<set_web_password_hashed(1)>>))

-----------------------------------------------------------------------------
(* PPPoE, VPN, dynamic DNS: the globals are loaded at the next start.      *)

PppoeKeys == <<"pppoe_user", "pppoe_pass", "pppoe_svc", "pppoe_auth", "pppoe_en",
    "pppoe_vlan", "pppoe_bj">>

set_pppoe_cmd(x) == PutsGiven(PppoeKeys, x)

VpnKeys == <<"vpn_privkey", "vpn_pubkey", "vpn_endpoint", "vpn_ip", "vpn_psk", "vpn_mask",
    "vpn_dns", "vpn_port", "vpn_ka", "vpn_enabled", "vpn_ks", "vpn_rall">>

set_vpn_cmd(x) == PutsGiven(VpnKeys, x)

VpnMandatory == <<"vpn_privkey", "vpn_pubkey", "vpn_endpoint", "vpn_ip">>

\* The file's values are 2; it may lack the optional ones.
FileValue(k) == IF k \in Flags THEN 1 ELSE 2

\* Mutant: the tunnel is enabled first.
Mutvpn_import_conf(psk, optional) ==
    LET file == [k \in Range(VpnKeys) |-> FileValue(k)] IN
    PutOnly("vpn_enabled", 1)
    \o Puts(<<"vpn_privkey", "vpn_pubkey">>, file) \o PutOnly("vpn_psk", psk)
    \o Puts(<<"vpn_endpoint", "vpn_ip", "vpn_mask">> \o optional, file)

vpn_import_conf(psk, optional) ==
    LET file == [k \in Range(VpnKeys) |-> FileValue(k)] IN
    Puts(<<"vpn_privkey", "vpn_pubkey">>, file) \o PutOnly("vpn_psk", psk)
    \o Puts(<<"vpn_endpoint", "vpn_ip", "vpn_mask">> \o optional, file)
    \o PutOnly("vpn_enabled", 1)

ddns_cmd(key, x) ==
    When(IF key = "ddns_host" THEN x[key] \notin {Missing, 0} ELSE ~Refuse(key, x),
         PutOnly(key, x[key]))

-----------------------------------------------------------------------------
(* The rest                                                                *)

set_led_gpio_cmd(x) == When(~Refuse("led_gpio", x), SaveOnly("led_gpio", x["led_gpio"]))

set_led_lowactive_cmd(x) == When(~Refuse("led_low", x), SaveThenLive("led_low", x["led_low"]))

client_stats_cmd(x) == When(~Refuse("cstats_en", x), SaveThenLive("cstats_en", x["cstats_en"]))

set_rf_switch_cmd(x) == When(~Refuse("rf_switch", x), SaveThenLive("rf_switch", x["rf_switch"]))

set_spi_clock_cmd(x) == When(~Refuse("spi_clk_mhz", x), SaveOnly("spi_clk_mhz", x["spi_clk_mhz"]))

\* Set first, then saved
set_tz_cmd(x) == When(x["tz"] # Missing, LiveAndPut("tz", x["tz"]))

log_level_cmd(x) == When(~Refuse("log_level", x), LiveAndPut("log_level", x["log_level"]))

\* remote_console_set_port(), remote_console_set_timeout(), through save_config()
remote_console_cmd(key, x) == When(~Refuse(key, x), LiveAndPut(key, x[key]))

\* The table in memory is changed, then saved as a whole.
portmap(x) == When(x["portmap"] # Missing, LiveAndPut("portmap", x["portmap"]))

dhcp_reserve(x) == When(x["dhcp_res"] # Missing, LiveAndPut("dhcp_res", x["dhcp_res"]))

\* The list may be on the heap only while it is printed.
scan_cmd == <<Alloc("ap_list"), Drop("ap_list")>>

\* On an error the command ends here; else the device restarts at once.
factory_reset == <<Wipe, Arm>>
=============================================================================
