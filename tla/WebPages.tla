------------------------------ MODULE WebPages ------------------------------
(***************************************************************************)
(* The pages of components/http_server/http_server.c: the forms that       *)
(* change settings, the files that are exported and imported, and the      *)
(* answer, as scripts of ConfigStore.  x holds the fields of the form      *)
(* under the names of the keys they set: Missing if the browser does not   *)
(* send the field (an unchecked box, say), 0 if it is empty.               *)
(*                                                                         *)
(* Of the HTML is left what the handler has to observe: a page is streamed *)
(* in chunks, and a failed chunk returns from the handler at once, so      *)
(* nothing on the heap, and no lock, may be held while one is sent.        *)
(***************************************************************************)
EXTENDS CliCommands

Running(k)    == IF k \in Settings THEN run[k] ELSE 1
Has(x, k)     == x[k] # Missing
NotEmpty(x, k) == x[k] \notin {Missing, 0}
Checked(x, k) == IF Has(x, k) THEN 1 ELSE 0

\* is_authenticated(); "session" is the only session there is, 1 while it is active.
Authorized == is_web_password_set => Running("session") = 1

\* The query string is copied to the heap, read, and released before anything is sent.
Query(script) == <<Alloc("buf")>> \o script \o <<Drop("buf")>>

Chunks == <<Send, Send>>

-----------------------------------------------------------------------------
(* The front page: login, logout, password                                 *)

create_session == Do(Live("session", 1))
clear_session  == Do(Live("session", 0))

index_logout == clear_session

\* The stored password is v; an old one in the clear is hashed.
index_login(v) ==
    When(Stored("web_password") = v /\ v \notin {Missing, 0},
         verify_web_password(v) \o create_session)

\* What comes after the password is saved depends on that.
index_new_password(v) ==
    When(Authorized,
         Chain(<<set_web_password_hashed(v)>> \o When(v = 0, RevokeWan) \o clear_session))

index_page == Chunks

-----------------------------------------------------------------------------
(* The configuration page                                                  *)

config_reset == Do(Arm)

config_disable_interface == PutOnly("web_disabled", 1) \o Do(Arm)

\* "Keep existing password if field was left empty"
Kept(x, k) == IF x[k] = 0 THEN Running(k) ELSE x[k]

\* The form may be sent open: without a password.
config_ap_form(x, open) ==
    LET pass == IF open THEN 0 ELSE Kept(x, "ap_passwd")
        disabled == 1 - Checked(x, "ap_disabled")   \* the box says "enabled"
        box(k) == PutAndLive(k, Checked(x, k))
    IN When(Has(x, "ap_ssid") /\ Has(x, "ap_passwd"),
         set_ap([x EXCEPT !["ap_passwd"] = pass])
         \o When(NotEmpty(x, "ap_ip"), set_ap_ip(x))
         \o set_hostname(x)
         \o set_ap_dns(x)
         \o When(NotEmpty(x, "ap_mac"), set_mac("ap_mac", x))
         \o PutAndLive("ap_disabled", disabled)
         \o box("ap_nat") \o box("ap_hidden")
         \o When(~Refuse("ap_authmode", x), PutAndLive("ap_authmode", x["ap_authmode"]))
         \o When(Has(x, "ap_channel") /\ x["ap_channel"] <= wifi_country_max_channel(Country),
                 PutAndLive("ap_channel", x["ap_channel"]))
         \o Do(Arm))

\* Enterprise settings that are not sent are reset; set_sta() resets the user names.
config_sta_form(x) ==
    LET number(k) == IF Has(x, k) THEN x[k] ELSE 0
        band == IF Refuse("sta_band", x) THEN 0 ELSE x["sta_band"]
        sta == [k \in DOMAIN x |->
                  CASE k = "passwd" -> Kept(x, "passwd")
                    [] k \in {"ent_username", "ent_identity"} /\ x[k] = 0 -> Missing
                    [] k \in {"eap_method", "ttls_phase2", "cert_bundle", "no_time_chk"} -> Missing
                    [] OTHER -> x[k]]
    IN When(Has(x, "ssid") /\ Has(x, "passwd") /\ Has(x, "ent_username") /\ Has(x, "ent_identity"),
         set_sta(sta)
         \o PutAndLive("eap_method", number("eap_method"))
         \o PutAndLive("ttls_phase2", number("ttls_phase2"))
         \o PutAndLive("cert_bundle", Checked(x, "cert_bundle"))
         \o PutAndLive("no_time_chk", Checked(x, "no_time_chk"))
         \o PutAndLive("sta_band", band)
         \o When(NotEmpty(x, "mac"), set_mac("mac", x))
         \o Do(Arm))

config_static_form(x) ==
    When(\A i \in 1..3 : Has(x, StaticKeys[i]), set_sta_static(x) \o Do(Arm))

config_rc_form(x) ==
    When(Has(x, "rc_enabled"), LiveAndPut("rc_enabled", x["rc_enabled"]))
    \o When(NotEmpty(x, "rc_port"), remote_console_cmd("rc_port", x))
    \o When(Has(x, "rc_timeout"), remote_console_cmd("rc_timeout", x))

\* Mutant: the copy of the address is released after the page.
Mutconfig_page ==
    <<Alloc("buf"), Drop("buf"), Alloc("ap_ip")>> \o Chunks \o <<Drop("ap_ip")>>

\* The name for the form comes from the query again, the address from NVS.
config_page ==
    <<Alloc("buf"), Drop("buf"), Alloc("ap_ip"), Drop("ap_ip")>> \o Chunks

config_get_handler(x, open) ==
    Query(config_ap_form(x, open) \o config_sta_form(x) \o config_static_form(x)) \o config_page

-----------------------------------------------------------------------------
(* Mappings, firewall, scan                                                *)

mappings_known(x) == PutAndLive("ap_known_only", Checked(x, "ap_known_only"))

mappings_dhcp(x) == When(Has(x, "dhcp_res"), dhcp_reserve(x))

mappings_port(x) == When(Has(x, "portmap"), portmap(x))

mappings_page == Chunks

mappings_get_handler(x) ==
    Query(mappings_dhcp(x) \o mappings_port(x)) \o mappings_page

\* Each list is copied under the lock, which is released before the list is sent.
firewall_page ==
    LET list == <<Alloc("acl_lock"), Drop("acl_lock"), Send>>
    IN Chunks \o list \o list \o Chunks

\* A change of the rules redirects; see the module Firewall.
firewall_get_handler == Query(None) \o firewall_page

\* One buffer is released before the next is allocated; nothing is sent in chunks.
scan_get_handler ==
    <<Alloc("ap_list"), Drop("ap_list"), Alloc("scan_page"), Drop("scan_page")>>

-----------------------------------------------------------------------------
(* First setup: everything that is not asked for gets its default.         *)

setup_ap_form(x) ==
    LET zero(k) == PutAndLive(k, 0) IN
    When(Has(x, "ap_ssid") /\ Has(x, "ap_passwd"),
         PutOnly("ap_ip", 0)
         \o zero("ap_dns") \o zero("ap_hidden") \o zero("ap_known_only")
         \o zero("ap_authmode") \o zero("ap_disabled") \o PutAndLive("ap_nat", 1)
         \o set_ap([x EXCEPT !["ap_passwd"] = Kept(x, "ap_passwd")]))

setup_sta_form(x) ==
    LET zero(k) == PutAndLive(k, 0)
        sta == [k \in DOMAIN x |->
                  CASE k = "ssid"   -> x[k]
                    [] k = "passwd" -> Kept(x, k)
                    [] OTHER        -> Missing]
    IN When(Has(x, "ssid") /\ Has(x, "passwd"),
         zero("static_ip") \o zero("subnet_mask") \o zero("gateway_addr")
         \o zero("ent_username") \o zero("ent_identity")
         \o zero("eap_method") \o zero("ttls_phase2") \o zero("cert_bundle") \o zero("no_time_chk")
         \o set_sta(sta)
         \o Do(Arm))

setup_get_handler(x) ==
    Query(setup_ap_form(x) \o setup_sta_form(x)) \o <<Alloc("buf"), Drop("buf")>> \o Chunks

-----------------------------------------------------------------------------
(* PPPoE, VPN, dynamic DNS                                                 *)

\* Secrets are kept when their field is empty.
WithoutEmpty(x, secrets) == [k \in DOMAIN x |-> IF k \in secrets /\ x[k] = 0 THEN Missing ELSE x[k]]

pppoe_get_handler(x) ==
    Query(When(Has(x, "pppoe_en"),
               PutOnly("pppoe_en", x["pppoe_en"])
               \o PutsGiven(<<"pppoe_user", "pppoe_pass", "pppoe_svc", "pppoe_auth",
                              "pppoe_vlan", "pppoe_bj">>, WithoutEmpty(x, {"pppoe_pass"}))
               \o Do(Arm)))

pppoe_page == Chunks

vpn_get_handler(x) ==
    Query(When(Has(x, "vpn_enabled"),
               PutOnly("vpn_enabled", x["vpn_enabled"])
               \o PutsGiven(<<"vpn_privkey", "vpn_pubkey", "vpn_psk", "vpn_endpoint", "vpn_port",
                              "vpn_ip", "vpn_mask", "vpn_dns", "vpn_ka", "vpn_ks", "vpn_rall">>,
                            WithoutEmpty(x, {"vpn_privkey", "vpn_psk"}))
               \o Do(Arm)))

vpn_page == Chunks

\* ddns_reload_config() is in the module Ddns.
ddns_get_handler(x) ==
    Query(When(Has(x, "ddns_en"),
               PutOnly("ddns_en", x["ddns_en"])
               \o PutsGiven(<<"ddns_prov", "ddns_host", "ddns_token", "ddns_pass">>,
                            WithoutEmpty(x, {"ddns_token", "ddns_pass"}))
               \o When(~Refuse("ddns_poll", x), PutOnly("ddns_poll", x["ddns_poll"]))))

ddns_page == Chunks

-----------------------------------------------------------------------------
(* Files                                                                   *)

\* An encrypted text takes the plain one's place on the heap; both go out in one piece.
config_export_handler(encrypted) ==
    <<Alloc("plain"), Drop("plain")>> \o When(encrypted, <<Alloc("enc"), Drop("enc")>>)

\* Old keys go once the file is known to hold an entry; then the file's, in its order.
nvs_import_from_json_robust(x) ==
    Do(Wipe) \o PutsGiven(SetToSeq(Settings), x)

\* The body does not arrive, the passphrase is wrong, or the file is imported.
config_import_fails(encrypted) ==
    <<Alloc("body"), Drop("body")>>

config_import_handler(x, encrypted) ==
    <<Alloc("body")>>
    \o When(encrypted, <<Alloc("decrypted"), Drop("body")>>)
    \o nvs_import_from_json_robust(x)
    \o <<Drop("body"), Drop("decrypted"), Arm>>

vpn_import_handler(psk, optional) ==
    <<Alloc("body")>> \o vpn_import_conf(psk, optional) \o <<Drop("body"), Arm>>
=============================================================================
