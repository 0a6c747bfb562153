------------------------------- MODULE PortMap -------------------------------
(***************************************************************************)
(* Port forwardings: the table of main/portmap.c, its copy in NVS, and the *)
(* copy in lwIP's NAPT.  The last is rebuilt ("delete, then apply") by the *)
(* uplink's tasks at every change of address, by app_main() and by         *)
(* whoever enables the access point; console and web server add and delete *)
(* single entries.  Nothing orders these tasks.                            *)
(*                                                                         *)
(* An entry is a pair <<protocol and external port, target>>.              *)
(***************************************************************************)
EXTENDS Naturals, Sequences

CONSTANTS
    Mports,      \* protocol and external port
    Targets,     \* internal address and port
    Slots,       \* IP_PORTMAP_MAX
    Addresses,   \* the uplink's addresses; 0 is none
    Unused,      \* an invalid slot
    Overlap      \* tasks may overlap

VARIABLES
    tab,         \* portmap_tab
    blob,        \* "portmap_tab" in NVS
    unsaved,     \* a write of it has failed
    napt,        \* how many times lwIP holds <<mport, address, target>>
    napton,      \* ip_napt_enable() has allocated lwIP's tables
    bind,        \* pppoe_ip or my_ip
    todo         \* what each task is still to do

pmvars == <<tab, blob, unsaved, napt, napton, bind, todo>>

Tasks == {"uplink", "boot", "console", "web"}
Editors == {"console", "web"}
Slot == 1..Slots
NaptKeys == Mports \X Addresses \X Targets
InUse == {i \in Slot : tab[i] # Unused}

Ready(t) == todo[t] = <<>> /\ (Overlap \/ \A u \in Tasks : todo[u] = <<>>)
At(t, l) == todo[t] # <<>> /\ todo[t][1] = l
Then(t, next) == todo' = [todo EXCEPT ![t] = next]
Done(t) == Then(t, <<>>)

-----------------------------------------------------------------------------
(* lwIP (external): "ip_portmap_add() would duplicate existing entries",   *)
(* esp32_nat_router.c:1612, and does nothing before the tables exist.      *)

ip_portmap_add(keys) ==
    napt' = [k \in NaptKeys |-> IF napton /\ k \in keys THEN napt[k] + 1 ELSE napt[k]]

\* One entry for each of the ports
ip_portmap_remove(ports) ==
    LET held(m) == {k \in NaptKeys : k[1] = m /\ napt[k] > 0}
        first == {CHOOSE k \in held(m) : TRUE : m \in {p \in ports : held(p) # {}}}
    IN napt' = [k \in NaptKeys |-> IF k \in first THEN napt[k] - 1 ELSE napt[k]]

-----------------------------------------------------------------------------
(* Rebuilding                                                              *)

\* Mutant: nothing is taken out before the table is applied again.
Mutdelete_portmap_tab(t) ==
    /\ At(t, "delete")
    /\ Then(t, <<"apply">>)
    /\ UNCHANGED <<tab, blob, unsaved, napt, napton, bind>>

delete_portmap_tab(t) ==
    /\ At(t, "delete")
    /\ ip_portmap_remove({tab[i][1] : i \in InUse})
    /\ Then(t, <<"apply">>)
    /\ UNCHANGED <<tab, blob, unsaved, napton, bind>>

apply_portmap_tab(t) ==
    /\ At(t, "apply")
    /\ IF bind = 0 THEN UNCHANGED napt
       ELSE ip_portmap_add({<<tab[i][1], bind, tab[i][2]>> : i \in InUse})
    /\ Done(t)
    /\ UNCHANGED <<tab, blob, unsaved, napton, bind>>

\* PPP or Ethernet got an address, or the VPN came or went; PPP went down (0).
Uplink(a) ==
    /\ Ready("uplink")
    /\ bind' = a
    /\ Then("uplink", <<"delete">>)
    /\ UNCHANGED <<tab, blob, unsaved, napt, napton>>

\* app_main() with NAT on, and ap_set_enabled(true)
EnableNat(t) ==
    /\ IF t = "boot" THEN At(t, "boot") ELSE Ready(t)
    /\ napton' = TRUE
    /\ Then(t, <<"delete">>)
    /\ UNCHANGED <<tab, blob, unsaved, napt, bind>>

\* app_main() with the access point disabled, or NAT off
BootRouted ==
    /\ At("boot", "boot")
    /\ Done("boot")
    /\ UNCHANGED <<tab, blob, unsaved, napt, napton, bind>>

-----------------------------------------------------------------------------
(* Single entries                                                          *)

\* The command or form refuses a port in use; add_portmap() takes the first free slot ...
AddBegin(t, e) ==
    /\ Ready(t)
    /\ \A i \in InUse : tab[i][1] # e[1]
    /\ \E i \in Slot \ InUse : 1..(i - 1) \subseteq InUse /\ Then(t, <<"fill", i, e>>)
    /\ UNCHANGED <<tab, blob, unsaved, napt, napton, bind>>

Fill(t) ==
    /\ At(t, "fill")
    /\ tab' = [tab EXCEPT ![todo[t][2]] = todo[t][3]]
    /\ Then(t, <<"save", "add", todo[t][3]>>)
    /\ UNCHANGED <<blob, unsaved, napt, napton, bind>>

\* ... stores the table, and tells lwIP whatever became of that.
Save(t, ok) ==
    /\ At(t, "save")
    /\ blob' = IF ok THEN tab ELSE blob
    /\ unsaved' = ~ok
    /\ IF Len(todo[t]) > 1 THEN Then(t, <<todo[t][2], todo[t][3]>>) ELSE Done(t)
    /\ UNCHANGED <<tab, napt, napton, bind>>

AddNapt(t) ==
    /\ At(t, "add")
    /\ IF bind = 0 THEN UNCHANGED napt
       ELSE ip_portmap_add({<<todo[t][2][1], bind, todo[t][2][2]>>})
    /\ Done(t)
    /\ UNCHANGED <<tab, blob, unsaved, napton, bind>>

del_portmap(t, m) ==
    /\ Ready(t)
    /\ \E i \in InUse : /\ tab[i][1] = m
                        /\ \A j \in InUse : tab[j][1] = m => i <= j
                        /\ tab' = [tab EXCEPT ![i] = Unused]
    /\ Then(t, <<"save", "remove", m>>)
    /\ UNCHANGED <<blob, unsaved, napt, napton, bind>>

RemoveNapt(t) ==
    /\ At(t, "remove")
    /\ ip_portmap_remove({todo[t][2]})
    /\ Done(t)
    /\ UNCHANGED <<tab, blob, unsaved, napton, bind>>

\* When the router moves to another network: lwIP first, then NVS
clear_all_portmaps(t) ==
    /\ Ready(t)
    /\ ip_portmap_remove({tab[i][1] : i \in InUse})
    /\ tab' = [i \in Slot |-> Unused]
    /\ Then(t, <<"save">>)
    /\ UNCHANGED <<blob, unsaved, napton, bind>>

\* get_portmap_tab() reads what was stored; lwIP starts empty.
Reboot ==
    /\ tab' = blob /\ unsaved' = FALSE
    /\ napt' = [k \in NaptKeys |-> 0] /\ napton' = FALSE
    /\ bind' = 0
    /\ todo' = [t \in Tasks |-> IF t = "boot" THEN <<"boot">> ELSE <<>>]
    /\ UNCHANGED <<blob>>

-----------------------------------------------------------------------------

PortInit ==
    /\ tab = [i \in Slot |-> Unused] /\ blob = tab /\ unsaved = FALSE
    /\ napt = [k \in NaptKeys |-> 0] /\ napton = FALSE
    /\ bind = 0
    /\ todo = [t \in Tasks |-> IF t = "boot" THEN <<"boot">> ELSE <<>>]

PortNext ==
    \/ \E a \in Addresses \cup {0} : Uplink(a)
    \/ BootRouted
    \/ \E t \in Tasks :
         \/ delete_portmap_tab(t)
         \/ apply_portmap_tab(t)
    \/ \E t \in Editors \cup {"boot"} : EnableNat(t)
    \/ \E t \in Editors :
         \/ \E e \in Mports \X Targets : AddBegin(t, e)
         \/ \E m \in Mports : del_portmap(t, m)
         \/ clear_all_portmaps(t)
         \/ Fill(t) \/ AddNapt(t) \/ RemoveNapt(t)
         \/ \E ok \in BOOLEAN : Save(t, ok)
    \/ Reboot

PortSpec == PortInit /\ [][PortNext]_pmvars

-----------------------------------------------------------------------------
(* Properties                                                              *)

AtRest == \A t \in Tasks : todo[t] = <<>>

\* lwIP forwards exactly what the table says, once each and from the address the uplink
\* has, whatever order addresses come and go, NAT is enabled and entries are edited in.
\* (With ~Overlap: two rebuilds that interleave leave an entry twice, see the README.)
NaptIsTable ==
    AtRest /\ napton /\ bind # 0 =>
      \A k \in NaptKeys :
        napt[k] = IF k[2] = bind /\ \E i \in InUse : tab[i] = <<k[1], k[3]>> THEN 1 ELSE 0
=============================================================================
