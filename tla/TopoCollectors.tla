--------------------------- MODULE TopoCollectors ---------------------------
(***************************************************************************)
(* What the four topology collectors make of the answers of their vendor's *)
(* tools (ssdf_topo/collectors).  An answer is [status, rows]; a row is    *)
(* what a parser keeps of a line or entry.  Each collector returns the set *)
(* of its observations, or raises.                                         *)
(***************************************************************************)
EXTENDS Integers, FiniteSets

(* One row of topo_observations, "" where a collector says nothing.        *)
Observation == [type |-> "", at |-> 0, by |-> "", dev |-> "", subj |-> "", obj |-> "",
                name |-> "", mac |-> "", ip |-> "", role |-> ""]

Fact(type, by, dev, now) ==
    [Observation EXCEPT !.type = type, !.by = by, !.dev = dev, !.at = now]

FirewallInventory(by, dev, now) ==
    [Fact("device_inventory", by, dev, now) EXCEPT !.name = dev, !.role = "firewall"]

ArpEntries(rows, by, dev, now) ==
    {[Fact("arp_entry", by, dev, now) EXCEPT !.subj = r.ip, !.obj = r.mac] : r \in rows}

Raised == [ok |-> FALSE, facts |-> {}]
Returned(facts) == [ok |-> TRUE, facts |-> facts]

----------------------------------------------------------------------------
(* Junos.  A device's answer is [lldp, switching, arp]; an LLDP row is     *)
(* [port, rport, system, chassis], a row of the switching table a MAC.     *)

JunosLldp(rows, dev, now) ==
    {[Fact("lldp_neighbor", "junos", dev, now) EXCEPT
        !.subj = r.port, !.obj = IF r.rport = "" THEN "unknown" ELSE r.rport,
        !.name = r.system, !.mac = r.chassis] : r \in rows}

SwitchingTable(rows, dev, now) ==
    {[Fact("mac_entry", "junos", dev, now) EXCEPT !.subj = m, !.obj = dev] : m \in rows}

(* A device whose first command fails is skipped; after that, a command    *)
(* that fails loses its own rows only.                                     *)
JunosDevice(dev, a, now) ==
    LET Best(answer, facts) == IF answer.status = "ok" THEN facts ELSE {}
    IN  IF a.lldp.status # "ok" THEN {}
        ELSE {FirewallInventory("junos", dev, now)}
             \cup JunosLldp(a.lldp.rows, dev, now)
             \cup Best(a.switching, SwitchingTable(a.switching.rows, dev, now))
             \cup Best(a.arp, ArpEntries(a.arp.rows, "junos", dev, now))

(* answer: device |-> its answers.                                         *)
JunosCollect(answer, now) ==
    Returned(UNION {JunosDevice(dev, answer[dev], now) : dev \in DOMAIN answer})

----------------------------------------------------------------------------
(* PAN-OS.  The answer is [device, lldp, arp].                             *)

PanosLldp(rows, dev, now) ==
    {[Fact("lldp_neighbor", "panos", dev, now) EXCEPT
        !.subj = r.port, !.obj = r.rport, !.name = r.system] :
        r \in {r \in rows : r.port # "" /\ (r.system # "" \/ r.rport # "")}}

Resolved(rows) == {r \in rows : r.ip # "" /\ r.mac \notin {"", "incomplete"}}

(* A truncated answer, or one that does not parse, gives no rows; a call   *)
(* that fails loses the whole collection.                                  *)
PanosCollect(answer, now) ==
    LET Whole(a, facts) == IF a.status = "ok" THEN facts ELSE {}
        dev == answer.device
    IN  IF "failed" \in {answer.lldp.status, answer.arp.status} THEN Raised
        ELSE Returned({FirewallInventory("panos", dev, now)}
                      \cup Whole(answer.lldp, PanosLldp(answer.lldp.rows, dev, now))
                      \cup Whole(answer.arp, ArpEntries(Resolved(answer.arp.rows), "panos", dev, now)))

----------------------------------------------------------------------------
(* Proxmox.  A guest is [vmid, node, name, nics, config]; config says      *)
(* whether the second call gave one, gave no JSON, or failed.              *)

Guest(vm, now) ==
    LET Asked == vm.node # ""
    IN  IF vm.vmid = "" THEN {}
        ELSE {[Fact("vm_host", "proxmox", vm.node, now) EXCEPT !.obj = vm.vmid, !.name = vm.name]}
             \cup {[Fact("vm_nic", "proxmox", vm.node, now) EXCEPT !.subj = m] :
                      m \in {m \in vm.nics : Asked /\ vm.config = "json" /\ m # ""}}

ProxmoxCollect(answer, now) ==
    IF \/ answer.status # "ok"
       \/ \E vm \in answer.rows : vm.node # "" /\ vm.config = "failed"
    THEN Raised
    ELSE Returned(UNION {Guest(vm, now) : vm \in answer.rows})

----------------------------------------------------------------------------
(* UniFi.  The answer is [devices, clients], devices having an answer of   *)
(* each type of device asked for.                                          *)

UnifiRoles == [usw |-> "switch", uap |-> "ap", uxg |-> "gateway", ugw |-> "gateway",
               udm |-> "gateway"]
RoleOf(type) == IF type \in DOMAIN UnifiRoles THEN UnifiRoles[type] ELSE "device"

UnifiDevices(rows, now) ==
    {[Fact("device_inventory", "unifi", "unifi-site", now) EXCEPT
        !.name = r.name, !.mac = r.mac, !.ip = r.ip, !.role = RoleOf(r.type)] :
        r \in {r \in rows : r.mac # ""}}

(* A client is [mac, ip, wired, sw_mac, ap_mac].                           *)
Uplink(r) == IF r.sw_mac # "" THEN r.sw_mac ELSE r.ap_mac

UnifiClients(rows, now) ==
    LET Known == {r \in rows : r.mac # ""}
    IN  {[Fact(IF r.wired THEN "mac_entry" ELSE "wlan_assoc", "unifi", "unifi-site", now) EXCEPT
            !.subj = r.mac, !.obj = Uplink(r)] : r \in {r \in Known : Uplink(r) # ""}}
        \cup ArpEntries({r \in Known : r.ip # ""}, "unifi", "unifi-site", now)

UnifiCollect(answer, now) ==
    LET Best(a, facts) == IF a.status = "ok" THEN facts ELSE {}
    IN  Returned(
            (UNION {Best(a, UnifiDevices(a.rows, now)) :
                    a \in {answer.devices[t] : t \in DOMAIN answer.devices}})
            \cup Best(answer.clients, UnifiClients(answer.clients.rows, now)))

----------------------------------------------------------------------------
(* A name in TOPO_COLLECTORS that no collector is registered under raises. *)
Collect(collector, answer, now) ==
    CASE collector = "junos" -> JunosCollect(answer, now)
      [] collector = "panos" -> PanosCollect(answer, now)
      [] collector = "proxmox" -> ProxmoxCollect(answer, now)
      [] collector = "unifi" -> UnifiCollect(answer, now)
      [] OTHER -> Raised
=============================================================================
