--------------------------- MODULE Topology_proofs ---------------------------
(***************************************************************************)
(* Proofs about Topology, for any collectors, answers of their tools,      *)
(* flows, windows and retention: the tables hold one row of each key, none *)
(* of the ObservedTypes of links is given without its ends, devices fuse   *)
(* along shared identities and no others, and what ingest_status and       *)
(* locate answer is what the passes have seen.                             *)
(*                                                                         *)
(* The first sections follow a pass through its parts: what a collector    *)
(* makes of its answers, what the resolver makes of observations, whatever *)
(* it fuses, and what the upsert makes of its rows.  Then come union-find  *)
(* and the two loops over devices and their tokens.  Each invariant after  *)
(* the first is proved beside it, with the theorem it is for.              *)
(***************************************************************************)
EXTENDS Topology, FiniteSetTheorems, WellFoundedInduction, TLAPS

----------------------------------------------------------------------------
(* The collectors.                                                         *)

(* What is known of an observation of a time: only a guest has an id that  *)
(* is more than its kind and one key, and Guest gives none without a vmid. *)
Observed(o, now) == o.at = now /\ (o.type = "vm_host" => o.obj # "")

\* The record a collector fills in.
LEMMA FactSound ==
    ASSUME NEW t, NEW b, NEW d, NEW now, NEW f, f = Fact(t, b, d, now)
    PROVE  /\ DOMAIN f = DOMAIN Observation
           /\ f.at = now /\ f.type = t /\ f.dev = d
BY DEF Fact, Observation

LEMMA InventorySound ==
    ASSUME NEW b, NEW d, NEW now PROVE Observed(FirewallInventory(b, d, now), now)
BY DEF FirewallInventory, Fact, Observation, Observed

LEMMA ArpSound ==
    ASSUME NEW rows, NEW b, NEW d, NEW now, NEW o \in ArpEntries(rows, b, d, now)
    PROVE  Observed(o, now)
BY DEF ArpEntries, Fact, Observation, Observed

LEMMA JunosSound ==
    ASSUME NEW a, NEW now, NEW o \in JunosCollect(a, now).facts PROVE Observed(o, now)
<1>1. PICK dev \in DOMAIN a : o \in JunosDevice(dev, a[dev], now)
    BY DEF JunosCollect, Returned
<1>2. CASE o \in JunosLldp(a[dev].lldp.rows, dev, now)
    BY <1>2 DEF JunosLldp, Fact, Observation, Observed
<1>3. CASE o \in SwitchingTable(a[dev].switching.rows, dev, now)
    BY <1>3 DEF SwitchingTable, Fact, Observation, Observed
<1>4. CASE o \in ArpEntries(a[dev].arp.rows, "junos", dev, now)
    BY <1>4, ArpSound
<1>5. CASE o = FirewallInventory("junos", dev, now)
    BY <1>5, InventorySound
<1> QED BY <1>1, <1>2, <1>3, <1>4, <1>5 DEF JunosDevice

LEMMA PanosSound ==
    ASSUME NEW a, NEW now, PanosCollect(a, now).ok, NEW o \in PanosCollect(a, now).facts
    PROVE  Observed(o, now)
<1>1. CASE o \in PanosLldp(a.lldp.rows, a.device, now)
    <2>1. PICK r \in a.lldp.rows :
              o = [Fact("lldp_neighbor", "panos", a.device, now) EXCEPT
                    !.subj = r.port, !.obj = r.rport, !.name = r.system]
        BY <1>1 DEF PanosLldp
    <2> QED BY <2>1 DEF Fact, Observation, Observed
<1>2. CASE o \in ArpEntries(Resolved(a.arp.rows), "panos", a.device, now)
    BY <1>2, ArpSound
<1>3. CASE o = FirewallInventory("panos", a.device, now)
    BY <1>3, InventorySound
<1> QED BY <1>1, <1>2, <1>3 DEF PanosCollect, Raised, Returned

LEMMA ProxmoxSound ==
    ASSUME NEW a, NEW now, ProxmoxCollect(a, now).ok, NEW o \in ProxmoxCollect(a, now).facts
    PROVE  Observed(o, now)
<1>1. PICK vm \in a.rows : o \in Guest(vm, now)
    BY DEF ProxmoxCollect, Raised, Returned
<1>2. vm.vmid # ""
    BY <1>1 DEF Guest
<1>3. \/ o = [Fact("vm_host", "proxmox", vm.node, now) EXCEPT !.obj = vm.vmid, !.name = vm.name]
      \/ \E m : o = [Fact("vm_nic", "proxmox", vm.node, now) EXCEPT !.subj = m]
    BY <1>1, <1>2 DEF Guest
<1>4. CASE o = [Fact("vm_host", "proxmox", vm.node, now) EXCEPT !.obj = vm.vmid, !.name = vm.name]
    BY <1>2, <1>4 DEF Fact, Observation, Observed
<1>5. CASE \E m : o = [Fact("vm_nic", "proxmox", vm.node, now) EXCEPT !.subj = m]
    BY <1>5 DEF Fact, Observation, Observed
<1> QED BY <1>3, <1>4, <1>5

LEMMA UnifiSound ==
    ASSUME NEW a, NEW now, NEW o \in UnifiCollect(a, now).facts PROVE Observed(o, now)
<1>1. ASSUME NEW rows, o \in UnifiDevices(rows, now) PROVE Observed(o, now)
    BY <1>1 DEF UnifiDevices, Fact, Observation, Observed
<1>2. ASSUME NEW rows, o \in UnifiClients(rows, now) PROVE Observed(o, now)
    <2> DEFINE Known == {r \in rows : r.mac # ""}
    <2>1. CASE o \in ArpEntries({r \in Known : r.ip # ""}, "unifi", "unifi-site", now)
        BY <2>1, ArpSound
    <2>2. CASE ~(o \in ArpEntries({r \in Known : r.ip # ""}, "unifi", "unifi-site", now))
        <3>1. PICK r \in Known : o = [Fact(IF r.wired THEN "mac_entry" ELSE "wlan_assoc", "unifi",
                                          "unifi-site", now) EXCEPT !.subj = r.mac, !.obj = Uplink(r)]
            BY <1>2, <2>2 DEF UnifiClients
        <3> QED BY <3>1 DEF Fact, Observation, Observed
    <2> QED BY <2>1, <2>2
<1>3. \/ \E rows : o \in UnifiDevices(rows, now)
      \/ o \in UnifiClients(a.clients.rows, now)
    <2> DEFINE Best(x, facts) == IF x.status = "ok" THEN facts ELSE {}
               some == {a.devices[t] : t \in DOMAIN a.devices}
               parts == {Best(x, UnifiDevices(x.rows, now)) : x \in some}
               clients == Best(a.clients, UnifiClients(a.clients.rows, now))
    <2>1. UnifiCollect(a, now).facts = (UNION parts) \cup clients
        BY DEF UnifiCollect, Returned
    <2> QED BY <2>1
<1> QED BY <1>1, <1>2, <1>3

LEMMA CollectSound ==
    ASSUME NEW c, NEW a, NEW now, Collect(c, a, now).ok, NEW o \in Collect(c, a, now).facts
    PROVE  Observed(o, now)
BY JunosSound, PanosSound, ProxmoxSound, UnifiSound DEF Collect, Raised

----------------------------------------------------------------------------
(* Times.                                                                  *)

LEMMA Lowest == ASSUME NEW N \in SUBSET Nat, N # {} PROVE \E x \in N : \A y \in N : x <= y
<1>0. N \subseteq Nat
    OBVIOUS
<1>1. PICK x \in N : \A y \in N : ~ (<<y, x>> \in OpToRel(<, Nat))
    BY <1>0, NatLessThanWellFounded, WFMin
<1>2. \A y \in N : ~(y < x) /\ x \in Nat /\ y \in Nat
    BY <1>1 DEF OpToRel
<1> QED BY <1>2

\* The latest of some times up to now is one of them.
LEMMA LatestOf ==
    ASSUME NEW now \in Nat, NEW T \in SUBSET (0..now), T # {}
    PROVE  Latest(T) \in T /\ \A t \in T : t <= Latest(T)
<1> DEFINE ages == {now - t : t \in T}
<1>0. \A t \in T : t \in Nat /\ now - t \in Nat
    OBVIOUS
<1>1. ages \in SUBSET Nat /\ ages # {}
    BY <1>0
<1>2. PICK a \in ages : \A b \in ages : a <= b
    <2> HIDE DEF ages
    <2> QED BY <1>1, Lowest
<1>3. PICK t \in T : a = now - t
    BY <1>2
<1>4. \A u \in T : now - t <= now - u
    BY <1>2, <1>3
<1>5. \A u \in T : u <= t
    BY <1>0, <1>4
<1>6. \E u \in T : \A v \in T : v <= u
    BY <1>5
<1> QED BY <1>6 DEF Latest

----------------------------------------------------------------------------
(* The nodes of a graph.                                                   *)

(* Observations made until now.                                            *)
Timed(O, now) == \A o \in O : o.at \in 0..now /\ (o.type = "vm_host" => o.obj # "")

(* Rows of nodes: one of each id, none newer than now.                     *)
NodeRows(rows, now) ==
    \A r \in rows : /\ "id" \in DOMAIN r /\ r.last \in 0..now
                    /\ \A s \in rows : s.id = r.id => s = r

LEMMA DeviceSays == ASSUME NEW id, NEW d, id = DeviceId(d) PROVE id[1] = "device" /\ id[2] = d
BY DEF DeviceId

\* A device row is of one root, and as fresh as any observation of a device
\* that is fused into it.
LEMMA DeviceRowsSound ==
    ASSUME NEW now \in Nat, NEW O, Timed(O, now), NEW told, NEW root, DOMAIN root = Names(O),
           NEW rows \in DeviceRows(O, told, root)
    PROVE  /\ NodeRows(rows, now)
           /\ \A r \in rows : r.id[1] = "device"
           /\ \A o \in O : \A d \in DevicesIn(o) :
                 \E r \in rows : r.id = DeviceId(root[d]) /\ o.at <= r.last
<1> DEFINE R == {root[d] : d \in DOMAIN root}
           Times(r) == {o.at : o \in {o \in O : DevicesIn(o) \cap Fused(root, r) # {}}}
           Row(row, r) ==
               [id |-> DeviceId(r), kind |-> "device", name |-> row[r].name, role |-> row[r].role,
                idents |-> {r, row[r].mac, row[r].ip} \ {""}, last |-> Latest(Times(r))]
<1>1. PICK row : rows = {Row(row, r) : r \in R}
    BY DEF DeviceRows
<1>2. ASSUME NEW r \in R PROVE Times(r) # {} /\ Times(r) \in SUBSET (0..now)
    <2>1. PICK d \in DOMAIN root : root[d] = r
        OBVIOUS
    <2>2. PICK o \in O : d \in DevicesIn(o)
        BY <2>1 DEF Names
    <2>3. d \in DevicesIn(o) \cap Fused(root, r)
        BY <2>1, <2>2 DEF Fused
    <2> QED BY <2>3 DEF Timed
<1>3. ASSUME NEW r \in R
      PROVE  /\ Row(row, r) \in rows /\ "id" \in DOMAIN Row(row, r)
             /\ Row(row, r).id = DeviceId(r) /\ Row(row, r).last = Latest(Times(r))
             /\ Latest(Times(r)) \in 0..now /\ \A t \in Times(r) : t <= Latest(Times(r))
    <2> HIDE DEF Times
    <2>1. Latest(Times(r)) \in 0..now /\ \A t \in Times(r) : t <= Latest(Times(r))
        BY <1>2, LatestOf
    <2> QED BY <1>1, <2>1
<1> HIDE DEF Row
<1>4. \A q, r \in R : DeviceId(q) = DeviceId(r) => q = r
    BY DEF DeviceId
<1>5. NodeRows(rows, now)
    <2>1. ASSUME NEW x \in rows
          PROVE  /\ "id" \in DOMAIN x /\ x.last \in 0..now
                 /\ \A y \in rows : y.id = x.id => y = x
        <3>1. PICK q \in R : x = Row(row, q)
            BY <1>1
        <3>2. ASSUME NEW y \in rows, y.id = x.id PROVE y = x
            <4>1. PICK r \in R : y = Row(row, r)
                BY <1>1
            <4>2. DeviceId(q) = DeviceId(r)
                BY <1>3, <3>1, <3>2, <4>1
            <4>3. q = r
                <5> HIDE DEF R
                <5> QED BY <1>4, <4>2
            <4> QED BY <3>1, <4>1, <4>3
        <3> QED BY <1>3, <3>1, <3>2
    <2> QED BY <2>1 DEF NodeRows
<1>6. \A r \in rows : r.id[1] = "device"
    <2>1. ASSUME NEW r \in rows PROVE r.id[1] = "device"
        <3>1. PICK q \in R : r = Row(row, q)
            BY <1>1
        <3>2. r.id = DeviceId(q)
            BY <1>3, <3>1
        <3> QED BY <3>2, DeviceSays
    <2> QED BY <2>1
<1>7. ASSUME NEW o \in O, NEW d \in DevicesIn(o)
      PROVE  \E r \in rows : r.id = DeviceId(root[d]) /\ o.at <= r.last
    <2>1. d \in DOMAIN root /\ root[d] \in R
        BY DEF Names
    <2>2. o.at \in Times(root[d])
        BY <2>1 DEF Fused
    <2> QED BY <1>3, <2>1, <2>2
<1> QED BY <1>5, <1>6, <1>7

(* A host or an interface as an observation describes it.                  *)
Other(id, name, idents, ip) == [id |-> id, name |-> name, idents |-> idents, ip |-> ip]

\* What an observation says of hosts and interfaces, type by type.
LEMMA OthersOf ==
    ASSUME NEW o
    PROVE  /\ o.type = "arp_entry" =>
                 OthersIn(o) = {Other(HostId(o.obj), o.obj, {o.obj}, o.subj)}
           /\ Attached(o) \/ o.type = "vm_nic" =>
                 OthersIn(o) = {Other(HostId(o.subj), o.subj, {o.subj}, "")}
           /\ o.type = "vm_host" =>
                 OthersIn(o) = {Other(GuestId(o), o.name, {o.obj}, "")}
           /\ o.type = "lldp_neighbor" =>
                 OthersIn(o) = {Other(InterfaceId(o.dev, o.subj), o.subj, {}, ""),
                                Other(InterfaceId(RemoteName(o), o.obj), o.obj, {}, "")}
           /\ ~Attached(o) /\ o.type \notin {"vm_host", "arp_entry", "vm_nic", "lldp_neighbor"}
                 => OthersIn(o) = {}
<1> USE DEF Other
<1>1. CASE o.type = "arp_entry"
    BY <1>1 DEF OthersIn, Attached
<1>2. CASE o.type = "mac_entry"
    BY <1>2 DEF OthersIn, Attached
<1>3. CASE o.type = "wlan_assoc"
    BY <1>3 DEF OthersIn, Attached
<1>4. CASE o.type = "vm_nic"
    BY <1>4 DEF OthersIn, Attached
<1>5. CASE o.type = "vm_host"
    BY <1>5 DEF OthersIn, Attached
<1>6. CASE o.type = "lldp_neighbor"
    BY <1>6 DEF OthersIn, Attached
<1>7. CASE o.type \notin {"arp_entry", "mac_entry", "wlan_assoc", "vm_nic", "vm_host",
                          "lldp_neighbor"}
    BY <1>7 DEF OthersIn, Attached
<1> QED BY <1>1, <1>2, <1>3, <1>4, <1>5, <1>6, <1>7

(* What identifies a host or an interface is in its id, which is not that  *)
(* of a device.                                                            *)
IdSays(n) ==
    /\ n.id[1] \in {"host", "interface"}
    /\ n.id[1] = "interface" => n.idents = {}
    /\ n.id[1] = "host" /\ n.id[3] = "" => n.idents = {n.id[2]}
    /\ n.id[1] = "host" /\ n.id[3] # "" => n.idents = {n.id[3]}

LEMMA HostSays ==
    ASSUME NEW id, NEW m, id = HostId(m)
    PROVE  id[1] = "host" /\ id[2] = m /\ id[3] = ""
BY DEF HostId

LEMMA GuestSays ==
    ASSUME NEW id, NEW o, id = GuestId(o)
    PROVE  id[1] = "host" /\ id[3] = o.obj
BY DEF GuestId

LEMMA InterfaceSays ==
    ASSUME NEW id, NEW d, NEW p, id = InterfaceId(d, p) PROVE id[1] = "interface"
BY DEF InterfaceId

LEMMA OthersSound ==
    ASSUME NEW o, o.type = "vm_host" => o.obj # "", NEW n \in OthersIn(o)
    PROVE  IdSays(n)
<1>1. CASE o.type = "arp_entry"
    <2>1. n = Other(HostId(o.obj), o.obj, {o.obj}, o.subj)
        BY <1>1, OthersOf
    <2>2. n.id = HostId(o.obj) /\ n.idents = {o.obj}
        BY <2>1 DEF Other
    <2>3. n.id[1] = "host" /\ n.id[2] = o.obj /\ n.id[3] = ""
        BY <2>2, HostSays
    <2> QED BY <2>2, <2>3 DEF IdSays
<1>2. CASE Attached(o) \/ o.type = "vm_nic"
    <2>1. n = Other(HostId(o.subj), o.subj, {o.subj}, "")
        BY <1>2, OthersOf
    <2>2. n.id = HostId(o.subj) /\ n.idents = {o.subj}
        BY <2>1 DEF Other
    <2>3. n.id[1] = "host" /\ n.id[2] = o.subj /\ n.id[3] = ""
        BY <2>2, HostSays
    <2> QED BY <2>2, <2>3 DEF IdSays
<1>3. CASE o.type = "vm_host"
    <2>1. n = Other(GuestId(o), o.name, {o.obj}, "")
        BY <1>3, OthersOf
    <2>2. n.id = GuestId(o) /\ n.idents = {o.obj} /\ o.obj # ""
        BY <1>3, <2>1 DEF Other
    <2> QED BY <2>2, GuestSays DEF IdSays
<1>4. CASE o.type = "lldp_neighbor"
    <2>1. \/ n = Other(InterfaceId(o.dev, o.subj), o.subj, {}, "")
          \/ n = Other(InterfaceId(RemoteName(o), o.obj), o.obj, {}, "")
        BY <1>4, OthersOf
    <2>2. ASSUME NEW d, NEW p, n = Other(InterfaceId(d, p), p, {}, "")
          PROVE  n.id[1] = "interface" /\ n.idents = {}
        <3>1. n.id = InterfaceId(d, p) /\ n.idents = {}
            BY <2>2 DEF Other
        <3> QED BY <3>1, InterfaceSays
    <2> QED BY <2>1, <2>2 DEF IdSays
<1> QED BY <1>1, <1>2, <1>3, <1>4, OthersOf

\* The row of a host or an interface is as fresh as any observation of it.
LEMMA OtherRowsSound ==
    ASSUME NEW now \in Nat, NEW O, Timed(O, now), NEW rows \in OtherRows(O)
    PROVE  /\ NodeRows(rows, now)
           /\ \A r \in rows : r.id[1] # "device"
           /\ \A o \in O : \A n \in OthersIn(o) : \E r \in rows : r.id = n.id /\ o.at <= r.last
<1> DEFINE seen == UNION {OthersIn(o) : o \in O}
           Times(id) == {o.at : o \in {o \in O : \E n \in OthersIn(o) : n.id = id}}
           Row(row, n) ==
               [id |-> n.id, kind |-> n.id[1], name |-> row[n.id].name, role |-> "",
                idents |-> (n.idents \cup {row[n.id].ip}) \ {""}, last |-> Latest(Times(n.id))]
<1>1. PICK row : rows = {Row(row, n) : n \in seen}
    BY DEF OtherRows
<1>2. ASSUME NEW n \in seen
      PROVE  IdSays(n) /\ Times(n.id) # {} /\ Times(n.id) \in SUBSET (0..now)
    <2>1. PICK o \in O : n \in OthersIn(o)
        OBVIOUS
    <2>2. o.type = "vm_host" => o.obj # ""
        BY DEF Timed
    <2>3. Times(n.id) # {} /\ Times(n.id) \in SUBSET (0..now)
        BY <2>1 DEF Timed
    <2>4. IdSays(n)
        BY <2>1, <2>2, OthersSound
    <2> QED BY <2>3, <2>4
<1>3. ASSUME NEW n \in seen
      PROVE  /\ Row(row, n) \in rows /\ "id" \in DOMAIN Row(row, n)
             /\ Row(row, n).id = n.id /\ Row(row, n).last = Latest(Times(n.id))
             /\ Latest(Times(n.id)) \in 0..now /\ \A t \in Times(n.id) : t <= Latest(Times(n.id))
    <2> HIDE DEF Times, seen
    <2>1. Latest(Times(n.id)) \in 0..now /\ \A t \in Times(n.id) : t <= Latest(Times(n.id))
        BY <1>2, LatestOf
    <2> QED BY <1>1, <2>1
<1>4. ASSUME NEW n \in seen, NEW m \in seen, n.id = m.id PROVE Row(row, n) = Row(row, m)
    <2> HIDE DEF seen, Times
    <2>1. n.idents = m.idents
        BY <1>2, <1>4 DEF IdSays
    <2> QED BY <1>4, <2>1
<1> HIDE DEF Row, Times
<1>5. NodeRows(rows, now)
    <2>1. ASSUME NEW x \in rows
          PROVE  /\ "id" \in DOMAIN x /\ x.last \in 0..now
                 /\ \A y \in rows : y.id = x.id => y = x
        <3>1. PICK n \in seen : x = Row(row, n)
            BY <1>1
        <3>2. ASSUME NEW y \in rows, y.id = x.id PROVE y = x
            <4>1. PICK m \in seen : y = Row(row, m)
                BY <1>1
            <4>2. m.id = n.id
                BY <1>3, <3>1, <3>2, <4>1
            <4> HIDE DEF seen
            <4> QED BY <1>4, <3>1, <4>1, <4>2
        <3> QED BY <1>3, <3>1, <3>2
    <2> QED BY <2>1 DEF NodeRows
<1>6. ASSUME NEW r \in rows PROVE r.id[1] # "device"
    <2>1. PICK n \in seen : r = Row(row, n)
        BY <1>1
    <2>2. r.id = n.id
        BY <1>3, <2>1
    <2> HIDE DEF seen
    <2> QED BY <1>2, <2>2 DEF IdSays
<1>7. ASSUME NEW o \in O, NEW n \in OthersIn(o)
      PROVE  \E r \in rows : r.id = n.id /\ o.at <= r.last
    <2>1. n \in seen
        OBVIOUS
    <2>2. o.at \in Times(n.id)
        BY DEF Times
    <2> QED BY <1>3, <2>1, <2>2
<1> QED BY <1>5, <1>6, <1>7

----------------------------------------------------------------------------
(* The edges of a graph.                                                   *)

ObservedTypes == {"attaches_to", "hosts", "physical_link"}
EdgeId(e) == <<e.src, e.dst, e.type>>

(* Rows of edges: one of each id, none newer than now.                     *)
EdgeRows(rows, now) ==
    \A e \in rows : /\ "id" \notin DOMAIN e /\ e.last \in 0..now
                    /\ \A f \in rows : EdgeId(f) = EdgeId(e) => f = e

LinkOf(src, dst, type, last) == [src |-> src, dst |-> dst, type |-> type, last |-> last]

LEMMA LinkFields ==
    ASSUME NEW src, NEW dst, NEW type, NEW last, NEW l, l = LinkOf(src, dst, type, last)
    PROVE  /\ l.src = src /\ l.dst = dst /\ l.type = type /\ l.last = last
           /\ DOMAIN l = {"src", "dst", "type", "last"}
BY DEF LinkOf

LEMMA LinksOf ==
    ASSUME NEW o
    PROVE  /\ o.type = "arp_entry" =>
                 LinksIn(o) = {LinkOf(HostId(o.obj), HostId(o.subj), "has_address", o.at)}
           /\ Attached(o) =>
                 LinksIn(o) = {LinkOf(HostId(o.subj), DeviceId(UplinkName(o)), "attaches_to", o.at)}
           /\ o.type = "vm_nic" =>
                 LinksIn(o) = {LinkOf(HostId(o.subj), DeviceId(o.dev), "attaches_to", o.at)}
           /\ o.type = "vm_host" =>
                 LinksIn(o) = {LinkOf(DeviceId(o.dev), GuestId(o), "hosts", o.at)}
           /\ o.type = "lldp_neighbor" =>
                 LinksIn(o) = {LinkOf(InterfaceId(o.dev, o.subj), InterfaceId(RemoteName(o), o.obj),
                                      "physical_link", o.at)}
           /\ ~Attached(o) /\ o.type \notin {"vm_host", "arp_entry", "vm_nic", "lldp_neighbor"}
                 => LinksIn(o) = {}
<1> USE DEF LinkOf
<1>1. CASE o.type = "arp_entry"
    BY <1>1 DEF LinksIn, Attached
<1>2. CASE o.type = "mac_entry"
    BY <1>2 DEF LinksIn, Attached
<1>3. CASE o.type = "wlan_assoc"
    BY <1>3 DEF LinksIn, Attached
<1>4. CASE o.type = "vm_nic"
    BY <1>4 DEF LinksIn, Attached
<1>5. CASE o.type = "vm_host"
    BY <1>5 DEF LinksIn, Attached
<1>6. CASE o.type = "lldp_neighbor"
    BY <1>6 DEF LinksIn, Attached
<1>7. CASE o.type \notin {"arp_entry", "mac_entry", "wlan_assoc", "vm_nic", "vm_host",
                          "lldp_neighbor"}
    BY <1>7 DEF LinksIn, Attached
<1> QED BY <1>1, <1>2, <1>3, <1>4, <1>5, <1>6, <1>7

LEMMA DevicesOf ==
    ASSUME NEW o
    PROVE  /\ Attached(o) => DevicesIn(o) = {UplinkName(o)}
           /\ o.type \in {"vm_nic", "vm_host"} => DevicesIn(o) = {o.dev}
<1>1. CASE o.type = "mac_entry"
    BY <1>1 DEF DevicesIn, Attached
<1>2. CASE o.type = "wlan_assoc"
    BY <1>2 DEF DevicesIn, Attached
<1>3. CASE o.type = "vm_nic"
    BY <1>3 DEF DevicesIn, Attached
<1>4. CASE o.type = "vm_host"
    BY <1>4 DEF DevicesIn, Attached
<1> QED BY <1>1, <1>2, <1>3, <1>4 DEF Attached

(* What an observation says of both ends of a link it tells of.            *)
ToldOf(o, id) ==
    \/ \E d \in DevicesIn(o) : id = DeviceId(d)
    \/ id[1] # "device" /\ \E n \in OthersIn(o) : n.id = id

LEMMA LinkSound ==
    ASSUME NEW o, NEW l \in LinksIn(o)
    PROVE  /\ l = LinkOf(l.src, l.dst, l.type, o.at)
           /\ l.type \in ObservedTypes \cup {"has_address"}
           /\ l.type \in ObservedTypes => ToldOf(o, l.src) /\ ToldOf(o, l.dst)
<1>1. CASE o.type = "arp_entry"
    <2>1. l = LinkOf(HostId(o.obj), HostId(o.subj), "has_address", o.at)
        BY <1>1, LinksOf
    <2> QED BY <2>1, LinkFields DEF ObservedTypes
<1>2. ASSUME NEW h, NEW d, d \in DevicesIn(o), l = LinkOf(HostId(h), DeviceId(d), "attaches_to", o.at),
             \E n \in OthersIn(o) : n.id = HostId(h)
      PROVE  /\ l = LinkOf(l.src, l.dst, l.type, o.at) /\ l.type = "attaches_to"
             /\ ToldOf(o, l.src) /\ ToldOf(o, l.dst)
    <2>1. l.src = HostId(h) /\ l.dst = DeviceId(d) /\ l.type = "attaches_to"
        BY <1>2, LinkFields
    <2>2. l.src[1] # "device"
        BY <2>1, HostSays
    <2> QED BY <1>2, <2>1, <2>2 DEF ToldOf
<1>3. ASSUME Attached(o) \/ o.type = "vm_nic" PROVE \E n \in OthersIn(o) : n.id = HostId(o.subj)
    <2>1. Other(HostId(o.subj), o.subj, {o.subj}, "") \in OthersIn(o)
        BY <1>3, OthersOf
    <2> QED BY <2>1 DEF Other
<1>4. CASE Attached(o)
    <2>1. l = LinkOf(HostId(o.subj), DeviceId(UplinkName(o)), "attaches_to", o.at)
        BY <1>4, LinksOf
    <2> QED BY <1>2, <1>3, <1>4, <2>1, DevicesOf DEF ObservedTypes
<1>5. CASE o.type = "vm_nic"
    <2>1. l = LinkOf(HostId(o.subj), DeviceId(o.dev), "attaches_to", o.at)
        BY <1>5, LinksOf
    <2> QED BY <1>2, <1>3, <1>5, <2>1, DevicesOf DEF ObservedTypes
<1>6. CASE o.type = "vm_host"
    <2>1. l = LinkOf(DeviceId(o.dev), GuestId(o), "hosts", o.at)
        BY <1>6, LinksOf
    <2>2. l.src = DeviceId(o.dev) /\ l.dst = GuestId(o) /\ l.type = "hosts"
        BY <2>1, LinkFields
    <2>3. l.dst[1] # "device"
        BY <2>2, GuestSays
    <2>4. o.dev \in DevicesIn(o)
        BY <1>6, DevicesOf
    <2>5. Other(GuestId(o), o.name, {o.obj}, "") \in OthersIn(o)
        BY <1>6, OthersOf
    <2>6. \E n \in OthersIn(o) : n.id = GuestId(o)
        BY <2>5 DEF Other
    <2> QED BY <2>1, <2>2, <2>3, <2>4, <2>6 DEF ToldOf, ObservedTypes
<1>7. CASE o.type = "lldp_neighbor"
    <2>1. l = LinkOf(InterfaceId(o.dev, o.subj), InterfaceId(RemoteName(o), o.obj),
                     "physical_link", o.at)
        BY <1>7, LinksOf
    <2>2. /\ l.src = InterfaceId(o.dev, o.subj) /\ l.dst = InterfaceId(RemoteName(o), o.obj)
          /\ l.type = "physical_link"
        BY <2>1, LinkFields
    <2>3. l.src[1] # "device" /\ l.dst[1] # "device"
        BY <2>2, InterfaceSays
    <2>4. /\ Other(InterfaceId(o.dev, o.subj), o.subj, {}, "") \in OthersIn(o)
          /\ Other(InterfaceId(RemoteName(o), o.obj), o.obj, {}, "") \in OthersIn(o)
        BY <1>7, OthersOf
    <2>5. \E n \in OthersIn(o) : n.id = InterfaceId(o.dev, o.subj)
        BY <2>4 DEF Other
    <2>6. \E n \in OthersIn(o) : n.id = InterfaceId(RemoteName(o), o.obj)
        BY <2>4 DEF Other
    <2> QED BY <2>1, <2>2, <2>3, <2>5, <2>6 DEF ToldOf, ObservedTypes
<1> QED BY <1>1, <1>4, <1>5, <1>6, <1>7, LinksOf

\* Of edges of one id the freshest is kept.
LEMMA OnePerIdRows ==
    ASSUME NEW now \in Nat, NEW S,
           \A e \in S : e.last \in 0..now /\ e = LinkOf(e.src, e.dst, e.type, e.last)
    PROVE  OnePerId(S) \subseteq S /\ EdgeRows(OnePerId(S), now)
<1>1. OnePerId(S) \subseteq S
    BY DEF OnePerId
<1>2. ASSUME NEW e \in OnePerId(S), NEW f \in OnePerId(S), EdgeId(f) = EdgeId(e) PROVE f = e
    <2>1. e.last <= f.last /\ f.last <= e.last
        BY <1>1, <1>2 DEF OnePerId, EdgeId
    <2>2. e.last = f.last
        BY <1>1, <2>1
    <2>3. e.src = f.src /\ e.dst = f.dst /\ e.type = f.type
        BY <1>2 DEF EdgeId
    <2> QED BY <1>1, <2>2, <2>3
<1>3. ASSUME NEW e \in OnePerId(S) PROVE "id" \notin DOMAIN e /\ e.last \in 0..now
    <2>1. e = LinkOf(e.src, e.dst, e.type, e.last) /\ e.last \in 0..now
        BY <1>1
    <2>2. DOMAIN e = {"src", "dst", "type", "last"}
        BY <2>1, LinkFields
    <2> QED BY <2>1, <2>2
<1> QED BY <1>1, <1>2, <1>3 DEF EdgeRows

(* Where an end of a link is once the devices are fused.                   *)
To(root, id) == IF id[1] = "device" THEN DeviceId(root[id[2]]) ELSE id

Links(O) == UNION {LinksIn(o) : o \in O}

\* An edge of a graph is a link some observation tells of, its ends moved.
LEMMA MovedSound ==
    ASSUME NEW now \in Nat, NEW O, Timed(O, now), NEW root
    PROVE  /\ EdgeRows(Moved(Links(O), root), now)
           /\ \A e \in Moved(Links(O), root) : \E o \in O : \E l \in LinksIn(o) :
                 e = LinkOf(To(root, l.src), To(root, l.dst), l.type, o.at)
<1> DEFINE moved == {[e EXCEPT !.src = To(root, e.src), !.dst = To(root, e.dst)] : e \in Links(O)}
           kept == {e \in moved : e.src # e.dst}
<1>1. Moved(Links(O), root) = OnePerId(kept)
    BY DEF Moved, To
<1>2. ASSUME NEW e \in kept
      PROVE  \E o \in O : \E l \in LinksIn(o) :
                 e = LinkOf(To(root, l.src), To(root, l.dst), l.type, o.at)
    <2>1. PICK l \in Links(O) : e = [l EXCEPT !.src = To(root, l.src), !.dst = To(root, l.dst)]
        OBVIOUS
    <2>2. PICK o \in O : l \in LinksIn(o)
        BY DEF Links
    <2>3. l = LinkOf(l.src, l.dst, l.type, o.at)
        BY <2>2, LinkSound
    <2>4. e = LinkOf(To(root, l.src), To(root, l.dst), l.type, o.at)
        <3>1. PICK x, y : x = To(root, l.src) /\ y = To(root, l.dst)
            OBVIOUS
        <3>2. e = [l EXCEPT !.src = x, !.dst = y]
            BY <2>1, <3>1, Zenon
        <3>3. PICK src, dst, type, last :
                  /\ src = l.src /\ dst = l.dst /\ type = l.type /\ last = o.at
                  /\ l = LinkOf(src, dst, type, last)
            BY <2>3
        <3>4. e = LinkOf(x, y, type, last)
            <4> HIDE DEF moved, kept
            <4>1. PICK m : m = [l EXCEPT !.src = x]
                OBVIOUS
            <4>2. m = LinkOf(x, dst, type, last)
                BY <3>3, <4>1 DEF LinkOf
            <4>3. e = [m EXCEPT !.dst = y]
                BY <3>2, <4>1, Zenon
            <4> QED BY <4>2, <4>3 DEF LinkOf
        <3> QED BY <3>1, <3>3, <3>4
    <2> QED BY <2>2, <2>4
<1> HIDE DEF kept
<1>3. ASSUME NEW e \in kept PROVE e.last \in 0..now /\ e = LinkOf(e.src, e.dst, e.type, e.last)
    <2>1. PICK o \in O : \E l \in LinksIn(o) :
                 e = LinkOf(To(root, l.src), To(root, l.dst), l.type, o.at)
        BY <1>2
    <2>2. PICK src, dst, type : e = LinkOf(src, dst, type, o.at)
        BY <2>1
    <2>3. e.src = src /\ e.dst = dst /\ e.type = type /\ e.last = o.at
        BY <2>2, LinkFields
    <2> QED BY <2>2, <2>3 DEF Timed
<1>4. OnePerId(kept) \subseteq kept /\ EdgeRows(OnePerId(kept), now)
    BY <1>3, OnePerIdRows
<1> QED BY <1>1, <1>2, <1>4

----------------------------------------------------------------------------
(* What the flows add.                                                     *)

FlowTypes == {"talked_to", "governed_by", "in_zone"}
FlowTimed(rows, now) == \A row \in rows : row.first \in 0..now /\ row.last \in 0..now

LEMMA FlowEdgesSound ==
    ASSUME NEW row, NEW e \in FlowEdges(row)
    PROVE  e = LinkOf(e.src, e.dst, e.type, row.last) /\ e.type \in FlowTypes
<1>1. \E src, dst : \E type \in FlowTypes : e = LinkOf(src, dst, type, row.last)
    BY DEF FlowEdges, LinkOf, FlowTypes
<1>2. PICK src, dst, type : type \in FlowTypes /\ e = LinkOf(src, dst, type, row.last)
    BY <1>1
<1> QED BY <1>2, LinkFields

LEMMA FlowEdgeRows ==
    ASSUME NEW now \in Nat, NEW rows, FlowTimed(rows, now), NEW flowing \in FlowLinks(rows)
    PROVE  EdgeRows(flowing, now) /\ \A e \in flowing : e.type \in FlowTypes
<1> DEFINE all == UNION {FlowEdges(row) : row \in rows}
<1>1. ASSUME NEW e \in all
      PROVE  /\ e.last \in 0..now /\ e = LinkOf(e.src, e.dst, e.type, e.last)
             /\ e.type \in FlowTypes
    <2>1. PICK row \in rows : e \in FlowEdges(row)
        OBVIOUS
    <2>2. e = LinkOf(e.src, e.dst, e.type, row.last) /\ e.type \in FlowTypes
        BY <2>1, FlowEdgesSound
    <2>3. e.last = row.last
        BY <2>2, LinkFields
    <2> QED BY <2>2, <2>3 DEF FlowTimed
<1>2. PICK last : flowing = {e \in all : e.last = last[EdgeId(e)]}
    BY DEF FlowLinks, EdgeId
<1> HIDE DEF all
<1>3. ASSUME NEW e \in flowing, NEW f \in flowing, EdgeId(f) = EdgeId(e) PROVE f = e
    <2>1. e.last = f.last
        BY <1>2, <1>3
    <2>2. e.src = f.src /\ e.dst = f.dst /\ e.type = f.type
        BY <1>3 DEF EdgeId
    <2> QED BY <1>1, <1>2, <2>1, <2>2
<1>4. ASSUME NEW e \in flowing PROVE "id" \notin DOMAIN e /\ e.last \in 0..now
    <2>1. e = LinkOf(e.src, e.dst, e.type, e.last) /\ e.last \in 0..now
        BY <1>1, <1>2
    <2>2. DOMAIN e = {"src", "dst", "type", "last"}
        BY <2>1, LinkFields
    <2> QED BY <2>1, <2>2
<1> QED BY <1>1, <1>2, <1>3, <1>4 DEF EdgeRows

\* The ends of flows that no observation knows have rows of their own.
LEMMA FlowEndsSound ==
    ASSUME NEW now \in Nat, NEW rows, FlowTimed(rows, now), NEW known,
           NEW ends \in FlowEnds(rows, known)
    PROVE  NodeRows(ends, now) /\ \A r \in ends : r.id \notin known
<1> DEFINE EndsOf(row) == UNION {{e.src, e.dst} : e \in FlowEdges(row)}
           Firsts(id) == {row.first : row \in {row \in rows : id \in EndsOf(row)}}
           unknown == (UNION {EndsOf(row) : row \in rows}) \ known
           Row(id, t) == [id |-> id, kind |-> "host", name |-> "", role |-> "", idents |-> {},
                          last |-> t]
<1>1. PICK first \in Selections(unknown, Firsts) : ends = {Row(id, first[id]) : id \in unknown}
    BY DEF FlowEnds
<1>2. \A id \in unknown : first[id] \in Firsts(id)
    <2>1. ASSUME NEW id \in unknown PROVE Firsts(id) # {}
        <3>1. PICK row \in rows : id \in EndsOf(row)
            OBVIOUS
        <3>2. row \in {x \in rows : id \in EndsOf(x)}
            BY <3>1
        <3> HIDE DEF EndsOf
        <3> QED BY <3>2
    <2> HIDE DEF unknown, Firsts
    <2> QED BY <1>1, <2>1 DEF Selections
<1>3. ASSUME NEW id \in unknown PROVE first[id] \in 0..now
    BY <1>2 DEF FlowTimed
<1> HIDE DEF EndsOf, Firsts
<1>4. \A id, t : Row(id, t).id = id /\ Row(id, t).last = t /\ "id" \in DOMAIN Row(id, t)
    OBVIOUS
<1> HIDE DEF Row
<1>5. NodeRows(ends, now)
    BY <1>1, <1>3, <1>4 DEF NodeRows
<1>6. \A r \in ends : r.id \notin known
    BY <1>1, <1>4
<1> QED BY <1>5, <1>6

----------------------------------------------------------------------------
(* A graph.                                                                *)

(* The tables of a graph hold one row of each id, none newer than now, and *)
(* the nodes at both ends of an observed link are among its nodes, seen as *)
(* late as the link.                                                       *)
HasEnds(N, e) == \A id \in {e.src, e.dst} : \E r \in N : r.id = id /\ e.last <= r.last

GraphSound(g, now) ==
    /\ NodeRows(g.nodes, now) /\ EdgeRows(g.edges, now)
    /\ \A e \in g.edges : e.type \in ObservedTypes => HasEnds(g.nodes, e)

\* The parts a graph is put together from.
LEMMA GraphParts ==
    ASSUME NEW O, NEW rows, NEW g \in Graphs(O, rows)
    PROVE  \E told \in Told(O) :
           /\ g.told = told /\ g.root = Canonical(told)
           /\ \E devices \in DeviceRows(O, told, Canonical(told)), others \in OtherRows(O) :
              \E ends \in FlowEnds(rows, {n.id : n \in devices \cup others}) :
              \E flowing \in FlowLinks(rows) :
                 /\ g.nodes = (devices \cup others) \cup ends
                 /\ g.edges = Moved(Links(O), Canonical(told)) \cup flowing
<1> DEFINE Graph(told, root, part, ends, flowing) ==
              [nodes |-> part \cup ends, told |-> told, root |-> root,
               edges |-> Moved(Links(O), root) \cup flowing]
           With(told, root, part) ==
              {Graph(told, root, part, ends, flowing) :
                  ends \in FlowEnds(rows, {n.id : n \in part}), flowing \in FlowLinks(rows)}
           Of(told, root) ==
              UNION {With(told, root, devices \cup others) :
                         devices \in DeviceRows(O, told, root), others \in OtherRows(O)}
<1>1. Graphs(O, rows) = UNION {Of(told, Canonical(told)) : told \in Told(O)}
    BY DEF Graphs, Links
<1>2. PICK told \in Told(O) : g \in Of(told, Canonical(told))
    <2> HIDE DEF Of
    <2> QED BY <1>1
<1>3. PICK devices \in DeviceRows(O, told, Canonical(told)), others \in OtherRows(O) :
          g \in With(told, Canonical(told), devices \cup others)
    <2> HIDE DEF With
    <2> QED BY <1>2
<1>4. PICK ends \in FlowEnds(rows, {n.id : n \in devices \cup others}), flowing \in FlowLinks(rows) :
          g = Graph(told, Canonical(told), devices \cup others, ends, flowing)
    <2> HIDE DEF Graph
    <2> QED BY <1>3
<1> QED BY <1>4

\* What resolve_graph makes of observations and flows until now is sound,
\* whichever devices it fuses.
LEMMA ResolvedSound ==
    ASSUME NEW now \in Nat, NEW O, Timed(O, now), NEW rows, FlowTimed(rows, now),
           NEW g \in Graphs(O, rows)
    PROVE  GraphSound(g, now)
<1>1. PICK told \in Told(O) :
          \E devices \in DeviceRows(O, told, Canonical(told)), others \in OtherRows(O) :
          \E ends \in FlowEnds(rows, {n.id : n \in devices \cup others}) :
          \E flowing \in FlowLinks(rows) :
              /\ g.nodes = (devices \cup others) \cup ends
              /\ g.edges = Moved(Links(O), Canonical(told)) \cup flowing
    BY GraphParts
<1> DEFINE root == Canonical(told)
<1>2. PICK devices \in DeviceRows(O, told, root), others \in OtherRows(O) :
          \E ends \in FlowEnds(rows, {n.id : n \in devices \cup others}) :
          \E flowing \in FlowLinks(rows) :
              /\ g.nodes = (devices \cup others) \cup ends
              /\ g.edges = Moved(Links(O), root) \cup flowing
    BY <1>1
<1> DEFINE known == {n.id : n \in devices \cup others}
<1>3. PICK ends \in FlowEnds(rows, known), flowing \in FlowLinks(rows) :
              /\ g.nodes = (devices \cup others) \cup ends
              /\ g.edges = Moved(Links(O), root) \cup flowing
    BY <1>2
<1>4. DOMAIN root = Names(O)
    BY DEF Canonical, Told, Selections
<1> HIDE DEF root
<1>5. /\ NodeRows(devices, now) /\ NodeRows(others, now) /\ NodeRows(ends, now)
      /\ \A r \in devices : r.id[1] = "device"
      /\ \A r \in others : r.id[1] # "device"
      /\ \A r \in ends : r.id \notin known
    BY <1>2, <1>4, DeviceRowsSound, OtherRowsSound, FlowEndsSound
<1>6. NodeRows(g.nodes, now)
    BY <1>3, <1>5 DEF NodeRows
<1>7. /\ EdgeRows(Moved(Links(O), root), now) /\ EdgeRows(flowing, now)
      /\ \A e \in flowing : e.type \in FlowTypes
    BY MovedSound, FlowEdgeRows
<1>8. ASSUME NEW e \in Moved(Links(O), root)
      PROVE  /\ e.type \in ObservedTypes \cup {"has_address"}
             /\ e.type \in ObservedTypes => HasEnds(g.nodes, e)
    <2>1. PICK o \in O : \E l \in LinksIn(o) :
              e = LinkOf(To(root, l.src), To(root, l.dst), l.type, o.at)
        BY MovedSound
    <2>2. PICK l \in LinksIn(o) : e = LinkOf(To(root, l.src), To(root, l.dst), l.type, o.at)
        BY <2>1
    <2>3. e.src = To(root, l.src) /\ e.dst = To(root, l.dst) /\ e.type = l.type /\ e.last = o.at
        BY <2>2, LinkFields
    <2>4. /\ l.type \in ObservedTypes \cup {"has_address"}
          /\ l.type \in ObservedTypes => ToldOf(o, l.src) /\ ToldOf(o, l.dst)
        BY <2>2, LinkSound
    <2>5. ASSUME NEW id, ToldOf(o, id)
          PROVE  \E r \in g.nodes : r.id = To(root, id) /\ o.at <= r.last
        <3>1. CASE \E d \in DevicesIn(o) : id = DeviceId(d)
            <4>1. PICK d \in DevicesIn(o) : id = DeviceId(d)
                BY <3>1
            <4>2. id[1] = "device" /\ id[2] = d
                BY <4>1, DeviceSays
            <4>3. To(root, id) = DeviceId(root[d])
                BY <4>2 DEF To
            <4>4. \E r \in devices : r.id = DeviceId(root[d]) /\ o.at <= r.last
                BY <1>2, <1>4, DeviceRowsSound
            <4> QED BY <1>3, <4>3, <4>4
        <3>2. CASE id[1] # "device" /\ \E n \in OthersIn(o) : n.id = id
            <4>1. \E r \in others : r.id = id /\ o.at <= r.last
                BY <1>2, <3>2, OtherRowsSound
            <4> QED BY <1>3, <3>2, <4>1 DEF To
        <3> QED BY <2>5, <3>1, <3>2 DEF ToldOf
    <2> QED BY <2>3, <2>4, <2>5 DEF HasEnds
<1>9. EdgeRows(g.edges, now)
    <2>1. ASSUME NEW e \in Moved(Links(O), root), NEW f \in flowing PROVE EdgeId(e) # EdgeId(f)
        <3>1. e.type # f.type
            BY <1>7, <1>8 DEF ObservedTypes, FlowTypes
        <3> QED BY <3>1 DEF EdgeId
    <2> QED BY <1>3, <1>7, <2>1 DEF EdgeRows
<1>10. ASSUME NEW e \in g.edges, e.type \in ObservedTypes PROVE HasEnds(g.nodes, e)
    <2>1. e \notin flowing
        BY <1>7, <1>10 DEF ObservedTypes, FlowTypes
    <2> QED BY <1>3, <1>8, <1>10, <2>1
<1> QED BY <1>6, <1>9, <1>10 DEF GraphSound

----------------------------------------------------------------------------
(* The tables.                                                             *)

\* A table of nodes keeps one row of each id, and never an older one than it
\* held or was given.
LEMMA UpsertNodes ==
    ASSUME NEW now \in Nat, NEW T, NEW R, NodeRows(T, now), NodeRows(R, now)
    PROVE  /\ NodeRows(Upsert(T, R), now)
           /\ \A s \in T \cup R : \E r \in Upsert(T, R) : r.id = s.id /\ s.last <= r.last
<1>1. \A r \in T \cup R : Key(r) = r.id /\ "id" \in DOMAIN r /\ r.last \in 0..now
    BY DEF NodeRows, Key
<1>2. /\ \A r, s \in T : r.id = s.id => r = s
      /\ \A r, s \in R : r.id = s.id => r = s
    BY DEF NodeRows
<1> DEFINE U == Upsert(T, R)
<1>3. \A r : r \in U <=> \/ r \in T /\ ~\E s \in R : s.last >= r.last /\ s.id = r.id
                         \/ r \in R /\ ~\E s \in T : s.last > r.last /\ s.id = r.id
    BY <1>1 DEF Upsert
<1> HIDE DEF U
<1>4. U \subseteq T \cup R
    BY <1>3
<1>5. ASSUME NEW r \in U, NEW s \in U, r.id = s.id PROVE r = s
    <2>1. r.last \in Int /\ s.last \in Int
        BY <1>1, <1>4
    <2> QED BY <1>2, <1>3, <1>5, <2>1
<1>6. NodeRows(U, now)
    BY <1>1, <1>4, <1>5 DEF NodeRows
<1>7. ASSUME NEW s \in T \cup R PROVE \E r \in U : r.id = s.id /\ s.last <= r.last
    <2>0. \A r \in T \cup R : r.last \in Int
        BY <1>1
    <2>1. CASE s \in U
        BY <2>0, <2>1
    <2>2. CASE s \notin U /\ s \in T
        <3>1. PICK r \in R : r.last >= s.last /\ r.id = s.id
            BY <1>3, <2>2
        <3>2. r \in U
            BY <1>2, <1>3, <2>0, <2>2, <3>1
        <3> QED BY <2>0, <3>1, <3>2
    <2>3. CASE s \notin U /\ s \in R
        <3>1. PICK r \in T : r.last > s.last /\ r.id = s.id
            BY <1>3, <2>3
        <3>2. r \in U
            BY <1>2, <1>3, <2>0, <2>3, <3>1
        <3> QED BY <2>0, <3>1, <3>2
    <2> QED BY <2>1, <2>2, <2>3
<1> QED BY <1>6, <1>7 DEF U

\* So does a table of edges.
LEMMA UpsertEdges ==
    ASSUME NEW now \in Nat, NEW T, NEW R, EdgeRows(T, now), EdgeRows(R, now)
    PROVE  EdgeRows(Upsert(T, R), now) /\ Upsert(T, R) \subseteq T \cup R
<1>1. \A r \in T \cup R : Key(r) = EdgeId(r) /\ "id" \notin DOMAIN r /\ r.last \in 0..now
    BY DEF EdgeRows, Key, EdgeId
<1>2. /\ \A r, s \in T : EdgeId(r) = EdgeId(s) => r = s
      /\ \A r, s \in R : EdgeId(r) = EdgeId(s) => r = s
    BY DEF EdgeRows
<1> DEFINE U == Upsert(T, R)
<1>3. \A r : r \in U <=> \/ r \in T /\ ~\E s \in R : s.last >= r.last /\ EdgeId(s) = EdgeId(r)
                         \/ r \in R /\ ~\E s \in T : s.last > r.last /\ EdgeId(s) = EdgeId(r)
    BY <1>1 DEF Upsert
<1> HIDE DEF U
<1>4. U \subseteq T \cup R
    BY <1>3
<1>5. ASSUME NEW r \in U, NEW s \in U, EdgeId(r) = EdgeId(s) PROVE r = s
    <2>1. r.last \in Int /\ s.last \in Int
        BY <1>1, <1>4
    <2> QED BY <1>2, <1>3, <1>5, <2>1
<1>6. EdgeRows(U, now)
    BY <1>1, <1>4, <1>5 DEF EdgeRows
<1> QED BY <1>4, <1>6 DEF U

\* The rows build_flow_agg_sql gives are of times up to now.
LEMMA FlowRowsTimed ==
    ASSUME clock \in Nat, \A e \in events : e.at \in 0..clock, NEW rows \in FlowRows
    PROVE  FlowTimed(rows, clock)
<1> DEFINE recent == Since(events, Window)
           Of(pair) == {e \in recent : <<e.flow.src, e.flow.dst>> = pair}
           Times(pair) == {e.at : e \in Of(pair)}
           Firsts(pair) == {t \in Times(pair) : \A u \in Times(pair) : t <= u}
           Rows(pair) ==
            [src : {pair[1]}, dst : {pair[2]},
             rule : {e.flow.rule : e \in Of(pair)},
             ingress : {e.flow.ingress : e \in Of(pair)},
             egress : {e.flow.egress : e \in Of(pair)},
             first : Firsts(pair),
             last : {Latest(Times(pair))}]
           pairs == {<<e.flow.src, e.flow.dst>> : e \in recent}
<1>0. \A t \in 0..clock : t \in Nat
    OBVIOUS
<1>1. PICK row \in Selections(pairs, Rows) : rows = {row[p] : p \in pairs}
    BY DEF FlowRows
<1>2. ASSUME NEW p \in pairs
      PROVE  /\ Times(p) \in SUBSET (0..clock) /\ Firsts(p) # {} /\ Latest(Times(p)) \in 0..clock
             /\ \E e : e \in Of(p)
    <2>1. PICK e \in recent : p = <<e.flow.src, e.flow.dst>>
        OBVIOUS
    <2>2. e \in Of(p) /\ Times(p) # {}
        BY <2>1
    <2>3. Times(p) \in SUBSET (0..clock)
        BY DEF Since
    <2> HIDE DEF Times, Of
    <2>4. Latest(Times(p)) \in 0..clock
        BY <2>2, <2>3, LatestOf
    <2>5. Times(p) \in SUBSET Nat
        BY <2>3, <1>0
    <2>6. Firsts(p) # {}
        BY <2>2, <2>5, Lowest
    <2> QED BY <2>2, <2>3, <2>4, <2>6
<1>3. ASSUME NEW p \in pairs
      PROVE  Rows(p) # {} /\ \A x \in Rows(p) : x.first \in 0..clock /\ x.last \in 0..clock
    <2>1. PICK e : e \in Of(p)
        BY <1>2
    <2>2. PICK t : t \in Firsts(p)
        BY <1>2
    <2>3. [src |-> p[1], dst |-> p[2], rule |-> e.flow.rule, ingress |-> e.flow.ingress,
           egress |-> e.flow.egress, first |-> t, last |-> Latest(Times(p))] \in Rows(p)
        <3> HIDE DEF Of, Times, Firsts
        <3> QED BY <2>1, <2>2
    <2>4. Firsts(p) \subseteq 0..clock
        BY <1>2
    <2> HIDE DEF Of, Times, Firsts
    <2>5. ASSUME NEW x \in Rows(p) PROVE x.first \in Firsts(p) /\ x.last \in {Latest(Times(p))}
        OBVIOUS
    <2> QED BY <1>2, <2>3, <2>4, <2>5
<1> HIDE DEF Rows, pairs
<1>4. \A p \in pairs : row[p] \in Rows(p)
    BY <1>1, <1>3 DEF Selections
<1> QED BY <1>1, <1>3, <1>4 DEF FlowTimed

----------------------------------------------------------------------------
(* The forest of UnionFind.                                                *)

(* Every parent link leads to a root, and no link leads back.              *)
Forest(parent, root, D) ==
    /\ parent \in [D -> D] /\ root \in [D -> D]
    /\ \A y \in D : root[y] = IF parent[y] = y THEN y ELSE root[parent[y]]
    /\ \A y \in D : parent[root[y]] = root[y]
    /\ \E depth \in [D -> Nat] : \A y \in D : parent[y] # y => depth[parent[y]] < depth[y]

\* The function find() computes is the one that gives the roots.
LEMMA FindRoot ==
    ASSUME NEW parent, NEW root, NEW D, Forest(parent, root, D), NEW x \in D
    PROVE  Find(parent, x) = root[x]
<1> DEFINE Finds(f) == f = [y \in DOMAIN parent |-> IF parent[y] = y THEN y ELSE f[parent[y]]]
           g == CHOOSE f : Finds(f)
<1>1. Find(parent, x) = g[x]
    BY Zenon DEF Find
<1>2. Finds(root)
    BY DEF Forest
<1>3. Finds(g)
    BY <1>2
<1>4. \A y \in D : g[y] = IF parent[y] = y THEN y ELSE g[parent[y]]
    BY <1>3 DEF Forest
<1> HIDE DEF g, Finds
<1>5. PICK depth \in [D -> Nat] : \A y \in D : parent[y] # y => depth[parent[y]] < depth[y]
    BY DEF Forest
<1> DEFINE wrong == {y \in D : g[y] # root[y]}
           N == {depth[y] : y \in wrong}
<1>6. wrong = {}
    <2> SUFFICES ASSUME wrong # {} PROVE FALSE
        OBVIOUS
    <2>1. N \in SUBSET Nat /\ N # {}
        OBVIOUS
    <2> HIDE DEF N
    <2>2. PICK n \in N : \A k \in N : n <= k
        BY <2>1, Lowest
    <2> USE DEF N
    <2>3. PICK y \in wrong : depth[y] = n
        BY <2>2
    <2>4. parent[y] # y
        BY <1>4, <2>3 DEF Forest
    <2>5. parent[y] \in D /\ parent[y] \notin wrong
        <3>1. parent[y] \in D /\ depth[parent[y]] < n /\ n \in Nat /\ depth[parent[y]] \in Nat
            BY <1>5, <2>3, <2>4 DEF Forest
        <3>2. parent[y] \in wrong => depth[parent[y]] \in N
            OBVIOUS
        <3> HIDE DEF N, wrong
        <3> QED BY <2>2, <3>1, <3>2
    <2>6. g[y] = g[parent[y]] /\ root[y] = root[parent[y]]
        BY <1>4, <2>3, <2>4 DEF Forest
    <2> QED BY <2>3, <2>5, <2>6
<1> QED BY <1>1, <1>6

\* The roots when the tree of the root b is hung below the root a.
Hung(root, a, b) == [y \in DOMAIN root |-> IF root[y] = b THEN a ELSE root[y]]

LEMMA HungForest ==
    ASSUME NEW parent, NEW root, NEW D, Forest(parent, root, D),
           NEW a \in D, NEW b \in D, parent[a] = a, parent[b] = b, a # b
    PROVE  Forest([parent EXCEPT ![b] = a], Hung(root, a, b), D)
<1> DEFINE p == [parent EXCEPT ![b] = a]
           r == Hung(root, a, b)
<1>1. /\ p \in [D -> D] /\ r \in [D -> D] /\ p[b] = a
      /\ \A y \in D : y # b => p[y] = parent[y]
      /\ \A y \in D : r[y] = IF root[y] = b THEN a ELSE root[y]
    BY DEF Forest, Hung
<1>2. root[a] = a /\ root[b] = b
    BY DEF Forest
<1> HIDE DEF p, r
<1>3. ASSUME NEW y \in D PROVE r[y] = IF p[y] = y THEN y ELSE r[p[y]]
    <2>1. CASE y = b
        BY <1>1, <1>2, <2>1
    <2>2. CASE y # b
        <3>1. p[y] = parent[y] /\ parent[y] \in D
            BY <1>1, <2>2 DEF Forest
        <3>2. root[y] = IF parent[y] = y THEN y ELSE root[parent[y]]
            BY DEF Forest
        <3> QED BY <1>1, <2>2, <3>1, <3>2
    <2> QED BY <2>1, <2>2
<1>4. ASSUME NEW y \in D PROVE p[r[y]] = r[y]
    <2>1. parent[root[y]] = root[y] /\ root[y] \in D
        BY DEF Forest
    <2> QED BY <1>1, <2>1
<1>5. PICK depth \in [D -> Nat] : \A y \in D : parent[y] # y => depth[parent[y]] < depth[y]
    BY DEF Forest
<1> DEFINE more == [y \in D |-> IF root[y] = b THEN depth[y] + depth[a] + 1 ELSE depth[y]]
<1>6. more \in [D -> Nat]
    BY <1>5
<1>7. ASSUME NEW y \in D, p[y] # y PROVE more[p[y]] < more[y]
    <2>1. CASE y = b
        BY <1>1, <1>2, <1>5, <2>1
    <2>2. CASE y # b
        <3>1. p[y] = parent[y] /\ parent[y] \in D /\ parent[y] # y
            BY <1>1, <1>7, <2>2 DEF Forest
        <3>2. root[y] = root[parent[y]]
            BY <3>1 DEF Forest
        <3>3. depth[parent[y]] < depth[y] /\ depth[y] \in Nat /\ depth[parent[y]] \in Nat
              /\ depth[a] \in Nat
            BY <1>5, <3>1
        <3> QED BY <3>1, <3>2, <3>3
    <2> QED BY <2>1, <2>2
<1> HIDE DEF more
<1> QED BY <1>1, <1>3, <1>4, <1>6, <1>7 DEF Forest, p, r

(* Two names of which the roots are one, or are those of a and b.          *)
Together(root, a, b, x, y) ==
    root[x] = root[y] \/ {root[x], root[y]} \subseteq {root[a], root[b]}

\* union() joins the trees of two names and no others.
LEMMA UnionJoins ==
    ASSUME NEW parent, NEW root, NEW D, Forest(parent, root, D), NEW a \in D, NEW b \in D
    PROVE  \E to : /\ Forest(Union(parent, a, b), to, D)
                   /\ \A x, y \in D : to[x] = to[y] <=> Together(root, a, b, x, y)
<1> DEFINE ra == root[a]
           rb == root[b]
<1>1. Find(parent, a) = ra /\ Find(parent, b) = rb
    BY FindRoot
<1>2. ra \in D /\ rb \in D /\ parent[ra] = ra /\ parent[rb] = rb
    BY DEF Forest
<1>3. DOMAIN root = D
    BY DEF Forest
<1>4. CASE ra = rb
    <2>1. Union(parent, a, b) = parent
        BY <1>1, <1>4 DEF Union
    <2> QED BY <1>4, <2>1 DEF Together
<1>5. ASSUME ra # rb, NEW s, NEW t, {s, t} = {ra, rb}, s # t,
             Union(parent, a, b) = [parent EXCEPT ![t] = s]
      PROVE  \E to : /\ Forest(Union(parent, a, b), to, D)
                     /\ \A x, y \in D : to[x] = to[y] <=> Together(root, a, b, x, y)
    <2>1. s \in D /\ t \in D /\ parent[s] = s /\ parent[t] = t
        BY <1>2, <1>5
    <2>2. Forest([parent EXCEPT ![t] = s], Hung(root, s, t), D)
        BY <1>5, <2>1, HungForest
    <2>3. ASSUME NEW x \in D, NEW y \in D
          PROVE  Hung(root, s, t)[x] = Hung(root, s, t)[y] <=> Together(root, a, b, x, y)
        BY <1>3, <1>5 DEF Hung, Together
    <2> QED BY <1>5, <2>2, <2>3
<1>6. CASE ra # rb
    <2> DEFINE lo == IF Rank[ra] < Rank[rb] THEN ra ELSE rb
               hi == IF lo = ra THEN rb ELSE ra
    <2>1. Union(parent, a, b) = [parent EXCEPT ![hi] = lo]
        BY <1>1, <1>6 DEF Union
    <2>2. {lo, hi} = {ra, rb} /\ lo # hi
        BY <1>6
    <2> HIDE DEF lo, hi, ra, rb
    <2> QED BY <1>5, <1>6, <2>1, <2>2
<1> QED BY <1>4, <1>6

----------------------------------------------------------------------------
(* The folds of Claim and Canonical.                                       *)

(* What Claim does with one token.                                         *)
Taken(u, token, d) ==
    IF \E c \in u.claims : c[1] = token
    THEN [u EXCEPT !.parent = Union(u.parent, (CHOOSE c \in u.claims : c[1] = token)[2], d)]
    ELSE [u EXCEPT !.claims = u.claims \cup {<<token, d>>}]

(* A step of the fold over the tokens of the device dev, or of the one     *)
(* over the devices.                                                       *)
Step(told, fold, u, x) ==
    IF fold.of = "tokens" THEN Taken(u, x, fold.dev) ELSE Claim(told, u, x)

OfTokens(d) == [of |-> "tokens", dev |-> d]
OfDevices == [of |-> "devices", dev |-> ""]

FoldsBy(f, told, fold, base, seq, S) ==
    f = [s \in SUBSET S |-> IF s = {} THEN base
                            ELSE Step(told, fold, f[s \ {Max(s)}], seq[Max(s)])]

LEMMA MaxIs == ASSUME NEW n \in Nat, NEW s \in SUBSET (1..(n + 1)), n + 1 \in s PROVE Max(s) = n + 1
<1>1. \A y \in s : n + 1 >= y /\ y \in Int
    OBVIOUS
<1>2. \A x \in s : (\A y \in s : x >= y) => x = n + 1
    BY <1>1
<1>3. (CHOOSE x \in s : \A y \in s : x >= y) = n + 1
    BY <1>1, <1>2
<1> QED BY <1>3 DEF Max

\* A fold of a sequence exists, by induction on its length.
LEMMA FoldExists ==
    ASSUME NEW told, NEW fold, NEW base, NEW seq, NEW n \in Nat
    PROVE  \E f : FoldsBy(f, told, fold, base, seq, 1..n)
<1> DEFINE Op(u, x) == Step(told, fold, u, x)
           without == {k \in Nat : ~\E f : FoldsBy(f, told, fold, base, seq, 1..k)}
<1>1. 0 \notin without
    <2> DEFINE f == [s \in SUBSET (1..0) |-> base]
    <2>1. \A s \in SUBSET (1..0) : s = {}
        OBVIOUS
    <2>2. f = [s \in SUBSET (1..0) |-> IF s = {} THEN base ELSE Op(f[s \ {Max(s)}], seq[Max(s)])]
        <3> HIDE DEF Op
        <3> QED BY <2>1
    <2>3. FoldsBy(f, told, fold, base, seq, 1..0)
        BY <2>2 DEF FoldsBy
    <2> QED BY <2>3
<1>2. ASSUME NEW k \in Nat, k \notin without PROVE k + 1 \notin without
    <2>1. PICK f : FoldsBy(f, told, fold, base, seq, 1..k)
        BY <1>2
    <2> HIDE DEF Op
    <2> DEFINE g == [s \in SUBSET (1..(k + 1)) |->
                        IF k + 1 \in s THEN Op(f[s \ {k + 1}], seq[k + 1]) ELSE f[s]]
    <2>2. ASSUME NEW s \in SUBSET (1..(k + 1))
          PROVE  g[s] = IF s = {} THEN base ELSE Op(g[s \ {Max(s)}], seq[Max(s)])
        <3>1. CASE k + 1 \in s
            <4>1. Max(s) = k + 1 /\ s # {}
                BY <3>1, MaxIs
            <4>2. s \ {k + 1} \in SUBSET (1..(k + 1)) /\ k + 1 \notin s \ {k + 1}
                OBVIOUS
            <4>3. g[s \ {k + 1}] = f[s \ {k + 1}]
                BY <4>2
            <4>4. g[s] = Op(f[s \ {k + 1}], seq[k + 1])
                BY <3>1
            <4> QED BY <4>1, <4>3, <4>4
        <3>2. CASE k + 1 \notin s
            <4>1. s \in SUBSET (1..k)
                BY <3>2
            <4>2. g[s] = f[s]
                BY <3>2
            <4>3. g[s \ {Max(s)}] = f[s \ {Max(s)}]
                <5>1. s \ {Max(s)} \in SUBSET (1..(k + 1)) /\ k + 1 \notin s \ {Max(s)}
                    BY <3>2
                <5> QED BY <5>1
            <4>4. f[s] = IF s = {} THEN base ELSE Op(f[s \ {Max(s)}], seq[Max(s)])
                BY <2>1, <4>1 DEF FoldsBy, Op
            <4> QED BY <4>2, <4>3, <4>4
        <3> QED BY <3>1, <3>2
    <2>3. g = [s \in SUBSET (1..(k + 1)) |-> IF s = {} THEN base
                                             ELSE Op(g[s \ {Max(s)}], seq[Max(s)])]
        <3> DEFINE h == [s \in SUBSET (1..(k + 1)) |-> IF s = {} THEN base
                                             ELSE Op(g[s \ {Max(s)}], seq[Max(s)])]
        <3>1. \A s \in SUBSET (1..(k + 1)) : g[s] = h[s]
            <4> HIDE DEF g
            <4> QED BY <2>2
        <3>2. g = [s \in SUBSET (1..(k + 1)) |-> g[s]] /\ h = [s \in SUBSET (1..(k + 1)) |-> h[s]]
            OBVIOUS
        <3> HIDE DEF g, h
        <3>3. g = h
            BY <3>1, <3>2
        <3> QED BY <3>3 DEF h
    <2> HIDE DEF g
    <2>4. FoldsBy(g, told, fold, base, seq, 1..(k + 1))
        BY <2>3 DEF FoldsBy, Op
    <2> QED BY <2>4
<1> HIDE DEF without
<1>3. without = {}
    <2> SUFFICES ASSUME without # {} PROVE FALSE
        OBVIOUS
    <2>1. without \in SUBSET Nat
        BY DEF without
    <2>2. PICK m \in without : \A k \in without : m <= k
        BY <2>1, Lowest
    <2>3. m \in Nat /\ m # 0
        BY <1>1, <2>1
    <2>4. m - 1 \in Nat /\ m - 1 \notin without
        BY <2>1, <2>2, <2>3
    <2> QED BY <1>2, <2>2, <2>3, <2>4
<1> QED BY <1>3 DEF without

\* It takes the elements from left to right.
LEMMA FoldSteps ==
    ASSUME NEW f, NEW told, NEW fold, NEW base, NEW seq, NEW n \in Nat,
           FoldsBy(f, told, fold, base, seq, 1..n)
    PROVE  /\ f[1..0] = base
           /\ \A k \in 0..(n - 1) : f[1..(k + 1)] = Step(told, fold, f[1..k], seq[k + 1])
<1>1. 1..0 = {} /\ {} \in SUBSET (1..n)
    OBVIOUS
<1>2. f[1..0] = base
    BY <1>1 DEF FoldsBy
<1>3. ASSUME NEW k \in 0..(n - 1) PROVE f[1..(k + 1)] = Step(told, fold, f[1..k], seq[k + 1])
    <2>1. 1..(k + 1) \in SUBSET (1..n) /\ 1..(k + 1) # {} /\ k \in Nat /\ k + 1 \in 1..(k + 1)
        OBVIOUS
    <2>2. Max(1..(k + 1)) = k + 1
        BY <2>1, MaxIs
    <2>3. (1..(k + 1)) \ {k + 1} = 1..k
        OBVIOUS
    <2>4. f[1..(k + 1)] = Step(told, fold, f[(1..(k + 1)) \ {Max(1..(k + 1))}], seq[Max(1..(k + 1))])
        BY <2>1 DEF FoldsBy
    <2> QED BY <2>2, <2>3, <2>4
<1> QED BY <1>2, <1>3

\* Claim folds over the tokens of the device.
LEMMA ClaimFolds ==
    ASSUME NEW told, NEW s, NEW d, NEW n \in Nat, DOMAIN Tokens(d, told) = 1..n
    PROVE  \E f : FoldsBy(f, told, OfTokens(d), s, Tokens(d, told), 1..n) /\ Claim(told, s, d) = f[1..n]
<1> DEFINE Takes(f) == f = [t \in SUBSET DOMAIN Tokens(d, told) |->
                                IF t = {} THEN s
                                ELSE Taken(f[t \ {Max(t)}], Tokens(d, told)[Max(t)], d)]
           g == CHOOSE f : Takes(f)
<1>1. Claim(told, s, d) = g[DOMAIN Tokens(d, told)]
    BY Zenon DEF Claim, Taken, FoldLeft, MapThenFoldSet
<1>2. ASSUME NEW f PROVE Takes(f) <=> FoldsBy(f, told, OfTokens(d), s, Tokens(d, told), 1..n)
    BY DEF FoldsBy, Step, OfTokens
<1>3. \E f : Takes(f)
    <2>1. PICK f : FoldsBy(f, told, OfTokens(d), s, Tokens(d, told), 1..n)
        BY FoldExists
    <2> HIDE DEF Takes
    <2> QED BY <1>2, <2>1
<1>4. Takes(g)
    <2> HIDE DEF Takes
    <2> QED BY <1>3
<1> HIDE DEF Takes, g
<1> QED BY <1>1, <1>2, <1>4

\* Canonical folds over the devices.
LEMMA CanonicalFolds ==
    ASSUME NEW told, NEW n \in Nat, DOMAIN SetToSeq(DOMAIN told) = 1..n
    PROVE  \E f : /\ FoldsBy(f, told, OfDevices, [parent |-> [d \in DOMAIN told |-> d], claims |-> {}],
                             SetToSeq(DOMAIN told), 1..n)
                  /\ Canonical(told) = [d \in DOMAIN told |-> Find(f[1..n].parent, d)]
<1> DEFINE alone == [parent |-> [d \in DOMAIN told |-> d], claims |-> {}]
           seq == SetToSeq(DOMAIN told)
           Claims(f) == f = [t \in SUBSET DOMAIN seq |->
                                IF t = {} THEN alone ELSE Claim(told, f[t \ {Max(t)}], seq[Max(t)])]
           g == CHOOSE f : Claims(f)
<1>1. Canonical(told) = [d \in DOMAIN told |-> Find(g[DOMAIN seq].parent, d)]
    BY Zenon DEF Canonical, FoldLeft, MapThenFoldSet
<1>2. ASSUME NEW f PROVE Claims(f) <=> FoldsBy(f, told, OfDevices, alone, seq, 1..n)
    <2> HIDE DEF alone
    <2> QED BY DEF FoldsBy, Step, OfDevices
<1>3. \E f : Claims(f)
    <2>1. PICK f : FoldsBy(f, told, OfDevices, alone, seq, 1..n)
        BY FoldExists
    <2> HIDE DEF Claims, alone, seq
    <2> QED BY <1>2, <2>1
<1>4. Claims(g)
    <2> HIDE DEF Claims
    <2> QED BY <1>3
<1> HIDE DEF Claims, g
<1> QED BY <1>1, <1>2, <1>4

----------------------------------------------------------------------------
(* What _merge_devices has done of its devices and their tokens.           *)

TokensOf(d, told) == {Tokens(d, told)[i] : i \in DOMAIN Tokens(d, told)}
Share(told, d, e) == TokensOf(d, told) \cap TokensOf(e, told) # {}

(* The devices of C cannot be parted without parting two that share a      *)
(* token.                                                                  *)
Connected(told, C) ==
    \A S \in SUBSET C : (\A d \in S, e \in C \ S : ~Share(told, d, e)) => S \in {{}, C}

(* The forest joins devices along shared tokens only; each token claimed   *)
(* has one owner, who bears it; and a device is with the owner of every    *)
(* token of it that is done.                                               *)
Fusing(told, u, root, done) ==
    LET D == DOMAIN told
    IN  /\ u = [parent |-> u.parent, claims |-> u.claims]
        /\ Forest(u.parent, root, D)
        /\ \A d \in D : Connected(told, Fused(root, root[d]))
        /\ \A c \in u.claims :
              /\ c = <<c[1], c[2]>> /\ c[2] \in D /\ c[1] \in TokensOf(c[2], told)
              /\ \A b \in u.claims : b[1] = c[1] => b = c
        /\ \A p \in done :
              p[1] \in D /\ \E c \in u.claims : c[1] = p[2] /\ root[c[2]] = root[p[1]]

\* Two sets that are connected and share a token are connected together.
LEMMA ConnectedUnion ==
    ASSUME NEW told, NEW A, NEW B, Connected(told, A), Connected(told, B),
           NEW a \in A, NEW b \in B, Share(told, a, b)
    PROVE  Connected(told, A \cup B)
<1> SUFFICES ASSUME NEW S \in SUBSET (A \cup B),
                    \A d \in S, e \in (A \cup B) \ S : ~Share(told, d, e)
             PROVE  S \in {{}, A \cup B}
    BY DEF Connected
<1>1. S \cap A \in {{}, A}
    <2>1. \A d \in S \cap A, e \in A \ (S \cap A) : ~Share(told, d, e)
        OBVIOUS
    <2> QED BY <2>1 DEF Connected
<1>2. S \cap B \in {{}, B}
    <2>1. \A d \in S \cap B, e \in B \ (S \cap B) : ~Share(told, d, e)
        OBVIOUS
    <2> QED BY <2>1 DEF Connected
<1>3. Share(told, b, a)
    BY DEF Share
<1>4. a \in S <=> b \in S
    BY <1>3
<1>5. CASE a \in S
    BY <1>1, <1>2, <1>4, <1>5
<1>6. CASE a \notin S
    BY <1>1, <1>2, <1>4, <1>6
<1> QED BY <1>5, <1>6

\* The first of all tokens is claimed.
LEMMA NewClaim ==
    ASSUME NEW told, NEW u, NEW root, NEW done, Fusing(told, u, root, done),
           NEW d \in DOMAIN told, NEW token \in TokensOf(d, told),
           ~\E c \in u.claims : c[1] = token
    PROVE  Fusing(told, Taken(u, token, d), root, done \cup {<<d, token>>})
<1> DEFINE v == Taken(u, token, d)
           claim == <<token, d>>
<1>1. v = [u EXCEPT !.claims = u.claims \cup {claim}]
    BY DEF Taken
<1>2. v = [parent |-> u.parent, claims |-> u.claims \cup {claim}]
    BY <1>1 DEF Fusing
<1>3. claim[1] = token /\ claim[2] = d
    OBVIOUS
<1>4. v.parent = u.parent /\ v.claims = u.claims \cup {claim}
    BY <1>2
<1>5. v = [parent |-> v.parent, claims |-> v.claims]
    BY <1>2
<1> HIDE DEF v, claim
<1>6. ASSUME NEW c \in v.claims
      PROVE  /\ c = <<c[1], c[2]>> /\ c[2] \in DOMAIN told /\ c[1] \in TokensOf(c[2], told)
             /\ \A b \in v.claims : b[1] = c[1] => b = c
    <2>1. CASE c = claim
        BY <1>3, <1>4, <2>1 DEF Fusing, claim
    <2>2. CASE c # claim
        BY <1>3, <1>4, <2>2 DEF Fusing
    <2> QED BY <2>1, <2>2
<1>7. ASSUME NEW p \in done \cup {<<d, token>>}
      PROVE  p[1] \in DOMAIN told /\ \E c \in v.claims : c[1] = p[2] /\ root[c[2]] = root[p[1]]
    <2>1. CASE p = <<d, token>>
        BY <1>3, <1>4, <2>1
    <2>2. CASE p \in done
        BY <1>4, <2>2 DEF Fusing
    <2> QED BY <2>1, <2>2
<1> QED BY <1>4, <1>5, <1>6, <1>7 DEF Fusing, v

\* A device joins the owner of a token it bears.
LEMMA JoinOwner ==
    ASSUME NEW told, NEW u, NEW root, NEW done, Fusing(told, u, root, done),
           NEW d \in DOMAIN told, NEW token \in TokensOf(d, told),
           \E c \in u.claims : c[1] = token
    PROVE  \E to : Fusing(told, Taken(u, token, d), to, done \cup {<<d, token>>})
<1> DEFINE D == DOMAIN told
           owned == CHOOSE c \in u.claims : c[1] = token
           owner == owned[2]
           v == Taken(u, token, d)
<1>1. owned \in u.claims /\ owned[1] = token
    OBVIOUS
<1>2. v = [u EXCEPT !.parent = Union(u.parent, owner, d)]
    BY DEF Taken
<1>3. v = [parent |-> Union(u.parent, owner, d), claims |-> u.claims]
    BY <1>2 DEF Fusing
<1>4. v.parent = Union(u.parent, owner, d) /\ v.claims = u.claims
      /\ v = [parent |-> v.parent, claims |-> v.claims]
    BY <1>3
<1> HIDE DEF v, owned
<1>5. owner \in D /\ token \in TokensOf(owner, told)
    BY <1>1 DEF Fusing
<1>6. Share(told, owner, d)
    BY <1>5 DEF Share
<1>7. PICK to : /\ Forest(Union(u.parent, owner, d), to, D)
                /\ \A x, y \in D : to[x] = to[y] <=> Together(root, owner, d, x, y)
    BY <1>5, UnionJoins DEF Fusing
<1>8. DOMAIN root = D /\ DOMAIN to = D
    BY <1>7 DEF Fusing, Forest
<1>9. \A x, y \in D : root[x] = root[y] => to[x] = to[y]
    BY <1>7 DEF Together
<1>10. to[owner] = to[d]
    BY <1>5, <1>7 DEF Together
<1>11. ASSUME NEW x \in D PROVE Connected(told, Fused(to, to[x]))
    <2>1. Fused(to, to[x]) = {y \in D : Together(root, owner, d, y, x)}
        BY <1>7, <1>8 DEF Fused
    <2>2. CASE root[x] \in {root[owner], root[d]}
        <3>1. Fused(to, to[x]) = Fused(root, root[owner]) \cup Fused(root, root[d])
            BY <1>8, <2>1, <2>2 DEF Fused, Together
        <3>2. owner \in Fused(root, root[owner]) /\ d \in Fused(root, root[d])
            BY <1>5, <1>8 DEF Fused
        <3>3. Connected(told, Fused(root, root[owner])) /\ Connected(told, Fused(root, root[d]))
            BY <1>5 DEF Fusing
        <3> QED BY <1>6, <3>1, <3>2, <3>3, ConnectedUnion
    <2>3. CASE root[x] \notin {root[owner], root[d]}
        <3>1. Fused(to, to[x]) = Fused(root, root[x])
            BY <1>8, <2>1, <2>3 DEF Fused, Together
        <3> QED BY <3>1 DEF Fusing
    <2> QED BY <2>2, <2>3
<1>12. ASSUME NEW p \in done \cup {<<d, token>>}
       PROVE  p[1] \in D /\ \E c \in v.claims : c[1] = p[2] /\ to[c[2]] = to[p[1]]
    <2>1. CASE p = <<d, token>>
        BY <1>1, <1>4, <1>10, <2>1
    <2>2. CASE p \in done
        <3>1. PICK c \in u.claims : c[1] = p[2] /\ root[c[2]] = root[p[1]]
            BY <2>2 DEF Fusing
        <3>2. c[2] \in D /\ p[1] \in D
            BY <2>2 DEF Fusing
        <3> QED BY <1>4, <1>9, <1>12, <3>1, <3>2
    <2> QED BY <2>1, <2>2
<1>13. \A c \in v.claims :
           /\ c = <<c[1], c[2]>> /\ c[2] \in D /\ c[1] \in TokensOf(c[2], told)
           /\ \A b \in v.claims : b[1] = c[1] => b = c
    BY <1>4 DEF Fusing
<1>14. Forest(v.parent, to, D)
    BY <1>4, <1>7
<1>15. Fusing(told, v, to, done \cup {<<d, token>>})
    BY <1>4, <1>11, <1>12, <1>13, <1>14 DEF Fusing
<1> QED BY <1>15 DEF v

\* What is done of a device after some of its tokens.
DoneOf(told, d, k) == {<<d, Tokens(d, told)[i]>> : i \in 1..k}

\* The tokens of a device are a sequence.
LEMMA TokensFinite ==
    ASSUME NEW told, NEW d
    PROVE  \E n \in Nat : DOMAIN Tokens(d, told) = 1..n
<1> DEFINE Token(kind, value) == IF value = "" THEN <<>> ELSE <<<<kind, value>>>>
           T == {<<"mac", told[d].mac>>, <<"name", d>>, <<"mgmt_ip", told[d].ip>>}
<1>1. /\ Token("mac", told[d].mac) \in Seq(T) /\ Token("name", d) \in Seq(T)
      /\ Token("mgmt_ip", told[d].ip) \in Seq(T)
    <2>1. ASSUME NEW x \in T PROVE <<>> \in Seq(T) /\ <<x>> \in Seq(T)
        <3> HIDE DEF T
        <3> QED OBVIOUS
    <2>2. ASSUME NEW kind, NEW value, <<kind, value>> \in T PROVE Token(kind, value) \in Seq(T)
        <3> DEFINE x == <<kind, value>>
        <3>1. Token(kind, value) \in {<<>>, <<x>>}
            BY Zenon
        <3> HIDE DEF T, Token, x
        <3> QED BY <2>1, <2>2, <3>1 DEF x
    <2>3. /\ <<"mac", told[d].mac>> \in T /\ <<"name", d>> \in T
          /\ <<"mgmt_ip", told[d].ip>> \in T
        OBVIOUS
    <2> HIDE DEF T, Token
    <2> QED BY <2>2, <2>3
<1>2. Tokens(d, told) = Token("mac", told[d].mac) \o Token("name", d) \o Token("mgmt_ip", told[d].ip)
    BY DEF Tokens
<1> HIDE DEF T, Token
<1>3. Tokens(d, told) \in Seq(T)
    BY <1>1, <1>2
<1> QED BY <1>3

\* The body of the inner loop.
LEMMA ClaimFuses ==
    ASSUME NEW told, NEW u, NEW root, NEW done, Fusing(told, u, root, done), NEW d \in DOMAIN told
    PROVE  \E to : Fusing(told, Claim(told, u, d), to, done \cup {<<d, t>> : t \in TokensOf(d, told)})
<1>1. PICK n \in Nat : DOMAIN Tokens(d, told) = 1..n
    BY TokensFinite
<1>2. PICK f : /\ FoldsBy(f, told, OfTokens(d), u, Tokens(d, told), 1..n)
               /\ Claim(told, u, d) = f[1..n]
    BY <1>1, ClaimFolds
<1>3. /\ f[1..0] = u
      /\ \A k \in 0..(n - 1) : f[1..(k + 1)] = Taken(f[1..k], Tokens(d, told)[k + 1], d)
    BY <1>2, FoldSteps DEF Step, OfTokens
<1> DEFINE Kept(k) == \E to : Fusing(told, f[1..k], to, done \cup DoneOf(told, d, k))
           lost == {k \in 0..n : ~Kept(k)}
<1>4. Kept(0)
    <2>1. done \cup DoneOf(told, d, 0) = done
        BY DEF DoneOf
    <2> QED BY <1>3, <2>1
<1>5. ASSUME NEW k \in 0..(n - 1), Kept(k) PROVE Kept(k + 1)
    <2>1. PICK to : Fusing(told, f[1..k], to, done \cup DoneOf(told, d, k))
        BY <1>5
    <2> DEFINE token == Tokens(d, told)[k + 1]
    <2>2. token \in TokensOf(d, told)
        BY <1>1 DEF TokensOf
    <2>3. 1..(k + 1) = 1..k \cup {k + 1}
        OBVIOUS
    <2>4. done \cup DoneOf(told, d, k + 1) = (done \cup DoneOf(told, d, k)) \cup {<<d, token>>}
        BY <2>3 DEF DoneOf
    <2> HIDE DEF token
    <2>5. \E on : Fusing(told, Taken(f[1..k], token, d), on,
                         (done \cup DoneOf(told, d, k)) \cup {<<d, token>>})
        <3>1. CASE \E c \in f[1..k].claims : c[1] = token
            BY <2>1, <2>2, <3>1, JoinOwner
        <3>2. CASE ~\E c \in f[1..k].claims : c[1] = token
            BY <2>1, <2>2, <3>2, NewClaim
        <3> QED BY <3>1, <3>2
    <2>6. f[1..(k + 1)] = Taken(f[1..k], token, d)
        BY <1>3 DEF token
    <2> QED BY <2>4, <2>5, <2>6
<1>6. lost = {}
    <2> SUFFICES ASSUME lost # {} PROVE FALSE
        OBVIOUS
    <2> HIDE DEF Kept
    <2>1. lost \in SUBSET Nat
        OBVIOUS
    <2> HIDE DEF lost
    <2>2. PICK m \in lost : \A k \in lost : m <= k
        BY <2>1, Lowest
    <2>3. m \in 0..n /\ m # 0
        BY <1>4 DEF lost
    <2>4. m - 1 \in 0..(n - 1) /\ m - 1 \notin lost
        BY <2>2, <2>3
    <2>5. Kept(m - 1)
        BY <2>4 DEF lost
    <2>6. Kept((m - 1) + 1)
        BY <1>5, <2>4, <2>5
    <2>7. (m - 1) + 1 = m
        BY <2>3
    <2> QED BY <2>2, <2>6, <2>7 DEF lost
<1>7. Kept(n)
    <2> HIDE DEF Kept
    <2> QED BY <1>6
<1>8. DoneOf(told, d, n) = {<<d, t>> : t \in TokensOf(d, told)}
    BY <1>1 DEF DoneOf, TokensOf
<1> QED BY <1>2, <1>7, <1>8

\* SetToSeq lists every member.
LEMMA Listed ==
    ASSUME NEW S, IsFiniteSet(S)
    PROVE  \E n \in Nat : DOMAIN SetToSeq(S) = 1..n /\ S = {SetToSeq(S)[i] : i \in 1..n}
<1> DEFINE n == Cardinality(S)
           IsList(f) == f \in [1..n -> S] /\ IsInjective(f)
<1>1. n \in Nat /\ ExistsBijection(1..n, S)
    BY FS_CardinalityType
<1>2. \E f : IsList(f)
    BY <1>1 DEF ExistsBijection, Bijection, Injection, IsInjective
<1>3. SetToSeq(S) = CHOOSE f \in [1..n -> S] : IsInjective(f)
    BY DEF SetToSeq
<1> DEFINE list == SetToSeq(S)
<1>4. list \in [1..n -> S] /\ IsInjective(list)
    BY <1>2, <1>3
<1> HIDE DEF list, n
<1>5. list \in Injection(1..n, S)
    BY <1>4 DEF Injection, IsInjective
<1>6. IsFiniteSet(1..n) /\ Cardinality(1..n) = n
    BY <1>1, FS_Interval
<1>7. list \in Surjection(1..n, S)
    BY <1>5, <1>6, FS_Injection DEF n
<1> QED BY <1>1, <1>4, <1>7 DEF Surjection, list

(* What FusionIsComponents says of the devices told of and their roots.    *)
Components(told, root) ==
    /\ \A d, e \in DOMAIN told : Share(told, d, e) => root[d] = root[e]
    /\ \A d \in DOMAIN told : Connected(told, Fused(root, root[d]))

\* Fusing starts with every device alone.
LEMMA Alone ==
    ASSUME NEW told
    PROVE  \E root : Fusing(told, [parent |-> [d \in DOMAIN told |-> d], claims |-> {}], root, {})
<1> DEFINE D == DOMAIN told
           id == [d \in D |-> d]
           u == [parent |-> id, claims |-> {}]
<1>1. u.parent = id /\ u.claims = {}
    OBVIOUS
<1>2. Forest(id, id, D)
    <2>1. [d \in D |-> 0] \in [D -> Nat]
        OBVIOUS
    <2>2. \E depth \in [D -> Nat] : \A y \in D : id[y] # y => depth[id[y]] < depth[y]
        BY <2>1
    <2> QED BY <2>2 DEF Forest
<1>3. ASSUME NEW d \in D PROVE Connected(told, Fused(id, id[d]))
    <2>1. Fused(id, id[d]) = {d}
        BY DEF Fused
    <2> HIDE DEF id
    <2> QED BY <2>1 DEF Connected
<1>4. u = [parent |-> u.parent, claims |-> u.claims]
    OBVIOUS
<1> HIDE DEF u
<1>5. Forest(u.parent, id, D)
    BY <1>1, <1>2
<1>6. Fusing(told, u, id, {})
    <2> HIDE DEF id
    <2> QED BY <1>1, <1>3, <1>4, <1>5 DEF Fusing
<1> QED BY <1>6 DEF u

\* The roots _merge_devices gives are the components, whatever the order of
\* the devices and of the ids, for any finite number of them.
LEMMA CanonicalFuses ==
    ASSUME NEW told, IsFiniteSet(DOMAIN told) PROVE Components(told, Canonical(told))
<1> DEFINE D == DOMAIN told
           alone == [parent |-> [d \in D |-> d], claims |-> {}]
           seq == SetToSeq(D)
<1>1. PICK n \in Nat : DOMAIN seq = 1..n /\ D = {seq[i] : i \in 1..n}
    BY Listed
<1>2. PICK f : /\ FoldsBy(f, told, OfDevices, alone, seq, 1..n)
               /\ Canonical(told) = [d \in D |-> Find(f[1..n].parent, d)]
    BY <1>1, CanonicalFolds
<1>3. PICK start : Fusing(told, alone, start, {})
    BY Alone
<1> HIDE DEF alone, seq
<1>4. /\ f[1..0] = alone
      /\ \A k \in 0..(n - 1) : f[1..(k + 1)] = Claim(told, f[1..k], seq[k + 1])
    <2>1. /\ f[1..0] = alone
          /\ \A k \in 0..(n - 1) : f[1..(k + 1)] = Step(told, OfDevices, f[1..k], seq[k + 1])
        BY <1>2, FoldSteps
    <2>2. ASSUME NEW u, NEW x PROVE Step(told, OfDevices, u, x) = Claim(told, u, x)
        BY DEF Step, OfDevices
    <2> QED BY <2>1, <2>2
<1> DEFINE Of(i) == {<<seq[i], t>> : t \in TokensOf(seq[i], told)}
           Done(k) == UNION {Of(i) : i \in 1..k}
           Kept(k) == \E to : Fusing(told, f[1..k], to, Done(k))
           lost == {k \in 0..n : ~Kept(k)}
<1>5. Kept(0)
    <2>1. Done(0) = {}
        OBVIOUS
    <2> HIDE DEF Done
    <2> QED BY <1>3, <1>4, <2>1
<1>6. ASSUME NEW k \in 0..(n - 1), Kept(k) PROVE Kept(k + 1)
    <2>1. PICK to : Fusing(told, f[1..k], to, Done(k))
        BY <1>6
    <2>2. seq[k + 1] \in D
        BY <1>1
    <2>3. 1..(k + 1) = 1..k \cup {k + 1}
        OBVIOUS
    <2>4. Done(k + 1) = Done(k) \cup Of(k + 1)
        <3> HIDE DEF Of
        <3> QED BY <2>3
    <2>5. \E on : Fusing(told, Claim(told, f[1..k], seq[k + 1]), on, Done(k) \cup Of(k + 1))
        <3>1. PICK dev : dev = seq[k + 1]
            OBVIOUS
        <3>2. Of(k + 1) = {<<dev, t>> : t \in TokensOf(dev, told)}
            BY <3>1
        <3> HIDE DEF Done, Of
        <3>3. \E on : Fusing(told, Claim(told, f[1..k], dev), on,
                             Done(k) \cup {<<dev, t>> : t \in TokensOf(dev, told)})
            <4>1. PICK u, done : u = f[1..k] /\ done = Done(k)
                OBVIOUS
            <4>2. Fusing(told, u, to, done) /\ dev \in DOMAIN told
                BY <2>1, <2>2, <3>1, <4>1
            <4>3. \E on : Fusing(told, Claim(told, u, dev), on,
                                 done \cup {<<dev, t>> : t \in TokensOf(dev, told)})
                BY <4>2, ClaimFuses
            <4> QED BY <4>1, <4>3
        <3> QED BY <3>1, <3>2, <3>3
    <2>6. f[1..(k + 1)] = Claim(told, f[1..k], seq[k + 1])
        BY <1>4
    <2> HIDE DEF Done, Of
    <2> QED BY <2>4, <2>5, <2>6
<1>7. lost = {}
    <2> SUFFICES ASSUME lost # {} PROVE FALSE
        OBVIOUS
    <2> HIDE DEF Kept
    <2>1. lost \in SUBSET Nat
        OBVIOUS
    <2> HIDE DEF lost
    <2>2. PICK m \in lost : \A k \in lost : m <= k
        BY <2>1, Lowest
    <2>3. m \in 0..n /\ m # 0
        BY <1>5 DEF lost
    <2>4. m - 1 \in 0..(n - 1) /\ m - 1 \notin lost
        BY <2>2, <2>3
    <2>5. Kept(m - 1)
        BY <2>4 DEF lost
    <2>6. Kept((m - 1) + 1)
        BY <1>6, <2>4, <2>5
    <2>7. (m - 1) + 1 = m
        BY <2>3
    <2> QED BY <2>2, <2>6, <2>7 DEF lost
<1>8. Kept(n)
    <2> HIDE DEF Kept
    <2> QED BY <1>7
<1>9. PICK root : Fusing(told, f[1..n], root, Done(n))
    BY <1>8
<1>10. ASSUME NEW d \in D, NEW t \in TokensOf(d, told) PROVE <<d, t>> \in Done(n)
    <2>1. PICK i \in 1..n : seq[i] = d
        BY <1>1
    <2>2. <<d, t>> \in Of(i)
        BY <2>1
    <2> HIDE DEF Of
    <2> QED BY <2>2
<1> HIDE DEF Done
<1>11. Forest(f[1..n].parent, root, D)
    BY <1>9 DEF Fusing
<1>12. Canonical(told) = root
    <2>1. \A d \in D : Find(f[1..n].parent, d) = root[d]
        BY <1>11, FindRoot
    <2>2. root \in [D -> D]
        BY <1>11 DEF Forest
    <2> QED BY <1>2, <2>1, <2>2
<1>13. ASSUME NEW d \in D, NEW e \in D, Share(told, d, e) PROVE root[d] = root[e]
    <2>1. PICK t : t \in TokensOf(d, told) /\ t \in TokensOf(e, told)
        BY <1>13 DEF Share
    <2>2. <<d, t>> \in Done(n) /\ <<e, t>> \in Done(n)
        BY <1>10, <2>1
    <2>3. PICK b \in f[1..n].claims : b[1] = t /\ root[b[2]] = root[d]
        BY <1>9, <2>2 DEF Fusing
    <2>4. PICK c \in f[1..n].claims : c[1] = t /\ root[c[2]] = root[e]
        BY <1>9, <2>2 DEF Fusing
    <2>5. b = c
        BY <1>9, <2>3, <2>4 DEF Fusing
    <2> QED BY <2>3, <2>4, <2>5
<1>14. \A d \in D : Connected(told, Fused(root, root[d]))
    BY <1>9 DEF Fusing
<1> QED BY <1>12, <1>13, <1>14 DEF Components

----------------------------------------------------------------------------
(* The inductive invariant.                                                *)

(* An observed link that is not past its retention has the nodes at both   *)
(* of its ends in the table, seen as late as the link: nodes are written   *)
(* first, no row of theirs is due before the link's, and an upsert makes   *)
(* none older.                                                             *)
Kept(es) ==
    \A e \in es : e.type \in ObservedTypes /\ clock <= e.last + Retention => HasEnds(nodes, e)

PassInv ==
    /\ pass = [stage |-> pass.stage, todo |-> pass.todo, graph |-> pass.graph, at |-> pass.at,
               number |-> pass.number]
    /\ pass.stage \in {"idle", "collect", "nodes", "edges"}
    /\ pass.at \in Never..clock /\ pass.number \in 0..MaxPasses
    /\ pass.stage # "idle" => pass.at = clock
    /\ pass.stage \in {"idle", "collect"} => pass.graph = NoGraph
    /\ pass.stage \in {"nodes", "edges"} => GraphSound(pass.graph, clock)

StoredInv ==
    /\ clock \in 0..MaxClock
    /\ Timed(obs, clock)
    /\ \A e \in events : e.flow \in Flows /\ e.at \in 0..clock
    /\ NodeRows(nodes, clock) /\ EdgeRows(edges, clock)

EndsInv == Kept(edges) /\ (pass.stage = "edges" => Kept(pass.graph.edges))

Inv == PassInv /\ StoredInv /\ EndsInv

\* Time does not make a row newer.
LEMMA RowsLater ==
    ASSUME NEW n \in Nat, NEW m \in Nat, n <= m, NEW rows
    PROVE  /\ NodeRows(rows, n) => NodeRows(rows, m)
           /\ EdgeRows(rows, n) => EdgeRows(rows, m)
           /\ Timed(rows, n) => Timed(rows, m)
<1>1. 0..n \subseteq 0..m
    OBVIOUS
<1> QED BY <1>1 DEF NodeRows, EdgeRows, Timed

LEMMA InvInit == Init => Inv
<1> SUFFICES ASSUME Init PROVE Inv
    OBVIOUS
<1> USE DEF Init
<1>1. PassInv
    BY TopologyAssumption DEF PassInv, Never
<1>2. StoredInv
    BY TopologyAssumption DEF StoredInv, Timed, NodeRows, EdgeRows
<1>3. EndsInv
    BY DEF EndsInv, Kept
<1> QED BY <1>1, <1>2, <1>3 DEF Inv

LEMMA PassNext == Inv /\ [Next]_vars => PassInv'
<1> SUFFICES ASSUME Inv, [Next]_vars PROVE PassInv'
    OBVIOUS
<1> USE DEF Inv, PassInv
<1>0. clock \in Nat /\ MaxPasses \in Nat
    BY TopologyAssumption DEF StoredInv
<1>1. CASE Tick
    <2>1. pass' = pass /\ pass.stage = "idle" /\ clock' = clock + 1
        BY <1>1 DEF Tick
    <2>2. pass.at \in Never..clock'
        BY <1>0, <2>1 DEF Never
    <2> QED BY <2>1, <2>2
<1>2. CASE Start
    <2>1. /\ pass' = [stage |-> "collect", todo |-> Enabled, graph |-> NoGraph, at |-> clock,
                      number |-> pass.number + 1]
          /\ clock' = clock /\ pass.number < MaxPasses
        BY <1>2 DEF Start
    <2> QED BY <1>0, <2>1 DEF Never
<1>3. CASE RunCollector
    <2>1. pass' = [pass EXCEPT !.todo = Tail(@)] /\ clock' = clock /\ pass.stage = "collect"
        BY <1>3 DEF RunCollector
    <2> QED BY <2>1
<1>4. CASE Resolve
    <2>1. PICK rows \in FlowRows : \E g \in Graphs(Since(obs, Window), rows) :
              pass' = [pass EXCEPT !.stage = "nodes", !.graph = g]
        BY <1>4 DEF Resolve
    <2>2. PICK g \in Graphs(Since(obs, Window), rows) :
              pass' = [pass EXCEPT !.stage = "nodes", !.graph = g]
        BY <2>1
    <2>3. FlowTimed(rows, clock)
        BY <1>0, FlowRowsTimed DEF StoredInv
    <2>4. Timed(Since(obs, Window), clock)
        BY DEF StoredInv, Timed, Since
    <2>5. GraphSound(g, clock)
        BY <1>0, <2>3, <2>4, ResolvedSound
    <2>6. clock' = clock /\ pass.stage = "collect"
        BY <1>4 DEF Resolve
    <2>7. /\ pass' = [stage |-> "nodes", todo |-> pass.todo, graph |-> g, at |-> pass.at,
                      number |-> pass.number]
        BY <2>2
    <2> QED BY <2>5, <2>6, <2>7
<1>5. CASE WriteNodes
    <2>1. pass' = [pass EXCEPT !.stage = "edges"] /\ clock' = clock /\ pass.stage = "nodes"
        BY <1>5 DEF WriteNodes
    <2> QED BY <2>1
<1>6. CASE WriteEdges
    <2>1. pass' = [pass EXCEPT !.stage = "idle", !.graph = NoGraph] /\ clock' = clock
        BY <1>6 DEF WriteEdges
    <2>2. pass' = [stage |-> "idle", todo |-> pass.todo, graph |-> NoGraph, at |-> pass.at,
                   number |-> pass.number]
        BY <2>1
    <2> QED BY <2>1, <2>2
<1>7. CASE Fail
    <2>1. pass' = [pass EXCEPT !.stage = "idle", !.todo = <<>>, !.graph = NoGraph] /\ clock' = clock
        BY <1>7 DEF Fail
    <2>2. pass' = [stage |-> "idle", todo |-> <<>>, graph |-> NoGraph, at |-> pass.at,
                   number |-> pass.number]
        BY <2>1
    <2> QED BY <2>1, <2>2
<1>8. CASE Expire \/ (\E f \in Flows : Log(f)) \/ UNCHANGED vars
    <2>1. UNCHANGED <<pass, clock>>
        BY <1>8 DEF Expire, Log, vars
    <2> QED BY <2>1
<1> QED BY <1>1, <1>2, <1>3, <1>4, <1>5, <1>6, <1>7, <1>8 DEF Next

LEMMA StoredNext == Inv /\ [Next]_vars => StoredInv'
<1> SUFFICES ASSUME Inv, [Next]_vars PROVE StoredInv'
    OBVIOUS
<1> USE DEF Inv
<1>0. clock \in Nat /\ MaxClock \in Nat
    BY TopologyAssumption DEF StoredInv
<1>1. CASE Tick
    <2>1. /\ clock < MaxClock /\ clock' = clock + 1 /\ nodes' = nodes /\ edges' = edges
          /\ obs' \subseteq obs /\ events' \subseteq events
        BY <1>1 DEF Tick
    <2>2. clock' \in Nat /\ clock' \in 0..MaxClock /\ clock <= clock'
        BY <1>0, <2>1
    <2>3. NodeRows(nodes, clock') /\ EdgeRows(edges, clock') /\ Timed(obs, clock')
        BY <1>0, <2>2, RowsLater DEF StoredInv
    <2>4. \A e \in events : e.flow \in Flows /\ e.at \in 0..clock'
        BY <1>0, <2>1 DEF StoredInv
    <2> QED BY <2>1, <2>2, <2>3, <2>4 DEF StoredInv, Timed
<1>2. CASE \E f \in Flows : Log(f)
    <2>1. PICK f \in Flows : Log(f)
        BY <1>2
    <2>2. /\ events' = events \cup {[flow |-> f, at |-> clock]}
          /\ UNCHANGED <<clock, obs, nodes, edges>>
        BY <2>1 DEF Log
    <2>3. [flow |-> f, at |-> clock].flow \in Flows /\ [flow |-> f, at |-> clock].at \in 0..clock
        BY <1>0
    <2> QED BY <2>2, <2>3 DEF StoredInv
<1>3. CASE RunCollector
    <2>1. PICK a : LET outcome == Collect(Head(pass.todo), a, pass.at)
                   IN  \/ outcome.ok /\ obs' = obs \cup outcome.facts
                       \/ UNCHANGED obs
        BY <1>3 DEF RunCollector
    <2> DEFINE outcome == Collect(Head(pass.todo), a, pass.at)
    <2>2. UNCHANGED <<clock, events, nodes, edges>> /\ pass.at = clock
        BY <1>3 DEF RunCollector, PassInv
    <2>3. CASE UNCHANGED obs
        BY <2>2, <2>3 DEF StoredInv
    <2>4. CASE outcome.ok /\ obs' = obs \cup outcome.facts
        <3>1. ASSUME NEW o \in outcome.facts PROVE o.at = clock /\ (o.type = "vm_host" => o.obj # "")
            <4>1. Observed(o, pass.at)
                BY <2>4, <3>1, CollectSound
            <4> QED BY <2>2, <4>1 DEF Observed
        <3> HIDE DEF outcome
        <3>2. obs' = obs \cup outcome.facts /\ clock' = clock
            BY <2>2, <2>4
        <3>3. clock \in 0..clock
            BY <1>0
        <3>4. ASSUME NEW o \in obs' PROVE o.at \in 0..clock /\ (o.type = "vm_host" => o.obj # "")
            BY <3>1, <3>2, <3>3, <3>4 DEF StoredInv, Timed
        <3>5. Timed(obs', clock')
            BY <3>2, <3>4 DEF Timed
        <3> QED BY <2>2, <3>5 DEF StoredInv
    <2> QED BY <2>1, <2>3, <2>4
<1>4. CASE Expire
    <2>1. nodes' \subseteq nodes /\ edges' \subseteq edges /\ UNCHANGED <<clock, obs, events>>
        BY <1>4 DEF Expire
    <2> QED BY <2>1 DEF StoredInv, NodeRows, EdgeRows
<1>5. CASE WriteNodes
    <2>1. nodes' = Upsert(nodes, pass.graph.nodes) /\ UNCHANGED <<clock, obs, events, edges>>
          /\ GraphSound(pass.graph, clock)
        BY <1>5 DEF WriteNodes, PassInv
    <2>2. NodeRows(nodes', clock)
        BY <1>0, <2>1, UpsertNodes DEF StoredInv, GraphSound
    <2> QED BY <2>1, <2>2 DEF StoredInv
<1>6. CASE WriteEdges
    <2>1. edges' = Upsert(edges, pass.graph.edges) /\ UNCHANGED <<clock, obs, events, nodes>>
          /\ GraphSound(pass.graph, clock)
        BY <1>6 DEF WriteEdges, PassInv
    <2>2. EdgeRows(edges', clock)
        BY <1>0, <2>1, UpsertEdges DEF StoredInv, GraphSound
    <2> QED BY <2>1, <2>2 DEF StoredInv
<1>7. CASE Start \/ Resolve \/ Fail \/ UNCHANGED vars
    <2>1. UNCHANGED <<clock, obs, events, nodes, edges>>
        BY <1>7 DEF Start, Resolve, Fail, vars
    <2> QED BY <2>1 DEF StoredInv
<1> QED BY <1>1, <1>2, <1>3, <1>4, <1>5, <1>6, <1>7 DEF Next

\* The TTL takes no node that an edge it leaves still needs, and no INSERT
\* makes a node older than a link it is an end of.
LEMMA EndsNext == Inv /\ [Next]_vars => EndsInv'
<1> SUFFICES ASSUME Inv, [Next]_vars PROVE EndsInv'
    OBVIOUS
<1> USE DEF Inv
<1>0. /\ clock \in Nat /\ Retention \in Nat
      /\ \A r \in nodes : r.last \in 0..clock
      /\ \A e \in edges : e.last \in 0..clock
      /\ pass.stage \in {"nodes", "edges"} => \A e \in pass.graph.edges : e.last \in 0..clock
    BY TopologyAssumption DEF StoredInv, PassInv, NodeRows, EdgeRows, GraphSound
<1>1. CASE Tick
    <2>1. /\ clock' = clock + 1 /\ nodes' = nodes /\ edges' = edges /\ pass' = pass
          /\ pass.stage = "idle"
        BY <1>1 DEF Tick
    <2>2. ASSUME NEW e \in edges, clock + 1 <= e.last + Retention
          PROVE  clock <= e.last + Retention
        BY <1>0, <2>2
    <2> QED BY <2>1, <2>2 DEF EndsInv, Kept, HasEnds
<1>2. CASE Expire
    <2>1. UNCHANGED <<clock, pass>> /\ edges' \subseteq edges
          /\ nodes' \subseteq nodes /\ nodes \ Due(nodes) \subseteq nodes'
        BY <1>2 DEF Expire
    <2>2. ASSUME NEW e, e.last \in 0..clock, clock <= e.last + Retention, HasEnds(nodes, e)
          PROVE  HasEnds(nodes', e)
        <3>1. ASSUME NEW id \in {e.src, e.dst} PROVE \E r \in nodes' : r.id = id /\ e.last <= r.last
            <4>1. PICK r \in nodes : r.id = id /\ e.last <= r.last
                BY <2>2 DEF HasEnds
            <4>2. ~(r.last + Retention < clock)
                BY <1>0, <2>2, <4>1
            <4> QED BY <2>1, <4>1, <4>2 DEF Due
        <3> QED BY <3>1 DEF HasEnds
    <2> QED BY <1>0, <2>1, <2>2 DEF EndsInv, Kept
<1>3. CASE WriteNodes
    <2>1. /\ nodes' = Upsert(nodes, pass.graph.nodes) /\ UNCHANGED <<clock, edges>>
          /\ pass' = [pass EXCEPT !.stage = "edges"] /\ GraphSound(pass.graph, clock)
        BY <1>3 DEF WriteNodes, PassInv
    <2>2. pass'.graph = pass.graph
        BY <2>1 DEF PassInv
    <2>3. \A s \in nodes \cup pass.graph.nodes : \E r \in nodes' : r.id = s.id /\ s.last <= r.last
        BY <1>0, <2>1, UpsertNodes DEF StoredInv, GraphSound
    <2>4. NodeRows(nodes', clock)
        BY <1>0, <2>1, UpsertNodes DEF StoredInv, GraphSound
    <2>5. /\ \A r \in nodes \cup pass.graph.nodes : r.last \in Int
          /\ \A r \in nodes' : r.last \in Int
        BY <1>0, <2>1, <2>4 DEF GraphSound, NodeRows
    <2>6. ASSUME NEW e, e.last \in 0..clock, HasEnds(nodes, e) \/ HasEnds(pass.graph.nodes, e)
          PROVE  HasEnds(nodes', e)
        <3>1. ASSUME NEW id \in {e.src, e.dst} PROVE \E r \in nodes' : r.id = id /\ e.last <= r.last
            <4>1. PICK s \in nodes \cup pass.graph.nodes : s.id = id /\ e.last <= s.last
                BY <2>6 DEF HasEnds
            <4>2. PICK r \in nodes' : r.id = s.id /\ s.last <= r.last
                BY <2>3
            <4> QED BY <2>5, <2>6, <4>1, <4>2
        <3> QED BY <3>1 DEF HasEnds
    <2>7. \A e \in edges : e.type \in ObservedTypes /\ clock <= e.last + Retention => HasEnds(nodes', e)
        BY <1>0, <2>6 DEF EndsInv, Kept
    <2>8. \A e \in pass.graph.edges : e.type \in ObservedTypes => HasEnds(nodes', e)
        <3>1. \A e \in pass.graph.edges : e.last \in 0..clock
            BY <2>1 DEF GraphSound, EdgeRows
        <3> QED BY <2>1, <2>6, <3>1 DEF GraphSound
    <2> QED BY <2>1, <2>2, <2>7, <2>8 DEF EndsInv, Kept
<1>4. CASE WriteEdges
    <2>1. /\ edges' = Upsert(edges, pass.graph.edges) /\ UNCHANGED <<clock, nodes>>
          /\ pass' = [pass EXCEPT !.stage = "idle", !.graph = NoGraph]
          /\ pass.stage = "edges" /\ GraphSound(pass.graph, clock)
        BY <1>4 DEF WriteEdges, PassInv
    <2>2. edges' \subseteq edges \cup pass.graph.edges
        BY <1>0, <2>1, UpsertEdges DEF StoredInv, GraphSound
    <2>3. Kept(edges \cup pass.graph.edges)
        BY <2>1 DEF EndsInv, Kept
    <2>4. pass'.stage = "idle"
        BY <2>1 DEF PassInv
    <2> QED BY <2>1, <2>2, <2>3, <2>4 DEF EndsInv, Kept
<1>5. CASE Start
    <2>1. UNCHANGED <<clock, nodes, edges>> /\ pass'.stage = "collect"
        BY <1>5 DEF Start
    <2> QED BY <2>1 DEF EndsInv, Kept
<1>6. CASE Resolve
    <2>1. UNCHANGED <<clock, nodes, edges>> /\ pass'.stage = "nodes"
        BY <1>6 DEF Resolve, PassInv
    <2> QED BY <2>1 DEF EndsInv, Kept
<1>7. CASE Fail
    <2>1. UNCHANGED <<clock, nodes, edges>> /\ pass'.stage = "idle"
        BY <1>7 DEF Fail, PassInv
    <2> QED BY <2>1 DEF EndsInv, Kept
<1>8. CASE RunCollector
    <2>1. UNCHANGED <<clock, nodes, edges>> /\ pass'.stage = "collect"
        BY <1>8 DEF RunCollector, PassInv
    <2> QED BY <2>1 DEF EndsInv, Kept
<1>9. CASE (\E f \in Flows : Log(f)) \/ UNCHANGED vars
    <2>1. UNCHANGED <<clock, nodes, edges, pass>>
        BY <1>9 DEF Log, vars
    <2> QED BY <2>1 DEF EndsInv, Kept
<1> QED BY <1>1, <1>2, <1>3, <1>4, <1>5, <1>6, <1>7, <1>8, <1>9 DEF Next

LEMMA InvAlways == Spec => []Inv
<1>1. Inv /\ [Next]_vars => Inv'
    BY PassNext, StoredNext, EndsNext DEF Inv
<1> QED BY InvInit, <1>1, PTL DEF Spec

----------------------------------------------------------------------------
(* The theorems.                                                           *)

\* The tables hold one row of each sorting key, and nothing of the graph, the
\* observations or the events is newer than the clock, whatever order passes,
\* failures and the TTL come in (graph_nodes and graph_edges, chwriter.py).
THEOREM TypeCorrect == Spec => []TypeOK
<1>1. Inv => TypeOK
    <2> SUFFICES ASSUME Inv PROVE TypeOK
        OBVIOUS
    <2> USE DEF Inv, PassInv, StoredInv
    <2>1. \A r, s \in nodes : r.last <= clock /\ (Key(r) = Key(s) => r = s)
        BY DEF NodeRows, Key
    <2>2. \A r, s \in edges : r.last <= clock /\ (Key(r) = Key(s) => r = s)
        BY DEF EdgeRows, Key, EdgeId
    <2>3. \A o \in obs : o.at \in 0..clock
        BY DEF Timed
    <2> QED BY <2>1, <2>2, <2>3 DEF TypeOK
<1> QED BY InvAlways, <1>1, PTL

\* Every attachment, hosted guest and physical link that load_subgraph
\* (graphstore.py) returns comes with the nodes at both of its ends: for any collectors and answers, any devices
\* that fuse and part, passes that stop between the two INSERTs, and a TTL
\* that empties the two tables in its own time.
THEOREM SubgraphAlwaysClosed == Spec => []SubgraphClosed
<1>1. Inv => SubgraphClosed
    <2> SUFFICES ASSUME Inv, NEW e \in RecentEdges, e.type \in ObservedTypes
                 PROVE  {e.src, e.dst} \subseteq {r.id : r \in LoadSubgraph.nodes}
        BY DEF SubgraphClosed, LoadSubgraph, ObservedTypes
    <2>1. e \in edges /\ e.last >= clock - Window
        BY DEF RecentEdges
    <2>2. e.last \in 0..clock /\ clock \in Nat
        BY <2>1, TopologyAssumption DEF Inv, StoredInv, EdgeRows
    <2>3. clock <= e.last + Retention
        BY <2>1, <2>2, TopologyAssumption
    <2>4. HasEnds(nodes, e)
        BY <2>1, <2>3 DEF Inv, EndsInv, Kept
    <2>5. ASSUME NEW id \in {e.src, e.dst} PROVE id \in {r.id : r \in LoadSubgraph.nodes}
        <3>1. PICK r \in nodes : r.id = id
            BY <2>4 DEF HasEnds
        <3>2. id \in Ends(RecentEdges)
            BY DEF Ends
        <3> QED BY <3>1, <3>2 DEF LoadSubgraph
    <2> QED BY <2>5
<1> QED BY InvAlways, <1>1, PTL

----------------------------------------------------------------------------
(* The fusion, of any observations that may be stored.                     *)

LEMMA NamesFinite == ASSUME NEW O, IsFiniteSet(O) PROVE IsFiniteSet(Names(O))
<1>1. ASSUME NEW o \in O PROVE IsFiniteSet(DevicesIn(o))
    <2>1. \E a, b : DevicesIn(o) \subseteq {a, b}
        BY DEF DevicesIn
    <2>2. PICK a, b : DevicesIn(o) \subseteq {a, b}
        BY <2>1
    <2>3. IsFiniteSet({a, b})
        <3>1. IsFiniteSet({a}) /\ IsFiniteSet({b}) /\ {a, b} = {a} \cup {b}
            BY FS_Singleton
        <3> QED BY <3>1, FS_Union
    <2> QED BY <2>2, <2>3, FS_Subset
<1> DEFINE sets == {DevicesIn(o) : o \in O}
<1>2. IsFiniteSet(sets)
    <2>1. [o \in O |-> DevicesIn(o)] \in Surjection(O, sets)
        BY DEF Surjection
    <2> QED BY <2>1, FS_Surjection
<1>3. IsFiniteSet(UNION sets)
    <2>1. \A s \in sets : IsFiniteSet(s)
        BY <1>1
    <2> HIDE DEF sets
    <2> QED BY <1>2, <2>1, FS_UNION
<1> QED BY <1>3 DEF Names

LEMMA GraphsFuse ==
    ASSUME NEW O, IsFiniteSet(O), NEW rows, NEW g \in Graphs(O, rows)
    PROVE  Components(g.told, g.root)
<1>1. PICK told \in Told(O) :
          /\ g.told = told /\ g.root = Canonical(told)
          /\ \E devices \in DeviceRows(O, told, Canonical(told)), others \in OtherRows(O) :
             \E ends \in FlowEnds(rows, {n.id : n \in devices \cup others}) :
             \E flowing \in FlowLinks(rows) :
                 /\ g.nodes = (devices \cup others) \cup ends
                 /\ g.edges = Moved(Links(O), Canonical(told)) \cup flowing
    BY GraphParts
<1>2. DOMAIN told = Names(O)
    BY DEF Told, Selections
<1> QED BY <1>1, <1>2, NamesFinite, CanonicalFuses

FusedInv ==
    /\ IsFiniteSet(obs) /\ pass.todo \in Seq(DOMAIN Answers)
    /\ Components(pass.graph.told, pass.graph.root)

LEMMA FusedInit == Init => FusedInv
<1> SUFFICES ASSUME Init PROVE FusedInv
    OBVIOUS
<1>1. pass.graph.told = <<>> /\ pass.graph.root = <<>>
    BY DEF Init, NoGraph
<1>2. Components(<<>>, <<>>)
    <2>1. DOMAIN <<>> = {}
        OBVIOUS
    <2> QED BY <2>1 DEF Components
<1>3. IsFiniteSet(obs) /\ pass.todo \in Seq(DOMAIN Answers)
    BY FS_EmptySet DEF Init
<1> QED BY <1>1, <1>2, <1>3 DEF FusedInv

LEMMA FusedNext == Inv /\ FusedInv /\ [Next]_vars => FusedInv'
<1> SUFFICES ASSUME Inv, FusedInv, [Next]_vars PROVE FusedInv'
    OBVIOUS
<1> USE DEF FusedInv
<1>0. Components(NoGraph.told, NoGraph.root)
    <2>1. DOMAIN <<>> = {} /\ NoGraph.told = <<>>
        BY DEF NoGraph
    <2> QED BY <2>1 DEF Components
<1>1. pass = [stage |-> pass.stage, todo |-> pass.todo, graph |-> pass.graph, at |-> pass.at,
              number |-> pass.number]
    BY DEF Inv, PassInv
<1>2. CASE Tick
    <2>1. obs' \subseteq obs /\ pass' = pass
        BY <1>2 DEF Tick
    <2> QED BY <2>1, FS_Subset
<1>3. CASE (\E f \in Flows : Log(f)) \/ Expire \/ UNCHANGED vars
    <2>1. UNCHANGED <<obs, pass>>
        BY <1>3 DEF Log, Expire, vars
    <2> QED BY <2>1
<1>4. CASE Start
    <2>1. obs' = obs /\ pass'.todo = Enabled /\ pass'.graph = NoGraph
        BY <1>4 DEF Start
    <2> QED BY <1>0, <2>1, TopologyAssumption
<1>5. CASE RunCollector
    <2>1. /\ pass.stage = "collect" /\ pass.todo # <<>>
          /\ pass' = [pass EXCEPT !.todo = Tail(pass.todo)]
        BY <1>5 DEF RunCollector
    <2>2. pass'.graph = pass.graph /\ pass'.todo = Tail(pass.todo)
        BY <1>1, <2>1
    <2>3. Tail(pass.todo) \in Seq(DOMAIN Answers) /\ Head(pass.todo) \in DOMAIN Answers
        <3>1. PICK t, T : t = pass.todo /\ T = DOMAIN Answers
            OBVIOUS
        <3>2. t \in Seq(T) /\ t # <<>>
            BY <2>1, <3>1
        <3>3. Tail(t) \in Seq(T) /\ Head(t) \in T
            BY <3>2
        <3> QED BY <3>1, <3>3
    <2>4. pass.at \in 0..MaxClock
        BY <2>1 DEF Inv, PassInv, StoredInv
    <2>5. PICK a \in Answers[Head(pass.todo)] :
              LET outcome == Collect(Head(pass.todo), a, pass.at)
              IN  \/ outcome.ok /\ obs' = obs \cup outcome.facts
                  \/ UNCHANGED obs
        BY <1>5 DEF RunCollector
    <2>6. IsFiniteSet(Collect(Head(pass.todo), a, pass.at).facts)
        BY <2>3, <2>4, <2>5, FiniteAnswers
    <2>7. IsFiniteSet(obs')
        BY <2>5, <2>6, FS_Union
    <2> QED BY <2>2, <2>3, <2>7
<1>6. CASE Resolve
    <2>1. PICK rows \in FlowRows : \E g \in Graphs(Since(obs, Window), rows) :
              pass' = [pass EXCEPT !.stage = "nodes", !.graph = g]
        BY <1>6 DEF Resolve
    <2>2. PICK g \in Graphs(Since(obs, Window), rows) :
              pass' = [pass EXCEPT !.stage = "nodes", !.graph = g]
        BY <2>1
    <2>3. pass'.graph = g /\ pass'.todo = pass.todo /\ obs' = obs
        BY <1>1, <1>6, <2>2 DEF Resolve
    <2>4. IsFiniteSet(Since(obs, Window))
        BY FS_Subset DEF Since
    <2>5. Components(g.told, g.root)
        BY <2>4, GraphsFuse
    <2> QED BY <2>3, <2>5
<1>7. CASE WriteNodes
    <2>1. pass' = [pass EXCEPT !.stage = "edges"] /\ obs' = obs
        BY <1>7 DEF WriteNodes
    <2>2. pass'.graph = pass.graph /\ pass'.todo = pass.todo
        BY <1>1, <2>1
    <2> QED BY <2>1, <2>2
<1>8. CASE WriteEdges \/ Fail
    <2>1. /\ obs' = obs
          /\ \/ pass' = [pass EXCEPT !.stage = "idle", !.graph = NoGraph]
             \/ pass' = [pass EXCEPT !.stage = "idle", !.todo = <<>>, !.graph = NoGraph]
        BY <1>8 DEF WriteEdges, Fail
    <2>2. pass'.graph = NoGraph /\ pass'.todo \in {pass.todo, <<>>}
        BY <1>1, <2>1
    <2>3. obs' = obs
        BY <1>8 DEF WriteEdges, Fail
    <2>4. <<>> \in Seq(DOMAIN Answers)
        OBVIOUS
    <2> QED BY <1>0, <2>2, <2>3, <2>4
<1> QED BY <1>2, <1>3, <1>4, <1>5, <1>6, <1>7, <1>8 DEF Next

\* Two device names are one device exactly when a chain of shared MACs, names
\* and management addresses leads from the one to the other (_merge_devices,
\* unionfind.py), for any number of devices, any order of the observations and
\* whatever the ids hash to.
THEOREM FusionAlwaysComponents == Spec => []FusionIsComponents
<1>1. FusedInv => FusionIsComponents
    BY DEF FusedInv, FusionIsComponents, Components, Connected, Share, TokensOf
<1>2. Spec => []FusedInv
    <2>1. Init => FusedInv
        BY FusedInit
    <2>2. Inv /\ FusedInv /\ [Next]_vars => FusedInv'
        BY FusedNext
    <2> QED BY <2>1, <2>2, InvAlways, PTL DEF Spec
<1> QED BY <1>1, <1>2, PTL

----------------------------------------------------------------------------
(* The rows a pass has written.                                            *)

(* The freshest row ever written of an id is in the table until it is due. *)
Leads(r, rows) == \A s \in rows : s.id = r.id => s = r \/ s.last < r.last

WrittenInv ==
    /\ nodes \subseteq stored
    /\ \A r \in stored : "id" \in DOMAIN r /\ r.last \in 0..clock
    /\ \A r \in stored : clock <= r.last + Retention /\ Leads(r, stored) => r \in nodes

\* A row that leads those written is in the table they are written to, when
\* the table has the one that led before.
LEMMA UpsertLeads ==
    ASSUME NEW T, NEW R, NEW r \in T \cup R, Leads(r, T \cup R),
           \A s \in T \cup R : "id" \in DOMAIN s /\ s.last \in Int
    PROVE  r \in Upsert(T, R)
<1>1. \A s \in T \cup R : Key(s) = s.id
    BY DEF Key
<1>2. \A s \in T \cup R : s.id = r.id /\ s # r => s.last < r.last
    BY DEF Leads
<1>3. CASE r \in R
    <2>1. ~\E s \in {s \in T : s.last > r.last} : Key(s) = Key(r)
        BY <1>1, <1>2
    <2> QED BY <1>3, <2>1 DEF Upsert
<1>4. CASE r \in T /\ r \notin R
    <2>1. ~\E s \in {s \in R : s.last >= r.last} : Key(s) = Key(r)
        BY <1>1, <1>2, <1>4
    <2> QED BY <1>4, <2>1 DEF Upsert
<1> QED BY <1>3, <1>4

LEMMA WrittenInit == Init => WrittenInv
BY DEF Init, WrittenInv

LEMMA WrittenNext == Inv /\ WrittenInv /\ [Next]_vars => WrittenInv'
<1> SUFFICES ASSUME Inv, WrittenInv, [Next]_vars PROVE WrittenInv'
    OBVIOUS
<1> USE DEF WrittenInv
<1>0. clock \in Nat /\ Retention \in Nat
    BY TopologyAssumption DEF Inv, StoredInv
<1>1. CASE Tick
    <2>1. clock' = clock + 1 /\ nodes' = nodes /\ stored' = stored
        BY <1>1 DEF Tick
    <2>2. ASSUME NEW r \in stored
          PROVE  r.last \in 0..clock' /\ (clock' <= r.last + Retention => clock <= r.last + Retention)
        BY <1>0, <2>1
    <2> QED BY <2>1, <2>2 DEF Leads
<1>2. CASE Expire
    <2>1. nodes' \subseteq nodes /\ nodes \ Due(nodes) \subseteq nodes' /\ UNCHANGED <<clock, stored>>
        BY <1>2 DEF Expire
    <2>2. ASSUME NEW r \in nodes, clock <= r.last + Retention PROVE r \in nodes'
        <3>1. ~(r.last + Retention < clock)
            BY <1>0, <2>2
        <3> QED BY <2>1, <3>1 DEF Due
    <2> QED BY <2>1, <2>2 DEF Leads
<1>3. CASE WriteNodes
    <2> DEFINE R == pass.graph.nodes
    <2>1. /\ nodes' = Upsert(nodes, R) /\ stored' = stored \cup R /\ clock' = clock
          /\ NodeRows(R, clock)
        BY <1>3 DEF WriteNodes, Inv, PassInv, GraphSound
    <2> HIDE DEF R
    <2>2. \A r \in stored \cup R : "id" \in DOMAIN r /\ r.last \in 0..clock
        BY <2>1 DEF NodeRows
    <2>3. Upsert(nodes, R) \subseteq nodes \cup R
        BY DEF Upsert
    <2>4. ASSUME NEW r \in stored \cup R, clock <= r.last + Retention, Leads(r, stored \cup R)
          PROVE  r \in Upsert(nodes, R)
        <3>1. r \in nodes \cup R
            <4>1. r \in stored => Leads(r, stored)
                BY <2>4 DEF Leads
            <4> QED BY <2>4, <4>1
        <3>2. Leads(r, nodes \cup R)
            BY <2>4 DEF Leads
        <3>3. \A s \in nodes \cup R : "id" \in DOMAIN s /\ s.last \in Int
            BY <2>2
        <3> QED BY <3>1, <3>2, <3>3, UpsertLeads
    <2> QED BY <2>1, <2>2, <2>3, <2>4
<1>4. CASE \/ (\E f \in Flows : Log(f)) \/ Start \/ RunCollector \/ Resolve \/ WriteEdges \/ Fail
           \/ UNCHANGED vars
    <2>1. UNCHANGED <<clock, nodes, stored>>
        BY <1>4 DEF Log, Start, RunCollector, Resolve, WriteEdges, Fail, vars
    <2> QED BY <2>1 DEF Leads
<1> QED BY <1>1, <1>2, <1>3, <1>4 DEF Next

LEMMA WrittenAlways == Spec => []WrittenInv
<1>1. Init => WrittenInv
    BY WrittenInit
<1>2. Inv /\ WrittenInv /\ [Next]_vars => WrittenInv'
    BY WrittenNext
<1> QED BY <1>1, <1>2, InvAlways, PTL DEF Spec

\* ingest_status names every firewall of topo_firewalls, and a name it calls
\* fresh has logged within the threshold.
LEMMA StatusSays ==
    ASSUME clock \in Nat, \A e \in events : e.at \in 0..clock, NEW name \in TopoFirewalls
    PROVE  /\ \E s \in IngestStatus : s.name = name
           /\ \A s \in IngestStatus : s.name = name =>
                 (~s.stale <=> \E e \in events : ShortHost[e.flow.observer] = name
                                                 /\ e.at >= clock - Staleness)
<1> DEFINE recent == Since(events, LogWindow)
           heard(n) == {e.at : e \in {e \in recent : ShortHost[e.flow.observer] = n}}
           observers == {ShortHost[e.flow.observer] : e \in recent}
           Stale(n) == heard(n) = {} \/ clock - Latest(heard(n)) > Staleness
<1>0. Staleness \in Nat /\ LogWindow \in Nat /\ Staleness <= LogWindow
    BY TopologyAssumption
<1>1. IngestStatus = {[name |-> n, stale |-> Stale(n)] : n \in TopoFirewalls \cup observers}
    BY DEF IngestStatus
<1>2. heard(name) \in SUBSET (0..clock)
    BY DEF Since
<1>3. ASSUME ~Stale(name)
      PROVE  \E e \in events : ShortHost[e.flow.observer] = name /\ e.at >= clock - Staleness
    <2>1. Latest(heard(name)) \in heard(name)
        <3> HIDE DEF heard
        <3> QED BY <1>2, <1>3, LatestOf
    <2>2. PICK e \in recent : ShortHost[e.flow.observer] = name /\ e.at = Latest(heard(name))
        BY <2>1
    <2>3. e \in events /\ e.at \in 0..clock
        BY DEF Since
    <2>4. ~(clock - e.at > Staleness)
        BY <1>3, <2>2
    <2>5. e.at >= clock - Staleness
        <3> HIDE DEF Stale, heard, observers
        <3> QED BY <1>0, <2>3, <2>4
    <2> QED BY <2>2, <2>3, <2>5
<1>4. ASSUME NEW e \in events, ShortHost[e.flow.observer] = name, e.at >= clock - Staleness
      PROVE  ~Stale(name)
    <2>1. e.at >= clock - LogWindow
        BY <1>0, <1>4
    <2>2. e.at \in heard(name)
        BY <1>4, <2>1 DEF Since
    <2> HIDE DEF heard
    <2>3. e.at <= Latest(heard(name)) /\ Latest(heard(name)) \in 0..clock
        BY <1>2, <2>2, LatestOf
    <2> QED BY <1>0, <1>4, <2>2, <2>3
<1> HIDE DEF Stale, observers
<1>5. [name |-> name, stale |-> Stale(name)] \in IngestStatus
    BY <1>1
<1>6. ASSUME NEW s \in IngestStatus, s.name = name PROVE s.stale = Stale(name)
    <2>1. PICK n : s = [name |-> n, stale |-> Stale(n)]
        BY <1>1
    <2>2. s.name = n /\ s.stale = Stale(n)
        BY <2>1
    <2> QED BY <1>6, <2>2
<1>7. Stale(name) \in BOOLEAN
    BY DEF Stale
<1> QED BY <1>3, <1>4, <1>5, <1>6, <1>7

\* A firewall a pass has written is in ingest_status (liveness_tools.py) until
\* its row is due or its device is seen later otherwise: through passes that
\* fail between the INSERTs, rows of equal age and the TTL; and it is fresh
\* exactly when it logged within the threshold.
THEOREM FirewallsAlwaysAccounted == Spec => []FirewallsAccounted
<1>1. Inv /\ WrittenInv => FirewallsAccounted
    <2> SUFFICES ASSUME Inv, WrittenInv PROVE FirewallsAccounted
        OBVIOUS
    <2>0. clock \in Nat /\ \A e \in events : e.at \in 0..clock
        BY TopologyAssumption DEF Inv, StoredInv
    <2>1. ASSUME NEW r \in nodes, Selected(r, "firewall", "device"), r.name # ""
          PROVE  r.name \in TopoFirewalls
        <3> DEFINE rows == {s \in nodes : Selected(s, "firewall", "device")}
                   named == {s \in rows : s.name = r.name}
                   times == {s.last : s \in named}
        <3>1. clock \in Nat /\ times \in SUBSET (0..clock) /\ r.last \in times
            <4>1. clock \in Nat
                BY TopologyAssumption DEF Inv, StoredInv
            <4>2. \A s \in nodes : s.last \in 0..clock
                BY DEF Inv, StoredInv, NodeRows
            <4> QED BY <2>1, <4>1, <4>2
        <3>2. PICK s \in named : \A t \in times : t <= s.last
            <4> HIDE DEF times
            <4>1. Latest(times) \in times /\ \A t \in times : t <= Latest(times)
                BY <3>1, LatestOf
            <4> USE DEF times
            <4> QED BY <4>1
        <3>3. s \in Freshest(rows)
            BY <3>2 DEF Freshest
        <3> QED BY <2>1, <3>2, <3>3 DEF TopoFirewalls, NodesByAttr
    <2>2. ASSUME NEW r \in stored, r.last + Retention >= clock, Leads(r, stored) PROVE r \in nodes
        <3>1. r.last + Retention >= clock <=> clock <= r.last + Retention
            OBVIOUS
        <3> QED BY <2>2, <3>1 DEF WrittenInv
    <2>3. \A r \in {r \in stored : Selected(r, "firewall", "device") /\ r.name # ""} :
              r.last + Retention >= clock /\ Leads(r, stored) => r.name \in TopoFirewalls
        BY <2>1, <2>2
    <2> QED BY <2>0, <2>3, StatusSays DEF FirewallsAccounted, Leads
<1> QED BY <1>1, InvAlways, WrittenAlways, PTL

----------------------------------------------------------------------------
(* Where a host is attached.                                               *)

(* Only hosts are attached, and the row of a host's id is of that kind.    *)
HostRows(rows) == \A r \in rows : r.id[1] = "host" => r.kind = "host"
HostLinks(es) == \A e \in es : e.type = "attaches_to" => e.src[1] = "host"

LEMMA OthersKind ==
    ASSUME NEW O, NEW rows \in OtherRows(O) PROVE HostRows(rows)
<1> DEFINE seen == UNION {OthersIn(o) : o \in O}
           Seen(id) == Latest({o.at : o \in {o \in O : \E n \in OthersIn(o) : n.id = id}})
           Row(row, n) ==
               [id |-> n.id, kind |-> n.id[1], name |-> row[n.id].name, role |-> "",
                idents |-> (n.idents \cup {row[n.id].ip}) \ {""}, last |-> Seen(n.id)]
<1>1. PICK row : rows = {Row(row, n) : n \in seen}
    BY DEF OtherRows
<1>2. \A n : Row(row, n).id = n.id /\ Row(row, n).kind = n.id[1]
    OBVIOUS
<1> HIDE DEF Row, seen
<1> QED BY <1>1, <1>2 DEF HostRows

LEMMA EndsKind ==
    ASSUME NEW flows, NEW known, NEW rows \in FlowEnds(flows, known) PROVE HostRows(rows)
<1> DEFINE EndsOf(row) == UNION {{e.src, e.dst} : e \in FlowEdges(row)}
           Firsts(id) == {row.first : row \in {row \in flows : id \in EndsOf(row)}}
           unknown == (UNION {EndsOf(row) : row \in flows}) \ known
           Row(id, t) == [id |-> id, kind |-> "host", name |-> "", role |-> "", idents |-> {},
                          last |-> t]
<1>1. PICK first \in Selections(unknown, Firsts) : rows = {Row(id, first[id]) : id \in unknown}
    BY DEF FlowEnds
<1>2. \A id, t : Row(id, t).kind = "host"
    OBVIOUS
<1> HIDE DEF Row, unknown
<1> QED BY <1>1, <1>2 DEF HostRows

LEMMA AttachesHosts ==
    ASSUME NEW o, NEW l \in LinksIn(o), l.type = "attaches_to" PROVE l.src[1] = "host"
<1>1. ASSUME NEW src, NEW dst, NEW type, NEW last, l = LinkOf(src, dst, type, last)
      PROVE  l.type = type /\ l.src = src
    BY <1>1, LinkFields
<1>2. CASE Attached(o) \/ o.type = "vm_nic"
    <2>1. l.src = HostId(o.subj)
        BY <1>1, <1>2, LinksOf
    <2> QED BY <2>1, HostSays
<1>3. CASE o.type = "arp_entry"
    BY <1>1, <1>3, LinksOf
<1>4. CASE o.type = "vm_host"
    BY <1>1, <1>4, LinksOf
<1>5. CASE o.type = "lldp_neighbor"
    BY <1>1, <1>5, LinksOf
<1> QED BY <1>2, <1>3, <1>4, <1>5, LinksOf

LEMMA GraphKinds ==
    ASSUME NEW now \in Nat, NEW O, Timed(O, now), NEW rows, FlowTimed(rows, now),
           NEW g \in Graphs(O, rows)
    PROVE  HostRows(g.nodes) /\ HostLinks(g.edges)
<1>1. PICK told \in Told(O) :
          \E devices \in DeviceRows(O, told, Canonical(told)), others \in OtherRows(O) :
          \E ends \in FlowEnds(rows, {n.id : n \in devices \cup others}) :
          \E flowing \in FlowLinks(rows) :
              /\ g.nodes = (devices \cup others) \cup ends
              /\ g.edges = Moved(Links(O), Canonical(told)) \cup flowing
    BY GraphParts
<1> DEFINE root == Canonical(told)
<1>2. PICK devices \in DeviceRows(O, told, root), others \in OtherRows(O) :
          \E ends \in FlowEnds(rows, {n.id : n \in devices \cup others}) :
          \E flowing \in FlowLinks(rows) :
              /\ g.nodes = (devices \cup others) \cup ends
              /\ g.edges = Moved(Links(O), root) \cup flowing
    BY <1>1
<1> DEFINE known == {n.id : n \in devices \cup others}
<1>3. PICK ends \in FlowEnds(rows, known), flowing \in FlowLinks(rows) :
              /\ g.nodes = (devices \cup others) \cup ends
              /\ g.edges = Moved(Links(O), root) \cup flowing
    BY <1>2
<1>4. DOMAIN root = Names(O)
    BY DEF Canonical, Told, Selections
<1> HIDE DEF root
<1>5. HostRows(g.nodes)
    <2>1. \A r \in devices : r.id[1] = "device"
        BY <1>2, <1>4, DeviceRowsSound
    <2> QED BY <1>2, <1>3, <2>1, OthersKind, EndsKind DEF HostRows
<1>6. HostLinks(flowing)
    <2>1. \A e \in flowing : e.type \in FlowTypes
        BY FlowEdgeRows
    <2> QED BY <2>1 DEF HostLinks, FlowTypes
<1>7. HostLinks(Moved(Links(O), root))
    <2>1. ASSUME NEW e \in Moved(Links(O), root), e.type = "attaches_to" PROVE e.src[1] = "host"
        <3>1. PICK o \in O : \E l \in LinksIn(o) :
                  e = LinkOf(To(root, l.src), To(root, l.dst), l.type, o.at)
            BY MovedSound
        <3>2. PICK l \in LinksIn(o) : e = LinkOf(To(root, l.src), To(root, l.dst), l.type, o.at)
            BY <3>1
        <3>3. e.src = To(root, l.src) /\ e.type = l.type
            BY <3>2, LinkFields
        <3>4. l.src[1] = "host"
            BY <2>1, <3>3, AttachesHosts
        <3> QED BY <3>3, <3>4 DEF To
    <2> QED BY <2>1 DEF HostLinks
<1> QED BY <1>3, <1>5, <1>6, <1>7 DEF HostLinks

(* The last pass that ended left every link it had just seen in the table, *)
(* and no link there is newer.                                             *)
CurrentInv ==
    /\ latest = [graph |-> latest.graph, at |-> latest.at]
    /\ latest.at \in Never..clock /\ latest.at <= pass.at
    /\ pass.stage # "idle" => latest.at < pass.at
    /\ \A e \in edges : e.last <= latest.at /\ (e.last = latest.at => e \in latest.graph.edges)
    /\ \A e \in latest.graph.edges :
          e.last = latest.at /\ clock <= e.last + Retention => e \in edges
    /\ HostRows(nodes) /\ HostLinks(edges)
    /\ HostRows(pass.graph.nodes) /\ HostLinks(pass.graph.edges)

LEMMA CurrentInit == Init => CurrentInv
<1> SUFFICES ASSUME Init PROVE CurrentInv
    OBVIOUS
<1>1. /\ clock = 0 /\ pass.at = -1 /\ pass.stage = "idle" /\ nodes = {} /\ edges = {}
      /\ latest = [graph |-> NoGraph, at |-> -1] /\ pass.graph = NoGraph
    BY DEF Init, Never
<1>2. latest.graph.edges = {} /\ pass.graph.nodes = {} /\ pass.graph.edges = {}
    BY <1>1 DEF NoGraph
<1>3. latest.at = -1 /\ latest = [graph |-> latest.graph, at |-> latest.at]
    BY <1>1
<1> QED BY <1>1, <1>2, <1>3 DEF CurrentInv, HostRows, HostLinks, Never

\* A link a pass has just seen is in the table it is written to, and what was
\* there is older.
LEMMA UpsertFresh ==
    ASSUME NEW now \in Nat, NEW T, NEW R, EdgeRows(T, now), EdgeRows(R, now),
           NEW before \in Int, before < now, \A e \in T : e.last <= before
    PROVE  /\ \A e \in Upsert(T, R) : e.last <= now /\ (e.last = now => e \in R)
           /\ \A e \in R : e.last = now => e \in Upsert(T, R)
<1>1. \A e \in T \cup R : Key(e) = EdgeId(e) /\ e.last \in 0..now
    BY DEF EdgeRows, Key, EdgeId
<1>2. Upsert(T, R) \subseteq T \cup R
    BY UpsertEdges
<1>3. \A e \in T : e.last < now
    BY <1>1
<1>4. ASSUME NEW e \in R, e.last = now PROVE e \in Upsert(T, R)
    <2>1. ~\E s \in T : s.last > e.last
        BY <1>1, <1>3, <1>4
    <2> QED BY <2>1 DEF Upsert
<1>5. ASSUME NEW e \in Upsert(T, R) PROVE e.last <= now /\ (e.last = now => e \in R)
    BY <1>1, <1>2, <1>3
<1> QED BY <1>4, <1>5

LEMMA CurrentNext == Inv /\ CurrentInv /\ [Next]_vars => CurrentInv'
<1> SUFFICES ASSUME Inv, CurrentInv, [Next]_vars PROVE CurrentInv'
    OBVIOUS
<1> USE DEF CurrentInv
<1>0. /\ clock \in Nat /\ Retention \in Nat /\ pass.at \in Never..clock /\ Never = -1
      /\ pass = [stage |-> pass.stage, todo |-> pass.todo, graph |-> pass.graph, at |-> pass.at,
                 number |-> pass.number]
      /\ HostRows(NoGraph.nodes) /\ HostLinks(NoGraph.edges)
    <2>1. clock \in Nat /\ Retention \in Nat
        BY TopologyAssumption DEF Inv, StoredInv
    <2>2. NoGraph.nodes = {} /\ NoGraph.edges = {}
        BY DEF NoGraph
    <2> QED BY <2>1, <2>2 DEF Inv, PassInv, Never, HostRows, HostLinks
<1>1. CASE Tick
    <2>1. clock' = clock + 1 /\ UNCHANGED <<pass, nodes, edges, latest>>
        BY <1>1 DEF Tick
    <2>2. latest.at \in Never..clock'
        BY <1>0, <2>1
    <2>3. ASSUME NEW e \in latest.graph.edges, e.last = latest.at, clock' <= e.last + Retention
          PROVE  e \in edges
        <3>1. PICK t : t = e.last
            OBVIOUS
        <3>2. t \in Never..clock /\ clock + 1 <= t + Retention
            BY <2>1, <2>3, <3>1
        <3>3. clock <= t + Retention
            BY <1>0, <3>2
        <3> QED BY <2>3, <3>1, <3>3
    <2> QED BY <2>1, <2>2, <2>3
<1>2. CASE Expire
    <2>1. nodes' \subseteq nodes /\ edges' \subseteq edges /\ edges \ Due(edges) \subseteq edges'
          /\ UNCHANGED <<clock, pass, latest>>
        BY <1>2 DEF Expire
    <2>2. ASSUME NEW e \in edges, clock <= e.last + Retention PROVE e \in edges'
        <3>1. e.last \in 0..clock
            BY DEF Inv, StoredInv, EdgeRows
        <3>2. ~(e.last + Retention < clock)
            BY <1>0, <2>2, <3>1
        <3> QED BY <2>1, <3>2 DEF Due
    <2> QED BY <2>1, <2>2 DEF HostRows, HostLinks
<1>3. CASE Start
    <2>1. /\ pass.stage = "idle" /\ pass.at # clock /\ UNCHANGED <<clock, nodes, edges, latest>>
          /\ pass' = [stage |-> "collect", todo |-> Enabled, graph |-> NoGraph, at |-> clock,
                      number |-> pass.number + 1]
        BY <1>3 DEF Start
    <2>2. pass'.at = clock /\ pass'.graph = NoGraph
        BY <2>1
    <2>3. latest.at < clock
        BY <1>0, <2>1
    <2> QED BY <1>0, <2>1, <2>2, <2>3
<1>4. CASE RunCollector
    <2>1. pass' = [pass EXCEPT !.todo = Tail(@)] /\ UNCHANGED <<clock, nodes, edges, latest>>
        BY <1>4 DEF RunCollector
    <2>2. pass'.at = pass.at /\ pass'.graph = pass.graph /\ pass'.stage = pass.stage
        BY <1>0, <2>1
    <2> QED BY <2>1, <2>2
<1>5. CASE Resolve
    <2>1. PICK rows \in FlowRows : \E g \in Graphs(Since(obs, Window), rows) :
              pass' = [pass EXCEPT !.stage = "nodes", !.graph = g]
        BY <1>5 DEF Resolve
    <2>2. PICK g \in Graphs(Since(obs, Window), rows) :
              pass' = [pass EXCEPT !.stage = "nodes", !.graph = g]
        BY <2>1
    <2>3. FlowTimed(rows, clock)
        BY <1>0, FlowRowsTimed DEF Inv, StoredInv
    <2>4. Timed(Since(obs, Window), clock)
        BY DEF Inv, StoredInv, Timed, Since
    <2>5. HostRows(g.nodes) /\ HostLinks(g.edges)
        BY <1>0, <2>3, <2>4, GraphKinds
    <2>6. pass.stage = "collect" /\ UNCHANGED <<clock, nodes, edges, latest>>
        BY <1>5 DEF Resolve
    <2>7. pass'.at = pass.at /\ pass'.graph = g
        BY <1>0, <2>2
    <2> QED BY <2>5, <2>6, <2>7
<1>6. CASE WriteNodes
    <2>1. /\ pass.stage = "nodes" /\ nodes' = Upsert(nodes, pass.graph.nodes)
          /\ pass' = [pass EXCEPT !.stage = "edges"] /\ UNCHANGED <<clock, edges, latest>>
        BY <1>6 DEF WriteNodes
    <2>2. pass'.at = pass.at /\ pass'.graph = pass.graph
        BY <1>0, <2>1
    <2>3. HostRows(nodes')
        BY <2>1 DEF Upsert, HostRows
    <2> QED BY <2>1, <2>2, <2>3
<1>7. CASE WriteEdges
    <2> DEFINE R == pass.graph.edges
    <2>1. /\ pass.stage = "edges" /\ edges' = Upsert(edges, R)
          /\ latest' = [graph |-> pass.graph, at |-> pass.at]
          /\ pass' = [pass EXCEPT !.stage = "idle", !.graph = NoGraph]
          /\ UNCHANGED <<clock, nodes>>
        BY <1>7 DEF WriteEdges
    <2>2. pass'.at = pass.at /\ pass'.graph = NoGraph /\ pass'.stage = "idle"
        BY <1>0, <2>1
    <2>3. latest'.at = clock /\ latest'.graph.edges = R /\ latest.at < clock
          /\ latest' = [graph |-> latest'.graph, at |-> latest'.at] /\ pass.at = clock
        BY <2>1 DEF Inv, PassInv
    <2>4. EdgeRows(edges, clock) /\ EdgeRows(R, clock)
        BY <2>1 DEF Inv, PassInv, StoredInv, GraphSound
    <2>5. latest.at \in Int /\ clock \in Never..clock
        BY <1>0
    <2>6. HostLinks(R)
        OBVIOUS
    <2> HIDE DEF R
    <2>7. /\ \A e \in edges' : e.last <= clock /\ (e.last = clock => e \in R)
          /\ \A e \in R : e.last = clock => e \in edges'
        BY <1>0, <2>1, <2>3, <2>4, <2>5, UpsertFresh
    <2>8. HostLinks(edges')
        BY <2>1, <2>6 DEF Upsert, HostLinks
    <2>9. HostRows(nodes') /\ HostRows(pass'.graph.nodes) /\ HostLinks(pass'.graph.edges)
        BY <1>0, <2>1, <2>2
    <2>10. latest'.at \in Never..clock' /\ latest'.at <= pass'.at
        BY <1>0, <2>1, <2>2, <2>3, <2>5
    <2>11. \A e \in edges' : e.last <= latest'.at /\ (e.last = latest'.at => e \in latest'.graph.edges)
        BY <2>3, <2>7
    <2>12. \A e \in latest'.graph.edges :
               e.last = latest'.at /\ clock' <= e.last + Retention => e \in edges'
        BY <2>3, <2>7
    <2> QED BY <2>2, <2>3, <2>8, <2>9, <2>10, <2>11, <2>12
<1>8. CASE Fail
    <2>1. pass' = [pass EXCEPT !.stage = "idle", !.todo = <<>>, !.graph = NoGraph]
          /\ UNCHANGED <<clock, nodes, edges, latest>>
        BY <1>8 DEF Fail
    <2>2. pass'.at = pass.at /\ pass'.graph = NoGraph /\ pass'.stage = "idle"
        BY <1>0, <2>1
    <2> QED BY <1>0, <2>1, <2>2
<1>9. CASE (\E f \in Flows : Log(f)) \/ UNCHANGED vars
    <2>1. UNCHANGED <<clock, pass, nodes, edges, latest>>
        BY <1>9 DEF Log, vars
    <2> QED BY <2>1
<1> QED BY <1>1, <1>2, <1>3, <1>4, <1>5, <1>6, <1>7, <1>8, <1>9 DEF Next

\* After a pass has seen a host attached, locate (topo_tools.py) names a
\* device it was attached to in that pass, whatever other passes left in the
\* tables; unless the host's MAC is said to be the address of another.
THEOREM LocateAlwaysCurrent == Spec => []LocateIsCurrent
<1>1. Inv /\ CurrentInv => LocateIsCurrent
    <2> SUFFICES ASSUME Inv, CurrentInv, NEW h \in {e.src : e \in latest.graph.edges},
                        NEW e \in latest.graph.edges,
                        e.src = h, e.type = "attaches_to", e.last = latest.at,
                        \A r \in nodes : h[2] \in r.idents /\ r.kind = "host" => r.id = h,
                        NEW d \in Locate(h[2])
                 PROVE  \E f \in latest.graph.edges :
                            f.src = h /\ f.type = "attaches_to" /\ f.last = latest.at /\ f.dst = d
        BY DEF LocateIsCurrent
    <2> DEFINE out(r) == {f \in LoadSubgraph.edges : f.src = r.id /\ f.type = "attaches_to"}
               newest(es) == {f \in es : \A g \in es : g.last <= f.last}
    <2>1. PICK r \in FindNode(h[2]) : d \in {f.dst : f \in newest(out(r))}
        BY DEF Locate
    <2>2. PICK f \in newest(out(r)) : d = f.dst
        BY <2>1
    <2>3. r \in nodes /\ h[2] \in r.idents
        BY DEF FindNode
    <2>4. f \in edges /\ f.src = r.id /\ f.type = "attaches_to" /\ f.last >= clock - Window
        BY DEF LoadSubgraph, RecentEdges
    <2>5. r.id = h
        <3>1. r.id[1] = "host"
            BY <2>4 DEF CurrentInv, HostLinks
        <3>2. r.kind = "host"
            BY <2>3, <3>1 DEF CurrentInv, HostRows
        <3> QED BY <2>3, <3>2
    <2>6. f.last <= e.last /\ (f.last = e.last => f \in latest.graph.edges)
        BY <2>4 DEF CurrentInv
    <2>7. f.last \in 0..clock /\ e.last \in Never..clock
        BY <2>4 DEF Inv, StoredInv, EdgeRows, CurrentInv
    <2>8. /\ clock \in Nat /\ Window \in Nat /\ Retention \in Nat /\ Window <= Retention
          /\ Never = -1
        BY TopologyAssumption DEF Inv, StoredInv, Never
    <2>9. e.last >= clock - Window /\ clock <= e.last + Retention
        <3>1. PICK s, t : s = f.last /\ t = e.last
            OBVIOUS
        <3>2. s \in 0..clock /\ t \in Never..clock /\ s <= t /\ s >= clock - Window
            BY <2>4, <2>6, <2>7, <3>1
        <3>3. t >= clock - Window /\ clock <= t + Retention
            BY <2>8, <3>2
        <3> QED BY <3>1, <3>3
    <2>10. e \in out(r)
        BY <2>5, <2>9 DEF CurrentInv, LoadSubgraph, RecentEdges
    <2>11. e.last <= f.last
        BY <2>10
    <2>12. f.last = e.last
        BY <2>6, <2>7, <2>8, <2>11
    <2> QED BY <2>2, <2>4, <2>5, <2>6, <2>12
<1>2. Spec => []CurrentInv
    <2>1. Init => CurrentInv
        BY CurrentInit
    <2>2. Inv /\ CurrentInv /\ [Next]_vars => CurrentInv'
        BY CurrentNext
    <2> QED BY <2>1, <2>2, InvAlways, PTL DEF Spec
<1> QED BY <1>1, <1>2, InvAlways, PTL
=============================================================================
