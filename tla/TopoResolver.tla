---------------------------- MODULE TopoResolver ----------------------------
(***************************************************************************)
(* resolve_graph (ssdf_topo/resolver): observations and flows are made     *)
(* into nodes and edges, and devices that share an identity become one.    *)
(*                                                                         *)
(* OBS_SQL has no ORDER BY, so of several values written to one key any    *)
(* may be the last: the result is a set of graphs.  A node id is a hash of *)
(* its kind and key: a triple <<kind, key, key>> here, and Rank is the     *)
(* order the hashes of devices happen to have.  The time an observed node or *)
(* link was first seen, the attributes of links and the identifiers of     *)
(* hosts other than their MAC are left out.                                *)
(***************************************************************************)
EXTENDS TopoCollectors, SequencesExt

CONSTANTS
    Macs,           \* names that have the form of a MAC
    PrefixedMacs,   \* names that begin with the form of a MAC
    Rank            \* device name |-> the rank of its node id

ASSUME PrefixedAssumption == Macs \subseteq PrefixedMacs

DeviceId(d) == <<"device", d, "">>
HostId(key) == <<"host", key, "">>
GuestId(o) == <<"host", o.dev, o.obj>>
InterfaceId(dev, port) == <<"interface", dev, port>>

----------------------------------------------------------------------------
(* What one observation says.                                              *)

Attached(o) == o.type \in {"mac_entry", "wlan_assoc"}
UplinkName(o) == IF o.obj # "" THEN o.obj ELSE o.dev
RemoteName(o) == IF o.name # "" THEN o.name ELSE "unknown"
InventoryName(o) == IF o.name # "" THEN o.name ELSE "dev:" \o o.mac

DevicesIn(o) ==
    CASE Attached(o) -> {UplinkName(o)}
      [] o.type \in {"vm_nic", "vm_host"} -> {o.dev}
      [] o.type = "lldp_neighbor" -> {o.dev, RemoteName(o)}
      [] o.type = "device_inventory" -> {InventoryName(o)}
      [] OTHER -> {}

(* Hosts and interfaces, as [id, name, idents, ip].                        *)
OthersIn(o) ==
    LET Node(id, name, idents, ip) == [id |-> id, name |-> name, idents |-> idents, ip |-> ip]
        Mac(m, ip) == Node(HostId(m), m, {m}, ip)
    IN  CASE o.type = "arp_entry" -> {Mac(o.obj, o.subj)}
          [] Attached(o) \/ o.type = "vm_nic" -> {Mac(o.subj, "")}
          [] o.type = "vm_host" -> {Node(GuestId(o), o.name, {o.obj}, "")}
          [] o.type = "lldp_neighbor" ->
                {Node(InterfaceId(o.dev, o.subj), o.subj, {}, ""),
                 Node(InterfaceId(RemoteName(o), o.obj), o.obj, {}, "")}
          [] OTHER -> {}

LinksIn(o) ==
    LET Link(src, dst, type) == {[src |-> src, dst |-> dst, type |-> type, last |-> o.at]}
    IN  CASE o.type = "arp_entry" -> Link(HostId(o.obj), HostId(o.subj), "has_address")
          [] Attached(o) -> Link(HostId(o.subj), DeviceId(UplinkName(o)), "attaches_to")
          [] o.type = "vm_nic" -> Link(HostId(o.subj), DeviceId(o.dev), "attaches_to")
          [] o.type = "vm_host" -> Link(DeviceId(o.dev), GuestId(o), "hosts")
          [] o.type = "lldp_neighbor" ->
                Link(InterfaceId(o.dev, o.subj), InterfaceId(RemoteName(o), o.obj), "physical_link")
          [] OTHER -> {}

Latest(times) == CHOOSE t \in times : \A u \in times : u <= t

(* One edge per id: the latest time any of the links was seen.             *)
OnePerId(links) ==
    {e \in links : \A f \in links :
        <<f.src, f.dst, f.type>> = <<e.src, e.dst, e.type>> => f.last <= e.last}

----------------------------------------------------------------------------
(* The devices, by name, and what identifies them: [mac, ip, role], ""     *)
(* when nothing does.                                                      *)

Names(obs) == UNION {DevicesIn(o) : o \in obs}

(* The values the last writer may have left.  A chassis id has to begin    *)
(* like a MAC, an uplink's name to be one; a client view gives its uplink  *)
(* a MAC only while it has none.                                           *)
MacsOf(obs, d) ==
    LET written == {o.mac : o \in {o \in obs :
                        \/ o.type = "lldp_neighbor" /\ RemoteName(o) = d /\ o.mac \in PrefixedMacs
                        \/ o.type = "device_inventory" /\ InventoryName(o) = d /\ o.mac # ""}}
        viewed == d \in Macs /\ \E o \in obs : Attached(o) /\ UplinkName(o) = d
    IN  IF written # {} THEN written ELSE IF viewed THEN {d} ELSE {""}

IpsOf(obs, d) ==
    LET written == {o.ip : o \in {o \in obs :
                        o.type = "device_inventory" /\ InventoryName(o) = d /\ o.ip # ""}}
    IN  IF written # {} THEN written ELSE {""}

RolesOf(obs, d) ==
    LET written == {o.role : o \in {o \in obs :
                        o.type = "device_inventory" /\ InventoryName(o) = d}}
                   \cup {"hypervisor" : o \in {o \in obs : o.type = "vm_host" /\ o.dev = d}}
    IN  IF written # {} THEN written ELSE {""}

(* Functions that take of each argument one of its values.  Only of those  *)
(* that have several is the choice enumerated.                             *)
Selections(D, Values(_)) ==
    LET several == {d \in D : Cardinality(Values(d)) > 1}
        choices == {f \in [several -> UNION {Values(d) : d \in several}] :
                        \A d \in several : f[d] \in Values(d)}
    IN  {[d \in D |-> IF d \in several THEN f[d] ELSE CHOOSE v \in Values(d) : TRUE] : f \in choices}

Told(obs) ==
    LET Values(d) == [mac : MacsOf(obs, d), ip : IpsOf(obs, d), role : RolesOf(obs, d)]
    IN  Selections(Names(obs), Values)

----------------------------------------------------------------------------
(* _merge_devices.                                                         *)

(* _device_identity_tokens.  A device's name is its key, so its name token *)
(* is never another's.                                                     *)
Tokens(d, told) ==
    LET Token(kind, value) == IF value = "" THEN <<>> ELSE <<<<kind, value>>>>
    IN  Token("mac", told[d].mac) \o Token("name", d) \o Token("mgmt_ip", told[d].ip)

(* UnionFind: parent links that lead to the smallest id.  Compressing a    *)
(* path changes no root.                                                   *)
Find(parent, x) ==
    LET root[y \in DOMAIN parent] == IF parent[y] = y THEN y ELSE root[parent[y]]
    IN  root[x]

(* A bug: links the names themselves and not their roots.                 *)
UnionOfNames(parent, a, b) ==
    IF Rank[a] < Rank[b] THEN [parent EXCEPT ![b] = a] ELSE [parent EXCEPT ![a] = b]

Union(parent, a, b) ==
    LET ra == Find(parent, a)
        rb == Find(parent, b)
        lo == IF Rank[ra] < Rank[rb] THEN ra ELSE rb
        hi == IF lo = ra THEN rb ELSE ra
    IN  IF ra = rb THEN parent ELSE [parent EXCEPT ![hi] = lo]

(* The first device to show a token owns it; the others join the owner.    *)
Claim(told, s, d) ==
    LET Take(u, token) ==
            IF \E c \in u.claims : c[1] = token
            THEN [u EXCEPT !.parent = Union(@, (CHOOSE c \in u.claims : c[1] = token)[2], d)]
            ELSE [u EXCEPT !.claims = @ \cup {<<token, d>>}]
    IN  FoldLeft(Take, s, Tokens(d, told))

(* device |-> the device it is fused into.                                 *)
Canonical(told) ==
    LET D == DOMAIN told
        Alone == [parent |-> [d \in D |-> d], claims |-> {}]
        Joined == FoldLeft(LAMBDA s, d : Claim(told, s, d), Alone, SetToSeq(D))
    IN  [d \in D |-> Find(Joined.parent, d)]

Fused(root, r) == {d \in DOMAIN root : root[d] = r}

(* The values an attribute of a fused device may have: its root's own, or  *)
(* else that of one of the others.                                         *)
Merged(own, others) == IF own # "" \/ others \ {""} = {} THEN {own} ELSE others \ {""}

(* A MAC gives way to a name.                                              *)
MergedNames(root, r) ==
    LET named == Fused(root, r) \ (Macs \cup {""})
    IN  IF r \in named \/ named = {} THEN Merged(r, Fused(root, r)) ELSE named

DeviceRows(obs, told, root) ==
    LET R == {root[d] : d \in DOMAIN root}
        Others(r, value(_)) == {value(d) : d \in Fused(root, r) \ {r}}
        Mac(d) == told[d].mac
        Ip(d) == told[d].ip
        Role(d) == told[d].role
        Row(r) == [name : MergedNames(root, r),
                   role : Merged(Role(r), Others(r, Role)),
                   mac : Merged(Mac(r), Others(r, Mac)),
                   ip : Merged(Ip(r), Others(r, Ip))]
        Seen(r) == Latest({o.at : o \in {o \in obs : DevicesIn(o) \cap Fused(root, r) # {}}})
    IN  {{[id |-> DeviceId(r), kind |-> "device", name |-> row[r].name, role |-> row[r].role,
           idents |-> {r, row[r].mac, row[r].ip} \ {""}, last |-> Seen(r)] : r \in R} :
         row \in Selections(R, Row)}

(* A host keeps the first name it is given, and the last address.          *)
OtherRows(obs) ==
    LET seen == UNION {OthersIn(o) : o \in obs}
        Of(id) == {n \in seen : n.id = id}
        Row(id) == [name : Merged("", {n.name : n \in Of(id)}), ip : Merged("", {n.ip : n \in Of(id)})]
        Seen(id) == Latest({o.at : o \in {o \in obs : \E n \in OthersIn(o) : n.id = id}})
    IN  {{[id |-> n.id, kind |-> n.id[1], name |-> row[n.id].name, role |-> "",
           idents |-> (n.idents \cup {row[n.id].ip}) \ {""}, last |-> Seen(n.id)] : n \in seen} :
         row \in Selections({n.id : n \in seen}, Row)}

(* A bug: the edges keep the ids of devices that were fused.              *)
MovedNot(links, root) == OnePerId(links)

(* Edges follow their devices, and one between two fused devices goes.     *)
Moved(links, root) ==
    LET To(id) == IF id[1] = "device" THEN DeviceId(root[id[2]]) ELSE id
        moved == {[e EXCEPT !.src = To(@), !.dst = To(@)] : e \in links}
    IN  OnePerId({e \in moved : e.src # e.dst})

----------------------------------------------------------------------------
(* flow_to_edges.  A row is [src, dst, rule, ingress, egress, first,       *)
(* last]; the id of its talked_to edge is the source of its governed_by    *)
(* edge, and each address is in the zone its side of the firewall has.     *)

TalkId(f) == <<"talked_to", f.src, f.dst>>

FlowEdges(row) ==
    LET Edge(src, dst, type) == [src |-> src, dst |-> dst, type |-> type, last |-> row.last]
        InZone(addr, zone) == {Edge(HostId(addr), <<"zone", z, "">>, "in_zone") : z \in {zone} \ {""}}
    IN  {Edge(HostId(row.src), HostId(row.dst), "talked_to")}
        \cup {Edge(TalkId(row), <<"rule", r, "">>, "governed_by") : r \in {row.rule} \ {""}}
        \cup InZone(row.src, row.ingress) \cup InZone(row.dst, row.egress)

(* An edge of several rows has the time of the row that comes last, which  *)
(* without an ORDER BY may be any of them.                                 *)
FlowLinks(rows) ==
    LET all == UNION {FlowEdges(row) : row \in rows}
        Id(e) == <<e.src, e.dst, e.type>>
        Lasts(id) == {e.last : e \in {e \in all : Id(e) = id}}
    IN  {{e \in all : e.last = last[Id(e)]} : last \in Selections({Id(e) : e \in all}, Lasts)}

(* Ends of flows that no observation knows become hosts without a name,    *)
(* seen when the first flow to have them was first seen.                   *)
FlowEnds(rows, known) ==
    LET Ends(row) == UNION {{e.src, e.dst} : e \in FlowEdges(row)}
        Firsts(id) == {row.first : row \in {row \in rows : id \in Ends(row)}}
        unknown == (UNION {Ends(row) : row \in rows}) \ known
    IN  {{[id |-> id, kind |-> "host", name |-> "", role |-> "", idents |-> {},
           last |-> first[id]] : id \in unknown} : first \in Selections(unknown, Firsts)}

----------------------------------------------------------------------------
(* resolve_graph: the graphs it may return, with what it identified the    *)
(* devices by.                                                             *)
Graphs(obs, flows) ==
    LET links == UNION {LinksIn(o) : o \in obs}
        Graph(told, root, nodes, ends, flowing) ==
            [nodes |-> nodes \cup ends, told |-> told, root |-> root,
             edges |-> Moved(links, root) \cup flowing]
        Ids(rows) == {n.id : n \in rows}
    IN  UNION {LET root == Canonical(told)
               IN  UNION {{Graph(told, root, devices \cup others, ends, flowing) :
                              ends \in FlowEnds(flows, Ids(devices \cup others)),
                              flowing \in FlowLinks(flows)} :
                          devices \in DeviceRows(obs, told, root), others \in OtherRows(obs)} :
               told \in Told(obs)}
=============================================================================
