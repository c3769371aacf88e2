----------------------------- MODULE MCTopology -----------------------------
(* Instances of Topology for TLC.  The switch sw1 is known to LLDP by that *)
(* name, to the UniFi inventory as core, and to its clients by its MAC m1; *)
(* it may be replaced by one of MAC m2 that has no name yet and the        *)
(* address of the old.                                                     *)
EXTENDS Topology, TLC

ThreeCollectors == <<"junos", "unifi", "proxmox">>
FourCollectors == <<"junos", "panos", "unifi", "proxmox">>

MacNames == {"m1", "m2", "h1"}

(* The id of the MAC named device is the smallest; or it is the greatest.  *)
MacFirst == [d \in {"m1", "m2", "dev:m2", "core", "sw1", "fw1", "hv",
                   "pa"} |->
    CASE d = "m1" -> 1 [] d = "m2" -> 3 [] d = "dev:m2" -> 4 [] d = "core" -> 5 [] d = "sw1" -> 2
      [] d = "fw1" -> 6 [] d = "hv" -> 7 [] d = "pa" -> 8]

Ok(rows) == [status |-> "ok", rows |-> rows]
Failed == [status |-> "failed", rows |-> {}]

Neighbor == [port |-> "ge0", rport |-> "p1", system |-> "sw1", chassis |-> "m1"]
JunosAnswers ==
    {"fw1" :> [lldp |-> Failed, switching |-> Failed, arp |-> Failed],
     "fw1" :> [lldp |-> Ok({Neighbor}), switching |-> Failed,
               arp |-> Ok({[ip |-> "a9", mac |-> "h1"]})]}

Inventory(name, mac) == "usw" :> Ok({[name |-> name, mac |-> mac, ip |-> "a1", type |-> "usw"]})
Client(mac) == Ok({[mac |-> "h1", ip |-> "", wired |-> TRUE, sw_mac |-> mac, ap_mac |-> ""]})
UnifiAnswers ==
    {[devices |-> Inventory("core", "m1"), clients |-> Client("m1")],
     [devices |-> "usw" :> Failed, clients |-> Client("m1")],
     [devices |-> Inventory("core", "m1"), clients |-> Failed],
     [devices |-> Inventory("", "m2"), clients |-> Client("m2")]}

ProxmoxAnswers ==
    {Ok({[vmid |-> "v1", node |-> "hv", name |-> "web", nics |-> {"h1"}, config |-> "json"]})}

PanosAnswers ==
    {[device |-> "pa", lldp |-> [status |-> s, rows |-> {Neighbor}],
      arp |-> Ok({[ip |-> "a9", mac |-> "h1"], [ip |-> "a7", mac |-> "incomplete"]})] :
     s \in {"ok", "truncated", "failed"}}

ThreeAnswers ==
    ("junos" :> JunosAnswers) @@ ("unifi" :> UnifiAnswers) @@ ("proxmox" :> ProxmoxAnswers)
FourAnswers == ThreeAnswers @@ ("panos" :> PanosAnswers)

SomeFlows == {[observer |-> "fw1.lab", src |-> "a9", dst |-> "a8", rule |-> "web",
               ingress |-> "in", egress |-> "out"]}
FirstLabel == "fw1.lab" :> "fw1"
=============================================================================
