-------------------------- MODULE MCPolicyHistory --------------------------
(* Instances of PolicyHistory for TLC: two Junos firewalls, of which the   *)
(* first has two policies of one name in one of its configurations, and a  *)
(* PAN-OS firewall with and without a rule.                                *)
EXTENDS PolicyHistory, TLC

CONSTANTS j1, j2, pa

DefaultCollectors == <<"panos", "junos">>
TwoJunos == <<j1, j2>>

Web(from, to) == [scope |-> "zonepair", from_zone |-> from, to_zone |-> to, name |-> "web"]
Line(key, clause, value) == [key |-> key, inactive |-> FALSE, clause |-> clause, value |-> value]
Policy(key, action) == <<Line(key, "application", "https"), Line(key, "then", action)>>

Entry == [name |-> "web", action |-> "allow", from |-> <<"in">>, to |-> <<"out">>,
          disabled |-> FALSE, schedule |-> "", restricts |-> {}]

Address(leaf) == <<[book |-> "global", object |-> "address", name |-> "lan", leaf |-> leaf,
                    value |-> "v"]>>
Application == <<[object |-> "application", name |-> "https", leaf |-> "protocol", value |-> "tcp"]>>

JunosObjects(leaf) == [s \in Range(JunosSections) |->
    CASE s = "address-book" -> Address(leaf) [] s = "applications" -> Application [] OTHER -> <<>>]
PanosObjects(form) == [s \in Range(PanosSections) |->
    IF s = "addresses" THEN <<[name |-> "lan", form |-> form]>> ELSE <<>>]

SomePolicies ==
    (j1 :> {Policy(Web("in", "out"), "permit"), Policy(Web("in", "out"), "deny"),
            Policy(Web("in", "out"), "permit") \o Policy(Web("out", "in"), "deny")})
    @@ (j2 :> {Policy(Web("in", "out"), "permit")})
    @@ (pa :> {<<>>, <<Entry>>})

SomeObjects ==
    (j1 :> {JunosObjects("ip"), JunosObjects("dns")}) @@ (j2 :> {JunosObjects("ip")})
    @@ (pa :> {PanosObjects("ip-netmask")})
=============================================================================
