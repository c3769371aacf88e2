--------------------------- MODULE MCJunosParser ---------------------------
(* An instance of JunosParser for TLC: two policies of one name in two     *)
(* zone pairs and globally, and one of a name of its own; names and        *)
(* applications that repeat.                                               *)
EXTENDS JunosParser

ZonePair(from, to) == [scope |-> "zonepair", from_zone |-> from, to_zone |-> to, name |-> "web"]
Global == [scope |-> "global", from_zone |-> "", to_zone |-> "", name |-> "web"]
Dns == [ZonePair("in", "out") EXCEPT !.name = "dns"]
Default == [ZonePair("all", "all") EXCEPT !.name = "default-policy"]

On(key, clause, value) == [key |-> key, inactive |-> FALSE, clause |-> clause, value |-> value]

SomePolicyLines ==
    {On(k, "source_addresses", "lan") : k \in {ZonePair("in", "out"), Global, Dns}}
    \cup {On(ZonePair("in", "out"), c, "v") : c \in {"source_identity", "scheduler_name",
              "unparsed_match", "unparsed_keyword", "source_address_excluded"}}
    \cup {On(ZonePair("in", "out"), "then", v) : v \in {"permit", "log"}}
    \cup {On(Global, "from_zone", "in"),
          [On(ZonePair("out", "in"), "description", "") EXCEPT !.inactive = TRUE],
          [On(ZonePair("out", "in"), "application", "https") EXCEPT !.inactive = FALSE]}

SomeHitRows ==
    [key : {ZonePair("in", "out"), ZonePair("out", "in"), Dns, Default}, count : {0, 7}]

SomeAddressLines ==
    [book : {"global", "zone:in"}, object : {"address"}, name : {"lan"}, leaf : AddressLeaves,
     value : {"v"}]
    \cup [book : {"global"}, object : {"address-set"}, name : {"all"}, leaf : {"member", "description"},
          value : {"lan"}]
    \cup [book : {"global"}, object : {"attach"}, name : {""}, leaf : {"zone"}, value : {"in"}]

SomeApplicationLines ==
    [object : {"application"}, name : {"ssh", "rpc"},
     leaf : {"protocol", "destination_port", "term", "uuid"}, value : {"v"}]
    \cup [object : {"application-set"}, name : {"mgmt"}, leaf : {"member"}, value : {"ssh"}]
=============================================================================
