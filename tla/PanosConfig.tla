---------------------------- MODULE PanosConfig ----------------------------
(***************************************************************************)
(* What the PAN-OS policy collector makes of a firewall's answers          *)
(* (collectors/panos.py).  An answer is [status, entries]: the envelope    *)
(* may say that it was cut short, and its XML may not parse.  An entry of  *)
(* a container stands for what the parsers look for in it.                 *)
(***************************************************************************)
EXTENDS Integers, Sequences, FiniteSets

PaloAlto == "paloalto"

Answers(entries) == [status : {"ok", "truncated", "unparseable"}, entries : {entries}]

----------------------------------------------------------------------------
(* parse_security_rules.  An entry is [name, action, from, to, disabled,   *)
(* schedule, restricts]; restricts says of which of the source user, the   *)
(* URL category and the HIP profiles it has a list that is not "any".      *)

(* The clauses of a rule dict beside the version's and match_unknown.      *)
PanosClauses == {"negate_source", "negate_destination", "schedule", "source_user", "url_category",
                 "source_hip", "destination_hip"}

SecurityRule(device, entry, position) ==
    [provider |-> PaloAlto, device_name |-> device, rule_name |-> entry.name,
     version |-> [action |-> entry.action, from_zone |-> entry.from, to_zone |-> entry.to,
                  enabled |-> ~entry.disabled, position |-> position],
     clauses |-> PanosClauses,
     match_unknown |-> entry.schedule # "" \/ entry.restricts # {}]

(* Entries without a name are left out, but have a position.               *)
ParseSecurityRules(device, answer) ==
    LET rules == [i \in DOMAIN answer.entries |-> SecurityRule(device, answer.entries[i], i - 1)]
    IN  IF answer.status = "unparseable" THEN <<>>
        ELSE SelectSeq(rules, LAMBDA r : r.rule_name # "")

----------------------------------------------------------------------------
(* The five containers of an object book.  An entry is [name, form].       *)

PanosSections == <<"addresses", "address_groups", "services", "service_groups", "schedules">>

(* The forms each parser knows: whatever else stands in an entry becomes   *)
(* an object of unknown kind, except in the last two.                      *)
KnownForms(section) ==
    CASE section = "addresses" -> {"ip-netmask", "ip-range", "ip-wildcard"}
      [] section = "address_groups" -> {"static"}
      [] section = "services" -> {"tcp", "udp"}
      [] section = "service_groups" -> {"members"}
      [] section = "schedules" -> {"schedule"}

ParseObjects(section, entries) ==
    LET names == {entries[i].name : i \in DOMAIN entries} \ {""}
        Latest(n) == CHOOSE i \in DOMAIN entries :
                         /\ entries[i].name = n
                         /\ \A j \in DOMAIN entries : entries[j].name = n => j <= i
        Kind(form) == IF form \in KnownForms(section) THEN form ELSE "unknown"
    IN  [n \in names |-> Kind(entries[Latest(n)].form)]
=============================================================================
