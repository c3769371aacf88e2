---------------------------- MODULE JunosConfig ----------------------------
(***************************************************************************)
(* What the Junos policy collector makes of a firewall's answers           *)
(* (collectors/junos.py).  Each command's output is a sequence of lines;   *)
(* the parser keeps an accumulator and folds the lines into it, and the    *)
(* operators Read... are one turn of its loop.  A line stands for what the *)
(* regular expressions take from it: the object it speaks of, the keyword  *)
(* (its clause) and the value after it.  Blank lines and lines of other    *)
(* statements are skipped by every parser and are not lines here.          *)
(***************************************************************************)
EXTENDS Integers, Sequences, FiniteSets, TLC

Juniper == "juniper"

(* What a name that is not in a dict is set to.                            *)
Put(f, k, v) == [x \in DOMAIN f \cup {k} |-> IF x = k THEN v ELSE f[x]]
Drop(f, k) == [x \in DOMAIN f \ {k} |-> f[x]]

----------------------------------------------------------------------------
(* parse_security_policies.  A line is [key, inactive, clause, value], a   *)
(* key [scope, from, to, name]: "zonepair" policies have their zones in    *)
(* the key, "global" ones in match clauses.                                *)

Unresolved == {"source_identity", "dynamic_application", "url_category",
               "source_end_user_profile"}
Zones == {"from_zone", "to_zone"}
Lists == {"source_addresses", "dest_addresses", "application"} \cup Zones \cup Unresolved
Flags == {"source_address_excluded", "dest_address_excluded"}
Unparsed == {"unparsed_match", "unparsed_keyword"}
Silent == {"description"}
Clauses == Lists \cup Flags \cup Unparsed \cup Silent \cup {"scheduler_name", "then"}

ActionMap == [permit |-> "allow", deny |-> "deny", reject |-> "reject"]

NoPolicies == <<>>
NoScheduler == ""
NoAction == ""

NewRule(key, order) ==
    [key |-> key, position |-> order, enabled |-> TRUE, action |-> NoAction,
     lists |-> [c \in Lists |-> IF key.scope = "zonepair" /\ c \in Zones THEN <<key[c]>> ELSE <<>>],
     flags |-> {}, scheduler_name |-> NoScheduler, match_unknown |-> FALSE]

(* A bug: a clause that is not understood is dropped.                     *)
FailsOpen(line) == FALSE

(* The last two branches: any other match clause, any other keyword.       *)
FailsClosed(line) == line.clause \in Unparsed

(* A clause with values: they are kept in the order of the lines.          *)
Listed(lists, line) ==
    IF line.clause \in Lists THEN [lists EXCEPT ![line.clause] = Append(@, line.value)] ELSE lists

(* The branches on the tokens of a line.                                   *)
WithClause(rule, line) ==
    [rule EXCEPT
        !.enabled = @ /\ ~line.inactive,
        !.lists = Listed(@, line),
        !.flags = IF line.clause \in Flags THEN @ \cup {line.clause} ELSE @,
        !.scheduler_name = IF line.clause = "scheduler_name" THEN line.value ELSE @,
        !.action = IF line.clause = "then" /\ line.value \in DOMAIN ActionMap
                   THEN ActionMap[line.value] ELSE @,
        !.match_unknown = @ \/ FailsClosed(line)]

ReadPolicyLine(rules, line) ==
    LET known == line.key \in DOMAIN rules
        rule == IF known THEN rules[line.key] ELSE NewRule(line.key, Cardinality(DOMAIN rules))
    IN  Put(rules, line.key, WithClause(rule, line))

(* The loop after the last line: zones of global policies, and the clauses *)
(* no object book resolves.                                                *)
Finished(rule) ==
    [rule EXCEPT
        !.lists = [c \in Lists |-> IF c \in Zones /\ rule.key.scope = "global" /\ @[c] = <<>>
                                   THEN <<"any">> ELSE @[c]],
        !.match_unknown = \/ @
                          \/ \E c \in Unresolved : rule.lists[c] # <<>>
                          \/ rule.scheduler_name # NoScheduler]

----------------------------------------------------------------------------
(* parse_hit_counts.  A row is [key, count]: it has the zones and the name *)
(* of its policy, and the parser uses the name.                            *)

NoHits == [counts |-> <<>>, ambiguous |-> {}]

(* A bug: the last row of a name stays.                                   *)
ReadHitRowLast(hits, row) == [hits EXCEPT !.counts = Put(@, row.key.name, row.count)]

ReadHitRow(hits, row) ==
    IF row.key.name \in DOMAIN hits.counts \/ row.key.name \in hits.ambiguous
    THEN [counts |-> Drop(hits.counts, row.key.name),
          ambiguous |-> hits.ambiguous \cup {row.key.name}]
    ELSE [hits EXCEPT !.counts = Put(@, row.key.name, row.count)]

----------------------------------------------------------------------------
(* parse_address_book.  A line is [book, object, name, leaf, value]: an    *)
(* "address" and a leaf of it, a member of an "address-set", or a zone the *)
(* book is attached to.                                                    *)

AddressKinds == [ip |-> "address", range |-> "range", wildcard |-> "wildcard",
                 dns |-> "unknown", unparsed |-> "unknown"]
AddressLeaves == DOMAIN AddressKinds \cup {"description"}

NoBooks == <<>>
NoValue == ""
EmptyBook == [addresses |-> <<>>, address_sets |-> <<>>, attached_zones |-> <<>>]

(* The member lists of address sets and of application sets.               *)
WithMember(sets, line) ==
    Put(sets, line.name,
        LET members == IF line.name \in DOMAIN sets THEN sets[line.name] ELSE <<>>
        IN  IF line.leaf = "member" THEN Append(members, line.value) ELSE members)

AddressEntry(line) ==
    LET kind == AddressKinds[line.leaf]
    IN  [kind |-> kind, value |-> IF kind = "unknown" THEN NoValue ELSE line.value]

(* _apply_address_tokens.                                                  *)
ApplyAddressTokens(book, line) ==
    [book EXCEPT
        !.addresses = IF line.object = "address" /\ line.leaf \in DOMAIN AddressKinds
                      THEN Put(@, line.name, AddressEntry(line)) ELSE @,
        !.address_sets = IF line.object = "address-set" THEN WithMember(@, line) ELSE @,
        !.attached_zones = IF line.object = "attach" THEN Append(@, line.value) ELSE @]

ReadAddressLine(books, line) ==
    Put(books, line.book,
        ApplyAddressTokens(IF line.book \in DOMAIN books THEN books[line.book] ELSE EmptyBook, line))

----------------------------------------------------------------------------
(* parse_applications and parse_predefined_applications: the same lines    *)
(* under two prefixes.  A line is [object, name, leaf, value].             *)

AllowedFields == {"protocol", "destination_port", "source_port", "inactivity_timeout"}
UnknownApplication == [kind |-> "unknown", fields |-> <<>>]
NewApplication == [kind |-> "application", fields |-> <<>>]
NoApplications == [applications |-> <<>>, application_sets |-> <<>>]

(* A bug: a field that is understood makes the application known again.   *)
ApplyApplicationTokensForgiving(entry, line) ==
    IF line.leaf \notin AllowedFields THEN UnknownApplication
    ELSE [kind |-> "application", fields |-> Put(entry.fields, line.leaf, line.value)]

(* _apply_application_tokens on an "application": "term" and the fields    *)
(* outside the allowlist make it unknown, for good.                        *)
ApplyApplicationTokens(entry, line) ==
    IF entry.kind = "unknown" \/ line.leaf \notin AllowedFields THEN UnknownApplication
    ELSE [entry EXCEPT !.fields = Put(@, line.leaf, line.value)]

ReadApplicationLine(apps, line) ==
    IF line.object = "application-set"
    THEN [apps EXCEPT !.application_sets = WithMember(@, line)]
    ELSE [apps EXCEPT !.applications =
             Put(@, line.name,
                 ApplyApplicationTokens(IF line.name \in DOMAIN @ THEN @[line.name]
                                        ELSE NewApplication, line))]
=============================================================================
