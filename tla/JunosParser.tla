---------------------------- MODULE JunosParser ----------------------------
(***************************************************************************)
(* The parsers of the Junos policy collector at work: one of them reads    *)
(* the output of its command line by line, and the rules of the first      *)
(* command are then given the counts of the second.  The lines come in any *)
(* order and any number; what the accumulator says is compared with the    *)
(* lines read so far.                                                      *)
(***************************************************************************)
EXTENDS JunosConfig

CONSTANTS
    PolicyLines,        \* lines of "show configuration security policies"
    HitRows,            \* rows of "show security policies hit-count"
    AddressLines,       \* lines of the address books, global and of zones
    ApplicationLines,   \* lines of "show configuration applications"
    MaxLines            \* bound: lines of one output

ASSUME ParserAssumption ==
    /\ \A l \in PolicyLines : l.clause \in Clauses /\ l.inactive \in BOOLEAN
    /\ \A l \in PolicyLines : l.clause = "scheduler_name" => l.value # NoScheduler
    /\ \A l \in PolicyLines : l.key.scope \in {"zonepair", "global"}
    /\ \A l \in AddressLines : l.object \in {"address", "address-set", "attach"}
    /\ \A l \in ApplicationLines : l.object \in {"application", "application-set"}
    /\ \A r \in HitRows : r = [key |-> r.key, count |-> r.count] /\ r.count \in Nat
    /\ MaxLines \in Nat

VARIABLES
    command,    \* whose output is read
    rules,      \* parse_security_policies: key |-> rule
    hits,       \* parse_hit_counts: [counts, ambiguous]
    parsed,     \* parse_address_book: name |-> book
    apps,       \* parse_applications: [applications, application_sets]
    lines,      \* history: the lines read, of a configuration
    shown,       \* history: the rows of the hit-count table read
    named,      \* history: how many rows of each name were read
    count       \* lines and rows read

accumulators == <<rules, hits, parsed, apps>>
readings == <<lines, shown, named, count>>
parserVars == <<command, accumulators, readings>>

Names == {l.key.name : l \in PolicyLines} \cup {r.key.name : r \in HitRows}

ParserInit ==
    /\ command \in {"policies", "address-book", "applications"}
    /\ rules = NoPolicies /\ hits = NoHits /\ parsed = NoBooks /\ apps = NoApplications
    /\ lines = {} /\ shown = {} /\ named = [n \in Names |-> 0] /\ count = 0

(* One line more, of those read.                                           *)
Take(line) ==
    /\ count < MaxLines
    /\ count' = count + 1
    /\ lines' = lines \cup {line}
    /\ UNCHANGED <<command, shown, named>>

PolicyLine(line) ==
    /\ command = "policies"
    /\ Take(line)
    /\ rules' = ReadPolicyLine(rules, line)
    /\ UNCHANGED <<hits, parsed, apps>>

(* collect has the rules and asks for the counters.                        *)
AskHitCount ==
    /\ command = "policies"
    /\ command' = "hit-count"
    /\ UNCHANGED <<accumulators, readings>>

HitLine(row) ==
    /\ command = "hit-count"
    /\ count < MaxLines
    /\ count' = count + 1
    /\ shown' = shown \cup {row}
    /\ named' = [named EXCEPT ![row.key.name] = @ + 1]
    /\ hits' = ReadHitRow(hits, row)
    /\ UNCHANGED <<command, rules, parsed, apps, lines>>

AddressLine(line) ==
    /\ command = "address-book"
    /\ Take(line)
    /\ parsed' = ReadAddressLine(parsed, line)
    /\ UNCHANGED <<rules, hits, apps>>

ApplicationLine(line) ==
    /\ command = "applications"
    /\ Take(line)
    /\ apps' = ReadApplicationLine(apps, line)
    /\ UNCHANGED <<rules, hits, parsed>>

(* collect: the rules that are given a hit_count, by key, and which.       *)
Counted ==
    [k \in {j \in DOMAIN rules : j.name \in DOMAIN hits.counts} |-> hits.counts[k.name]]

ParserNext ==
    \/ \E line \in PolicyLines : PolicyLine(line)
    \/ AskHitCount
    \/ \E row \in HitRows : HitLine(row)
    \/ \E line \in AddressLines : AddressLine(line)
    \/ \E line \in ApplicationLines : ApplicationLine(line)

ParserSpec == ParserInit /\ [][ParserNext]_parserVars

----------------------------------------------------------------------------
LinesOf(key) == {l \in lines : l.key = key}

(* The values the lines of a policy give to a clause, and those its rule   *)
(* has when the parser returns.                                            *)
ReadFor(key, clause) == {l.value : l \in {m \in LinesOf(key) : m.clause = clause}}

RuleOf(key) == Finished(rules[key])
ValuesOf(key, clause) ==
    {RuleOf(key).lists[clause][i] : i \in DOMAIN RuleOf(key).lists[clause]}

(* "A rule using one of these must never be treated as if the clause were  *)
(* absent" (junos.py:51), "this must never silently vanish and read as a   *)
(* wildcard match" (junos.py:153).  In whatever order and however often    *)
(* the lines of a policy came, its rule is match_unknown exactly if one of *)
(* them was of a kind that cannot be matched; it excludes what they say;   *)
(* and every list has the values they gave, no more and no fewer, with the *)
(* zones of a zone pair for a start.  Only the zones of a global policy    *)
(* are "any" by default, and only when no line named one.                  *)
NoSilentWildcard ==
    \A k \in DOMAIN rules :
        /\ RuleOf(k).match_unknown <=>
              \E l \in LinesOf(k) : l.clause \in Unparsed \cup Unresolved \cup {"scheduler_name"}
        /\ RuleOf(k).flags = {c \in Flags : \E l \in LinesOf(k) : l.clause = c}
        /\ \A c \in Lists \ Zones : ValuesOf(k, c) = ReadFor(k, c)
        /\ \A c \in Zones :
              /\ k.scope = "zonepair" => ValuesOf(k, c) = ReadFor(k, c) \cup {k[c]}
              /\ k.scope = "global" =>
                    ValuesOf(k, c) = IF ReadFor(k, c) = {} THEN {"any"} ELSE ReadFor(k, c)

(* "An ambiguous name is dropped entirely ... never a guessed count"       *)
(* (junos.py:188): a rule is given a count exactly if one row bore its     *)
(* name, however many repeat it and in between which others; and one whose *)
(* own row was read is not given the count of another policy.  A rule that *)
(* has no row of its own has the count of the one row of its name.         *)
CountsUnambiguous ==
    command = "hit-count" =>
        /\ DOMAIN Counted = {k \in DOMAIN rules : named[k.name] = 1}
        /\ \A k \in DOMAIN Counted : \E r \in shown : r.key.name = k.name /\ r.count = Counted[k]
        /\ \A r \in shown : r.key \in DOMAIN Counted => Counted[r.key] = r.count

(* "Once flagged, stays flagged regardless of what other lines say about   *)
(* it" (junos.py:308): an application is known only if every line about it *)
(* was understood, in whatever order they came.                            *)
UnknownApplicationsStay ==
    command = "applications" =>
        \A l \in lines : l.object = "application" =>
            (apps.applications[l.name].kind = "unknown" <=>
                 \E other \in lines : /\ other.object = "application" /\ other.name = l.name
                                      /\ other.leaf \notin AllowedFields)
=============================================================================
