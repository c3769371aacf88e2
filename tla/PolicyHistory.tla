--------------------------- MODULE PolicyHistory ---------------------------
(***************************************************************************)
(* The configured-policy collector (collect_resolve.py), a systemd oneshot *)
(* on an hourly timer.  A pass asks each enabled firewall for its policies *)
(* and its object book, resolves the rules, upserts entities and edges,    *)
(* and appends to two histories what differs from their latest rows.  Each *)
(* call to a firewall, each query and each INSERT is a step, and may fail; *)
(* the firewalls may be reconfigured between any two.                      *)
(*                                                                         *)
(* Passes do not overlap and each has a later time than the one before, so *)
(* the latest row of a history is the last of a sequence and an upsert     *)
(* overwrites.  The hit counters are read in module RuleEvidence.          *)
(***************************************************************************)
EXTENDS JunosConfig, PanosConfig, SequencesExt

CONSTANTS
    Enabled,            \* POLICY_COLLECTORS, a sequence
    JunosDevices,       \* JUNOS_DEVICES, a sequence
    PanosDevice,        \* PANOS_DEVICE
    Policies,           \* device |-> the outputs its policies may have
    Objects,            \* device |-> the outputs its containers may have
    MaxEdits,           \* bound: changes made to firewalls
    MaxFailures         \* bound: calls that fail and passes that are killed

Collectors == {"junos", "panos"}

(* A bug: only the first Junos device is asked.                           *)
DevicesOfFirst(collector) == IF collector = "junos" THEN <<JunosDevices[1]>> ELSE <<PanosDevice>>

DevicesOf(collector) == IF collector = "junos" THEN JunosDevices ELSE <<PanosDevice>>
Devices == Range(JunosDevices) \cup {PanosDevice}

JunosSections == <<"address-book", "zones", "applications", "junos-defaults">>
SectionsOf(d) == IF d = PanosDevice THEN PanosSections ELSE JunosSections

ASSUME PolicyAssumption ==
    /\ Enabled \in Seq(Collectors) /\ Enabled # <<>>
    /\ JunosDevices \in Seq(Range(JunosDevices)) /\ JunosDevices # <<>>
    /\ PanosDevice \notin Range(JunosDevices)
    /\ DOMAIN Policies = Devices /\ DOMAIN Objects = Devices
    /\ \A d \in Devices : \A o \in Objects[d] : DOMAIN o = Range(SectionsOf(d))
    /\ MaxEdits \in Nat /\ MaxFailures \in Nat

VARIABLES
    policies,   \* the firewalls: device |-> lines or entries of its policies
    objects,    \* and device |-> section |-> lines or entries
    pass,       \* the pass that runs
    entities,   \* policies in ssdf.entities: <<device, rule>> |-> [version, match_unknown]
    firewalls,  \* firewalls in ssdf.entities: device |-> rule_count
    edges,      \* governed_by in ssdf.entity_edges: <<device, rule>>
    versions,   \* ssdf.policy_versions: <<device, rule>> |-> its versions
    books,      \* ssdf.object_book_hash: device |-> its object books
    held,       \* history: device |-> section |-> contents it had during the pass
    behind,     \* history: rules whose entity a pass wrote without their version
    edits, failures

network == <<policies, objects>>
graph == <<entities, firewalls, edges>>
tables == <<graph, versions, books>>
counters == <<edits, failures>>
vars == <<network, pass, tables, held, behind, counters>>

Stages == {"idle", "rules", "objects", "resolve", "entities", "edges",
           "read_versions", "append_versions", "read_books", "append_books"}

(* rules: all_rules; texts: the sections of one device read so far; items: *)
(* all_object_books; rows and governs: the resolved rules; last: the       *)
(* latest rows as they were read.                                          *)
NoPass == [stage |-> "idle", collectors |-> <<>>, todo |-> <<>>, rules |-> <<>>, texts |-> <<>>,
           items |-> <<>>, rows |-> <<>>, last |-> <<>>]

Snapshot == [d \in Devices |-> [s \in Range(SectionsOf(d)) |-> {objects[d][s]}]]

Init ==
    /\ policies \in [Devices -> UNION {Policies[d] : d \in Devices}]
    /\ objects \in [Devices -> UNION {Objects[d] : d \in Devices}]
    /\ \A d \in Devices : policies[d] \in Policies[d] /\ objects[d] \in Objects[d]
    /\ pass = NoPass
    /\ entities = <<>> /\ firewalls = <<>> /\ edges = {} /\ versions = <<>> /\ books = <<>>
    /\ held = Snapshot
    /\ behind = {}
    /\ edits = 0 /\ failures = 0

(* Someone commits a change on a firewall.                                 *)
EditPolicies(d) ==
    /\ edits < MaxEdits /\ edits' = edits + 1
    /\ \E new \in Policies[d] \ {policies[d]} : policies' = [policies EXCEPT ![d] = new]
    /\ UNCHANGED <<objects, pass, tables, held, behind, failures>>

EditObjects(d) ==
    /\ edits < MaxEdits /\ edits' = edits + 1
    /\ \E new \in Objects[d] \ {objects[d]} :
         /\ objects' = [objects EXCEPT ![d] = new]
         /\ held' = [held EXCEPT ![d] = [s \in DOMAIN @ |-> @[s] \cup {new[s]}]]
    /\ UNCHANGED <<policies, pass, tables, behind, failures>>

----------------------------------------------------------------------------
(* Collecting.                                                             *)

Begin(p, collectors) ==
    IF collectors = <<>>
    THEN [p EXCEPT !.stage = "resolve", !.collectors = <<>>, !.todo = <<>>]
    ELSE [p EXCEPT !.stage = "rules", !.collectors = collectors,
                   !.todo = DevicesOf(Head(collectors))]

(* The rules of all devices of a collector, then their object books.       *)
NextDevice(p) ==
    IF Len(p.todo) > 1 THEN [p EXCEPT !.todo = Tail(@), !.texts = <<>>]
    ELSE IF p.stage = "rules"
         THEN [p EXCEPT !.stage = "objects", !.todo = DevicesOf(Head(p.collectors))]
         ELSE Begin([p EXCEPT !.texts = <<>>], Tail(p.collectors))

Start ==
    /\ pass.stage = "idle"
    /\ pass' = Begin(NoPass, Enabled)
    /\ held' = Snapshot
    /\ UNCHANGED <<network, tables, behind, counters>>

(* The rule dict of a Junos policy.                                        *)
JunosClauses == Flags \cup Unresolved \cup {"scheduler_name"}

JunosRule(device, rule) ==
    [provider |-> Juniper, device_name |-> device, rule_name |-> rule.key.name,
     version |-> [action |-> rule.action, from_zone |-> rule.lists["from_zone"],
                  to_zone |-> rule.lists["to_zone"], enabled |-> rule.enabled,
                  position |-> rule.position],
     clauses |-> JunosClauses, match_unknown |-> rule.match_unknown]

JunosRules(device, text) ==
    LET rules == FoldLeft(ReadPolicyLine, NoPolicies, text)
        At(i) == CHOOSE k \in DOMAIN rules : rules[k].position = i - 1
    IN  [i \in 1..Cardinality(DOMAIN rules) |-> JunosRule(device, Finished(rules[At(i)]))]

(* The rules of every output a device may give, parsed once.               *)
RulesIn == [d \in Range(JunosDevices) |-> [text \in Policies[d] |-> JunosRules(d, text)]]

ReadPolicies ==
    /\ pass.stage = "rules" /\ Head(pass.collectors) = "junos"
    /\ LET d == Head(pass.todo)
       IN  pass' = NextDevice([pass EXCEPT !.rules = @ \o RulesIn[d][policies[d]]])
    /\ UNCHANGED <<network, tables, held, behind, counters>>

(* The rulebase in one answer.  Unparseable, it is one without rules.      *)
ReadRulebase ==
    /\ pass.stage = "rules" /\ Head(pass.collectors) = "panos"
    /\ \E answer \in Answers(policies[PanosDevice]) :
         /\ answer.status # "truncated"
         /\ answer.status # "ok" => failures < MaxFailures
         /\ failures' = IF answer.status = "ok" THEN failures ELSE failures + 1
         /\ pass' = NextDevice([pass EXCEPT !.rules = @ \o ParseSecurityRules(PanosDevice, answer)])
    /\ UNCHANGED <<network, tables, held, behind, edits>>

Faulty == failures < MaxFailures /\ failures' = failures + 1

(* A Junos device does not answer or its policies do not parse: the others *)
(* are asked.                                                              *)
SkipDevice ==
    /\ Faulty
    /\ pass.stage = "rules" /\ Head(pass.collectors) = "junos"
    /\ pass' = NextDevice(pass)
    /\ UNCHANGED <<network, tables, held, behind, edits>>

(* The collector raises: its client cannot be made, or the rulebase is cut *)
(* short.  Its object books are not collected either.                      *)
SkipCollector ==
    /\ Faulty
    /\ pass.stage = "rules" /\ pass.todo = DevicesOf(Head(pass.collectors))
    /\ pass' = Begin(pass, Tail(pass.collectors))
    /\ UNCHANGED <<network, tables, held, behind, edits>>

(* The object book of one device, from the sections read of it.            *)
JunosBook(texts) ==
    LET custom == FoldLeft(ReadApplicationLine, NoApplications, texts[3])
        predefined == FoldLeft(ReadApplicationLine, NoApplications, texts[4])
    IN  [address_books |-> FoldLeft(ReadAddressLine, NoBooks, texts[1] \o texts[2]),
         applications |-> custom.applications, application_sets |-> custom.application_sets,
         predefined_applications |-> predefined.applications,
         predefined_application_sets |-> predefined.application_sets]

PanosBook(texts) ==
    [s \in Range(PanosSections) |->
        LET i == CHOOSE i \in DOMAIN PanosSections : PanosSections[i] = s
        IN  ParseObjects(s, texts[i])]

(* The sections a pass may read of a device: not all of one moment.        *)
SectionTexts(d) ==
    {t \in [DOMAIN SectionsOf(d) -> UNION {Range(o) : o \in Objects[d]}] :
        \A n \in DOMAIN t : \E o \in Objects[d] : t[n] = o[SectionsOf(d)[n]]}

BookOf == [d \in Devices |-> [t \in SectionTexts(d) |->
              IF d = PanosDevice THEN PanosBook(t) ELSE JunosBook(t)]]

ReadSection ==
    /\ pass.stage = "objects"
    /\ LET d == Head(pass.todo)
           texts == Append(pass.texts, objects[d][SectionsOf(d)[Len(pass.texts) + 1]])
       IN  pass' = IF Len(texts) < Len(SectionsOf(d)) THEN [pass EXCEPT !.texts = texts]
                   ELSE NextDevice([pass EXCEPT !.items = Append(@, [device |-> d, texts |-> texts])])
    /\ UNCHANGED <<network, tables, held, behind, counters>>

(* A bug: a section that fails to be read counts as an empty one.         *)
SkipSection ==
    /\ Faulty
    /\ pass.stage = "objects"
    /\ LET d == Head(pass.todo)
           texts == Append(pass.texts, <<>>)
       IN  pass' = IF Len(texts) < Len(SectionsOf(d)) THEN [pass EXCEPT !.texts = texts]
                   ELSE NextDevice([pass EXCEPT !.items = Append(@, [device |-> d, texts |-> texts])])
    /\ UNCHANGED <<network, tables, held, behind, edits>>

(* A section is not answered, truncated or does not parse: no book of this *)
(* device in this pass.                                                    *)
SkipBook ==
    /\ Faulty
    /\ pass.stage = "objects"
    /\ pass' = NextDevice(pass)
    /\ UNCHANGED <<network, tables, held, behind, edits>>

----------------------------------------------------------------------------
(* Resolving and writing.                                                  *)

KeyOf(rule) == <<rule.device_name, rule.rule_name>>

(* resolve_policies: rules of one device and name end in one entity, the   *)
(* last; the firewall counts them all.                                     *)
Resolved(rules) ==
    LET Latest(k) == CHOOSE i \in DOMAIN rules :
                        /\ KeyOf(rules[i]) = k
                        /\ \A j \in DOMAIN rules : KeyOf(rules[j]) = k => j <= i
    IN  [k \in {KeyOf(rules[i]) : i \in DOMAIN rules} |->
            [version |-> rules[Latest(k)].version, match_unknown |-> rules[Latest(k)].match_unknown]]

RuleCounts(rules) ==
    [d \in {rules[i].device_name : i \in DOMAIN rules} |->
        Cardinality({i \in DOMAIN rules : rules[i].device_name = d})]

(* What it reads of every rule that has a match_unknown, as all have.      *)
Resolvable(rule) == JunosClauses \subseteq rule.clauses

(* A bug: the edges are written before the entities.                      *)
ResolveEdgesFirst ==
    /\ pass.stage = "resolve"
    /\ \A i \in DOMAIN pass.rules : Resolvable(pass.rules[i])
    /\ pass' = [pass EXCEPT !.stage = "edges", !.rows = Resolved(pass.rules)]
    /\ UNCHANGED <<network, tables, held, behind, counters>>

Resolve ==
    /\ pass.stage = "resolve"
    /\ \A i \in DOMAIN pass.rules : Resolvable(pass.rules[i])
    /\ pass' = [pass EXCEPT !.stage = "entities", !.rows = Resolved(pass.rules)]
    /\ UNCHANGED <<network, tables, held, behind, counters>>

(* A KeyError: the pass ends.                                              *)
ResolveRaises ==
    /\ pass.stage = "resolve"
    /\ \E i \in DOMAIN pass.rules : ~Resolvable(pass.rules[i])
    /\ pass' = NoPass
    /\ UNCHANGED <<network, tables, held, behind, counters>>

Upserted(table, rows) ==
    [k \in DOMAIN table \cup DOMAIN rows |-> IF k \in DOMAIN rows THEN rows[k] ELSE table[k]]

EntitiesCommit ==
    /\ entities' = Upserted(entities, pass.rows)
    /\ firewalls' = Upserted(firewalls, RuleCounts(pass.rules))
    /\ behind' = behind \cup DOMAIN pass.rows

ReplaceEntities ==
    /\ pass.stage = "entities"
    /\ EntitiesCommit
    /\ pass' = [pass EXCEPT !.stage = "edges"]
    /\ UNCHANGED <<network, edges, versions, books, held, counters>>

ReplaceEdges ==
    /\ pass.stage = "edges"
    /\ edges' = edges \cup DOMAIN pass.rows
    /\ pass' = [pass EXCEPT !.stage = "read_versions", !.rules = <<>>]
    /\ UNCHANGED <<network, entities, firewalls, versions, books, held, behind, counters>>

(* One of the two raises, having committed or not, and the pass ends.      *)
ReplaceRaises ==
    /\ Faulty
    /\ \/ /\ pass.stage = "entities"
          /\ EntitiesCommit \/ UNCHANGED <<entities, firewalls, behind>>
          /\ UNCHANGED edges
       \/ /\ pass.stage = "edges"
          /\ edges' = edges \cup DOMAIN pass.rows \/ UNCHANGED edges
          /\ UNCHANGED <<entities, firewalls, behind>>
    /\ pass' = NoPass
    /\ UNCHANGED <<network, versions, books, held, edits>>

----------------------------------------------------------------------------
(* The histories.                                                          *)

(* A bug: the first row of a key is taken for the latest.                 *)
FirstRows(history, keys) == [k \in keys \cap DOMAIN history |-> history[k][1]]

(* _fetch_latest_hashes, _fetch_latest_object_book_hashes: argMax by time. *)
LatestRows(history, keys) == [k \in keys \cap DOMAIN history |-> Last(history[k])]

(* A bug: only rules never seen before get a version.                     *)
ChangedIfNew(rows, last) == DOMAIN rows \ DOMAIN last

(* diff_new_versions, diff_new_object_books: the keys of the rows to add.  *)
Changed(rows, last) == {k \in DOMAIN rows : k \notin DOMAIN last \/ last[k] # rows[k]}

Appended(history, rows, last) ==
    [k \in DOMAIN history \cup Changed(rows, last) |->
        IF k \notin Changed(rows, last) THEN history[k]
        ELSE IF k \in DOMAIN history THEN Append(history[k], rows[k]) ELSE <<rows[k]>>]

PassVersions == [k \in DOMAIN pass.rows |-> pass.rows[k].version]
PassBooks ==
    [d \in {pass.items[i].device : i \in DOMAIN pass.items} |->
        BookOf[d][pass.items[CHOOSE i \in DOMAIN pass.items : pass.items[i].device = d].texts]]

ReadVersions ==
    /\ pass.stage = "read_versions"
    /\ pass' = [pass EXCEPT !.stage = "append_versions",
                            !.last = LatestRows(versions, DOMAIN pass.rows)]
    /\ UNCHANGED <<network, tables, held, behind, counters>>

VersionsCommit ==
    /\ versions' = Appended(versions, PassVersions, pass.last)
    /\ behind' = behind \ DOMAIN pass.rows

VersionsDone == pass' = [pass EXCEPT !.stage = "read_books", !.rows = <<>>, !.last = <<>>]

AppendVersions ==
    /\ pass.stage = "append_versions"
    /\ VersionsCommit
    /\ VersionsDone
    /\ UNCHANGED <<network, graph, books, held, counters>>

(* The query or the INSERT raises, and the pass goes on.                   *)
VersionsFail ==
    /\ Faulty
    /\ pass.stage \in {"read_versions", "append_versions"}
    /\ \/ pass.stage = "append_versions" /\ VersionsCommit
       \/ UNCHANGED <<versions, behind>>
    /\ VersionsDone
    /\ UNCHANGED <<network, graph, books, held, edits>>

ReadBooks ==
    /\ pass.stage = "read_books"
    /\ pass' = [pass EXCEPT !.stage = "append_books", !.last = LatestRows(books, DOMAIN PassBooks)]
    /\ UNCHANGED <<network, tables, held, behind, counters>>

AppendBooks ==
    /\ pass.stage = "append_books"
    /\ books' = Appended(books, PassBooks, pass.last)
    /\ pass' = NoPass
    /\ UNCHANGED <<network, graph, versions, held, behind, counters>>

BooksFail ==
    /\ Faulty
    /\ pass.stage \in {"read_books", "append_books"}
    /\ \/ pass.stage = "append_books" /\ books' = Appended(books, PassBooks, pass.last)
       \/ UNCHANGED books
    /\ pass' = NoPass
    /\ UNCHANGED <<network, graph, versions, held, behind, edits>>

(* systemd ends a pass that takes longer than TimeoutStartSec.             *)
Kill ==
    /\ Faulty
    /\ pass.stage # "idle"
    /\ pass' = NoPass
    /\ UNCHANGED <<network, tables, held, behind, edits>>

----------------------------------------------------------------------------
PassStep ==
    \/ ReadPolicies \/ ReadRulebase \/ SkipDevice \/ SkipCollector \/ ReadSection \/ SkipBook
    \/ Resolve \/ ResolveRaises \/ ReplaceEntities \/ ReplaceEdges \/ ReplaceRaises
    \/ ReadVersions \/ AppendVersions \/ VersionsFail \/ ReadBooks \/ AppendBooks \/ BooksFail

Next ==
    \/ \E d \in Devices : EditPolicies(d) \/ EditObjects(d)
    \/ Start \/ PassStep \/ Kill

Spec == Init /\ [][Next]_vars

(* The timer starts a pass again, and calls end.                           *)
FairSpec == Spec /\ WF_vars(Start) /\ WF_vars(PassStep)

----------------------------------------------------------------------------
(* Types of the tables, and that every edge has its entity's key.          *)
TypeOK ==
    /\ pass.stage \in Stages
    /\ edges \subseteq DOMAIN entities
    /\ {k[1] : k \in DOMAIN entities} = DOMAIN firewalls
    /\ DOMAIN versions \subseteq DOMAIN entities
    /\ behind \subseteq DOMAIN entities
    /\ DOMAIN books \subseteq Devices
    /\ edits \in 0..MaxEdits /\ failures \in 0..MaxFailures

(* "An unchanged rule re-collected on the next pass is a no-op, so this    *)
(* table grows with rule CHANGES" (020_policy_versions.sql:13), and so do  *)
(* the object books (021_object_book_hash.sql:5): neighbouring rows of a   *)
(* history differ, whatever failed or committed unseen in between.         *)
HistoriesHoldChanges ==
    /\ \A k \in DOMAIN versions : \A i \in 1..(Len(versions[k]) - 1) :
         versions[k][i] # versions[k][i + 1]
    /\ \A d \in DOMAIN books : \A i \in 1..(Len(books[d]) - 1) : books[d][i] # books[d][i + 1]

(* "The table that rule_history reads" (020_policy_versions.sql:6): the    *)
(* latest version of a rule is what ssdf.entities says of it, except where *)
(* no pass has recorded the version since one wrote the entity.            *)
HistoryAgreesWithEntities ==
    \A k \in DOMAIN entities \ behind :
        k \in DOMAIN versions /\ Last(versions[k]) = entities[k].version

(* "Aborts the whole device's object book for this pass rather than        *)
(* emitting a partial book" (panos.py:365): every section of a collected   *)
(* book was read on the device during this pass, none is made up.          *)
BooksWhole ==
    \A i \in DOMAIN pass.items :
        LET item == pass.items[i]
            sections == SectionsOf(item.device)
        IN  /\ DOMAIN item.texts = DOMAIN sections
            /\ \A n \in DOMAIN sections : item.texts[n] \in held[item.device][sections[n]]

(* What the firewalls say now.                                             *)
Configured(d) == Resolved(RulesIn[d][policies[d]])

CaughtUp ==
    \A d \in Range(JunosDevices) :
        /\ \A k \in DOMAIN Configured(d) :
             k \in DOMAIN versions /\ Last(versions[k]) = Configured(d)[k].version
        /\ d \in DOMAIN books
        /\ Last(books[d]) = BookOf[d][[n \in DOMAIN JunosSections |-> objects[d][JunosSections[n]]]]

(* A failed append is made good by a later pass: once nothing fails and    *)
(* nobody edits, the histories of the Junos firewalls end with what the    *)
(* firewalls say, provided the PAN-OS firewall has no rules (see below).   *)
CatchesUp == <>[](policies[PanosDevice] = <<>>) => <>[]CaughtUp

(* "Collect rules from each enabled firewall (skipping failures), resolve, *)
(* write" (collect_resolve.py:43): a pass that has collected rules goes on *)
(* to write them, unless it is killed.  FALSE in the code: the rules of a  *)
(* PAN-OS firewall carry match_unknown without the clauses resolve_policies*)
(* then reads, the KeyError ends the pass, and no firewall is written.     *)
CollectedAreWritten ==
    [][pass.stage = "resolve" /\ pass.rules # <<>> /\ failures' = failures
       => pass'.stage # "idle"]_vars
=============================================================================
