---------------------------- MODULE RuleEvidence ----------------------------
(***************************************************************************)
(* The evidence that a firewall rule is unused, for one device.  A match   *)
(* of a rule raises the device's hit counter and sends a log, which may    *)
(* come late or never.  Hourly, rule_usage_rollup counts the logs of the   *)
(* last complete hours into ssdf.rule_usage_hourly, and the policy         *)
(* collector stores the counters with the configured rules.  unused_rules  *)
(* reads both and gives its verdict.                                       *)
(*                                                                         *)
(* Each query and INSERT is a step, and each job may end between two.  The *)
(* configured rules do not change; a tick is HourTicks-th part of an hour. *)
(***************************************************************************)
EXTENDS Integers, FiniteSets, FiniteSetsExt

CONSTANTS
    Rules,          \* the configured rules
    HourTicks,      \* ticks per hour
    RollupHours,    \* RULE_USAGE_LOOKBACK_HOURS
    MaxAge,         \* COUNTER_MAX_AGE_HOURS, in ticks
    Span,           \* the length of the window asked about, in ticks
    MaxClock,       \* bound: last value of the clock
    MaxMatches,     \* bound: matches
    MaxPasses,      \* bound: runs of the rollup
    MaxCollections, \* bound: runs of the collector
    MaxResets,      \* bound: resets of the device's counters
    MaxQuestions    \* bound: calls of unused_rules

ASSUME EvidenceAssumption ==
    /\ HourTicks \in Nat \ {0} /\ RollupHours \in Nat \ {0} /\ MaxAge \in Nat /\ Span \in Nat
    /\ MaxClock \in Nat /\ MaxMatches \in Nat /\ MaxPasses \in Nat /\ MaxCollections \in Nat
    /\ MaxResets \in Nat /\ MaxQuestions \in Nat

VARIABLES
    clock,
    matches,        \* what happened: [ts, rule]
    counted,        \* those the device's counters have counted since the last reset
    logged,         \* those in ssdf.events
    usage,          \* ssdf.rule_usage_hourly: <<rule, hour>> |-> sessions
    entities,       \* hit_count and its time in ssdf.entities: rule |-> [hits, at]
    rollup,         \* the rollup's pass: [stage, hours, rows]
    collector,      \* the collector's pass: [stage, at, hits]
    question,       \* a call of unused_rules: [stage, since, until, seen, covered]
    verdict,        \* what the call has said of a rule
    punctual,       \* history: matches logged at once
    rolled,         \* history: hours a finished pass counted
    passes, collections, resets, questions

device == <<matches, counted>>
jobs == <<rollup, collector>>
tool == <<question, verdict>>
history == <<punctual, rolled>>
counters == <<passes, collections, resets, questions>>
vars == <<clock, device, logged, usage, entities, jobs, tool, history, counters>>

Match == [ts : 0..MaxClock, rule : Rules]
Absent == -1        \* hit_count is not set

Hour(ts) == ts \div HourTicks
StartOf(hour) == hour * HourTicks

NoPass == [stage |-> "idle", hours |-> {}, rows |-> <<>>]
NoCollection == [stage |-> "idle", at |-> 0, hits |-> <<>>]
NoQuestion == [stage |-> "idle", since |-> 0, until |-> 0, seen |-> <<>>, covered |-> FALSE]

Init ==
    /\ clock = 0 /\ matches = {} /\ counted = {} /\ logged = {}
    /\ usage = <<>>
    /\ entities = [r \in Rules |-> [hits |-> Absent, at |-> 0]]
    /\ rollup = NoPass /\ collector = NoCollection
    /\ question = NoQuestion /\ verdict = [r \in Rules |-> "none"]
    /\ punctual = {} /\ rolled = {}
    /\ passes = 0 /\ collections = 0 /\ resets = 0 /\ questions = 0

Tick ==
    /\ clock < MaxClock
    /\ clock' = clock + 1
    /\ UNCHANGED <<device, logged, usage, entities, jobs, tool, history, counters>>

----------------------------------------------------------------------------
(* The device and its logs.                                                *)

RuleMatches ==
    /\ Cardinality(matches) < MaxMatches
    /\ \E r \in Rules :
         LET m == [ts |-> clock, rule |-> r]
         IN  /\ m \notin matches
             /\ matches' = matches \cup {m} /\ counted' = counted \cup {m}
             /\ \/ logged' = logged \cup {m} /\ punctual' = punctual \cup {m}
                \/ UNCHANGED <<logged, punctual>>
    /\ UNCHANGED <<clock, usage, entities, jobs, tool, rolled, counters>>

LogArrives ==
    /\ \E m \in matches \ logged : logged' = logged \cup {m}
    /\ UNCHANGED <<clock, device, usage, entities, jobs, tool, history, counters>>

CountersReset ==
    /\ resets < MaxResets
    /\ resets' = resets + 1
    /\ counted' = {}
    /\ UNCHANGED <<clock, matches, logged, usage, entities, jobs, tool, history, passes,
                   collections, questions>>

----------------------------------------------------------------------------
(* rule_usage_rollup.                                                      *)

(* compute_window: the last RollupHours complete hours.                    *)
CompleteHours(now) == {h \in (Hour(now) - RollupHours)..(Hour(now) - 1) : h >= 0}

(* _SELECT_SQL: a row per rule and hour that has events.                   *)
UsageRows(hours) ==
    [k \in {<<m.rule, Hour(m.ts)>> : m \in {m \in logged : Hour(m.ts) \in hours}} |->
        Cardinality({m \in logged : m.rule = k[1] /\ Hour(m.ts) = k[2]})]

PassQueries ==
    /\ rollup.stage = "idle" /\ passes < MaxPasses
    /\ passes' = passes + 1
    /\ rollup' = [stage |-> "insert", hours |-> CompleteHours(clock),
                  rows |-> UsageRows(CompleteHours(clock))]
    /\ UNCHANGED <<clock, device, logged, usage, entities, collector, tool, history, collections,
                   resets, questions>>

(* A ReplacingMergeTree: the rows of an hour overwrite the earlier ones.   *)
PassInserts ==
    /\ rollup.stage = "insert"
    /\ usage' = [k \in DOMAIN usage \cup DOMAIN rollup.rows |->
                    IF k \in DOMAIN rollup.rows THEN rollup.rows[k] ELSE usage[k]]
    /\ rolled' = rolled \cup rollup.hours
    /\ rollup' = NoPass
    /\ UNCHANGED <<clock, device, logged, entities, collector, tool, punctual, counters>>

PassFails ==
    /\ rollup.stage = "insert"
    /\ rollup' = NoPass
    /\ UNCHANGED <<clock, device, logged, usage, entities, collector, tool, history, counters>>

----------------------------------------------------------------------------
(* collect_resolve, as far as the counters go.  The time is taken when the *)
(* run begins.                                                             *)

CollectorStarts ==
    /\ collector.stage = "idle" /\ collections < MaxCollections
    /\ collections' = collections + 1
    /\ collector' = [stage |-> "read", at |-> clock, hits |-> <<>>]
    /\ UNCHANGED <<clock, device, logged, usage, entities, rollup, tool, history, passes, resets,
                   questions>>

(* The counters are read, or reading them fails and the rules go without.  *)
CollectorReads ==
    /\ collector.stage = "read"
    /\ \E hits \in {[r \in Rules |-> Cardinality({m \in counted : m.rule = r})],
                    [r \in Rules |-> Absent]} :
         collector' = [stage |-> "write", at |-> collector.at, hits |-> hits]
    /\ UNCHANGED <<clock, device, logged, usage, entities, rollup, tool, history, counters>>

(* replace_entities: the attributes are those of the latest run, whole.    *)
CollectorWrites ==
    /\ collector.stage = "write"
    /\ entities' = [r \in Rules |-> [hits |-> collector.hits[r], at |-> collector.at]]
    /\ collector' = NoCollection
    /\ UNCHANGED <<clock, device, logged, usage, rollup, tool, history, counters>>

(* The device does not answer, or the INSERT raises.                       *)
CollectorFails ==
    /\ collector.stage # "idle"
    /\ collector' = NoCollection
    /\ UNCHANGED <<clock, device, logged, usage, entities, rollup, tool, history, counters>>

----------------------------------------------------------------------------
(* unused_rules.                                                           *)

Ask ==
    /\ question.stage = "idle" /\ questions < MaxQuestions
    /\ questions' = questions + 1
    /\ question' = [stage |-> "coverage", since |-> clock - Span, until |-> clock,
                    seen |-> entities, covered |-> FALSE]
    /\ verdict' = [r \in Rules |-> "none"]
    /\ UNCHANGED <<clock, device, logged, usage, entities, jobs, history, passes, collections,
                   resets>>

(* The buckets of the device, and of a rule, in the window of the call.    *)
InWindow(hour) == question.since <= StartOf(hour) /\ StartOf(hour) < question.until
Buckets == {k[2] : k \in {k \in DOMAIN usage : InWindow(k[2])}}
LogUsed(r) == \E k \in DOMAIN usage : k[1] = r /\ InWindow(k[2]) /\ usage[k] > 0

(* A bug: the end of the window is not looked at.                         *)
LogCoverageAtStart ==
    Buckets # {} /\ StartOf(Min(Buckets)) <= question.since + HourTicks

(* _log_coverage: a bucket within an hour of the window's start and one    *)
(* within two of its end.                                                  *)
LogCoverage ==
    /\ Buckets # {}
    /\ StartOf(Min(Buckets)) <= question.since + HourTicks
    /\ StartOf(Max(Buckets)) >= question.until - 2 * HourTicks

CheckCoverage ==
    /\ question.stage = "coverage"
    /\ question' = [question EXCEPT !.stage = "judge", !.covered = LogCoverage]
    /\ UNCHANGED <<clock, device, logged, usage, entities, jobs, verdict, history, counters>>

(* A bug: a stale counter counts.                                         *)
CounterKnownAnyAge(r) == question.seen[r].hits # Absent

CounterKnown(r) ==
    question.seen[r].hits # Absent /\ question.seen[r].at >= question.until - MaxAge

(* _verdict: "unused" only if both signals are there and say so.           *)
Verdict(r) ==
    IF ~question.covered \/ ~CounterKnown(r) \/ LogUsed(r) # (question.seen[r].hits > 0)
    THEN "unknown"
    ELSE IF LogUsed(r) THEN "used" ELSE "unused"

(* The usage queries of the rules do not depend on each other, so one step *)
(* stands for all of them.                                                 *)
Judge ==
    /\ question.stage = "judge"
    /\ verdict' = [r \in Rules |-> Verdict(r)]
    /\ question' = [question EXCEPT !.stage = "idle", !.seen = <<>>]
    /\ UNCHANGED <<clock, device, logged, usage, entities, jobs, history, counters>>

Next ==
    \/ Tick \/ RuleMatches \/ LogArrives \/ CountersReset
    \/ PassQueries \/ PassInserts \/ PassFails
    \/ CollectorStarts \/ CollectorReads \/ CollectorWrites \/ CollectorFails
    \/ Ask \/ CheckCoverage \/ Judge

Spec == Init /\ [][Next]_vars

----------------------------------------------------------------------------
(* Types, and that no hour holds more sessions than events.                *)
TypeOK ==
    /\ clock \in 0..MaxClock
    /\ matches \subseteq Match /\ counted \subseteq matches /\ logged \subseteq matches
    /\ DOMAIN usage \subseteq Rules \X (0..Hour(MaxClock))
    /\ \A k \in DOMAIN usage :
         usage[k] \in 1..Cardinality({m \in logged : m.rule = k[1] /\ Hour(m.ts) = k[2]})
    /\ \A r \in Rules : entities[r].hits \in -1..MaxMatches /\ entities[r].at \in 0..clock
    /\ rollup.stage \in {"idle", "insert"}
    /\ collector.stage \in {"idle", "read", "write"}
    /\ question.stage \in {"idle", "coverage", "judge"}
    /\ \A r \in Rules : verdict[r] \in {"none", "unknown", "used", "unused"}

(* The log signal alone keeps the tool from a false "unused"               *)
(* (rule_tools.py:12): whatever the counters say, a rule called unused had *)
(* no match that was logged at once between the first hour of the window   *)
(* and its last two.  Only if no hour was left out between two the rollup  *)
(* counted, though: _log_coverage asks for a first and a last bucket, and  *)
(* an outage longer than RollupHours leaves a gap between them.            *)
Gapless == \A h \in rolled, i \in rolled : h..i \subseteq rolled

UnusedBackedByLog ==
    Gapless =>
        \A m \in punctual :
            /\ question.since + HourTicks <= m.ts /\ m.ts <= question.until - 2 * HourTicks
            => verdict[m.rule] # "unused"

(* The counter alone does too: whatever the logs say, a rule called unused *)
(* has no match that its counter still counts and that is older than a     *)
(* counter may be.                                                         *)
UnusedBackedByCounter ==
    \A m \in counted : m.ts < question.until - MaxAge => verdict[m.rule] # "unused"
=============================================================================
