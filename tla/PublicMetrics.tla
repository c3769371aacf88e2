--------------------------- MODULE PublicMetrics ---------------------------
(***************************************************************************)
(* The public metrics resolver (resolve.py), a systemd oneshot on a timer: *)
(* it reads the last lookback_hours of ssdf.events, and upserts the bucket *)
(* totals (ssdf_public.metric_timeseries), the series of the busiest       *)
(* addresses under their surrogates (ssdf_public.entity_series) and the    *)
(* map from addresses to surrogates (ssdf.pseudonym_map).  Each query and  *)
(* each INSERT is a step; the process may end between any two.             *)
(*                                                                         *)
(* The measure is one that has a per-entity series, and every event weighs *)
(* one.  The index measures write rows of their own and read no state.     *)
(* An INSERT that raises has committed by the next run or never does.      *)
(***************************************************************************)
EXTENDS Pseudonym, Integers

CONSTANTS
    BucketTicks,    \* bucket_secs
    Lookback,       \* lookback_hours
    TopN,           \* top_n
    Lateness,       \* how long after its timestamp an event may be stored
    MaxClock,       \* bound: last value of the clock
    MaxEvents,      \* bound: flow events
    MaxRuns,        \* bound: runs of the resolver
    MaxFailures     \* bound: runs that end early

ASSUME MetricsAssumption ==
    /\ BucketTicks \in Nat \ {0} /\ Lookback \in Nat /\ TopN \in Nat /\ Lateness \in Nat
    /\ MaxClock \in Nat /\ MaxEvents \in Nat /\ MaxRuns \in Nat /\ MaxFailures \in Nat

VARIABLES
    clock,
    events,         \* the flows in ssdf.events: [ts, ip]
    version,        \* PUBMETRICS_KEY_VERSION, and the key that goes with it
    metrics,        \* ssdf_public.metric_timeseries: bucket |-> value
    entities,       \* ssdf_public.entity_series: <<surrogate, bucket>> |-> value
    map,            \* ssdf.pseudonym_map: <<ip, key version>> |-> surrogate
    pc,             \* where the resolver is
    run,            \* its configuration, window and map: [version, since, pmap]
    plan,           \* the WritePlan
    published,      \* history: the series in the public table
    orphans,        \* history: those whose run ended before it wrote its map
    minted,         \* history: the run in which an address entered the map
    runs, failures

feed == <<clock, events>>
tables == <<metrics, entities, map>>
resolver == <<pc, run, plan>>
history == <<published, orphans, minted>>
counters == <<runs, failures>>
vars == <<feed, version, tables, resolver, history, counters>>

Bucket(ts) == ts \div BucketTicks

(* The events of a set in a bucket, and those of one address.              *)
InBucket(E, b) == {e \in E : Bucket(e.ts) = b}
Of(E, ip) == {e \in E : e.ip = ip}
BucketsOf(E) == {Bucket(e.ts) : e \in E}

NoRun == [version |-> Min(Versions), since |-> 0, pmap |-> <<>>]
NoPlan == [metrics |-> <<>>, entities |-> {}, map |-> <<>>]

(* A bug: the values of the old and the new row add up.                   *)
UpsertAdding(table, rows) ==
    [k \in DOMAIN table \cup DOMAIN rows |->
        IF k \notin DOMAIN rows THEN table[k]
        ELSE IF k \notin DOMAIN table THEN rows[k] ELSE table[k] + rows[k]]

(* An INSERT into a ReplacingMergeTree of numbers, read with FINAL.        *)
Upsert(table, rows) ==
    [k \in DOMAIN table \cup DOMAIN rows |-> IF k \in DOMAIN rows THEN rows[k] ELSE table[k]]

(* The TopN addresses of greatest total; ties fall either way.             *)
Tops(E) ==
    LET ips == {e.ip : e \in E}
        Total(ip) == Cardinality(Of(E, ip))
    IN  {S \in SUBSET ips :
            /\ Cardinality(S) = Min({TopN, Cardinality(ips)})
            /\ \A ip \in S, other \in ips \ S : Total(ip) >= Total(other)}

(* The per-entity part of plan_writes: every address is minted against the *)
(* map as it was loaded, not against what the plan already holds.          *)
EntityRows(E, top) ==
    {[ip |-> e.ip, surrogate |-> MintSurrogate(run.pmap, run.version, e.ip), bucket |-> Bucket(e.ts),
      value |-> Cardinality(InBucket(Of(E, e.ip), Bucket(e.ts)))] : e \in {x \in E : x.ip \in top}}

(* A bug: the plan keeps one row per surrogate.                           *)
MapRowsBySurrogate(rows) ==
    [k \in {<<r.ip, run.version>> : r \in {CHOOSE r \in rows : r.surrogate = s :
                                             s \in {r.surrogate : r \in rows}}} |->
        (CHOOSE r \in rows : r.ip = k[1]).surrogate]

MapRows(rows) ==
    [k \in {<<r.ip, run.version>> : r \in rows} |-> (CHOOSE r \in rows : r.ip = k[1]).surrogate]

(* Rows of one INSERT with one key: any of them may be the one that stays. *)
Collapsed(rows) ==
    LET Key(r) == <<r.surrogate, r.bucket>>
    IN  {f \in [{Key(r) : r \in rows} -> {r.value : r \in rows}] :
            \A k \in DOMAIN f : \E r \in rows : Key(r) = k /\ r.value = f[k]}

(* reidentify(): the row of a surrogate, any of them if there are several. *)
Reidentify(surrogate) == {k[1] : k \in {k \in DOMAIN map : map[k] = surrogate}}

----------------------------------------------------------------------------
Init ==
    /\ clock = 0 /\ events = {} /\ version = Min(Versions)
    /\ metrics = <<>> /\ entities = <<>> /\ map = <<>>
    /\ pc = "idle" /\ run = NoRun /\ plan = NoPlan
    /\ published = {} /\ orphans = {} /\ minted = <<>>
    /\ runs = 0 /\ failures = 0

Tick ==
    /\ clock < MaxClock
    /\ clock' = clock + 1
    /\ UNCHANGED <<events, version, tables, resolver, history, counters>>

FlowArrives ==
    /\ Cardinality(events) < MaxEvents
    /\ \E ip \in IPs, ts \in (clock - Lateness)..clock :
         /\ ts >= 0 /\ [ts |-> ts, ip |-> ip] \notin events
         /\ events' = events \cup {[ts |-> ts, ip |-> ip]}
    /\ UNCHANGED <<clock, version, tables, resolver, history, counters>>

(* The operator replaces the key and raises its version.                   *)
RotateKey ==
    /\ version + 1 \in Versions
    /\ version' = version + 1
    /\ UNCHANGED <<feed, tables, resolver, history, counters>>

(* load_config, the window and load_pseudonym_map, whose rows for several  *)
(* key versions end in one entry per address.                              *)
Begin ==
    /\ pc = "idle" /\ runs < MaxRuns
    /\ \E pmap \in [{k[1] : k \in DOMAIN map} -> {map[k] : k \in DOMAIN map}] :
         /\ \A ip \in DOMAIN pmap : \E k \in DOMAIN map : k[1] = ip /\ pmap[ip] = map[k]
         /\ run' = [version |-> version, since |-> clock - Lookback, pmap |-> pmap]
    /\ pc' = "series"
    /\ plan' = NoPlan
    /\ runs' = runs + 1
    /\ UNCHANGED <<feed, version, tables, history, failures>>

(* A bug: the query leaves out the window's first instant.                 *)
WindowAfter == {e \in events : e.ts > run.since}

Window == {e \in events : e.ts >= run.since}

(* entity_bucket_series and the rows made from it.                         *)
PlanSeries ==
    /\ pc = "series"
    /\ \E top \in Tops(Window) :
         LET rows == EntityRows(Window, top)
         IN  plan' = [metrics |-> <<>>, entities |-> rows, map |-> MapRows(rows)]
    /\ pc' = "totals"
    /\ UNCHANGED <<feed, version, tables, run, history, counters>>

(* aggregate_series and the rows made from it.                             *)
PlanTotals ==
    /\ pc = "totals"
    /\ plan' = [metrics |-> [b \in BucketsOf(Window) |-> Cardinality(InBucket(Window, b))],
                 entities |-> plan.entities, map |-> plan.map]
    /\ pc' = "write_metrics"
    /\ UNCHANGED <<feed, version, tables, run, history, counters>>

WriteMetrics ==
    /\ pc = "write_metrics"
    /\ metrics' = Upsert(metrics, plan.metrics)
    /\ pc' = "write_entities"
    /\ UNCHANGED <<feed, version, entities, map, run, plan, history, counters>>

PlannedSeries ==
    {[ip |-> r.ip, surrogate |-> r.surrogate, version |-> run.version] : r \in plan.entities}

WriteEntities ==
    /\ pc = "write_entities"
    /\ \E rows \in Collapsed(plan.entities) : entities' = Upsert(entities, rows)
    /\ published' = published \cup PlannedSeries
    /\ pc' = "write_map"
    /\ UNCHANGED <<feed, version, metrics, map, run, plan, orphans, minted, counters>>

Finished == pc' = "idle" /\ run' = NoRun /\ plan' = NoPlan

WriteMap ==
    /\ pc = "write_map"
    /\ map' = Upsert(map, plan.map)
    /\ minted' = [ip \in DOMAIN minted \cup {k[1] : k \in DOMAIN plan.map} |->
                     IF ip \in DOMAIN minted THEN minted[ip] ELSE runs]
    /\ Finished
    /\ UNCHANGED <<feed, version, metrics, entities, published, orphans, counters>>

(* A query or an INSERT raises, or systemd ends the run.                   *)
Fail ==
    /\ pc # "idle" /\ failures < MaxFailures
    /\ failures' = failures + 1
    /\ orphans' = IF pc = "write_map" THEN orphans \cup PlannedSeries ELSE orphans
    /\ Finished
    /\ UNCHANGED <<feed, version, tables, published, minted, runs>>

Next ==
    \/ Tick \/ FlowArrives \/ RotateKey
    \/ Begin \/ PlanSeries \/ PlanTotals
    \/ WriteMetrics \/ WriteEntities \/ WriteMap \/ Fail

Spec == Init /\ [][Next]_vars

----------------------------------------------------------------------------
(* "If that surrogate is already bound to a DIFFERENT real_value, lengthen *)
(* the hex slice" (pseudonym.py:43): two addresses share a surrogate in    *)
(* the map only if both entered it in one run, which does not ask its own  *)
(* plan.  The series of a run that lost its map are not in the map: their  *)
(* surrogates may be minted again, for other addresses.                    *)
SharedOnlyWithinARun ==
    \A k, l \in DOMAIN map : map[k] = map[l] => k[1] = l[1] \/ minted[k[1]] = minted[l[1]]

(* "Same key+kind+value always yields the same surrogate (series           *)
(* continuity)" (pseudonym.py:4): under one key an address appears under   *)
(* one surrogate, whatever prefixes were lengthened and runs failed in     *)
(* between, except in the series of a run that never got to its map.       *)
SeriesContinuous ==
    \A p, q \in published \ orphans :
        p.ip = q.ip /\ p.version = q.version => p.surrogate = q.surrogate

(* What reidentify() needs: every published surrogate can be turned back   *)
(* into its address, but for the series of a run that lost its map.        *)
PublishedAreMapped ==
    \A p \in published :
        \/ p.ip \in Reidentify(p.surrogate)
        \/ p \in orphans
        \/ pc = "write_map" /\ p \in PlannedSeries

(* "The map remains authoritative" (pseudonym.py:46): no step takes or     *)
(* changes what the map says of an address.                                *)
MappingsStay ==
    [][\A k \in DOMAIN map : k \in DOMAIN map' /\ map'[k] = map[k]]_map

(* "A re-run of the same bucket overwrites rather than double-counts"      *)
(* (013_public_metrics.sql:16): no stored value exceeds what happened.     *)
NeverOverstated ==
    /\ \A b \in DOMAIN metrics : metrics[b] <= Cardinality(InBucket(events, b))
    /\ \A k \in DOMAIN entities :
         \E p \in published :
             /\ p.surrogate = k[1]
             /\ entities[k] <= Cardinality(InBucket(Of(events, p.ip), k[2]))

(* "A re-run of the same bucket overwrites" (013_public_metrics.sql:16): a *)
(* bucket's total never falls, in whatever order runs, retries and late    *)
(* events come, unless a later window begins inside the bucket             *)
(* (resolve.py:118), whose part then replaces the total.                   *)
TotalsGrow ==
    [][\A b \in DOMAIN metrics : run.since <= b * BucketTicks => metrics'[b] >= metrics[b]]_metrics
=============================================================================
