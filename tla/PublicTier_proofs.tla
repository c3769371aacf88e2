-------------------------- MODULE PublicTier_proofs --------------------------
(***************************************************************************)
(* Proofs about what the public tier is given and what its server gives.   *)
(*                                                                         *)
(* First PublicMetrics: what the map from addresses to surrogates promises,*)
(* for any digest, any number of runs, failures and key rotations.  At the *)
(* start the digest plays no part: everything rests on the map being       *)
(* loaded before and written after, and on mint_surrogate giving what the  *)
(* map holds.  Then what the totals of the buckets promise, for any stream *)
(* of events, and what lengthening a prefix achieves, where the digest     *)
(* does matter.                                                            *)
(*                                                                         *)
(* Then ServerAssembly: what a server of either tier serves, for any       *)
(* callers, tokens, token maps, classification files and lifetime of a     *)
(* minted token.                                                           *)
(***************************************************************************)
EXTENDS PublicMetrics, ServerAssembly, FiniteSetTheorems, SequenceTheorems, WellFoundedInduction,
        TLAPS

Planning == {"totals", "write_metrics", "write_entities", "write_map"}

(* The rows of one address agree, whatever their key version.              *)
Agree == \A k, l \in DOMAIN map : k[1] = l[1] => map[k] = map[l]

(* Nobody writes the map between a run's load and its own write.           *)
Loaded ==
    pc # "idle" =>
        \A k \in DOMAIN map : k[1] \in DOMAIN run.pmap /\ run.pmap[k[1]] = map[k]

(* The plan's series and its map rows carry the surrogates minted against  *)
(* the loaded map, and every series has its map row.                       *)
Planned ==
    pc \in Planning =>
        /\ \A r \in plan.entities :
             /\ r.surrogate = MintSurrogate(run.pmap, run.version, r.ip)
             /\ <<r.ip, run.version>> \in DOMAIN plan.map
        /\ \A k \in DOMAIN plan.map : plan.map[k] = MintSurrogate(run.pmap, run.version, k[1])

MapInv == Agree /\ Loaded /\ Planned /\ PublishedAreMapped

(* mint_surrogate gives what the map holds.                                *)
LEMMA MintReuses ==
    ASSUME NEW existing, NEW v, NEW ip, ip \in DOMAIN existing
    PROVE  MintSurrogate(existing, v, ip) = existing[ip]
BY DEF MintSurrogate

(* The map rows of a plan are the surrogates of its series.                *)
LEMMA MapRowsFollow ==
    ASSUME NEW rows,
           \A r \in rows : r.surrogate = MintSurrogate(run.pmap, run.version, r.ip)
    PROVE  /\ \A r \in rows : <<r.ip, run.version>> \in DOMAIN MapRows(rows)
           /\ \A k \in DOMAIN MapRows(rows) :
                MapRows(rows)[k] = MintSurrogate(run.pmap, run.version, k[1])
<1>1. \A r \in rows : <<r.ip, run.version>> \in DOMAIN MapRows(rows)
  BY DEF MapRows
<1>2. ASSUME NEW k \in DOMAIN MapRows(rows) 
      PROVE  MapRows(rows)[k] = MintSurrogate(run.pmap, run.version, k[1])
  <2>1. PICK r \in rows : k = <<r.ip, run.version>>
    BY <1>2 DEF MapRows
  <2> DEFINE c == CHOOSE x \in rows : x.ip = k[1]
  <2>2. c \in rows /\ c.ip = k[1]
    BY <2>1
  <2>3. MapRows(rows)[k] = c.surrogate
    BY <1>2 DEF MapRows
  <2>4. QED
    BY <2>2, <2>3
<1>3. QED
  BY <1>1, <1>2

LEMMA MapInvInit == Init => MapInv
BY DEF Init, MapInv, Agree, Loaded, Planned, PublishedAreMapped, Planning

(* What a run writes to the map agrees with what is there.                 *)
LEMMA WriteMapAdds ==
    ASSUME MapInv, WriteMap
    PROVE  /\ \A k \in DOMAIN map : k \in DOMAIN map' /\ map'[k] = map[k]
           /\ \A k \in DOMAIN map' : map'[k] = MintSurrogate(run.pmap, run.version, k[1])
           /\ \A k \in DOMAIN plan.map : k \in DOMAIN map'
<1>1. map' = Upsert(map, plan.map) /\ pc = "write_map"
  BY DEF WriteMap
<1>2. DOMAIN map' = DOMAIN map \cup DOMAIN plan.map
  BY <1>1 DEF Upsert
<1>3. \A k \in DOMAIN map' : map'[k] = IF k \in DOMAIN plan.map THEN plan.map[k] ELSE map[k]
  BY <1>1 DEF Upsert
<1>4. \A k \in DOMAIN map : map[k] = MintSurrogate(run.pmap, run.version, k[1])
  BY <1>1, MintReuses DEF MapInv, Loaded
<1>5. \A k \in DOMAIN plan.map : plan.map[k] = MintSurrogate(run.pmap, run.version, k[1])
  BY <1>1 DEF MapInv, Planned, Planning
<1>6. QED
  BY <1>2, <1>3, <1>4, <1>5

(* The steps that leave the map and the planned surrogates alone.          *)
LEMMA MapInvElsewhere ==
    ASSUME MapInv, UNCHANGED <<map, published, orphans, run, plan.entities, plan.map>>,
           \/ pc' = pc
           \/ pc \in Planning \ {"write_map"} /\ pc' \in Planning \ {"write_map"}
    PROVE  MapInv'
<1>1. Agree' /\ Loaded'
  BY DEF MapInv, Agree, Loaded, Planning
<1>2. Planned'
  BY DEF MapInv, Planned, Planning
<1>3. PublishedAreMapped'
  BY DEF MapInv, PublishedAreMapped, Reidentify, PlannedSeries
<1>4. QED
  BY <1>1, <1>2, <1>3 DEF MapInv

(* load_pseudonym_map gives every address of the map its surrogate.        *)
LEMMA MapInvBegin == MapInv /\ Begin => MapInv'
<1> SUFFICES ASSUME MapInv, Begin PROVE MapInv'
  OBVIOUS
<1>1. PICK pmap \in [{k[1] : k \in DOMAIN map} -> {map[k] : k \in DOMAIN map}] :
        /\ \A ip \in DOMAIN pmap : \E k \in DOMAIN map : k[1] = ip /\ pmap[ip] = map[k]
        /\ run' = [version |-> version, since |-> clock - Lookback, pmap |-> pmap]
  BY DEF Begin
<1>2. pc = "idle" /\ pc' = "series" /\ UNCHANGED <<map, published, orphans>>
  BY DEF Begin, tables, history
<1>3. run'.pmap = pmap /\ DOMAIN pmap = {k[1] : k \in DOMAIN map}
  BY <1>1
<1>4. ASSUME NEW k \in DOMAIN map PROVE k[1] \in DOMAIN pmap /\ pmap[k[1]] = map[k]
  <2>1. k[1] \in DOMAIN pmap
    BY <1>3
  <2>2. PICK l \in DOMAIN map : l[1] = k[1] /\ pmap[k[1]] = map[l]
    BY <1>1, <2>1
  <2>3. QED
    BY <2>1, <2>2 DEF MapInv, Agree
<1>5. Agree' /\ Loaded' /\ Planned'
  BY <1>2, <1>3, <1>4 DEF MapInv, Agree, Loaded, Planned, Planning
<1>6. PublishedAreMapped'
  BY <1>2 DEF MapInv, PublishedAreMapped, Reidentify
<1>7. QED
  BY <1>5, <1>6 DEF MapInv

LEMMA MapInvPlanSeries == MapInv /\ PlanSeries => MapInv'
<1> SUFFICES ASSUME MapInv, PlanSeries PROVE MapInv'
  OBVIOUS
<1>1. PICK top \in Tops(Window) :
        plan' = [metrics |-> <<>>, entities |-> EntityRows(Window, top),
                 map |-> MapRows(EntityRows(Window, top))]
  BY DEF PlanSeries
<1> DEFINE rows == EntityRows(Window, top)
<1>2. pc = "series" /\ pc' = "totals" /\ UNCHANGED <<map, published, orphans, run>>
  BY DEF PlanSeries, tables, history
<1>3. \A r \in rows : r.surrogate = MintSurrogate(run.pmap, run.version, r.ip)
  BY DEF EntityRows
<1>4. /\ \A r \in rows : <<r.ip, run.version>> \in DOMAIN MapRows(rows)
      /\ \A k \in DOMAIN MapRows(rows) :
           MapRows(rows)[k] = MintSurrogate(run.pmap, run.version, k[1])
  BY <1>3, MapRowsFollow
<1>5. plan'.entities = rows /\ plan'.map = MapRows(rows)
  BY <1>1
<1>6. Agree' /\ Loaded' /\ Planned'
  BY <1>2, <1>3, <1>4, <1>5 DEF MapInv, Agree, Loaded, Planned, Planning
<1>7. PublishedAreMapped'
  BY <1>2 DEF MapInv, PublishedAreMapped, Reidentify
<1>8. QED
  BY <1>6, <1>7 DEF MapInv

(* The series go out before the map: until then they are in flight.        *)
LEMMA MapInvWriteEntities == MapInv /\ WriteEntities => MapInv'
<1> SUFFICES ASSUME MapInv, WriteEntities PROVE MapInv'
  OBVIOUS
<1>1. /\ pc = "write_entities" /\ pc' = "write_map"
      /\ UNCHANGED <<map, orphans, run, plan>>
      /\ published' = published \cup PlannedSeries
  BY DEF WriteEntities
<1>2. Agree' /\ Loaded' /\ Planned'
  BY <1>1 DEF MapInv, Agree, Loaded, Planned, Planning
<1>3. ASSUME NEW p \in published'
      PROVE  p.ip \in Reidentify(p.surrogate)' \/ p \in orphans' \/ p \in PlannedSeries'
  <2>1. CASE p \in published
    BY <1>1, <2>1 DEF MapInv, PublishedAreMapped, Reidentify
  <2>2. CASE p \in PlannedSeries
    BY <1>1, <2>2 DEF PlannedSeries
  <2>3. QED
    BY <1>1, <2>1, <2>2
<1>4. QED
  BY <1>1, <1>2, <1>3 DEF MapInv, PublishedAreMapped

(* Once the map is written the series of the run are found in it.          *)
LEMMA MapInvWriteMap == MapInv /\ WriteMap => MapInv'
<1> SUFFICES ASSUME MapInv, WriteMap PROVE MapInv'
  OBVIOUS
<1>1. pc = "write_map" /\ pc' = "idle" /\ UNCHANGED <<published, orphans>>
  BY DEF WriteMap, Finished
<1>2. /\ \A k \in DOMAIN map : k \in DOMAIN map' /\ map'[k] = map[k]
      /\ \A k \in DOMAIN map' : map'[k] = MintSurrogate(run.pmap, run.version, k[1])
      /\ \A k \in DOMAIN plan.map : k \in DOMAIN map'
  BY WriteMapAdds
<1>3. Agree'
  BY <1>2 DEF Agree
<1>4. Loaded' /\ Planned'
  BY <1>1 DEF Loaded, Planned, Planning
<1>5. ASSUME NEW p \in published'
      PROVE  p.ip \in Reidentify(p.surrogate)' \/ p \in orphans'
  <2>1. CASE p.ip \in Reidentify(p.surrogate)
    BY <1>2, <2>1 DEF Reidentify
  <2>2. CASE p \in PlannedSeries
    <3>1. PICK r \in plan.entities : p.ip = r.ip /\ p.surrogate = r.surrogate
      BY <2>2 DEF PlannedSeries
    <3> DEFINE k == <<r.ip, run.version>>
    <3>2. k \in DOMAIN plan.map /\ r.surrogate = MintSurrogate(run.pmap, run.version, r.ip)
      BY <1>1 DEF MapInv, Planned, Planning
    <3>3. k \in DOMAIN map' /\ map'[k] = r.surrogate /\ k[1] = r.ip
      BY <1>2, <3>2
    <3>4. QED
      BY <3>1, <3>3 DEF Reidentify
  <2>3. CASE p \in orphans
    BY <1>1, <2>3
  <2>4. QED
    BY <1>1, <2>1, <2>2, <2>3 DEF MapInv, PublishedAreMapped
<1>6. QED
  BY <1>3, <1>4, <1>5 DEF MapInv, PublishedAreMapped

LEMMA MapInvFail == MapInv /\ Fail => MapInv'
<1> SUFFICES ASSUME MapInv, Fail PROVE MapInv'
  OBVIOUS
<1>1. /\ pc' = "idle" /\ UNCHANGED <<map, published>> /\ orphans \subseteq orphans'
      /\ pc = "write_map" => PlannedSeries \subseteq orphans'
  BY DEF Fail, Finished, tables
<1>2. Agree' /\ Loaded' /\ Planned'
  BY <1>1 DEF MapInv, Agree, Loaded, Planned, Planning
<1>3. PublishedAreMapped'
  BY <1>1 DEF MapInv, PublishedAreMapped, Reidentify
<1>4. QED
  BY <1>2, <1>3 DEF MapInv

LEMMA MapInvNext == MapInv /\ [Next]_vars => MapInv'
<1> SUFFICES ASSUME MapInv, [Next]_vars PROVE MapInv'
  OBVIOUS
<1>1. CASE Tick
  BY <1>1, MapInvElsewhere DEF Tick, tables, resolver, history
<1>2. CASE FlowArrives
  BY <1>2, MapInvElsewhere DEF FlowArrives, tables, resolver, history
<1>3. CASE RotateKey
  BY <1>3, MapInvElsewhere DEF RotateKey, tables, resolver, history
<1>4. CASE Begin
  BY <1>4, MapInvBegin
<1>5. CASE PlanSeries
  BY <1>5, MapInvPlanSeries
<1>6. CASE PlanTotals
  BY <1>6, MapInvElsewhere DEF PlanTotals, tables, history, Planning
<1>7. CASE WriteMetrics
  BY <1>7, MapInvElsewhere DEF WriteMetrics, history, Planning
<1>8. CASE WriteEntities
  BY <1>8, MapInvWriteEntities
<1>9. CASE WriteMap
  BY <1>9, MapInvWriteMap
<1>10. CASE Fail
  BY <1>10, MapInvFail
<1>11. CASE UNCHANGED vars
  BY <1>11, MapInvElsewhere DEF vars, tables, resolver, history
<1>12. QED
  BY <1>1, <1>2, <1>3, <1>4, <1>5, <1>6, <1>7, <1>8, <1>9, <1>10, <1>11 DEF Next

LEMMA MapInvAlways == Spec => []MapInv
<1>1. Init => MapInv
  BY MapInvInit
<1>2. MapInv /\ [Next]_vars => MapInv'
  BY MapInvNext
<1>3. QED
  BY <1>1, <1>2, PTL DEF Spec

(* Every published surrogate can be turned back into its address, but for  *)
(* the series of a run that ended between its last two inserts.            *)
THEOREM Reidentifiable == Spec => []PublishedAreMapped
<1>1. MapInv => PublishedAreMapped
  BY DEF MapInv
<1>2. QED
  BY <1>1, MapInvAlways, PTL

(* An address keeps its surrogate from the map or the plan it is in.       *)
LEMMA SeriesFromMap == MapInv => SeriesContinuous
<1> SUFFICES ASSUME MapInv, NEW p \in published \ orphans, NEW q \in published \ orphans,
                    p.ip = q.ip, p.version = q.version
             PROVE  p.surrogate = q.surrogate
  BY DEF SeriesContinuous
<1> DEFINE Minted(r) == r.surrogate = MintSurrogate(run.pmap, run.version, r.ip)
<1>1. ASSUME NEW r \in PlannedSeries, pc = "write_map" PROVE Minted(r)
  <2>1. PICK e \in plan.entities : r.ip = e.ip /\ r.surrogate = e.surrogate
    BY DEF PlannedSeries
  <2>2. QED
    BY <1>1, <2>1 DEF MapInv, Planned, Planning
<1>2. ASSUME NEW r, r.ip \in Reidentify(r.surrogate), pc = "write_map" PROVE Minted(r)
  <2>1. PICK k \in DOMAIN map : k[1] = r.ip /\ map[k] = r.surrogate
    BY <1>2 DEF Reidentify
  <2>2. QED
    BY <1>2, <2>1, MintReuses DEF MapInv, Loaded
<1>3. CASE p.ip \in Reidentify(p.surrogate) /\ q.ip \in Reidentify(q.surrogate)
  BY <1>3 DEF Reidentify, MapInv, Agree
<1>4. CASE pc = "write_map" /\ (p \in PlannedSeries \/ q \in PlannedSeries)
  <2>1. Minted(p) /\ Minted(q)
    BY <1>1, <1>2, <1>4 DEF MapInv, PublishedAreMapped
  <2>2. QED
    BY <2>1
<1>5. QED
  BY <1>3, <1>4 DEF MapInv, PublishedAreMapped

(* Under one key an address is published under one surrogate: through      *)
(* collisions, and the failed runs of other addresses.                     *)
THEOREM ContinuousSeries == Spec => []SeriesContinuous
BY SeriesFromMap, MapInvAlways, PTL

(* What the map says of an address is never taken back or changed.         *)
THEOREM StableMappings == Spec => MappingsStay
<1>1. MapInv /\ [Next]_vars => [\A k \in DOMAIN map : k \in DOMAIN map' /\ map'[k] = map[k]]_map
  <2> SUFFICES ASSUME MapInv, [Next]_vars, map' # map
               PROVE  \A k \in DOMAIN map : k \in DOMAIN map' /\ map'[k] = map[k]
    OBVIOUS
  <2>1. WriteMap
    BY DEF Next, vars, tables, Tick, FlowArrives, RotateKey, Begin, PlanSeries, PlanTotals,
           WriteMetrics, WriteEntities, Fail
  <2>2. QED
    BY <2>1, WriteMapAdds
<1>2. QED
  BY <1>1, MapInvAlways, PTL DEF Spec, MappingsStay

----------------------------------------------------------------------------
(* Totals.                                                                 *)

Feed == clock \in Nat /\ IsFiniteSet(events) /\ \A e \in events : e.ts \in Nat

(* No total, stored or planned, exceeds what has happened.                 *)
Counted(table) ==
    \A b \in DOMAIN table :
        b \in Nat /\ table[b] \in Nat /\ table[b] <= Cardinality(InBucket(events, b))

(* A planned total is no less than the stored one, unless the window       *)
(* begins inside the bucket.                                               *)
NoLess ==
    \A b \in DOMAIN plan.metrics \cap DOMAIN metrics :
        run.since <= b * BucketTicks => metrics[b] <= plan.metrics[b]

TotalInv ==
    /\ Feed
    /\ pc # "idle" => run.since \in Int
    /\ Counted(metrics)
    /\ pc = "write_metrics" => Counted(plan.metrics) /\ NoLess

LEMMA BucketStart ==
    ASSUME NEW ts \in Nat
    PROVE  Bucket(ts) \in Nat /\ Bucket(ts) * BucketTicks <= ts
BY MetricsAssumption DEF Bucket

LEMMA InBucketGrows ==
    ASSUME NEW E, NEW F, IsFiniteSet(F), E \subseteq F, NEW b
    PROVE  /\ IsFiniteSet(InBucket(E, b))
           /\ Cardinality(InBucket(E, b)) \in Nat
           /\ Cardinality(InBucket(E, b)) <= Cardinality(InBucket(F, b))
<1>1. InBucket(E, b) \subseteq InBucket(F, b) /\ InBucket(F, b) \subseteq F
  BY DEF InBucket
<1>2. IsFiniteSet(InBucket(F, b))
  BY <1>1, FS_Subset
<1>3. QED
  BY <1>1, <1>2, FS_Subset, FS_CardinalityType

LEMMA TotalInvInit == Init => TotalInv
BY FS_EmptySet DEF Init, TotalInv, Feed, Counted

(* More events leave the totals within what has happened.                  *)
LEMMA MoreEvents ==
    ASSUME TotalInv, Feed', events \subseteq events', UNCHANGED <<metrics, plan.metrics, run>>,
           pc' = pc
    PROVE  TotalInv'
<1>1. ASSUME NEW table, Counted(table), table' = table PROVE Counted(table)'
  <2> SUFFICES ASSUME NEW b \in DOMAIN table
               PROVE  table[b] <= Cardinality(InBucket(events', b))
    BY <1>1 DEF Counted, InBucket, Bucket
  <2>1. /\ Cardinality(InBucket(events, b)) <= Cardinality(InBucket(events', b))
        /\ Cardinality(InBucket(events, b)) \in Nat /\ Cardinality(InBucket(events', b)) \in Nat
    BY InBucketGrows DEF TotalInv, Feed
  <2>2. QED
    BY <1>1, <2>1 DEF Counted
<1>2. Counted(metrics)' 
  BY <1>1 DEF TotalInv
<1>3. ASSUME pc' = "write_metrics" PROVE Counted(plan.metrics)' /\ NoLess'
  BY <1>1, <1>3 DEF TotalInv, NoLess
<1>4. QED
  BY <1>2, <1>3 DEF TotalInv

LEMMA TotalInvFlowArrives == TotalInv /\ FlowArrives => TotalInv'
<1> SUFFICES ASSUME TotalInv, FlowArrives PROVE TotalInv'
  OBVIOUS
<1>1. PICK ip \in IPs, ts \in (clock - Lateness)..clock :
        ts >= 0 /\ events' = events \cup {[ts |-> ts, ip |-> ip]}
  BY DEF FlowArrives
<1>2. ts \in Nat
  BY <1>1, MetricsAssumption DEF TotalInv, Feed
<1>3. Feed'
  BY <1>1, <1>2, FS_AddElement DEF TotalInv, Feed, FlowArrives
<1>4. QED
  BY <1>1, <1>3, MoreEvents DEF FlowArrives, tables, resolver

(* A bucket that lies in the window is counted whole.                      *)
LEMMA TotalInvPlanTotals == TotalInv /\ PlanTotals => TotalInv'
<1> SUFFICES ASSUME TotalInv, PlanTotals PROVE TotalInv'
  OBVIOUS
<1>1. /\ plan'.metrics = [b \in BucketsOf(Window) |-> Cardinality(InBucket(Window, b))]
      /\ UNCHANGED <<clock, events, metrics, run>>
  BY DEF PlanTotals, feed, tables
<1>2. Window \subseteq events /\ IsFiniteSet(events)
  BY DEF Window, TotalInv, Feed
<1>3. Feed' /\ Counted(metrics)'
  BY <1>1 DEF TotalInv, Feed, Counted, InBucket, Bucket
<1>4. ASSUME NEW b \in BucketsOf(Window)
      PROVE  /\ b \in Nat /\ Cardinality(InBucket(Window, b)) \in Nat
             /\ Cardinality(InBucket(Window, b)) <= Cardinality(InBucket(events, b))
  BY <1>2, InBucketGrows, BucketStart DEF BucketsOf, TotalInv, Feed
<1>5. Counted(plan.metrics)'
  BY <1>1, <1>4 DEF Counted, InBucket, Bucket
<1>6. ASSUME NEW b \in BucketsOf(Window), b \in DOMAIN metrics, run.since <= b * BucketTicks
      PROVE  metrics[b] <= Cardinality(InBucket(Window, b))
  <2>1. ASSUME NEW e \in InBucket(events, b) PROVE e \in InBucket(Window, b)
    <3>1. e \in events /\ e.ts \in Nat /\ Bucket(e.ts) = b
      BY <2>1 DEF InBucket, TotalInv, Feed
    <3>2. b * BucketTicks <= e.ts
      BY <3>1, BucketStart
    <3>3. run.since \in Int /\ b \in Nat /\ BucketTicks \in Nat
      BY <3>1, BucketStart, MetricsAssumption DEF TotalInv, PlanTotals
    <3>4. b * BucketTicks \in Int
      BY <3>3
    <3>5. e.ts >= run.since
      BY <1>6, <3>1, <3>2, <3>3, <3>4
    <3>6. QED
      BY <3>1, <3>5 DEF InBucket, Window
  <2>2. InBucket(events, b) = InBucket(Window, b)
    BY <1>2, <2>1 DEF InBucket
  <2>3. metrics[b] <= Cardinality(InBucket(events, b))
    BY <1>6 DEF TotalInv, Counted
  <2>4. QED
    BY <2>2, <2>3
<1>7. NoLess'
  BY <1>1, <1>6 DEF NoLess
<1>8. pc = "totals" /\ run'.since \in Int
  BY <1>1 DEF TotalInv, PlanTotals
<1>9. QED
  BY <1>3, <1>5, <1>7, <1>8 DEF TotalInv

LEMMA TotalInvWriteMetrics == TotalInv /\ WriteMetrics => TotalInv'
<1> SUFFICES ASSUME TotalInv, WriteMetrics PROVE TotalInv'
  OBVIOUS
<1>1. /\ pc = "write_metrics" /\ pc' = "write_entities"
      /\ metrics' = Upsert(metrics, plan.metrics)
      /\ UNCHANGED <<clock, events, run>>
  BY DEF WriteMetrics, feed
<1>2. Counted(metrics)'
  BY <1>1 DEF TotalInv, Counted, Upsert, InBucket, Bucket
<1>3. QED
  BY <1>1, <1>2 DEF TotalInv, Feed

LEMMA TotalInvNext == TotalInv /\ [Next]_vars => TotalInv'
<1> SUFFICES ASSUME TotalInv, [Next]_vars PROVE TotalInv'
  OBVIOUS
<1>1. ASSUME UNCHANGED <<events, metrics>>, clock' \in Nat,
             pc' # "write_metrics", pc' # "idle" => run'.since \in Int
      PROVE  TotalInv'
  BY <1>1 DEF TotalInv, Feed, Counted, InBucket, Bucket
<1>2. CASE Tick
  <2>1. Feed' /\ UNCHANGED <<events, metrics, plan, run, pc>>
    BY <1>2 DEF Tick, tables, resolver, TotalInv, Feed
  <2>2. QED
    BY <2>1, MoreEvents
<1>3. CASE FlowArrives
  BY <1>3, TotalInvFlowArrives
<1>4. CASE RotateKey \/ UNCHANGED vars
  <2>1. Feed' /\ UNCHANGED <<events, metrics, plan, run, pc>>
    BY <1>4 DEF RotateKey, vars, feed, tables, resolver, TotalInv, Feed
  <2>2. QED
    BY <2>1, MoreEvents
<1>5. CASE Begin
  <2>1. run'.since = clock - Lookback
    BY <1>5 DEF Begin
  <2>2. QED
    BY <1>1, <1>5, <2>1, MetricsAssumption DEF Begin, feed, tables, TotalInv, Feed
<1>6. CASE PlanSeries
  BY <1>1, <1>6 DEF PlanSeries, feed, tables, TotalInv, Feed
<1>7. CASE PlanTotals
  BY <1>7, TotalInvPlanTotals
<1>8. CASE WriteMetrics
  BY <1>8, TotalInvWriteMetrics
<1>9. CASE WriteEntities
  BY <1>1, <1>9 DEF WriteEntities, feed, TotalInv, Feed
<1>10. CASE WriteMap
  BY <1>1, <1>10 DEF WriteMap, Finished, feed, TotalInv, Feed
<1>11. CASE Fail
  BY <1>1, <1>11 DEF Fail, Finished, feed, tables, TotalInv, Feed
<1>12. QED
  BY <1>2, <1>3, <1>4, <1>5, <1>6, <1>7, <1>8, <1>9, <1>10, <1>11 DEF Next

LEMMA TotalInvAlways == Spec => []TotalInv
BY TotalInvInit, TotalInvNext, PTL DEF Spec

(* A run never lowers a stored total, unless its window begins inside the  *)
(* bucket: whatever fails, is retried, or comes late.                      *)
THEOREM GrowingTotals == Spec => TotalsGrow
<1>1. TotalInv /\ [Next]_vars =>
        [\A b \in DOMAIN metrics : run.since <= b * BucketTicks => metrics'[b] >= metrics[b]]_metrics
  <2> SUFFICES ASSUME TotalInv, [Next]_vars, metrics' # metrics,
                      NEW b \in DOMAIN metrics, run.since <= b * BucketTicks
               PROVE  metrics'[b] >= metrics[b]
    OBVIOUS
  <2>1. WriteMetrics
    BY DEF Next, vars, tables, Tick, FlowArrives, RotateKey, Begin, PlanSeries, PlanTotals,
           WriteEntities, WriteMap, Fail
  <2>2. metrics'[b] = IF b \in DOMAIN plan.metrics THEN plan.metrics[b] ELSE metrics[b]
    BY <2>1 DEF WriteMetrics, Upsert
  <2>3. metrics[b] \in Nat
    BY DEF TotalInv, Counted
  <2>4. CASE b \in DOMAIN plan.metrics
    <3>1. metrics[b] <= plan.metrics[b] /\ plan.metrics[b] \in Nat
      BY <2>1, <2>4 DEF WriteMetrics, TotalInv, NoLess, Counted
    <3>2. QED
      BY <2>2, <2>3, <2>4, <3>1
  <2>5. QED
    BY <2>2, <2>3, <2>4
<1>2. QED
  BY <1>1, TotalInvAlways, PTL DEF Spec, TotalsGrow

----------------------------------------------------------------------------
(* Nothing is stored that did not happen.                                  *)

(* A stored value of a series is backed by the events of an address that   *)
(* was published under its surrogate; a planned one by those of its own.   *)
Backed(k) ==
    \E p \in published :
        p.surrogate = k[1] /\ entities[k] <= Cardinality(InBucket(Of(events, p.ip), k[2]))

SeriesInv ==
    /\ \A k \in DOMAIN entities : entities[k] \in Nat /\ Backed(k)
    /\ \A r \in plan.entities :
         r.value \in Nat /\ r.value <= Cardinality(InBucket(Of(events, r.ip), r.bucket))

LEMMA OfGrows ==
    ASSUME NEW E, NEW F, IsFiniteSet(F), E \subseteq F, NEW ip, NEW b
    PROVE  /\ Cardinality(InBucket(Of(E, ip), b)) \in Nat
           /\ Cardinality(InBucket(Of(F, ip), b)) \in Nat
           /\ Cardinality(InBucket(Of(E, ip), b)) <= Cardinality(InBucket(Of(F, ip), b))
<1>1. Of(E, ip) \subseteq Of(F, ip) /\ Of(F, ip) \subseteq F
  BY DEF Of
<1>2. IsFiniteSet(Of(F, ip))
  BY <1>1, FS_Subset
<1>3. QED
  BY <1>1, <1>2, InBucketGrows

LEMMA SeriesInvInit == Init => SeriesInv
BY DEF Init, SeriesInv, NoPlan

(* A step that writes no series, and plans none, keeps what holds.         *)
LEMMA SeriesInvElsewhere ==
    ASSUME SeriesInv, TotalInv', events \subseteq events', UNCHANGED <<entities, published>>,
           plan'.entities \subseteq plan.entities
    PROVE  SeriesInv'
<1>1. ASSUME NEW ip, NEW b
      PROVE  /\ Cardinality(InBucket(Of(events, ip), b)) \in Nat
             /\ Cardinality(InBucket(Of(events', ip), b)) \in Nat
             /\ Cardinality(InBucket(Of(events, ip), b)) <= Cardinality(InBucket(Of(events', ip), b))
  BY OfGrows DEF TotalInv, Feed
<1>2. \A v \in Nat : \A ip, b : v <= Cardinality(InBucket(Of(events, ip), b))
                               => v <= Cardinality(InBucket(Of(events', ip), b))
  BY <1>1
<1>3. ASSUME NEW k \in DOMAIN entities PROVE entities[k] \in Nat /\ Backed(k)'
  <2>1. entities[k] \in Nat /\ Backed(k)
    BY DEF SeriesInv
  <2>2. PICK p \in published :
          p.surrogate = k[1] /\ entities[k] <= Cardinality(InBucket(Of(events, p.ip), k[2]))
    BY <2>1 DEF Backed
  <2>3. entities[k] <= Cardinality(InBucket(Of(events', p.ip), k[2]))
    BY <1>2, <2>1, <2>2
  <2>4. QED
    BY <2>1, <2>2, <2>3 DEF Backed, InBucket, Of, Bucket
<1>4. ASSUME NEW r \in plan'.entities
      PROVE  r.value \in Nat /\ r.value <= Cardinality(InBucket(Of(events', r.ip), r.bucket))
  BY <1>2 DEF SeriesInv
<1>5. QED
  BY <1>3, <1>4 DEF SeriesInv, InBucket, Of, Bucket

(* The values of the rows are counts of the window's events.               *)
LEMMA SeriesInvPlan == SeriesInv /\ TotalInv /\ PlanSeries => SeriesInv'
<1> SUFFICES ASSUME SeriesInv, TotalInv, PlanSeries PROVE SeriesInv'
  OBVIOUS
<1>1. PICK top : plan'.entities = EntityRows(Window, top)
  BY DEF PlanSeries
<1>2. UNCHANGED <<events, entities, published>>
  BY DEF PlanSeries, feed, tables, history
<1>3. ASSUME NEW r \in EntityRows(Window, top)
      PROVE  r.value \in Nat /\ r.value <= Cardinality(InBucket(Of(events, r.ip), r.bucket))
  <2>1. r.value = Cardinality(InBucket(Of(Window, r.ip), r.bucket))
    BY DEF EntityRows
  <2>2. Window \subseteq events /\ IsFiniteSet(events)
    BY DEF Window, TotalInv, Feed
  <2>3. QED
    BY <2>1, <2>2, OfGrows
<1>4. \A k \in DOMAIN entities : entities[k] \in Nat /\ Backed(k)'
  BY <1>2 DEF SeriesInv, Backed, InBucket, Of, Bucket
<1>5. QED
  BY <1>1, <1>2, <1>3, <1>4 DEF SeriesInv, InBucket, Of, Bucket

(* Whichever of the rows with one key stays, its address is published.     *)
LEMMA SeriesInvWrite == SeriesInv /\ WriteEntities => SeriesInv'
<1> SUFFICES ASSUME SeriesInv, WriteEntities PROVE SeriesInv'
  OBVIOUS
<1>1. PICK rows \in Collapsed(plan.entities) : entities' = Upsert(entities, rows)
  BY DEF WriteEntities
<1>2. published' = published \cup PlannedSeries /\ UNCHANGED <<events, plan>>
  BY DEF WriteEntities, feed
<1>3. ASSUME NEW k \in DOMAIN entities' PROVE entities'[k] \in Nat /\ Backed(k)'
  <2>1. CASE k \in DOMAIN rows
    <3>1. entities'[k] = rows[k]
      BY <1>1, <2>1 DEF Upsert
    <3>2. PICK r \in plan.entities : <<r.surrogate, r.bucket>> = k /\ r.value = rows[k]
      BY <2>1 DEF Collapsed
    <3>3. r.value \in Nat /\ r.value <= Cardinality(InBucket(Of(events, r.ip), r.bucket))
      BY DEF SeriesInv
    <3> DEFINE p == [ip |-> r.ip, surrogate |-> r.surrogate, version |-> run.version]
    <3>4. p \in published' /\ p.surrogate = k[1] /\ p.ip = r.ip /\ r.bucket = k[2]
      BY <1>2, <3>2 DEF PlannedSeries
    <3>5. QED
      BY <1>2, <3>1, <3>2, <3>3, <3>4 DEF Backed, InBucket, Of, Bucket
  <2>2. CASE k \notin DOMAIN rows
    <3>1. k \in DOMAIN entities /\ entities'[k] = entities[k]
      BY <1>1, <2>2 DEF Upsert
    <3>2. QED
      BY <1>2, <3>1 DEF SeriesInv, Backed, InBucket, Of, Bucket
  <2>3. QED
    BY <2>1, <2>2
<1>4. QED
  BY <1>2, <1>3 DEF SeriesInv, InBucket, Of, Bucket

LEMMA SeriesInvNext == SeriesInv /\ TotalInv /\ TotalInv' /\ [Next]_vars => SeriesInv'
<1> SUFFICES ASSUME SeriesInv, TotalInv, TotalInv', [Next]_vars PROVE SeriesInv'
  OBVIOUS
<1>1. CASE Tick \/ FlowArrives \/ RotateKey \/ UNCHANGED vars
  BY <1>1, SeriesInvElsewhere
     DEF Tick, FlowArrives, RotateKey, vars, feed, tables, resolver, history
<1>2. CASE Begin \/ WriteMap \/ Fail
  <2>1. UNCHANGED <<events, entities, published>> /\ plan' = NoPlan
    BY <1>2 DEF Begin, WriteMap, Fail, Finished, feed, tables, history
  <2>2. QED
    BY <2>1, SeriesInvElsewhere DEF NoPlan
<1>3. CASE PlanTotals \/ WriteMetrics
  BY <1>3, SeriesInvElsewhere DEF PlanTotals, WriteMetrics, feed, tables, history
<1>4. CASE PlanSeries
  BY <1>4, SeriesInvPlan
<1>5. CASE WriteEntities
  BY <1>5, SeriesInvWrite
<1>6. QED
  BY <1>1, <1>2, <1>3, <1>4, <1>5 DEF Next

(* No stored total and no stored value of a series exceeds what happened,  *)
(* however runs fail, are repeated and overlap in their windows            *)
(* (013_public_metrics.sql:16).                                            *)
THEOREM NothingOverstated == Spec => []NeverOverstated
<1>1. TotalInv /\ SeriesInv => NeverOverstated
  BY DEF TotalInv, Counted, SeriesInv, Backed, NeverOverstated
<1>2. QED
  BY <1>1, TotalInvAlways, SeriesInvInit, SeriesInvNext, PTL DEF Spec

----------------------------------------------------------------------------
(* Shared surrogates.                                                      *)

LEMMA MinIsLeast ==
    ASSUME NEW S \in SUBSET Nat, S # {}
    PROVE  Min(S) \in S
<1> DEFINE Less == OpToRel(<, Nat)
<1>0. \A x, y \in Nat : x < y => <<x, y>> \in Less
  BY DEF OpToRel
<1>1. PICK n \in S : \A m \in S : <<m, n>> \notin Less
  <2>1. IsWellFoundedOn(Less, Nat)
    BY NatLessThanWellFounded
  <2> HIDE DEF Less
  <2>2. QED
    BY <2>1, WFMin
<1>2. ASSUME NEW m \in S PROVE n <= m
  <2>1. m \in Nat /\ n \in Nat /\ <<m, n>> \notin Less
    BY <1>1
  <2> HIDE DEF Less
  <2>2. ~(m < n)
    BY <1>0, <2>1
  <2>3. QED
    BY <2>1, <2>2
<1>3. QED
  BY <1>2 DEF Min

(* A prefix as long as the digest is the digest.                           *)
LEMMA WholeDigest ==
    ASSUME NEW v \in Versions, NEW ip \in IPs
    PROVE  Surrogate(v, ip, Len(Digest[v][ip])) = Digest[v][ip]
<1> DEFINE d == Digest[v][ip]
<1>1. d \in Seq(Nat)
  BY DigestAssumption
<1> HIDE DEF d
<1>2. Len(d) \in Nat /\ \A i \in 1..Len(d) : d[i] \in Nat
  BY <1>1
<1>3. /\ SubSeq(d, 1, Len(d)) \in Seq(Nat)
      /\ Len(SubSeq(d, 1, Len(d))) = Len(d)
      /\ \A i \in 1..Len(d) : SubSeq(d, 1, Len(d))[i] = d[i]
  BY <1>2, SubSeqProperties
<1>4. SubSeq(d, 1, Len(d)) = d
  BY <1>1, <1>3
<1>5. QED
  BY <1>4 DEF Surrogate, d

(* A surrogate as it is minted: a prefix of the digest of its address.     *)
Prefixes(ip) ==
    UNION {{s \in Seq(Nat) : \E m \in BaseLength..Len(Digest[w][ip]) : s = Surrogate(w, ip, m)} :
              w \in Versions}

(* No prefix of the digest of another address is the whole of this one.    *)
LEMMA WholeDigestIsFree ==
    ASSUME NEW v \in Versions, NEW ip \in IPs, NEW other \in IPs, other # ip,
           NEW s \in Prefixes(other)
    PROVE  s # Digest[v][ip]
<1> SUFFICES ASSUME s = Digest[v][ip] PROVE FALSE
  OBVIOUS
<1>1. PICK w \in Versions : \E m \in BaseLength..Len(Digest[w][other]) : s = Surrogate(w, other, m)
  BY DEF Prefixes
<1>2. Len(Digest[v][ip]) = Len(Digest[w][other]) /\ Digest[w][other] \in Seq(Nat)
  BY DigestAssumption
<1> PICK m \in BaseLength..Len(Digest[w][other]) : s = Surrogate(w, other, m)
  BY <1>1
<1>3. m \in Nat /\ m >= 1 /\ \A i \in 1..m : Digest[w][other][i] \in Nat
  BY <1>2, DigestAssumption
<1>4. Len(s) = m
  BY <1>1, <1>3, SubSeqProperties DEF Surrogate
<1>5. m = Len(Digest[w][other])
  BY <1>2, <1>4
<1>6. s = Digest[w][other]
  BY <1>1, <1>5, WholeDigest
<1>7. Digest[v][ip] = Digest[w][other] => ip = other
  BY DigestAssumption
<1>8. QED
  BY <1>6, <1>7

(* A new surrogate is a prefix of the address's own digest, and taken by   *)
(* nobody in the map: the whole digest would do if no shorter one did.     *)
LEMMA MintFresh ==
    ASSUME NEW existing, NEW v \in Versions, NEW ip \in IPs, ip \notin DOMAIN existing,
           DOMAIN existing \subseteq IPs,
           \A other \in DOMAIN existing : existing[other] \in Prefixes(other)
    PROVE  /\ MintSurrogate(existing, v, ip) \in Prefixes(ip)
           /\ MintSurrogate(existing, v, ip) \notin Range(existing)
<1> DEFINE top == Len(Digest[v][ip])
           free == {length \in BaseLength..top : Surrogate(v, ip, length) \notin Range(existing)}
<1>1. Digest[v][ip] \in Seq(Nat) /\ BaseLength \in Nat /\ BaseLength >= 1
      /\ BaseLength <= top
  BY DigestAssumption
<1>2. top \in Nat
  BY <1>1
<1>3. Digest[v][ip] \notin Range(existing)
  BY WholeDigestIsFree DEF Range
<1>4. top \in free
  BY <1>1, <1>2, <1>3, WholeDigest
<1>5. free \in SUBSET Nat /\ free # {}
  BY <1>1, <1>2, <1>4
<1>6. Min(free) \in free
  BY <1>5, MinIsLeast
<1>7. MintSurrogate(existing, v, ip) = Surrogate(v, ip, Min(free))
  BY DEF MintSurrogate
<1>8. PICK n \in BaseLength..top : n = Min(free) /\ Surrogate(v, ip, n) \notin Range(existing)
  BY <1>6
<1>9. Surrogate(v, ip, n) \in Seq(Nat)
  <2>1. \A i \in 1..n : Digest[v][ip][i] \in Nat
    BY <1>1, <1>2
  <2>2. QED
    BY <1>1, <1>2, <2>1, SubSeqProperties DEF Surrogate
<1> DEFINE new == Surrogate(v, ip, n)
<1>10. \E m \in BaseLength..top : new = Surrogate(v, ip, m)
  BY <1>8
<1> HIDE DEF new
<1>11. new \in Prefixes(ip)
  BY <1>9, <1>10 DEF Prefixes, new
<1>12. QED
  BY <1>7, <1>8, <1>11 DEF new
(* What is planned is about known addresses and keys.                      *)
Known ==
    /\ version \in Versions
    /\ \A e \in events : e.ip \in IPs
    /\ pc # "idle" => run.version \in Versions
    /\ pc \in Planning => \A k \in DOMAIN plan.map : k[1] \in IPs

(* The loaded map holds no address that the table does not.                *)
LoadedBack == pc # "idle" => \A ip \in DOMAIN run.pmap : \E k \in DOMAIN map : k[1] = ip

MapPrefixes == \A k \in DOMAIN map : k[1] \in IPs /\ map[k] \in Prefixes(k[1])

MintedMap == DOMAIN minted = {k[1] : k \in DOMAIN map}

ShareInv == Known /\ LoadedBack /\ MapPrefixes /\ MintedMap /\ SharedOnlyWithinARun

LEMMA ShareInvInit == Init => ShareInv
<1> SUFFICES ASSUME Init PROVE ShareInv
  OBVIOUS
<1>1. version \in Versions
  BY DigestAssumption, MinIsLeast DEF Init
<1>2. DOMAIN map = {} /\ DOMAIN minted = {}
  BY DEF Init
<1>3. QED
  BY <1>1, <1>2 DEF Init, ShareInv, Known, LoadedBack, MapPrefixes, MintedMap,
                    SharedOnlyWithinARun, Planning

(* Nothing but a run's last insert touches the map and its history.        *)
LEMMA ShareInvElsewhere ==
    ASSUME ShareInv, UNCHANGED <<map, minted>>, Known', LoadedBack'
    PROVE  ShareInv'
BY DEF ShareInv, MapPrefixes, MintedMap, SharedOnlyWithinARun

(* An address that the run found in the map keeps its surrogate; to one    *)
(* that it did not, it gives a surrogate nobody in the map has.            *)
LEMMA WrittenSurrogates ==
    ASSUME MapInv, ShareInv, WriteMap, NEW k \in DOMAIN map'
    PROVE  /\ k[1] \in IPs /\ map'[k] \in Prefixes(k[1])
           /\ k[1] \in DOMAIN minted' 
           /\ \/ /\ minted'[k[1]] = minted[k[1]]
                 /\ \E l \in DOMAIN map : l[1] = k[1] /\ map'[k] = map[l]
              \/ /\ minted'[k[1]] = runs
                 /\ \A l \in DOMAIN map : map'[k] # map[l]
<1>1. pc = "write_map" /\ map' = Upsert(map, plan.map) /\ run.version \in Versions
  BY DEF WriteMap, ShareInv, Known
<1>2. k \in DOMAIN map \cup DOMAIN plan.map
  BY <1>1 DEF Upsert
<1>3. map'[k] = MintSurrogate(run.pmap, run.version, k[1])
  BY WriteMapAdds
<1>4. k[1] \in IPs
  BY <1>1, <1>2 DEF ShareInv, Known, MapPrefixes, Planning
<1>5. /\ DOMAIN minted' = DOMAIN minted \cup {q[1] : q \in DOMAIN plan.map}
      /\ \A ip \in DOMAIN minted' : minted'[ip] = IF ip \in DOMAIN minted THEN minted[ip] ELSE runs
  BY DEF WriteMap
<1>6. k[1] \in DOMAIN minted'
  BY <1>2, <1>5 DEF ShareInv, MintedMap
<1>7. DOMAIN run.pmap \subseteq DOMAIN minted /\ DOMAIN minted \subseteq DOMAIN run.pmap
  BY <1>1 DEF ShareInv, MintedMap, LoadedBack, MapInv, Loaded
<1>8. \A l \in DOMAIN map : l[1] \in DOMAIN run.pmap /\ run.pmap[l[1]] = map[l]
  BY <1>1 DEF MapInv, Loaded
<1>9. CASE k[1] \in DOMAIN run.pmap
  <2>1. PICK l \in DOMAIN map : l[1] = k[1]
    BY <1>1, <1>9 DEF ShareInv, LoadedBack
  <2>2. map'[k] = map[l]
    BY <1>3, <1>8, <1>9, <2>1, MintReuses
  <2>3. minted'[k[1]] = minted[k[1]]
    BY <1>5, <1>6, <1>7, <1>9
  <2>4. map'[k] \in Prefixes(k[1])
    BY <2>1, <2>2 DEF ShareInv, MapPrefixes
  <2>5. QED
    BY <1>4, <1>6, <2>1, <2>2, <2>3, <2>4
<1>10. CASE k[1] \notin DOMAIN run.pmap
  <2>1. DOMAIN run.pmap \subseteq IPs
    BY <1>1 DEF ShareInv, LoadedBack, MapPrefixes
  <2>2. ASSUME NEW ip \in DOMAIN run.pmap PROVE run.pmap[ip] \in Prefixes(ip)
    <3>1. PICK l \in DOMAIN map : l[1] = ip
      BY <1>1 DEF ShareInv, LoadedBack
    <3>2. QED
      BY <1>8, <3>1 DEF ShareInv, MapPrefixes
  <2>3. map'[k] \in Prefixes(k[1]) /\ map'[k] \notin Range(run.pmap)
    BY <1>1, <1>3, <1>4, <1>10, <2>1, <2>2, MintFresh
  <2>4. \A l \in DOMAIN map : map'[k] # map[l]
    BY <1>8, <2>3 DEF Range
  <2>5. minted'[k[1]] = runs
    BY <1>5, <1>6, <1>7, <1>10
  <2>6. QED
    BY <1>4, <1>6, <2>3, <2>4, <2>5
<1>11. QED
  BY <1>9, <1>10

LEMMA ShareInvWriteMap == MapInv /\ ShareInv /\ WriteMap => ShareInv'
<1> SUFFICES ASSUME MapInv, ShareInv, WriteMap PROVE ShareInv'
  OBVIOUS
<1>1. MapPrefixes'
  BY WrittenSurrogates DEF MapPrefixes
<1>2. SharedOnlyWithinARun'
  <2> SUFFICES ASSUME NEW k \in DOMAIN map', NEW l \in DOMAIN map', map'[k] = map'[l], k[1] # l[1]
               PROVE  minted'[k[1]] = minted'[l[1]]
    BY DEF SharedOnlyWithinARun
  <2> DEFINE Kept(q) == /\ minted'[q[1]] = minted[q[1]]
                        /\ \E m \in DOMAIN map : m[1] = q[1] /\ map'[q] = map[m]
             New(q) == /\ minted'[q[1]] = runs
                       /\ \A m \in DOMAIN map : map'[q] # map[m]
  <2>1. (Kept(k) \/ New(k)) /\ (Kept(l) \/ New(l))
    BY WrittenSurrogates
  <2>2. CASE Kept(k) /\ Kept(l)
    BY <2>2 DEF ShareInv, SharedOnlyWithinARun
  <2>3. CASE New(k) /\ New(l)
    BY <2>3
  <2>4. CASE (Kept(k) /\ New(l)) \/ (New(k) /\ Kept(l))
    BY <2>4
  <2>5. QED
    BY <2>1, <2>2, <2>3, <2>4
<1>3. MintedMap'
  <2>1. DOMAIN map' = DOMAIN map \cup DOMAIN plan.map
    BY DEF WriteMap, Upsert
  <2>2. DOMAIN minted' = DOMAIN minted \cup {q[1] : q \in DOMAIN plan.map}
    BY DEF WriteMap
  <2>3. QED
    BY <2>1, <2>2 DEF ShareInv, MintedMap
<1>4. Known' /\ LoadedBack'
  BY DEF WriteMap, Finished, feed, ShareInv, Known, LoadedBack, Planning
<1>5. QED
  BY <1>1, <1>2, <1>3, <1>4 DEF ShareInv

LEMMA ShareInvNext == MapInv /\ ShareInv /\ [Next]_vars => ShareInv'
<1> SUFFICES ASSUME MapInv, ShareInv, [Next]_vars PROVE ShareInv'
  OBVIOUS
<1>1. CASE Tick \/ RotateKey \/ UNCHANGED vars
  <2>1. UNCHANGED <<events, map, minted, pc, run, plan>> /\ version' \in Versions
    BY <1>1 DEF Tick, RotateKey, vars, feed, tables, resolver, history, ShareInv, Known
  <2>2. Known' /\ LoadedBack'
    BY <2>1 DEF ShareInv, Known, LoadedBack
  <2>3. QED
    BY <2>1, <2>2, ShareInvElsewhere
<1>2. CASE FlowArrives
  <2>1. UNCHANGED <<version, map, minted, pc, run, plan>> /\ \A e \in events' : e.ip \in IPs
    BY <1>2 DEF FlowArrives, tables, resolver, history, ShareInv, Known
  <2>2. Known' /\ LoadedBack'
    BY <2>1 DEF ShareInv, Known, LoadedBack
  <2>3. QED
    BY <2>1, <2>2, ShareInvElsewhere
<1>3. CASE Begin
  <2>1. PICK pmap \in [{k[1] : k \in DOMAIN map} -> {map[k] : k \in DOMAIN map}] :
          run' = [version |-> version, since |-> clock - Lookback, pmap |-> pmap]
    BY <1>3 DEF Begin
  <2>2. run'.version = version /\ DOMAIN run'.pmap = {k[1] : k \in DOMAIN map}
    BY <2>1
  <2>3. pc' = "series" /\ UNCHANGED <<events, version, map, minted>>
    BY <1>3 DEF Begin, feed, tables, history
  <2>4. Known' /\ LoadedBack'
    BY <2>2, <2>3 DEF ShareInv, Known, LoadedBack, Planning
  <2>5. QED
    BY <2>3, <2>4, ShareInvElsewhere
<1>4. CASE PlanSeries
  <2>1. PICK top \in Tops(Window) :
          plan' = [metrics |-> <<>>, entities |-> EntityRows(Window, top),
                   map |-> MapRows(EntityRows(Window, top))]
    BY <1>4 DEF PlanSeries
  <2>2. pc = "series" /\ pc' = "totals" /\ UNCHANGED <<events, version, map, minted, run>>
    BY <1>4 DEF PlanSeries, feed, tables, history
  <2>3. \A r \in EntityRows(Window, top) : r.ip \in IPs
    BY DEF EntityRows, Window, ShareInv, Known
  <2>4. \A k \in DOMAIN MapRows(EntityRows(Window, top)) : k[1] \in IPs
    BY <2>3 DEF MapRows
  <2>5. plan'.map = MapRows(EntityRows(Window, top))
    BY <2>1
  <2>6. Known' /\ LoadedBack'
    BY <2>2, <2>4, <2>5 DEF ShareInv, Known, LoadedBack
  <2>7. QED
    BY <2>2, <2>6, ShareInvElsewhere
<1>5. CASE PlanTotals \/ WriteMetrics \/ WriteEntities
  <2>1. /\ pc \in Planning /\ pc' \in Planning
        /\ UNCHANGED <<events, version, map, minted, run, plan.map>>
    BY <1>5 DEF PlanTotals, WriteMetrics, WriteEntities, Planning, feed, tables, history
  <2>2. Known' /\ LoadedBack'
    BY <2>1 DEF ShareInv, Known, LoadedBack, Planning
  <2>3. QED
    BY <2>1, <2>2, ShareInvElsewhere
<1>6. CASE WriteMap
  BY <1>6, ShareInvWriteMap
<1>7. CASE Fail
  <2>1. pc' = "idle" /\ UNCHANGED <<events, version, map, minted>>
    BY <1>7 DEF Fail, Finished, feed, tables
  <2>2. Known' /\ LoadedBack'
    BY <2>1 DEF ShareInv, Known, LoadedBack, Planning
  <2>3. QED
    BY <2>1, <2>2, ShareInvElsewhere
<1>8. QED
  BY <1>1, <1>2, <1>3, <1>4, <1>5, <1>6, <1>7 DEF Next

(* Two addresses never share a surrogate, except when both entered the map *)
(* in one run: however prefixes collide, keys are rotated, runs are lost   *)
(* and the map is loaded again, mint_surrogate finds a free prefix at the  *)
(* latest at the whole digest (pseudonym.py:33-57, resolve.py:115-138).    *)
THEOREM SharingOnlyWithinARun == Spec => []SharedOnlyWithinARun
<1>1. Spec => []ShareInv
  BY ShareInvInit, ShareInvNext, MapInvAlways, PTL DEF Spec
<1>2. ShareInv => SharedOnlyWithinARun
  BY DEF ShareInv
<1>3. QED
  BY <1>1, <1>2, PTL

----------------------------------------------------------------------------
(* What a file makes of a server.                                          *)

\* The entries a caller can be authenticated to are entries of the file.
LEMMA VerifierTokensSubset ==
    ASSUME NEW t, NEW f PROVE VerifierTokens(t, f) \subseteq f.entries
<1> DEFINE keyed == NormalizeTokenKeys(f.entries)
<1>1. ASSUME NEW k \in DOMAIN keyed PROVE keyed[k] \in f.entries
    <2>1. PICK e \in f.entries : e.token = k
        BY DEF NormalizeTokenKeys, TokensOf
    <2> QED BY <2>1 DEF NormalizeTokenKeys
<1> QED BY <1>1 DEF VerifierTokens

\* Of a file that loads they are all the entries the tier accepts.
LEMMA VerifierTokensLoaded ==
    ASSUME NEW t, NEW f, TokensLoad(f)
    PROVE  VerifierTokens(t, f) = {e \in f.entries : t = "sovereign" => e.local}
<1> DEFINE keyed == NormalizeTokenKeys(f.entries)
<1>1. DOMAIN keyed = TokensOf(f.entries)
    BY DEF NormalizeTokenKeys
<1>2. ASSUME NEW e \in f.entries PROVE e.token \in DOMAIN keyed /\ keyed[e.token] = e
    <2>1. e.token \in TokensOf(f.entries)
        BY DEF TokensOf
    <2>2. \A x \in f.entries : x.token = e.token => x = e
        BY DEF TokensLoad, Shadowed
    <2>3. (CHOOSE x \in f.entries : x.token = e.token) = e
        BY <2>2
    <2> QED BY <1>1, <2>1, <2>3 DEF NormalizeTokenKeys
<1>3. ASSUME NEW k \in DOMAIN keyed PROVE \E e \in f.entries : e.token = k /\ keyed[k] = e
    <2>1. PICK e \in f.entries : e.token = k
        BY <1>1 DEF TokensOf
    <2> QED BY <1>2, <2>1
<1> QED BY <1>2, <1>3 DEF VerifierTokens

\* A tier registers tools only.
LEMMA RegisteredSubset ==
    ASSUME NEW t, NEW o PROVE Registered(t, o) \subseteq Tools
BY DEF Registered, RawTools, Tools

\* A minted entry beside the ones of a file that loads, with a token of its
\* own, gives a file that loads.
LEMMA MintedLoads ==
    ASSUME NEW f, TokensLoad(f), NEW e \in f.entries, NEW m,
           m.sound = e.sound, m.token \notin TokensOf(f.entries),
           NEW g, g.single = f.single, g.present = f.present, g.private = f.private,
           g.parses = f.parses, g.entries = f.entries \cup {m}
    PROVE  TokensLoad(g)
<1>1. \A x \in g.entries : x.sound
    BY DEF TokensLoad
<1>2. ~Shadowed(g.entries)
    <2> SUFFICES ASSUME NEW x \in g.entries, NEW y \in g.entries, x # y PROVE x.token # y.token
        BY DEF Shadowed
    <2>1. CASE x \in f.entries /\ y \in f.entries
        BY <2>1 DEF TokensLoad, Shadowed
    <2>2. CASE x = m \/ y = m
        BY <2>2 DEF TokensOf
    <2> QED BY <2>1, <2>2
<1> QED BY <1>1, <1>2 DEF TokensLoad

\* So does a file that loads without one of its entries, while one is left.
LEMMA WithoutLoads ==
    ASSUME NEW f, TokensLoad(f), NEW D, NEW e \in f.entries \ D,
           NEW g, g.single = f.single, g.present = f.present, g.private = f.private,
           g.parses = f.parses, g.entries = f.entries \ D
    PROVE  TokensLoad(g)
BY DEF TokensLoad, Shadowed

\* What mint_token makes of an entry is an entry, with the same grants.
LEMMA MintedEntry ==
    ASSUME NEW e \in Entries, NEW t \in Tokens, NEW u \in Nat
    PROVE  /\ [e EXCEPT !.form = "sha256", !.token = t, !.expires = u] \in Entries
           /\ [e EXCEPT !.form = "sha256", !.token = t, !.expires = u].token = t
<1>1. PICK a : a = [e EXCEPT !.form = "sha256"]
    OBVIOUS
<1>2. a \in Entries
    BY <1>1 DEF Entries, Forms
<1>3. PICK b : b = [a EXCEPT !.token = t]
    OBVIOUS
<1>4. b \in Entries /\ b.token = t
    BY <1>2, <1>3 DEF Entries
<1>5. [b EXCEPT !.expires = u] \in Entries /\ [b EXCEPT !.expires = u].token = t
    BY <1>4 DEF Entries
<1>6. [b EXCEPT !.expires = u] = [e EXCEPT !.form = "sha256", !.token = t, !.expires = u]
    BY <1>1, <1>3, Zenon
<1> QED BY <1>5, <1>6

----------------------------------------------------------------------------
(* The inductive invariant.                                                *)

\* The running process is what the files it read make of it.
ProcessOfFiles ==
    /\ server.up =>
          /\ TokensLoad(read.file) /\ ClassificationLoads(read.overrides)
          /\ server.tokens = VerifierTokens(tier, read.file)
          /\ server.tools = Registered(tier, read.overrides)
    /\ \A c \in Clients : holds[c] \in used

\* How far a rotation is, and what the file, the process and the clients have
\* to do with the old entry and the new one by then.
RotationOf(old, new) ==
    /\ rotation.old = {old} /\ rotation.new = {new}
    /\ old.token # new.token
    /\ TokensLoad(file) /\ ClassificationLoads(overrides)
    /\ tier = "sovereign" => old.local /\ new.local
    /\ new \in file.entries
    /\ rotation.stage = "added" =>
          /\ old \in file.entries
          /\ server.up => old \in server.tokens
          /\ \A c \in Clients : holds[c] # new.token
    /\ rotation.stage = "moving" =>
          /\ old \in file.entries
          /\ server.up => old \in server.tokens /\ new \in server.tokens
    /\ rotation.stage \in {"deleted", "done"} =>
          /\ \A e \in file.entries : e.token # old.token
          /\ \A c \in Clients : holds[c] # old.token
          /\ server.up => new \in server.tokens
    /\ rotation.stage = "done" /\ server.up => \A e \in server.tokens : e.token # old.token

Rotating == rotation.stage # "none" => \E old, new \in Entries : RotationOf(old, new)

Inv == TypeOK /\ ProcessOfFiles /\ Rotating /\ ServedAreGranted

----------------------------------------------------------------------------
LEMMA InvInit == ServerInit => Inv
<1> SUFFICES ASSUME ServerInit PROVE Inv
    OBVIOUS
<1> USE ServerAssumption DEF ServerInit
<1>1. TypeOK
    <2>1. server \in [up : BOOLEAN, tokens : SUBSET read.file.entries, tools : SUBSET Tools]
        BY DEF Down
    <2>2. rotation \in [stage : Stages, old : SUBSET Entries, new : SUBSET Entries]
        BY DEF NoRotation, Stages
    <2>3. file \in TokenMaps /\ read.file \in TokenMaps
        OBVIOUS
    <2>4. TokensOf(file.entries) \subseteq used
        BY <2>3 DEF TokensOf, TokenMaps, Entries
    <2> QED BY <2>1, <2>2, <2>3, <2>4 DEF TypeOK
<1>2. ProcessOfFiles
    BY DEF ProcessOfFiles, Down
<1>3. Rotating
    BY DEF Rotating, NoRotation
<1>4. ServedAreGranted
    BY DEF ServedAreGranted, NoCall
<1> QED BY <1>1, <1>2, <1>3, <1>4 DEF Inv

\* Every step keeps the types.
LEMMA TypeNext == Inv /\ [ServerNext]_serverVars => TypeOK'
<1> SUFFICES ASSUME Inv, [ServerNext]_serverVars PROVE TypeOK'
    OBVIOUS
<1> USE ServerAssumption DEF Inv, TypeOK
<1>1. CASE Elapse
    BY <1>1 DEF Elapse, files
<1>2. CASE Start
    BY <1>2, VerifierTokensSubset, RegisteredSubset DEF Start, files
<1>3. CASE Stop
    BY <1>3 DEF Stop, files, Down
<1>4. CASE Edit
    <2>1. file' \in TokenMaps
        BY <1>4 DEF Edit
    <2>2. TokensOf(file'.entries) \subseteq Tokens
        BY <2>1 DEF TokensOf, TokenMaps, Entries
    <2> QED BY <1>4, <2>1, <2>2 DEF Edit
<1>5. CASE AddEntry
    <2>1. PICK e \in file.entries \cap server.tokens, t \in Tokens \ used :
              LET fresh == [e EXCEPT !.form = "sha256", !.token = t, !.expires = now + Lifetime]
              IN  /\ file' = [file EXCEPT !.entries = @ \cup {fresh}]
                  /\ rotation' = [stage |-> "added", old |-> {e}, new |-> {fresh}]
                  /\ used' = used \cup {t}
        BY <1>5 DEF AddEntry
    <2> DEFINE fresh == [e EXCEPT !.form = "sha256", !.token = t, !.expires = now + Lifetime]
    <2>2. e \in Entries
        BY DEF TokenMaps
    <2>3. fresh \in Entries /\ fresh.token = t
        <3>1. now + Lifetime \in Nat
            OBVIOUS
        <3>2. PICK until \in Nat : until = now + Lifetime
            BY <3>1
        <3>3. t \in Tokens
            OBVIOUS
        <3>4. fresh = [e EXCEPT !.form = "sha256", !.token = t, !.expires = until]
            BY <3>2
        <3> HIDE DEF fresh, TypeOK, Inv
        <3> QED BY <2>2, <3>3, <3>4, MintedEntry
    <2> HIDE DEF fresh
    <2>4. file'.entries = file.entries \cup {fresh} /\ file' \in TokenMaps
        BY <2>1, <2>3 DEF TokenMaps, fresh
    <2>5. TokensOf(file'.entries) \subseteq used'
        BY <2>1, <2>3, <2>4 DEF TokensOf
    <2>6. rotation' \in [stage : Stages, old : SUBSET Entries, new : SUBSET Entries]
        BY <2>1, <2>2, <2>3 DEF fresh, Stages
    <2> QED BY <1>5, <2>1, <2>4, <2>5, <2>6 DEF AddEntry
<1>6. CASE Restarted
    BY <1>6 DEF Restarted, files, Stages
<1>7. CASE DeleteEntry
    <2>1. file' \in TokenMaps /\ file'.entries \subseteq file.entries
        BY <1>7 DEF DeleteEntry, TokenMaps
    <2>2. TokensOf(file'.entries) \subseteq used
        BY <2>1 DEF TokensOf
    <2> QED BY <1>7, <2>1, <2>2 DEF DeleteEntry, Stages
<1>8. CASE RestartedAgain
    BY <1>8 DEF RestartedAgain, files, Stages
<1>9. CASE \E c \in Clients : Move(c)
    <2>1. \A x \in rotation.new : x.token \in Tokens
        BY DEF Entries
    <2> QED BY <1>9, <2>1 DEF Move, files
<1>10. CASE \E c \in Clients, tool \in Asked : Call(c, tool)
    BY <1>10 DEF Call, files
<1>11. CASE UNCHANGED serverVars
    BY <1>11 DEF serverVars, files
<1> QED BY <1>1, <1>2, <1>3, <1>4, <1>5, <1>6, <1>7, <1>8, <1>9, <1>10, <1>11 DEF ServerNext

----------------------------------------------------------------------------
(* The parts of the invariant that say what the code is relied on for.     *)

LEMMA ProcessNext == Inv /\ [ServerNext]_serverVars => ProcessOfFiles'
<1> SUFFICES ASSUME Inv, [ServerNext]_serverVars PROVE ProcessOfFiles'
    OBVIOUS
<1> USE DEF Inv, ProcessOfFiles
<1>1. CASE Start
    BY <1>1 DEF Start, files
<1>2. CASE Stop
    BY <1>2 DEF Stop, files, Down
<1>3. CASE Edit
    BY <1>3 DEF Edit
<1>4. CASE AddEntry
    BY <1>4 DEF AddEntry
<1>5. CASE DeleteEntry
    BY <1>5 DEF DeleteEntry
<1>6. CASE \E c \in Clients : Move(c)
    <2>1. \A e \in rotation.new : e.token \in used
        <3>1. PICK old, new \in Entries : RotationOf(old, new)
            BY <1>6 DEF Move, Rotating
        <3> QED BY <3>1 DEF RotationOf, TypeOK, TokensOf
    <2> QED BY <1>6, <2>1 DEF Move, files, TypeOK
<1>7. CASE Elapse \/ Restarted \/ RestartedAgain
    BY <1>7 DEF Elapse, Restarted, RestartedAgain, files
<1>8. CASE \E c \in Clients, tool \in Asked : Call(c, tool)
    BY <1>8 DEF Call, files
<1>9. CASE UNCHANGED serverVars
    BY <1>9 DEF serverVars, files
<1> QED BY <1>1, <1>2, <1>3, <1>4, <1>5, <1>6, <1>7, <1>8, <1>9 DEF ServerNext

\* A served call was made with an entry the process holds, and the process
\* holds entries of the file it read only.
LEMMA ServedNext == Inv /\ [ServerNext]_serverVars => ServedAreGranted'
<1> SUFFICES ASSUME Inv, [ServerNext]_serverVars PROVE ServedAreGranted'
    OBVIOUS
<1> USE DEF Inv
<1>1. CASE \E c \in Clients, tool \in Asked : Call(c, tool)
    <2>1. PICK c \in Clients, tool \in Asked : Call(c, tool)
        BY <1>1
    <2> SUFFICES ASSUME call'.outcome = "served" PROVE ServedAreGranted'
        BY DEF ServedAreGranted
    <2> DEFINE entry == Authenticated(server.tokens, holds[c])
               Permitted(e) == now < e.expires /\ tool \in e.tools
    <2>0. tool \in server.tools
        BY <2>1 DEF Call
    <2>2. PICK e \in entry : Permitted(e)
        BY <2>1 DEF Call
    <2>3. e \in server.tokens /\ server.tokens = VerifierTokens(tier, read.file)
        BY <2>1, <2>2 DEF Call, ProcessOfFiles, Authenticated
    <2>4. TokensLoad(read.file)
        BY <2>1 DEF Call, ProcessOfFiles
    <2>5. e \in read.file.entries /\ (tier = "sovereign" => e.local)
        BY <2>3, <2>4, VerifierTokensLoaded
    <2>6. /\ e.sound /\ (read.file.private \/ read.file.single)
          /\ \A f \in read.file.entries : f.token = e.token => f = e
        BY <2>5, <2>4 DEF TokensLoad, Shadowed
    <2>7. call'.entry = entry /\ call'.tool = tool /\ call'.at = now
        BY <2>1 DEF Call
    <2> QED BY <2>0, <2>1, <2>2, <2>5, <2>6, <2>7 DEF Call, ServedAreGranted
<1>2. CASE Start
    BY <1>2 DEF Start, NoCall, ServedAreGranted
<1>3. CASE Stop
    BY <1>3 DEF Stop, NoCall, ServedAreGranted
<1>4. CASE Elapse \/ Edit \/ AddEntry \/ Restarted \/ DeleteEntry \/ RestartedAgain
    <2>1. call' = call /\ read' = read /\ tier' = tier /\ server' = server
        BY <1>4 DEF Elapse, Edit, AddEntry, Restarted, DeleteEntry, RestartedAgain
    <2> QED BY <2>1 DEF ServedAreGranted
<1>5. CASE \E c \in Clients : Move(c)
    BY <1>5 DEF Move, ServedAreGranted
<1>6. CASE UNCHANGED serverVars
    BY <1>6 DEF serverVars, ServedAreGranted
<1> QED BY <1>1, <1>2, <1>3, <1>4, <1>5, <1>6 DEF ServerNext

\* The entries of a rotation are kept as its stages go by.
LEMMA RotatingNext == Inv /\ [ServerNext]_serverVars => Rotating'
<1> SUFFICES ASSUME Inv, [ServerNext]_serverVars, rotation'.stage # "none"
             PROVE  \E old, new \in Entries : RotationOf(old, new)'
    BY DEF Rotating
<1> USE DEF Inv
<1>1. CASE AddEntry
    <2>1. PICK e \in file.entries \cap server.tokens, t \in Tokens \ used :
              LET fresh == [e EXCEPT !.form = "sha256", !.token = t, !.expires = now + Lifetime]
              IN  /\ file' = [file EXCEPT !.entries = @ \cup {fresh}]
                  /\ rotation' = [stage |-> "added", old |-> {e}, new |-> {fresh}]
                  /\ used' = used \cup {t}
        BY <1>1 DEF AddEntry
    <2>2. e \in Entries
        BY DEF TypeOK, TokenMaps
    <2>0. PICK fresh :
              fresh = [e EXCEPT !.form = "sha256", !.token = t, !.expires = now + Lifetime]
        OBVIOUS
    <2>3. fresh.token = t /\ fresh.sound = e.sound /\ fresh.local = e.local
        BY <2>0, <2>2 DEF Entries
    <2>4. fresh \in rotation'.new /\ rotation'.old = {e} /\ rotation'.new = {fresh}
          /\ rotation'.stage = "added"
        BY <2>0, <2>1
    <2>5. fresh \in Entries
        BY <2>4, TypeNext DEF TypeOK
    <2>6. /\ file'.single = file.single /\ file'.present = file.present
          /\ file'.private = file.private /\ file'.parses = file.parses
          /\ file'.entries = file.entries \cup {fresh}
        BY <2>0, <2>1 DEF TypeOK, TokenMaps
    <2>7. t \notin TokensOf(file.entries) /\ \A c \in Clients : holds[c] # t
        BY DEF TypeOK, ProcessOfFiles
    <2>8. TokensLoad(file')
        BY <1>1, <2>3, <2>6, <2>7, MintedLoads DEF AddEntry
    <2>9. tier = "sovereign" => e.local
        BY <1>1, VerifierTokensLoaded DEF AddEntry, ProcessOfFiles
    <2>10. e.token # t
        BY <2>7 DEF TokensOf
    <2>11. RotationOf(e, fresh)'
        BY <1>1, <2>3, <2>4, <2>6, <2>7, <2>8, <2>9, <2>10 DEF AddEntry, RotationOf
    <2> QED BY <2>2, <2>5, <2>11
<1>2. CASE ~AddEntry
    <2>1. rotation.stage # "none"
        BY <1>2 DEF ServerNext, Elapse, Start, Stop, Edit, Restarted, DeleteEntry, RestartedAgain, Move,
                    Call, serverVars
    <2>2. PICK old, new \in Entries : RotationOf(old, new)
        BY <2>1 DEF Rotating
    <2>3. ~Edit
        BY <2>1 DEF Edit
    <2>4. rotation.stage \in {"added", "moving", "deleted", "done"}
        BY <2>1 DEF TypeOK, Stages
    <2>5. CASE Start
        <3>1. server'.tokens = VerifierTokens(tier, file)
            BY <2>5 DEF Start
        <3>2. \A e \in file.entries : (tier = "sovereign" => e.local) => e \in server'.tokens
            BY <2>5, <3>1, VerifierTokensLoaded DEF Start
        <3>3. server'.tokens \subseteq file.entries
            BY <3>1, VerifierTokensSubset
        <3> QED BY <2>2, <2>4, <2>5, <3>2, <3>3 DEF Start, files, RotationOf
    <2>6. CASE Stop
        BY <2>2, <2>4, <2>6 DEF Stop, Down, files, RotationOf
    <2>7. CASE Restarted
        <3>1. server.tokens = VerifierTokens(tier, file) /\ TokensLoad(file)
            BY <2>7 DEF Restarted, ProcessOfFiles
        <3>2. old \in server.tokens /\ new \in server.tokens
            BY <2>2, <2>7, <3>1, VerifierTokensLoaded DEF Restarted, RotationOf
        <3>3. rotation'.stage = "moving" /\ rotation'.old = rotation.old /\ rotation'.new = rotation.new
            BY <2>7 DEF Restarted, TypeOK
        <3> QED BY <2>2, <2>7, <3>2, <3>3 DEF Restarted, files, RotationOf
    <2>8. CASE \E c \in Clients : Move(c)
        BY <2>2, <2>8 DEF Move, files, RotationOf
    <2>9. CASE DeleteEntry
        <3>1. /\ file'.single = file.single /\ file'.present = file.present
              /\ file'.private = file.private /\ file'.parses = file.parses
              /\ file'.entries = file.entries \ {old}
            BY <2>2, <2>9 DEF DeleteEntry, RotationOf, TypeOK, TokenMaps
        <3>2. new \in file.entries \ {old} /\ old \in file.entries
            BY <2>2, <2>9 DEF DeleteEntry, RotationOf
        <3>3. TokensLoad(file')
            BY <2>2, <3>1, <3>2, WithoutLoads DEF RotationOf
        <3>4. \A e \in file'.entries : e.token # old.token
            BY <2>2, <3>1, <3>2 DEF RotationOf, TokensLoad, Shadowed
        <3>5. \A c \in Clients : holds[c] # old.token
            BY <2>2, <2>9 DEF DeleteEntry, RotationOf, TokensOf
        <3>6. rotation'.stage = "deleted" /\ rotation'.old = rotation.old /\ rotation'.new = rotation.new
            BY <2>9 DEF DeleteEntry, TypeOK
        <3> QED BY <2>2, <2>9, <3>1, <3>2, <3>3, <3>4, <3>5, <3>6 DEF DeleteEntry, RotationOf
    <2>10. CASE RestartedAgain
        <3>1. server.tokens = VerifierTokens(tier, file)
            BY <2>10 DEF RestartedAgain, ProcessOfFiles
        <3>2. \A e \in server.tokens : e.token # old.token
            BY <2>2, <2>10, <3>1, VerifierTokensSubset DEF RestartedAgain, RotationOf
        <3>3. rotation'.stage = "done" /\ rotation'.old = rotation.old /\ rotation'.new = rotation.new
            BY <2>10 DEF RestartedAgain, TypeOK
        <3> QED BY <2>2, <2>10, <3>2, <3>3 DEF RestartedAgain, files, RotationOf
    <2>11. CASE Elapse \/ (\E c \in Clients, tool \in Asked : Call(c, tool)) \/ UNCHANGED serverVars
        <3>1. UNCHANGED <<tier, file, overrides, server, holds, rotation>>
            BY <2>11 DEF Elapse, Call, serverVars, files
        <3> QED BY <2>2, <3>1 DEF RotationOf
    <2> QED BY <1>2, <2>3, <2>5, <2>6, <2>7, <2>8, <2>9, <2>10, <2>11 DEF ServerNext
<1> QED BY <1>1, <1>2

LEMMA InvAlways == ServerSpec => []Inv
<1>1. Inv /\ [ServerNext]_serverVars => Inv'
    BY TypeNext, ProcessNext, ServedNext, RotatingNext DEF Inv
<1> QED BY InvInit, <1>1, PTL DEF ServerSpec

----------------------------------------------------------------------------
(* The theorems.                                                           *)

\* Every variable holds a value of its kind, and a token once in the file is
\* remembered as used: mint_token never mints it again.
THEOREM TypeCorrect == ServerSpec => []TypeOK
<1>1. Inv => TypeOK
    BY DEF Inv
<1> QED BY InvAlways, <1>1, PTL

\* A call is served only to a token whose entry stood, sound, unshadowed,
\* attested and unexpired, in the file the process read (server.py's checks
\* at start and the wrapper's at each call).
THEOREM ServedGranted == ServerSpec => []ServedAreGranted
<1>1. Inv => ServedAreGranted
    BY DEF Inv
<1> QED BY InvAlways, <1>1, PTL

\* The rotation procedure of infra/tokens.README.md locks no client out,
\* wherever restarts fall, and ends with the old token unknown.
THEOREM RotationSafe == ServerSpec => []RotationKeepsClients
<1>1. Inv => RotationKeepsClients
    <2> SUFFICES ASSUME Inv, rotation.stage # "none" PROVE RotationKeepsClients
        BY DEF RotationKeepsClients
    <2>1. PICK old, new \in Entries : RotationOf(old, new)
        BY DEF Inv, Rotating
    <2>2. rotation.stage \in {"added", "moving", "deleted", "done"}
        BY DEF Inv, TypeOK, Stages
    <2>3. TokensOf(rotation.old) = {old.token} /\ TokensOf(rotation.new) = {new.token}
        BY <2>1 DEF RotationOf, TokensOf
    <2>4. TokensLoad(file) /\ ClassificationLoads(overrides)
        BY <2>1 DEF RotationOf
    <2>5. ASSUME server.up, NEW c \in Clients, holds[c] \in {old.token, new.token}
          PROVE  \E e \in server.tokens : e.token = holds[c]
        BY <2>1, <2>2, <2>5 DEF RotationOf
    <2>6. ASSUME rotation.stage = "done", server.up
          PROVE  ~\E e \in server.tokens : e.token = old.token
        BY <2>1, <2>6 DEF RotationOf
    <2> QED BY <2>3, <2>4, <2>5, <2>6 DEF RotationKeepsClients
<1> QED BY InvAlways, <1>1, PTL

\* The tools of the public tier return shareable classes only, none of them
\* one of the classes the code keeps sovereign (classification.py).
THEOREM PublicShareable == ServerSpec => []PublicIsShareable
<1>1. Inv => PublicIsShareable
    <2> SUFFICES ASSUME Inv, server.up, tier = "public", NEW tool \in server.tools
                 PROVE  /\ tool \notin SovereignOnly \cup {"run_sql"}
                        /\ ClassesOf(tool) # {} /\ ClassesOf(tool) \subseteq Configurable
                        /\ \A c \in ClassesOf(tool) : Label(read.overrides, c) = "shareable"
        BY DEF PublicIsShareable
    <2>1. ClassificationLoads(read.overrides) /\ server.tools = Registered(tier, read.overrides)
        BY DEF Inv, ProcessOfFiles
    <2>2. tool \in EitherTier /\ IsToolShareable(read.overrides, tool)
        BY <2>1 DEF Registered, RawTools
    <2>3. tool \notin SovereignOnly
        BY <2>2 DEF EitherTier, SovereignOnly, EvidenceTools
    <2>4. \A c \in ClassesOf(tool) : c \in DOMAIN read.overrides.labels
        BY <2>2 DEF IsToolShareable, Label
    <2>5. ClassesOf(tool) \subseteq Configurable
        BY <2>1, <2>4 DEF ClassificationLoads
    <2> QED BY <2>2, <2>3, <2>5 DEF IsToolShareable
<1> QED BY InvAlways, <1>1, PTL
=============================================================================
