---------------------------- MODULE EntityTables ----------------------------
(***************************************************************************)
(* The pure part of the entity service: how a flow and the ARP bindings    *)
(* name an Asset (resolve_entities.py), what the resolver writes for a set *)
(* of flows, and what reconcile_assets.py plans for a set of tables.       *)
(*                                                                         *)
(* entity_id and edge_id are hashes of their arguments, so an Asset is     *)
(* named by its canonical key and an edge by the pair it joins.  A table   *)
(* is what SELECT ... FINAL shows of a ReplacingMergeTree(last_seen): a    *)
(* function from keys to rows.                                             *)
(***************************************************************************)
EXTENDS Naturals, FiniteSetsExt, Functions

CONSTANTS
    Segments,       \* firewall vantages, as normalize_segment returns them
    IPs, Macs,
    Rule            \* per segment: the rule its flows match, "" for none

ASSUME EntitiesAssumption == DOMAIN Rule = Segments

\* The canonical key of an Asset, and its identity_basis.
MacKey(m) == [basis |-> "mac", key |-> m]
IpKey(s, ip) == [basis |-> "ip_only", key |-> <<s, ip>>]

\* A flow event, and an arp_entry observation of the topology collectors.
Flow(Times) == [src : IPs, dst : IPs, seg : Segments, ts : Times]
Observation(Times) == [seg : Segments, ip : IPs, mac : Macs, ts : Times]

----------------------------------------------------------------------------
(* Bindings.                                                               *)

BoundKeys(O) == {<<o.seg, o.ip>> : o \in O}

\* The observations of a key with the greatest observed_at.
LatestOf(O, k) ==
    LET mine == {o \in O : <<o.seg, o.ip>> = k}
    IN  {o \in mine : \A p \in mine : p.ts <= o.ts}

\* build_binding_map: the latest MAC of each key; argMax may return any of those
\* observed at the same time.
BindingMaps(O) ==
    {b \in [BoundKeys(O) -> Macs] :
        \A k \in BoundKeys(O) : \E o \in LatestOf(O, k) : b[k] = o.mac}

\* _ip_to_unique_mac: the MACs an IP has in any segment; it is of use to the
\* reconciliation when there is just one.
MacsOf(b, ip) == {b[k] : k \in {j \in DOMAIN b : j[2] = ip}}

----------------------------------------------------------------------------
(* Resolution.                                                             *)

\* asset_for: the MAC when the flow's own segment binds the IP.
AssetFor(b, s, ip) ==
    IF <<s, ip>> \in DOMAIN b THEN MacKey(b[<<s, ip>>]) ELSE IpKey(s, ip)

PairOf(b, f) == <<AssetFor(b, f.seg, f.src), AssetFor(b, f.seg, f.dst)>>

LastSeen(F) == Max({f.ts : f \in F})

\* resolve_entities: the entities, the COMMUNICATED_WITH edges and the
\* GOVERNED_BY edges of a set of flows.
ResolvedAssets(F, b) ==
    LET ends(f) == {PairOf(b, f)[1], PairOf(b, f)[2]}
    IN  [a \in UNION {ends(f) : f \in F} |-> LastSeen({f \in F : a \in ends(f)})]

ResolvedEdges(F, b) ==
    [e \in {PairOf(b, f) : f \in F} |->
        LET flows == {f \in F : PairOf(b, f) = e}
        IN  [sessions |-> Cardinality(flows), last_seen |-> LastSeen(flows)]]

ResolvedGovernance(F, b) ==
    {<<PairOf(b, f), Rule[f.seg]>> : f \in {g \in F : Rule[g.seg] # ""}}

----------------------------------------------------------------------------
(* The tables.                                                             *)

\* An INSERT into ReplacingMergeTree(last_seen): a stored row gives way to one
\* of its key that is as recent.
UpsertAssets(T, N) ==
    [k \in DOMAIN T \cup DOMAIN N |->
        IF k \in DOMAIN N /\ (k \in DOMAIN T => T[k] <= N[k]) THEN N[k] ELSE T[k]]

UpsertEdges(T, N) ==
    [k \in DOMAIN T \cup DOMAIN N |->
        IF k \in DOMAIN N /\ (k \in DOMAIN T => T[k].last_seen <= N[k].last_seen)
        THEN N[k] ELSE T[k]]

\* ALTER TABLE ... DELETE.
Remove(T, K) == Restrict(T, DOMAIN T \ K)

Sessions(T) == MapThenSumSet(LAMBDA k : T[k].sessions, DOMAIN T)

----------------------------------------------------------------------------
(* Reconciliation.                                                         *)

\* The MAC asset each twin goes into: an ip_only asset whose IP has exactly one
\* MAC, when that MAC's asset was read.
TwinTargets(ipOnly, macAssets, b) ==
    LET target(a) == {MacKey(m) : m \in MacsOf(b, a.key[2])}
        twins == {a \in ipOnly : Cardinality(target(a)) = 1 /\ target(a) \subseteq macAssets}
    IN  [a \in twins |-> CHOOSE m \in target(a) : TRUE]

\* A bug: an end is looked at only when the other is no twin.
RenamedAtOneEnd(twins, e) ==
    IF e[1] \in DOMAIN twins THEN <<twins[e[1]], e[2]>>
    ELSE IF e[2] \in DOMAIN twins THEN <<e[1], twins[e[2]]>> ELSE e

\* An edge with the twins among its ends replaced, both of them.
Renamed(twins, e) ==
    LET to(a) == IF a \in DOMAIN twins THEN twins[a] ELSE a
    IN  <<to(e[1]), to(e[2])>>

\* The edges to be merged away.
Touched(twins, comm) == {e \in DOMAIN comm : e[1] \in DOMAIN twins \/ e[2] \in DOMAIN twins}

\* A bug: the stored edge is not looked up.
PartsUnseeded(twins, comm, n) == {e \in Touched(twins, comm) : Renamed(twins, e) = n}

\* What goes into the merged edge n: the edges renamed to n, and the stored n.
Parts(twins, comm, n) ==
    {e \in Touched(twins, comm) : Renamed(twins, e) = n} \cup ({n} \cap DOMAIN comm)

\* plan_reconciliation.  The GOVERNED_BY edges of the merged edges go; the
\* resolver links what it still reads again.
PlanReconciliation(ipOnly, macAssets, comm, gov, b) ==
    LET twins == TwinTargets(ipOnly, macAssets, b)
        touched == Touched(twins, comm)
        row(n) == LET parts == Parts(twins, comm, n)
                  IN  [sessions |-> Sessions(Restrict(comm, parts)),
                       last_seen |-> Max({comm[e].last_seen : e \in parts})]
    IN  [merged   |-> [n \in {Renamed(twins, e) : e \in touched} |-> row(n)],
         edges    |-> touched,
         governed |-> {g \in gov : g[1] \in touched},
         twins    |-> twins]
=============================================================================
