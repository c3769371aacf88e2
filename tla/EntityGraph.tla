---------------------------- MODULE EntityGraph ----------------------------
(***************************************************************************)
(* The entity layer in operation: ssdf.events and ssdf.topo_observations   *)
(* fill up, the resolver (run_resolver, a systemd oneshot on a timer)      *)
(* upserts ssdf.entities and ssdf.entity_edges from a window of them, and  *)
(* an operator runs reconcile_assets, which reads the two tables with five *)
(* queries and then changes them with three statements.                    *)
(*                                                                         *)
(* Every query and every statement is a step of its own.  Nothing in the   *)
(* code keeps the two programs apart, so they may run at the same time,    *)
(* and each may be killed between two steps.                               *)
(***************************************************************************)
EXTENDS EntityTables

CONSTANTS
    Window,         \* window_hours: how far back the resolver reads flows
    Lookback,       \* binding_lookback_hours
    MaxClock,       \* bound: last value of the clock
    MaxFeed,        \* bound: flow events and arp_entry observations
    MaxRuns,        \* bound: reconciliations started
    MaxKills        \* bound: programs killed on the way

ASSUME GraphAssumption ==
    /\ Window \in Nat /\ Lookback \in Nat
    /\ MaxClock \in Nat /\ MaxFeed \in Nat
    /\ MaxRuns \in Nat /\ MaxKills \in Nat

VARIABLES
    clock,
    events,         \* the flows in ssdf.events
    observations,   \* the arp_entry rows in ssdf.topo_observations
    assets,         \* ssdf.entities, kind = 'asset': key |-> last_seen
    comm,           \* ssdf.entity_edges, communicated_with: pair |-> row
    gov,            \* ssdf.entity_edges, governed_by: <<pair, rule>>
    rpc,            \* where the resolver is
    flows,          \* the flows it read
    output,         \* what resolve_entities returned
    mpc,            \* where the reconciliation is
    seen,           \* the tables it read
    plan,           \* what plan_reconciliation returned
    mixed,          \* history: those of the two programs that did not run alone
    tainted,        \* history: edges that come from a pass that did not run alone
    runs, kills

feed == <<clock, events, observations>>
tables == <<assets, comm, gov>>
resolver == <<rpc, flows, output>>
maintenance == <<mpc, seen, plan>>
history == <<mixed, tainted>>
counters == <<runs, kills>>
vars == <<feed, tables, resolver, maintenance, history, counters>>

NoOutput == [assets |-> <<>>, comm |-> <<>>, gov |-> {}]
NothingSeen == [ipOnly |-> {}, macAssets |-> {}, comm |-> <<>>, gov |-> {}]
NoPlan == [merged |-> <<>>, edges |-> {}, governed |-> {}, twins |-> <<>>]

WithBasis(basis) == {a \in DOMAIN assets : a.basis = basis}

InWindow(S, width) == {x \in S : x.ts + width >= clock}

----------------------------------------------------------------------------
Init ==
    /\ clock = 0 /\ events = {} /\ observations = {}
    /\ assets = <<>> /\ comm = <<>> /\ gov = {}
    /\ rpc = "idle" /\ flows = {} /\ output = NoOutput
    /\ mpc = "idle" /\ seen = NothingSeen /\ plan = NoPlan
    /\ mixed = {} /\ tainted = {}
    /\ runs = 0 /\ kills = 0

(* The feed: Vector inserts flows, the topology collectors ARP entries.    *)

FlowArrives ==
    /\ Cardinality(events) + Cardinality(observations) < MaxFeed
    /\ \E f \in Flow({clock}) : f.src # f.dst /\ f \notin events /\ events' = events \cup {f}
    /\ UNCHANGED <<clock, observations, tables, resolver, maintenance, history, counters>>

BindingObserved ==
    /\ Cardinality(events) + Cardinality(observations) < MaxFeed
    /\ \E o \in Observation({clock}) : o \notin observations /\ observations' = observations \cup {o}
    /\ UNCHANGED <<clock, events, tables, resolver, maintenance, history, counters>>

Tick ==
    /\ clock < MaxClock
    /\ clock' = clock + 1
    /\ UNCHANGED <<events, observations, tables, resolver, maintenance, history, counters>>

----------------------------------------------------------------------------
(* run_resolver.                                                           *)

ReadFlows ==
    /\ rpc = "idle"
    /\ rpc' = "flows"
    /\ flows' = InWindow(events, Window)
    /\ mixed' = IF mpc = "idle" THEN {} ELSE {"pass", "reconciliation"}
    /\ UNCHANGED <<feed, tables, output, maintenance, tainted, counters>>

\* The second query, and resolve_entities on what the two returned.
ReadBindings ==
    /\ rpc = "flows"
    /\ rpc' = "resolved"
    /\ \E b \in BindingMaps(InWindow(observations, Lookback)) :
          output' = [assets |-> ResolvedAssets(flows, b),
                     comm   |-> ResolvedEdges(flows, b),
                     gov    |-> ResolvedGovernance(flows, b)]
    /\ UNCHANGED <<feed, tables, flows, maintenance, history, counters>>

\* replace_entities.
WriteEntities ==
    /\ rpc = "resolved"
    /\ rpc' = "entities"
    /\ assets' = UpsertAssets(assets, output.assets)
    /\ UNCHANGED <<feed, comm, gov, flows, output, maintenance, history, counters>>

\* replace_edges: both types of edge in one INSERT.  The pass is over.
WriteEdges ==
    /\ rpc = "entities"
    /\ rpc' = "idle"
    /\ comm' = UpsertEdges(comm, output.comm)
    /\ gov' = gov \cup output.gov
    /\ flows' = {} /\ output' = NoOutput
    /\ tainted' = IF "pass" \in mixed THEN tainted \cup DOMAIN output.comm
                  ELSE tainted \ DOMAIN output.comm
    /\ mixed' = mixed \ {"pass"}
    /\ UNCHANGED <<feed, assets, maintenance, counters>>

----------------------------------------------------------------------------
(* reconcile.                                                              *)

Read(from, to) == mpc = from /\ mpc' = to

ReadIpOnly ==
    /\ Read("idle", "ipOnly")
    /\ mixed' = IF rpc = "idle" THEN {} ELSE {"pass", "reconciliation"}
    /\ runs < MaxRuns /\ runs' = runs + 1
    /\ seen' = [seen EXCEPT !.ipOnly = WithBasis("ip_only")]
    /\ UNCHANGED <<feed, tables, resolver, plan, tainted, kills>>

ReadMacAssets ==
    /\ Read("ipOnly", "macAssets")
    /\ seen' = [seen EXCEPT !.macAssets = WithBasis("mac")]
    /\ UNCHANGED <<feed, tables, resolver, plan, history, counters>>

ReadCommEdges ==
    /\ Read("macAssets", "comm")
    /\ seen' = [seen EXCEPT !.comm = comm]
    /\ UNCHANGED <<feed, tables, resolver, plan, history, counters>>

ReadGovEdges ==
    /\ Read("comm", "gov")
    /\ seen' = [seen EXCEPT !.gov = gov]
    /\ UNCHANGED <<feed, tables, resolver, plan, history, counters>>

\* The fifth query, and plan_reconciliation on what the five returned.
PlanMerge ==
    /\ Read("gov", "planned")
    /\ \E b \in BindingMaps(InWindow(observations, Lookback)) :
          plan' = PlanReconciliation(seen.ipOnly, seen.macAssets, seen.comm, seen.gov, b)
    /\ UNCHANGED <<feed, tables, resolver, seen, history, counters>>

\* replace_edges.
InsertMerged ==
    /\ Read("planned", "merged")
    /\ comm' = UpsertEdges(comm, plan.merged)
    /\ tainted' = tainted \cup {Renamed(plan.twins, e) : e \in tainted \cap plan.edges}
    /\ UNCHANGED <<feed, assets, gov, resolver, seen, plan, mixed, counters>>

\* delete_edges: the twins' edges and the GOVERNED_BY edges that hang off them.
DeleteEdges ==
    /\ Read("merged", "edgesDeleted")
    /\ comm' = Remove(comm, plan.edges)
    /\ gov' = gov \ plan.governed
    /\ UNCHANGED <<feed, assets, resolver, seen, plan, history, counters>>

\* delete_entities.  The run is over.
DeleteTwins ==
    /\ Read("edgesDeleted", "idle")
    /\ assets' = Remove(assets, DOMAIN plan.twins)
    /\ seen' = NothingSeen /\ plan' = NoPlan
    /\ mixed' = mixed \ {"reconciliation"}
    /\ UNCHANGED <<feed, comm, gov, resolver, tainted, counters>>

----------------------------------------------------------------------------
\* systemd stops a pass that takes too long (TimeoutStartSec), or it fails.
KillPass ==
    /\ rpc # "idle" /\ kills < MaxKills
    /\ rpc' = "idle" /\ flows' = {} /\ output' = NoOutput
    /\ kills' = kills + 1
    /\ mixed' = mixed \ {"pass"}
    /\ UNCHANGED <<feed, tables, maintenance, tainted, runs>>

\* The operator interrupts the reconciliation, or one of its statements fails.
KillReconciliation ==
    /\ mpc # "idle" /\ kills < MaxKills
    /\ mpc' = "idle" /\ seen' = NothingSeen /\ plan' = NoPlan
    /\ kills' = kills + 1
    /\ mixed' = mixed \ {"reconciliation"}
    /\ UNCHANGED <<feed, tables, resolver, tainted, runs>>

Next ==
    \/ FlowArrives \/ BindingObserved \/ Tick
    \/ ReadFlows \/ ReadBindings \/ WriteEntities \/ WriteEdges \/ KillPass
    \/ ReadIpOnly \/ ReadMacAssets \/ ReadCommEdges \/ ReadGovEdges \/ PlanMerge
    \/ InsertMerged \/ DeleteEdges \/ DeleteTwins \/ KillReconciliation

Spec == Init /\ [][Next]_vars

----------------------------------------------------------------------------
(* What the entity layer promises.                                         *)

\* Both ends of every edge exist: "no dangling reference to a deleted entity"
\* (reconcile_assets.py:57-59), and GOVERNED_BY hangs off an edge that exists.
\* The order of the writes keeps it so at every step, also of a killed program;
\* only the edges of a pass that ran beside a reconciliation, and what they are
\* merged into, may dangle, until a pass that runs alone writes them again.
NoDanglingEdge ==
    /\ \A e \in DOMAIN comm \ tainted : e[1] \in DOMAIN assets /\ e[2] \in DOMAIN assets
    /\ \A g \in gov : g[1] \notin tainted => g[1] \in DOMAIN comm

\* "Merge then delete (lossless)"
\* (docs/superpowers/specs/2026-06-08-m6a-asset-identity-segment-scoping-design.md:133):
\* once the twins' edges are gone the sessions add up to what they were, no edge
\* names a twin, and every edge's window is in the edge it went into.  A pass
\* that runs at the same time adds to them.
LosslessMerge ==
    mpc = "edgesDeleted" /\ "reconciliation" \notin mixed =>
        /\ Sessions(comm) = Sessions(seen.comm)
        /\ \A e \in DOMAIN comm : \A i \in {1, 2} : e[i] \notin DOMAIN plan.twins
        /\ \A e \in DOMAIN seen.comm : \E n \in DOMAIN comm :
              /\ \A i \in {1, 2} : n[i] \in {e[i]} \cup {plan.twins[a] : a \in DOMAIN plan.twins \cap {e[i]}}
              /\ seen.comm[e].last_seen <= comm[n].last_seen
=============================================================================
