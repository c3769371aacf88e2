------------------------------ MODULE Topology ------------------------------
(***************************************************************************)
(* The topology graph: the oneshot of ssdf-topo.service, which runs every  *)
(* collector and then the resolver, the ReplacingMergeTree tables          *)
(* graph_nodes and graph_edges it upserts, and the tools that read them    *)
(* (graphstore.py, topo_tools.py, liveness_tools.py).  A collector, a      *)
(* query and an INSERT are each a step; any may fail, and systemd may end  *)
(* the pass at any of them.                                                *)
(*                                                                         *)
(* A tick is longer than a pass, so a pass is at one time and there is at  *)
(* most one at each.  The public schema, which has neither names nor       *)
(* attributes, and LIMIT 5000 are left out.                                *)
(***************************************************************************)
EXTENDS TopoResolver

CONSTANTS
    Enabled,        \* TOPO_COLLECTORS, a sequence
    Answers,        \* collector |-> the answers its tools may give
    Flows,          \* events: [observer, src, dst, rule, ingress, egress]
    ShortHost,      \* observer_hostname |-> its first label
    Window,         \* TOPO_WINDOW_HOURS, and the window of the tools
    Staleness,      \* default_staleness_hours
    LogWindow,      \* the days ingest_status looks back
    Retention,      \* the TTL of both tables
    MaxClock,       \* bound: time
    MaxPasses       \* bound: passes

ASSUME TopologyAssumption ==
    /\ Enabled \in Seq(DOMAIN Answers)
    /\ {Staleness, Window, LogWindow, Retention, MaxClock, MaxPasses} \subseteq Nat
    /\ Staleness <= Window /\ Window <= LogWindow /\ LogWindow <= Retention

(* What a collector returns is a list.                                     *)
ASSUME FiniteAnswers ==
    \A c \in DOMAIN Answers : \A a \in Answers[c], t \in 0..MaxClock :
        IsFiniteSet(Collect(c, a, t).facts)

VARIABLES
    clock,
    obs,        \* topo_observations, those a resolver may still read
    events,     \* ssdf.events, [flow, at], those a query may still read
    pass,       \* the pass that runs, or the last
    nodes,      \* graph_nodes: the row FINAL gives of each id
    edges,      \* graph_edges, likewise
    latest,     \* history: the graph and time of the last pass that ended
    stored      \* history: every node row a pass has written

vars == <<clock, obs, events, pass, nodes, edges, latest, stored>>

NoGraph == [nodes |-> {}, edges |-> {}, told |-> <<>>, root |-> <<>>]
Never == -1

Init ==
    /\ clock = 0
    /\ obs = {} /\ events = {}
    /\ pass = [stage |-> "idle", todo |-> <<>>, graph |-> NoGraph, at |-> Never,
               number |-> 0]
    /\ nodes = {} /\ edges = {}
    /\ latest = [graph |-> NoGraph, at |-> Never]
    /\ stored = {}

Since(rows, age) == {r \in rows : r.at >= clock - age}

----------------------------------------------------------------------------
(* Time, events and the TTL, whose merges drop the rows that are due of one *)
(* table or the other.                                                     *)

Tick ==
    /\ pass.stage = "idle" /\ clock < MaxClock
    /\ clock' = clock + 1
    /\ obs' = {o \in obs : o.at >= clock' - Window}
    /\ events' = {e \in events : e.at >= clock' - LogWindow}
    /\ UNCHANGED <<pass, nodes, edges, latest, stored>>

Log(f) ==
    /\ events' = events \cup {[flow |-> f, at |-> clock]}
    /\ UNCHANGED <<clock, obs, pass, nodes, edges, latest, stored>>

Due(rows) == {r \in rows : r.last + Retention < clock}

Expire ==
    /\ \/ Due(nodes) # {} /\ nodes' = nodes \ Due(nodes) /\ UNCHANGED edges
       \/ Due(edges) # {} /\ edges' = edges \ Due(edges) /\ UNCHANGED nodes
    /\ UNCHANGED <<clock, obs, events, pass, latest, stored>>

----------------------------------------------------------------------------
(* The pass.                                                               *)

Start ==
    /\ pass.stage = "idle" /\ pass.at # clock /\ pass.number < MaxPasses
    /\ pass' = [stage |-> "collect", todo |-> Enabled, graph |-> NoGraph, at |-> clock,
                number |-> pass.number + 1]
    /\ UNCHANGED <<clock, obs, events, nodes, edges, latest, stored>>

(* run_collectors: one that raises, or whose INSERT fails, is skipped.     *)
RunCollector ==
    /\ pass.stage = "collect" /\ pass.todo # <<>>
    /\ \E a \in Answers[Head(pass.todo)] :
          LET outcome == Collect(Head(pass.todo), a, pass.at)
          IN  \/ outcome.ok /\ obs' = obs \cup outcome.facts
              \/ UNCHANGED obs
    /\ pass' = [pass EXCEPT !.todo = Tail(@)]
    /\ UNCHANGED <<clock, events, nodes, edges, latest, stored>>

(* build_flow_agg_sql: one row for each pair of addresses, with any of its *)
(* rules and zones.                                                        *)
FlowRows ==
    LET recent == Since(events, Window)
        Of(pair) == {e \in recent : <<e.flow.src, e.flow.dst>> = pair}
        Times(pair) == {e.at : e \in Of(pair)}
        Rows(pair) ==
            [src : {pair[1]}, dst : {pair[2]},
             rule : {e.flow.rule : e \in Of(pair)},
             ingress : {e.flow.ingress : e \in Of(pair)},
             egress : {e.flow.egress : e \in Of(pair)},
             first : {t \in Times(pair) : \A u \in Times(pair) : t <= u},
             last : {Latest(Times(pair))}]
        pairs == {<<e.flow.src, e.flow.dst>> : e \in recent}
    IN  {{row[p] : p \in pairs} : row \in Selections(pairs, Rows)}

(* run_resolver, up to its first INSERT.                                   *)
Resolve ==
    /\ pass.stage = "collect" /\ pass.todo = <<>>
    /\ \E rows \in FlowRows : \E g \in Graphs(Since(obs, Window), rows) :
          pass' = [pass EXCEPT !.stage = "nodes", !.graph = g]
    /\ UNCHANGED <<clock, obs, events, nodes, edges, latest, stored>>

(* The sorting key of graph_nodes, or of graph_edges.                      *)
Key(r) == IF "id" \in DOMAIN r THEN r.id ELSE <<r.src, r.dst, r.type>>

(* A bug: of two rows of one version both are kept.                       *)
UpsertStrict(table, rows) ==
    LET Beaten(r, by) == \E s \in by : Key(s) = Key(r) /\ s.last > r.last
    IN  {r \in table : ~Beaten(r, rows)} \cup {r \in rows : ~Beaten(r, table)}

(* A ReplacingMergeTree keeps of each key the row of the greatest version, *)
(* and of equal ones the newest.                                           *)
Upsert(table, rows) ==
    LET Beaten(r, by) == \E s \in by : Key(s) = Key(r)
    IN  {r \in table : ~Beaten(r, {s \in rows : s.last >= r.last})}
        \cup {r \in rows : ~Beaten(r, {s \in table : s.last > r.last})}

WriteNodes ==
    /\ pass.stage = "nodes"
    /\ nodes' = Upsert(nodes, pass.graph.nodes)
    /\ stored' = stored \cup pass.graph.nodes
    /\ pass' = [pass EXCEPT !.stage = "edges"]
    /\ UNCHANGED <<clock, obs, events, edges, latest>>

WriteEdges ==
    /\ pass.stage = "edges"
    /\ edges' = Upsert(edges, pass.graph.edges)
    /\ latest' = [graph |-> pass.graph, at |-> pass.at]
    /\ pass' = [pass EXCEPT !.stage = "idle", !.graph = NoGraph]
    /\ UNCHANGED <<clock, obs, events, nodes, stored>>

(* A query or an INSERT of the resolver fails, or the pass is killed.      *)
Fail ==
    /\ pass.stage # "idle"
    /\ pass' = [pass EXCEPT !.stage = "idle", !.todo = <<>>, !.graph = NoGraph]
    /\ UNCHANGED <<clock, obs, events, nodes, edges, latest, stored>>

Next ==
    \/ Tick \/ Expire \/ (\E f \in Flows : Log(f))
    \/ Start \/ RunCollector \/ Resolve \/ WriteNodes \/ WriteEdges \/ Fail

Spec == Init /\ [][Next]_vars

----------------------------------------------------------------------------
(* The tools.                                                              *)

(* find_node: the freshest of the rows the identifier is one of; any of    *)
(* them when several are as fresh.                                         *)
FindNode(identifier) ==
    LET found == {r \in nodes : identifier \in r.idents}
    IN  {r \in found : \A s \in found : s.last <= r.last}

RecentEdges == {e \in edges : e.last >= clock - Window}
Ends(es) == UNION {{e.src, e.dst} : e \in es}

LoadSubgraph == [edges |-> RecentEdges, nodes |-> {r \in nodes : r.id \in Ends(RecentEdges)}]

(* A bug: any attachment in the window will do.                           *)
LocateAny(identifier) ==
    UNION {{e.dst : e \in {e \in LoadSubgraph.edges : e.src = r.id /\ e.type = "attaches_to"}} :
           r \in FindNode(identifier)}

(* locate: where the host is attached; the newest edge comes first.        *)
Locate(identifier) ==
    LET out(r) == {e \in LoadSubgraph.edges : e.src = r.id /\ e.type = "attaches_to"}
        newest(es) == {e \in es : \A f \in es : f.last <= e.last}
    IN  UNION {{e.dst : e \in newest(out(r))} : r \in FindNode(identifier)}

(* _collapse_superseded: of the rows of one name, the freshest, or any of  *)
(* several as fresh.                                                       *)
Freshest(rows) == {r \in rows : r.name = "" \/ \A s \in rows : s.name = r.name => s.last <= r.last}

Selected(r, role, kind) == (role = "" \/ r.role = role) /\ (kind = "" \/ r.kind = kind)

(* A bug: rows not seen in the window are left out.                       *)
NodesByAttrRecent(role, kind) ==
    Freshest({r \in nodes : Selected(r, role, kind) /\ r.last >= clock - Window})

NodesByAttr(role, kind) == Freshest({r \in nodes : Selected(r, role, kind)})

TopoFirewalls == {r.name : r \in NodesByAttr("firewall", "device")} \ {""}

(* ingest_status: [name, stale] of every firewall expected to log.         *)
IngestStatus ==
    LET heard(name) == {e.at : e \in {e \in Since(events, LogWindow) : ShortHost[e.flow.observer] = name}}
        observers == {ShortHost[e.flow.observer] : e \in Since(events, LogWindow)}
        Stale(name) == heard(name) = {} \/ clock - Latest(heard(name)) > Staleness
    IN  {[name |-> n, stale |-> Stale(n)] : n \in TopoFirewalls \cup observers}

----------------------------------------------------------------------------
(* Properties.                                                             *)

(* The tables hold one row of each key, nothing is newer than the clock,   *)
(* and a pass has a graph when its resolver has read.                      *)
TypeOK ==
    /\ clock \in 0..MaxClock
    /\ pass.stage \in {"idle", "collect", "nodes", "edges"} /\ pass.at \in Never..clock
    /\ pass.number \in 0..MaxPasses
    /\ \A o \in obs : o.at \in 0..clock
    /\ \A e \in events : e.flow \in Flows /\ e.at \in 0..clock
    /\ \A r, s \in nodes : r.last <= clock /\ (Key(r) = Key(s) => r = s)
    /\ \A r, s \in edges : r.last <= clock /\ (Key(r) = Key(s) => r = s)
    /\ pass.stage \in {"idle", "collect"} => pass.graph = NoGraph

(* _merge_devices gives two names one device exactly when a chain of       *)
(* shared tokens leads from the one to the other, whatever the order the   *)
(* devices were met in and whatever their ids hash to.                     *)
FusionIsComponents ==
    LET told == pass.graph.told
        root == pass.graph.root
        TokensOf(d) == {Tokens(d, told)[i] : i \in DOMAIN Tokens(d, told)}
        Share(d, e) == TokensOf(d) \cap TokensOf(e) # {}
        Split(S, C) == \A d \in S, e \in C \ S : ~Share(d, e)
    IN  /\ \A d, e \in DOMAIN told : Share(d, e) => root[d] = root[e]
        /\ \A d \in DOMAIN told : LET C == Fused(root, root[d]) IN
              \A S \in SUBSET C : Split(S, C) => S \in {{}, C}

(* An attachment, a hosted guest or a physical link that load_subgraph     *)
(* returns comes with the nodes at both of its ends: across passes that    *)
(* stop between the two INSERTs, devices that fuse and part, and rows the  *)
(* TTL takes.                                                              *)
SubgraphClosed ==
    LET g == LoadSubgraph
        known == {r.id : r \in g.nodes}
    IN  \A e \in g.edges :
            e.type \in {"attaches_to", "hosts", "physical_link"} => {e.src, e.dst} \subseteq known

(* ingest_status names every firewall a pass has stored, until its row is  *)
(* due or its device is seen later under another name or role, and however *)
(* long it has been silent or unreachable; and calls it fresh exactly when *)
(* it logged within the threshold.                                         *)
FirewallsAccounted ==
    \A r \in {r \in stored : Selected(r, "firewall", "device") /\ r.name # ""} :
        /\ r.last + Retention >= clock
        /\ \A s \in stored : s.id = r.id => s = r \/ s.last < r.last
        => /\ \E s \in IngestStatus : s.name = r.name
           /\ \A s \in IngestStatus : s.name = r.name =>
                 (~s.stale <=> \E e \in events : ShortHost[e.flow.observer] = r.name
                                                 /\ e.at >= clock - Staleness)

(* After a pass has seen a host attached, locate answers with a device it  *)
(* was attached to in that pass, and with no older place or superseded id; *)
(* unless the host's MAC is said to be the address of another.             *)
LocateIsCurrent ==
    \A h \in {e.src : e \in latest.graph.edges} :
        LET now == {e.dst : e \in {e \in latest.graph.edges :
                        e.src = h /\ e.type = "attaches_to" /\ e.last = latest.at}}
            alone == \A r \in nodes : h[2] \in r.idents /\ r.kind = "host" => r.id = h
        IN  now # {} /\ alone => Locate(h[2]) \subseteq now

(* server.py: get_entity resolves an entity "from any alias: ip, mac,      *)
(* hostname, or name".  A device the inventory lists by name is found by   *)
(* that name, as that device.                                              *)
FoundByName ==
    latest.at # Never /\ pass.stage = "idle" =>
        \A r \in {r \in latest.graph.nodes : r.kind = "device" /\ r.name # ""} :
            \E s \in FindNode(r.name) : s.id = r.id
=============================================================================
