# A verification project for SSDF

SSDF collects what network security products log and configure, resolves it
into graphs of hosts, links, assets and policies, and lets language-model agents
query the result through two MCP servers. This directory holds TLA+ models of
the parts of it that keep state, the TLC runs that check them on small
instances, and TLAPS proofs of the theorems that hold for every instance.

## The system

    security products -> Vector (VRL) -> ClickHouse <- resolvers (systemd timers)
                                             |
                                     MCP servers (sovereign, public) <- agents

Everything the services share is a ClickHouse table; nothing else connects
them. The tables come in two kinds. A `MergeTree` only grows: `events`,
`topo_observations`, `audit`, `policy_versions`. A `ReplacingMergeTree` keeps
the row with the greatest version column of each key: `entities`,
`entity_edges`, `graph_nodes`, `graph_edges`, `rule_usage_hourly`,
`pseudonym_map`. There are no transactions: each query and each INSERT stands
alone, and a service may be stopped between two of them.

| component | state | operations | what is hard |
|---|---|---|---|
| audit writer (`audit.py`) | the head of the hash chain, in memory; `ssdf.audit` | `record`, seeding at start-up | threads, ambiguous inserts, restarts, TTL |
| audit verifier (`verify_audit.py`) | none | `verify_tier` | several roots, forks, legacy rows |
| tool call wrapper (`wrapper.py`) | none of its own | authorize, admit, run, release, record | every way a call can end |
| limiter (`ratelimit.py`) | a deque and a counter per principal | `acquire`, `release` | threads, the sliding window's edge |
| entity resolver (`ssdf_entity`) | `entities`, `entity_edges` | one pass: two reads, two inserts | identities that change between passes |
| reconciliation (`reconcile_assets.py`) | the same tables | five reads, an insert, two deletes | passes in between, being killed half way |
| configured policy (`ssdf_policy`) | `policy_versions`, `object_book_hash`, the entity tables | collect, upsert, read-diff-insert | clauses in any order, failing calls and inserts, edits in between |
| rule usage rollup | `rule_usage_hourly` | recompute the last complete hours | late events, missed runs |
| public metrics (`ssdf_pubmetrics`) | `pseudonym_map`, the public tables | mint surrogates, three inserts | collisions, a crash between inserts, key rotation, the window's edge |
| topology (`ssdf_topo`) | `topo_observations`, `graph_nodes`, `graph_edges` | collect, resolve, two upserts | devices fused under another identity, rows in any order |
| graph tools (`graphstore.py`, `topo_tools.py`, `liveness_tools.py`) | none | find, subgraph, locate, collapse superseded rows | rows that outlive what they describe |
| rule evidence tools | none | a verdict per rule | missing evidence read as evidence |
| evidence ingestion | a writer's chain per server; a spool per sink | replay, high-water mark, tail read | duplicates, stale heads (the sink is another repository) |
| server assembly (`server.py`, `config.py`, `classification.py`, `tokenstore.py`) | what the process read of two files | start, authenticate, rotate a token | files that change under a running process |
| entity tools, event query tools, health, Vector, evals | none | query or parse | no state |

What makes each correct is stated below, where it is modelled; "components" of
`PROJECT.json` says of each part what is modelled of it, and "hazards" which
properties answer for each thing that could go wrong.

## The modules

### The audit trail: `AuditVerify`, `AuditLog`, `AuditChain`

`AuditVerify` is the pure part: how a row is linked and hashed and the four
checks of `verify_tier`. A hash is modelled by what a collision-free hash means:
the sequence of the contents from the first row of the chain on, so two rows
have the same hash exactly when they have the same history. The traversal loop
of `verify_tier` is the least set closed under "continues".

`AuditChain` is one tier's `Auditor` in a server process. `record()` has three
steps, because other threads run in between: `BuildRow` (the timestamp is taken,
no lock held), `BeginInsert` (the lock is taken and the head read) and one of
`InsertReturns` and `InsertRaises`. A row whose insert raised is in limbo: it may
be committed at any later time (`LateCommit`) or never. `Crash` leaves the row on
the wire in limbo; `Start` seeds the head with the latest row by timestamp, or
with nothing when the verifier's password is not set (`Seeding` says which of
the two a start may find, and it may differ from start to start). The table is
a set because migration 016 gives it a deduplication window. The table's TTL is
left out: see Disagreements.

`AuditLog` is what the trail promises, whoever writes it: a table that grows by
rows that open a chain or continue a stored row. `AuditChain` implements it.

### The tool call: `PrincipalLimiter`, `ToolCall`, `Admission`

`PrincipalLimiter` has one action per outcome of `acquire()` and one for
`release()`; each runs under the limiter's lock. `ToolCall` is `audited_tool`:
a worker thread takes a call through authorization, admission, the tool,
the release of its slot and the audit record, and the steps are separate actions
because sibling calls run in between. `Admission` is the rule without counters
and deques; `ToolCall` implements it, with the calls that hold a slot as its
`holds` and the throttled ones as its `refused`.

### The entity layer: `EntityTables`, `EntityGraph`

`EntityTables` is the pure part: which key a flow and the ARP bindings give an
asset, what a pass writes for a set of flows, what an INSERT into a
`ReplacingMergeTree` does to a table, and `plan_reconciliation`. `EntityGraph`
runs them: a pass reads flows, reads bindings, writes entities, writes edges; a
reconciliation reads five times, inserts the merged edges, deletes edges and
deletes the twins. Each query and statement is an action, and both programs can
be killed between any two. Nothing in the code keeps the two apart, and nothing
in the model does: the history variables `mixed` and `tainted` only remember
which program did not run alone and which edges come from a pass that did not,
since those edges may dangle until a pass that runs alone writes them again.

### Public metrics: `Pseudonym`, `PublicMetrics`

`Pseudonym` is `mint_surrogate`: the digest of an address under a key is a
sequence of steps, a surrogate is a prefix of it, and all that is assumed of a
digest is that whole digests differ. `PublicMetrics` is a run of the resolver:
`Begin` takes the configuration, the window and the map, `PlanSeries` and
`PlanTotals` are the two queries, and the three INSERTs follow in the order of
`write_plan`. Flows arrive late, the operator may rotate the key at any time,
and `Fail` ends a run at any of its steps. `load_pseudonym_map` reads the rows of
all key versions into one dictionary, so which row of an address wins is a
choice in `Begin`.

Two new addresses of one run whose prefixes collide get the same surrogate,
since every address is minted against the map as it was loaded; their rows then
have one key in `entity_series`, of which one stays (`Collapsed`).
`SharedOnlyWithinARun` says that in the map this is the only way to share a
surrogate. It is not about the series of a run that ended before its map INSERT:
their surrogates are in no map, so a later run may mint one of them for another
address (`orphans` remembers those series).

The window begins at `now - lookback_hours`, anywhere in a bucket. `TotalsGrow`
says of every bucket that begins inside the window that writing it again takes
nothing away, whatever came late; the first bucket is the exception (see
Disagreements).

An INSERT that raises is taken to have committed by the next run or never. The
index measures are not modelled: they write rows under keys of their own and
read no state.

### Rule evidence: `RuleEvidence`

For one device: its rules match, raising the device's counter and sending a log
that may come late or never; `rule_usage_rollup` counts the logs of the last
complete hours (`PassQueries`, `PassInserts`); the policy collector stores the
counters (`CollectorStarts`, `CollectorReads`, `CollectorWrites`), with the time
taken at its start; and `unused_rules` reads the entities, checks the coverage of
the logs and judges each rule (`Ask`, `CheckCoverage`, `Judge`). Both jobs may
end between two steps.

The tool promises that missing evidence is never read as evidence. That is
stated signal by signal: the logs alone, and the counters alone, keep a rule
that was used from being called unused. The log half needs a premise, `Gapless`:
`_log_coverage` looks at the first and the last bucket only, so an outage of the
rollup longer than it looks back leaves a gap in the window that the check does
not see.

### Configured policy: `JunosConfig`, `JunosParser`, `PanosConfig`, `PolicyHistory`

`JunosConfig` is the four Junos parsers as folds: each has an accumulator, and
each operator `Read...` is one turn of its loop. A line is a record of what the
regular expressions take from it. `JunosParser` runs them: an output's lines
arrive in any order and any number, one action per parser, and the properties
compare the accumulator with the set of lines read, which the order must not
matter to. After the policies the counters are asked for (`AskHitCount`), whose
rows bear the zones and the name of a policy; the parser keeps the name, and
`Counted` is which rules `collect` then gives a count. `PanosConfig` is the PAN-OS side, where an answer may be truncated or
may not parse.

`PolicyHistory` is a pass of `collect_resolve.run_once`: one step per call to a
firewall, per query and per INSERT, in the code's order (all rules of a
collector's devices, then their object books; resolve; entities; edges; read and
append versions; read and append object books). A Junos device that does not
answer is skipped, and so is a collector whose client cannot be made; an object
book of which a section cannot be read is not collected; an upsert that raises
ends the pass; a history whose query or INSERT raises is left to the next pass;
and an INSERT that raises may have committed all the same. `Kill` ends the pass
anywhere. `EditPolicies` and `EditObjects` change a firewall between any two
steps. `held` remembers what each section said during the pass, `behind` which
entities were written without their version.

### Topology: `TopoCollectors`, `TopoResolver`, `Topology`

`TopoCollectors` is what the four collectors make of their tools' answers, which
may fail one by one. `TopoResolver` is `resolve_graph`: nodes and edges from
observations and flows, the union-find over the devices' names, MACs and
addresses, and the renaming of what was fused. The observations are read without
ORDER BY, and so are the flows, so where the last of several rows wins the
result is a set of graphs;
node ids are hashes, so which device becomes the root of a fusion depends on
their order, the constant `Rank`. `Topology` runs a pass (collectors, the
resolver's reads, the two INSERTs, any of which may fail) against the tables and
their TTL, and defines the tools that read them: `FindNode`, `LoadSubgraph`,
`Locate`, `NodesByAttr` with the collapse of superseded rows, `IngestStatus`.

### The server: `ServerConfig`, `ServerAssembly`

`ServerConfig` is what a server makes of its token map, or of the single token
that stands in for one, and of its classification overrides, and when it refuses
them: a file that is missing, that others may read or that does not parse, an entry without a principal, two keys with one digest, a class that cannot be
configured. `ServerAssembly` is the life of a server of either tier: `Start`
reads the files, `Stop` ends it at any point, `Edit` changes the files under it,
`Call` authenticates a caller, finds the tool and authorizes the call, and `AddEntry`, `Restarted`, `Move`,
`DeleteEntry`, `RestartedAgain` are the steps by which `infra/tokens.README.md`
rotates a token.

### Evidence ingestion: `EvidenceIngestion`

The sinks of the Rust MCP servers write evidence records into `ssdf.audit`.
Their actions are the protocol of `docs/audit-evidence-ingestion.md` and are
marked external: a spool on disk, a run number per start, the high-water mark of
a run, replay before the tail is read. The database commits a row unless its
deduplication token is in the window (`windowed`: migration 016 has been applied
or not), and an insert that timed out may commit at any later time. In the same
table `verify_evidence_contract.py` goes through its steps and comes to its
verdict, and `Report` is what `verify_audit.py` prints, one chain per tier and
writer, from the checks of `AuditVerify`.

## The runs

| run | checks | bounds, and why they are enough |
|---|---|---|
| `AuditChainFaults` | `UntamperedVerifiesClean`, `DeletionsDetected`, `EditsDetected`, `ForksAccounted`, `ImplementsLog` | two threads (a race needs two), four records, two raising inserts, two crashes, three clock values: enough for a fork, a fork of a fork, a late commit after a restart, two roots and rows with equal timestamps |
| `ToolCall` | `SlotsAccounted`, `ConcurrencyBound`, `WindowBound`, `OneRowPerCall`, `ImplementsRule`, `CallsEnd` | two threads against a ceiling of one, three calls against two per window of two ticks over three clock values, so both limits refuse and a full window slides by one of its entries; two principals, one whose token expires at tick 1 and who may call one of the two tools, so every error code occurs |
| `EntityGraphOverlap` | `NoDanglingEdge`, `LosslessMerge` | three flows and bindings in all over two clock values in one segment, two reconciliations, one kill, passes without bound: twins at one end and at both, an edge that is already stored, a pass at every point of a reconciliation, a rerun after a kill |
| `PublicMetricsRuns` | `SharedOnlyWithinARun`, `SeriesContinuous`, `PublishedAreMapped`, `NeverOverstated`, `TotalsGrow` | three addresses, two of which share a prefix under either key, series for two of them, two keys, three runs of which one ends early: enough for a collision with the map, one within a run, a rotation between two runs (`SeriesContinuous` is about the runs under one key) and a retry of a run that lost its map; buckets of two ticks and a window of one, so a window begins inside a bucket and on its edge |
| `RuleEvidenceVerdict` | `UnusedBackedByLog`, `UnusedBackedByCounter` | two rules (the one asked about and one whose logs make the buckets), two matches, a window of three hours, two passes that look back two hours, one collection, one reset: a pass can fail and the next one make up for it, and a counter can be stale, reset or missing |
| `JunosParser` | `NoSilentWildcard`, `CountsUnambiguous`, `UnknownApplicationsStay` | outputs of five lines and rows in all, out of some twenty: a clause of every kind the parser tells apart, a policy name in two zone pairs and globally, a counter name that comes three times and one whose row is another policy's, an application flagged before and after a known field |
| `PolicyHistory` | `TypeOK`, `HistoriesHoldChanges`, `HistoryAgreesWithEntities`, `BooksWhole`, `CatchesUp` | two Junos firewalls, one of which may have two policies of one name, and a PAN-OS firewall with and without a rule; two edits and two failures: an edit and its reversal, a failure of a retry |
| `PolicyPanos` | violation of `CollectedAreWritten` | the same firewalls, one failure |
| `Topology` | `TypeOK`, `FusionIsComponents`, `SubgraphClosed`, `FirewallsAccounted`, `LocateIsCurrent` | a switch known to LLDP, to the inventory and to its clients by three names and replaced by another that takes over its address, a host, a guest and a firewall; two passes, four clock values, retention of two: a row that outlives its device and one the TTL takes, a collector that fails in either pass |
| `TopologyNames` | violation of `FoundByName` | the same with the PAN-OS collector, whose three ways to answer this run enumerates as well |
| `ServerAssembly` | `ServedAreGranted`, `RotationKeepsClients`, `PublicIsShareable` | two clients, three tokens, eight token maps of which six do not load, a single token with and without the attestation, six overrides of which three do not, restarts without bound: a crash at every stage of a rotation, a broken file under a running process |
| `EvidenceIngestion` | `OneChainPerWriter`, `DeletedRunsSeen`, `VerdictIsTheWindow`, `SegmentsLand` | two sinks, one of which has two runs of two segments (a restart with a spool to replay), two inserts of unknown outcome, rows of another tier in the table, the window applied or not |

All counters are bounded in the guards of the actions by constants named
`Max...`; the sum of the bounds is what ends a run, hence
`CHECK_DEADLOCK FALSE` in most configurations. `PolicyHistory` and
`ServerAssembly` never stop, and there deadlock is checked. The threads of
`AuditChain`, the rules of `RuleEvidence`, and the addresses and the machines of
`EntityGraph` are symmetric.

Each property has a mutant in `PROJECT.json`: an operator that changes one
definition the way a plausible bug would (its comment begins "A bug"), under
which the property fails.

### Fairness

Three properties are about what must eventually happen.

- `CallsEnd`: weak fairness of a thread's own next step (`Proceed`). `acquire()`
  refuses instead of waiting, a tool's query runs under `max_execution_time`,
  and the audit lock is held only over one insert. Nothing is assumed about the
  arrival of calls.
- `CatchesUp`: weak fairness of `Start`, which is the systemd timer, and of
  `PassStep`, since every call to a firewall and to the database has a timeout.
  Failures are bounded by `MaxFailures`, which says that they end; the property
  says what holds after.
- `SegmentsLand`: per sink, weak fairness of its start, its reads of the mark and
  its deliveries: a stopped sink is started again and works off its spool.
  Nothing is assumed of requests in limbo, nor that anything is recorded.

## What is proved

For every value of the constants that satisfies the named assumptions:

- `AuditChain_proofs`, of the abstract log: a table that grows as `AuditLog` says
  verifies clean (`LogAlwaysClean`), and the verifier sees exactly the deletions
  that leave a successor of a deleted row (`LogDeletionsSeen`). The invariant
  says that every row carries its own hash and that its predecessor is stored;
  the argument is by induction on the length of a hash, through the shortest
  unreachable row.
- Of the auditor: `TypeCorrect`; `Implementation` (`AuditChain` implements
  `AuditLog`), from an invariant that says where every hash in flight comes
  from: the head, the head a thread read and the predecessor of each row in limbo
  is genesis or the hash of a stored row; `UntamperedClean` and
  `DeletionsDetectedAlways`, which follow from the refinement and the two
  theorems about the log; `EditsDetectedAlways`, since a tampered row no longer
  hashes to what its successor carries; `NoForkWithoutFaults`, from an invariant
  that says no stored row continues the head and that the thread in the lock read
  it; and `ForksAlwaysAccounted`, by counting the ends of the chain with
  the rows in limbo: a row adds an end exactly when the head is not the hash of
  one, and the head comes to be behind only by a raised insert or a restart.
- `ToolCall_proofs`: `TypeCorrect`, `SlotsAlwaysAccounted`,
  `ConcurrencyBounded`, `WindowBounded`, `OneRowAlways` and `RuleImplemented`
  (`ToolCall` implements `Admission`). The window rests on
  an invariant that relates the deque to the history of all admissions: it is a
  suffix of the history, what was dropped lies before the window, and any entry
  and the one `MaxPerWindow` later are a window apart. The audit rows rest on what
  a thread's stage tells of its call, and on no two threads serving one call.
  The refinement maps the slots to the calls between `acquire` and `release`; a
  step of the deque is one of the rule because the window of the history and the
  trimmed deque hold the same number of admissions.
- `PublicTier_proofs`, of the public metrics: `Reidentifiable`, `ContinuousSeries`,
  `StableMappings`, `GrowingTotals`, `NothingOverstated` and
  `SharingOnlyWithinARun`. The invariant follows the map from where
  it is loaded to where it is written: between two writes nothing else changes
  the table, so the loaded map agrees with it, `MintSurrogate` returns what an
  address already has, and the planned map rows name exactly the planned series.
  Nothing about digests is used, so these hold for any hash; only
  `SharingOnlyWithinARun` uses that the digests of two addresses differ and are
  equally long. `GrowingTotals` has an invariant of its own: a stored
  total is never more than the events of its bucket, a feed only grows, and a
  bucket that begins in the window is counted whole; `NothingOverstated` adds
  that each row of the plan counts events of its own address, which is published
  with it, whichever of two rows with one key stays.
- Of the servers, in the same module: `TypeCorrect`, `ServedGranted`, `RotationSafe` and
  `PublicShareable`. The process is always what the file it read makes of it; the
  rotation's invariant has one clause per stage and says which of the two entries
  stand in the file, which the process may know, and who holds which token.
- `RuleEvidence_proofs`: `TypeCorrect`, `LogBacksUnused` and `CounterBacksUnused`.
  The log half rests on where a punctual log can be: before its hour is counted,
  in the hours a pass has read, or in a bucket; the counter half on the device's
  counter bounding the matches since the last reset, and a stored count being one
  the device once had.
- `EntityGraph_proofs`: `EdgesHaveEnds` and `MergeLosesNothing`. The first rests on
  what a program knows when the other does not run: what a pass is about to write
  has its ends in the tables or in the same write, a reconciliation has read
  every edge that is not tainted, and moves those that name a twin to assets that
  exist and are no twins. The second relates the table at each step of a
  reconciliation that runs alone to the one it read. Its arithmetic is a section
  of lemmas on sums over finite sets (what a sum is of two disjoint sets, of a
  set cut into groups, of a set with one member changed), each by induction on
  the subsets, in the form of a smallest counterexample (`WFMin`).
- `PolicyHistory_proofs`: `HistoriesAlwaysChange`, `HistoriesAlwaysAgree`,
  `BooksAlwaysWhole` and `TypeCorrect`. Of the parsers these use only the kind of
  value they return.
  The first two rest on the rows that were read before an append still being the
  latest when it runs, and on the rules of a pass being in `ssdf.entities` from
  the time it writes the edges; the third on every section read so far being among
  what its device has said since the pass began.
  Of the Junos parsers, for outputs of any length: `NothingReadsAsWildcard` (a
  rule's clauses and its `match_unknown` are exactly what its lines said, and the
  zones of a global policy, `any` by default, are so only when no line named
  one), `CountsNeverGuessed` (a rule is given a count exactly when one row bore
  its name, and never another's when its own row was read) and
  `UnknownStaysUnknown`. The invariant compares the accumulator, key by key, with
  the lines and rows read.
- `EvidenceIngestion_proofs`: `VerdictSound`, `OneChainAlways` and
  `DeletedRunsAlwaysSeen`. For the first the invariant gives the rows the
  contract script has stored at each of its steps; what commits late is a sink's,
  or the script has failed. For the others it gives each sink one sequence of
  segments, ordered by run and number, of which a first part has landed and all
  but a first part waits in the spool; the two parts differ by at most the one
  segment whose insert timed out. So a mark names a landed segment, what is
  skipped has landed, what is in limbo is never beyond the next segment to land,
  and the tail read after the replay is the last segment recorded. From there the
  verifier's checks are evaluated: nothing is unreachable, by the least index that
  would be, and the least row kept after a deleted one names a row that is gone.

- `Topology_proofs`: `TypeCorrect`, `SubgraphAlwaysClosed`,
  `FusionAlwaysComponents`, `FirewallsAlwaysAccounted` and `LocateAlwaysCurrent`.
  The first lemmas follow a pass: an observation is of the time of its pass, the node rows made
  of a set of observations are one for each device root and each host, guest or
  interface, and each is as new as the newest observation that mentions it, so
  both ends of such a link have a row that is no older than the link. The
  invariant carries that into the tables: nodes are written before edges, an
  upsert never makes a row older, and the TTL therefore takes a node only when it
  is due to take every link that needs it.
  The fusion is a fold of union-find over the devices and, for each, over its
  tokens. Its parent links are a forest with a depth that falls along every link;
  so the recursive function of `Find` is the one that gives the roots (by a least
  counterexample), and `Union` joins two trees and no others. The invariant of
  the loops says that only names a chain of shared tokens connects have one root,
  and that each token seen has one owner, with the root of every device that has
  shown it; at the end of the loops these two are the property. A fold is unrolled
  once, into a sequence of values each a step from the one before.
  The firewalls rest on the freshest row written of an id staying in the table
  until it is due (`stored`, a history variable, is what was written), and
  `locate` on the edges table holding every link the last complete pass had just
  seen and nothing newer (`latest`): a recent older link of the host is beaten by
  one of that pass, and only hosts are attached.

Of the links `SubgraphAlwaysClosed` is about attachments, hosted guests and
physical links. A `has_address` edge may lead to an address that is no node, and
the nodes of flow edges are as old as the first flow they were seen in, so the
TTL may take them first.

Of the assumptions on constants, `FiniteAnswers` says that a collector returns
finitely many observations: they are a Python list.

Every invariant and action property the runs check is a theorem. Only model-checked are the three
liveness properties, since liveness under fairness is out of the provers' reach.

## Disagreements

Two runs find a behaviour that contradicts what the repository says of itself;
"findings" of `PROJECT.json` quotes the lines.

- `PolicyPanos`: one PAN-OS rule ends every pass at `resolve_policies.py:77`,
  and no firewall's rules are written.
- `TopologyNames`: a device whose MAC named node becomes the root of a fusion is
  not found by its inventory name.

Others were seen in counterexamples while the models were built. They are not
runs now; the properties and models are cut so that they hold beside them.

- `audit.py:131` seeds the head with the latest row by timestamp, while `record`
  takes the timestamp before the lock: threads chain rows in another order than
  their timestamps, and a restart forks the chain at an interior row.
  `docs/audit-evidence-contract-v1.md:329` says of this chain that the tail is
  found "by following the links, not by sorting". `ForksAccounted` counts these
  forks among those a restart explains.
- `infra/clickhouse/007_audit.sql:24` drops rows after 90 days; of what is left,
  an untouched chain, `verify_tier` reports the oldest rows as
  `missing_predecessor` and all as `unreachable`, while
  `009_audit_hash_chain.sql:9` and `verify_audit.py:107` speak of the first hashed
  row as the chain's start. The model has no TTL.
- A resolver pass that overlaps a reconciliation leaves edges to assets the
  reconciliation deletes (`reconcile_assets.py:58`, "no dangling reference").
  `NoDanglingEdge` exempts exactly the edges of such a pass.
- `reconcile_assets.py:34` collapses the bindings of all segments, so an address
  bound in one segment makes the same address of another one a twin;
  `resolve_entities.py:6` says that "the same IP in different segments never
  merges". The run has one segment.
- `reconcile_assets.py:120` promises the GOVERNED_BY edges of merged edges back
  "within one cycle"; the resolver derives them only from flows of its window.
- `public-metrics/resolve.py:118` begins the window inside a bucket and overwrites
  that bucket's total with a part of it, where
  `rule_usage_rollup.compute_window` aligns its window;
  `013_public_metrics.sql:16` speaks of a re-run that overwrites. `TotalsGrow` is
  about every other bucket.
- `chreader.py:64` reads the map over all key versions, so an address keeps the
  surrogate of the old key after a rotation, where
  `onboarding/public-metrics/key-management.md:32` says that "new mappings are
  minted under key_version 2 (new surrogates for the same IPs)". The model does
  as the code does; `SeriesContinuous` compares only what runs under one key
  publish, so no run takes either for correct.
- `verify_evidence_contract.py:56` computes a hash that, for all its docstring
  says ("matches audit_chain.py semantics"), is not `compute_row_hash`:
  `verify_audit.py` reports the script's row as a `content_edit`. The model has
  both digests, and `OneChainPerWriter` is about the sinks' rows.
- `junos.py:200` drops the zones of a counter's row, so a rule that has no row of
  its own (inactive, or removed between the two commands) is given the count of
  the one row that bears its name, another policy's. `CountsUnambiguous` is about
  names that several rows bear and about rules whose own row was read.
- Of the topology, without a line that says otherwise: VM host names are not
  identifiers; `_collapse_superseded` also collapses rows of different devices
  that bear one name; a `has_address` edge may lead to an address that is no
  node; LLDP interfaces are linked to no device; a PAN-OS firewall's inventory row
  is lost when one of its calls fails.

## What is not modelled

- SQL text, Vector's field parsing, wording, logging and layout; the stateless
  query tools, health gauges, attribution and the evaluation scorer.
- Of the graph tools the traversals (`neighbors`, `find_path`,
  `enforcement_points`), `topology_snapshot`, the public schema and `LIMIT`; the
  entity tools (`entitystore.py`, `access_tools.py`), which choose among the rows
  of one query; `rule_history`, `rule_usage` and `explain_rule`.
- Of an entity edge's attributes all but the session count; the 30-day TTL of the
  entity tables (an edge's row is never fresher than the rows of its two assets);
  of the topology the identifiers of hosts other than their MAC, the times of
  first sight and the attributes of links.
- The index measures of the public metrics, and the byte sums of the rollup.

What would come next: the composition of the sinks with `AuditChain` in one
table; and the traversals over the graph `Topology` stores.
