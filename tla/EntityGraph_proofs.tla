------------------------- MODULE EntityGraph_proofs -------------------------
(***************************************************************************)
(* Theorems about the entity tables, for any segments, addresses, rules,   *)
(* windows and failures, and any number of passes and reconciliations.     *)
(*                                                                         *)
(* A program that runs alone writes what the tables bear.  Two that run at *)
(* the same time are both in mixed, so whatever a pass adds to the tables  *)
(* that a reconciliation has already read is tainted: the reconciliation   *)
(* knows every other edge, and moves it before it deletes an end.          *)
(*                                                                         *)
(* That no session is lost is arithmetic over tables: sums over finite     *)
(* sets, by induction on their subsets.                                    *)
(***************************************************************************)
EXTENDS EntityGraph, FiniteSetTheorems, WellFoundedInduction, NaturalsInduction, TLAPS

\* Both ends of an edge are in a set of assets.
Within(e, A) == e[1] \in A /\ e[2] \in A

\* An edge names one of a set of assets.
Names(e, A) == e[1] \in A \/ e[2] \in A

\* The programs know when they are not alone.
Alone == rpc # "idle" /\ mpc # "idle" => mixed = {"pass", "reconciliation"}

\* A pass writes the ends of its edges first, and an edge with its governance.
PassInv ==
    /\ rpc \in {"idle", "flows", "resolved", "entities"}
    /\ rpc \in {"resolved", "entities"} =>
          /\ \A e \in DOMAIN output.comm : Within(e, DOMAIN output.assets)
          /\ \A g \in output.gov : g[1] \in DOMAIN output.comm
    /\ rpc = "entities" /\ "pass" \notin mixed =>
          \A e \in DOMAIN output.comm : Within(e, DOMAIN assets)

\* What the reconciliation has read still stands, and what it has not read is
\* of a pass that ran beside it.
ReadInv ==
    /\ mpc \in {"idle", "ipOnly", "macAssets", "comm", "gov", "planned", "merged",
                "edgesDeleted"}
    /\ mpc # "idle" => \A a \in seen.ipOnly : a.basis = "ip_only"
    /\ mpc \in {"macAssets", "comm", "gov"} =>
          seen.macAssets \subseteq DOMAIN assets /\ \A a \in seen.macAssets : a.basis = "mac"
    /\ mpc \in {"comm", "gov"} =>
          DOMAIN seen.comm \subseteq DOMAIN comm /\ DOMAIN comm \ tainted \subseteq DOMAIN seen.comm
    /\ mpc = "gov" => \A g \in gov : g[1] \notin tainted => g \in seen.gov

\* The plan moves every edge that names a twin, unless it is tainted, to assets
\* that are no twins and that exist.
PlanInv ==
    /\ mpc \in {"planned", "merged", "edgesDeleted"} =>
          /\ \A a \in DOMAIN plan.twins : a.basis = "ip_only" /\ plan.twins[a].basis = "mac"
          /\ \A a \in DOMAIN plan.twins : plan.twins[a] \in DOMAIN assets
          /\ \A e \in plan.edges : Names(e, DOMAIN plan.twins)
    /\ mpc \in {"planned", "merged"} =>
          /\ \A e \in DOMAIN comm \ tainted : Names(e, DOMAIN plan.twins) => e \in plan.edges
          /\ \A g \in gov : g[1] \in plan.edges \ tainted => g \in plan.governed
    /\ mpc = "planned" =>
          /\ plan.edges \subseteq DOMAIN comm
          /\ DOMAIN plan.merged = {Renamed(plan.twins, e) : e \in plan.edges}
    /\ mpc = "edgesDeleted" =>
          \A e \in DOMAIN comm \ tainted : ~Names(e, DOMAIN plan.twins)

GraphInv == NoDanglingEdge /\ Alone /\ PassInv /\ ReadInv /\ PlanInv

----------------------------------------------------------------------------
(* What the operators of EntityTables do to the keys of a table.           *)

\* An insert keeps every key and adds its own; a deletion takes its keys.
LEMMA TableKeys ==
    ASSUME NEW T, NEW N, NEW K
    PROVE  /\ DOMAIN UpsertAssets(T, N) = DOMAIN T \cup DOMAIN N
           /\ DOMAIN UpsertEdges(T, N) = DOMAIN T \cup DOMAIN N
           /\ DOMAIN Remove(T, K) = DOMAIN T \ K
BY DEF UpsertAssets, UpsertEdges, Remove, Restrict

\* resolve_entities returns both ends of an edge, and the edge that a
\* GOVERNED_BY edge hangs off.
LEMMA ResolvedWhole ==
    ASSUME NEW F, NEW b
    PROVE  /\ \A e \in DOMAIN ResolvedEdges(F, b) : Within(e, DOMAIN ResolvedAssets(F, b))
           /\ \A g \in ResolvedGovernance(F, b) : g[1] \in DOMAIN ResolvedEdges(F, b)
<1> DEFINE ends(f) == {PairOf(b, f)[1], PairOf(b, f)[2]}
<1>1. DOMAIN ResolvedEdges(F, b) = {PairOf(b, f) : f \in F}
    BY DEF ResolvedEdges
<1>2. DOMAIN ResolvedAssets(F, b) = UNION {ends(f) : f \in F}
    BY DEF ResolvedAssets
<1>3. ASSUME NEW f \in F PROVE Within(PairOf(b, f), DOMAIN ResolvedAssets(F, b))
    BY <1>2 DEF Within
<1>4. \A g \in ResolvedGovernance(F, b) : \E f \in F : g = <<PairOf(b, f), Rule[f.seg]>>
    BY DEF ResolvedGovernance
<1> QED BY <1>1, <1>3, <1>4

\* A twin goes into the asset of a machine that was read.
LEMMA TwinsMoveToMachines ==
    ASSUME NEW ipOnly, NEW macAssets, NEW b
    PROVE  LET twins == TwinTargets(ipOnly, macAssets, b)
           IN  /\ DOMAIN twins \subseteq ipOnly
               /\ \A a \in DOMAIN twins : twins[a] \in macAssets
<1> DEFINE target(a) == {MacKey(m) : m \in MacsOf(b, a.key[2])}
           T == {a \in ipOnly : Cardinality(target(a)) = 1 /\ target(a) \subseteq macAssets}
<1>1. TwinTargets(ipOnly, macAssets, b) = [a \in T |-> CHOOSE m \in target(a) : TRUE]
    BY DEF TwinTargets
<1>2. ASSUME NEW a \in T PROVE (CHOOSE m \in target(a) : TRUE) \in macAssets
    <2>1. target(a) # {}
        BY FS_EmptySet
    <2> QED BY <2>1
<1> QED BY <1>1, <1>2

\* An end that is a twin is replaced, and no other.
LEMMA RenamedEnds ==
    ASSUME NEW twins, NEW e
    PROVE  /\ Renamed(twins, e)[1] = IF e[1] \in DOMAIN twins THEN twins[e[1]] ELSE e[1]
           /\ Renamed(twins, e)[2] = IF e[2] \in DOMAIN twins THEN twins[e[2]] ELSE e[2]
BY DEF Renamed

----------------------------------------------------------------------------
(* The steps.                                                              *)

LEMMA GraphInit == Init => GraphInv
BY DEF Init, GraphInv, NoDanglingEdge, Alone, PassInv, ReadInv, PlanInv

\* The feed touches none of it, and an interrupted program only leaves.
LEMMA FeedAndKills ==
    ASSUME GraphInv,
           FlowArrives \/ BindingObserved \/ Tick \/ KillPass \/ KillReconciliation
               \/ UNCHANGED vars
    PROVE  GraphInv'
<1> USE DEF GraphInv, NoDanglingEdge, Alone, PassInv, ReadInv, PlanInv,
            tables, resolver, maintenance, history
<1>1. CASE FlowArrives \/ BindingObserved \/ Tick \/ UNCHANGED vars
    BY <1>1 DEF FlowArrives, BindingObserved, Tick, vars
<1>2. CASE KillPass
    BY <1>2 DEF KillPass
<1>3. CASE KillReconciliation
    BY <1>3 DEF KillReconciliation
<1> QED BY <1>1, <1>2, <1>3

\* A pass reads, resolves, and writes its assets before its edges.
LEMMA PassSteps ==
    ASSUME GraphInv, ReadFlows \/ ReadBindings \/ WriteEntities
    PROVE  GraphInv'
<1> USE DEF GraphInv, NoDanglingEdge, Alone, PassInv, ReadInv, PlanInv
<1>1. CASE ReadFlows
    BY <1>1 DEF ReadFlows, tables, maintenance
<1>2. CASE ReadBindings
    <2>1. PICK b : output' = [assets |-> ResolvedAssets(flows, b),
                              comm   |-> ResolvedEdges(flows, b),
                              gov    |-> ResolvedGovernance(flows, b)]
        BY <1>2 DEF ReadBindings
    <2>2. /\ \A e \in DOMAIN output'.comm : Within(e, DOMAIN output'.assets)
          /\ \A g \in output'.gov : g[1] \in DOMAIN output'.comm
        BY <2>1, ResolvedWhole
    <2> QED BY <1>2, <2>2 DEF ReadBindings, tables, maintenance, history
<1>3. CASE WriteEntities
    <2>1. DOMAIN assets' = DOMAIN assets \cup DOMAIN output.assets
        BY <1>3, TableKeys DEF WriteEntities
    <2>2. \A e \in DOMAIN output.comm : Within(e, DOMAIN assets')
        BY <1>3, <2>1 DEF WriteEntities, Within
    <2>3. /\ rpc = "resolved" /\ rpc' = "entities" /\ DOMAIN assets \subseteq DOMAIN assets'
          /\ UNCHANGED <<comm, gov, output, mpc, seen, plan, mixed, tainted>>
        BY <1>3, <2>1 DEF WriteEntities, maintenance, history
    <2>4. NoDanglingEdge' /\ Alone' /\ PassInv'
        BY <2>2, <2>3
    <2>5. ReadInv'
        BY <2>3
    <2>6. PlanInv'
        BY <2>3
    <2> QED BY <2>4, <2>5, <2>6
<1> QED BY <1>1, <1>2, <1>3

\* A pass that is alone clears its edges, whose ends exist; one that is not
\* taints them.
LEMMA EdgesWritten == GraphInv /\ WriteEdges => GraphInv'
<1> SUFFICES ASSUME GraphInv, WriteEdges PROVE GraphInv'
    OBVIOUS
<1> USE DEF GraphInv
<1>1. /\ rpc = "entities" /\ rpc' = "idle"
      /\ DOMAIN comm' = DOMAIN comm \cup DOMAIN output.comm
      /\ gov' = gov \cup output.gov
      /\ UNCHANGED <<assets, mpc, seen, plan>>
      /\ \A g \in output.gov : g[1] \in DOMAIN output.comm
    BY TableKeys DEF WriteEdges, PassInv, maintenance
<1>2. CASE "pass" \in mixed
    <2>1. tainted' = tainted \cup DOMAIN output.comm
        BY <1>2 DEF WriteEdges
    <2>2. NoDanglingEdge'
        BY <1>1, <2>1 DEF NoDanglingEdge
    <2>3. ReadInv'
        BY <1>1, <2>1 DEF ReadInv
    <2>4. PlanInv'
        BY <1>1, <2>1 DEF PlanInv
    <2> QED BY <1>1, <2>2, <2>3, <2>4 DEF Alone, PassInv
<1>3. CASE "pass" \notin mixed
    <2>1. tainted' = tainted \ DOMAIN output.comm
        BY <1>3 DEF WriteEdges
    <2>2. mpc = "idle"
        BY <1>1, <1>3 DEF Alone
    <2>3. \A e \in DOMAIN output.comm : Within(e, DOMAIN assets)
        BY <1>1, <1>3 DEF PassInv
    <2>4. NoDanglingEdge'
        BY <1>1, <2>1, <2>3 DEF NoDanglingEdge, Within
    <2> QED BY <1>1, <2>2, <2>4 DEF Alone, PassInv, ReadInv, PlanInv
<1> QED BY <1>2, <1>3

\* The four reads of a reconciliation.
LEMMA MaintenanceReads ==
    ASSUME GraphInv, ReadIpOnly \/ ReadMacAssets \/ ReadCommEdges \/ ReadGovEdges
    PROVE  GraphInv'
<1> USE DEF GraphInv, NoDanglingEdge, Alone, PassInv, ReadInv, PlanInv, Read,
            tables, resolver, history
<1>1. CASE ReadIpOnly
    <2>1. \A a \in seen'.ipOnly : a.basis = "ip_only"
        BY <1>1 DEF ReadIpOnly, WithBasis
    <2> QED BY <1>1, <2>1 DEF ReadIpOnly
<1>2. CASE ReadMacAssets
    <2>1. seen' = [seen EXCEPT !.macAssets = WithBasis("mac")]
        BY <1>2 DEF ReadMacAssets
    <2> QED BY <1>2, <2>1 DEF ReadMacAssets, WithBasis
<1>3. CASE ReadCommEdges
    BY <1>3 DEF ReadCommEdges
<1>4. CASE ReadGovEdges
    BY <1>4 DEF ReadGovEdges
<1> QED BY <1>1, <1>2, <1>3, <1>4

\* plan_reconciliation moves every edge that it read and that names a twin.
LEMMA Planned == GraphInv /\ PlanMerge => GraphInv'
<1> SUFFICES ASSUME GraphInv, PlanMerge PROVE GraphInv'
    OBVIOUS
<1>1. PICK b : plan' = PlanReconciliation(seen.ipOnly, seen.macAssets, seen.comm, seen.gov, b)
    BY DEF PlanMerge
<1> DEFINE twins == TwinTargets(seen.ipOnly, seen.macAssets, b)
           touched == Touched(twins, seen.comm)
<1>2. /\ plan'.twins = twins /\ plan'.edges = touched
      /\ plan'.governed = {g \in seen.gov : g[1] \in touched}
      /\ DOMAIN plan'.merged = {Renamed(twins, e) : e \in touched}
    BY <1>1 DEF PlanReconciliation
<1>3. DOMAIN twins \subseteq seen.ipOnly /\ \A a \in DOMAIN twins : twins[a] \in seen.macAssets
    BY TwinsMoveToMachines
<1>4. \A e : e \in touched <=> e \in DOMAIN seen.comm /\ Names(e, DOMAIN twins)
    BY DEF Touched, Names
<1>5. /\ mpc = "gov" /\ mpc' = "planned"
      /\ UNCHANGED <<assets, comm, gov, rpc, output, seen, mixed, tainted>>
    BY DEF PlanMerge, Read, tables, resolver, history
<1> HIDE DEF twins, touched
<1>6. PlanInv'
    <2> USE <1>2, <1>3, <1>4, <1>5
    <2>1. \A a \in DOMAIN plan'.twins :
              a.basis = "ip_only" /\ plan'.twins[a].basis = "mac" /\ plan'.twins[a] \in DOMAIN assets'
        BY DEF GraphInv, ReadInv
    <2>2. \A e \in DOMAIN comm' \ tainted' : Names(e, DOMAIN plan'.twins) => e \in plan'.edges
        BY DEF GraphInv, ReadInv
    <2>3. \A g \in gov' : g[1] \in plan'.edges \ tainted' => g \in plan'.governed
        BY DEF GraphInv, ReadInv
    <2>4. plan'.edges \subseteq DOMAIN comm'
        BY DEF GraphInv, ReadInv
    <2> QED BY <2>1, <2>2, <2>3, <2>4 DEF PlanInv
<1> QED BY <1>5, <1>6 DEF GraphInv, NoDanglingEdge, Alone, PassInv, ReadInv

\* The merged edges join assets that exist and are no twins.
LEMMA Merged == GraphInv /\ InsertMerged => GraphInv'
<1> SUFFICES ASSUME GraphInv, InsertMerged PROVE GraphInv'
    OBVIOUS
<1>1. /\ mpc = "planned" /\ mpc' = "merged"
      /\ DOMAIN comm' = DOMAIN comm \cup {Renamed(plan.twins, e) : e \in plan.edges}
      /\ tainted' = tainted \cup {Renamed(plan.twins, e) : e \in tainted \cap plan.edges}
      /\ UNCHANGED <<assets, gov, rpc, output, seen, plan, mixed>>
    <2>1. mpc = "planned" /\ comm' = UpsertEdges(comm, plan.merged)
        BY DEF InsertMerged, Read
    <2>2. DOMAIN plan.merged = {Renamed(plan.twins, e) : e \in plan.edges}
        BY <2>1 DEF GraphInv, PlanInv
    <2>3. DOMAIN comm' = DOMAIN comm \cup {Renamed(plan.twins, e) : e \in plan.edges}
        <3>1. DOMAIN comm' = DOMAIN comm \cup DOMAIN plan.merged
            BY <2>1, TableKeys
        <3> QED BY <2>2, <3>1, Zenon
    <2> QED BY <2>3 DEF InsertMerged, Read, resolver
<1>2. ASSUME NEW n \in DOMAIN comm' \ tainted', n \notin DOMAIN comm
      PROVE  Within(n, DOMAIN assets) /\ ~Names(n, DOMAIN plan.twins)
    <2>1. PICK e \in plan.edges : n = Renamed(plan.twins, e)
        BY <1>1, <1>2
    <2>2. e \in DOMAIN comm \ tainted
        BY <1>1, <1>2, <2>1 DEF GraphInv, PlanInv
    <2>3. Within(e, DOMAIN assets)
        BY <2>2 DEF GraphInv, NoDanglingEdge, Within
    <2>4. \A a \in DOMAIN plan.twins :
              plan.twins[a] \in DOMAIN assets /\ plan.twins[a] \notin DOMAIN plan.twins
        BY <1>1 DEF GraphInv, PlanInv
    <2> QED BY <2>1, <2>3, <2>4, RenamedEnds DEF Within, Names
<1>3. NoDanglingEdge'
    <2>1. \A e \in DOMAIN comm' \ tainted' : Within(e, DOMAIN assets)
        BY <1>1, <1>2 DEF GraphInv, NoDanglingEdge, Within
    <2> QED BY <1>1, <2>1 DEF GraphInv, NoDanglingEdge, Within
<1>4. PlanInv'
    BY <1>1, <1>2 DEF GraphInv, PlanInv
<1> QED BY <1>1, <1>3, <1>4 DEF GraphInv, Alone, PassInv, ReadInv

\* The edges of the twins go, and what hangs off them.
LEMMA EdgesDeleted == GraphInv /\ DeleteEdges => GraphInv'
<1> SUFFICES ASSUME GraphInv, DeleteEdges PROVE GraphInv'
    OBVIOUS
<1>1. /\ mpc = "merged" /\ mpc' = "edgesDeleted"
      /\ DOMAIN comm' = DOMAIN comm \ plan.edges
      /\ gov' = gov \ plan.governed
      /\ UNCHANGED <<assets, rpc, output, seen, plan, mixed, tainted>>
    BY TableKeys DEF DeleteEdges, Read, resolver, history
<1>2. NoDanglingEdge'
    BY <1>1 DEF GraphInv, NoDanglingEdge, PlanInv
<1>3. PlanInv'
    BY <1>1 DEF GraphInv, PlanInv
<1> QED BY <1>1, <1>2, <1>3 DEF GraphInv, Alone, PassInv, ReadInv

\* The twins go when no edge but a tainted one names them.
LEMMA TwinsDeleted == GraphInv /\ DeleteTwins => GraphInv'
<1> SUFFICES ASSUME GraphInv, DeleteTwins PROVE GraphInv'
    OBVIOUS
<1>1. /\ mpc = "edgesDeleted" /\ mpc' = "idle"
      /\ DOMAIN assets' = DOMAIN assets \ DOMAIN plan.twins
      /\ mixed' = mixed \ {"reconciliation"}
      /\ UNCHANGED <<comm, gov, rpc, output, tainted>>
    BY TableKeys DEF DeleteTwins, Read, resolver
<1>2. NoDanglingEdge'
    BY <1>1 DEF GraphInv, NoDanglingEdge, PlanInv, Names
<1> QED BY <1>1, <1>2 DEF GraphInv, Alone, PassInv, ReadInv, PlanInv

LEMMA GraphStep == GraphInv /\ [Next]_vars => GraphInv'
BY FeedAndKills, PassSteps, EdgesWritten, MaintenanceReads, Planned, Merged, EdgesDeleted,
   TwinsDeleted, Zenon DEF Next

LEMMA GraphInvariant == Spec => []GraphInv
BY GraphInit, GraphStep, PTL DEF Spec

\* No edge dangles, whatever was killed and however the two programs overlap,
\* but those of a pass that ran beside a reconciliation
\* (reconcile_assets.py:57-59, :150-166).
THEOREM EdgesHaveEnds == Spec => []NoDanglingEdge
<1>1. GraphInv => NoDanglingEdge
    BY DEF GraphInv
<1> QED BY <1>1, GraphInvariant, PTL

----------------------------------------------------------------------------
(* Sums over finite sets.  Sessions is a fold, a function that is defined  *)
(* by recursion on the subsets of a table's keys; what is proved about it  *)
(* is proved by way of a counterexample of the least size.                 *)

First(s) == CHOOSE x \in s : TRUE

\* The fold's equation, for the weights w.
FoldsBy(f, w, S) ==
    f = [s \in SUBSET S |-> IF s = {} THEN 0 ELSE w[First(s)] + f[s \ {First(s)}]]

SumOf(w, S) == (CHOOSE f : FoldsBy(f, w, S))[S]

Weighs(w, S) == IsFiniteSet(S) /\ \A k \in S : w[k] \in Nat

\* A set of subsets of a finite set that holds every subset whose strict subsets
\* it holds holds all of them.
LEMMA SubsetInduction ==
    ASSUME NEW S, IsFiniteSet(S), NEW G,
           \A t \in SUBSET S : (\A u \in SUBSET t : u # t => u \in G) => t \in G
    PROVE  \A t \in SUBSET S : t \in G
<1> DEFINE Bad == {t \in SUBSET S : t \notin G}
<1> SUFFICES ASSUME Bad # {} PROVE FALSE
    OBVIOUS
<1>1. IsWellFoundedOn(StrictSubsetOrdering(S), FiniteSubsetsOf(S))
    BY FS_StrictSubsetOrderingWellFounded
<1>2. FiniteSubsetsOf(S) = SUBSET S
    BY FS_FiniteSubsetsOfFinite
<1>3. PICK t \in Bad : \A u \in Bad : <<u, t>> \notin StrictSubsetOrdering(S)
    <2>1. Bad \subseteq FiniteSubsetsOf(S)
        BY <1>2
    <2> HIDE DEF Bad
    <2> QED BY <1>1, <2>1, WFMin
<1>4. ASSUME NEW u \in SUBSET t, u # t PROVE u \in G
    <2>1. <<u, t>> \in StrictSubsetOrdering(S)
        BY <1>4 DEF StrictSubsetOrdering
    <2>2. u \in SUBSET S
        OBVIOUS
    <2> QED BY <1>3, <2>1, <2>2
<1> QED BY <1>4

\* What is taken first is a member.
LEMMA FirstIn == ASSUME NEW s, s # {} PROVE First(s) \in s
BY DEF First

\* Two folds agree where their weights do.
LEMMA FoldUnique ==
    ASSUME NEW w, NEW v, NEW S, NEW T, NEW f, NEW g, FoldsBy(f, w, S), FoldsBy(g, v, T),
           NEW s \in SUBSET (S \cap T), IsFiniteSet(s), \A k \in s : w[k] = v[k]
    PROVE  f[s] = g[s]
<1> DEFINE G == {t \in SUBSET s : f[t] = g[t]}
<1>1. ASSUME NEW t \in SUBSET s, \A u \in SUBSET t : u # t => u \in G
      PROVE  t \in G
    <2>1. t \in SUBSET S /\ t \in SUBSET T
        OBVIOUS
    <2>2. CASE t = {}
        BY <2>1, <2>2 DEF FoldsBy
    <2>3. CASE t # {}
        <3> DEFINE x == First(t)
        <3>1. x \in t
            BY <2>3, FirstIn
        <3>2. f[t \ {x}] = g[t \ {x}]
            BY <1>1, <3>1
        <3>3. f[t] = w[x] + f[t \ {x}] /\ g[t] = v[x] + g[t \ {x}]
            BY <2>1, <2>3 DEF FoldsBy
        <3>4. w[x] = v[x]
            BY <3>1
        <3> QED BY <3>2, <3>3, <3>4
    <2> QED BY <2>2, <2>3
<1> HIDE DEF G
<1>2. \A t \in SUBSET s : t \in G
    BY <1>1, SubsetInduction
<1> QED BY <1>2 DEF G

\* The fold of a finite set exists.
LEMMA FoldExists ==
    ASSUME NEW w, NEW S, Weighs(w, S)
    PROVE  \E f \in [SUBSET S -> Nat] : FoldsBy(f, w, S)
<1> DEFINE IsFold(f, t) == f \in [SUBSET t -> Nat] /\ FoldsBy(f, w, t)
           G == {t \in SUBSET S : \E f : IsFold(f, t)}
           F(t) == CHOOSE f : IsFold(f, t)
<1>1. ASSUME NEW t \in SUBSET S, \A u \in SUBSET t : u # t => u \in G
      PROVE  t \in G
    <2>1. ASSUME NEW u \in SUBSET t, u # t
          PROVE  /\ IsFiniteSet(u) /\ IsFold(F(u), u)
                 /\ \A r \in SUBSET u : F(u)[r] = F(r)[r]
        <3>1. \A r \in SUBSET u : IsFold(F(r), r)
            <4> SUFFICES ASSUME NEW r \in SUBSET u PROVE IsFold(F(r), r)
                OBVIOUS
            <4>1. r # t
                BY <2>1
            <4>2. r \in G
                BY <1>1, <4>1
            <4>3. \E f : IsFold(f, r)
                <5> HIDE DEF IsFold
                <5> QED BY <4>2
            <4> HIDE DEF IsFold
            <4> QED BY <4>3
        <3>2. \A r \in SUBSET u : IsFiniteSet(r)
            BY FS_Subset DEF Weighs
        <3> HIDE DEF F
        <3>3. ASSUME NEW r \in SUBSET u PROVE F(u)[r] = F(r)[r]
            <4> DEFINE a == F(u)
                       b == F(r)
            <4>1. FoldsBy(a, w, u) /\ FoldsBy(b, w, r)
                BY <3>1
            <4>2. r \in SUBSET (u \cap r) /\ IsFiniteSet(r)
                BY <3>2
            <4> HIDE DEF a, b
            <4>3. a[r] = b[r]
                BY <4>1, <4>2, FoldUnique
            <4> QED BY <4>3 DEF a, b
        <3> QED BY <3>1, <3>2, <3>3
    <2> HIDE DEF F, G
    <2> DEFINE rest(s) == s \ {First(s)}
               f == [s \in SUBSET t |-> IF s = {} THEN 0 ELSE w[First(s)] + F(rest(s))[rest(s)]]
    <2>2. ASSUME NEW s \in SUBSET t, s # {}
          PROVE  /\ First(s) \in t /\ w[First(s)] \in Nat
                 /\ rest(s) \in SUBSET t /\ rest(s) # t
                 /\ F(rest(s))[rest(s)] \in Nat
        <3>1. First(s) \in s
            BY <2>2, FirstIn
        <3>2. rest(s) \in SUBSET t /\ rest(s) # t
            BY <3>1
        <3>3. F(rest(s)) \in [SUBSET rest(s) -> Nat]
            BY <2>1, <3>2
        <3> QED BY <3>1, <3>2, <3>3 DEF Weighs
    <2>3. f \in [SUBSET t -> Nat]
        BY <2>2
    <2>4. ASSUME NEW s \in SUBSET t, s # {} PROVE f[rest(s)] = F(rest(s))[rest(s)]
        <3> DEFINE u == rest(s)
        <3>1. u \in SUBSET t /\ u # t
            BY <2>2, <2>4
        <3>2. IsFold(F(u), u) /\ \A r \in SUBSET u : F(u)[r] = F(r)[r]
            BY <2>1, <3>1
        <3> HIDE DEF u
        <3>3. F(u)[u] = IF u = {} THEN 0 ELSE w[First(u)] + F(u)[rest(u)]
            BY <3>2 DEF FoldsBy
        <3>4. F(u)[rest(u)] = F(rest(u))[rest(u)]
            BY <3>2
        <3>5. f[u] = IF u = {} THEN 0 ELSE w[First(u)] + F(rest(u))[rest(u)]
            BY <3>1
        <3>6. f[u] = F(u)[u]
            BY <3>3, <3>4, <3>5
        <3> QED BY <3>6 DEF u
    <2>5. f = [s \in SUBSET t |-> IF s = {} THEN 0 ELSE w[First(s)] + f[rest(s)]]
        <3> DEFINE g == [s \in SUBSET t |-> IF s = {} THEN 0 ELSE w[First(s)] + f[rest(s)]]
        <3>1. ASSUME NEW s \in SUBSET t PROVE f[s] = g[s]
            <4>1. f[s] = IF s = {} THEN 0 ELSE w[First(s)] + F(rest(s))[rest(s)]
                OBVIOUS
            <4> HIDE DEF f
            <4> QED BY <2>4, <4>1
        <3> QED BY <3>1
    <2>6. IsFold(f, t)
        BY <2>3, <2>5, Zenon DEF FoldsBy
    <2> QED BY <2>6 DEF G
<1> HIDE DEF G
<1>2. S \in G
    BY <1>1, SubsetInduction DEF Weighs
<1> QED BY <1>2 DEF G

\* A sum is a natural number, nothing for the empty set, and the weight of the
\* first member and the sum of the others for any other set.
LEMMA SumFirst ==
    ASSUME NEW w, NEW S, Weighs(w, S)
    PROVE  /\ SumOf(w, S) \in Nat
           /\ S = {} => SumOf(w, S) = 0
           /\ S # {} => SumOf(w, S) = w[First(S)] + SumOf(w, S \ {First(S)})
<1>1. PICK f \in [SUBSET S -> Nat] : FoldsBy(f, w, S)
    BY FoldExists
<1>2. ASSUME NEW s \in SUBSET S PROVE SumOf(w, s) = f[s]
    <2>1. Weighs(w, s)
        BY FS_Subset DEF Weighs
    <2>2. \E h : FoldsBy(h, w, s)
        BY <2>1, FoldExists
    <2> DEFINE g == CHOOSE h : FoldsBy(h, w, s)
    <2>3. FoldsBy(g, w, s)
        BY <2>2
    <2> HIDE DEF g
    <2>4. s \in SUBSET (S \cap s) /\ IsFiniteSet(s)
        BY <2>1 DEF Weighs
    <2>5. g[s] = f[s]
        BY <1>1, <2>3, <2>4, FoldUnique
    <2> QED BY <2>5 DEF g, SumOf
<1>3. f[S] = IF S = {} THEN 0 ELSE w[First(S)] + f[S \ {First(S)}]
    BY <1>1 DEF FoldsBy
<1> QED BY <1>1, <1>2, <1>3

\* Sums depend on the weights of the members only.
LEMMA SumAgrees ==
    ASSUME NEW w, NEW v, NEW S, Weighs(w, S), \A k \in S : w[k] = v[k]
    PROVE  SumOf(w, S) = SumOf(v, S)
<1>1. Weighs(v, S)
    BY DEF Weighs
<1>2. \E f : FoldsBy(f, w, S)
    BY FoldExists
<1>3. \E g : FoldsBy(g, v, S)
    BY <1>1, FoldExists
<1> DEFINE F == CHOOSE h : FoldsBy(h, w, S)
           G == CHOOSE h : FoldsBy(h, v, S)
<1>4. FoldsBy(F, w, S) /\ FoldsBy(G, v, S)
    BY <1>2, <1>3
<1> HIDE DEF F, G
<1>5. F[S] = G[S]
    BY <1>4, FoldUnique DEF Weighs
<1> QED BY <1>5 DEF F, G, SumOf

\* Whichever member is taken out, the sum is its weight and that of the others.
LEMMA SumMember ==
    ASSUME NEW w, NEW S, Weighs(w, S), NEW x \in S
    PROVE  SumOf(w, S) = w[x] + SumOf(w, S \ {x})
<1> DEFINE G == {t \in SUBSET S : \A y \in t : SumOf(w, t) = w[y] + SumOf(w, t \ {y})}
<1>0. \A t \in SUBSET S : Weighs(w, t)
    BY FS_Subset DEF Weighs
<1>1. ASSUME NEW t \in SUBSET S, \A u \in SUBSET t : u # t => u \in G
      PROVE  t \in G
    <2> SUFFICES ASSUME NEW y \in t PROVE SumOf(w, t) = w[y] + SumOf(w, t \ {y})
        OBVIOUS
    <2> DEFINE z == First(t)
    <2>1. z \in t /\ SumOf(w, t) = w[z] + SumOf(w, t \ {z})
        BY <1>0, SumFirst, FirstIn
    <2> HIDE DEF z
    <2>2. CASE y = z
        BY <2>1, <2>2
    <2>3. CASE y # z
        <3> DEFINE r == t \ {y, z}
        <3>1. y \in t \ {z} /\ (t \ {z}) \ {y} = r /\ z \in t \ {y} /\ (t \ {y}) \ {z} = r
            BY <2>1, <2>3
        <3>2. t \ {y} \in G /\ t \ {z} \in G
            BY <1>1, <2>1
        <3>3. SumOf(w, t \ {z}) = w[y] + SumOf(w, r)
            BY <3>1, <3>2
        <3>4. SumOf(w, t \ {y}) = w[z] + SumOf(w, r)
            BY <3>1, <3>2
        <3>5. w[y] \in Nat /\ w[z] \in Nat /\ SumOf(w, r) \in Nat
            BY <1>0, <2>1, SumFirst DEF Weighs
        <3> QED BY <2>1, <3>3, <3>4, <3>5
    <2> QED BY <2>2, <2>3
<1> HIDE DEF G
<1>2. S \in G
    BY <1>1, SubsetInduction DEF Weighs
<1> QED BY <1>2 DEF G

\* Sums of disjoint sets add up.
LEMMA SumUnion ==
    ASSUME NEW w, NEW A, NEW B, Weighs(w, A), Weighs(w, B), A \cap B = {}
    PROVE  Weighs(w, A \cup B) /\ SumOf(w, A \cup B) = SumOf(w, A) + SumOf(w, B)
<1> DEFINE G == {t \in SUBSET A : SumOf(w, t \cup B) = SumOf(w, t) + SumOf(w, B)}
<1>0. \A t \in SUBSET A : Weighs(w, t) /\ Weighs(w, t \cup B)
    BY FS_Subset, FS_Union DEF Weighs
<1>1. ASSUME NEW t \in SUBSET A, \A u \in SUBSET t : u # t => u \in G
      PROVE  t \in G
    <2>1. SumOf(w, B) \in Nat
        BY SumFirst
    <2>2. CASE t = {}
        <3>1. SumOf(w, t) = 0 /\ t \cup B = B
            BY <1>0, <2>2, SumFirst
        <3> QED BY <2>1, <3>1
    <2>3. CASE t # {}
        <3>1. PICK x \in t : TRUE
            BY <2>3
        <3> DEFINE r == t \ {x}
        <3>2. SumOf(w, r \cup B) = SumOf(w, r) + SumOf(w, B)
            BY <1>1, <3>1
        <3>3. SumOf(w, t) = w[x] + SumOf(w, r)
            BY <1>0, <3>1, SumMember
        <3>4. x \in t \cup B /\ (t \cup B) \ {x} = r \cup B
            BY <3>1
        <3>5. SumOf(w, t \cup B) = w[x] + SumOf(w, r \cup B)
            <4> HIDE DEF r
            <4> QED BY <1>0, <3>4, SumMember
        <3>6. w[x] \in Nat /\ SumOf(w, r) \in Nat
            BY <1>0, <3>1, SumFirst DEF Weighs
        <3>7. SumOf(w, t \cup B) = SumOf(w, t) + SumOf(w, B)
            <4> HIDE DEF r
            <4> QED BY <2>1, <3>2, <3>3, <3>5, <3>6
        <3> QED BY <3>7
    <2> QED BY <2>2, <2>3
<1> HIDE DEF G
<1>2. A \in G
    BY <1>1, SubsetInduction DEF Weighs
<1> QED BY <1>0, <1>2 DEF G

\* The sums of disjoint groups add up to the sum of all of them.
LEMMA SumGroups ==
    ASSUME NEW w, NEW v, NEW N, IsFiniteSet(N), NEW P, \A n \in N : Weighs(w, P[n]),
           \A n \in N : v[n] = SumOf(w, P[n]),
           \A m, n \in N : m # n => P[m] \cap P[n] = {},
           NEW A, \A e : e \in A <=> \E n \in N : e \in P[n]
    PROVE  SumOf(v, N) = SumOf(w, A)
<1> DEFINE All(t) == UNION {P[n] : n \in t}
           G == {t \in SUBSET N : Weighs(w, All(t)) /\ SumOf(v, t) = SumOf(w, All(t))}
<1>0. \A t \in SUBSET N : Weighs(v, t)
    <2>1. ASSUME NEW n \in N PROVE v[n] \in Nat
        <3> DEFINE p == P[n]
        <3>1. Weighs(w, p) /\ v[n] = SumOf(w, p)
            OBVIOUS
        <3> HIDE DEF p
        <3>2. SumOf(w, p) \in Nat
            BY <3>1, SumFirst
        <3> QED BY <3>1, <3>2
    <2>2. \A t \in SUBSET N : IsFiniteSet(t)
        BY FS_Subset
    <2> QED BY <2>1, <2>2 DEF Weighs
<1>1. ASSUME NEW t \in SUBSET N, \A u \in SUBSET t : u # t => u \in G
      PROVE  t \in G
    <2>2. CASE t = {}
        <3>1. All(t) = {}
            BY <2>2
        <3>2. Weighs(w, {})
            BY FS_EmptySet DEF Weighs
        <3>3. SumOf(v, t) = 0 /\ SumOf(w, All(t)) = 0
            <4> HIDE DEF All
            <4> QED BY <1>0, <2>2, <3>1, <3>2, SumFirst
        <3> HIDE DEF All
        <3> QED BY <3>1, <3>2, <3>3
    <2>3. CASE t # {}
        <3>1. PICK x \in t : TRUE
            BY <2>3
        <3> DEFINE u == t \ {x}
        <3>2. Weighs(w, All(u)) /\ SumOf(v, u) = SumOf(w, All(u))
            <4>1. u \in SUBSET t /\ u # t
                BY <3>1
            <4>2. u \in G
                BY <1>1, <4>1
            <4> QED BY <4>2
        <3>3. All(t) = P[x] \cup All(u)
            BY <3>1
        <3>4. P[x] \cap All(u) = {}
            BY <3>1
        <3>5. Weighs(w, P[x]) /\ v[x] = SumOf(w, P[x])
            BY <3>1
        <3> HIDE DEF All
        <3>6. SumOf(v, t) = v[x] + SumOf(v, u)
            BY <1>0, <3>1, SumMember
        <3> HIDE DEF u
        <3>7. Weighs(w, All(t)) /\ SumOf(w, All(t)) = SumOf(w, P[x]) + SumOf(w, All(u))
            <4> DEFINE C == P[x]
                       D == All(u)
            <4>1. Weighs(w, C) /\ Weighs(w, D) /\ C \cap D = {}
                BY <3>2, <3>4, <3>5
            <4> HIDE DEF C, D
            <4>2. Weighs(w, C \cup D) /\ SumOf(w, C \cup D) = SumOf(w, C) + SumOf(w, D)
                BY <4>1, SumUnion
            <4> QED BY <3>3, <4>2 DEF C, D
        <3> QED BY <3>2, <3>5, <3>6, <3>7
    <2> QED BY <2>2, <2>3
<1> HIDE DEF G
<1>2. N \in SUBSET N /\ N \in G
    BY <1>1, SubsetInduction
<1>3. A = All(N)
    OBVIOUS
<1> QED BY <1>2, <1>3 DEF G

\* A set of naturals with a bound has a greatest member, which is its Max.
LEMMA MaxOf ==
    ASSUME NEW b \in Nat, NEW S \in SUBSET (0..b), S # {}
    PROVE  Max(S) \in S /\ \A x \in S : x <= Max(S)
<1> DEFINE B == {u \in Nat : \A x \in S : x <= u}
<1>1. IsWellFoundedOn(OpToRel(<, Nat), Nat)
    BY NatLessThanWellFounded
<1>2. B \subseteq Nat /\ b \in B
    OBVIOUS
<1>3. \E n \in B : \A m \in B : <<m, n>> \notin OpToRel(<, Nat)
    <2> HIDE DEF B
    <2> QED BY <1>1, <1>2, WFMin
<1>4. PICK n \in B : \A m \in B : ~(m < n)
    BY <1>3 DEF OpToRel
<1>5. n \in S
    <2> SUFFICES ASSUME n \notin S PROVE FALSE
        OBVIOUS
    <2>1. \A x \in S : x \in Nat /\ x <= n /\ x # n
        OBVIOUS
    <2>2. PICK x \in S : TRUE
        OBVIOUS
    <2>3. n - 1 \in B
        BY <2>1, <2>2
    <2> QED BY <1>4, <2>3
<1>6. \E x \in S : \A y \in S : x >= y
    BY <1>5
<1>7. Max(S) \in S /\ \A y \in S : Max(S) >= y
    BY <1>6, Zenon DEF Max
<1> QED BY <1>7

----------------------------------------------------------------------------
(* The merge.                                                              *)

\* A table of edges.
EdgeTable(T) ==
    /\ IsFiniteSet(DOMAIN T)
    /\ \A e \in DOMAIN T : T[e].sessions \in Nat /\ T[e].last_seen \in 0..MaxClock

SessionsOf(T) == [e \in DOMAIN T |-> T[e].sessions]

\* The merged edges of plan_reconciliation, and the table once they are in and
\* the edges that went into them are out.
MergedRows(twins, T) ==
    [n \in {Renamed(twins, e) : e \in Touched(twins, T)} |->
        [sessions  |-> Sessions(Restrict(T, Parts(twins, T, n))),
         last_seen |-> Max({T[e].last_seen : e \in Parts(twins, T, n)})]]

AfterMerge(twins, T) ==
    Remove(UpsertEdges(T, MergedRows(twins, T)), Touched(twins, T))

\* The fold over the rows of a table is the sum of the sessions of its keys.
LEMMA SessionsSum ==
    ASSUME NEW T, NEW w, \A k \in DOMAIN T : w[k] = T[k].sessions
    PROVE  Sessions(T) = SumOf(w, DOMAIN T)
<1> DEFINE Eq(f) == f = [s \in SUBSET DOMAIN T |->
                          IF s = {} THEN 0 ELSE T[First(s)].sessions + f[s \ {First(s)}]]
<1>1. Sessions(T) = (CHOOSE f : Eq(f))[DOMAIN T]
    BY Zenon DEF Sessions, MapThenSumSet, MapThenFoldSet, First
<1>2. ASSUME NEW f PROVE Eq(f) <=> FoldsBy(f, w, DOMAIN T)
    <2>1. \A s \in SUBSET DOMAIN T : s # {} => First(s) \in DOMAIN T
        BY DEF First
    <2> QED BY <2>1 DEF FoldsBy
<1>3. (CHOOSE f : Eq(f)) = (CHOOSE f : FoldsBy(f, w, DOMAIN T))
    <2> HIDE DEF Eq
    <2> QED BY <1>2, Zenon
<1> QED BY <1>1, <1>3 DEF SumOf

\* A sum needs no more of a table's rows than their sessions.
LEMMA TableWeighs ==
    ASSUME NEW T, EdgeTable(T)
    PROVE  Weighs(SessionsOf(T), DOMAIN T) /\ Sessions(T) = SumOf(SessionsOf(T), DOMAIN T)
BY SessionsSum DEF EdgeTable, Weighs, SessionsOf

\* Into a merged edge go edges of the table, at least one; it names no twin, so
\* no edge goes into two.
LEMMA PartsOf ==
    ASSUME NEW twins, NEW T, \A a \in DOMAIN twins : twins[a] \notin DOMAIN twins
    PROVE  LET N == {Renamed(twins, e) : e \in Touched(twins, T)}
           IN  /\ \A n \in N : ~Names(n, DOMAIN twins) /\ n \notin Touched(twins, T)
               /\ \A n \in N : Parts(twins, T, n) # {} /\ Parts(twins, T, n) \subseteq DOMAIN T
               /\ \A m, n \in N : m # n => Parts(twins, T, m) \cap Parts(twins, T, n) = {}
               /\ UNION {Parts(twins, T, n) : n \in N} = Touched(twins, T) \cup (N \cap DOMAIN T)
<1> DEFINE N == {Renamed(twins, e) : e \in Touched(twins, T)}
           into(n) == {e \in Touched(twins, T) : Renamed(twins, e) = n}
<1>1. \A e : e \in Touched(twins, T) <=> e \in DOMAIN T /\ Names(e, DOMAIN twins)
    BY DEF Touched, Names
<1>2. ASSUME NEW e PROVE ~Names(Renamed(twins, e), DOMAIN twins)
    BY RenamedEnds DEF Names
<1>3. \A n \in N : ~Names(n, DOMAIN twins) /\ n \notin Touched(twins, T)
    BY <1>1, <1>2
<1>4. ASSUME NEW n \in N
      PROVE  /\ Parts(twins, T, n) = into(n) \cup ({n} \cap DOMAIN T)
             /\ into(n) # {} /\ into(n) \subseteq Touched(twins, T)
    BY DEF Parts
<1>5. \A m, n \in N : m # n => Parts(twins, T, m) \cap Parts(twins, T, n) = {}
    BY <1>3, <1>4
<1>6. UNION {Parts(twins, T, n) : n \in N} = Touched(twins, T) \cup (N \cap DOMAIN T)
    <2>1. \A e \in Touched(twins, T) : \E n \in N : e \in into(n)
        OBVIOUS
    <2> HIDE DEF N, into
    <2> QED BY <1>4, <2>1
<1>7. \A n \in N : Parts(twins, T, n) # {} /\ Parts(twins, T, n) \subseteq DOMAIN T
    BY <1>1, <1>4
<1> HIDE DEF N
<1> QED BY <1>3, <1>5, <1>6, <1>7 DEF N

\* The merged edges are rows: their sessions are the sum of what goes in, and
\* none of it was seen later.
LEMMA MergedTable ==
    ASSUME NEW twins, NEW T, EdgeTable(T), \A a \in DOMAIN twins : twins[a] \notin DOMAIN twins
    PROVE  /\ EdgeTable(MergedRows(twins, T))
           /\ \A n \in DOMAIN MergedRows(twins, T) :
                 /\ Weighs(SessionsOf(T), Parts(twins, T, n))
                 /\ MergedRows(twins, T)[n].sessions = SumOf(SessionsOf(T), Parts(twins, T, n))
                 /\ \A e \in Parts(twins, T, n) :
                       T[e].last_seen <= MergedRows(twins, T)[n].last_seen
<1> DEFINE N == {Renamed(twins, e) : e \in Touched(twins, T)}
           M == MergedRows(twins, T)
           P(n) == Parts(twins, T, n)
           w == SessionsOf(T)
<1>0. DOMAIN M = N /\ MaxClock \in Nat
    BY GraphAssumption DEF MergedRows
<1>1. IsFiniteSet(N)
    <2>1. IsFiniteSet(Touched(twins, T))
        <3>1. Touched(twins, T) \subseteq DOMAIN T
            BY DEF Touched
        <3> QED BY <3>1, FS_Subset DEF EdgeTable
    <2> DEFINE f == [e \in Touched(twins, T) |-> Renamed(twins, e)]
    <2>2. f \in Surjection(Touched(twins, T), N)
        BY DEF Surjection
    <2> HIDE DEF f
    <2> QED BY <2>1, <2>2, FS_Surjection
<1>2. ASSUME NEW n \in N
      PROVE  /\ Weighs(w, P(n)) /\ M[n].sessions = SumOf(w, P(n))
             /\ M[n].sessions \in Nat /\ M[n].last_seen \in 0..MaxClock
             /\ \A e \in P(n) : T[e].last_seen <= M[n].last_seen
    <2> DEFINE seenAt == {T[e].last_seen : e \in P(n)}
    <2>1. P(n) # {} /\ P(n) \subseteq DOMAIN T
        BY PartsOf
    <2>2. M[n] = [sessions |-> Sessions(Restrict(T, P(n))), last_seen |-> Max(seenAt)]
        BY DEF MergedRows
    <2>3. M[n].sessions = Sessions(Restrict(T, P(n))) /\ M[n].last_seen = Max(seenAt)
        BY <2>2
    <2> HIDE DEF M
    <2>4. Weighs(w, P(n))
        BY <2>1, FS_Subset DEF Weighs, EdgeTable, SessionsOf
    <2>5. Sessions(Restrict(T, P(n))) = SumOf(w, P(n))
        <3>1. DOMAIN Restrict(T, P(n)) = P(n)
            BY DEF Restrict
        <3>2. \A k \in P(n) : w[k] = Restrict(T, P(n))[k].sessions
            BY <2>1 DEF Restrict, SessionsOf
        <3> HIDE DEF w, P
        <3> QED BY <3>1, <3>2, SessionsSum
    <2>6. seenAt \in SUBSET (0..MaxClock) /\ seenAt # {}
        BY <2>1 DEF EdgeTable
    <2>7. Max(seenAt) \in seenAt /\ \A x \in seenAt : x <= Max(seenAt)
        <3> HIDE DEF seenAt
        <3> QED BY <1>0, <2>6, MaxOf
    <2>8. SumOf(w, P(n)) \in Nat
        <3> HIDE DEF P, w
        <3> QED BY <2>4, SumFirst
    <2>9. M[n].sessions \in Nat /\ M[n].last_seen \in 0..MaxClock
        <3> HIDE DEF seenAt
        <3> QED BY <2>3, <2>5, <2>6, <2>7, <2>8
    <2>10. \A e \in P(n) : T[e].last_seen <= M[n].last_seen
        BY <2>3, <2>7
    <2> QED BY <2>3, <2>4, <2>5, <2>9, <2>10
<1> HIDE DEF N, M, P, w
<1>3. EdgeTable(M)
    BY <1>0, <1>1, <1>2 DEF EdgeTable
<1> QED BY <1>0, <1>2, <1>3 DEF M, P, w

\* What becomes of a table: the merged edges stand, with the rows of their sums,
\* and beside them the edges that were neither moved nor merged into.
LEMMA MergeOutcome ==
    ASSUME NEW twins, NEW T, EdgeTable(T), \A a \in DOMAIN twins : twins[a] \notin DOMAIN twins
    PROVE  LET M == MergedRows(twins, T)
               U == AfterMerge(twins, T)
               kept == DOMAIN T \ (Touched(twins, T) \cup DOMAIN M)
           IN  /\ DOMAIN U = DOMAIN M \cup kept
               /\ \A n \in DOMAIN M : U[n] = M[n]
               /\ \A e \in kept : U[e] = T[e]
<1> DEFINE M == MergedRows(twins, T)
           U == AfterMerge(twins, T)
           touched == Touched(twins, T)
           kept == DOMAIN T \ (touched \cup DOMAIN M)
<1>1. DOMAIN M \cap touched = {} /\ touched \subseteq DOMAIN T
    BY PartsOf DEF MergedRows, Touched
<1>2. \A n \in DOMAIN M \cap DOMAIN T : T[n].last_seen <= M[n].last_seen
    <2>1. \A n \in DOMAIN M \cap DOMAIN T : n \in Parts(twins, T, n)
        BY DEF Parts
    <2> QED BY <2>1, MergedTable
<1>3. U = Restrict(UpsertEdges(T, M), DOMAIN UpsertEdges(T, M) \ touched)
    BY DEF AfterMerge, Remove
<1>4. DOMAIN UpsertEdges(T, M) = DOMAIN T \cup DOMAIN M
    BY TableKeys
<1> HIDE DEF M, U, touched
<1>5. DOMAIN U = DOMAIN M \cup kept
    BY <1>1, <1>3, <1>4 DEF Restrict
<1>6. \A n \in DOMAIN M : U[n] = M[n]
    BY <1>1, <1>2, <1>3, <1>4 DEF Restrict, UpsertEdges
<1>7. \A e \in kept : U[e] = T[e]
    BY <1>3, <1>4 DEF Restrict, UpsertEdges
<1> QED BY <1>5, <1>6, <1>7 DEF M, U, touched

\* The merge loses no session, no edge and no time of one, and leaves no twin.
LEMMA MergeIsLossless ==
    ASSUME NEW twins, NEW T, EdgeTable(T), \A a \in DOMAIN twins : twins[a] \notin DOMAIN twins
    PROVE  LET U == AfterMerge(twins, T)
           IN  /\ EdgeTable(U)
               /\ Sessions(U) = Sessions(T)
               /\ \A n \in DOMAIN U : ~Names(n, DOMAIN twins)
               /\ \A e \in DOMAIN T : \E n \in DOMAIN U :
                     (n = e \/ n = Renamed(twins, e)) /\ T[e].last_seen <= U[n].last_seen
<1> DEFINE M == MergedRows(twins, T)
           U == AfterMerge(twins, T)
           touched == Touched(twins, T)
           N == {Renamed(twins, e) : e \in touched}
           kept == DOMAIN T \ (touched \cup N)
           w == SessionsOf(T)
           v == SessionsOf(U)
           P == [n \in N |-> Parts(twins, T, n)]
<1>1. DOMAIN M = N
    BY DEF MergedRows
<1>2. DOMAIN U = N \cup kept /\ (\A n \in N : U[n] = M[n]) /\ (\A e \in kept : U[e] = T[e])
    <2> DEFINE rest == DOMAIN T \ (touched \cup DOMAIN M)
    <2>1. /\ DOMAIN U = DOMAIN M \cup rest
          /\ \A n \in DOMAIN M : U[n] = M[n]
          /\ \A e \in rest : U[e] = T[e]
        BY MergeOutcome
    <2>2. rest = kept
        BY <1>1
    <2> HIDE DEF rest, kept, M, U, N
    <2> QED BY <1>1, <2>1, <2>2
<1>3. EdgeTable(M)
    BY MergedTable
<1>4. ASSUME NEW n \in N
      PROVE  /\ Weighs(w, P[n]) /\ M[n].sessions = SumOf(w, P[n])
             /\ \A e \in P[n] : T[e].last_seen <= M[n].last_seen
             /\ n \in DOMAIN T => n \in P[n]
             /\ ~Names(n, DOMAIN twins)
    BY <1>1, MergedTable, PartsOf DEF Parts
<1>5. /\ \A m, n \in N : m # n => P[m] \cap P[n] = {}
      /\ UNION {P[n] : n \in N} = touched \cup (N \cap DOMAIN T)
    <2>1. {P[n] : n \in N} = {Parts(twins, T, n) : n \in N}
        OBVIOUS
    <2>2. \A m, n \in N : m # n => Parts(twins, T, m) \cap Parts(twins, T, n) = {}
        BY PartsOf
    <2>3. UNION {Parts(twins, T, n) : n \in N} = touched \cup (N \cap DOMAIN T)
        BY PartsOf
    <2> HIDE DEF N, touched
    <2> QED BY <2>1, <2>2, <2>3
<1>6. \A e : e \in touched <=> e \in DOMAIN T /\ Names(e, DOMAIN twins)
    BY DEF Touched, Names
<1>7. \A e \in touched : Renamed(twins, e) \in N /\ e \in P[Renamed(twins, e)]
    BY DEF Parts
<1> HIDE DEF M, U, touched, N, w, v, P
<1>8. EdgeTable(U)
    <2>1. IsFiniteSet(N) /\ IsFiniteSet(kept)
        BY <1>1, <1>3, FS_Subset DEF EdgeTable
    <2>2. IsFiniteSet(N \cup kept)
        BY <2>1, FS_Union
    <2> QED BY <1>1, <1>2, <1>3, <2>2 DEF EdgeTable
<1>9. Sessions(U) = Sessions(T)
    <2>1. /\ Sessions(U) = SumOf(v, DOMAIN U) /\ Weighs(v, DOMAIN U)
          /\ Sessions(T) = SumOf(w, DOMAIN T) /\ Weighs(w, DOMAIN T)
        BY <1>8, TableWeighs DEF v, w
    <2>2. Weighs(v, N) /\ Weighs(v, kept) /\ Weighs(w, kept) /\ N \cap kept = {}
        BY <1>2, <2>1, FS_Subset DEF Weighs
    <2>3. SumOf(v, DOMAIN U) = SumOf(v, N) + SumOf(v, kept)
        BY <1>2, <2>2, SumUnion
    <2>4. \A n \in N : v[n] = SumOf(w, P[n])
        BY <1>2, <1>4 DEF v, SessionsOf
    <2>5. SumOf(v, N) = SumOf(w, touched \cup (N \cap DOMAIN T))
        <3>1. IsFiniteSet(N) /\ \A n \in N : Weighs(w, P[n])
            BY <1>4, <2>2 DEF Weighs
        <3>2. \A e : e \in touched \cup (N \cap DOMAIN T) <=> \E n \in N : e \in P[n]
            BY <1>5
        <3> QED BY <1>5, <2>4, <3>1, <3>2, SumGroups
    <2>6. \A e \in kept : v[e] = w[e]
        BY <1>2 DEF v, w, SessionsOf
    <2>7. SumOf(v, kept) = SumOf(w, kept)
        BY <2>2, <2>6, SumAgrees
    <2> DEFINE A == touched \cup (N \cap DOMAIN T)
    <2>8. A \cap kept = {} /\ A \cup kept = DOMAIN T
        BY <1>6
    <2>9. Weighs(w, A)
        BY <2>1, <2>8, FS_Subset DEF Weighs
    <2> HIDE DEF A
    <2>10. SumOf(w, A \cup kept) = SumOf(w, A) + SumOf(w, kept)
        BY <2>2, <2>8, <2>9, SumUnion
    <2> QED BY <2>1, <2>3, <2>5, <2>7, <2>8, <2>10 DEF A
<1>10. \A n \in DOMAIN U : ~Names(n, DOMAIN twins)
    BY <1>2, <1>4, <1>6
<1>11. ASSUME NEW e \in DOMAIN T
       PROVE  \E n \in DOMAIN U :
                  (n = e \/ n = Renamed(twins, e)) /\ T[e].last_seen <= U[n].last_seen
    <2>1. CASE e \in touched
        BY <1>2, <1>4, <1>7, <2>1
    <2>2. CASE e \in N
        BY <1>2, <1>4, <2>2
    <2>3. CASE e \in kept
        <3>1. T[e].last_seen \in Nat
            BY GraphAssumption DEF EdgeTable
        <3> QED BY <1>2, <2>3, <3>1
    <2> QED BY <2>1, <2>2, <2>3
<1> QED BY <1>8, <1>9, <1>10, <1>11 DEF U

----------------------------------------------------------------------------
(* The tables are tables, and a reconciliation that is alone does to the   *)
(* edges what MergeIsLossless is about.                                    *)

RowsInv ==
    /\ clock \in 0..MaxClock
    /\ IsFiniteSet(events) /\ \A f \in events : f.ts \in 0..MaxClock
    /\ IsFiniteSet(flows) /\ \A f \in flows : f.ts \in 0..MaxClock
    /\ EdgeTable(comm) /\ EdgeTable(output.comm)
    /\ EdgeTable(seen.comm) /\ EdgeTable(plan.merged)
    /\ "comm" \in DOMAIN seen

\* The edges of a reconciliation that is alone: as read, then with the merged
\* ones, then without the moved ones.
MergeInv ==
    "reconciliation" \notin mixed =>
        /\ mpc \in {"comm", "gov", "planned"} => comm = seen.comm
        /\ mpc \in {"planned", "merged", "edgesDeleted"} =>
              /\ plan.merged = MergedRows(plan.twins, seen.comm)
              /\ plan.edges = Touched(plan.twins, seen.comm)
        /\ mpc = "merged" => comm = UpsertEdges(seen.comm, plan.merged)
        /\ mpc = "edgesDeleted" => comm = AfterMerge(plan.twins, seen.comm)

\* Tables are closed under what the programs do to them.
LEMMA TablesKept ==
    ASSUME NEW T, NEW N, NEW K, EdgeTable(T), EdgeTable(N)
    PROVE  EdgeTable(UpsertEdges(T, N)) /\ EdgeTable(Remove(T, K))
<1>1. EdgeTable(UpsertEdges(T, N))
    <2>1. IsFiniteSet(DOMAIN T \cup DOMAIN N)
        BY FS_Union DEF EdgeTable
    <2>2. DOMAIN UpsertEdges(T, N) = DOMAIN T \cup DOMAIN N
        BY TableKeys
    <2> QED BY <2>1, <2>2 DEF EdgeTable, UpsertEdges
<1>2. EdgeTable(Remove(T, K))
    <2>1. IsFiniteSet(DOMAIN T \ K)
        BY FS_Difference DEF EdgeTable
    <2>2. DOMAIN Remove(T, K) = DOMAIN T \ K
        BY TableKeys
    <2> QED BY <2>1, <2>2 DEF EdgeTable, Remove, Restrict
<1> QED BY <1>1, <1>2

LEMMA EmptyTable == EdgeTable(<<>>)
<1>1. DOMAIN <<>> = {}
    OBVIOUS
<1> QED BY <1>1, FS_EmptySet DEF EdgeTable

\* The resolver's edges are rows.
LEMMA ResolvedTable ==
    ASSUME NEW F, IsFiniteSet(F), \A f \in F : f.ts \in 0..MaxClock, NEW b
    PROVE  EdgeTable(ResolvedEdges(F, b))
<1> DEFINE E == {PairOf(b, f) : f \in F}
           of(e) == {f \in F : PairOf(b, f) = e}
           row(e) == [sessions |-> Cardinality(of(e)), last_seen |-> LastSeen(of(e))]
<1>1. ResolvedEdges(F, b) = [e \in E |-> row(e)]
    BY DEF ResolvedEdges
<1>2. IsFiniteSet(E)
    <2> DEFINE p == [f \in F |-> PairOf(b, f)]
    <2>1. p \in Surjection(F, E)
        BY DEF Surjection
    <2> HIDE DEF p
    <2> QED BY <2>1, FS_Surjection
<1>3. ASSUME NEW e \in E PROVE Cardinality(of(e)) \in Nat /\ LastSeen(of(e)) \in 0..MaxClock
    <2>1. Cardinality(of(e)) \in Nat
        BY FS_Subset, FS_CardinalityType
    <2> DEFINE at == {f.ts : f \in of(e)}
    <2>2. at \in SUBSET (0..MaxClock)
        OBVIOUS
    <2>3. at # {}
        <3>1. PICK f \in F : PairOf(b, f) = e
            OBVIOUS
        <3> QED BY <3>1
    <2>4. LastSeen(of(e)) = Max(at)
        BY Zenon DEF LastSeen
    <2> HIDE DEF at
    <2>5. Max(at) \in 0..MaxClock
        BY <2>2, <2>3, MaxOf, GraphAssumption
    <2> QED BY <2>1, <2>4, <2>5
<1> HIDE DEF E, of
<1> QED BY <1>1, <1>2, <1>3 DEF EdgeTable

LEMMA RowsInit == Init => RowsInv /\ MergeInv
BY EmptyTable, FS_EmptySet, GraphAssumption
   DEF Init, RowsInv, MergeInv, NoOutput, NothingSeen, NoPlan

LEMMA RowsStep == GraphInv /\ RowsInv /\ [Next]_vars => RowsInv'
<1> SUFFICES ASSUME GraphInv, RowsInv, [Next]_vars PROVE RowsInv'
    OBVIOUS
<1> USE DEF RowsInv, tables, resolver, maintenance, history, counters, feed
<1>1. CASE FlowArrives
    <2>1. PICK f \in Flow({clock}) : events' = events \cup {f}
        BY <1>1 DEF FlowArrives
    <2>2. f.ts \in 0..MaxClock
        BY DEF Flow
    <2>3. IsFiniteSet(events') /\ \A g \in events' : g.ts \in 0..MaxClock
        BY <2>1, <2>2, FS_AddElement
    <2> QED BY <1>1, <2>3 DEF FlowArrives
<1>2. CASE BindingObserved
    BY <1>2 DEF BindingObserved
<1>3. CASE Tick
    BY <1>3, GraphAssumption DEF Tick
<1>4. CASE ReadFlows
    <2>1. flows' \subseteq events
        BY <1>4 DEF ReadFlows, InWindow
    <2>2. IsFiniteSet(flows') /\ \A f \in flows' : f.ts \in 0..MaxClock
        BY <2>1, FS_Subset
    <2> QED BY <1>4, <2>2 DEF ReadFlows
<1>5. CASE ReadBindings
    <2>1. PICK b : output' = [assets |-> ResolvedAssets(flows, b),
                              comm   |-> ResolvedEdges(flows, b),
                              gov    |-> ResolvedGovernance(flows, b)]
        BY <1>5 DEF ReadBindings
    <2>2. EdgeTable(output'.comm)
        BY <2>1, ResolvedTable
    <2> QED BY <1>5, <2>2 DEF ReadBindings
<1>6. CASE WriteEntities
    BY <1>6 DEF WriteEntities
<1>7. CASE WriteEdges
    <2>1. EdgeTable(comm')
        BY <1>7, TablesKept DEF WriteEdges
    <2>2. EdgeTable(output'.comm) /\ IsFiniteSet(flows') /\ flows' = {}
        BY <1>7, EmptyTable, FS_EmptySet DEF WriteEdges, NoOutput
    <2> QED BY <1>7, <2>1, <2>2 DEF WriteEdges
<1>8. CASE KillPass
    <2>1. EdgeTable(output'.comm) /\ IsFiniteSet(flows') /\ flows' = {}
        BY <1>8, EmptyTable, FS_EmptySet DEF KillPass, NoOutput
    <2> QED BY <1>8, <2>1 DEF KillPass
<1>9. CASE ReadIpOnly \/ ReadMacAssets \/ ReadGovEdges
    <2>1. PICK k, v : k \in {"ipOnly", "macAssets", "gov"} /\ seen' = [seen EXCEPT ![k] = v]
        BY <1>9 DEF ReadIpOnly, ReadMacAssets, ReadGovEdges
    <2>2. DOMAIN seen' = DOMAIN seen /\ seen'.comm = seen.comm
        BY <2>1
    <2> QED BY <1>9, <2>2 DEF ReadIpOnly, ReadMacAssets, ReadGovEdges
<1>10. CASE ReadCommEdges
    <2>1. DOMAIN seen' = DOMAIN seen /\ seen'.comm = comm
        BY <1>10 DEF ReadCommEdges
    <2> QED BY <1>10, <2>1 DEF ReadCommEdges
<1>11. CASE PlanMerge
    <2>1. PICK b : plan' = PlanReconciliation(seen.ipOnly, seen.macAssets, seen.comm, seen.gov, b)
        BY <1>11 DEF PlanMerge
    <2> DEFINE twins == TwinTargets(seen.ipOnly, seen.macAssets, b)
    <2>2. plan'.merged = MergedRows(twins, seen.comm)
        BY <2>1 DEF PlanReconciliation, MergedRows
    <2>3. \A a \in DOMAIN twins : twins[a] \notin DOMAIN twins
        BY <1>11, TwinsMoveToMachines DEF GraphInv, ReadInv, PlanMerge, Read
    <2> HIDE DEF twins
    <2>4. EdgeTable(plan'.merged)
        BY <2>2, <2>3, MergedTable
    <2> QED BY <1>11, <2>4 DEF PlanMerge
<1>12. CASE InsertMerged
    BY <1>12, TablesKept DEF InsertMerged
<1>13. CASE DeleteEdges
    BY <1>13, TablesKept DEF DeleteEdges
<1>14. CASE DeleteTwins \/ KillReconciliation
    BY <1>14, EmptyTable DEF DeleteTwins, KillReconciliation, NothingSeen, NoPlan
<1>15. CASE UNCHANGED vars
    BY <1>15 DEF vars
<1> QED BY <1>1, <1>2, <1>3, <1>4, <1>5, <1>6, <1>7, <1>8, <1>9, <1>10, <1>11, <1>12, <1>13,
           <1>14, <1>15, Zenon DEF Next

LEMMA MergeStep == GraphInv /\ MergeInv /\ [Next]_vars => MergeInv'
<1> SUFFICES ASSUME GraphInv, MergeInv, [Next]_vars, "reconciliation" \notin mixed'
             PROVE  MergeInv'
    BY DEF MergeInv
<1> USE DEF MergeInv, tables, resolver, maintenance, history, counters, feed
<1>1. CASE FlowArrives \/ BindingObserved \/ Tick \/ UNCHANGED vars
    BY <1>1 DEF FlowArrives, BindingObserved, Tick, vars
<1>2. CASE ReadFlows \/ ReadBindings \/ WriteEntities \/ KillPass
    BY <1>2 DEF ReadFlows, ReadBindings, WriteEntities, KillPass
<1>3. CASE WriteEdges
    BY <1>3 DEF WriteEdges, GraphInv, Alone
<1>4. CASE ReadIpOnly \/ ReadMacAssets \/ DeleteTwins \/ KillReconciliation
    BY <1>4 DEF ReadIpOnly, ReadMacAssets, DeleteTwins, KillReconciliation, Read
<1>5. CASE ReadCommEdges
    <2>1. seen'.comm = comm
        BY <1>5 DEF ReadCommEdges
    <2> QED BY <1>5, <2>1 DEF ReadCommEdges, Read
<1>6. CASE ReadGovEdges
    <2>1. seen'.comm = seen.comm
        BY <1>6 DEF ReadGovEdges
    <2> QED BY <1>6, <2>1 DEF ReadGovEdges, Read
<1>7. CASE PlanMerge
    <2>1. PICK b : plan' = PlanReconciliation(seen.ipOnly, seen.macAssets, seen.comm, seen.gov, b)
        BY <1>7 DEF PlanMerge
    <2>2. /\ plan'.merged = MergedRows(plan'.twins, seen.comm)
          /\ plan'.edges = Touched(plan'.twins, seen.comm)
        BY <2>1 DEF PlanReconciliation, MergedRows
    <2> QED BY <1>7, <2>2 DEF PlanMerge, Read
<1>8. CASE InsertMerged
    BY <1>8 DEF InsertMerged, Read
<1>9. CASE DeleteEdges
    BY <1>9 DEF DeleteEdges, Read, AfterMerge
<1> QED BY <1>1, <1>2, <1>3, <1>4, <1>5, <1>6, <1>7, <1>8, <1>9, Zenon DEF Next

\* A reconciliation that no pass interferes with loses no session and no edge,
\* and leaves no twin an edge, for any tables and any bindings
\* (reconcile_assets.py:72-145).
THEOREM MergeLosesNothing == Spec => []LosslessMerge
<1>1. GraphInv /\ RowsInv /\ MergeInv => LosslessMerge
    <2> SUFFICES ASSUME GraphInv, RowsInv, MergeInv, mpc = "edgesDeleted",
                        "reconciliation" \notin mixed
                 PROVE  /\ Sessions(comm) = Sessions(seen.comm)
                        /\ \A e \in DOMAIN comm : \A i \in {1, 2} : e[i] \notin DOMAIN plan.twins
                        /\ \A e \in DOMAIN seen.comm : \E n \in DOMAIN comm :
                              /\ \A i \in {1, 2} : n[i] \in {e[i]} \cup
                                    {plan.twins[a] : a \in DOMAIN plan.twins \cap {e[i]}}
                              /\ seen.comm[e].last_seen <= comm[n].last_seen
        BY DEF LosslessMerge
    <2> DEFINE twins == plan.twins
               T == seen.comm
    <2>1. EdgeTable(T) /\ (\A a \in DOMAIN twins : twins[a] \notin DOMAIN twins)
        BY DEF RowsInv, GraphInv, PlanInv
    <2>2. comm = AfterMerge(twins, T)
        BY DEF MergeInv
    <2> HIDE DEF twins, T
    <2>3. /\ Sessions(comm) = Sessions(T)
          /\ \A n \in DOMAIN comm : ~Names(n, DOMAIN twins)
          /\ \A e \in DOMAIN T : \E n \in DOMAIN comm :
                (n = e \/ n = Renamed(twins, e)) /\ T[e].last_seen <= comm[n].last_seen
        BY <2>1, <2>2, MergeIsLossless
    <2>4. \A e \in DOMAIN comm : \A i \in {1, 2} : e[i] \notin DOMAIN twins
        BY <2>3 DEF Names
    <2>5. \A e \in DOMAIN T : \E n \in DOMAIN comm :
              /\ \A i \in {1, 2} : n[i] \in {e[i]} \cup {twins[a] : a \in DOMAIN twins \cap {e[i]}}
              /\ T[e].last_seen <= comm[n].last_seen
        BY <2>3, RenamedEnds
    <2> QED BY <2>3, <2>4, <2>5 DEF twins, T
<1> QED BY <1>1, GraphInvariant, RowsInit, RowsStep, MergeStep, PTL DEF Spec
=============================================================================
