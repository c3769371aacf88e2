-------------------------- MODULE AuditChain_proofs --------------------------
(***************************************************************************)
(* Theorems about the Auditor and the ssdf.audit table, for any number of  *)
(* threads, calls, failed inserts and crashes.                             *)
(*                                                                         *)
(* The invariant says where hashes come from: the head, the head a thread  *)
(* read, and the predecessor of every row in limbo, is genesis or the hash *)
(* of a stored row.  With it every step that stores a row is a step of     *)
(* AuditLog, so what is shown of the abstract log holds of the table.      *)
(***************************************************************************)
EXTENDS AuditChain, FiniteSetTheorems, SequenceTheorems, TLAPS

Anchors == {Genesis} \cup HashesOf(Stored)

\* Rows that continue genesis or a stored row.
Anchored(r) == \E c \in Content, prev \in Anchors : r = Link(prev, c)

ChainInv ==
    /\ TypeOK
    /\ head \in Anchors
    /\ \A t \in Threads : prevRead[t] \in Anchors
    /\ \A r \in limbo : Anchored(r)
    /\ ~up => \A t \in Threads : pc[t] = "idle"

\* There is a content, so the idle value is one.
LEMMA ContentNonempty == NoRow \in Content
<1>1. PICK b \in Bodies : TRUE
    BY ConstantsAssumption
<1>2. [ts |-> 0, body |-> b] \in Content
    BY ConstantsAssumption DEF Content
<1> QED BY <1>2 DEF NoRow

\* A row that continues a hash of the right type is a row.
LEMMA LinkType ==
    ASSUME NEW prev \in Seq(Content), NEW c \in Content
    PROVE  Link(prev, c) \in Row /\ Link(prev, c).hash \in Seq(Content)
                /\ Link(prev, c).hash # Genesis
<1>1. Append(prev, c) \in Seq(Content) /\ Append(prev, c) # <<>>
    BY AppendProperties
<1> QED BY <1>1 DEF Link, Row, ComputeRowHash, Genesis

\* The hashes of the table's chained rows.
LEMMA StoredHashes == HashesOf(Stored) = {r.hash : r \in {s \in table : s.hash # Genesis}}
BY DEF HashesOf, Hashed, Stored

\* An empty table, or one of legacy rows, has genesis for its only anchor.
LEMMA ChainInit == Init => ChainInv
<1> SUFFICES ASSUME Init PROVE ChainInv
    OBVIOUS
<1>1. Genesis \in Seq(Content)
    BY EmptySeq DEF Genesis
<1>2. table \subseteq Row
    BY <1>1, ConstantsAssumption DEF Init, Unhashed, Row
<1>3. TypeOK
    <2>1. built \in [Threads -> Content] /\ pc \in [Threads -> {"idle", "stamped", "inserting"}]
        BY ContentNonempty DEF Init
    <2>2. /\ clock \in 0..MaxClock /\ calls \in 0..MaxCalls
          /\ raises \in 0..MaxRaises /\ crashes \in 0..MaxCrashes
        BY ConstantsAssumption DEF Init
    <2>3. /\ up \in BOOLEAN /\ limbo \subseteq Row /\ head \in Seq(Content)
          /\ prevRead \in [Threads -> Seq(Content)]
        BY <1>1 DEF Init
    <2> QED BY <1>2, <2>1, <2>2, <2>3 DEF TypeOK
<1> QED BY <1>3 DEF ChainInv, Init, Anchors

\* The row a thread sends continues the head.
LEMMA SentAnchored ==
    ASSUME ChainInv, NEW t \in Threads
    PROVE  Anchored(Sent(t)) /\ Sent(t) \in Row
                /\ Sent(t).hash \in Seq(Content) /\ Sent(t).hash # Genesis
<1>1. built[t] \in Content /\ prevRead[t] \in Seq(Content) /\ prevRead[t] \in Anchors
    BY DEF ChainInv, TypeOK
<1> QED BY <1>1, LinkType DEF Sent, Anchored

\* Storing rows leaves every anchor in place.
LEMMA AnchorsGrow == table \subseteq table' => Anchors \subseteq Anchors'
BY StoredHashes DEF Anchors, HashesOf, Hashed, Stored

\* Every step of the Auditor, the server and the operator keeps it.
LEMMA ChainStep == ChainInv /\ [Next]_vars => ChainInv'
<1> SUFFICES ASSUME ChainInv, [Next]_vars PROVE ChainInv'
    OBVIOUS
<1> USE ConstantsAssumption
<1>1. CASE Start
    <2>1. head' = Genesis \/ \E r \in table : head' = r.hash
        BY <1>1 DEF Start, SeedHashes, LatestRows
    <2>2. head' \in Anchors
        BY <2>1, StoredHashes DEF Anchors
    <2>3. head' \in Seq(Content)
        <3>1. \A r \in table : r.hash \in Seq(Content)
            BY DEF ChainInv, TypeOK, Row
        <3> QED BY <2>1, <3>1, EmptySeq DEF Genesis
    <2> QED BY <1>1, <2>2, <2>3
            DEF Start, ChainInv, TypeOK, counters, Anchors, Anchored, Stored
<1>2. CASE Crash
    <2>1. \A r \in limbo' : Anchored(r) /\ r \in Row
        BY <1>2, SentAnchored DEF Crash, ChainInv, TypeOK
    <2>2. TypeOK'
        <3>1. head' \in Seq(Content) /\ up' \in BOOLEAN
            BY <1>2, EmptySeq DEF Crash, Genesis
        <3>2. built' \in [Threads -> Content] /\ prevRead' \in [Threads -> Seq(Content)]
                /\ pc' \in [Threads -> {"idle", "stamped", "inserting"}]
            BY <1>2, ContentNonempty, EmptySeq DEF Crash, Genesis
        <3>3. crashes' \in 0..MaxCrashes
            BY <1>2 DEF Crash, ChainInv, TypeOK
        <3> QED BY <1>2, <2>1, <3>1, <3>2, <3>3 DEF Crash, ChainInv, TypeOK
    <2> QED BY <1>2, <2>1, <2>2
            DEF Crash, ChainInv, Anchors, Anchored, Stored
<1>3. CASE Tick
    BY <1>3 DEF Tick, ChainInv, TypeOK, counters, Anchors, Anchored, Stored
<1>4. ASSUME NEW t \in Threads, BuildRow(t) PROVE ChainInv'
    <2>1. built' \in [Threads -> Content] /\ calls' \in 0..MaxCalls
        BY <1>4 DEF BuildRow, ChainInv, TypeOK, Content
    <2>2. TypeOK'
        BY <1>4, <2>1 DEF BuildRow, ChainInv, TypeOK
    <2> QED BY <1>4, <2>2 DEF BuildRow, ChainInv, Anchors, Anchored, Stored
<1>5. ASSUME NEW t \in Threads, BeginInsert(t) PROVE ChainInv'
    <2>1. /\ prevRead' \in [Threads -> Seq(Content)]
          /\ \A u \in Threads : prevRead'[u] \in Anchors
        BY <1>5 DEF BeginInsert, ChainInv, TypeOK
    <2>2. TypeOK'
        BY <1>5, <2>1 DEF BeginInsert, ChainInv, TypeOK, counters
    <2> QED BY <1>5, <2>1, <2>2 DEF BeginInsert, ChainInv, Anchors, Anchored, Stored
<1>6. ASSUME NEW t \in Threads, InsertReturns(t) PROVE ChainInv'
    <2>1. Anchors \subseteq Anchors'
        BY <1>6, AnchorsGrow DEF InsertReturns
    <2>2. /\ prevRead' \in [Threads -> Seq(Content)]
          /\ \A u \in Threads : prevRead'[u] \in Anchors
        BY <1>6, EmptySeq DEF InsertReturns, ChainInv, TypeOK, Genesis, Anchors
    <2>3. head' \in Seq(Content) /\ table' \subseteq Row
        BY <1>6, SentAnchored DEF InsertReturns, ChainInv, TypeOK
    <2>4. TypeOK'
        BY <1>6, <2>2, <2>3, ContentNonempty DEF InsertReturns, ChainInv, TypeOK, counters
    <2>5. head' \in Anchors'
        BY <1>6, SentAnchored, StoredHashes DEF InsertReturns, Anchors, HashesOf, Hashed, Stored
    <2>6. \A r \in limbo' : Anchored(r)'
        BY <1>6, <2>1 DEF InsertReturns, ChainInv, Anchored
    <2> QED BY <1>6, <2>1, <2>2, <2>4, <2>5, <2>6 DEF InsertReturns, ChainInv, TypeOK
<1>7. ASSUME NEW t \in Threads, InsertRaises(t) PROVE ChainInv'
    <2>1. \A r \in limbo' : Anchored(r) /\ r \in Row
        BY <1>7, SentAnchored DEF InsertRaises, ChainInv, TypeOK
    <2>2. /\ prevRead' \in [Threads -> Seq(Content)]
          /\ \A u \in Threads : prevRead'[u] \in Anchors
        BY <1>7, EmptySeq DEF InsertRaises, ChainInv, TypeOK, Genesis, Anchors
    <2>3. raises' \in 0..MaxRaises
        BY <1>7 DEF InsertRaises, ChainInv, TypeOK
    <2>4. TypeOK'
        BY <1>7, <2>1, <2>2, <2>3, ContentNonempty DEF InsertRaises, ChainInv, TypeOK
    <2> QED BY <1>7, <2>1, <2>2, <2>4
            DEF InsertRaises, ChainInv, Anchors, Anchored, Stored
<1>8. ASSUME NEW r \in limbo, LateCommit(r) PROVE ChainInv'
    <2>1. Anchors \subseteq Anchors'
        BY <1>8, AnchorsGrow DEF LateCommit
    <2>2. TypeOK'
        BY <1>8 DEF LateCommit, ChainInv, TypeOK, counters
    <2> QED BY <1>8, <2>1, <2>2 DEF LateCommit, ChainInv, Anchored
<1>9. CASE UNCHANGED vars
    BY <1>9 DEF vars, counters, ChainInv, TypeOK, Anchors, Anchored, Stored
<1> QED BY <1>1, <1>2, <1>3, <1>4, <1>5, <1>6, <1>7, <1>8, <1>9 DEF Next

\* The invariant of the chain.
LEMMA ChainInvariant == Spec => []ChainInv
BY ChainInit, ChainStep, PTL DEF Spec

\* Every variable of the trail keeps its type and its bound.
THEOREM TypeCorrect == Spec => []TypeOK
<1>1. ChainInv => TypeOK
    BY DEF ChainInv
<1> QED BY <1>1, ChainInvariant, PTL

\* record(), its failures, its late commits and the restarts implement the
\* abstract log: a row is stored only where it continues a stored row.
THEOREM Implementation == Spec => ImplementsLog
<1>1. Init => Log!Init
    BY DEF Init, Log!Init, Log!Unhashed, Unhashed, Genesis, Log!Genesis
<1>2. ChainInv /\ [Next]_vars => [Log!Next]_table
    <2> SUFFICES ASSUME ChainInv, [Next]_vars, table' # table PROVE Log!Next
        OBVIOUS
    <2>1. ASSUME NEW r, Anchored(r), table' = table \cup {r} PROVE Log!Next
        BY <2>1, StoredHashes
           DEF Anchored, Anchors, Log!Next, Log!Record, Log!HashesOf, Log!Hashed,
               Log!Positions, Log!Link, Link, Log!Genesis, Genesis,
               Log!ComputeRowHash, ComputeRowHash, HashesOf, Hashed, Stored
    <2>2. ASSUME NEW t \in Threads, InsertReturns(t) PROVE Log!Next
        BY <2>1, <2>2, SentAnchored DEF InsertReturns
    <2>3. ASSUME NEW r \in limbo, LateCommit(r) PROVE Log!Next
        BY <2>1, <2>3 DEF LateCommit, ChainInv
    <2> QED BY <2>2, <2>3
            DEF Next, Start, Crash, Tick, BuildRow, BeginInsert, InsertRaises, vars, counters
<1> QED BY <1>1, <1>2, ChainInvariant, PTL DEF Spec, ImplementsLog, Log!Spec

----------------------------------------------------------------------------
(* The abstract log: a table that grows as it says is sound at every step, *)
(* by induction on the sets of hashes that are closed under continuation.  *)

\* The table of the log, as the verifier reads it.
Positions(S) == [r \in S |-> r]

\* The chained rows of a table, and their hashes.
ChainedIn(S) == {r \in S : r.hash # Genesis}
HashSet(S) == {r.hash : r \in ChainedIn(S)}

\* Genesis reaches every chained row: a closed set of hashes leaves none out.
GenesisReaches(S) ==
    \A C \in SUBSET HashSet(S) :
        ClosedUnderChildren(Positions(S), C) => HashSet(S) \subseteq C

\* A set of rows that verify_tier has nothing to report about.
Sound(S) ==
    /\ S \subseteq Row
    /\ \A r \in S \ ChainedIn(S) : r.prev = Genesis
    /\ \A r \in ChainedIn(S) : r = Link(r.prev, r.content)
    /\ \A r \in ChainedIn(S) : r.prev \in HashSet(S) \cup {Genesis}
    /\ GenesisReaches(S)

LogInv == Sound(table)

\* A row that record() links has a hash, and it is not the empty one.
LEMMA HashType ==
    ASSUME NEW X, NEW p \in Seq(X), NEW c \in X
    PROVE  ComputeRowHash(p, c) \in Seq(X) /\ ComputeRowHash(p, c) # Genesis
BY AppendProperties DEF ComputeRowHash, Genesis

\* The hash of a row is the hash of no row with another predecessor or content.
LEMMA HashInjective ==
    ASSUME NEW X, NEW p \in Seq(X), NEW c \in X, NEW q \in Seq(X), NEW d \in X,
           ComputeRowHash(p, c) = ComputeRowHash(q, d)
    PROVE  p = q /\ c = d
BY AppendInjective DEF ComputeRowHash

\* The verifier's view of a set of rows, stated on the set.
LEMMA PositionsOf ==
    ASSUME NEW S
    PROVE  /\ DOMAIN Positions(S) = S
           /\ \A r \in S : Positions(S)[r] = r
           /\ Hashed(Positions(S)) = ChainedIn(S)
           /\ HashesOf(Positions(S)) = HashSet(S)
BY DEF Positions, Hashed, HashesOf, ChainedIn, HashSet

\* The chained rows of a sound set are determined by their hashes.
LEMMA HashIdentifies ==
    ASSUME NEW S, Sound(S), NEW r \in ChainedIn(S), NEW s \in ChainedIn(S), r.hash = s.hash
    PROVE  r = s
<1>1. /\ r.prev \in Seq(Content) /\ r.content \in Content
      /\ s.prev \in Seq(Content) /\ s.content \in Content
    BY DEF Sound, Row, ChainedIn
<1>2. r = Link(r.prev, r.content) /\ s = Link(s.prev, s.content)
    BY DEF Sound
<1>3. ComputeRowHash(r.prev, r.content) = ComputeRowHash(s.prev, s.content)
    BY <1>2 DEF Link
<1>4. r.prev = s.prev /\ r.content = s.content
    BY <1>1, <1>3, HashInjective
<1> QED BY <1>2, <1>4, Zenon

\* verify_tier has nothing to report about a sound set.
LEMMA SoundClean ==
    ASSUME NEW S, Sound(S)
    PROVE  VerifiesClean(Positions(S))
<1> DEFINE T == Positions(S)
<1>1. \A r \in Hashed(T) : T[r] = r /\ r = Link(r.prev, r.content) /\ r \in ChainedIn(S)
    BY PositionsOf DEF Sound, ChainedIn
<1>2. DuplicateRows(T) = {}
    BY <1>1, HashIdentifies DEF DuplicateRows
<1>3. ContentEdits(T) = {}
    <2> SUFFICES ASSUME NEW r \in Hashed(T)
                 PROVE  ComputeRowHash(r.prev, r.content) = r.hash
        BY <1>1 DEF ContentEdits
    <2> QED BY <1>1 DEF Link
<1>4. MissingPredecessors(T) = {}
    BY <1>1, PositionsOf DEF MissingPredecessors, Sound
<1>5. UnreachableRows(T) = {}
    BY <1>1, PositionsOf DEF UnreachableRows, Reachable, Sound, GenesisReaches, HashSet
<1> QED BY <1>2, <1>3, <1>4, <1>5 DEF VerifiesClean, Issues

\* Rows that leave together with all their successors leave a sound set.
LEMMA SuffixSound ==
    ASSUME NEW S, Sound(S), NEW D \in SUBSET ChainedIn(S),
           \A r \in D, s \in ChainedIn(S) : s.prev = r.hash => s \in D
    PROVE  Sound(S \ D)
<1> DEFINE R == S \ D
<1>1. ChainedIn(R) = ChainedIn(S) \ D
    BY DEF ChainedIn
<1>2. \A r \in ChainedIn(R) : r.prev \in HashSet(R) \cup {Genesis}
    <2> SUFFICES ASSUME NEW r \in ChainedIn(R), r.prev # Genesis
                 PROVE  r.prev \in HashSet(R)
        OBVIOUS
    <2>1. PICK p \in ChainedIn(S) : p.hash = r.prev
        BY <1>1 DEF Sound, HashSet
    <2>2. p \notin D
        BY <1>1, <2>1 DEF ChainedIn
    <2> QED BY <1>1, <2>1, <2>2 DEF HashSet
<1>3. GenesisReaches(R)
    <2> SUFFICES ASSUME NEW C \in SUBSET HashSet(R), ClosedUnderChildren(Positions(R), C)
                 PROVE  HashSet(R) \subseteq C
        BY DEF GenesisReaches
    <2> DEFINE E == C \cup HashSet(D)
    <2>1. \A r \in ChainedIn(R) : r.prev \in C \cup {Genesis} => r.hash \in C
        BY PositionsOf DEF ClosedUnderChildren, ChainedIn
    <2>2. E \in SUBSET HashSet(S)
        BY <1>1 DEF HashSet, ChainedIn
    <2>3. ASSUME NEW r \in ChainedIn(S), r.prev \in E \cup {Genesis} PROVE r.hash \in E
        <3>1. CASE r \in D
            BY <3>1 DEF HashSet, ChainedIn
        <3>2. CASE r \notin D
            <4>1. r \in ChainedIn(R)
                BY <3>2, <1>1
            <4>2. r.prev \notin HashSet(D)
                BY <3>2 DEF HashSet, ChainedIn
            <4> QED BY <2>1, <2>3, <4>1, <4>2
        <3> QED BY <3>1, <3>2
    <2>4. ClosedUnderChildren(Positions(S), E)
        BY <2>3, PositionsOf DEF ClosedUnderChildren, ChainedIn
    <2>5. HashSet(S) \subseteq E
        BY <2>2, <2>4 DEF Sound, GenesisReaches
    <2>6. \A r \in ChainedIn(R) : r.hash \notin HashSet(D)
        BY <1>1, HashIdentifies DEF HashSet, ChainedIn
    <2> QED BY <1>1, <2>5, <2>6 DEF HashSet
<1>4. R \subseteq Row
    BY DEF Sound
<1>5. \A r \in ChainedIn(R) : r = Link(r.prev, r.content)
    BY <1>1 DEF Sound
<1>6. \A r \in R \ ChainedIn(R) : r.prev = Genesis
    BY DEF Sound, ChainedIn
<1> QED BY <1>2, <1>3, <1>4, <1>5, <1>6 DEF Sound

\* A row whose predecessor left is reported.
LEMMA SuccessorReports ==
    ASSUME NEW S, Sound(S), NEW D \in SUBSET ChainedIn(S), NEW r \in D,
           NEW s \in S \ D, s.prev = r.hash
    PROVE  ~VerifiesClean(Positions(S \ D))
<1> DEFINE T == Positions(S \ D)
<1>1. r.hash # Genesis /\ r \in ChainedIn(S)
    BY DEF ChainedIn
<1>2. s.hash # Genesis
    BY <1>1 DEF Sound, ChainedIn
<1>3. s \in Hashed(T) /\ T[s] = s
    BY <1>2, PositionsOf DEF ChainedIn
<1>4. r.hash \notin HashSet(S \ D)
    BY <1>1, HashIdentifies DEF HashSet, ChainedIn
<1>5. s \in MissingPredecessors(T)
    BY <1>1, <1>3, <1>4, PositionsOf DEF MissingPredecessors
<1>6. [type |-> "missing_predecessor", row_hash |-> T[s].hash] \in Issues(T)
    BY <1>5, Zenon DEF Issues
<1> QED BY <1>6 DEF VerifiesClean

\* A table of legacy rows has no chained row.
LEMMA LogInit == Log!Init => LogInv
<1> SUFFICES ASSUME Log!Init PROVE LogInv
    OBVIOUS
<1>1. \A r \in table : \E c \in LegacyRows : r = Unhashed(c)
    BY DEF Log!Init, Log!Unhashed, Unhashed, Log!Genesis, Genesis
<1>2. Genesis \in Seq(Content)
    BY EmptySeq DEF Genesis
<1>3. table \subseteq Row
    BY <1>1, <1>2, ConstantsAssumption DEF Unhashed, Row
<1>4. ChainedIn(table) = {}
    BY <1>1 DEF ChainedIn, Unhashed
<1>5. \A r \in table : r.prev = Genesis
    BY <1>1 DEF Unhashed
<1> QED BY <1>3, <1>4, <1>5 DEF LogInv, Sound, GenesisReaches, HashSet

\* A row that opens a chain or continues a stored row keeps the invariant.
LEMMA LogStep == LogInv /\ [Log!Next]_table => LogInv'
<1> SUFFICES ASSUME LogInv, [Log!Next]_table PROVE LogInv'
    OBVIOUS
<1>1. CASE UNCHANGED table
    BY <1>1 DEF LogInv, Sound, ChainedIn, HashSet, GenesisReaches
<1>2. CASE Log!Next
    <2>1. PICK c \in Content, prev \in {Genesis} \cup HashSet(table) :
              table' = table \cup {Link(prev, c)}
        <3>1. Log!HashesOf(Log!Positions(table)) = HashSet(table) /\ Log!Genesis = Genesis
            BY DEF Log!Positions, Log!HashesOf, Log!Hashed, Log!Genesis, HashSet, ChainedIn,
                   Genesis
        <3>2. PICK c \in Content, prev \in {Genesis} \cup HashSet(table) :
                  table' = table \cup {Log!Link(prev, c)}
            BY <1>2, <3>1 DEF Log!Next, Log!Record
        <3>3. Log!Link(prev, c) = Link(prev, c)
            BY DEF Log!Link, Log!ComputeRowHash, Link, ComputeRowHash
        <3> QED BY <3>2, <3>3
    <2> DEFINE new == Link(prev, c)
    <2>2. prev \in Seq(Content)
        <3>1. Genesis \in Seq(Content)
            BY EmptySeq DEF Genesis
        <3> QED BY <3>1, <2>1 DEF LogInv, Sound, HashSet, ChainedIn, Row
    <2>3. /\ new.content = c /\ new.prev = prev /\ new.hash = ComputeRowHash(prev, c)
          /\ new.hash # Genesis /\ new.hash \in Seq(Content)
        BY <2>2, HashType DEF Link
    <2>4. new \in Row
        BY <2>2, <2>3 DEF Row, Link
    <2>5. ChainedIn(table') = ChainedIn(table) \cup {new}
        BY <2>1, <2>3 DEF ChainedIn
    <2>6. HashSet(table') = HashSet(table) \cup {new.hash}
        BY <2>5 DEF HashSet
    <2>7. GenesisReaches(table')
        <3> SUFFICES ASSUME NEW C \in SUBSET HashSet(table'),
                            ClosedUnderChildren(Positions(table'), C)
                     PROVE  HashSet(table') \subseteq C
            BY DEF GenesisReaches
        <3>1. \A r \in ChainedIn(table') : r.prev \in C \cup {Genesis} => r.hash \in C
            BY PositionsOf DEF ClosedUnderChildren, ChainedIn
        <3> DEFINE D == C \cap HashSet(table)
        <3>2. \A r \in ChainedIn(table) : r.prev \in D \cup {Genesis} => r.hash \in D
            BY <3>1, <2>5 DEF HashSet
        <3>3. ClosedUnderChildren(Positions(table), D)
            BY <3>2, PositionsOf DEF ClosedUnderChildren, ChainedIn
        <3>4. HashSet(table) \subseteq D
            BY <3>3 DEF LogInv, Sound, GenesisReaches
        <3>5. new.hash \in C
            BY <3>1, <3>4, <2>1, <2>3, <2>5
        <3> QED BY <3>4, <3>5, <2>6
    <2>8. table' \subseteq Row
        BY <2>1, <2>4 DEF LogInv, Sound
    <2>9. \A r \in ChainedIn(table') : r = Link(r.prev, r.content)
        BY <2>3, <2>5 DEF LogInv, Sound
    <2>10. \A r \in ChainedIn(table') : r.prev \in HashSet(table') \cup {Genesis}
        BY <2>1, <2>3, <2>5, <2>6 DEF LogInv, Sound
    <2>11. \A r \in table' \ ChainedIn(table') : r.prev = Genesis
        BY <2>1, <2>5 DEF LogInv, Sound
    <2> QED BY <2>7, <2>8, <2>9, <2>10, <2>11 DEF LogInv, Sound
<1> QED BY <1>1, <1>2


\* The invariant holds in every state of the log.
LEMMA LogInvariant == ImplementsLog => []LogInv
BY LogInit, LogStep, PTL DEF ImplementsLog, Log!Spec

\* Log and this module each reach AuditVerify: its definitions are the same.
LEMMA SameVerifier ==
    ASSUME NEW T
    PROVE  Log!VerifiesClean(T) <=> VerifiesClean(T)
BY DEF VerifiesClean, Issues, DuplicateRows, ContentEdits, MissingPredecessors,
       UnreachableRows, Reachable, ClosedUnderChildren, Hashed, HashesOf,
       ComputeRowHash, Genesis,
       Log!VerifiesClean, Log!Issues, Log!DuplicateRows, Log!ContentEdits,
       Log!MissingPredecessors, Log!UnreachableRows, Log!Reachable,
       Log!ClosedUnderChildren, Log!Hashed, Log!HashesOf, Log!ComputeRowHash,
       Log!Genesis

\* A sound table verifies clean, and so do its rows after a deletion exactly
\* when the deleted rows take those that continue them along.
LEMMA SoundDeletions ==
    ASSUME NEW S, Sound(S), NEW D \in SUBSET ChainedIn(S)
    PROVE  VerifiesClean(Positions(S \ D))
                <=> \A r \in D, s \in ChainedIn(S) : s.prev = r.hash => s \in D
<1>1. ASSUME \A r \in D, s \in ChainedIn(S) : s.prev = r.hash => s \in D
      PROVE  VerifiesClean(Positions(S \ D))
    <2>1. Sound(S \ D)
        BY <1>1, SuffixSound
    <2> QED BY <2>1, SoundClean
<1>2. ASSUME NEW r \in D, NEW s \in ChainedIn(S), s.prev = r.hash, s \notin D
      PROVE  ~VerifiesClean(Positions(S \ D))
    BY <1>2, SuccessorReports DEF ChainedIn
<1> QED BY <1>1, <1>2

\* A log that follows the abstract specification never has an issue for
\* verify_tier to report (verify_audit.py:103-155).
THEOREM LogAlwaysClean == Log!Spec => []Log!AlwaysClean
<1>1. LogInv => Log!AlwaysClean
    BY SoundClean, SameVerifier DEF LogInv, Log!AlwaysClean, Log!Positions, Positions
<1> QED BY <1>1, LogInvariant, PTL DEF ImplementsLog

\* In every state of the log, verify_tier misses a deletion exactly when the
\* rows that continue the deleted rows are deleted with them.
THEOREM LogDeletionsSeen == Log!Spec => []Log!DeletionsSeen
<1>1. LogInv => Log!DeletionsSeen
    <2> SUFFICES ASSUME Sound(table), NEW D \in SUBSET ChainedIn(table)
                 PROVE  Log!VerifiesClean(Log!Positions(table \ D))
                            <=> \A r \in D, s \in ChainedIn(table) : s.prev = r.hash => s \in D
        BY DEF LogInv, Log!DeletionsSeen, ChainedIn, Log!Genesis, Genesis
    <2>1. Log!Positions(table \ D) = Positions(table \ D)
        BY DEF Log!Positions, Positions
    <2> QED BY <2>1, SoundDeletions, SameVerifier
<1> QED BY <1>1, LogInvariant, PTL DEF ImplementsLog

\* Whatever fails, the table verifies clean as long as nobody tampers with it.
THEOREM UntamperedClean == Spec => []UntamperedVerifiesClean
<1>1. LogInv => UntamperedVerifiesClean
    BY SoundClean DEF LogInv, Positions, UntamperedVerifiesClean, Stored
<1> QED BY <1>1, LogInvariant, Implementation, PTL

\* verify_tier misses exactly the deletions that take their successors along.
THEOREM DeletionsDetectedAlways == Spec => []DeletionsDetected
<1>1. LogInv => DeletionsDetected
    <2> SUFFICES ASSUME Sound(table), NEW D \in SUBSET Chained
                 PROVE  VerifiesClean([r \in table \ D |-> r])
                            <=> \A r \in D : Successors(r) \subseteq D
        BY DEF DeletionsDetected, LogInv
    <2>1. Chained = ChainedIn(table)
        BY DEF Chained, Hashed, Stored, ChainedIn
    <2>2. VerifiesClean([r \in table \ D |-> r])
              <=> \A r \in D, s \in Chained : s.prev = r.hash => s \in D
        BY <2>1, SoundDeletions DEF Positions
    <2> QED BY <2>1, <2>2 DEF Successors
<1> QED BY <1>1, LogInvariant, Implementation, PTL

----------------------------------------------------------------------------
(* Without failed inserts and crashes the chain is a line: under the lock  *)
(* one thread at a time reads the head, inserts and advances the head, so  *)
(* the head that the inserting thread read is still the head, and no       *)
(* stored row continues it.                                                *)

LineInv ==
    /\ NoFork
    /\ \A r \in Chained : r.prev # head
    /\ \A t \in Threads : pc[t] = "inserting" => prevRead[t] = head
    /\ \A t, u \in Threads : pc[t] = "inserting" /\ pc[u] = "inserting" => t = u
    /\ limbo = {}
    /\ ~up => Chained = {}

FaultFree == raises = 0 /\ crashes = 0

\* What LogAlwaysClean's invariant says of the table.
SoundTable ==
    /\ \A r \in Chained : r = Link(r.prev, r.content)
    /\ \A r \in Chained : r.prev # Genesis => \E s \in Chained : s.hash = r.prev

\* The chained rows are the rows with a hash.
LEMMA ChainedRows == Chained = {r \in table : r.hash # Genesis}
BY DEF Chained, Hashed, Stored

\* Every stored row carries its own hash, and its predecessor is stored.
LEMMA SoundTableInvariant == Spec => []SoundTable
<1>1. LogInv => SoundTable
    BY ChainedRows DEF LogInv, Sound, ChainedIn, HashSet, SoundTable
<1> QED BY <1>1, LogInvariant, Implementation, PTL

\* A row's hash is neither its predecessor's nor another predecessor's.
LEMMA HashFresh ==
    ASSUME NEW p \in Seq(Content), NEW c \in Content, NEW q \in Seq(Content), NEW d \in Content
    PROVE  /\ ComputeRowHash(p, c) # p
           /\ ComputeRowHash(p, c) = ComputeRowHash(q, d) => p = q /\ c = d
<1>1. Len(Append(p, c)) = Len(p) + 1 /\ Len(p) \in Nat
    BY AppendProperties, LenProperties
<1>2. Append(p, c) # p
    BY <1>1
<1>3. Append(p, c) = Append(q, d) => p = q /\ c = d
    BY AppendInjective
<1> QED BY <1>2, <1>3 DEF ComputeRowHash

\* No row is chained at the start.
LEMMA LineInit == Init => LineInv
BY ChainedRows DEF Init, LineInv, NoFork, Unhashed

\* Only InsertReturns adds a row, and it continues the head nobody continues.
LEMMA LineStep ==
    ASSUME FaultFree => LineInv, ChainInv, SoundTable, [Next]_vars
    PROVE  (FaultFree => LineInv)'
<1> SUFFICES ASSUME FaultFree' PROVE LineInv'
    OBVIOUS
<1>n. raises \in Nat /\ crashes \in Nat
    BY ConstantsAssumption DEF ChainInv, TypeOK
<1>f. FaultFree /\ LineInv
    <2>1. raises <= raises' /\ crashes <= crashes'
        BY <1>n DEF Next, Start, Crash, Tick, BuildRow, BeginInsert, InsertReturns, InsertRaises,
                    LateCommit, vars, counters
    <2> QED BY <1>n, <2>1 DEF FaultFree
<1>1. CASE Start
    <2>1. \A t \in Threads : pc'[t] # "inserting"
        BY <1>1 DEF Start, ChainInv
    <2>2. Chained' = {}
        BY <1>f, <1>1 DEF Start, LineInv, Chained, Stored
    <2> QED BY <1>f, <1>1, <2>1, <2>2 DEF Start, LineInv, NoFork, counters
<1>2. ASSUME NEW t \in Threads, InsertReturns(t) PROVE LineInv'
    <2> DEFINE new == Sent(t)
    <2>1. /\ head \in Seq(Content) /\ built[t] \in Content
          /\ new.prev = head /\ new.hash = ComputeRowHash(head, built[t])
          /\ new.hash # Genesis
        BY <1>f, <1>2, SentAnchored DEF InsertReturns, LineInv, ChainInv, TypeOK, Sent, Link
    <2>2. Chained' = Chained \cup {new} /\ head' = new.hash
        BY <1>2, <2>1, ChainedRows DEF InsertReturns, Chained, Hashed, Stored
    <2>3. \A r \in Chained : r.prev \in Seq(Content) /\ r.content \in Content
        BY ChainedRows DEF ChainInv, TypeOK, Row
    <2>4. \A s \in Chained : s.hash # new.hash
        <3> SUFFICES ASSUME NEW s \in Chained, s.hash = new.hash PROVE FALSE
            OBVIOUS
        <3>1. s.hash = ComputeRowHash(s.prev, s.content)
            BY DEF SoundTable, Link
        <3>2. s.prev = head
            BY <2>1, <2>3, <3>1, HashFresh
        <3> QED BY <1>f, <3>2 DEF LineInv
    <2>5. \A r \in Chained : r.prev # new.hash
        BY <2>1, <2>4 DEF SoundTable
    <2>6. new.prev # new.hash
        BY <2>1, HashFresh
    <2>7. NoFork'
        BY <1>f, <2>1, <2>2 DEF LineInv, NoFork
    <2>8. \A u \in Threads : pc'[u] # "inserting"
        BY <1>f, <1>2 DEF InsertReturns, LineInv, ChainInv, TypeOK
    <2> QED BY <1>f, <1>2, <2>2, <2>5, <2>6, <2>7, <2>8 DEF InsertReturns, LineInv, counters
<1>3. ASSUME NEW t \in Threads, BuildRow(t) PROVE LineInv'
    BY <1>f, <1>3 DEF BuildRow, LineInv, NoFork, Chained, Stored, ChainInv, TypeOK
<1>4. ASSUME NEW t \in Threads, BeginInsert(t) PROVE LineInv'
    <2>1. /\ \A u \in Threads : pc'[u] = "inserting" => u = t
          /\ prevRead'[t] = head
        BY <1>4 DEF BeginInsert, LockFree, ChainInv, TypeOK
    <2> QED BY <1>f, <1>4, <2>1 DEF BeginInsert, counters, LineInv, NoFork, Chained, Stored
<1>5. CASE Tick \/ UNCHANGED vars
    BY <1>f, <1>5 DEF Tick, vars, counters, LineInv, NoFork, Chained, Stored
<1>6. ASSUME NEW t \in Threads, InsertRaises(t) PROVE FALSE
    BY <1>6, <1>n DEF InsertRaises, FaultFree
<1>7. ASSUME Crash PROVE FALSE
    BY <1>7, <1>n DEF Crash, FaultFree
<1>8. ASSUME NEW r \in limbo PROVE FALSE
    BY <1>f, <1>8 DEF LineInv
<1> QED BY <1>1, <1>2, <1>3, <1>4, <1>5, <1>6, <1>7, <1>8 DEF Next

\* As long as no insert raises and the process stays up, every row continues
\* the one before it, whatever the threads interleave.
THEOREM NoForkWithoutFaults == Spec => [](FaultFree => NoFork)
<1>1. Init => (FaultFree => LineInv)
    BY LineInit
<1>2. (FaultFree => LineInv) /\ ChainInv /\ SoundTable /\ [Next]_vars => (FaultFree => LineInv)'
    BY LineStep
<1>3. (FaultFree => LineInv) => (FaultFree => NoFork)
    BY DEF LineInv
<1> QED BY <1>1, <1>2, <1>3, ChainInvariant, SoundTableInvariant, PTL DEF Spec
----------------------------------------------------------------------------
(* Edits.                                                                  *)

\* The chained rows of the table are determined by their hashes.
LEMMA StoredHashIdentifies ==
    ASSUME TypeOK, SoundTable, NEW r \in Chained, NEW s \in Chained, r.hash = s.hash
    PROVE  r = s
<1>1. /\ r.prev \in Seq(Content) /\ r.content \in Content
      /\ s.prev \in Seq(Content) /\ s.content \in Content
    BY ChainedRows DEF TypeOK, Row
<1>2. r = Link(r.prev, r.content) /\ s = Link(s.prev, s.content)
    BY DEF SoundTable
<1>3. ComputeRowHash(r.prev, r.content) = ComputeRowHash(s.prev, s.content)
    BY <1>2 DEF Link
<1>4. r.prev = s.prev /\ r.content = s.content
    BY <1>1, <1>3, HashFresh
<1> QED BY <1>2, <1>4, Zenon

\* A row that no longer holds its hash is missed by the row that continues it.
LEMMA SuccessorMissesIt ==
    ASSUME TypeOK, SoundTable, NEW r \in Chained, NEW s \in Chained, s.prev = r.hash,
           NEW new, new.hash # r.hash
    PROVE  ~VerifiesClean([Stored EXCEPT ![r] = new])
<1> DEFINE T == [Stored EXCEPT ![r] = new]
<1>1. r \in table /\ s \in table /\ r.hash # Genesis /\ s.hash # Genesis
    BY ChainedRows
<1>2. s # r
    <2>1. /\ r.prev \in Seq(Content) /\ r.content \in Content
          /\ r.hash = ComputeRowHash(r.prev, r.content)
        BY ChainedRows DEF TypeOK, Row, SoundTable, Link
    <2>2. r.hash # r.prev
        BY <2>1, HashFresh
    <2> QED BY <2>2
<1>3. DOMAIN T = table /\ T[r] = new /\ \A i \in table \ {r} : T[i] = i
    BY <1>1 DEF Stored
<1> HIDE DEF T
<1>4. r.hash \notin HashesOf(T)
    <2> SUFFICES ASSUME NEW i \in Hashed(T), T[i].hash = r.hash PROVE FALSE
        BY DEF HashesOf
    <2>1. i \in table /\ i # r
        BY <1>3 DEF Hashed
    <2>2. T[i] = i /\ i \in Chained
        BY <1>1, <1>3, <2>1, ChainedRows
    <2> QED BY <2>1, <2>2, StoredHashIdentifies
<1>5. s \in MissingPredecessors(T)
    BY <1>1, <1>2, <1>3, <1>4 DEF MissingPredecessors, Hashed
<1>6. [type |-> "missing_predecessor", row_hash |-> T[s].hash] \in Issues(T)
    BY <1>5, Zenon DEF Issues
<1>7. ~VerifiesClean(T)
    BY <1>6 DEF VerifiesClean
<1> QED BY <1>7 DEF T

\* verify_tier reports every row whose content was edited under its hash; and,
\* when another row continues it, an edit that recomputes the hash and a hash
\* that was blanked, for any contents and however the trail came about
\* (verify_audit.py:103-155).
THEOREM EditsDetectedAlways == Spec => []EditsDetected
<1>1. TypeOK /\ SoundTable => EditsDetected
    <2> SUFFICES ASSUME TypeOK, SoundTable, NEW r \in Chained, NEW c \in Content \ {r.content}
                 PROVE  /\ ~VerifiesClean([Stored EXCEPT ![r].content = c])
                        /\ Successors(r) # {} =>
                              /\ ~VerifiesClean([Stored EXCEPT ![r] = Link(r.prev, c)])
                              /\ ~VerifiesClean([Stored EXCEPT ![r] = Unhashed(r.content)])
        BY DEF EditsDetected
    <2>1. /\ r \in table /\ r.hash # Genesis /\ r \in Row
          /\ r.prev \in Seq(Content) /\ r.content \in Content
          /\ r.hash = ComputeRowHash(r.prev, r.content)
        BY ChainedRows DEF TypeOK, Row, SoundTable, Link
    <2>2. ComputeRowHash(r.prev, c) # r.hash
        <3>1. Append(r.prev, c) = Append(r.prev, r.content) => c = r.content
            BY <2>1, AppendInjective
        <3> QED BY <2>1, <3>1 DEF ComputeRowHash
    <2>3. ~VerifiesClean([Stored EXCEPT ![r].content = c])
        <3> DEFINE T == [Stored EXCEPT ![r].content = c]
        <3>1. DOMAIN T = table /\ T[r] = [r EXCEPT !.content = c]
            BY <2>1 DEF Stored
        <3>2. T[r].prev = r.prev /\ T[r].content = c /\ T[r].hash = r.hash
            BY <2>1, <3>1 DEF Row
        <3> HIDE DEF T
        <3>3. r \in ContentEdits(T)
            BY <2>1, <2>2, <3>1, <3>2 DEF ContentEdits, Hashed
        <3>4. [type |-> "content_edit", row_hash |-> T[r].hash] \in Issues(T)
            BY <3>3, Zenon DEF Issues
        <3>5. ~VerifiesClean(T)
            BY <3>4 DEF VerifiesClean
        <3> QED BY <3>5 DEF T
    <2>4. ASSUME NEW s \in Successors(r)
          PROVE  /\ ~VerifiesClean([Stored EXCEPT ![r] = Link(r.prev, c)])
                 /\ ~VerifiesClean([Stored EXCEPT ![r] = Unhashed(r.content)])
        <3>1. s \in Chained /\ s.prev = r.hash
            BY DEF Successors
        <3>2. Link(r.prev, c).hash # r.hash /\ Unhashed(r.content).hash # r.hash
            BY <2>1, <2>2 DEF Link, Unhashed
        <3> QED BY <3>1, <3>2, SuccessorMissesIt
    <2> QED BY <2>3, <2>4
<1> QED BY <1>1, TypeCorrect, SoundTableInvariant, PTL

----------------------------------------------------------------------------
(* Forks.  The ends of the chain are counted with the rows of limbo, each  *)
(* of which continues a stored row; the next row adds an end exactly when  *)
(* the head is not the hash of one.  A raise leaves the head behind the    *)
(* row in limbo, a restart may seed any head: each adds one end at most.   *)

Sendable == Chained \cup limbo

EndsOf(X) == {r \in X : \A s \in X : s.prev # r.hash}

\* No end of X has the hash h: a row that continues h is one end more.
Loose(X, h) == \A r \in EndsOf(X) : r.hash # h

\* Every row has its own hash, and its predecessor is there.
Grown(X) ==
    /\ IsFiniteSet(X)
    /\ \A r \in X : /\ r.prev \in Seq(Content) /\ r.content \in Content
                    /\ r = Link(r.prev, r.content)
                    /\ r.prev # Genesis => \E s \in X : s.hash = r.prev

\* One row that continues h is one end more if h is loose, and none if not.
LEMMA OneMoreRow ==
    ASSUME NEW X, Grown(X), NEW h \in Seq(Content), NEW c \in Content,
           NEW new, new = Link(h, c)
    PROVE  /\ IsFiniteSet(EndsOf(X)) /\ Cardinality(EndsOf(X)) \in Nat
           /\ IsFiniteSet(EndsOf(X \cup {new})) /\ Cardinality(EndsOf(X \cup {new})) \in Nat
           /\ Cardinality(EndsOf(X \cup {new}))
                 <= Cardinality(EndsOf(X)) + (IF Loose(X, h) THEN 1 ELSE 0)
           /\ new \in X => Loose(X, h)
           /\ new \notin X => ~Loose(X \cup {new}, new.hash)
           /\ Loose(X \cup {new}, h)
<1>1. /\ new.prev = h /\ new.content = c /\ new.hash = ComputeRowHash(h, c)
      /\ new.hash # Genesis /\ new.hash # h
    <2>1. new.hash # Genesis
        BY LinkType
    <2>2. new.prev = h /\ new.content = c /\ new.hash = ComputeRowHash(h, c)
        BY DEF Link
    <2> QED BY <2>1, <2>2, HashFresh
<1>2. EndsOf(X) \subseteq X /\ EndsOf(X \cup {new}) \subseteq X \cup {new}
    BY DEF EndsOf
<1>3. IsFiniteSet(X \cup {new})
    BY FS_AddElement DEF Grown
<1>4. /\ IsFiniteSet(EndsOf(X)) /\ Cardinality(EndsOf(X)) \in Nat
      /\ IsFiniteSet(EndsOf(X \cup {new})) /\ Cardinality(EndsOf(X \cup {new})) \in Nat
    BY <1>2, <1>3, FS_Subset, FS_CardinalityType DEF Grown
<1>5. \A r \in X : r.hash = new.hash => r = new
    <2> SUFFICES ASSUME NEW r \in X, r.hash = new.hash PROVE r = new
        OBVIOUS
    <2>1. r.prev \in Seq(Content) /\ r.content \in Content /\ r = Link(r.prev, r.content)
        BY DEF Grown
    <2>2. Append(r.prev, r.content) = Append(h, c)
        BY <1>1, <2>1 DEF Link, ComputeRowHash
    <2>3. r.prev = h /\ r.content = c
        BY <2>1, <2>2, AppendInjective
    <2> QED BY <2>1, <2>3
<1>6. new \in X => Loose(X, h)
    BY <1>1 DEF Loose, EndsOf
<1>7. Loose(X \cup {new}, h)
    BY <1>1 DEF Loose, EndsOf
<1>8. CASE new \in X
    <2>1. X \cup {new} = X
        BY <1>8
    <2>2. Loose(X, h)
        BY <1>6, <1>8
    <2>3. \A n \in Nat : n <= n + 1
        OBVIOUS
    <2> QED BY <1>4, <1>6, <1>7, <1>8, <2>1, <2>2, <2>3
<1>9. CASE new \notin X
    <2>1. \A r \in X : r.prev # new.hash
        BY <1>1, <1>5, <1>9 DEF Grown
    <2>2. new \in EndsOf(X \cup {new})
        BY <1>1, <2>1 DEF EndsOf
    <2>3. ~Loose(X \cup {new}, new.hash)
        BY <2>2 DEF Loose
    <2>4. EndsOf(X \cup {new}) = {r \in EndsOf(X) : r.hash # h} \cup {new}
        BY <1>1, <2>1, <2>2 DEF EndsOf
    <2>5. CASE Loose(X, h)
        <3>1. EndsOf(X \cup {new}) = EndsOf(X) \cup {new}
            BY <2>4, <2>5 DEF Loose
        <3>2. Cardinality(EndsOf(X \cup {new})) = Cardinality(EndsOf(X)) + 1
            BY <1>2, <1>4, <1>9, <3>1, FS_AddElement
        <3> QED BY <1>4, <1>7, <1>9, <2>3, <2>5, <3>2
    <2>6. CASE ~Loose(X, h)
        <3>1. PICK e \in EndsOf(X) : e.hash = h
            BY <2>6 DEF Loose
        <3> DEFINE others == EndsOf(X) \ {e}
        <3>2. IsFiniteSet(others) /\ Cardinality(others) = Cardinality(EndsOf(X)) - 1
            BY <1>4, <3>1, FS_RemoveElement
        <3>3. EndsOf(X \cup {new}) \subseteq others \cup {new}
            BY <2>4, <3>1
        <3>4. IsFiniteSet(others \cup {new}) /\ Cardinality(others \cup {new}) = Cardinality(others) + 1
            BY <1>2, <1>9, <3>2, FS_AddElement
        <3>5. Cardinality(EndsOf(X \cup {new})) <= Cardinality(others \cup {new})
            BY <3>3, <3>4, FS_Subset
        <3> HIDE DEF others
        <3> QED BY <1>4, <1>7, <1>9, <2>3, <2>6, <3>2, <3>4, <3>5
    <2> QED BY <2>5, <2>6
<1> QED BY <1>8, <1>9
\* The process has the lock to itself, and what it does not owe for yet.
Debt == IF up /\ ~Loose(Sendable, head) THEN 0 ELSE 1

ForkInv ==
    /\ IsFiniteSet(Sendable)
    /\ \A t \in Threads : pc[t] = "inserting" => prevRead[t] = head
    /\ \A t, u \in Threads : pc[t] = "inserting" /\ pc[u] = "inserting" => t = u
    /\ Cardinality(EndsOf(Sendable)) + Debt <= 1 + raises + crashes

\* What is stored or may be is a set of rows that continue stored rows.
LEMMA SendableGrown ==
    ASSUME ChainInv, SoundTable, IsFiniteSet(Sendable)
    PROVE  Grown(Sendable)
<1> SUFFICES ASSUME NEW r \in Sendable
             PROVE  /\ r.prev \in Seq(Content) /\ r.content \in Content
                    /\ r = Link(r.prev, r.content)
                    /\ r.prev # Genesis => \E s \in Sendable : s.hash = r.prev
    BY DEF Grown
<1>1. CASE r \in Chained
    BY <1>1, ChainedRows DEF SoundTable, ChainInv, TypeOK, Row, Sendable
<1>2. CASE r \in limbo
    <2>1. r \in Row
        BY <1>2 DEF ChainInv, TypeOK
    <2>2. PICK c \in Content, prev \in Anchors : r = Link(prev, c)
        BY <1>2 DEF ChainInv, Anchored
    <2>3. r.prev = prev /\ r.content = c
        BY <2>2 DEF Link
    <2>4. prev # Genesis => \E s \in Chained : s.hash = prev
        BY StoredHashes, ChainedRows DEF Anchors
    <2> QED BY <2>1, <2>2, <2>3, <2>4 DEF Sendable, Row
<1> QED BY <1>1, <1>2 DEF Sendable

\* What a row may continue is a hash.
LEMMA AnchorType ==
    ASSUME TypeOK, NEW a \in Anchors
    PROVE  a \in Seq(Content)
<1>1. CASE a = Genesis
    BY <1>1, EmptySeq DEF Genesis
<1>2. CASE a # Genesis
    <2>1. PICK r \in table : r.hash = a
        BY <1>2, StoredHashes DEF Anchors
    <2> QED BY <2>1 DEF TypeOK, Row
<1> QED BY <1>1, <1>2

\* A step that leaves rows, head and lock alone owes nothing.
LEMMA ForkKept ==
    ASSUME ForkInv, Sendable' = Sendable, UNCHANGED <<up, head, raises, crashes>>,
           \A t \in Threads : pc'[t] = "inserting" => pc[t] = "inserting" /\ prevRead'[t] = prevRead[t]
    PROVE  ForkInv'
BY DEF ForkInv, Debt, EndsOf, Loose

\* No row is chained or under way at the start, and the first chain is free.
LEMMA ForkInit == Init => ForkInv
<1> SUFFICES ASSUME Init PROVE ForkInv
    OBVIOUS
<1>1. Sendable = {}
    BY ChainedRows DEF Init, Sendable, Unhashed
<1>2. EndsOf(Sendable) = {}
    BY <1>1 DEF EndsOf
<1>3. Debt = 1 /\ raises = 0 /\ crashes = 0
    BY DEF Init, Debt
<1>4. Cardinality({}) = 0 /\ IsFiniteSet({})
    BY FS_EmptySet
<1>5. Cardinality(EndsOf(Sendable)) + Debt <= 1 + raises + crashes
    BY <1>2, <1>3, <1>4
<1> QED BY <1>1, <1>4, <1>5 DEF ForkInv, Init

\* The steps that add no row, and those that add the row a thread has sent.
LEMMA ForkStep ==
    ASSUME ForkInv, ChainInv, SoundTable, [Next]_vars
    PROVE  ForkInv'
<1>n. raises \in Nat /\ crashes \in Nat
    BY ConstantsAssumption DEF ChainInv, TypeOK
<1>g. Grown(Sendable) /\ IsFiniteSet(Sendable)
    BY SendableGrown DEF ForkInv
<1>e. Cardinality(EndsOf(Sendable)) \in Nat
    <2>1. EndsOf(Sendable) \subseteq Sendable
        BY DEF EndsOf
    <2> QED BY <1>g, <2>1, FS_Subset, FS_CardinalityType
<1>1. CASE Start
    <2>1. Sendable' = Sendable /\ UNCHANGED <<raises, crashes>>
        BY <1>1 DEF Start, Sendable, Chained, Stored, counters
    <2>2. \A t \in Threads : pc'[t] # "inserting"
        BY <1>1 DEF Start, ChainInv
    <2>3. Debt = 1 /\ Debt' \in {0, 1}
        BY <1>1 DEF Start, Debt
    <2>4. EndsOf(Sendable)' = EndsOf(Sendable)
        BY <2>1 DEF EndsOf
    <2>5. (Cardinality(EndsOf(Sendable)) + Debt <= 1 + raises + crashes)'
        BY <1>n, <1>e, <2>1, <2>3, <2>4 DEF ForkInv
    <2> QED BY <2>1, <2>2, <2>5 DEF ForkInv
<1>2. CASE Tick \/ UNCHANGED vars
    BY <1>2, ForkKept DEF Tick, vars, counters, Sendable, Chained, Stored
<1>3. ASSUME NEW t \in Threads, BuildRow(t) PROVE ForkInv'
    <2>1. \A u \in Threads : pc'[u] = "inserting" => pc[u] = "inserting"
        BY <1>3 DEF BuildRow, ChainInv, TypeOK
    <2> QED BY <1>3, <2>1, ForkKept DEF BuildRow, Sendable, Chained, Stored
<1>4. ASSUME NEW t \in Threads, BeginInsert(t) PROVE ForkInv'
    <2>1. /\ \A u \in Threads : pc'[u] = "inserting" => u = t
          /\ prevRead'[t] = head
        BY <1>4 DEF BeginInsert, LockFree, ChainInv, TypeOK
    <2>2. Sendable' = Sendable /\ UNCHANGED <<up, head, raises, crashes>>
        BY <1>4 DEF BeginInsert, Sendable, Chained, Stored, counters
    <2> QED BY <2>1, <2>2 DEF ForkInv, Debt, EndsOf, Loose
<1>5. ASSUME NEW r \in limbo, LateCommit(r) PROVE ForkInv'
    <2>1. r.hash # Genesis
        <3>1. PICK c \in Content, prev \in Anchors : r = Link(prev, c)
            BY DEF ChainInv, Anchored
        <3>2. prev \in Seq(Content)
            BY AnchorType DEF ChainInv
        <3> QED BY <3>1, <3>2, LinkType
    <2>2. Chained' = Chained \cup {r} /\ limbo' = limbo \ {r}
        BY <1>5, <2>1, ChainedRows DEF LateCommit, Chained, Hashed, Stored
    <2>3. Sendable' = Sendable
        BY <2>2 DEF Sendable
    <2> QED BY <1>5, <2>3, ForkKept DEF LateCommit, counters
<1>6. ASSUME NEW t \in Threads, pc[t] = "inserting", up
      PROVE  LET X == Sendable \cup {Sent(t)}
             IN  /\ IsFiniteSet(X) /\ Cardinality(EndsOf(X)) \in Nat
                 /\ Cardinality(EndsOf(X)) <= 1 + raises + crashes
                 /\ Cardinality(EndsOf(X)) + (IF Loose(X, Sent(t).hash) THEN 1 ELSE 0)
                        <= 1 + raises + crashes
                 /\ Sent(t).hash # Genesis
    <2> DEFINE new == Sent(t)
               X == Sendable \cup {new}
               E == Cardinality(EndsOf(Sendable))
               F == Cardinality(EndsOf(X))
    <2>1. new = Link(head, built[t]) /\ head \in Seq(Content) /\ built[t] \in Content
        BY <1>6 DEF ForkInv, Sent, ChainInv, TypeOK
    <2>2. new.hash # Genesis
        BY SentAnchored
    <2>3. /\ F \in Nat
          /\ F <= E + (IF Loose(Sendable, head) THEN 1 ELSE 0)
          /\ new \in Sendable => Loose(Sendable, head)
          /\ new \notin Sendable => ~Loose(X, new.hash)
        BY <1>g, <2>1, OneMoreRow
    <2>4. IsFiniteSet(X)
        BY <1>g, FS_AddElement
    <2>5. E + (IF Loose(Sendable, head) THEN 1 ELSE 0) <= 1 + raises + crashes
        BY <1>6 DEF ForkInv, Debt
    <2>6. F <= 1 + raises + crashes
        BY <1>n, <1>e, <2>3, <2>5
    <2>7. F + (IF Loose(X, new.hash) THEN 1 ELSE 0) <= 1 + raises + crashes
        <3>1. CASE new \notin Sendable
            BY <2>3, <2>6, <3>1
        <3>2. CASE new \in Sendable
            <4>1. X = Sendable
                BY <3>2
            <4>2. E + 1 <= 1 + raises + crashes
                BY <2>3, <2>5, <3>2
            <4>3. F = E
                BY <4>1
            <4> HIDE DEF E, F, X
            <4> QED BY <1>n, <2>3, <4>2, <4>3
        <3> QED BY <3>1, <3>2
    <2> QED BY <2>2, <2>3, <2>4, <2>6, <2>7
<1>7. ASSUME NEW t \in Threads, InsertReturns(t) PROVE ForkInv'
    <2> DEFINE X == Sendable \cup {Sent(t)}
    <2>0. pc[t] = "inserting" /\ up
        BY <1>7 DEF InsertReturns
    <2>1. Chained' = Chained \cup {Sent(t)}
        BY <1>6, <1>7, <2>0, ChainedRows DEF InsertReturns, Chained, Hashed, Stored
    <2>2. Sendable' = X
        BY <1>7, <2>1 DEF InsertReturns, Sendable
    <2>3. \A u \in Threads : pc'[u] # "inserting"
        BY <1>7 DEF InsertReturns, ForkInv, ChainInv, TypeOK
    <2>4. up' /\ head' = Sent(t).hash /\ UNCHANGED <<raises, crashes>>
        BY <1>7 DEF InsertReturns, counters
    <2>5. EndsOf(Sendable)' = EndsOf(X) /\ (Loose(Sendable, head)' <=> Loose(X, Sent(t).hash))
        BY <2>2, <2>4 DEF EndsOf, Loose
    <2>6. Debt' = IF Loose(X, Sent(t).hash) THEN 1 ELSE 0
        BY <2>4, <2>5 DEF Debt
    <2> QED BY <1>6, <2>0, <2>2, <2>3, <2>4, <2>5, <2>6 DEF ForkInv
<1>8. ASSUME NEW t \in Threads, InsertRaises(t) PROVE ForkInv'
    <2> DEFINE X == Sendable \cup {Sent(t)}
    <2>0. pc[t] = "inserting" /\ up
        BY <1>8 DEF InsertRaises
    <2>1. Sendable' = X
        BY <1>8 DEF InsertRaises, Sendable, Chained, Stored
    <2>2. \A u \in Threads : pc'[u] # "inserting"
        BY <1>8 DEF InsertRaises, ForkInv, ChainInv, TypeOK
    <2>3. raises' = raises + 1 /\ crashes' = crashes
        BY <1>8 DEF InsertRaises
    <2>4. EndsOf(Sendable)' = EndsOf(X)
        BY <2>1 DEF EndsOf
    <2>5. Debt' \in {0, 1}
        BY DEF Debt
    <2>6. Cardinality(EndsOf(X)) \in Nat /\ Cardinality(EndsOf(X)) <= 1 + raises + crashes
        BY <1>6, <2>0
    <2>7. (Cardinality(EndsOf(Sendable)) + Debt <= 1 + raises + crashes)'
        BY <1>n, <2>3, <2>4, <2>5, <2>6
    <2> QED BY <1>6, <2>0, <2>1, <2>2, <2>7 DEF ForkInv
<1>9. CASE Crash
    <2> DEFINE S == {Sent(u) : u \in {v \in Threads : pc[v] = "inserting"}}
    <2>1. Sendable' = Sendable \cup S
        BY <1>9 DEF Crash, Sendable, Chained, Stored
    <2>2. \A u \in Threads : pc'[u] # "inserting"
        BY <1>9 DEF Crash
    <2>3. up /\ crashes' = crashes + 1 /\ raises' = raises /\ Debt' = 1
        BY <1>9 DEF Crash, Debt
    <2>4. EndsOf(Sendable)' = EndsOf(Sendable')
        BY DEF EndsOf
    <2>5. /\ IsFiniteSet(Sendable') /\ Cardinality(EndsOf(Sendable')) \in Nat
          /\ Cardinality(EndsOf(Sendable')) <= 1 + raises + crashes
        <3>1. CASE \E u \in Threads : pc[u] = "inserting"
            <4>1. PICK t \in Threads : pc[t] = "inserting"
                BY <3>1
            <4>2. S = {Sent(t)}
                BY <4>1 DEF ForkInv
            <4> QED BY <1>6, <2>1, <2>3, <4>1, <4>2
        <3>2. CASE ~\E u \in Threads : pc[u] = "inserting"
            <4>1. Sendable' = Sendable
                BY <2>1, <3>2
            <4>2. Debt \in {0, 1}
                BY DEF Debt
            <4> QED BY <1>n, <1>g, <1>e, <4>1, <4>2 DEF ForkInv
        <3> QED BY <3>1, <3>2
    <2>6. (Cardinality(EndsOf(Sendable)) + Debt <= 1 + raises + crashes)'
        BY <1>n, <2>3, <2>4, <2>5
    <2> QED BY <2>2, <2>5, <2>6 DEF ForkInv
<1> QED BY <1>1, <1>2, <1>3, <1>4, <1>5, <1>7, <1>8, <1>9 DEF Next

\* The ends of the stored chain are no more than those with limbo counted: an
\* end that limbo continues makes room for a row of limbo that continues it.
LEMMA StoredEnds ==
    ASSUME ForkInv, ChainInv, SoundTable
    PROVE  /\ Cardinality(EndsOf(Chained)) <= Cardinality(EndsOf(Sendable))
           /\ Cardinality(EndsOf(Chained)) \in Nat /\ Cardinality(EndsOf(Sendable)) \in Nat
<1>g. Grown(Sendable) /\ IsFiniteSet(Sendable)
    BY SendableGrown DEF ForkInv
<1>1. IsFiniteSet(EndsOf(Sendable)) /\ IsFiniteSet(EndsOf(Chained))
    <2>1. EndsOf(Sendable) \subseteq Sendable /\ EndsOf(Chained) \subseteq Sendable
        BY DEF EndsOf, Sendable
    <2> QED BY <1>g, <2>1, FS_Subset
<1> DEFINE f == [r \in EndsOf(Chained) |-> CHOOSE e \in EndsOf(Sendable) : e = r \/ e.prev = r.hash]
<1>2. ASSUME NEW r \in EndsOf(Chained)
      PROVE  \E e \in EndsOf(Sendable) : e = r \/ e.prev = r.hash
    <2>1. CASE r \in EndsOf(Sendable)
        BY <2>1
    <2>2. CASE r \notin EndsOf(Sendable)
        <3>1. PICK e \in Sendable : e.prev = r.hash
            BY <2>2 DEF EndsOf, Sendable
        <3>2. e \in limbo /\ e \notin Chained
            BY <3>1 DEF EndsOf, Sendable
        <3>3. e.hash # Genesis /\ e.hash \in Seq(Content)
            <4>1. e.prev \in Seq(Content) /\ e.content \in Content /\ e = Link(e.prev, e.content)
                BY <1>g, <3>1 DEF Grown
            <4> QED BY <4>1, LinkType
        <3>4. ASSUME NEW s \in Sendable, s.prev = e.hash PROVE FALSE
            <4>1. \E d \in Chained : d.hash = s.prev
                <5>1. CASE s \in Chained
                    BY <3>3, <3>4, <5>1 DEF SoundTable
                <5>2. CASE s \in limbo
                    <6>1. PICK c \in Content, prev \in Anchors : s = Link(prev, c)
                        BY <5>2 DEF ChainInv, Anchored
                    <6>2. s.prev = prev
                        BY <6>1 DEF Link
                    <6> QED BY <3>3, <3>4, <6>1, <6>2, StoredHashes, ChainedRows DEF Anchors
                <5> QED BY <5>1, <5>2 DEF Sendable
            <4>2. PICK d \in Chained : d.hash = e.hash
                BY <3>4, <4>1
            <4>3. /\ d.prev \in Seq(Content) /\ d.content \in Content /\ d = Link(d.prev, d.content)
                  /\ e.prev \in Seq(Content) /\ e.content \in Content /\ e = Link(e.prev, e.content)
                BY <1>g, <3>1, <4>2 DEF Grown, Sendable
            <4>4. ComputeRowHash(d.prev, d.content) = ComputeRowHash(e.prev, e.content)
                BY <4>2, <4>3 DEF Link
            <4>5. d.prev = e.prev /\ d.content = e.content
                BY <4>3, <4>4, HashFresh
            <4>6. d = e
                BY <4>3, <4>5, Zenon
            <4> QED BY <3>2, <4>2, <4>6
        <3> QED BY <3>1, <3>4 DEF EndsOf
    <2> QED BY <2>1, <2>2
<1>3. \A r \in EndsOf(Chained) :
          f[r] \in EndsOf(Sendable) /\ (f[r] = r \/ f[r].prev = r.hash)
    BY <1>2
<1>4. \A r, s \in EndsOf(Chained) : f[r] = f[s] => r = s
    <2> SUFFICES ASSUME NEW r \in EndsOf(Chained), NEW s \in EndsOf(Chained), f[r] = f[s]
                 PROVE  r = s
        OBVIOUS
    <2>1. r \in Chained /\ s \in Chained /\ r.hash # s.prev /\ s.hash # r.prev
        BY DEF EndsOf
    <2>2. r.hash = s.hash => r = s
        BY <2>1, StoredHashIdentifies DEF ChainInv
    <2> HIDE DEF f
    <2> QED BY <1>3, <2>1, <2>2
<1>5. f \in Injection(EndsOf(Chained), EndsOf(Sendable))
    BY <1>3, <1>4 DEF Injection, IsInjective
<1> HIDE DEF f
<1>6. Cardinality(EndsOf(Chained)) <= Cardinality(EndsOf(Sendable))
    BY <1>1, <1>5, FS_Injection
<1> QED BY <1>1, <1>6, FS_CardinalityType

\* Every end of the chain but the first has an insert that raised or a crash to
\* answer for it, however the threads interleave and whatever head a restart
\* seeds (audit.py:86-119).
THEOREM ForksAlwaysAccounted == Spec => []ForksAccounted
<1>1. ForkInv /\ ChainInv /\ SoundTable => ForksAccounted
    <2> SUFFICES ASSUME ForkInv, ChainInv, SoundTable PROVE ForksAccounted
        OBVIOUS
    <2>1. EndsOf(Chained) = {r \in Chained : Successors(r) = {}}
        BY DEF EndsOf, Successors
    <2>2. /\ Cardinality(EndsOf(Chained)) <= Cardinality(EndsOf(Sendable))
          /\ Cardinality(EndsOf(Chained)) \in Nat /\ Cardinality(EndsOf(Sendable)) \in Nat
        BY StoredEnds
    <2>3. Cardinality(EndsOf(Sendable)) + Debt <= 1 + raises + crashes /\ Debt \in {0, 1}
        BY DEF ForkInv, Debt
    <2>4. raises \in Nat /\ crashes \in Nat
        BY ConstantsAssumption DEF ChainInv, TypeOK
    <2>5. Cardinality(EndsOf(Chained)) <= 1 + raises + crashes
        BY <2>2, <2>3, <2>4
    <2> QED BY <2>1, <2>5 DEF ForksAccounted
<1> QED BY <1>1, ForkInit, ForkStep, ChainInvariant, SoundTableInvariant, PTL DEF Spec
=============================================================================
