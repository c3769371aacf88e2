----------------------------- MODULE AuditChain -----------------------------
(***************************************************************************)
(* One tier's audit trail: the Auditor of audit.py in an MCP server        *)
(* process, the worker threads that call its record(), and the ssdf.audit  *)
(* table it inserts into.                                                  *)
(*                                                                         *)
(* record() stamps the row BEFORE it takes the lock, so the order of the   *)
(* chain (the order of the lock) is not the order of the timestamps.  The  *)
(* head of the chain lives in the process; a restarted process seeds it    *)
(* from the table with a query that orders by timestamp.                   *)
(***************************************************************************)
EXTENDS AuditVerify, FiniteSets

CONSTANTS
    Threads,        \* the worker threads that run tools
    Bodies,         \* the business fields of a row other than ts
    LegacyRows,     \* contents of the rows that predate migration 009
    Seeding,        \* may a start find CH_AUDIT_VERIFY_PASSWORD set (TRUE), unset (FALSE)?
    MaxClock,       \* bound: last value of the clock
    MaxCalls,       \* bound: calls of record()
    MaxRaises,      \* bound: inserts that raise
    MaxCrashes      \* bound: crashes of the process

Content == [ts : 0..MaxClock, body : Bodies]

ASSUME ConstantsAssumption ==
    /\ MaxClock \in Nat /\ MaxCalls \in Nat /\ MaxRaises \in Nat
    /\ MaxCrashes \in Nat
    /\ Seeding \subseteq BOOLEAN
    /\ Bodies # {} /\ LegacyRows \subseteq Content

VARIABLES
    clock,      \* wall clock, at the millisecond resolution of DateTime64(3)
    up,         \* is the process running?
    head,       \* Auditor._last_hash
    pc,         \* per thread: "idle", "stamped" (row built), "inserting"
    built,      \* per thread, from BuildRow on: the row build_audit_row returned
    prevRead,   \* per thread, while inserting: the head it linked its row to
    table,      \* the rows of this tier in ssdf.audit
    limbo,      \* rows of inserts that raised and may still commit
    calls, raises, crashes

counters == <<calls, raises, crashes>>
vars == <<clock, up, head, pc, built, prevRead, table, limbo, counters>>

----------------------------------------------------------------------------
\* The row a thread sends: the business fields linked to the head it read.
Sent(t) == Link(prevRead[t], built[t])

NoRow == CHOOSE c \in Content : TRUE     \* record() is not running: never read

LockFree == \A t \in Threads : pc[t] # "inserting"

\* verify_tier sees the table's rows.  Migration 016 sets a deduplication
\* window, so a block identical to a stored one is not stored again.
Stored == [r \in table |-> r]

\* "... ORDER BY ts DESC LIMIT 1": any row with the greatest timestamp.
LatestRows == {r \in table : \A s \in table : s.content.ts <= r.content.ts}

\* _seed_last_hash: "" without the verifier's password, "" on an empty table,
\* otherwise the hash of the latest row (which is "" for a legacy row).
SeedHashes(seeded) ==
    IF seeded /\ table # {} THEN {r.hash : r \in LatestRows} ELSE {Genesis}

----------------------------------------------------------------------------
Init ==
    /\ clock = 0
    /\ up = FALSE
    /\ head = Genesis
    /\ pc = [t \in Threads |-> "idle"]
    /\ built = [t \in Threads |-> NoRow]
    /\ prevRead = [t \in Threads |-> Genesis]
    /\ table = {Unhashed(c) : c \in LegacyRows}
    /\ limbo = {}
    /\ calls = 0 /\ raises = 0 /\ crashes = 0

\* make_ch_auditor: connect, seed the head, build the Auditor.
Start ==
    /\ ~up
    /\ up' = TRUE
    /\ \E seeded \in Seeding : head' \in SeedHashes(seeded)
    /\ UNCHANGED <<clock, pc, built, prevRead, table, limbo, counters>>

\* record(): build_audit_row takes the timestamp; the lock is not held.
BuildRow(t) ==
    /\ up /\ pc[t] = "idle" /\ calls < MaxCalls
    /\ \E b \in Bodies : built' = [built EXCEPT ![t] = [ts |-> clock, body |-> b]]
    /\ pc' = [pc EXCEPT ![t] = "stamped"]
    /\ calls' = calls + 1
    /\ UNCHANGED <<clock, up, head, prevRead, table, limbo, raises, crashes>>

\* A bug: the head is read without the lock.
BeginInsertUnlocked(t) ==
    /\ up /\ pc[t] = "stamped"
    /\ pc' = [pc EXCEPT ![t] = "inserting"]
    /\ prevRead' = [prevRead EXCEPT ![t] = head]
    /\ UNCHANGED <<clock, up, head, built, table, limbo, counters>>

\* record(): take the lock, link the row to the head, call the insert.
BeginInsert(t) ==
    /\ up /\ pc[t] = "stamped" /\ LockFree
    /\ pc' = [pc EXCEPT ![t] = "inserting"]
    /\ prevRead' = [prevRead EXCEPT ![t] = head]
    /\ UNCHANGED <<clock, up, head, built, table, limbo, counters>>

\* The insert returns: the row is stored, the head advances, the lock is freed.
InsertReturns(t) ==
    /\ up /\ pc[t] = "inserting"
    /\ table' = table \cup {Sent(t)}
    /\ head' = Sent(t).hash
    /\ pc' = [pc EXCEPT ![t] = "idle"]
    /\ built' = [built EXCEPT ![t] = NoRow]
    /\ prevRead' = [prevRead EXCEPT ![t] = Genesis]
    /\ UNCHANGED <<clock, up, limbo, counters>>

\* A bug: the head advances although the insert raised.
InsertRaisesAdvancing(t) ==
    /\ up /\ pc[t] = "inserting" /\ raises < MaxRaises
    /\ limbo' = limbo \cup {Sent(t)}
    /\ head' = Sent(t).hash
    /\ pc' = [pc EXCEPT ![t] = "idle"]
    /\ built' = [built EXCEPT ![t] = NoRow]
    /\ prevRead' = [prevRead EXCEPT ![t] = Genesis]
    /\ raises' = raises + 1
    /\ UNCHANGED <<clock, up, table, calls, crashes>>

\* The insert raises: record() reports and returns, and the head stays.  The
\* request may have been refused, or it may yet commit (a timeout).
InsertRaises(t) ==
    /\ up /\ pc[t] = "inserting" /\ raises < MaxRaises
    /\ limbo' = limbo \cup {Sent(t)}
    /\ pc' = [pc EXCEPT ![t] = "idle"]
    /\ built' = [built EXCEPT ![t] = NoRow]
    /\ prevRead' = [prevRead EXCEPT ![t] = Genesis]
    /\ raises' = raises + 1
    /\ UNCHANGED <<clock, up, head, table, calls, crashes>>

\* The server commits a request whose client is no longer waiting for it.
LateCommit(r) ==
    /\ r \in limbo
    /\ limbo' = limbo \ {r}
    /\ table' = table \cup {r}
    /\ UNCHANGED <<clock, up, head, pc, built, prevRead, counters>>

\* The process dies; a request on the wire may still commit.  systemd starts it
\* again (Restart=on-failure).
Crash ==
    /\ up /\ crashes < MaxCrashes
    /\ up' = FALSE
    /\ head' = Genesis
    /\ limbo' = limbo \cup {Sent(t) : t \in {u \in Threads : pc[u] = "inserting"}}
    /\ pc' = [t \in Threads |-> "idle"]
    /\ built' = [t \in Threads |-> NoRow]
    /\ prevRead' = [t \in Threads |-> Genesis]
    /\ crashes' = crashes + 1
    /\ UNCHANGED <<clock, table, calls, raises>>

Tick ==
    /\ clock < MaxClock
    /\ clock' = clock + 1
    /\ UNCHANGED <<up, head, pc, built, prevRead, table, limbo, counters>>

Next ==
    \/ Start \/ Crash \/ Tick
    \/ \E t \in Threads :
          BuildRow(t) \/ BeginInsert(t) \/ InsertReturns(t) \/ InsertRaises(t)
    \/ \E r \in limbo : LateCommit(r)

Spec == Init /\ [][Next]_vars

----------------------------------------------------------------------------
(* What the trail promises.                                                *)

Row == [content : Content, prev : Seq(Content), hash : Seq(Content)]

\* Every variable holds a value of its kind, and no bound is exceeded.
TypeOK ==
    /\ clock \in 0..MaxClock
    /\ up \in BOOLEAN
    /\ head \in Seq(Content)
    /\ pc \in [Threads -> {"idle", "stamped", "inserting"}]
    /\ built \in [Threads -> Content]
    /\ prevRead \in [Threads -> Seq(Content)]
    /\ table \subseteq Row
    /\ limbo \subseteq Row
    /\ calls \in 0..MaxCalls /\ raises \in 0..MaxRaises /\ crashes \in 0..MaxCrashes

\* A table nobody tampered with verifies clean, whatever the threads, the lost
\* acknowledgements, the late commits and the restarts did: record() advances
\* the head only after a successful insert (audit.py:105).
UntamperedVerifiesClean == VerifiesClean(Stored)

Chained == Hashed(Stored)

Successors(r) == {s \in Chained : s.prev = r.hash}

\* verify_tier misses a deletion exactly when the deleted rows take all their
\* successors with them: a tail of the chain, or whole branches of a fork.
DeletionsDetected ==
    \A D \in SUBSET Chained :
        VerifiesClean([r \in table \ D |-> r]) <=> \A r \in D : Successors(r) \subseteq D

\* verify_tier reports a row whose content was edited under its stored hash;
\* and, when another row continues it, also an edit that recomputes the hash
\* and a hash that was blanked to pass for a legacy row.
EditsDetected ==
    \A r \in Chained : \A c \in Content \ {r.content} :
        /\ ~VerifiesClean([Stored EXCEPT ![r].content = c])
        /\ Successors(r) # {} =>
              /\ ~VerifiesClean([Stored EXCEPT ![r] = Link(r.prev, c)])
              /\ ~VerifiesClean([Stored EXCEPT ![r] = Unhashed(r.content)])

\* The chain is a line: no two rows continue the same row.
NoFork == \A r, s \in Chained : r.prev = s.prev => r = s

\* Every branch of the chain has a fault to answer for it: one for an insert
\* that raised, or one for a crash, and none for the threads that call record()
\* at the same time (the lock of audit.py:95).
ForksAccounted == Cardinality({r \in Chained : Successors(r) = {}}) <= 1 + raises + crashes

----------------------------------------------------------------------------
(* The trail implements the abstract log: whatever fails, a row that lands *)
(* continues a row that is stored, and no row is ever lost or replaced.    *)

Log == INSTANCE AuditLog WITH rows <- table, Contents <- Content, Legacy <- LegacyRows

ImplementsLog == Log!Spec
=============================================================================
