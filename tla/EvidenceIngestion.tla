------------------------- MODULE EvidenceIngestion -------------------------
(***************************************************************************)
(* Evidence records in ssdf.audit: the sinks of the MCP servers that write *)
(* them, the database's window of deduplication tokens (migration 016),    *)
(* verify_evidence_contract.py, which tries the protocol out on the live   *)
(* table, and verify_audit.py, which checks one chain per writer.          *)
(*                                                                         *)
(* The sink (mecmcp-audit) is another repository's program: its actions    *)
(* are the protocol of docs/audit-evidence-ingestion.md.  It keeps the     *)
(* segments it could not deliver on disk, and starts a new run whenever it *)
(* is started.  An insert that times out may commit at any later time, or  *)
(* never.                                                                  *)
(***************************************************************************)
EXTENDS AuditVerify, FiniteSets

CONSTANTS
    Servers,        \* the server_id of each sink, one process each
    Script,         \* the server_id the contract script writes under
    Earlier,        \* rows of other tiers, already stored
    None,           \* high_water's answer when nothing has landed
    MaxRuns,        \* bound, per sink: its runs
    MaxSegments,    \* bound, per sink: the segments of a run
    MaxTimeouts     \* bound: inserts with an unknown outcome

ASSUME EvidenceAssumption ==
    /\ MaxRuns \in [Servers -> Nat \ {0}] /\ MaxSegments \in [Servers -> Nat \ {0}]
    /\ MaxTimeouts \in Nat
    /\ Script \notin Servers /\ "" \notin Servers   \* a sink names itself
    /\ \A row \in Earlier : row.content.tier # "evidence"
    /\ None \notin Nat

VARIABLES
    windowed,   \* has migration 016 been applied?
    table,      \* the physical rows of ssdf.audit: a row and which copy of it
    tokens,     \* the deduplication tokens the database has seen
    limbo,      \* inserts that timed out and may still commit
    stage,      \* per sink: "down", "replay" (starting), "up"
    run, seq,   \* per sink: its run, and the next segment's number
    head,       \* per sink, when up: the hash its next segment continues
    spool,      \* per sink, on disk: the segments not known to have landed
    mark,       \* per sink: the high-water mark it holds, and of which run
    step,       \* the contract script: the step it is at, or its verdict
    timeouts

database == <<windowed, table, tokens, limbo>>
sinks == <<stage, run, seq, head, spool, mark>>
vars == <<database, sinks, step, timeouts>>

----------------------------------------------------------------------------
(* The database.                                                           *)

Physical == [p \in table |-> p.row]

RowsOf(s) ==
    {p.row : p \in {q \in table : q.row.content.tier = "evidence" /\ q.row.content.server = s}}

\* Identifiers are length-prefixed, so a token determines its three fields.
DedupToken(row) == <<row.content.server, row.content.run, row.content.seq>>

CopiesOf(row) == Cardinality({p \in table : p.row = row})

\* A block whose token is in the window is acknowledged and dropped.
Commit(row) ==
    /\ tokens' = tokens \cup {DedupToken(row)}
    /\ table' = IF windowed /\ DedupToken(row) \in tokens
                THEN table
                ELSE table \cup {[row |-> row, copy |-> CopiesOf(row) + 1]}

\* A bug: max() alone, which is 0 over no rows.
HighWaterOfMax(s, r) ==
    LET landed == {row.content.seq : row \in {q \in RowsOf(s) : q.content.run = r}} \cup {0}
    IN  CHOOSE n \in landed : \A m \in landed : m <= n

\* high_water: count() tells "nothing landed" from "segment 0 landed".
HighWater(s, r) ==
    LET landed == {row.content.seq : row \in {q \in RowsOf(s) : q.content.run = r}}
    IN  IF landed = {} THEN None ELSE CHOOSE n \in landed : \A m \in landed : m <= n

Above(n, high) == high # None => n > high

\* The rows of s that no row of s continues, by their hash.
Tails(s) == {r.hash : r \in RowsOf(s)} \ {r.prev : r \in RowsOf(s)}

----------------------------------------------------------------------------
(* A sink.                                                                 *)

Segment(s, r, n) ==
    [tier |-> "evidence", server |-> s, run |-> r, seq |-> n, error |-> ""]

Unread == [run |-> 0, high |-> None]

Init ==
    /\ windowed \in BOOLEAN
    /\ table = {[row |-> r, copy |-> 1] : r \in Earlier}
    /\ tokens = {} /\ limbo = {}
    /\ stage = [s \in Servers |-> "down"]
    /\ run = [s \in Servers |-> 0]
    /\ seq = [s \in Servers |-> 0]
    /\ head = [s \in Servers |-> Genesis]
    /\ spool = [s \in Servers |-> <<>>]
    /\ mark = [s \in Servers |-> Unread]
    /\ step = "start"
    /\ timeouts = 0

Boot(s) ==
    /\ stage[s] = "down" /\ run[s] < MaxRuns[s]
    /\ stage' = [stage EXCEPT ![s] = "replay"]
    /\ run' = [run EXCEPT ![s] = @ + 1]
    /\ seq' = [seq EXCEPT ![s] = 0]
    /\ UNCHANGED <<database, head, spool, mark, step, timeouts>>

\* The high-water mark of the run of the oldest undelivered segment.
ReadMark(s) ==
    /\ stage[s] # "down" /\ spool[s] # <<>>
    /\ LET r == Head(spool[s]).content.run
       IN  /\ mark[s].run # r
           /\ mark' = [mark EXCEPT ![s] = [run |-> r, high |-> HighWater(s, r)]]
    /\ UNCHANGED <<database, stage, run, seq, head, spool, step, timeouts>>

MayDeliver(s) ==
    /\ stage[s] # "down" /\ spool[s] # <<>>
    /\ mark[s].run = Head(spool[s]).content.run

\* The segment is at or below the mark: it landed, and is not sent again.
Skip(s) ==
    /\ MayDeliver(s) /\ ~Above(Head(spool[s]).content.seq, mark[s].high)
    /\ spool' = [spool EXCEPT ![s] = Tail(@)]
    /\ UNCHANGED <<database, stage, run, seq, head, mark, step, timeouts>>

\* A segment above the mark is inserted, and the insert is acknowledged.
Deliver(s) ==
    /\ MayDeliver(s) /\ Above(Head(spool[s]).content.seq, mark[s].high)
    /\ Commit(Head(spool[s]))
    /\ spool' = [spool EXCEPT ![s] = Tail(@)]
    /\ mark' = [mark EXCEPT ![s].high = Head(spool[s]).content.seq]
    /\ UNCHANGED <<windowed, limbo, stage, run, seq, head, step, timeouts>>

\* The insert times out: the mark is read again before the segment is retried.
TimeOut(s) ==
    /\ MayDeliver(s) /\ Above(Head(spool[s]).content.seq, mark[s].high)
    /\ timeouts < MaxTimeouts
    /\ limbo' = limbo \cup {[row |-> Head(spool[s]), request |-> timeouts]}
    /\ mark' = [mark EXCEPT ![s] = Unread]
    /\ timeouts' = timeouts + 1
    /\ UNCHANGED <<windowed, table, tokens, stage, run, seq, head, spool, step>>

LateCommit(late) ==
    /\ limbo' = limbo \ {late}
    /\ Commit(late.row)
    /\ UNCHANGED <<windowed, sinks, step, timeouts>>

\* A bug: the tail is read at boot, before the replay.
SeedAtBoot(s) ==
    /\ stage[s] = "replay"
    /\ Cardinality(Tails(s)) <= 1
    /\ head' = [head EXCEPT ![s] = IF Tails(s) = {} THEN Genesis ELSE CHOOSE h \in Tails(s) : TRUE]
    /\ mark' = [mark EXCEPT ![s] = [run |-> run[s], high |-> None]]
    /\ stage' = [stage EXCEPT ![s] = "up"]
    /\ UNCHANGED <<database, run, seq, spool, step, timeouts>>

\* A bug: every run starts a root of its own.
SeedFresh(s) ==
    /\ stage[s] = "replay" /\ spool[s] = <<>>
    /\ head' = [head EXCEPT ![s] = Genesis]
    /\ mark' = [mark EXCEPT ![s] = [run |-> run[s], high |-> None]]
    /\ stage' = [stage EXCEPT ![s] = "up"]
    /\ UNCHANGED <<database, run, seq, spool, step, timeouts>>

\* The replay is over: the tail is read, and the new run continues it.  Two
\* tails are a fault, and the sink does not start.
Seed(s) ==
    /\ stage[s] = "replay" /\ spool[s] = <<>>
    /\ Cardinality(Tails(s)) <= 1
    /\ head' = [head EXCEPT ![s] = IF Tails(s) = {} THEN Genesis ELSE CHOOSE h \in Tails(s) : TRUE]
    /\ mark' = [mark EXCEPT ![s] = [run |-> run[s], high |-> None]]
    /\ stage' = [stage EXCEPT ![s] = "up"]
    /\ UNCHANGED <<database, run, seq, spool, step, timeouts>>

\* A segment is linked, serialised once and written to the spool.
Record(s) ==
    /\ stage[s] = "up" /\ seq[s] < MaxSegments[s]
    /\ LET row == Link(head[s], Segment(s, run[s], seq[s]))
       IN  /\ spool' = [spool EXCEPT ![s] = Append(@, row)]
           /\ head' = [head EXCEPT ![s] = row.hash]
    /\ seq' = [seq EXCEPT ![s] = @ + 1]
    /\ UNCHANGED <<database, stage, run, mark, step, timeouts>>

\* The process dies.  (The last run does not, so that every run is followed.)
Crash(s) ==
    /\ stage[s] # "down" /\ run[s] < MaxRuns[s]
    /\ stage' = [stage EXCEPT ![s] = "down"]
    /\ head' = [head EXCEPT ![s] = Genesis]
    /\ mark' = [mark EXCEPT ![s] = Unread]
    /\ UNCHANGED <<database, run, seq, spool, step, timeouts>>

----------------------------------------------------------------------------
(* verify_evidence_contract.py: one segment under a server_id and a run of *)
(* its own.                                                                *)

\* compute_evidence_hash: another digest, over ts, principal, tool and args
\* but not error, and with the predecessor last.
EvidenceHash(prev, content) == Append(prev, [args |-> DedupToken([content |-> content])])

ScriptRow ==
    LET content == Segment(Script, 1, 0)
    IN  [content |-> content, prev |-> Genesis, hash |-> EvidenceHash(Genesis, content)]

\* The same segment, with `error` altered so that only its token can match.
ProbeRow == [ScriptRow EXCEPT !.content.error = "token-probe"]

ScriptMoves(from, to) ==
    /\ step = from
    /\ step' = to
    /\ UNCHANGED sinks

ScriptReadsMark ==
    /\ ScriptMoves("start", IF HighWater(Script, 1) = None THEN "insert" ELSE "failed")
    /\ UNCHANGED <<database, timeouts>>

ScriptInserts ==
    /\ ScriptMoves("insert", "replay")
    /\ Commit(ScriptRow)
    /\ UNCHANGED <<windowed, limbo, timeouts>>

\* An insert raises, and the script exits; a timed-out one may still commit.
ScriptInsertRaises ==
    /\ timeouts < MaxTimeouts
    /\ \E at \in {"insert", "probe"} :
         /\ ScriptMoves(at, "failed")
         /\ limbo' = limbo \cup {[row |-> IF at = "insert" THEN ScriptRow ELSE ProbeRow,
                                 request |-> timeouts]}
    /\ timeouts' = timeouts + 1
    /\ UNCHANGED <<windowed, table, tokens>>

\* A read raises: "not 'nothing landed'", and the script exits.
ScriptReadRaises ==
    /\ \E at \in {"start", "replay", "count"} : ScriptMoves(at, "failed")
    /\ UNCHANGED <<database, timeouts>>

ScriptReplays ==
    /\ ScriptMoves("replay", IF HighWater(Script, 1) = None THEN "failed" ELSE "probe")
    /\ UNCHANGED <<database, timeouts>>

\* A bug: the retry asks the mark, as the replay before it did.
ScriptProbesAbove ==
    /\ ScriptMoves("probe", "count")
    /\ IF Above(0, HighWater(Script, 1)) THEN Commit(ProbeRow) ELSE UNCHANGED <<table, tokens>>
    /\ UNCHANGED <<windowed, limbo, timeouts>>

ScriptProbes ==
    /\ ScriptMoves("probe", "count")
    /\ Commit(ProbeRow)
    /\ UNCHANGED <<windowed, limbo, timeouts>>

ScriptCounts ==
    /\ ScriptMoves("count",
          IF Cardinality({p \in table : p.row \in RowsOf(Script)}) = 1
          THEN "passed" ELSE "second row")
    /\ UNCHANGED <<database, timeouts>>

----------------------------------------------------------------------------
SinkNext(s) ==
    \/ Boot(s) \/ ReadMark(s) \/ Skip(s) \/ Deliver(s) \/ TimeOut(s)
    \/ Seed(s) \/ Record(s) \/ Crash(s)

ScriptNext ==
    \/ ScriptReadsMark \/ ScriptInserts \/ ScriptInsertRaises \/ ScriptReadRaises
    \/ ScriptReplays \/ ScriptProbes \/ ScriptCounts

Next ==
    \/ \E s \in Servers : SinkNext(s)
    \/ \E late \in limbo : LateCommit(late)
    \/ ScriptNext

Spec == Init /\ [][Next]_vars

\* A stopped sink is started again, and a started one works its spool off.
\* Nothing is assumed of the requests in limbo, nor that a segment is recorded.
Fairness == \A s \in Servers : WF_vars(Boot(s) \/ ReadMark(s) \/ Skip(s) \/ Deliver(s))

FairSpec == Spec /\ Fairness

----------------------------------------------------------------------------
(* verify_audit.py: one chain per tier and writer.                         *)

GroupKey(row) ==
    <<row.content.tier, IF "server" \in DOMAIN row.content THEN row.content.server ELSE "">>

WriterIssue(T) ==
    {[type |-> "unidentified_writer", row_hash |-> T[i].hash] :
        i \in {j \in DOMAIN T : GroupKey(T[j]) = <<"evidence", "">>}}

Chains(T) == {GroupKey(T[i]) : i \in DOMAIN T}

ChainOf(T, key) == [i \in {j \in DOMAIN T : GroupKey(T[j]) = key} |-> T[i]]

\* What main prints, per chain.
Report(T) == [key \in Chains(T) |-> Issues(ChainOf(T, key)) \cup WriterIssue(ChainOf(T, key))]

----------------------------------------------------------------------------
(* What the protocol promises.                                             *)

\* Whatever timed out, committed late or crashed, the rows of a sink form one
\* line from one root, and two physical rows of it are copies of one segment,
\* which the window prevents and, without it, verify_audit.py reports
\* (docs/audit-evidence-ingestion.md:157-166, 016_audit_insert_dedup.sql).
OneChainPerWriter ==
    \A s \in Servers :
        /\ \A a, b \in RowsOf(s) : a.prev = b.prev => a = b
        /\ LET copied == {p \in table : p.row \in RowsOf(s) /\ p.copy > 1}
           IN  /\ windowed => copied = {}
               /\ RowsOf(s) # {} =>
                     {i.row_hash : i \in Report(Physical)[<<"evidence", s>>]}
                        = {p.row.hash : p \in copied}

Later(a, b) ==
    \/ a.content.run > b.content.run
    \/ a.content.run = b.content.run /\ a.content.seq > b.content.seq

\* Rows deleted from a sink's chain, whole runs included, are reported as long
\* as one later row of that sink is kept (verify_audit.py:11-15).
DeletedRunsSeen ==
    \A s \in Servers : \A D \in SUBSET RowsOf(s) :
        (\E kept \in RowsOf(s) \ D : \E r \in D : Later(kept, r)) =>
            Report([p \in {q \in table : q.row \notin D} |-> p.row])[<<"evidence", s>>] # {}

\* The script passes on a table with the deduplication window and fails on one
\* without, whatever the sinks write to it meanwhile.
VerdictIsTheWindow ==
    /\ step = "passed" => windowed
    /\ step = "second row" => ~windowed

\* Every segment a sink wrote to its spool lands, under restarts and timeouts.
SegmentsLand ==
    \A s \in Servers : \A c \in {Segment(s, r, n) : r \in 1..MaxRuns[s], n \in 0..(MaxSegments[s] - 1)} :
        (\E i \in DOMAIN spool[s] : spool[s][i].content = c)
            ~> (\E row \in RowsOf(s) : row.content = c)
=============================================================================
