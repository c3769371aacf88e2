---------------------- MODULE EvidenceIngestion_proofs ----------------------
(***************************************************************************)
(* Proofs about EvidenceIngestion, however many sinks write to the table,  *)
(* are restarted, time out and commit late: the contract script's verdict  *)
(* tells whether the database deduplicates, the rows of a sink are one     *)
(* chain, and verify_audit.py reports its copies and its deletions.        *)
(***************************************************************************)
EXTENDS EvidenceIngestion, FiniteSetTheorems, SequenceTheorems, TLAPS

(* A row of a sink.                                                        *)
OfSink(row) == row.content.server \in Servers

(* The physical rows of the script.                                        *)
ScriptTable == {p \in table : p.row \in RowsOf(Script)}

First == [row |-> ScriptRow, copy |-> 1]
Second == [row |-> ProbeRow, copy |-> 1]

(* A sink's rows bear its name, on its disk and on their way.              *)
SinkInv ==
    /\ stage \in [Servers -> {"down", "replay", "up"}]
    /\ spool = [s \in Servers |-> spool[s]]
    /\ \A s \in Servers : \E S : spool[s] \in Seq(S) /\ \A row \in S : row.content.server = s

(* What the script has stored, step by step; a request of its own is in    *)
(* limbo only when it has failed.                                          *)
ScriptInv ==
    /\ \A p \in table : p = [row |-> p.row, copy |-> p.copy]
    /\ step # "failed" => \A late \in limbo : OfSink(late.row)
    /\ step \in {"start", "insert"} =>
          ScriptTable = {} /\ \A token \in tokens : token[1] # Script
    /\ step \in {"replay", "probe"} =>
          ScriptTable = {First} /\ DedupToken(ScriptRow) \in tokens
    /\ step \in {"count", "passed", "second row"} =>
          ScriptTable = IF windowed THEN {First} ELSE {First, Second}
    /\ VerdictIsTheWindow

Verdict == SinkInv /\ ScriptInv

LEMMA ScriptRows ==
    /\ ScriptRow.content.server = Script /\ ProbeRow.content.server = Script
    /\ ScriptRow.content.tier = "evidence" /\ ProbeRow.content.tier = "evidence"
    /\ DedupToken(ProbeRow) = DedupToken(ScriptRow) /\ DedupToken(ScriptRow)[1] = Script
    /\ ProbeRow # ScriptRow /\ First # Second
<1>1. /\ ScriptRow.content = Segment(Script, 1, 0)
      /\ ProbeRow.content = [Segment(Script, 1, 0) EXCEPT !.error = "token-probe"]
  <2> DEFINE segment == Segment(Script, 1, 0)
             hash == EvidenceHash(Genesis, segment)
  <2>1. ScriptRow = [content |-> segment, prev |-> Genesis, hash |-> hash]
    BY DEF ScriptRow
  <2> HIDE DEF segment, hash
  <2>2. ScriptRow.content = segment
    BY <2>1
  <2>3. ProbeRow.content = [segment EXCEPT !.error = "token-probe"]
    BY <2>1 DEF ProbeRow
  <2>4. QED
    BY <2>2, <2>3 DEF segment
<1>2. /\ ScriptRow.content.error = "" /\ ProbeRow.content.error = "token-probe"
      /\ ScriptRow.content.server = Script /\ ProbeRow.content.server = Script
      /\ ScriptRow.content.tier = "evidence" /\ ProbeRow.content.tier = "evidence"
      /\ ScriptRow.content.run = ProbeRow.content.run /\ ScriptRow.content.seq = ProbeRow.content.seq
  <2> DEFINE segment == Segment(Script, 1, 0)
             probe == [segment EXCEPT !.error = "token-probe"]
  <2>1. segment.error = "" /\ segment.server = Script /\ segment.tier = "evidence"
    BY DEF Segment
  <2>2. /\ probe.error = "token-probe" /\ probe.server = Script /\ probe.tier = "evidence"
        /\ probe.run = segment.run /\ probe.seq = segment.seq
    BY DEF Segment
  <2> HIDE DEF segment, probe
  <2>3. ScriptRow.content = segment /\ ProbeRow.content = probe
    BY <1>1 DEF segment, probe
  <2>4. QED
    BY <2>1, <2>2, <2>3
<1>3. ProbeRow # ScriptRow
  BY <1>2
<1>4. First # Second
  BY <1>3 DEF First, Second
<1>5. QED
  BY <1>2, <1>3, <1>4 DEF DedupToken

LEMMA VerdictInit == Init => Verdict
<1> SUFFICES ASSUME Init PROVE Verdict
  OBVIOUS
<1>1. SinkInv
  <2>1. <<>> \in Seq({})
    OBVIOUS
  <2>2. QED
    BY <2>1 DEF Init, SinkInv
<1>2. ScriptTable = {}
  <2>1. \A row \in Earlier : row.content.tier # "evidence"
    BY EvidenceAssumption
  <2>2. QED
    BY <2>1 DEF Init, ScriptTable, RowsOf
<1>3. QED
  BY <1>1, <1>2 DEF Init, Verdict, ScriptInv, VerdictIsTheWindow

(* What a commit of someone else's row changes is nothing to the script.   *)
LEMMA SinkCommits ==
    ASSUME NEW row, OfSink(row), Commit(row)
    PROVE  /\ ScriptTable' = ScriptTable
           /\ tokens \subseteq tokens'
           /\ \A token \in tokens' : token \in tokens \/ token[1] # Script
           /\ (\A p \in table : p = [row |-> p.row, copy |-> p.copy])
                => \A p \in table' : p = [row |-> p.row, copy |-> p.copy]
<1>1. row.content.server # Script
  BY EvidenceAssumption DEF OfSink
<1>2. table' \in {table, table \cup {[row |-> row, copy |-> CopiesOf(row) + 1]}}
  BY DEF Commit
<1>3. ScriptTable' = ScriptTable
  BY <1>1, <1>2 DEF ScriptTable, RowsOf
<1>4. tokens' = tokens \cup {DedupToken(row)} /\ DedupToken(row)[1] # Script
  BY <1>1 DEF Commit, DedupToken
<1>5. QED
  BY <1>2, <1>3, <1>4

(* A step of the sinks alone.                                              *)
LEMMA VerdictElsewhere ==
    ASSUME Verdict, SinkInv', UNCHANGED <<database, step>>
    PROVE  Verdict'
BY DEF Verdict, ScriptInv, VerdictIsTheWindow, ScriptTable, RowsOf, database, OfSink,
       ScriptRow, First, Second, DedupToken

(* A commit for a sink, by its insert or later.                            *)
LEMMA VerdictCommit ==
    ASSUME Verdict, SinkInv', UNCHANGED <<windowed, step>>, NEW row, OfSink(row), Commit(row),
           limbo' \subseteq limbo
    PROVE  Verdict'
<1>1. /\ ScriptTable' = ScriptTable
      /\ tokens \subseteq tokens'
      /\ \A token \in tokens' : token \in tokens \/ token[1] # Script
      /\ \A p \in table' : p = [row |-> p.row, copy |-> p.copy]
  BY SinkCommits DEF Verdict, ScriptInv
<1>2. step' # "failed" => \A late \in limbo' : OfSink(late.row)'
  BY DEF Verdict, ScriptInv, OfSink
<1>3. QED
  BY <1>1, <1>2 DEF Verdict, ScriptInv, VerdictIsTheWindow

(* What is in a spool is of its sink.                                      *)
LEMMA SpoolHead ==
    ASSUME SinkInv, NEW s \in Servers, spool[s] # <<>>
    PROVE  /\ OfSink(Head(spool[s]))
           /\ \E S : Tail(spool[s]) \in Seq(S) /\ \A row \in S : row.content.server = s
<1>1. PICK S : spool[s] \in Seq(S) /\ \A row \in S : row.content.server = s
  BY DEF SinkInv
<1>2. Head(spool[s]) \in S /\ Tail(spool[s]) \in Seq(S)
  BY <1>1, HeadTailProperties
<1>3. QED
  BY <1>1, <1>2 DEF OfSink

LEMMA VerdictSink == ASSUME Verdict, NEW s \in Servers, SinkNext(s) PROVE Verdict'
<1>0. SinkInv
  BY DEF Verdict
<1>1. CASE Boot(s) \/ ReadMark(s) \/ Seed(s) \/ Crash(s)
  <2>1. spool' = spool /\ stage' \in [Servers -> {"down", "replay", "up"}]
    BY <1>0, <1>1 DEF Boot, ReadMark, Seed, Crash, SinkInv
  <2>2. SinkInv'
    BY <1>0, <2>1 DEF SinkInv
  <2>3. QED
    BY <1>1, <2>2, VerdictElsewhere DEF Boot, ReadMark, Seed, Crash
<1>2. ASSUME stage' = stage, spool' = [spool EXCEPT ![s] = Tail(spool[s])], spool[s] # <<>>
      PROVE  SinkInv'
  <2>1. \E S : Tail(spool[s]) \in Seq(S) /\ \A row \in S : row.content.server = s
    BY <1>0, <1>2, SpoolHead
  <2>2. ASSUME NEW t \in Servers
        PROVE  \E S : spool'[t] \in Seq(S) /\ \A row \in S : row.content.server = t
    BY <1>0, <1>2, <2>1 DEF SinkInv
  <2>3. QED
    BY <1>0, <1>2, <2>2 DEF SinkInv
<1>3. CASE Skip(s)
  <2>1. SinkInv'
    BY <1>2, <1>3 DEF Skip, MayDeliver
  <2>2. QED
    BY <1>3, <2>1, VerdictElsewhere DEF Skip
<1>4. CASE Deliver(s)
  <2>1. SinkInv'
    BY <1>2, <1>4 DEF Deliver, MayDeliver
  <2>2. OfSink(Head(spool[s])) /\ Commit(Head(spool[s]))
    BY <1>0, <1>4, SpoolHead DEF Deliver, MayDeliver
  <2>3. QED
    BY <1>4, <2>1, <2>2, VerdictCommit DEF Deliver
<1>5. CASE TimeOut(s)
  <2>1. SinkInv'
    BY <1>0, <1>5 DEF TimeOut, SinkInv
  <2>2. /\ OfSink(Head(spool[s]))
        /\ limbo' = limbo \cup {[row |-> Head(spool[s]), request |-> timeouts]}
    BY <1>0, <1>5, SpoolHead DEF TimeOut, MayDeliver
  <2>3. step' # "failed" => \A late \in limbo' : OfSink(late.row)'
    <3>1. step' = step
      BY <1>5 DEF TimeOut
    <3>2. SUFFICES ASSUME step # "failed", NEW late \in limbo' PROVE OfSink(late.row)
      BY <3>1 DEF OfSink
    <3>3. CASE late \in limbo
      BY <3>2, <3>3 DEF Verdict, ScriptInv
    <3>4. CASE late = [row |-> Head(spool[s]), request |-> timeouts]
      <4>1. late.row = Head(spool[s])
        BY <3>4
      <4>2. QED
        BY <2>2, <4>1
    <3>5. QED
      BY <2>2, <3>3, <3>4
  <2>4. UNCHANGED <<windowed, table, tokens, step>>
    BY <1>5 DEF TimeOut
  <2>5. ScriptTable' = ScriptTable
    BY <2>4 DEF ScriptTable, RowsOf
  <2>6. QED
    BY <2>1, <2>3, <2>4, <2>5 DEF Verdict, ScriptInv, VerdictIsTheWindow
<1>6. CASE Record(s)
  <2> DEFINE row == Link(head[s], Segment(s, run[s], seq[s]))
  <2>1. stage' = stage /\ spool' = [spool EXCEPT ![s] = Append(spool[s], row)]
    BY <1>6 DEF Record
  <2>2. row.content.server = s
    BY DEF Link, Segment
  <2> HIDE DEF row
  <2>3. \E S : Append(spool[s], row) \in Seq(S) /\ \A r \in S : r.content.server = s
    <3>1. PICK S : spool[s] \in Seq(S) /\ \A r \in S : r.content.server = s
      BY <1>0 DEF SinkInv
    <3>2. Append(spool[s], row) \in Seq(S \cup {row})
      BY <3>1
    <3>3. \A r \in S \cup {row} : r.content.server = s
      BY <2>2, <3>1
    <3>4. QED
      BY <3>2, <3>3
  <2>4. ASSUME NEW t \in Servers
        PROVE  \E S : spool'[t] \in Seq(S) /\ \A r \in S : r.content.server = t
    BY <1>0, <2>1, <2>3 DEF SinkInv
  <2>5. SinkInv'
    BY <1>0, <2>1, <2>4 DEF SinkInv
  <2>6. QED
    BY <1>6, <2>5, VerdictElsewhere DEF Record
<1>7. QED
  BY <1>1, <1>3, <1>4, <1>5, <1>6 DEF SinkNext

(* A request in limbo is a sink's, or the script has failed.               *)
LEMMA VerdictLate == ASSUME Verdict, NEW late \in limbo, LateCommit(late) PROVE Verdict'
<1>1. /\ UNCHANGED <<windowed, stage, spool, step>> /\ limbo' = limbo \ {late} /\ Commit(late.row)
  BY DEF LateCommit, sinks
<1>2. SinkInv'
  BY <1>1 DEF Verdict, SinkInv
<1>3. CASE step # "failed"
  BY <1>1, <1>2, <1>3, VerdictCommit DEF Verdict, ScriptInv
<1>4. CASE step = "failed"
  <2>1. \A p \in table' : p = [row |-> p.row, copy |-> p.copy]
    <3>1. \A p \in table : p = [row |-> p.row, copy |-> p.copy]
      BY DEF Verdict, ScriptInv
    <3> DEFINE new == [row |-> late.row, copy |-> CopiesOf(late.row) + 1]
    <3>2. new = [row |-> new.row, copy |-> new.copy]
      OBVIOUS
    <3>3. table' \in {table, table \cup {new}}
      BY <1>1 DEF Commit
    <3> HIDE DEF new
    <3>4. QED
      BY <3>1, <3>2, <3>3
  <2>2. QED
    BY <1>1, <1>2, <1>4, <2>1 DEF Verdict, ScriptInv, VerdictIsTheWindow
<1>5. QED
  BY <1>3, <1>4

LEMMA VerdictScript == Verdict /\ ScriptNext => Verdict'
<1> SUFFICES ASSUME Verdict, ScriptNext PROVE Verdict'
  OBVIOUS
<1>1. SinkInv' /\ windowed' = windowed
  BY DEF ScriptNext, ScriptReadsMark, ScriptInserts, ScriptInsertRaises, ScriptReadRaises,
         ScriptReplays, ScriptProbes, ScriptCounts, ScriptMoves, sinks, database, Verdict, SinkInv
<1>2. CASE ScriptReadsMark \/ ScriptReplays
  <2>1. UNCHANGED <<table, tokens, limbo>> /\ step # "failed"
    BY <1>2 DEF ScriptReadsMark, ScriptReplays, ScriptMoves, database
  <2>2. ScriptTable' = ScriptTable
    BY <2>1 DEF ScriptTable, RowsOf
  <2>3. \/ step = "start" /\ step' \in {"insert", "failed"}
        \/ step = "replay" /\ step' \in {"probe", "failed"}
    BY <1>2 DEF ScriptReadsMark, ScriptReplays, ScriptMoves
  <2>4. QED
    BY <1>1, <2>1, <2>2, <2>3 DEF Verdict, ScriptInv, VerdictIsTheWindow, OfSink
<1>3. CASE ScriptInsertRaises \/ ScriptReadRaises
  <2>1. table' = table /\ step' = "failed"
    BY <1>3 DEF ScriptInsertRaises, ScriptReadRaises, ScriptMoves, database
  <2>2. QED
    BY <1>1, <2>1 DEF Verdict, ScriptInv, VerdictIsTheWindow
<1>4. ASSUME NEW row, row.content.tier = "evidence", row.content.server = Script,
             Commit(row), \A p \in ScriptTable : p.row # row
      PROVE  LET new == [row |-> row, copy |-> 1]
             IN  /\ table' = IF windowed /\ DedupToken(row) \in tokens THEN table ELSE table \cup {new}
                 /\ \A p \in table' : p = [row |-> p.row, copy |-> p.copy]
                 /\ ScriptTable' = IF windowed /\ DedupToken(row) \in tokens
                                   THEN ScriptTable ELSE ScriptTable \cup {new}
  <2> DEFINE new == [row |-> row, copy |-> 1]
  <2>1. {p \in table : p.row = row} = {}
    BY <1>4 DEF ScriptTable, RowsOf
  <2>2. CopiesOf(row) = 0
    BY <2>1, FS_EmptySet DEF CopiesOf
  <2>3. table' = IF windowed /\ DedupToken(row) \in tokens THEN table ELSE table \cup {new}
    BY <1>4, <2>2 DEF Commit
  <2>4. new.row = row /\ new = [row |-> new.row, copy |-> new.copy]
    OBVIOUS
  <2> HIDE DEF new
  <2>5. \A p \in table' : p = [row |-> p.row, copy |-> p.copy]
    BY <2>3, <2>4 DEF Verdict, ScriptInv
  <2>6. ScriptTable' = IF windowed /\ DedupToken(row) \in tokens
                       THEN ScriptTable ELSE ScriptTable \cup {new}
    BY <1>4, <2>3, <2>4 DEF ScriptTable, RowsOf
  <2>7. QED
    BY <2>3, <2>5, <2>6 DEF new
<1>5. CASE ScriptInserts
  <2>1. step = "insert" /\ step' = "replay" /\ Commit(ScriptRow) /\ limbo' = limbo
    BY <1>5 DEF ScriptInserts, ScriptMoves
  <2>2. ScriptTable = {} /\ DedupToken(ScriptRow) \notin tokens
    BY <2>1, ScriptRows DEF Verdict, ScriptInv
  <2>3. ScriptTable' = {First} /\ \A p \in table' : p = [row |-> p.row, copy |-> p.copy]
    BY <1>4, <2>1, <2>2, ScriptRows DEF First
  <2>4. DedupToken(ScriptRow) \in tokens'
    BY <2>1 DEF Commit
  <2>5. DedupToken(ScriptRow)' = DedupToken(ScriptRow) /\ First' = First
    BY DEF DedupToken, ScriptRow, First
  <2>6. QED
    BY <1>1, <2>1, <2>3, <2>4, <2>5 DEF Verdict, ScriptInv, VerdictIsTheWindow, OfSink
<1>6. CASE ScriptProbes
  <2>1. step = "probe" /\ step' = "count" /\ Commit(ProbeRow) /\ limbo' = limbo
    BY <1>6 DEF ScriptProbes, ScriptMoves
  <2>2. ScriptTable = {First} /\ DedupToken(ProbeRow) \in tokens
    BY <2>1, ScriptRows DEF Verdict, ScriptInv
  <2>3. First.row = ScriptRow
    BY DEF First
  <2>4. /\ ScriptTable' = IF windowed THEN {First} ELSE {First, Second}
        /\ \A p \in table' : p = [row |-> p.row, copy |-> p.copy]
    BY <1>4, <2>1, <2>2, <2>3, ScriptRows DEF Second
  <2>5. QED
    BY <1>1, <2>1, <2>4 DEF Verdict, ScriptInv, VerdictIsTheWindow, OfSink
<1>7. CASE ScriptCounts
  <2>1. /\ UNCHANGED <<table, limbo>> /\ step = "count"
        /\ step' = IF Cardinality(ScriptTable) = 1 THEN "passed" ELSE "second row"
    BY <1>7 DEF ScriptCounts, ScriptMoves, database, ScriptTable
  <2>2. ScriptTable = IF windowed THEN {First} ELSE {First, Second}
    BY <2>1 DEF Verdict, ScriptInv
  <2>3. windowed => Cardinality(ScriptTable) = 1
    BY <2>2, FS_Singleton
  <2>4. ~windowed => Cardinality(ScriptTable) # 1
    <3>1. ~\E x : {First, Second} = {x}
      BY ScriptRows
    <3>2. IsFiniteSet({First, Second})
      <4>1. IsFiniteSet({First}) /\ {First, Second} = {First} \cup {Second}
        BY FS_Singleton
      <4>2. IsFiniteSet({First} \cup {Second})
        BY <4>1, FS_AddElement
      <4>3. QED
        BY <4>1, <4>2
    <3>3. QED
      BY <2>2, <3>1, <3>2, FS_Singleton
  <2>5. ScriptTable' = ScriptTable
    BY <2>1 DEF ScriptTable, RowsOf
  <2>6. QED
    BY <1>1, <2>1, <2>2, <2>3, <2>4, <2>5 DEF Verdict, ScriptInv, VerdictIsTheWindow, OfSink
<1>8. QED
  BY <1>2, <1>3, <1>5, <1>6, <1>7 DEF ScriptNext

LEMMA VerdictNext == Verdict /\ [Next]_vars => Verdict'
<1>1. ASSUME Verdict, UNCHANGED vars PROVE Verdict'
  <2>1. UNCHANGED <<database, stage, spool, step>>
    BY <1>1 DEF vars, sinks
  <2>2. SinkInv'
    BY <1>1, <2>1 DEF Verdict, SinkInv
  <2>3. QED
    BY <1>1, <2>1, <2>2, VerdictElsewhere
<1>2. QED
  BY <1>1, VerdictSink, VerdictLate, VerdictScript DEF Next

(* The contract script passes only on a table with the window of           *)
(* deduplication tokens, and sees a second row only on one without, while  *)
(* any number of sinks write to it (verify_evidence_contract.py:108-359).  *)
THEOREM VerdictSound == Spec => []VerdictIsTheWindow
<1>1. Verdict => VerdictIsTheWindow
  BY DEF Verdict, ScriptInv
<1>2. QED
  BY <1>1, VerdictInit, VerdictNext, PTL DEF Spec

----------------------------------------------------------------------------
(***************************************************************************)
(* The chains of the sinks.  What a sink ever recorded is one sequence of  *)
(* segments, `full`, in the order of their runs and numbers; its i-th row  *)
(* continues the i-1 before it.  The first `landed` rows of it are stored, *)
(* all but the first `base` are in the spool, and at most one of these has *)
(* landed: the one whose insert timed out and committed all the same.      *)
(***************************************************************************)

Segments(s) == [tier : {"evidence"}, server : {s}, run : Nat, seq : Nat, error : {""}]

RowAt(full, i) == Link(SubSeq(full, 1, i - 1), full[i])

Before(a, b) == a.run < b.run \/ (a.run = b.run /\ a.seq < b.seq)

Line(s, full) ==
    /\ full \in Seq(Segments(s))
    /\ \A i, j \in 1..Len(full) : i < j => Before(full[i], full[j])

(* The sink's own idea of its line: where it is, once started.             *)
Started(s, full) ==
    /\ \A i \in 1..Len(full) : full[i].run <= run[s]
    /\ stage[s] = "replay" => \A i \in 1..Len(full) : full[i].run < run[s]
    /\ stage[s] = "up" =>
          /\ head[s] = full
          /\ \A i \in 1..Len(full) : full[i].run = run[s] => full[i].seq < seq[s]

StoredTo(s, full, landed) ==
    /\ RowsOf(s) = {RowAt(full, i) : i \in 1..landed}
    /\ {token \in tokens : token[1] = s} = {DedupToken(RowAt(full, i)) : i \in 1..landed}

(* What a line holds beyond its first `base` segments.                     *)
Queue(full, base) == [i \in 1..(Len(full) - base) |-> RowAt(full, base + i)]

(* Only the oldest waiting segment, or an older one, is ever in limbo.     *)
Waiting(s, full, base) ==
    /\ spool[s] = Queue(full, base)
    /\ \A late \in limbo : late.row.content.server = s =>
          \E i \in 1..Len(full) : i <= base + 1 /\ late.row = RowAt(full, i)

(* A mark the sink holds is the number of a segment that has landed.       *)
Marked(s, full, landed) ==
    mark[s].high # None =>
        \E i \in 1..landed : full[i].run = mark[s].run /\ full[i].seq = mark[s].high

Recorded(s, full, base, landed) ==
    /\ base <= landed /\ landed <= base + 1 /\ landed <= Len(full)
    /\ Line(s, full) /\ Started(s, full) /\ StoredTo(s, full, landed)
    /\ Waiting(s, full, base) /\ Marked(s, full, landed)

LineInv ==
    \A s \in Servers : \E full \in Seq(Segments(s)), base \in Nat, landed \in Nat :
        Recorded(s, full, base, landed)

(* The variables of the sinks, and whose the requests in limbo are.        *)
SinksInv ==
    /\ run \in [Servers -> Nat] /\ seq \in [Servers -> Nat]
    /\ head = [s \in Servers |-> head[s]]
    /\ mark \in [Servers -> [run : Nat, high : Nat \cup {None}]]
    /\ \A late \in limbo :
          /\ late.row.content.tier = "evidence" /\ "server" \in DOMAIN late.row.content
          /\ late.row.content.server \in Servers \cup {Script}

(* The copies of a row are numbered, and a sink has but one of each when   *)
(* the window is there.                                                    *)
CopiesInv ==
    /\ \A row : IsFiniteSet({p \in table : p.row = row})
    /\ \A p \in table :
          /\ p.copy \in Nat \ {0}
          /\ p.copy > 1 => \E q \in table : q.row = p.row /\ q.copy = 1
          /\ p.row.content.tier = "evidence" => "server" \in DOMAIN p.row.content
          /\ windowed /\ p.row.content.tier = "evidence" /\ p.row.content.server \in Servers
                => p.copy = 1

ChainsInv == Verdict /\ SinksInv /\ LineInv /\ CopiesInv

----------------------------------------------------------------------------
(* A row of a line, and what tells it from the others.                     *)

LEMMA RowFields ==
    ASSUME NEW S, NEW full \in Seq(S), NEW i \in 1..Len(full)
    PROVE  /\ RowAt(full, i) = [content |-> full[i], prev |-> SubSeq(full, 1, i - 1),
                                hash |-> SubSeq(full, 1, i)]
           /\ RowAt(full, i).content = full[i]
           /\ RowAt(full, i).prev = SubSeq(full, 1, i - 1)
           /\ RowAt(full, i).hash = SubSeq(full, 1, i)
           /\ RowAt(full, i).hash = Append(RowAt(full, i).prev, RowAt(full, i).content)
           /\ Len(RowAt(full, i).prev) = i - 1 /\ Len(RowAt(full, i).hash) = i
           /\ full[i] \in S
<1>1. Len(full) \in Nat /\ full[i] \in S /\ \A j \in 1..Len(full) : full[j] \in S
  BY LenProperties, ElementOfSeq
<1>2. /\ SubSeq(full, 1, i - 1) \in Seq(S) /\ Len(SubSeq(full, 1, i - 1)) = i - 1
      /\ \A j \in 1..(i - 1) : SubSeq(full, 1, i - 1)[j] = full[j]
  BY <1>1, SubSeqProperties, \A j \in 1..(i - 1) : full[j] \in S
<1>3. /\ SubSeq(full, 1, i) \in Seq(S) /\ Len(SubSeq(full, 1, i)) = i
      /\ \A j \in 1..i : SubSeq(full, 1, i)[j] = full[j]
  BY <1>1, SubSeqProperties, \A j \in 1..i : full[j] \in S
<1> DEFINE prev == SubSeq(full, 1, i - 1)
           hash == SubSeq(full, 1, i)
<1>4. Append(prev, full[i]) = hash
  <2>1. /\ Append(prev, full[i]) \in Seq(S) /\ Len(Append(prev, full[i])) = i
        /\ \A j \in 1..(i - 1) : Append(prev, full[i])[j] = full[j]
        /\ Append(prev, full[i])[i] = full[i]
    <3> HIDE DEF prev
    <3>1. prev \in Seq(S) /\ Len(prev) = i - 1 /\ \A j \in 1..(i - 1) : prev[j] = full[j]
      BY <1>2 DEF prev
    <3>2. QED
      BY <1>1, <3>1, AppendProperties
  <2> HIDE DEF hash, prev
  <2>2. hash \in Seq(S) /\ Len(hash) = i /\ \A j \in 1..i : hash[j] = full[j]
    BY <1>3 DEF hash
  <2> DEFINE longer == Append(prev, full[i])
  <2>3. longer \in Seq(S) /\ Len(longer) = i /\ \A j \in 1..i : longer[j] = hash[j]
    BY <2>1, <2>2
  <2> HIDE DEF longer
  <2>4. longer = hash
    BY <2>2, <2>3, SeqEqual
  <2>5. QED
    BY <2>4 DEF longer
<1>5. RowAt(full, i) = [content |-> full[i], prev |-> prev, hash |-> hash]
  BY <1>4 DEF RowAt, Link, ComputeRowHash
<1> HIDE DEF prev, hash
<1>6. RowAt(full, i).content = full[i] /\ RowAt(full, i).prev = prev /\ RowAt(full, i).hash = hash
  BY <1>5
<1>7. Len(prev) = i - 1 /\ Len(hash) = i
  BY <1>2, <1>3 DEF prev, hash
<1>8. QED
  BY <1>1, <1>4, <1>5, <1>6, <1>7 DEF prev, hash

LEMMA RowsDiffer ==
    ASSUME NEW S, NEW full \in Seq(S), NEW i \in 1..Len(full), NEW j \in 1..Len(full),
           \/ RowAt(full, i) = RowAt(full, j)
           \/ RowAt(full, i).prev = RowAt(full, j).prev
           \/ RowAt(full, i).hash = RowAt(full, j).hash
    PROVE  i = j
<1>1. /\ Len(RowAt(full, i).prev) = i - 1 /\ Len(RowAt(full, j).prev) = j - 1
      /\ Len(RowAt(full, i).hash) = i /\ Len(RowAt(full, j).hash) = j
  BY RowFields
<1>2. i \in Int /\ j \in Int
  OBVIOUS
<1>3. QED
  BY <1>1, <1>2

LEMMA RowLinks ==
    ASSUME NEW S, NEW full \in Seq(S), NEW i \in 1..Len(full)
    PROVE  /\ RowAt(full, i).hash # Genesis
           /\ i = 1 => RowAt(full, i).prev = Genesis
           /\ i > 1 => /\ i - 1 \in 1..Len(full) /\ RowAt(full, i).prev # Genesis
                       /\ RowAt(full, i).prev = RowAt(full, i - 1).hash
<1>1. /\ Len(RowAt(full, i).prev) = i - 1 /\ Len(RowAt(full, i).hash) = i
      /\ RowAt(full, i).prev = SubSeq(full, 1, i - 1)
  BY RowFields
<1>2. Len(full) \in Nat /\ i \in Nat /\ i > 0 /\ i <= Len(full)
  BY LenProperties
<1>3. Len(Genesis) = 0
  BY DEF Genesis
<1>4. RowAt(full, i).hash # Genesis /\ (i > 1 => RowAt(full, i).prev # Genesis)
  BY <1>1, <1>2, <1>3
<1>5. i = 1 => RowAt(full, i).prev = Genesis
  <2>1. SubSeq(full, 1, 0) = <<>>
    BY SubSeqEmpty
  <2>2. QED
    BY <1>1, <2>1 DEF Genesis
<1>6. i > 1 => i - 1 \in 1..Len(full)
  BY <1>2
<1>7. i > 1 => RowAt(full, i).prev = RowAt(full, i - 1).hash
  <2>1. ASSUME i > 1 PROVE RowAt(full, i - 1).hash = SubSeq(full, 1, i - 1)
    <3>1. i - 1 \in 1..Len(full)
      BY <1>6, <2>1
    <3>2. QED
      BY <3>1, RowFields
  <2>2. QED
    BY <1>1, <2>1
<1>8. QED
  BY <1>4, <1>5, <1>6, <1>7

(* A line's rows are the same when one more segment is recorded.           *)
LEMMA RowsKept ==
    ASSUME NEW S, NEW full \in Seq(S), NEW c \in S
    PROVE  /\ Append(full, c) \in Seq(S) /\ Len(Append(full, c)) = Len(full) + 1
           /\ \A i \in 1..Len(full) :
                 Append(full, c)[i] = full[i] /\ RowAt(Append(full, c), i) = RowAt(full, i)
           /\ Append(full, c)[Len(full) + 1] = c
           /\ RowAt(Append(full, c), Len(full) + 1) = Link(full, c)
<1> DEFINE more == Append(full, c)
<1>1. /\ more \in Seq(S) /\ Len(more) = Len(full) + 1 /\ more[Len(full) + 1] = c
      /\ \A i \in 1..Len(full) : more[i] = full[i]
      /\ Len(full) \in Nat /\ \A i \in 1..Len(full) : full[i] \in S
  BY AppendProperties, LenProperties, ElementOfSeq
<1> HIDE DEF more
<1>2. ASSUME NEW n \in 0..Len(full) PROVE SubSeq(more, 1, n) = SubSeq(full, 1, n)
  <2>1. /\ SubSeq(full, 1, n) \in Seq(S) /\ Len(SubSeq(full, 1, n)) = n
        /\ \A j \in 1..n : SubSeq(full, 1, n)[j] = full[j]
    BY <1>1, SubSeqProperties, \A j \in 1..n : full[j] \in S
  <2>2. /\ SubSeq(more, 1, n) \in Seq(S) /\ Len(SubSeq(more, 1, n)) = n
        /\ \A j \in 1..n : SubSeq(more, 1, n)[j] = more[j]
    BY <1>1, SubSeqProperties, \A j \in 1..n : more[j] \in S
  <2> DEFINE a == SubSeq(more, 1, n)
             b == SubSeq(full, 1, n)
  <2> HIDE DEF a, b
  <2>3. a \in Seq(S) /\ b \in Seq(S) /\ Len(a) = Len(b) /\ \A j \in 1..Len(a) : a[j] = b[j]
    BY <1>1, <2>1, <2>2 DEF a, b
  <2>4. QED
    BY <2>3, SeqEqual DEF a, b
<1>3. ASSUME NEW i \in 1..Len(full) PROVE RowAt(more, i) = RowAt(full, i)
  <2>1. i - 1 \in 0..Len(full) /\ more[i] = full[i]
    BY <1>1
  <2>2. SubSeq(more, 1, i - 1) = SubSeq(full, 1, i - 1)
    BY <1>2, <2>1
  <2>3. QED
    BY <2>1, <2>2 DEF RowAt
<1>4. RowAt(more, Len(full) + 1) = Link(full, c)
  <2>1. SubSeq(more, 1, Len(full)) = full
    BY <1>1, <1>2, SubSeqFull
  <2>2. (Len(full) + 1) - 1 = Len(full)
    BY <1>1
  <2>3. QED
    BY <1>1, <2>1, <2>2 DEF RowAt
<1>5. /\ more \in Seq(S) /\ Len(more) = Len(full) + 1
      /\ \A i \in 1..Len(full) : more[i] = full[i] /\ RowAt(more, i) = RowAt(full, i)
      /\ more[Len(full) + 1] = c /\ RowAt(more, Len(full) + 1) = Link(full, c)
  BY <1>1, <1>3, <1>4
<1>6. QED
  BY <1>5, Zenon DEF more

(* The token tells the segments of a line apart, as their order does.      *)
LEMMA TokensDiffer ==
    ASSUME NEW s, NEW full, Line(s, full), NEW i \in 1..Len(full), NEW j \in 1..Len(full)
    PROVE  /\ full[i].run \in Nat /\ full[i].seq \in Nat /\ full[i].server = s
           /\ full[i].tier = "evidence" /\ "server" \in DOMAIN full[i]
           /\ DedupToken(RowAt(full, i))[1] = s
           /\ full[i].run = full[j].run /\ full[i].seq = full[j].seq => i = j
           /\ DedupToken(RowAt(full, i)) = DedupToken(RowAt(full, j)) => i = j
           /\ Before(full[i], full[j]) => i < j
<1>1. full \in Seq(Segments(s)) /\ \A k, l \in 1..Len(full) : k < l => Before(full[k], full[l])
  BY DEF Line
<1>2. full[i] \in Segments(s) /\ full[j] \in Segments(s)
  BY <1>1, ElementOfSeq
<1>3. /\ full[i].run \in Nat /\ full[i].seq \in Nat /\ full[i].server = s
      /\ full[j].run \in Nat /\ full[j].seq \in Nat /\ full[j].server = s
      /\ full[i].tier = "evidence" /\ "server" \in DOMAIN full[i]
  BY <1>2 DEF Segments
<1>4. i \in Int /\ j \in Int
  OBVIOUS
<1>5. full[i].run = full[j].run /\ full[i].seq = full[j].seq => i = j
  BY <1>1, <1>3, <1>4 DEF Before
<1>6. Before(full[i], full[j]) => i < j
  BY <1>1, <1>3, <1>4, <1>5 DEF Before
<1>7. /\ DedupToken(RowAt(full, i)) = <<s, full[i].run, full[i].seq>>
      /\ DedupToken(RowAt(full, j)) = <<s, full[j].run, full[j].seq>>
  BY <1>1, <1>3, RowFields DEF DedupToken
<1>8. QED
  BY <1>3, <1>5, <1>6, <1>7

----------------------------------------------------------------------------
(* What a commit does to the rows of a sink, and to the copies.            *)

LEMMA CommitOther ==
    ASSUME NEW s, NEW row, Commit(row), row.content.server # s
    PROVE  /\ RowsOf(s)' = RowsOf(s)
           /\ {token \in tokens' : token[1] = s} = {token \in tokens : token[1] = s}
<1>1. table' \in {table, table \cup {[row |-> row, copy |-> CopiesOf(row) + 1]}}
  BY DEF Commit
<1>2. RowsOf(s)' = RowsOf(s)
  BY <1>1 DEF RowsOf
<1>3. tokens' = tokens \cup {DedupToken(row)} /\ DedupToken(row)[1] # s
  BY DEF Commit, DedupToken
<1>4. QED
  BY <1>2, <1>3

(* A segment that has landed, or the next to land, is committed.           *)
LEMMA CommitOwn ==
    ASSUME NEW s, NEW full, NEW landed \in Nat, Line(s, full), StoredTo(s, full, landed),
           NEW i \in 1..Len(full), i <= landed + 1, landed <= Len(full), Commit(RowAt(full, i))
    PROVE  StoredTo(s, full, IF i <= landed THEN landed ELSE i)'
<1> DEFINE row == RowAt(full, i)
           upTo == IF i <= landed THEN landed ELSE i
           token == DedupToken(row)
<1>1. full \in Seq(Segments(s)) /\ Len(full) \in Nat /\ i \in Nat /\ upTo \in Nat
  BY LenProperties DEF Line
<1>2. row.content.tier = "evidence" /\ row.content.server = s /\ token[1] = s
  <2>1. row.content = full[i]
    BY <1>1, RowFields
  <2>2. QED
    BY <2>1, TokensDiffer
<1>3. 1..upTo = (1..landed) \cup {i}
  BY <1>1
<1>4. (table' = table /\ token \in tokens) \/
      table' = table \cup {[row |-> row, copy |-> CopiesOf(row) + 1]}
  BY DEF Commit
<1>5. token \in tokens => i \in 1..landed
  <2>1. SUFFICES ASSUME token \in tokens PROVE i \in 1..landed
    OBVIOUS
  <2>2. PICK k \in 1..landed : token = DedupToken(RowAt(full, k))
    BY <1>2, <2>1 DEF StoredTo
  <2>3. k \in 1..Len(full)
    BY <1>1
  <2>4. i = k
    BY <2>2, <2>3, TokensDiffer
  <2>5. QED
    BY <2>4
<1>6. RowsOf(s)' = {RowAt(full, k) : k \in 1..upTo}
  <2>1. RowsOf(s) = {RowAt(full, k) : k \in 1..landed}
    BY DEF StoredTo
  <2>2. {RowAt(full, k) : k \in 1..upTo} = {RowAt(full, k) : k \in 1..landed} \cup {row}
    BY <1>3
  <2> HIDE DEF row
  <2>3. CASE table' = table /\ token \in tokens
    <3>1. RowsOf(s)' = RowsOf(s)
      BY <2>3 DEF RowsOf
    <3>2. upTo = landed
      BY <1>1, <1>5, <2>3
    <3>3. QED
      BY <2>1, <3>1, <3>2
  <2>4. CASE table' = table \cup {[row |-> row, copy |-> CopiesOf(row) + 1]}
    <3>1. RowsOf(s)' = RowsOf(s) \cup {row}
      <4> DEFINE new == [row |-> row, copy |-> CopiesOf(row) + 1]
      <4>1. new.row = row /\ table' = table \cup {new}
        BY <2>4
      <4> HIDE DEF new
      <4>2. QED
        BY <1>2, <4>1 DEF RowsOf
    <3>2. QED
      BY <2>1, <2>2, <3>1
  <2>5. QED
    BY <1>4, <2>3, <2>4
<1>7. {k \in tokens' : k[1] = s} = {DedupToken(RowAt(full, k)) : k \in 1..upTo}
  <2>1. {k \in tokens : k[1] = s} = {DedupToken(RowAt(full, k)) : k \in 1..landed}
    BY DEF StoredTo
  <2>2. {DedupToken(RowAt(full, k)) : k \in 1..upTo}
           = {DedupToken(RowAt(full, k)) : k \in 1..landed} \cup {token}
    BY <1>3
  <2>3. tokens' = tokens \cup {token}
    BY DEF Commit
  <2> HIDE DEF token
  <2>4. {k \in tokens' : k[1] = s} = {k \in tokens : k[1] = s} \cup {token}
    BY <1>2, <2>3
  <2>5. QED
    BY <2>1, <2>2, <2>4
<1>8. \A k : DedupToken(RowAt(full, k))' = DedupToken(RowAt(full, k))
  BY DEF DedupToken, RowAt, Link, ComputeRowHash
<1> HIDE DEF upTo
<1>9. StoredTo(s, full, upTo)'
  BY <1>6, <1>7, <1>8 DEF StoredTo, RowAt, DedupToken
<1>10. QED
  BY <1>9 DEF upTo

LEMMA CommitCopies ==
    ASSUME CopiesInv, NEW row, Commit(row), windowed' = windowed,
           row.content.tier = "evidence", "server" \in DOMAIN row.content,
           row.content.server \in Servers =>
               \A p \in table : p.row = row => DedupToken(row) \in tokens
    PROVE  CopiesInv'
<1> DEFINE same == {p \in table : p.row = row}
           new == [row |-> row, copy |-> Cardinality(same) + 1]
<1>1. IsFiniteSet(same) /\ Cardinality(same) \in Nat
  BY FS_CardinalityType DEF CopiesInv
<1>2. same = {} => Cardinality(same) = 0
  BY FS_EmptySet
<1>3. table' = table \/ (table' = table \cup {new} /\ (windowed => DedupToken(row) \notin tokens))
  BY DEF Commit, CopiesOf
<1> DEFINE count == Cardinality(same) + 1
<1>4. count \in Nat \ {0} /\ new.row = row /\ new.copy = count
  BY <1>1
<1>5. count > 1 => \E q \in table : q.row = row /\ q.copy = 1
  <2>1. SUFFICES ASSUME count > 1 PROVE \E q \in table : q.row = row /\ q.copy = 1
    OBVIOUS
  <2>2. same # {}
    BY <1>1, <1>2, <2>1
  <2>3. PICK p \in table : p.row = row
    BY <2>2
  <2>4. p.copy = 1 \/ p.copy > 1
    BY DEF CopiesInv
  <2>5. QED
    BY <2>3, <2>4 DEF CopiesInv
<1>6. windowed /\ row.content.server \in Servers /\ DedupToken(row) \notin tokens => count = 1
  BY <1>2
<1> HIDE DEF new, count, same
<1>7. ASSUME table' = table PROVE CopiesInv'
  BY <1>7 DEF CopiesInv
<1>8. ASSUME table' = table \cup {new}, windowed => DedupToken(row) \notin tokens PROVE CopiesInv'
  <2>1. ASSUME NEW r PROVE IsFiniteSet({p \in table' : p.row = r})
    <3>1. IsFiniteSet({p \in table : p.row = r})
      BY DEF CopiesInv
    <3>2. IsFiniteSet({p \in table : p.row = r} \cup {new})
      BY <3>1, FS_AddElement
    <3>3. {p \in table' : p.row = r} \in {{p \in table : p.row = r}, {p \in table : p.row = r} \cup {new}}
      BY <1>8
    <3>4. QED
      BY <3>1, <3>2, <3>3
  <2>2. ASSUME NEW p \in table'
        PROVE  /\ p.copy \in Nat \ {0}
               /\ p.copy > 1 => \E q \in table' : q.row = p.row /\ q.copy = 1
               /\ p.row.content.tier = "evidence" => "server" \in DOMAIN p.row.content
               /\ windowed' /\ p.row.content.tier = "evidence" /\ p.row.content.server \in Servers
                     => p.copy = 1
    <3>1. CASE p \in table
      BY <1>8, <3>1 DEF CopiesInv
    <3>2. CASE p = new
      BY <1>4, <1>5, <1>6, <1>8, <3>2
    <3>3. QED
      BY <1>8, <3>1, <3>2
  <2>3. QED
    BY <2>1, <2>2 DEF CopiesInv
<1>9. QED
  BY <1>3, <1>7, <1>8

----------------------------------------------------------------------------
(* A step of one writer is nothing to the line of another.                 *)

SinkUntouched(s) ==
    /\ stage'[s] = stage[s] /\ run'[s] = run[s] /\ seq'[s] = seq[s]
    /\ head'[s] = head[s] /\ spool'[s] = spool[s] /\ mark'[s] = mark[s]

RowsUntouched(s) ==
    /\ RowsOf(s)' = RowsOf(s)
    /\ {token \in tokens' : token[1] = s} = {token \in tokens : token[1] = s}

LimboUntouched(s) == \A late \in limbo' : late.row.content.server = s => late \in limbo

LEMMA LineKept ==
    ASSUME NEW s \in Servers, NEW full \in Seq(Segments(s)), NEW base \in Nat, NEW landed \in Nat,
           Recorded(s, full, base, landed),
           SinkUntouched(s), RowsUntouched(s), LimboUntouched(s)
    PROVE  Recorded(s, full, base, landed)'
<1>1. Line(s, full)' = Line(s, full) /\ \A i : RowAt(full, i)' = RowAt(full, i)
  BY DEF Line, Segments, Before, RowAt, Link, ComputeRowHash
<1>2. \A i : DedupToken(RowAt(full, i))' = DedupToken(RowAt(full, i))
  BY DEF DedupToken, RowAt, Link, ComputeRowHash
<1>3. StoredTo(s, full, landed)'
  BY <1>1, <1>2 DEF Recorded, StoredTo, RowsUntouched, RowAt, DedupToken
<1>4. Started(s, full)'
  BY DEF Recorded, Started, SinkUntouched
<1>5. Waiting(s, full, base)'
  BY DEF Recorded, Waiting, SinkUntouched, LimboUntouched, Queue, RowAt
<1>6. Marked(s, full, landed)'
  BY DEF Recorded, Marked, SinkUntouched
<1>7. QED
  BY <1>1, <1>3, <1>4, <1>5, <1>6 DEF Recorded

LEMMA LineOthers ==
    ASSUME LineInv, NEW s,
           \A t \in Servers \ {s} : SinkUntouched(t) /\ RowsUntouched(t) /\ LimboUntouched(t),
           s \in Servers => \E full \in Seq(Segments(s)), base \in Nat, landed \in Nat :
                                Recorded(s, full, base, landed)'
    PROVE  LineInv'
<1>1. ASSUME NEW t \in Servers
      PROVE  \E full \in Seq(Segments(t)), base \in Nat, landed \in Nat :
                 Recorded(t, full, base, landed)'
  <2>1. CASE t = s
    BY <2>1
  <2>2. CASE t # s
    <3>1. PICK full \in Seq(Segments(t)), base \in Nat, landed \in Nat :
              Recorded(t, full, base, landed)
      BY DEF LineInv
    <3>2. Recorded(t, full, base, landed)'
      BY <2>2, <3>1, LineKept
    <3>3. QED
      BY <3>2
  <2>3. QED
    BY <2>1, <2>2
<1>2. QED
  BY <1>1 DEF LineInv, Segments

(* The sinks that do not move: their own variables are as they were.       *)
LEMMA OthersUntouched ==
    ASSUME SinkInv, SinksInv, NEW s \in Servers, SinkNext(s), NEW t \in Servers \ {s}
    PROVE  SinkUntouched(t)
<1>1. /\ stage \in [Servers -> {"down", "replay", "up"}] /\ spool = [u \in Servers |-> spool[u]]
      /\ run \in [Servers -> Nat] /\ seq \in [Servers -> Nat]
      /\ head = [u \in Servers |-> head[u]] /\ mark \in [Servers -> [run : Nat, high : Nat \cup {None}]]
  BY DEF SinkInv, SinksInv
<1>2. CASE Boot(s) \/ Crash(s)
  BY <1>1, <1>2 DEF Boot, Crash, SinkUntouched
<1>3. CASE ReadMark(s)
  <2>1. UNCHANGED <<stage, run, seq, head, spool>> /\ \E m : mark' = [mark EXCEPT ![s] = m]
    BY <1>3 DEF ReadMark
  <2>2. QED
    BY <1>1, <2>1 DEF SinkUntouched
<1>4. CASE Skip(s) \/ Deliver(s) \/ TimeOut(s)
  <2>1. /\ UNCHANGED <<stage, run, seq, head>>
        /\ \E m : mark' \in {mark, [mark EXCEPT ![s] = m]}
        /\ \E q : spool' \in {spool, [spool EXCEPT ![s] = q]}
    BY <1>4 DEF Skip, Deliver, TimeOut
  <2>2. QED
    BY <1>1, <2>1 DEF SinkUntouched
<1>5. CASE Seed(s)
  <2>1. /\ UNCHANGED <<run, seq, spool>> /\ stage' = [stage EXCEPT ![s] = "up"]
        /\ \E m : mark' = [mark EXCEPT ![s] = m]
        /\ \E h : head' = [head EXCEPT ![s] = h]
    BY <1>5 DEF Seed
  <2>2. QED
    BY <1>1, <2>1 DEF SinkUntouched
<1>6. CASE Record(s)
  <2>1. /\ UNCHANGED <<run, stage, mark>> /\ seq' = [seq EXCEPT ![s] = seq[s] + 1]
        /\ \E q : spool' = [spool EXCEPT ![s] = q]
        /\ \E h : head' = [head EXCEPT ![s] = h]
    BY <1>6 DEF Record
  <2>2. QED
    BY <1>1, <2>1 DEF SinkUntouched
<1>7. QED
  BY <1>2, <1>3, <1>4, <1>5, <1>6 DEF SinkNext

----------------------------------------------------------------------------
(* The steps of a sink, each on its own line.                              *)

(* The spool is what the line holds beyond `base`.                         *)
LEMMA SpoolFirst ==
    ASSUME NEW s, NEW full, NEW base \in Nat, Line(s, full), Waiting(s, full, base),
           base <= Len(full)
    PROVE  /\ Len(full) \in Nat
           /\ spool[s] = <<>> => base = Len(full)
           /\ spool[s] # <<>> =>
                 /\ base + 1 \in 1..Len(full)
                 /\ Head(spool[s]) = RowAt(full, base + 1)
                 /\ Head(spool[s]).content = full[base + 1]
                 /\ Tail(spool[s]) = Queue(full, base + 1)
<1> DEFINE n == Len(full) - base
           queue == [i \in 1..n |-> RowAt(full, base + i)]
           rows == {RowAt(full, i) : i \in 1..Len(full)}
<1>1. Len(full) \in Nat /\ full \in Seq(Segments(s)) /\ n \in Nat
  BY LenProperties DEF Line
<1>2. \A i \in 1..n : base + i \in 1..Len(full)
  BY <1>1
<1>3. queue \in Seq(rows) /\ Len(queue) = n /\ spool[s] = queue
  <2>1. spool[s] = queue
    BY DEF Waiting, Queue
  <2>2. queue \in [1..n -> rows]
    BY <1>2
  <2>3. QED
    BY <1>1, <2>1, <2>2
<1>4. spool[s] = <<>> => base = Len(full)
  <2> HIDE DEF queue
  <2>1. Len(<<>>) = 0
    OBVIOUS
  <2>2. spool[s] = <<>> => n = 0
    BY <1>3, <2>1
  <2>3. QED
    BY <1>1, <2>2
<1>5. ASSUME spool[s] # <<>>
      PROVE  /\ base + 1 \in 1..Len(full)
             /\ Head(spool[s]) = RowAt(full, base + 1)
             /\ Tail(spool[s]) = Queue(full, base + 1)
  <2> DEFINE rest == [i \in 1..(Len(full) - (base + 1)) |-> RowAt(full, (base + 1) + i)]
  <2>1. n > 0
    BY <1>1, <1>3, <1>5, EmptySeq
  <2>2. base + 1 \in 1..Len(full) /\ queue[1] = RowAt(full, base + 1)
    BY <1>1, <2>1
  <2>3. rest \in [1..(n - 1) -> rows] /\ n - 1 \in Nat /\ \A i \in 1..(n - 1) : rest[i] = queue[i + 1]
    <3>1. n - 1 = Len(full) - (base + 1) /\ n - 1 \in Nat
      BY <1>1, <2>1
    <3>2. ASSUME NEW i \in 1..(n - 1)
          PROVE  i + 1 \in 1..n /\ (base + 1) + i = base + (i + 1) /\ (base + 1) + i \in 1..Len(full)
      BY <1>1, <2>1
    <3>3. QED
      BY <3>1, <3>2
  <2> HIDE DEF rest, queue, rows, n
  <2>4. rest \in Seq(rows) /\ Len(rest) = n - 1
    BY <2>3
  <2>5. /\ Head(queue) = queue[1] /\ Tail(queue) \in Seq(rows) /\ Len(Tail(queue)) = n - 1
        /\ \A i \in 1..(n - 1) : Tail(queue)[i] = queue[i + 1]
    BY <1>3, <1>5, HeadTailProperties
  <2>6. Tail(queue) = rest
    BY <2>3, <2>4, <2>5, SeqEqual
  <2>7. QED
    BY <1>3, <2>2, <2>5, <2>6 DEF rest, Queue
<1>6. spool[s] # <<>> => RowAt(full, base + 1).content = full[base + 1]
  <2>1. ASSUME spool[s] # <<>> PROVE RowAt(full, base + 1).content = full[base + 1]
    BY <1>1, <1>5, <2>1, RowFields
  <2>2. QED
    BY <2>1
<1>7. QED
  BY <1>1, <1>4, <1>5, <1>6

(* The segment a sink delivers next: the one after the first `base`.       *)
LEMMA OldestWaiting ==
    ASSUME NEW s, NEW full \in Seq(Segments(s)), NEW base \in Nat, NEW landed \in Nat,
           Recorded(s, full, base, landed)
    PROVE  /\ Len(full) \in Nat /\ base <= Len(full)
           /\ spool[s] = <<>> => base = Len(full)
           /\ spool[s] # <<>> =>
                 /\ base + 1 \in 1..Len(full)
                 /\ Head(spool[s]) = RowAt(full, base + 1)
                 /\ Head(spool[s]).content = full[base + 1]
<1>1. Len(full) \in Nat /\ base <= landed /\ landed <= Len(full)
  BY LenProperties DEF Recorded
<1>2. Line(s, full) /\ Waiting(s, full, base) /\ base <= Len(full)
  BY <1>1 DEF Recorded
<1>3. QED
  BY <1>1, <1>2, SpoolFirst

LEMMA Lowest == ASSUME NEW N \in SUBSET Nat, N # {} PROVE \E x \in N : \A y \in N : x <= y
<1>1. PICK x \in N : \A y \in N : ~ (<<y, x>> \in OpToRel(<, Nat))
  BY NatLessThanWellFounded, WFMin
<1>2. \A y \in N : ~ (y < x) /\ x \in Nat /\ y \in Nat
  BY <1>1 DEF OpToRel
<1>3. QED
  BY <1>2

LEMMA Highest ==
    ASSUME NEW N \in SUBSET Nat, NEW n \in Nat, N # {}, \A x \in N : x <= n
    PROVE  \E x \in N : \A y \in N : y <= x
<1> DEFINE gaps == {n - x : x \in N}
<1>1. gaps \in SUBSET Nat /\ gaps # {}
  <2>1. \A x \in N : n - x \in Nat
    OBVIOUS
  <2>2. QED
    BY <2>1
<1>2. PICK g \in gaps : \A h \in gaps : g <= h
  <2> HIDE DEF gaps
  <2>1. QED
    BY <1>1, Lowest
<1>3. PICK x \in N : g = n - x
  OBVIOUS
<1>4. ASSUME NEW y \in N PROVE y <= x
  <2>1. n - x <= n - y /\ x \in Nat /\ y \in Nat
    BY <1>2, <1>3
  <2>2. QED
    BY <2>1
<1>5. QED
  BY <1>4

(* The mark read for a run is that of a segment that has landed.           *)
LEMMA HighestLanded ==
    ASSUME NEW s, NEW full, NEW landed \in Nat, NEW r, Line(s, full), StoredTo(s, full, landed),
           landed <= Len(full)
    PROVE  HighWater(s, r) # None =>
               \E i \in 1..landed : full[i].run = r /\ full[i].seq = HighWater(s, r)
<1> DEFINE seqs == {row.content.seq : row \in {q \in RowsOf(s) : q.content.run = r}}
           top == HighWater(s, r)
<1>1. full \in Seq(Segments(s)) /\ Len(full) \in Nat /\ 1..landed \subseteq 1..Len(full)
  BY LenProperties DEF Line
<1>2. \A i \in 1..landed : RowAt(full, i).content = full[i] /\ full[i].seq \in Nat
  <2>1. ASSUME NEW i \in 1..landed PROVE RowAt(full, i).content = full[i] /\ full[i].seq \in Nat
    <3>1. i \in 1..Len(full)
      BY <1>1
    <3>2. QED
      BY <1>1, <3>1, RowFields, TokensDiffer
  <2>2. QED
    BY <2>1
<1>3. \A n : n \in seqs <=> \E i \in 1..landed : full[i].run = r /\ full[i].seq = n
  BY <1>2 DEF StoredTo
<1>4. ASSUME seqs # {} PROVE top \in seqs
  <2> DEFINE ofRun == {i \in 1..landed : full[i].run = r}
  <2>1. ofRun \in SUBSET Nat /\ \A i \in ofRun : i <= landed
    OBVIOUS
  <2>2. ofRun # {}
    <3>1. PICK m \in seqs : TRUE
      BY <1>4
    <3>2. \E i \in 1..landed : full[i].run = r
      BY <1>3, <3>1
    <3>3. QED
      BY <3>2
  <2>3. \E i \in ofRun : \A j \in ofRun : j <= i
    <3> HIDE DEF ofRun
    <3>1. QED
      BY <2>1, <2>2, Highest
  <2>4. PICK i \in 1..landed : full[i].run = r /\ \A j \in ofRun : j <= i
    BY <2>3
  <2>6. full[i].seq \in seqs
    <3> HIDE DEF seqs
    <3>1. QED
      BY <1>3, <2>4
  <2>7. ASSUME NEW m \in seqs PROVE m <= full[i].seq
    <3>1. PICK j \in 1..landed : full[j].run = r /\ full[j].seq = m
      BY <1>3
    <3>2. j \in ofRun /\ j <= i
      BY <2>4, <3>1
    <3>3. CASE j = i
      BY <1>2, <3>1, <3>3
    <3>4. CASE j < i
      <4>1. j \in 1..Len(full) /\ i \in 1..Len(full)
        BY <1>1
      <4>2. Before(full[j], full[i])
        BY <3>4, <4>1 DEF Line
      <4>3. full[j].run \in Nat /\ full[i].run = full[j].run
        BY <2>4, <3>1, <4>1, TokensDiffer
      <4>4. QED
        BY <1>2, <3>1, <4>2, <4>3 DEF Before
    <3>5. QED
      BY <3>2, <3>3, <3>4
  <2> HIDE DEF seqs
  <2>8. \E n \in seqs : \A m \in seqs : m <= n
    BY <2>6, <2>7
  <2>9. top = CHOOSE n \in seqs : \A m \in seqs : m <= n
    BY <1>4 DEF HighWater, seqs
  <2>10. QED
    BY <2>8, <2>9
<1>5. seqs = {} => top = None
  BY DEF HighWater
<1> HIDE DEF seqs, top
<1>6. top # None => \E i \in 1..landed : full[i].run = r /\ full[i].seq = top
  BY <1>3, <1>4, <1>5
<1>7. QED
  BY <1>6 DEF top

(* What of a line does not depend on the state.                            *)
LEMMA LineFixed ==
    ASSUME NEW s, NEW full
    PROVE  /\ Line(s, full)' = Line(s, full)
           /\ \A i : RowAt(full, i)' = RowAt(full, i)
           /\ \A i : DedupToken(RowAt(full, i))' = DedupToken(RowAt(full, i))
BY DEF Line, Segments, Before, DedupToken, RowAt, Link, ComputeRowHash

LEMMA StoredFixed ==
    ASSUME NEW s, NEW full, NEW landed, StoredTo(s, full, landed), RowsUntouched(s)
    PROVE  StoredTo(s, full, landed)'
BY LineFixed DEF StoredTo, RowsUntouched, RowAt, DedupToken

LEMMA DatabaseFixed ==
    ASSUME UNCHANGED <<table, tokens>>, NEW s PROVE RowsUntouched(s)
BY DEF RowsUntouched, RowsOf

(* A restart begins a run later than those of the line; a crash forgets    *)
(* only what a sink reads again.                                           *)
LEMMA BootLine ==
    ASSUME SinkInv, SinksInv, NEW s \in Servers, Boot(s) \/ Crash(s),
           NEW full \in Seq(Segments(s)), NEW base \in Nat, NEW landed \in Nat,
           Recorded(s, full, base, landed)
    PROVE  Recorded(s, full, base, landed)'
<1>1. /\ UNCHANGED <<spool, limbo, table, tokens>>
      /\ \/ stage'[s] = "replay" /\ run'[s] = run[s] + 1 /\ mark' = mark
         \/ stage'[s] = "down" /\ run'[s] = run[s] /\ mark'[s].high = None
  BY DEF SinkInv, SinksInv, Boot, Crash, database, Unread
<1>2. full \in Seq(Segments(s)) /\ run[s] \in Nat /\ \A i \in 1..Len(full) : full[i].run \in Nat
  BY TokensDiffer DEF Recorded, Line, SinksInv
<1>3. Started(s, full)'
  BY <1>1, <1>2 DEF Recorded, Started
<1>4. StoredTo(s, full, landed)'
  BY <1>1, DatabaseFixed, StoredFixed DEF Recorded
<1>5. Waiting(s, full, base)' /\ Marked(s, full, landed)'
  BY <1>1, LineFixed DEF Recorded, Waiting, Marked, Queue, RowAt
<1>6. QED
  BY <1>3, <1>4, <1>5, LineFixed DEF Recorded

LEMMA ReadMarkLine ==
    ASSUME SinkInv, SinksInv, NEW s \in Servers, ReadMark(s),
           NEW full \in Seq(Segments(s)), NEW base \in Nat, NEW landed \in Nat,
           Recorded(s, full, base, landed)
    PROVE  Recorded(s, full, base, landed)'
<1> DEFINE r == Head(spool[s]).content.run
<1>1. /\ UNCHANGED <<stage, run, seq, head, spool, limbo, table, tokens>>
      /\ mark' = [mark EXCEPT ![s] = [run |-> r, high |-> HighWater(s, r)]]
  BY DEF ReadMark, database
<1> HIDE DEF r
<1>2. mark'[s].run = r /\ mark'[s].high = HighWater(s, r)
  BY <1>1 DEF SinksInv
<1>3. Marked(s, full, landed)'
  BY <1>2, HighestLanded DEF Recorded, Marked
<1>4. StoredTo(s, full, landed)'
  BY <1>1, DatabaseFixed, StoredFixed DEF Recorded
<1>5. Waiting(s, full, base)' /\ Started(s, full)'
  BY <1>1, LineFixed DEF Recorded, Waiting, Started, Queue, RowAt
<1>6. QED
  BY <1>3, <1>4, <1>5, LineFixed DEF Recorded

(* The oldest waiting segment is done with: nothing beyond it has landed.  *)
LEMMA OldestDone ==
    ASSUME NEW s, NEW full, NEW base \in Nat, Line(s, full), Waiting(s, full, base),
           base <= Len(full), spool[s] # <<>>, LimboUntouched(s), limbo' \subseteq limbo,
           spool'[s] = Tail(spool[s])
    PROVE  Waiting(s, full, base + 1)'
<1>1. Tail(spool[s]) = Queue(full, base + 1)
  BY SpoolFirst
<1>2. ASSUME NEW late \in limbo', late.row.content.server = s
      PROVE  \E i \in 1..Len(full) : i <= (base + 1) + 1 /\ late.row = RowAt(full, i)
  <2>1. PICK i \in 1..Len(full) : i <= base + 1 /\ late.row = RowAt(full, i)
    BY <1>2 DEF Waiting
  <2>2. QED
    BY <2>1
<1>3. QED
  BY <1>1, <1>2, LineFixed DEF Waiting, Queue, RowAt

(* A segment at or below the mark has landed.                              *)
LEMMA SkipLine ==
    ASSUME SinkInv, SinksInv, NEW s \in Servers, Skip(s),
           NEW full \in Seq(Segments(s)), NEW base \in Nat, NEW landed \in Nat,
           Recorded(s, full, base, landed)
    PROVE  Recorded(s, full, base + 1, landed)'
<1>1. /\ UNCHANGED <<stage, run, seq, head, mark, limbo, table, tokens>>
      /\ spool' = [spool EXCEPT ![s] = Tail(spool[s])]
      /\ spool[s] # <<>> /\ mark[s].run = Head(spool[s]).content.run
      /\ mark[s].high # None /\ ~(Head(spool[s]).content.seq > mark[s].high)
  BY DEF Skip, MayDeliver, Above, database
<1>2. /\ base + 1 \in 1..Len(full) /\ Len(full) \in Nat
      /\ Head(spool[s]).content = full[base + 1]
  BY <1>1, OldestWaiting
<1>3. PICK k \in 1..landed : full[k].run = mark[s].run /\ full[k].seq = mark[s].high
  BY <1>1 DEF Recorded, Marked
<1>4. k \in 1..Len(full) /\ landed <= Len(full) /\ Line(s, full)
  BY <1>2, <1>3 DEF Recorded
<1>5. full[k].seq \in Nat /\ full[base + 1].seq \in Nat /\ full[base + 1].run \in Nat
  BY <1>2, <1>4, TokensDiffer
<1>6. landed = base + 1
  <2>1. SUFFICES ASSUME k < base + 1 PROVE FALSE
    BY <1>2, <1>3 DEF Recorded
  <2>2. Before(full[k], full[base + 1])
    BY <1>2, <1>4, <2>1 DEF Line
  <2>3. full[k].run = full[base + 1].run /\ full[base + 1].seq <= full[k].seq
    BY <1>1, <1>2, <1>3, <1>5
  <2>4. QED
    BY <1>5, <2>2, <2>3 DEF Before
<1>7. spool'[s] = Tail(spool[s])
  BY <1>1 DEF SinkInv
<1>8. Waiting(s, full, base + 1)'
  BY <1>1, <1>2, <1>7, OldestDone DEF Recorded, LimboUntouched
<1>9. StoredTo(s, full, landed)' /\ Started(s, full)' /\ Marked(s, full, landed)'
  BY <1>1, DatabaseFixed, StoredFixed DEF Recorded, Started, Marked
<1>10. QED
  BY <1>2, <1>6, <1>8, <1>9, LineFixed DEF Recorded

(* The oldest waiting segment lands, or has landed before and lands again. *)
LEMMA DeliverLine ==
    ASSUME SinkInv, SinksInv, NEW s \in Servers, Deliver(s),
           NEW full \in Seq(Segments(s)), NEW base \in Nat, NEW landed \in Nat,
           Recorded(s, full, base, landed)
    PROVE  Recorded(s, full, base + 1, base + 1)'
<1> DEFINE oldest == Head(spool[s])
<1>1. /\ UNCHANGED <<stage, run, seq, head, limbo>> /\ Commit(oldest)
      /\ spool' = [spool EXCEPT ![s] = Tail(spool[s])]
      /\ spool[s] # <<>> /\ mark[s].run = oldest.content.run
      /\ mark' = [mark EXCEPT ![s].high = oldest.content.seq]
  BY DEF Deliver, MayDeliver
<1>2. /\ base + 1 \in 1..Len(full) /\ Len(full) \in Nat
      /\ oldest = RowAt(full, base + 1) /\ oldest.content = full[base + 1]
  BY <1>1, OldestWaiting
<1> HIDE DEF oldest
<1>3. /\ base <= landed /\ landed <= base + 1 /\ landed <= Len(full)
      /\ Line(s, full) /\ StoredTo(s, full, landed) /\ Started(s, full) /\ Waiting(s, full, base)
  BY DEF Recorded
<1>4. StoredTo(s, full, base + 1)'
  <2>1. base + 1 <= landed + 1 /\ Commit(RowAt(full, base + 1))
    BY <1>1, <1>2, <1>3
  <2>2. StoredTo(s, full, IF base + 1 <= landed THEN landed ELSE base + 1)'
    BY <1>2, <1>3, <2>1, CommitOwn
  <2>3. (IF base + 1 <= landed THEN landed ELSE base + 1) = base + 1
    BY <1>3
  <2>4. QED
    BY <2>2, <2>3
<1>5. spool'[s] = Tail(spool[s])
  BY <1>1 DEF SinkInv
<1>6. Waiting(s, full, base + 1)'
  <2>1. base <= Len(full) /\ LimboUntouched(s) /\ limbo' \subseteq limbo
    BY <1>1, <1>2 DEF LimboUntouched
  <2>2. QED
    BY <1>1, <1>3, <1>5, <2>1, OldestDone
<1>7. Started(s, full)'
  BY <1>1, <1>3 DEF Started
<1>8. Marked(s, full, base + 1)'
  <2>1. mark'[s].run = full[base + 1].run /\ mark'[s].high = full[base + 1].seq
    BY <1>1, <1>2 DEF SinksInv
  <2>2. base + 1 \in 1..(base + 1)
    OBVIOUS
  <2>3. QED
    BY <2>1, <2>2 DEF Marked
<1>9. QED
  BY <1>2, <1>3, <1>4, <1>6, <1>7, <1>8, LineFixed DEF Recorded

(* It may be on its way when its insert has timed out.                     *)
LEMMA TimeOutLine ==
    ASSUME SinkInv, SinksInv, NEW s \in Servers, TimeOut(s),
           NEW full \in Seq(Segments(s)), NEW base \in Nat, NEW landed \in Nat,
           Recorded(s, full, base, landed)
    PROVE  Recorded(s, full, base, landed)'
<1> DEFINE oldest == Head(spool[s])
           request == [row |-> oldest, request |-> timeouts]
<1>1. /\ UNCHANGED <<stage, run, seq, head, spool, table, tokens>> /\ spool[s] # <<>>
      /\ limbo' = limbo \cup {request} /\ mark' = [mark EXCEPT ![s] = Unread]
  BY DEF TimeOut, MayDeliver
<1>2. base + 1 \in 1..Len(full) /\ oldest = RowAt(full, base + 1)
  BY <1>1, OldestWaiting
<1>3. request.row = oldest /\ mark'[s].high = None
  BY <1>1 DEF SinksInv, Unread
<1> HIDE DEF oldest, request
<1>4. Waiting(s, full, base)'
  <2>1. spool'[s] = Queue(full, base)
    BY <1>1 DEF Recorded, Waiting
  <2>2. ASSUME NEW late \in limbo', late.row.content.server = s
        PROVE  \E i \in 1..Len(full) : i <= base + 1 /\ late.row = RowAt(full, i)
    <3>1. CASE late \in limbo
      BY <2>2, <3>1 DEF Recorded, Waiting
    <3>2. CASE late = request
      BY <1>2, <1>3, <3>2
    <3>3. QED
      BY <1>1, <3>1, <3>2
  <2>3. QED
    BY <2>1, <2>2 DEF Waiting, Queue, RowAt
<1>5. StoredTo(s, full, landed)' /\ Started(s, full)' /\ Marked(s, full, landed)'
  BY <1>1, <1>3, DatabaseFixed, StoredFixed DEF Recorded, Started, Marked
<1>6. QED
  BY <1>4, <1>5, LineFixed DEF Recorded

(* A line that has landed as a whole has one tail, its last row.           *)
LEMMA TailOfLine ==
    ASSUME NEW s, NEW full, Line(s, full), StoredTo(s, full, Len(full))
    PROVE  /\ Len(full) \in Nat
           /\ Tails(s) = {} => full = <<>>
           /\ Tails(s) # {} => Tails(s) = {full}
<1> DEFINE n == Len(full)
<1>1. full \in Seq(Segments(s)) /\ n \in Nat
  BY LenProperties DEF Line
<1>2. Tails(s) = {RowAt(full, i).hash : i \in 1..n} \ {RowAt(full, i).prev : i \in 1..n}
  BY DEF Tails, StoredTo
<1>3. ASSUME NEW i \in 1..n PROVE RowAt(full, i).hash \in Tails(s) <=> i = n
  <2>1. ASSUME NEW j \in 1..n, RowAt(full, i).hash = RowAt(full, j).prev PROVE i = j - 1
    <3>1. Len(RowAt(full, i).hash) = i /\ Len(RowAt(full, j).prev) = j - 1
      BY <1>1, RowFields
    <3>2. QED
      BY <2>1, <3>1
  <2>2. i < n => i + 1 \in 1..n /\ RowAt(full, i + 1).prev = RowAt(full, i).hash
    <3>1. ASSUME i < n PROVE i + 1 \in 1..n /\ RowAt(full, i + 1).prev = RowAt(full, i).hash
      <4>1. i + 1 \in 1..n /\ i + 1 > 1 /\ (i + 1) - 1 = i
        BY <1>1, <3>1
      <4>2. QED
        BY <1>1, <4>1, RowLinks
    <3>2. QED
      BY <3>1
  <2>3. i = n => ~ \E j \in 1..n : RowAt(full, i).hash = RowAt(full, j).prev
    BY <1>1, <2>1
  <2>4. QED
    BY <1>1, <1>2, <2>2, <2>3
<1>4. n = 0 => full = <<>>
  BY <1>1, EmptySeq
<1>5. n # 0 => Tails(s) = {full}
  <2>1. ASSUME n # 0 PROVE Tails(s) = {full}
    <3>1. n \in 1..n
      BY <1>1, <2>1
    <3>2. RowAt(full, n).hash = full
      <4>1. RowAt(full, n).hash = SubSeq(full, 1, n)
        BY <1>1, <3>1, RowFields
      <4>2. SubSeq(full, 1, n) = full
        BY <1>1, SubSeqFull
      <4>3. QED
        BY <4>1, <4>2
    <3>3. \A h \in Tails(s) : \E i \in 1..n : h = RowAt(full, i).hash
      BY <1>2
    <3>4. QED
      BY <1>3, <3>1, <3>2, <3>3
  <2>2. QED
    BY <2>1
<1>6. n = 0 => Tails(s) = {}
  BY <1>1, <1>2
<1>7. QED
  BY <1>1, <1>4, <1>5, <1>6

LEMMA SeedLine ==
    ASSUME SinkInv, SinksInv, NEW s \in Servers, Seed(s),
           NEW full \in Seq(Segments(s)), NEW base \in Nat, NEW landed \in Nat,
           Recorded(s, full, base, landed)
    PROVE  Recorded(s, full, base, landed)'
<1> DEFINE tail == IF Tails(s) = {} THEN Genesis ELSE CHOOSE h \in Tails(s) : TRUE
<1>1. /\ UNCHANGED <<run, seq, spool, limbo, table, tokens>>
      /\ stage[s] = "replay" /\ stage' = [stage EXCEPT ![s] = "up"] /\ spool[s] = <<>>
      /\ head' = [head EXCEPT ![s] = tail]
      /\ mark' = [mark EXCEPT ![s] = [run |-> run[s], high |-> None]]
  BY DEF Seed, database
<1>2. landed = Len(full) /\ Len(full) \in Nat
  BY <1>1, OldestWaiting DEF Recorded
<1>3. tail = full
  <2>1. Tails(s) = {} => full = Genesis
    BY <1>2, TailOfLine DEF Recorded, Genesis
  <2>2. Tails(s) # {} => Tails(s) = {full}
    BY <1>2, TailOfLine DEF Recorded
  <2>3. (CHOOSE h \in {full} : TRUE) = full
    OBVIOUS
  <2>4. QED
    BY <2>1, <2>2, <2>3
<1> HIDE DEF tail
<1>4. stage'[s] = "up" /\ head'[s] = full /\ mark'[s].high = None
  BY <1>1, <1>3 DEF SinkInv, SinksInv
<1>5. Started(s, full)'
  <2>1. \A i \in 1..Len(full) : full[i].run < run[s] /\ full[i].run \in Nat /\ run[s] \in Nat
    BY <1>1, TokensDiffer DEF Recorded, Started, SinksInv
  <2>2. \A i \in 1..Len(full) : full[i].run <= run[s] /\ full[i].run # run[s]
    BY <2>1
  <2>3. QED
    BY <1>1, <1>4, <2>2 DEF Started
<1>6. StoredTo(s, full, landed)' /\ Marked(s, full, landed)'
  BY <1>1, <1>4, DatabaseFixed, StoredFixed DEF Recorded, Marked
<1>7. Waiting(s, full, base)'
  BY <1>1, LineFixed DEF Recorded, Waiting, Queue, RowAt
<1>8. QED
  BY <1>5, <1>6, <1>7, LineFixed DEF Recorded

(* One segment more to deliver.                                            *)
LEMMA QueueGrown ==
    ASSUME NEW S, NEW full \in Seq(S), NEW base \in Nat, base <= Len(full), NEW c \in S
    PROVE  Append(Queue(full, base), Link(full, c)) = Queue(Append(full, c), base)
<1> DEFINE n == Len(full) - base
           more == Append(full, c)
           row == Link(full, c)
           queue == Queue(full, base)
           longer == Queue(more, base)
           appended == Append(queue, row)
           rows == {RowAt(full, i) : i \in 1..Len(full)} \cup {row}
<1>1. /\ Len(more) = Len(full) + 1 /\ Len(full) \in Nat /\ n \in Nat
      /\ \A i \in 1..Len(full) : RowAt(more, i) = RowAt(full, i)
      /\ RowAt(more, Len(full) + 1) = row
  BY RowsKept, LenProperties
<1>2. /\ queue = [i \in 1..n |-> RowAt(full, base + i)]
      /\ \A i \in 1..n : base + i \in 1..Len(full)
  BY <1>1 DEF Queue
<1>3. longer = [i \in 1..(n + 1) |-> RowAt(more, base + i)]
  <2>1. Len(more) - base = n + 1
    BY <1>1
  <2>2. QED
    BY <2>1 DEF Queue
<1>4. row \in rows /\ \A i \in 1..n : RowAt(full, base + i) \in rows
  BY <1>2
<1> HIDE DEF more, row, queue, longer, rows
<1>5. \A i \in 1..n : queue[i] = RowAt(full, base + i) /\ queue[i] \in rows
  BY <1>2, <1>4
<1>6. queue \in Seq(rows) /\ Len(queue) = n
  <2>1. queue \in [1..n -> rows]
    BY <1>2, <1>4
  <2>2. QED
    BY <1>1, <2>1
<1>7. /\ appended \in Seq(rows) /\ Len(appended) = n + 1
      /\ \A i \in 1..n : appended[i] = queue[i]
      /\ appended[n + 1] = row
  BY <1>4, <1>6, AppendProperties
<1>8. ASSUME NEW i \in 1..(n + 1)
      PROVE  longer[i] = (IF i \in 1..n THEN queue[i] ELSE row) /\ longer[i] \in rows
  <2>1. longer[i] = RowAt(more, base + i)
    BY <1>3
  <2>2. CASE i \in 1..n
    BY <1>1, <1>2, <1>5, <2>1, <2>2
  <2>3. CASE i = n + 1
    <3>1. base + i = Len(full) + 1 /\ i \notin 1..n
      BY <1>1, <2>3
    <3>2. QED
      BY <1>1, <1>4, <2>1, <3>1
  <2>4. QED
    BY <1>1, <2>2, <2>3
<1>9. longer \in Seq(rows) /\ Len(longer) = n + 1
  <2>1. longer \in [1..(n + 1) -> rows]
    BY <1>3, <1>8
  <2>2. QED
    BY <1>1, <2>1
<1> HIDE DEF appended, n
<1>10. \A i \in 1..(n + 1) : appended[i] = longer[i]
  <2>1. ASSUME NEW i \in 1..(n + 1) PROVE i \in 1..n \/ (i = n + 1 /\ i \notin 1..n)
    BY <1>1
  <2>2. QED
    BY <1>7, <1>8, <2>1
<1>11. appended = longer
  BY <1>7, <1>9, <1>10, SeqEqual
<1>12. QED
  BY <1>11 DEF appended, queue, longer, more, row

(* A new segment is the last of the line and of the spool.                 *)
LEMMA RecordLine ==
    ASSUME SinkInv, SinksInv, NEW s \in Servers, Record(s),
           NEW full \in Seq(Segments(s)), NEW base \in Nat, NEW landed \in Nat,
           Recorded(s, full, base, landed)
    PROVE  \E more \in Seq(Segments(s)) : Recorded(s, more, base, landed)'
<1>0. PICK c, more, row, n : /\ c = Segment(s, run[s], seq[s]) /\ row = Link(full, c)
                             /\ more = Append(full, c) /\ n = Len(full)
  OBVIOUS
<1>1. /\ UNCHANGED <<stage, run, mark, limbo, table, tokens>> /\ stage[s] = "up"
      /\ spool' = [spool EXCEPT ![s] = Append(spool[s], row)]
      /\ head' = [head EXCEPT ![s] = row.hash]
      /\ seq' = [seq EXCEPT ![s] = seq[s] + 1]
  <2>1. stage[s] = "up" => head[s] = full
    BY DEF Recorded, Started
  <2>2. QED
    BY <1>0, <2>1 DEF Record, database
<1>2. /\ c \in Segments(s) /\ c.run = run[s] /\ c.seq = seq[s]
      /\ run[s] \in Nat /\ seq[s] \in Nat /\ row.hash = more
  BY <1>0 DEF Segment, Segments, SinksInv, Link, ComputeRowHash
<1>3. /\ more \in Seq(Segments(s)) /\ Len(more) = n + 1 /\ n \in Nat
      /\ \A i \in 1..n : more[i] = full[i] /\ RowAt(more, i) = RowAt(full, i)
      /\ more[n + 1] = c /\ RowAt(more, n + 1) = row
  <2>1. /\ Append(full, c) \in Seq(Segments(s)) /\ Len(Append(full, c)) = Len(full) + 1
        /\ \A i \in 1..Len(full) :
              Append(full, c)[i] = full[i] /\ RowAt(Append(full, c), i) = RowAt(full, i)
        /\ Append(full, c)[Len(full) + 1] = c
        /\ RowAt(Append(full, c), Len(full) + 1) = Link(full, c) /\ Len(full) \in Nat
    BY <1>2, RowsKept, LenProperties
  <2>2. QED
    BY <1>0, <2>1, Zenon
<1>4. /\ \A i \in 1..n : full[i].run \in Nat /\ full[i].seq \in Nat /\ full[i].run <= run[s]
      /\ \A i \in 1..n : full[i].run = run[s] => full[i].seq < seq[s]
      /\ \A i, j \in 1..n : i < j => Before(full[i], full[j])
      /\ base <= landed /\ landed <= base + 1 /\ landed <= n
  BY <1>0, <1>1, TokensDiffer DEF Recorded, Line, Started
<1>5. Line(s, more)
  <2>1. ASSUME NEW i \in 1..(n + 1), NEW j \in 1..(n + 1), i < j
        PROVE  Before(more[i], more[j])
    <3>1. i \in 1..n /\ (j \in 1..n \/ j = n + 1)
      BY <1>3, <2>1
    <3>2. CASE j \in 1..n
      BY <1>3, <1>4, <2>1, <3>1, <3>2
    <3>3. CASE j = n + 1
      <4>1. more[i] = full[i] /\ more[j].run = run[s] /\ more[j].seq = seq[s]
        BY <1>2, <1>3, <3>1, <3>3
      <4>2. full[i].run < run[s] \/ full[i].run = run[s]
        BY <1>2, <1>4, <3>1
      <4>3. QED
        BY <1>4, <3>1, <4>1, <4>2 DEF Before
    <3>4. QED
      BY <3>1, <3>2, <3>3
  <2>2. QED
    BY <1>3, <2>1 DEF Line
<1>6. Started(s, more)'
  <2>1. run'[s] = run[s] /\ stage'[s] = "up" /\ head'[s] = more /\ seq'[s] = seq[s] + 1
    BY <1>1, <1>2 DEF SinkInv, SinksInv
  <2>2. ASSUME NEW i \in 1..(n + 1)
        PROVE  more[i].run <= run[s] /\ (more[i].run = run[s] => more[i].seq < seq[s] + 1)
    <3>1. CASE i \in 1..n
      <4>1. /\ more[i] = full[i] /\ full[i].run <= run[s] /\ full[i].seq \in Nat
            /\ full[i].run = run[s] => full[i].seq < seq[s]
        BY <1>3, <1>4, <3>1
      <4>2. QED
        BY <1>2, <4>1
    <3>2. CASE i = n + 1
      BY <1>2, <1>3, <3>2
    <3>3. QED
      BY <1>3, <3>1, <3>2
  <2>3. QED
    BY <1>3, <2>1, <2>2 DEF Started
<1>7. 1..landed \subseteq 1..n
  BY <1>3, <1>4
<1>8. StoredTo(s, more, landed)'
  <2>1. /\ {RowAt(more, i) : i \in 1..landed} = {RowAt(full, i) : i \in 1..landed}
        /\ {DedupToken(RowAt(more, i)) : i \in 1..landed}
              = {DedupToken(RowAt(full, i)) : i \in 1..landed}
    BY <1>3, <1>7
  <2>2. StoredTo(s, more, landed)
    BY <2>1 DEF Recorded, StoredTo
  <2>3. QED
    BY <1>1, <2>2, DatabaseFixed, StoredFixed
<1>9. Waiting(s, more, base)'
  <2>1. spool'[s] = Append(Queue(full, base), row)
    BY <1>1 DEF SinkInv, Recorded, Waiting
  <2>2. Append(Queue(full, base), row) = Queue(more, base)
    <3>1. base <= Len(full)
      BY <1>0, <1>3, <1>4
    <3>2. QED
      BY <1>0, <1>2, <3>1, QueueGrown
  <2>3. \A late \in limbo : late.row.content.server = s =>
            \E i \in 1..n : i <= base + 1 /\ late.row = RowAt(full, i)
    BY <1>0 DEF Recorded, Waiting
  <2>4. ASSUME NEW late \in limbo, late.row.content.server = s
        PROVE  \E i \in 1..(n + 1) : i <= base + 1 /\ late.row = RowAt(more, i)
    <3>1. PICK i \in 1..n : i <= base + 1 /\ late.row = RowAt(full, i)
      BY <2>3, <2>4
    <3>2. i \in 1..(n + 1)
      BY <1>3
    <3>3. QED
      BY <1>3, <3>1, <3>2
  <2>5. spool'[s] = Queue(more, base)
    BY <2>1, <2>2
  <2>6. QED
    BY <1>1, <1>3, <2>4, <2>5 DEF Waiting, Queue, RowAt
<1>10. Marked(s, more, landed)'
  BY <1>1, <1>3, <1>7 DEF Recorded, Marked
<1>11. Recorded(s, more, base, landed)'
  <2>1. landed <= Len(more)
    BY <1>3, <1>4
  <2>2. QED
    BY <1>4, <1>5, <1>6, <1>8, <1>9, <1>10, <2>1, LineFixed DEF Recorded
<1>12. QED
  BY <1>3, <1>11

----------------------------------------------------------------------------
(* Every step keeps every line.                                            *)

(* A row of a line, and its token when it is stored.                       *)
LEMMA RowOfLine ==
    ASSUME NEW s, NEW full \in Seq(Segments(s)), NEW base \in Nat, NEW landed \in Nat,
           Recorded(s, full, base, landed), NEW i \in 1..Len(full)
    PROVE  /\ RowAt(full, i).content.server = s /\ RowAt(full, i).content.tier = "evidence"
           /\ "server" \in DOMAIN RowAt(full, i).content
           /\ RowAt(full, i).content.run \in Nat /\ RowAt(full, i).content.seq \in Nat
           /\ \A p \in table : p.row = RowAt(full, i) => DedupToken(RowAt(full, i)) \in tokens
<1>1. Line(s, full) /\ StoredTo(s, full, landed)
  BY DEF Recorded
<1>2. RowAt(full, i).content = full[i]
  BY RowFields
<1>3. /\ full[i].server = s /\ full[i].tier = "evidence" /\ "server" \in DOMAIN full[i]
      /\ full[i].run \in Nat /\ full[i].seq \in Nat
  BY <1>1, TokensDiffer
<1>4. ASSUME NEW p \in table, p.row = RowAt(full, i)
      PROVE  DedupToken(RowAt(full, i)) \in tokens
  <2>1. p.row \in RowsOf(s)
    BY <1>2, <1>3, <1>4 DEF RowsOf
  <2>2. PICK k \in 1..landed : p.row = RowAt(full, k)
    BY <1>1, <2>1 DEF StoredTo
  <2>3. DedupToken(RowAt(full, k)) \in tokens
    BY <1>1 DEF StoredTo
  <2>4. QED
    BY <1>4, <2>2, <2>3
<1>5. QED
  BY <1>2, <1>3, <1>4

LEMMA SinkOwnLine ==
    ASSUME ChainsInv, NEW s \in Servers, SinkNext(s)
    PROVE  \E full \in Seq(Segments(s)), base \in Nat, landed \in Nat :
               Recorded(s, full, base, landed)'
<1>1. SinkInv /\ SinksInv
  BY DEF ChainsInv, Verdict
<1>2. PICK full \in Seq(Segments(s)), base \in Nat, landed \in Nat :
          Recorded(s, full, base, landed)
  BY DEF ChainsInv, LineInv
<1>3. CASE Boot(s) \/ Crash(s)
  BY <1>1, <1>2, <1>3, BootLine
<1>4. CASE ReadMark(s)
  BY <1>1, <1>2, <1>4, ReadMarkLine
<1>5. CASE Skip(s)
  <2>1. Recorded(s, full, base + 1, landed)'
    BY <1>1, <1>2, <1>5, SkipLine
  <2>2. QED
    BY <2>1
<1>6. CASE Deliver(s)
  <2>1. Recorded(s, full, base + 1, base + 1)'
    BY <1>1, <1>2, <1>6, DeliverLine
  <2>2. QED
    BY <2>1
<1>7. CASE TimeOut(s)
  BY <1>1, <1>2, <1>7, TimeOutLine
<1>8. CASE Seed(s)
  BY <1>1, <1>2, <1>8, SeedLine
<1>9. CASE Record(s)
  BY <1>1, <1>2, <1>9, RecordLine
<1>10. QED
  BY <1>3, <1>4, <1>5, <1>6, <1>7, <1>8, <1>9 DEF SinkNext

(* What a sink sends is its own.                                           *)
LEMMA SentByIt ==
    ASSUME ChainsInv, NEW s \in Servers, spool[s] # <<>>
    PROVE  LET oldest == Head(spool[s])
           IN  /\ oldest.content.server = s /\ oldest.content.tier = "evidence"
               /\ "server" \in DOMAIN oldest.content
               /\ oldest.content.run \in Nat /\ oldest.content.seq \in Nat
               /\ \A p \in table : p.row = oldest => DedupToken(oldest) \in tokens
<1>1. PICK full \in Seq(Segments(s)), base \in Nat, landed \in Nat :
          Recorded(s, full, base, landed)
  BY DEF ChainsInv, LineInv
<1>2. base + 1 \in 1..Len(full) /\ Head(spool[s]) = RowAt(full, base + 1)
  BY <1>1, OldestWaiting
<1>3. QED
  BY <1>1, <1>2, RowOfLine

LEMMA ChainsSink ==
    ASSUME ChainsInv, NEW s \in Servers, SinkNext(s)
    PROVE  ChainsInv'
<1> DEFINE oldest == Head(spool[s])
           request == [row |-> oldest, request |-> timeouts]
<1>1. SinkInv /\ SinksInv /\ LineInv /\ CopiesInv /\ Verdict
  BY DEF ChainsInv, Verdict
<1>2. Verdict'
  BY <1>1, VerdictSink
<1>3. windowed' = windowed
  BY DEF SinkNext, Boot, ReadMark, Skip, Deliver, TimeOut, Seed, Record, Crash, database
<1>4. \/ UNCHANGED <<table, tokens>> /\ limbo' \subseteq limbo \cup {request}
         /\ (limbo' # limbo => spool[s] # <<>>)
      \/ Commit(oldest) /\ limbo' = limbo /\ spool[s] # <<>>
  BY DEF SinkNext, Boot, ReadMark, Skip, Deliver, TimeOut, Seed, Record, Crash, database, MayDeliver
<1>5. request.row = oldest
  OBVIOUS
<1>6. spool[s] # <<>> =>
         /\ oldest.content.server = s /\ oldest.content.tier = "evidence"
         /\ "server" \in DOMAIN oldest.content
         /\ oldest.content.run \in Nat /\ oldest.content.seq \in Nat
         /\ \A p \in table : p.row = oldest => DedupToken(oldest) \in tokens
  BY SentByIt
<1> HIDE DEF oldest, request
<1>7. CopiesInv'
  <2>1. CASE table' = table
    BY <1>1, <1>3, <2>1 DEF CopiesInv
  <2>2. CASE Commit(oldest) /\ spool[s] # <<>>
    BY <1>1, <1>3, <1>6, <2>2, CommitCopies
  <2>3. QED
    BY <1>4, <2>1, <2>2
<1>8. \A late \in limbo' :
          /\ late.row.content.tier = "evidence" /\ "server" \in DOMAIN late.row.content
          /\ late.row.content.server \in Servers \cup {Script}
  <2>1. SUFFICES ASSUME NEW late \in limbo'
                 PROVE  /\ late.row.content.tier = "evidence"
                        /\ "server" \in DOMAIN late.row.content
                        /\ late.row.content.server \in Servers \cup {Script}
    OBVIOUS
  <2>2. CASE late \in limbo
    BY <1>1, <2>2 DEF SinksInv
  <2>3. CASE late \notin limbo
    BY <1>4, <1>5, <1>6, <2>3
  <2>4. QED
    BY <2>2, <2>3
<1>9. SinksInv'
  <2>1. /\ run \in [Servers -> Nat] /\ seq \in [Servers -> Nat]
        /\ head = [t \in Servers |-> head[t]]
        /\ mark \in [Servers -> [run : Nat, high : Nat \cup {None}]]
    BY <1>1 DEF SinksInv
  <2>2. run' \in [Servers -> Nat] /\ seq' \in [Servers -> Nat]
    <3>1. run' = run \/ run' = [run EXCEPT ![s] = run[s] + 1]
      BY DEF SinkNext, Boot, ReadMark, Skip, Deliver, TimeOut, Seed, Record, Crash
    <3>2. seq' = seq \/ \E n \in {0, seq[s] + 1} : seq' = [seq EXCEPT ![s] = n]
      BY DEF SinkNext, Boot, ReadMark, Skip, Deliver, TimeOut, Seed, Record, Crash
    <3>3. QED
      BY <2>1, <3>1, <3>2
  <2>3. head' = [t \in Servers |-> head'[t]]
    <3>1. head' = head \/ \E h : head' = [head EXCEPT ![s] = h]
      BY DEF SinkNext, Boot, ReadMark, Skip, Deliver, TimeOut, Seed, Record, Crash
    <3>2. QED
      BY <2>1, <3>1
  <2>4. mark' \in [Servers -> [run : Nat, high : Nat \cup {None}]]
    <3>1. CASE Boot(s) \/ Skip(s) \/ Record(s)
      BY <2>1, <3>1 DEF Boot, Skip, Record
    <3>2. CASE ReadMark(s)
      <4> DEFINE r == oldest.content.run
                 high == HighWater(s, r)
      <4>1. mark' = [mark EXCEPT ![s] = [run |-> r, high |-> high]] /\ r \in Nat
        BY <1>6, <3>2 DEF ReadMark, oldest
      <4>2. high \in Nat \cup {None}
        <5> HIDE DEF r
        <5>1. PICK full \in Seq(Segments(s)), base \in Nat, landed \in Nat :
                  Recorded(s, full, base, landed)
          BY <1>1 DEF LineInv
        <5>2. Line(s, full) /\ StoredTo(s, full, landed) /\ landed <= Len(full) /\ Len(full) \in Nat
          BY <5>1, OldestWaiting DEF Recorded
        <5>3. high # None => \E i \in 1..landed : full[i].seq = high
          BY <5>2, HighestLanded
        <5>4. \A i \in 1..landed : i \in 1..Len(full) /\ full[i].seq \in Nat
          BY <5>2, TokensDiffer
        <5>5. QED
          BY <5>3, <5>4
      <4> HIDE DEF high, r
      <4>3. QED
        BY <2>1, <4>1, <4>2
    <3>3. CASE Deliver(s)
      <4>1. mark' = [mark EXCEPT ![s].high = oldest.content.seq] /\ oldest.content.seq \in Nat
        BY <1>6, <3>3 DEF Deliver, MayDeliver, oldest
      <4>2. mark[s] \in [run : Nat, high : Nat \cup {None}]
        BY <2>1
      <4>3. [mark[s] EXCEPT !.high = oldest.content.seq] \in [run : Nat, high : Nat \cup {None}]
        BY <4>1, <4>2
      <4>4. QED
        BY <2>1, <4>1, <4>3
    <3>4. CASE TimeOut(s) \/ Crash(s)
      <4>1. mark' = [mark EXCEPT ![s] = Unread]
        BY <3>4 DEF TimeOut, Crash
      <4>2. Unread \in [run : Nat, high : Nat \cup {None}]
        BY DEF Unread
      <4>3. QED
        BY <2>1, <4>1, <4>2
    <3>5. CASE Seed(s)
      <4>1. mark' = [mark EXCEPT ![s] = [run |-> run[s], high |-> None]]
        BY <3>5 DEF Seed
      <4>2. QED
        BY <2>1, <4>1
    <3>6. QED
      BY <3>1, <3>2, <3>3, <3>4, <3>5 DEF SinkNext
  <2>5. QED
    BY <1>8, <2>2, <2>3, <2>4 DEF SinksInv
<1>10. LineInv'
  <2>1. ASSUME NEW t \in Servers \ {s} PROVE RowsUntouched(t) /\ LimboUntouched(t)
    <3>1. RowsUntouched(t)
      <4>1. CASE UNCHANGED <<table, tokens>>
        BY <4>1, DatabaseFixed
      <4>2. CASE Commit(oldest) /\ spool[s] # <<>>
        BY <1>6, <2>1, <4>2, CommitOther DEF RowsUntouched
      <4>3. QED
        BY <1>4, <4>1, <4>2
    <3>2. LimboUntouched(t)
      BY <1>4, <1>5, <1>6, <2>1 DEF LimboUntouched
    <3>3. QED
      BY <3>1, <3>2
  <2>2. \A t \in Servers \ {s} : SinkUntouched(t)
    BY <1>1, OthersUntouched
  <2>3. QED
    BY <1>1, <2>1, <2>2, SinkOwnLine, LineOthers
<1>11. QED
  BY <1>2, <1>7, <1>9, <1>10 DEF ChainsInv

(* A request in limbo commits: it is the script's, or one of its sink's    *)
(* segments, and then none beyond the next to land.                        *)
LEMMA ChainsLate ==
    ASSUME ChainsInv, NEW late \in limbo, LateCommit(late)
    PROVE  ChainsInv'
<1> DEFINE row == late.row
           s == row.content.server
<1>1. SinkInv /\ SinksInv /\ LineInv /\ CopiesInv /\ Verdict
  BY DEF ChainsInv, Verdict
<1>2. /\ UNCHANGED <<windowed, stage, run, seq, head, spool, mark, step, timeouts>>
      /\ limbo' = limbo \ {late} /\ Commit(row)
  BY DEF LateCommit, sinks
<1>3. /\ row.content.tier = "evidence" /\ "server" \in DOMAIN row.content
      /\ s \in Servers \cup {Script}
  BY <1>1 DEF SinksInv
<1> HIDE DEF row
<1>4. Verdict'
  BY <1>1, VerdictLate
<1>5. SinksInv'
  BY <1>1, <1>2 DEF SinksInv
<1>6. ASSUME s \in Servers
      PROVE  \E full \in Seq(Segments(s)), base \in Nat, landed \in Nat :
                 /\ Recorded(s, full, base, landed)
                 /\ \E i \in 1..Len(full) : i <= base + 1 /\ row = RowAt(full, i)
  <2>1. PICK full \in Seq(Segments(s)), base \in Nat, landed \in Nat :
            Recorded(s, full, base, landed)
    BY <1>1, <1>6 DEF LineInv
  <2>2. \E i \in 1..Len(full) : i <= base + 1 /\ row = RowAt(full, i)
    BY <2>1 DEF Recorded, Waiting, row
  <2>3. QED
    BY <2>1, <2>2
<1>7. CopiesInv'
  <2>1. s \in Servers => \A p \in table : p.row = row => DedupToken(row) \in tokens
    <3>1. SUFFICES ASSUME s \in Servers
                   PROVE  \A p \in table : p.row = row => DedupToken(row) \in tokens
      OBVIOUS
    <3>2. PICK full \in Seq(Segments(s)), base \in Nat, landed \in Nat :
              Recorded(s, full, base, landed) /\ \E i \in 1..Len(full) : row = RowAt(full, i)
      BY <1>6, <3>1
    <3>3. QED
      BY <3>2, RowOfLine
  <2>2. QED
    BY <1>1, <1>2, <1>3, <2>1, CommitCopies
<1>8. \A t \in Servers \ {s} : SinkUntouched(t) /\ RowsUntouched(t) /\ LimboUntouched(t)
  BY <1>2, CommitOther DEF SinkUntouched, RowsUntouched, LimboUntouched
<1>9. s \in Servers => \E full \in Seq(Segments(s)), base \in Nat, landed \in Nat :
                           Recorded(s, full, base, landed)'
  <2>1. SUFFICES ASSUME s \in Servers
                 PROVE  \E full \in Seq(Segments(s)), base \in Nat, landed \in Nat :
                            Recorded(s, full, base, landed)'
    OBVIOUS
  <2>2. PICK full \in Seq(Segments(s)), base \in Nat, landed \in Nat :
            /\ Recorded(s, full, base, landed)
            /\ \E i \in 1..Len(full) : i <= base + 1 /\ row = RowAt(full, i)
    BY <1>6, <2>1
  <2>3. PICK i \in 1..Len(full) : i <= base + 1 /\ row = RowAt(full, i)
    BY <2>2
  <2>4. PICK upTo : upTo = IF i <= landed THEN landed ELSE i
    OBVIOUS
  <2>5. /\ Len(full) \in Nat /\ i \in Nat /\ base <= landed /\ landed <= base + 1
        /\ landed <= Len(full) /\ i <= Len(full)
    BY <2>3, <2>2, OldestWaiting DEF Recorded
  <2>6. /\ upTo \in Nat /\ base <= upTo /\ upTo <= base + 1 /\ upTo <= Len(full)
        /\ landed <= upTo
    BY <2>3, <2>4, <2>5
  <2>7. StoredTo(s, full, upTo)'
    <3>1. i <= landed + 1 /\ Commit(RowAt(full, i)) /\ Line(s, full) /\ StoredTo(s, full, landed)
      BY <1>2, <2>3, <2>2, <2>5 DEF Recorded
    <3>2. StoredTo(s, full, IF i <= landed THEN landed ELSE i)'
      BY <2>5, <3>1, CommitOwn
    <3>3. QED
      BY <2>4, <3>2
  <2>8. Started(s, full)' /\ Line(s, full)'
    BY <1>2, <2>2, LineFixed DEF Recorded, Started
  <2>9. Waiting(s, full, base)'
    BY <1>2, <2>2 DEF Recorded, Waiting, Queue, RowAt
  <2>10. Marked(s, full, upTo)'
    <3>1. 1..landed \subseteq 1..upTo
      BY <2>5, <2>6
    <3>2. Marked(s, full, upTo)
      BY <2>2, <3>1 DEF Recorded, Marked
    <3>3. QED
      BY <1>2, <3>2 DEF Marked
  <2>11. Recorded(s, full, base, upTo)'
    BY <2>6, <2>7, <2>8, <2>9, <2>10 DEF Recorded
  <2>12. QED
    BY <2>6, <2>11
<1>10. LineInv'
  BY <1>1, <1>8, <1>9, LineOthers
<1>11. QED
  BY <1>4, <1>5, <1>7, <1>10 DEF ChainsInv

(* The script writes under a name of its own.                              *)
LEMMA ChainsScript == ASSUME ChainsInv, ScriptNext PROVE ChainsInv'
<1>1. SinkInv /\ SinksInv /\ LineInv /\ CopiesInv /\ Verdict
  BY DEF ChainsInv, Verdict
<1>2. Verdict'
  BY <1>1, VerdictScript
<1>3. UNCHANGED <<windowed, sinks>>
  BY DEF ScriptNext, ScriptReadsMark, ScriptInserts, ScriptInsertRaises, ScriptReadRaises,
         ScriptReplays, ScriptProbes, ScriptCounts, ScriptMoves, database
<1>4. /\ UNCHANGED <<table, tokens>> \/ \E row \in {ScriptRow, ProbeRow} : Commit(row)
      /\ \E request : limbo' \in {limbo, limbo \cup {request}} /\ request.row \in {ScriptRow, ProbeRow}
  <2>1. CASE ScriptReadsMark \/ ScriptReadRaises \/ ScriptReplays \/ ScriptCounts
    <3> DEFINE request == [row |-> ScriptRow]
    <3>1. request.row = ScriptRow
      OBVIOUS
    <3> HIDE DEF request
    <3>2. UNCHANGED <<table, tokens, limbo>>
      BY <2>1 DEF ScriptReadsMark, ScriptReadRaises, ScriptReplays, ScriptCounts, database
    <3>3. QED
      BY <3>1, <3>2
  <2>2. CASE ScriptInserts \/ ScriptProbes
    <3> DEFINE request == [row |-> ScriptRow]
    <3>1. request.row = ScriptRow
      OBVIOUS
    <3> HIDE DEF request
    <3>2. QED
      BY <2>2, <3>1 DEF ScriptInserts, ScriptProbes
  <2>3. CASE ScriptInsertRaises
    <3>1. PICK at \in {"insert", "probe"} :
              limbo' = limbo \cup {[row |-> IF at = "insert" THEN ScriptRow ELSE ProbeRow,
                                    request |-> timeouts]}
      BY <2>3 DEF ScriptInsertRaises
    <3> DEFINE request == [row |-> IF at = "insert" THEN ScriptRow ELSE ProbeRow,
                           request |-> timeouts]
    <3>2. request.row \in {ScriptRow, ProbeRow} /\ limbo' = limbo \cup {request}
      BY <3>1
    <3> HIDE DEF request
    <3>3. QED
      BY <2>3, <3>2 DEF ScriptInsertRaises
  <2>4. QED
    BY <2>1, <2>2, <2>3 DEF ScriptNext
<1>5. \A row \in {ScriptRow, ProbeRow} :
          /\ row.content.tier = "evidence" /\ row.content.server = Script
          /\ "server" \in DOMAIN row.content
  <2>1. ScriptRow.content = Segment(Script, 1, 0)
    BY DEF ScriptRow
  <2>2. ProbeRow.content = [Segment(Script, 1, 0) EXCEPT !.error = "token-probe"]
    <3> DEFINE content == Segment(Script, 1, 0)
    <3>1. ScriptRow = [content |-> content, prev |-> Genesis, hash |-> EvidenceHash(Genesis, content)]
      BY DEF ScriptRow
    <3> HIDE DEF content
    <3>2. ProbeRow.content = [content EXCEPT !.error = "token-probe"]
      BY <3>1 DEF ProbeRow
    <3>3. QED
      BY <3>2 DEF content
  <2>3. "server" \in DOMAIN ScriptRow.content /\ "server" \in DOMAIN ProbeRow.content
    BY <2>1, <2>2 DEF Segment
  <2>4. QED
    BY <2>3, ScriptRows
<1>6. \A row \in {ScriptRow, ProbeRow} : row.content.server \notin Servers
  BY <1>5, EvidenceAssumption
<1>7. CopiesInv'
  <2>1. CASE table' = table
    BY <1>1, <1>3, <2>1 DEF CopiesInv
  <2>2. CASE \E row \in {ScriptRow, ProbeRow} : Commit(row)
    BY <1>1, <1>3, <1>5, <1>6, <2>2, CommitCopies
  <2>3. QED
    BY <1>4, <2>1, <2>2
<1>8. SinksInv'
  <2>1. PICK request : /\ limbo' \in {limbo, limbo \cup {request}}
                       /\ request.row \in {ScriptRow, ProbeRow}
    BY <1>4
  <2>2. \A late \in limbo' :
            /\ late.row.content.tier = "evidence" /\ "server" \in DOMAIN late.row.content
            /\ late.row.content.server \in Servers \cup {Script}
    BY <1>1, <1>5, <2>1 DEF SinksInv
  <2>3. QED
    BY <1>1, <1>3, <2>2 DEF SinksInv, sinks
<1>9. ASSUME NEW t \in Servers
      PROVE  SinkUntouched(t) /\ RowsUntouched(t) /\ LimboUntouched(t)
  <2>1. SinkUntouched(t)
    BY <1>3 DEF SinkUntouched, sinks
  <2>2. RowsUntouched(t)
    <3>1. CASE UNCHANGED <<table, tokens>>
      BY <3>1, DatabaseFixed
    <3>2. CASE \E row \in {ScriptRow, ProbeRow} : Commit(row)
      <4>1. PICK row \in {ScriptRow, ProbeRow} : Commit(row)
        BY <3>2
      <4>2. row.content.server # t
        BY <1>6, <1>9
      <4>3. QED
        BY <4>1, <4>2, CommitOther DEF RowsUntouched
    <3>3. QED
      BY <1>4, <3>1, <3>2
  <2>3. LimboUntouched(t)
    BY <1>4, <1>6, <1>9 DEF LimboUntouched
  <2>4. QED
    BY <2>1, <2>2, <2>3
<1>10. LineInv'
  <2>1. Script \notin Servers
    BY EvidenceAssumption
  <2>2. QED
    BY <1>1, <1>9, <2>1, LineOthers
<1>11. QED
  BY <1>2, <1>7, <1>8, <1>10 DEF ChainsInv

LEMMA ChainsInit == Init => ChainsInv
<1> SUFFICES ASSUME Init PROVE ChainsInv
  OBVIOUS
<1>1. Verdict
  BY VerdictInit
<1>2. SinksInv
  <2>1. Unread \in [run : Nat, high : Nat \cup {None}]
    BY DEF Unread
  <2>2. QED
    BY <2>1 DEF Init, SinksInv
<1>3. \A row \in Earlier : row.content.tier # "evidence"
  BY EvidenceAssumption
<1>4. LineInv
  <2>1. ASSUME NEW s \in Servers PROVE Recorded(s, <<>>, 0, 0)
    <3>1. /\ RowsOf(s) = {} /\ spool[s] = <<>> /\ tokens = {} /\ limbo = {}
          /\ stage[s] = "down" /\ run[s] = 0 /\ mark[s].high = None
      BY <1>3 DEF Init, RowsOf, Unread
    <3>2. <<>> \in Seq(Segments(s)) /\ Len(<<>>) = 0 /\ 1..0 = {}
      BY EmptySeq
    <3>3. Line(s, <<>>) /\ Started(s, <<>>) /\ Marked(s, <<>>, 0)
      BY <3>1, <3>2 DEF Line, Started, Marked
    <3>4. StoredTo(s, <<>>, 0)
      BY <3>1, <3>2 DEF StoredTo
    <3>5. Waiting(s, <<>>, 0)
      <4>1. Queue(<<>>, 0) = <<>>
        BY <3>2 DEF Queue
      <4>2. QED
        BY <3>1, <4>1 DEF Waiting
    <3>6. QED
      BY <3>2, <3>3, <3>4, <3>5 DEF Recorded
  <2>2. ASSUME NEW s \in Servers PROVE <<>> \in Seq(Segments(s))
    OBVIOUS
  <2>3. QED
    BY <2>1, <2>2 DEF LineInv
<1>5. CopiesInv
  <2>1. ASSUME NEW p \in table
        PROVE  p.row \in Earlier /\ p = [row |-> p.row, copy |-> 1] /\ p.copy = 1
    <3>1. PICK r \in Earlier : p = [row |-> r, copy |-> 1]
      BY DEF Init
    <3>2. QED
      BY <3>1
  <2>2. ASSUME NEW row PROVE IsFiniteSet({p \in table : p.row = row})
    <3>1. {p \in table : p.row = row} \subseteq {[row |-> row, copy |-> 1]}
      BY <2>1
    <3>2. IsFiniteSet({[row |-> row, copy |-> 1]})
      BY FS_Singleton
    <3>3. QED
      BY <3>1, <3>2, FS_Subset
  <2>3. ASSUME NEW p \in table
        PROVE  /\ p.copy \in Nat \ {0} /\ ~(p.copy > 1) /\ p.copy = 1
               /\ p.row.content.tier # "evidence"
    BY <1>3, <2>1
  <2>4. QED
    BY <2>2, <2>3 DEF CopiesInv
<1>6. QED
  BY <1>1, <1>2, <1>4, <1>5 DEF ChainsInv

LEMMA ChainsNext == ChainsInv /\ [Next]_vars => ChainsInv'
<1>1. ASSUME ChainsInv, UNCHANGED vars PROVE ChainsInv'
  <2>1. UNCHANGED <<windowed, table, tokens, limbo, stage, run, seq, head, spool, mark, step>>
    BY <1>1 DEF vars, database, sinks
  <2>2. Verdict'
    BY <1>1, VerdictNext DEF ChainsInv
  <2>3. \A s \in Servers : SinkUntouched(s) /\ RowsUntouched(s) /\ LimboUntouched(s)
    BY <2>1 DEF SinkUntouched, RowsUntouched, LimboUntouched, RowsOf
  <2>4. LineInv'
    <3>1. LineInv /\ Script \notin Servers
      BY <1>1, EvidenceAssumption DEF ChainsInv
    <3>2. QED
      BY <2>3, <3>1, LineOthers
  <2>5. SinksInv' /\ CopiesInv'
    BY <1>1, <2>1 DEF ChainsInv, SinksInv, CopiesInv
  <2>6. QED
    BY <2>2, <2>4, <2>5 DEF ChainsInv
<1>2. QED
  BY <1>1, ChainsSink, ChainsLate, ChainsScript DEF Next

LEMMA ChainsAlways == Spec => []ChainsInv
BY ChainsInit, ChainsNext, PTL DEF Spec

----------------------------------------------------------------------------
(* What verify_audit.py makes of a sink's chain.                           *)

Positions(s) == {p \in table : p.row \in RowsOf(s)}

RowsAt(Q) == [p \in Q |-> p.row]

(* It is given the rows of that sink, whatever else is kept of the table.  *)
LEMMA ChainOfSink ==
    ASSUME CopiesInv, NEW s \in Servers, NEW Q \in SUBSET table, NEW chain,
           chain = ChainOf(RowsAt(Q), <<"evidence", s>>)
    PROVE  /\ chain = [p \in Q \cap Positions(s) |-> p.row]
           /\ Q \cap Positions(s) # {} =>
                 Report(RowsAt(Q))[<<"evidence", s>>] = Issues(chain)
<1> DEFINE T == RowsAt(Q)
           key == <<"evidence", s>>
<1>1. DOMAIN T = Q /\ \A p \in Q : T[p] = p.row
  BY DEF RowsAt
<1>2. "" \notin Servers
  BY EvidenceAssumption
<1>3. ASSUME NEW p \in Q PROVE GroupKey(p.row) = key <=> p \in Positions(s)
  <2>1. p.row.content.tier = "evidence" => "server" \in DOMAIN p.row.content
    BY DEF CopiesInv
  <2>2. GroupKey(p.row) = key <=> p.row.content.tier = "evidence" /\ p.row.content.server = s
    BY <2>1 DEF GroupKey
  <2>3. QED
    BY <2>2 DEF Positions, RowsOf
<1> HIDE DEF T
<1>4. \A p \in Q : GroupKey(T[p]) = key <=> p \in Positions(s)
  BY <1>1, <1>3
<1>5. {p \in DOMAIN T : GroupKey(T[p]) = key} = Q \cap Positions(s)
  BY <1>1, <1>4
<1>6. chain = [p \in Q \cap Positions(s) |-> p.row]
  <2>1. chain = [p \in {q \in DOMAIN T : GroupKey(T[q]) = key} |-> T[p]]
    BY DEF ChainOf, T
  <2>2. QED
    BY <1>1, <1>5, <2>1
<1>7. WriterIssue(chain) = {}
  <2>1. ASSUME NEW p \in DOMAIN chain PROVE GroupKey(chain[p]) # <<"evidence", "">>
    <3>1. GroupKey(chain[p]) = key
      BY <1>1, <1>4, <1>6, <2>1
    <3>2. key # <<"evidence", "">>
      BY <1>2
    <3> HIDE DEF key
    <3>3. QED
      BY <3>1, <3>2
  <2>2. {p \in DOMAIN chain : GroupKey(chain[p]) = <<"evidence", "">>} = {}
    BY <2>1
  <2>3. QED
    BY <2>2, Zenon DEF WriterIssue
<1>8. Q \cap Positions(s) # {} => key \in Chains(T)
  BY <1>1, <1>4 DEF Chains
<1>9. key \in Chains(T) => Report(T)[key] = Issues(chain)
  <2>1. key \in Chains(T) => Report(T)[key] = Issues(ChainOf(T, key)) \cup WriterIssue(ChainOf(T, key))
    BY DEF Report
  <2>2. QED
    BY <1>7, <2>1 DEF T
<1>10. QED
  BY <1>6, <1>8, <1>9 DEF T

(* The rows of a line, where they are stored.                              *)
LEMMA RowsOfLine ==
    ASSUME NEW s, NEW full, NEW landed \in Nat, Line(s, full), StoredTo(s, full, landed),
           landed <= Len(full)
    PROVE  /\ \A p \in Positions(s) : \E k \in 1..landed : p.row = RowAt(full, k)
           /\ \A k \in 1..landed : \E p \in Positions(s) : p.row = RowAt(full, k)
           /\ \A k \in 1..landed : k \in 1..Len(full) /\ RowAt(full, k) \in RowsOf(s)
           /\ \A p, q \in Positions(s) : p.row.hash = q.row.hash => p.row = q.row
           /\ \A p \in Positions(s) :
                 p.row.hash # Genesis /\ ComputeRowHash(p.row.prev, p.row.content) = p.row.hash
<1>1. full \in Seq(Segments(s)) /\ Len(full) \in Nat
  BY LenProperties DEF Line
<1>2. \A k \in 1..landed : k \in 1..Len(full)
  BY <1>1
<1>3. RowsOf(s) = {RowAt(full, k) : k \in 1..landed}
  BY DEF StoredTo
<1>4. \A p \in Positions(s) : \E k \in 1..landed : p.row = RowAt(full, k)
  BY <1>3 DEF Positions
<1>5. \A row \in RowsOf(s) : \E p \in table : p.row = row
  BY DEF RowsOf
<1>6. \A k \in 1..landed : \E p \in Positions(s) : p.row = RowAt(full, k)
  BY <1>3, <1>5 DEF Positions
<1>7. ASSUME NEW p \in Positions(s), NEW q \in Positions(s), p.row.hash = q.row.hash
      PROVE  p.row = q.row
  <2>1. PICK k \in 1..landed : p.row = RowAt(full, k)
    BY <1>4
  <2>2. PICK l \in 1..landed : q.row = RowAt(full, l)
    BY <1>4
  <2>3. k = l
    BY <1>1, <1>2, <1>7, <2>1, <2>2, RowsDiffer
  <2>4. QED
    BY <2>1, <2>2, <2>3
<1>8. ASSUME NEW p \in Positions(s)
      PROVE  p.row.hash # Genesis /\ ComputeRowHash(p.row.prev, p.row.content) = p.row.hash
  <2>1. PICK k \in 1..landed : p.row = RowAt(full, k)
    BY <1>4
  <2>2. k \in 1..Len(full)
    BY <1>2
  <2>3. RowAt(full, k).hash # Genesis
    BY <1>1, <2>2, RowLinks
  <2>4. RowAt(full, k).hash = Append(RowAt(full, k).prev, RowAt(full, k).content)
    BY <1>1, <2>2, RowFields
  <2>5. QED
    BY <2>1, <2>3, <2>4 DEF ComputeRowHash
<1>9. QED
  BY <1>2, <1>3, <1>4, <1>6, <1>7, <1>8

(* The whole chain of a sink has no fault but second copies.               *)
LEMMA OnlyCopiesReported ==
    ASSUME NEW s, NEW full, NEW landed \in Nat, Line(s, full), StoredTo(s, full, landed),
           landed <= Len(full), NEW chain, chain = [p \in Positions(s) |-> p.row]
    PROVE  /\ DuplicateRows(chain)
                 = {p \in Positions(s) : \E q \in Positions(s) \ {p} : q.row = p.row}
           /\ Issues(chain)
                 = {[type |-> "duplicate_row", row_hash |-> p.row.hash] : p \in DuplicateRows(chain)}
<1>1. full \in Seq(Segments(s))
  BY DEF Line
<1>2. /\ \A p \in Positions(s) : \E k \in 1..landed : p.row = RowAt(full, k)
      /\ \A k \in 1..landed : \E p \in Positions(s) : p.row = RowAt(full, k)
      /\ \A k \in 1..landed : k \in 1..Len(full)
      /\ \A p, q \in Positions(s) : p.row.hash = q.row.hash => p.row = q.row
      /\ \A p \in Positions(s) :
            p.row.hash # Genesis /\ ComputeRowHash(p.row.prev, p.row.content) = p.row.hash
  BY RowsOfLine
<1>3. DOMAIN chain = Positions(s) /\ \A p \in Positions(s) : chain[p] = p.row
  OBVIOUS
<1>4. Hashed(chain) = Positions(s)
  BY <1>2, <1>3 DEF Hashed
<1>5. HashesOf(chain) = {RowAt(full, k).hash : k \in 1..landed}
  <2>1. HashesOf(chain) = {p.row.hash : p \in Positions(s)}
    BY <1>3, <1>4 DEF HashesOf
  <2>2. {p.row.hash : p \in Positions(s)} = {RowAt(full, k).hash : k \in 1..landed}
    BY <1>2
  <2>3. QED
    BY <2>1, <2>2
<1>6. DuplicateRows(chain) = {p \in Positions(s) : \E q \in Positions(s) \ {p} : q.row = p.row}
  <2>1. DuplicateRows(chain)
           = {p \in Positions(s) : \E q \in Positions(s) \ {p} : q.row.hash = p.row.hash}
    BY <1>3, <1>4 DEF DuplicateRows
  <2>2. \A p \in Positions(s), q \in Positions(s) : q.row.hash = p.row.hash <=> q.row = p.row
    BY <1>2
  <2>3. QED
    BY <2>1, <2>2
<1>7. ContentEdits(chain) = {}
  BY <1>2, <1>3, <1>4 DEF ContentEdits
<1>8. ASSUME NEW k \in 1..landed
      PROVE  /\ RowAt(full, k).prev = Genesis <=> k = 1
             /\ k > 1 => k - 1 \in 1..landed /\ RowAt(full, k).prev = RowAt(full, k - 1).hash
  <2>1. k \in 1..Len(full)
    BY <1>2
  <2>2. QED
    BY <1>1, <2>1, RowLinks
<1>9. MissingPredecessors(chain) = {}
  <2>1. ASSUME NEW p \in Positions(s), p.row.prev # Genesis
        PROVE  p.row.prev \in HashesOf(chain)
    <3>1. PICK k \in 1..landed : p.row = RowAt(full, k)
      BY <1>2
    <3>2. k > 1
      BY <1>8, <2>1, <3>1
    <3>3. QED
      BY <1>5, <1>8, <3>1, <3>2
  <2>2. QED
    BY <1>3, <1>4, <2>1 DEF MissingPredecessors
<1>10. ASSUME NEW S \in SUBSET HashesOf(chain), ClosedUnderChildren(chain, S)
       PROVE  \A k \in 1..landed : RowAt(full, k).hash \in S
  <2> DEFINE outside == {k \in 1..landed : RowAt(full, k).hash \notin S}
  <2>1. SUFFICES ASSUME outside # {} PROVE FALSE
    OBVIOUS
  <2>2. outside \in SUBSET Nat
    OBVIOUS
  <2>3. \E k \in outside : \A l \in outside : k <= l
    <3> HIDE DEF outside
    <3>1. QED
      BY <2>1, <2>2, Lowest
  <2>4. PICK k \in 1..landed : RowAt(full, k).hash \notin S /\ \A l \in outside : k <= l
    BY <2>3
  <2>5. PICK p \in Positions(s) : p.row = RowAt(full, k)
    BY <1>2
  <2>6. RowAt(full, k).prev \in S \cup {Genesis}
    <3>1. CASE k = 1
      BY <1>8, <3>1
    <3>2. CASE k > 1
      <4>1. k - 1 \in 1..landed /\ RowAt(full, k).prev = RowAt(full, k - 1).hash
        BY <1>8, <3>2
      <4>2. k - 1 \notin outside
        BY <2>4, <4>1
      <4>3. QED
        BY <4>1, <4>2
    <3>3. QED
      BY <3>1, <3>2
  <2>7. RowAt(full, k).hash \in S
    BY <1>3, <1>4, <1>10, <2>5, <2>6 DEF ClosedUnderChildren
  <2>8. QED
    BY <2>4, <2>7
<1>11. UnreachableRows(chain) = {}
  <2>1. ASSUME NEW p \in Positions(s) PROVE p.row.hash \in Reachable(chain)
    <3>1. PICK k \in 1..landed : p.row = RowAt(full, k)
      BY <1>2
    <3>2. QED
      BY <1>5, <1>10, <3>1 DEF Reachable
  <2>2. QED
    BY <1>3, <1>4, <2>1 DEF UnreachableRows
<1>12. \A p \in DuplicateRows(chain) : chain[p].hash = p.row.hash
  BY <1>3, <1>6
<1>13. Issues(chain) = {[type |-> "duplicate_row", row_hash |-> p.row.hash] : p \in DuplicateRows(chain)}
  <2>1. /\ {[type |-> "content_edit", row_hash |-> chain[i].hash] : i \in ContentEdits(chain)} = {}
        /\ {[type |-> "missing_predecessor", row_hash |-> chain[i].hash] :
               i \in MissingPredecessors(chain)} = {}
        /\ {[type |-> "unreachable", row_hash |-> chain[i].hash] : i \in UnreachableRows(chain)} = {}
    BY <1>7, <1>9, <1>11, Zenon
  <2>2. {[type |-> "duplicate_row", row_hash |-> chain[i].hash] : i \in DuplicateRows(chain)}
           = {[type |-> "duplicate_row", row_hash |-> p.row.hash] : p \in DuplicateRows(chain)}
    BY <1>12
  <2>3. QED
    BY <2>1, <2>2 DEF Issues
<1>14. QED
  BY <1>6, <1>13

----------------------------------------------------------------------------
(* Copies of a row are what the duplicates are made of.                    *)
LEMMA CopiesAreDuplicates ==
    ASSUME ChainsInv, NEW s \in Servers
    PROVE  {p.row.hash : p \in {q \in Positions(s) : \E r \in Positions(s) \ {q} : r.row = q.row}}
              = {p.row.hash : p \in {q \in table : q.row \in RowsOf(s) /\ q.copy > 1}}
<1> DEFINE doubled == {q \in Positions(s) : \E r \in Positions(s) \ {q} : r.row = q.row}
           copied == {q \in table : q.row \in RowsOf(s) /\ q.copy > 1}
<1>1. /\ \A p \in table : p = [row |-> p.row, copy |-> p.copy]
      /\ \A p \in table : p.copy \in Nat \ {0}
      /\ \A p \in table : p.copy > 1 => \E q \in table : q.row = p.row /\ q.copy = 1
  BY DEF ChainsInv, Verdict, ScriptInv, CopiesInv
<1>2. ASSUME NEW p \in doubled PROVE \E q \in copied : q.row = p.row
  <2>1. PICK q \in Positions(s) : q # p /\ q.row = p.row
    OBVIOUS
  <2>2. p \in table /\ q \in table /\ p.row \in RowsOf(s) /\ q.row \in RowsOf(s)
    BY <2>1 DEF Positions
  <2>3. p.copy # q.copy
    BY <1>1, <2>1, <2>2
  <2>4. p.copy > 1 \/ q.copy > 1
    BY <1>1, <2>2, <2>3
  <2>5. QED
    BY <2>1, <2>2, <2>4
<1>3. ASSUME NEW p \in copied PROVE p \in doubled
  <2>1. PICK q \in table : q.row = p.row /\ q.copy = 1
    BY <1>1
  <2>2. q # p /\ p \in Positions(s) /\ q \in Positions(s)
    BY <2>1 DEF Positions
  <2>3. QED
    BY <2>1, <2>2
<1> HIDE DEF doubled, copied
<1>4. {p.row.hash : p \in doubled} = {p.row.hash : p \in copied}
  BY <1>2, <1>3
<1>5. QED
  BY <1>4 DEF doubled, copied

LEMMA LinesAreChains == ChainsInv => OneChainPerWriter
<1> SUFFICES ASSUME ChainsInv, NEW s \in Servers
             PROVE  /\ \A a, b \in RowsOf(s) : a.prev = b.prev => a = b
                    /\ LET copied == {p \in table : p.row \in RowsOf(s) /\ p.copy > 1}
                       IN  /\ windowed => copied = {}
                           /\ RowsOf(s) # {} =>
                                 {i.row_hash : i \in Report(Physical)[<<"evidence", s>>]}
                                    = {p.row.hash : p \in copied}
  BY DEF OneChainPerWriter
<1> DEFINE copied == {p \in table : p.row \in RowsOf(s) /\ p.copy > 1}
<1>1. PICK full \in Seq(Segments(s)), base \in Nat, landed \in Nat :
          Recorded(s, full, base, landed)
  BY DEF ChainsInv, LineInv
<1>2. Line(s, full) /\ StoredTo(s, full, landed) /\ landed <= Len(full)
  BY <1>1 DEF Recorded
<1>3. ASSUME NEW a \in RowsOf(s), NEW b \in RowsOf(s), a.prev = b.prev PROVE a = b
  <2>1. PICK k \in 1..landed : a = RowAt(full, k)
    BY <1>2 DEF StoredTo
  <2>2. PICK l \in 1..landed : b = RowAt(full, l)
    BY <1>2 DEF StoredTo
  <2>3. k \in 1..Len(full) /\ l \in 1..Len(full)
    BY <1>2, RowsOfLine
  <2>4. k = l
    BY <1>3, <2>1, <2>2, <2>3, RowsDiffer
  <2>5. QED
    BY <2>1, <2>2, <2>4
<1>4. windowed => copied = {}
  <2>1. SUFFICES ASSUME windowed, NEW p \in copied PROVE FALSE
    OBVIOUS
  <2>2. p.row.content.tier = "evidence" /\ p.row.content.server \in Servers
    BY DEF RowsOf
  <2>3. p.copy = 1
    BY <2>1, <2>2 DEF ChainsInv, CopiesInv
  <2>4. QED
    BY <2>3
<1>5. ASSUME RowsOf(s) # {}
      PROVE  {i.row_hash : i \in Report(Physical)[<<"evidence", s>>]} = {p.row.hash : p \in copied}
  <2>1. PICK chain : chain = ChainOf(RowsAt(table), <<"evidence", s>>)
    OBVIOUS
  <2>2. Positions(s) # {} /\ table \cap Positions(s) = Positions(s)
    BY <1>5 DEF Positions, RowsOf
  <2>3. /\ chain = [p \in table \cap Positions(s) |-> p.row]
        /\ Report(RowsAt(table))[<<"evidence", s>>] = Issues(chain)
    BY <2>1, <2>2, ChainOfSink DEF ChainsInv
  <2>4. chain = [p \in Positions(s) |-> p.row]
    BY <2>2, <2>3
  <2> DEFINE doubled == {p \in Positions(s) : \E q \in Positions(s) \ {p} : q.row = p.row}
  <2>5. Issues(chain) = {[type |-> "duplicate_row", row_hash |-> p.row.hash] : p \in doubled}
    <3>1. /\ DuplicateRows(chain) = doubled
          /\ Issues(chain)
                = {[type |-> "duplicate_row", row_hash |-> p.row.hash] : p \in DuplicateRows(chain)}
      BY <1>2, <2>4, OnlyCopiesReported
    <3> HIDE DEF doubled
    <3>2. QED
      BY <3>1
  <2>6. {p.row.hash : p \in doubled} = {p.row.hash : p \in copied}
    BY CopiesAreDuplicates
  <2> HIDE DEF doubled, copied
  <2>7. {i.row_hash : i \in Issues(chain)} = {p.row.hash : p \in doubled}
    <3> DEFINE issue(h) == [type |-> "duplicate_row", row_hash |-> h]
    <3>1. \A h : issue(h).row_hash = h
      OBVIOUS
    <3>2. Issues(chain) = {issue(p.row.hash) : p \in doubled}
      BY <2>5
    <3> HIDE DEF issue
    <3>3. QED
      BY <3>1, <3>2
  <2>8. RowsAt(table) = Physical
    BY DEF RowsAt, Physical
  <2>9. QED
    BY <2>3, <2>6, <2>7, <2>8
<1>6. QED
  BY <1>3, <1>4, <1>5

(* The first row kept after a deleted one names a row that is gone.        *)
LEMMA LinesMissRows == ChainsInv => DeletedRunsSeen
<1> SUFFICES ASSUME ChainsInv, NEW s \in Servers, NEW D \in SUBSET RowsOf(s),
                    NEW kept \in RowsOf(s) \ D, NEW deleted \in D, Later(kept, deleted)
             PROVE  Report([p \in {q \in table : q.row \notin D} |-> p.row])[<<"evidence", s>>] # {}
  BY DEF DeletedRunsSeen
<1>1. PICK full \in Seq(Segments(s)), base \in Nat, landed \in Nat :
          Recorded(s, full, base, landed)
  BY DEF ChainsInv, LineInv
<1>2. Line(s, full) /\ StoredTo(s, full, landed) /\ landed <= Len(full)
  BY <1>1 DEF Recorded
<1>3. /\ \A p \in Positions(s) : \E k \in 1..landed : p.row = RowAt(full, k)
      /\ \A k \in 1..landed : \E p \in Positions(s) : p.row = RowAt(full, k)
      /\ \A k \in 1..landed : k \in 1..Len(full) /\ RowAt(full, k) \in RowsOf(s)
      /\ \A p, q \in Positions(s) : p.row.hash = q.row.hash => p.row = q.row
      /\ \A p \in Positions(s) : p.row.hash # Genesis
  BY <1>2, RowsOfLine
<1>4. PICK d \in 1..landed : deleted = RowAt(full, d)
  BY <1>2 DEF StoredTo
<1>5. PICK k \in 1..landed : kept = RowAt(full, k)
  BY <1>2 DEF StoredTo
<1>6. d < k
  <2>1. k \in 1..Len(full) /\ d \in 1..Len(full)
    BY <1>3
  <2>2. kept.content = full[k] /\ deleted.content = full[d]
    BY <1>4, <1>5, <2>1, RowFields
  <2>3. /\ full[k].run \in Nat /\ full[k].seq \in Nat
        /\ full[d].run \in Nat /\ full[d].seq \in Nat
    BY <1>2, <2>1, TokensDiffer
  <2>4. Before(full[d], full[k])
    BY <2>2, <2>3 DEF Later, Before
  <2>5. QED
    BY <1>2, <2>1, <2>4, TokensDiffer
<1> DEFINE keptLater == {m \in 1..landed : m > d /\ RowAt(full, m) \notin D}
<1>7. \E m \in keptLater : \A n \in keptLater : m <= n
  <2>1. keptLater \in SUBSET Nat /\ k \in keptLater
    BY <1>5, <1>6
  <2> HIDE DEF keptLater
  <2>2. QED
    BY <2>1, Lowest
<1>8. PICK m \in 1..landed : m > d /\ RowAt(full, m) \notin D /\ \A n \in keptLater : m <= n
  BY <1>7
<1>9. m - 1 \in 1..landed /\ m > 1 /\ RowAt(full, m - 1) \in D
  <2>1. m - 1 \in 1..landed /\ m > 1 /\ (m - 1 = d \/ m - 1 > d)
    BY <1>8
  <2>2. m - 1 \notin keptLater
    BY <1>8
  <2>3. QED
    BY <1>4, <2>1, <2>2
<1>10. RowAt(full, m).prev = RowAt(full, m - 1).hash /\ RowAt(full, m).prev # Genesis
  BY <1>3, <1>9, RowLinks
<1>11. PICK p \in Positions(s) : p.row = RowAt(full, m)
  BY <1>3
<1>12. PICK gone \in Positions(s) : gone.row = RowAt(full, m - 1)
  BY <1>3, <1>9
<1> DEFINE Q == {q \in table : q.row \notin D}
<1>13. Q \in SUBSET table /\ p \in Q \cap Positions(s) /\ \A q \in Q : q.row \notin D
  BY <1>8, <1>11 DEF Positions
<1>14. [q \in Q |-> q.row] = RowsAt(Q)
  BY DEF RowsAt
<1> HIDE DEF Q
<1>15. PICK chain : chain = ChainOf(RowsAt(Q), <<"evidence", s>>)
  OBVIOUS
<1>16. /\ chain = [q \in Q \cap Positions(s) |-> q.row]
       /\ Report(RowsAt(Q))[<<"evidence", s>>] = Issues(chain)
  BY <1>13, <1>15, ChainOfSink DEF ChainsInv
<1>17. p \in MissingPredecessors(chain)
  <2>1. /\ DOMAIN chain = Q \cap Positions(s)
        /\ \A q \in Q \cap Positions(s) : chain[q] = q.row
    BY <1>16
  <2>2. Hashed(chain) = Q \cap Positions(s)
    BY <1>3, <2>1 DEF Hashed
  <2>3. ASSUME NEW q \in Q \cap Positions(s) PROVE q.row.hash # RowAt(full, m).prev
    <3>1. SUFFICES ASSUME q.row.hash = gone.row.hash PROVE FALSE
      BY <1>10, <1>12
    <3>2. q.row = gone.row
      BY <1>3, <3>1
    <3>3. QED
      BY <1>9, <1>12, <1>13, <3>2
  <2>4. RowAt(full, m).prev \notin HashesOf(chain)
    BY <2>1, <2>2, <2>3 DEF HashesOf
  <2>5. QED
    BY <1>10, <1>11, <1>13, <2>1, <2>2, <2>4 DEF MissingPredecessors
<1>18. Issues(chain) # {}
  <2>1. [type |-> "missing_predecessor", row_hash |-> chain[p].hash] \in Issues(chain)
    BY <1>17 DEF Issues
  <2>2. QED
    BY <2>1
<1>19. QED
  BY <1>14, <1>16, <1>18 DEF Q

(* For any number of sinks, runs, segments and timeouts: the stored rows   *)
(* of a sink are one line from one root, and verify_audit.py reports of    *)
(* them the second copies, which the window does not let in, and nothing   *)
(* else (docs/audit-evidence-ingestion.md:157-166, verify_audit.py:11-15). *)
THEOREM OneChainAlways == Spec => []OneChainPerWriter
BY ChainsAlways, LinesAreChains, PTL

(* Rows deleted from a sink's chain are reported while one later row of it *)
(* is kept, whole runs included (verify_audit.py:11-19).                   *)
THEOREM DeletedRunsAlwaysSeen == Spec => []DeletedRunsSeen
BY ChainsAlways, LinesMissRows, PTL
=============================================================================
