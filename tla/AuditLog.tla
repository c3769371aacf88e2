------------------------------ MODULE AuditLog ------------------------------
(***************************************************************************)
(* What the audit trail promises, whoever writes it and however its writes *)
(* fail: a table that only grows, by one row at a time, each of which      *)
(* opens a chain or continues a row that is already there.  Nothing is     *)
(* promised about the order, and two rows may continue the same one.       *)
(***************************************************************************)
EXTENDS AuditVerify, FiniteSets

CONSTANTS
    Contents,       \* what a row may record
    Legacy          \* contents of the rows without a hash the table starts with

VARIABLE rows       \* the table

Positions(S) == [r \in S |-> r]

Init == rows = {Unhashed(c) : c \in Legacy}

Record(c) ==
    \E prev \in {Genesis} \cup HashesOf(Positions(rows)) :
        rows' = rows \cup {Link(prev, c)}

Next == \E c \in Contents : Record(c)

Spec == Init /\ [][Next]_rows

----------------------------------------------------------------------------
\* Such a table has no issue for verify_tier to report: every row's hash is
\* its own, its predecessor is stored, and genesis reaches it.
AlwaysClean == VerifiesClean(Positions(rows))

\* What deletions the verifier can see.  Deleting a set D of chained rows goes
\* unreported exactly when D holds every row that continues a row of D.
DeletionsSeen ==
    LET chained == {r \in rows : r.hash # Genesis}
    IN  \A D \in SUBSET chained :
            VerifiesClean(Positions(rows \ D))
                <=> \A r \in D, s \in chained : s.prev = r.hash => s \in D
=============================================================================
