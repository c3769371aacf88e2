---------------------------- MODULE AuditVerify ----------------------------
(***************************************************************************)
(* The hash chain of the ssdf.audit table and its offline verifier:        *)
(* audit_chain.py and verify_tier of verify_audit.py.                      *)
(*                                                                         *)
(* SHA-256 is taken to be free of collisions, and is modelled by what that *)
(* means: the hash of a row determines the predecessor's hash and the      *)
(* row's content.  The hash is therefore the sequence of the contents from *)
(* the chain's first row on, and the empty hash "" of the code is the      *)
(* empty sequence.                                                         *)
(*                                                                         *)
(* A table is a function T from the positions of the physical rows to the  *)
(* rows, so that two identical rows can be stored twice.                   *)
(***************************************************************************)
EXTENDS Naturals, Sequences

Genesis == <<>>                         \* prev_hash = "" and row_hash = ""

ComputeRowHash(prev, content) == Append(prev, content)

\* A row as record() completes it: the business fields, linked to prev.
Link(prev, content) ==
    [content |-> content, prev |-> prev, hash |-> ComputeRowHash(prev, content)]

\* A row written before migration 009: both hash columns hold the default "".
Unhashed(content) == [content |-> content, prev |-> Genesis, hash |-> Genesis]

----------------------------------------------------------------------------
(* The four checks of verify_tier.                                         *)

Hashed(T) == {i \in DOMAIN T : T[i].hash # Genesis}

HashesOf(T) == {T[i].hash : i \in Hashed(T)}

\* A bug: rows are duplicates when they continue the same row.
DuplicateByPrev(T) ==
    {i \in Hashed(T) : \E j \in Hashed(T) \ {i} : T[j].prev = T[i].prev}

DuplicateRows(T) ==
    {i \in Hashed(T) : \E j \in Hashed(T) \ {i} : T[j].hash = T[i].hash}

\* A bug: the first row of a chain is not rehashed.
ContentEditsOfLinked(T) ==
    {i \in Hashed(T) :
        T[i].prev # Genesis /\ ComputeRowHash(T[i].prev, T[i].content) # T[i].hash}

ContentEdits(T) ==
    {i \in Hashed(T) : ComputeRowHash(T[i].prev, T[i].content) # T[i].hash}

MissingPredecessors(T) ==
    {i \in Hashed(T) : T[i].prev # Genesis /\ T[i].prev \notin HashesOf(T)}

\* A set of hashes the traversal may stop at: it holds the hash of every row
\* that continues genesis or a member of the set.
ClosedUnderChildren(T, S) ==
    \A i \in Hashed(T) : T[i].prev \in S \cup {Genesis} => T[i].hash \in S

\* What the stack loop of verify_tier collects is the least closed set.
Reachable(T) ==
    {h \in HashesOf(T) :
        \A S \in SUBSET HashesOf(T) : ClosedUnderChildren(T, S) => h \in S}

UnreachableRows(T) == {i \in Hashed(T) : T[i].hash \notin Reachable(T)}

\* verify_tier(rows): each issue names its kind and the row's hash.
Issues(T) ==
    {[type |-> "duplicate_row",       row_hash |-> T[i].hash] : i \in DuplicateRows(T)}
    \cup
    {[type |-> "content_edit",        row_hash |-> T[i].hash] : i \in ContentEdits(T)}
    \cup
    {[type |-> "missing_predecessor", row_hash |-> T[i].hash] : i \in MissingPredecessors(T)}
    \cup
    {[type |-> "unreachable",         row_hash |-> T[i].hash] : i \in UnreachableRows(T)}

VerifiesClean(T) == Issues(T) = {}
=============================================================================
