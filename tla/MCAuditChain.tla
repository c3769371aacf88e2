---------------------------- MODULE MCAuditChain ----------------------------
(* Instances of AuditChain for TLC.                                        *)
EXTENDS AuditChain, TLC

CONSTANTS t1, t2, t3, b1, b2

OneLegacy == {[ts |-> 0, body |-> b1]}

\* The threads are interchangeable.
ThreadSymmetry == Permutations(Threads)
=============================================================================
