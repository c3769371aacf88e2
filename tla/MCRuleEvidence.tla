--------------------------- MODULE MCRuleEvidence ---------------------------
(* Instances of RuleEvidence for TLC: the rule in question, and another    *)
(* whose traffic makes the rollup's buckets.                               *)
EXTENDS RuleEvidence, TLC

CONSTANTS r1, r2

Alike == Permutations({r1, r2})
=============================================================================
