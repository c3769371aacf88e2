--------------------------- MODULE MCEntityGraph ---------------------------
(* An instance of EntityGraph for TLC: the vantage matches a rule.         *)
EXTENDS EntityGraph, TLC

CONSTANTS s1, s2, ip1, ip2, m1, m2

RuleOfOne == s1 :> "permit"

\* Addresses are interchangeable, and so are the machines.
Alike == Permutations(IPs) \cup Permutations(Macs)
=============================================================================
