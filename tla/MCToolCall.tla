----------------------------- MODULE MCToolCall -----------------------------
(* An instance of ToolCall for TLC: one principal whose token expires and  *)
(* who may not call every tool, and one without either restriction.        *)
EXTENDS ToolCall, TLC

CONSTANTS t1, t2, agent, guest, search, topology

TwoAllowed == (agent :> {search, topology}) @@ (guest :> {search})
GuestExpires == (agent :> MaxClock + 1) @@ (guest :> 1)
=============================================================================
