------------------------ MODULE MCEvidenceIngestion ------------------------
(* An instance of EvidenceIngestion for TLC: two sinks, and the rows of one *)
(* MCP tool server already in the table.                                   *)
EXTENDS EvidenceIngestion

CONSTANTS s1, s2

\* One sink is restarted, and the other one runs beside it.
Runs == [s \in Servers |-> IF s = s1 THEN 2 ELSE 1]
SegmentsPerRun == [s \in Servers |-> IF s = s1 THEN 2 ELSE 1]

ToolRow(n) == [tier |-> "sovereign", call |-> n]

FirstCall == Link(Genesis, ToolRow(1))

TwoCalls == {FirstCall, Link(FirstCall.hash, ToolRow(2))}
=============================================================================
