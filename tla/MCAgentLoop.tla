---------------------------- MODULE MCAgentLoop ----------------------------
(* Bounded instances of AgentLoop.  Times are seconds, with the reserves of *)
(* the code (90, 120, 30) and the last send at 1000; the clock stops at the *)
(* instants that separate the outcomes of the comparisons.                  *)
EXTENDS AgentLoop

AllEvents == {"context.checkpointed", "provider.requested", "provider.completed",
              "provider.failed", "tool.registered", "tool.dispatched", "tool.completed",
              "tool.failed", "assistant.final"}
NoFaults == [p \in ReviewPolicies |-> {}]
\* a refused request append right after a checkpoint is left out
Faults == [p \in ReviewPolicies |-> IF p = "CheckpointV4" THEN AllEvents \ {"provider.requested"} ELSE AllEvents]

FreshModes == {[policy |-> p, split |-> TRUE] : p \in {"FreshV3", "CheckpointV4"}}
CheckpointMode == {[policy |-> "CheckpointV4", split |-> TRUE]}
DebtModes == {[policy |-> "EvidenceDebtV2", split |-> TRUE], [policy |-> "Disabled", split |-> FALSE]}

ShortClock == {0, 1000}
FreshClock == {0, 280, 700, 910, 960, 970, 1000}
DebtClock == {0, 610, 700, 800, 910, 920, 930, 960, 965, 970, 971, 1000}
EarlyStart == {0}
AnyStart == {0, 700, 930}
=============================================================================
