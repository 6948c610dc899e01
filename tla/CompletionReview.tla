-------------------------- MODULE CompletionReview --------------------------
(***************************************************************************)
(* The review of a provisional final answer: CompletionChallengeState of   *)
(* agent_loop.rs and the capacity gates of completion_review.rs and        *)
(* finish_controller.rs.  Pure operators on a challenge record             *)
(*   [phase, fallback, mutated];                                           *)
(* the provisional text itself is abstracted to its presence (fallback).   *)
(***************************************************************************)
EXTENDS FinishController, Sequences

CONSTANTS
    MaxTurns,           \* spec.provider.max_turns
    MaxCalls,           \* max_function_calls_per_run
    MaxPerResponse,     \* max_function_calls_per_response
    CheckpointTurns,    \* CONTEXT_CHECKPOINT_MIN_PROVIDER_TURNS_V1
    CheckpointHeadroom, \* CONTEXT_CHECKPOINT_MIN_REMAINING_TURNS_V1
    CheckpointReserve,  \* CONTEXT_CHECKPOINT_POST_RESET_RESERVE_V1
    FreshResponses,     \* FRESH_CRITIC_PROVIDER_RESPONSES_V1
    FreshBatches        \* FRESH_CRITIC_TOOL_BATCHES_V1

ASSUME ReviewAssumption ==
    /\ {MaxTurns, MaxCalls, MaxPerResponse} \subseteq Nat \ {0}
    /\ {CheckpointTurns, CheckpointHeadroom, CheckpointReserve} \subseteq Nat
    /\ {FreshResponses, FreshBatches} \subseteq Nat

Effects == {"readOnly", "mutating"}
\* Review phases: "NotIssued", "Validation", "Decision", "Correction", "Revalidation".
\* Tool stages: "none", "Validation", "Correction", "Revalidation".

NewChallenge == [phase |-> "NotIssued", fallback |-> FALSE, mutated |-> FALSE]

\* CompletionReviewPolicy
ReviewPolicies == {"Disabled", "FalsificationV1", "EvidenceDebtV2", "FreshV3", "CheckpointV4"}

UsesFreshContext(policy) == policy \in {"FreshV3", "CheckpointV4"}

-----------------------------------------------------------------------------
(* CompletionChallengeState *)

Issue(r) == [phase |-> "Validation", fallback |-> TRUE, mutated |-> FALSE]

Active(r) == r.phase # "NotIssued"

\* The stage the batch with these effects runs as, "none" if it has none.
ToolStage(r, effects) ==
    LET mutates == \E i \in DOMAIN effects : effects[i] = "mutating"
    IN  CASE r.phase = "Validation" -> "Validation"
          [] r.phase = "Decision" /\ mutates -> "Correction"
          [] r.phase = "Correction" /\ ~mutates -> "Revalidation"
          [] OTHER -> "none"

NextPhase == [Validation |-> "Decision", Correction |-> "Correction", Revalidation |-> "Revalidation"]

\* Mutant: a mutating stage keeps the candidate.
CommitStageKeepingFallback(r, stage, dispatched, mutated) ==
    [r EXCEPT !.phase = IF dispatched THEN NextPhase[stage] ELSE @]

\* commit_tool_stage; a stage is only admitted in the phase it belongs to.
CommitStage(r, stage, dispatched, mutated) ==
    [phase |-> IF dispatched THEN NextPhase[stage] ELSE r.phase,
     fallback |-> r.fallback /\ ~mutated,
     mutated |-> r.mutated \/ mutated]

\* Mutant: closing the review gives the candidate up.
CloseReviewDroppingFallback(r) ==
    IF Active(r) THEN [r EXCEPT !.phase = "Revalidation", !.fallback = FALSE] ELSE r

CloseReview(r) == IF Active(r) THEN [r EXCEPT !.phase = "Revalidation"] ELSE r

SafeFallback(r) == r.fallback /\ ~r.mutated
DropFallback(r) == [r EXCEPT !.fallback = FALSE]
RequiresFinalOnly(r) == r.phase = "Revalidation"

-----------------------------------------------------------------------------
(* Capacity gates.  room: the history still holds the items the path needs. *)

ReviewReserve(policy) ==
    IF UsesFreshContext(policy) THEN 3 * FinalReserve + 2 * ToolReserve + FinalReserve
                        ELSE 2 * FinalReserve + ToolReserve + FinalReserve

EnoughTime(now, required) == LastSend - now > required

HasCapacity(policy, now, turns, room) ==
    /\ policy \in {"FalsificationV1", "EvidenceDebtV2"}
    /\ MaxTurns - turns >= 2
    /\ room
    /\ EnoughTime(now, ReviewReserve(policy))

HasFreshCapacity(policy, now, turns, calls, criticUsed, room) ==
    /\ UsesFreshContext(policy)
    /\ ~criticUsed
    /\ EnoughTime(now, ReviewReserve(policy))
    /\ MaxTurns - turns >= FreshResponses
    /\ MaxCalls - calls >= FreshBatches * MaxPerResponse
    /\ room

\* large: observed tokens and history items reach the gate, and no background
\* task is unresolved.
ShouldCheckpoint(policy, now, turns, used, large) ==
    /\ policy = "CheckpointV4"
    /\ ~used
    /\ large
    /\ turns >= CheckpointTurns
    /\ MaxTurns - turns >= CheckpointHeadroom
    /\ EnoughTime(now, ReviewReserve(policy) + CheckpointReserve)
=============================================================================
