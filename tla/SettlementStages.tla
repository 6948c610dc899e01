-------------------------- MODULE SettlementStages --------------------------
(***************************************************************************)
(* The subdivision of the settlement reserve between actor_done and        *)
(* tool_settled into six stages: SettlementStageCutoffsV1 of               *)
(* nano-runtime/src/external_stdio.rs (derive_raw on the wire's            *)
(* nanoseconds, derive_instants on the process's own instants) and of      *)
(* adapter/stdio_bridge.py (derive).  Runtime and bridge each derive the   *)
(* cutoffs for themselves and never exchange them.                         *)
(*                                                                         *)
(* A derivation is a record [ok, cut]: whether the budget is accepted, and *)
(* the six cutoffs.  64-bit arithmetic saturates at U64Max.                *)
(***************************************************************************)
EXTENDS Integers

CONSTANTS
    NsPerMs,    \* 1_000_000
    MinStageMs, \* MIN_SETTLEMENT_STAGE_MS
    U64Max      \* 2^64 - 1

ASSUME StageAssumption ==
    /\ NsPerMs \in Nat \ {0} /\ MinStageMs \in Nat \ {0}
    /\ U64Max \in Nat /\ U64Max >= 30    \* room for a remainder times a stage

StageCount == 6
Stages == 1..StageCount
Output == 2
Encode == 3
Drain == 4
Parse == 5
HistoryCommit == 6

Word == 0..U64Max
Saturate(n) == IF n > U64Max THEN U64Max ELSE n

Increasing(cut) == \A i \in 1..(StageCount - 1) : cut[i] < cut[i + 1]

-----------------------------------------------------------------------------
(* The bridge (Python integers do not overflow). *)

BridgeCut(actorDone, toolSettled) ==
    [i \in Stages |-> actorDone + ((toolSettled - actorDone) * i) \div StageCount]

\* Mutant: a reserve below the minimum of six stages is accepted.
DeriveBridgeShort(actorDone, toolSettled, reserveMs) ==
    LET cut == BridgeCut(actorDone, toolSettled)
    IN  [ok |-> /\ 0 < actorDone /\ actorDone <= U64Max
                /\ 0 < toolSettled /\ toolSettled <= U64Max
                /\ 0 < reserveMs /\ reserveMs <= U64Max \div NsPerMs
                /\ toolSettled - actorDone = reserveMs * NsPerMs
                /\ Increasing(cut) /\ cut[StageCount] = toolSettled,
         cut |-> cut]

DeriveBridge(actorDone, toolSettled, reserveMs) ==
    LET cut == BridgeCut(actorDone, toolSettled)
    IN  [ok |-> /\ 0 < actorDone /\ actorDone <= U64Max
                /\ 0 < toolSettled /\ toolSettled <= U64Max
                /\ 0 < reserveMs /\ reserveMs <= U64Max \div NsPerMs
                /\ reserveMs >= StageCount * MinStageMs
                /\ toolSettled - actorDone = reserveMs * NsPerMs
                /\ Increasing(cut) /\ cut[StageCount] = toolSettled,
         cut |-> cut]

-----------------------------------------------------------------------------
(* The runtime: quotient and remainder instead of one product. *)

\* Mutant: the remainder is handed out a whole step too early.
RawCutRoundedUp(actorDone, toolSettled) ==
    LET span == toolSettled - actorDone
        quotient == span \div StageCount
        remainder == span % StageCount
    IN  [i \in Stages |-> Saturate(Saturate(actorDone + Saturate(quotient * i))
                                   + (Saturate(remainder * i) + StageCount - 1) \div StageCount)]

RawCut(actorDone, toolSettled) ==
    LET span == toolSettled - actorDone
        quotient == span \div StageCount
        remainder == span % StageCount
    IN  [i \in Stages |-> Saturate(Saturate(actorDone + Saturate(quotient * i))
                                   + Saturate(remainder * i) \div StageCount)]

DeriveRaw(actorDone, toolSettled, reserveMs) ==
    LET cut == RawCut(actorDone, toolSettled)
    IN  [ok |-> /\ toolSettled >= actorDone
                /\ reserveMs * NsPerMs <= U64Max
                /\ reserveMs >= Saturate(StageCount * MinStageMs)
                /\ toolSettled - actorDone = reserveMs * NsPerMs
                /\ Increasing(cut) /\ cut[StageCount] = toolSettled,
         cut |-> cut]

\* Instants have no epoch: the raw derivation is run from 1 and shifted back.
DeriveInstants(actorDone, toolSettled, reserveMs) ==
    LET span == toolSettled - actorDone
        raw == DeriveRaw(1, 1 + span, reserveMs)
        cut == [i \in Stages |-> actorDone + (raw.cut[i] - 1)]
    IN  [ok |-> /\ toolSettled >= actorDone /\ 1 + span <= U64Max
                /\ raw.ok /\ cut[StageCount] = toolSettled,
         cut |-> cut]
=============================================================================
