-------------------------- MODULE DeadlineCutoffs ---------------------------
(***************************************************************************)
(* The signed deadline of a run: adapter/deadline.py mints it and derives  *)
(* its cutoffs, nano-runtime/src/deadline.rs derives them again and        *)
(* refuses a receipt whose cutoffs are not its own.  Both take the four    *)
(* reserves one after the other from the hard deadline.  A receipt is      *)
(* [hard, timeout, reserves]; its identity and digests are left out.       *)
(***************************************************************************)
EXTENDS SettlementStages

CONSTANTS
    CleanupMs, TerminalizationMs, ProviderSendMs, ProcessSettlementMs,  \* the frozen reserves
    ReserveMs       \* bound: the reserves a receipt may carry

ASSUME ReserveAssumption ==
    /\ CleanupMs \in Word \ {0} /\ TerminalizationMs \in Word \ {0}
    /\ ProviderSendMs \in Word \ {0} /\ ProcessSettlementMs \in Word \ {0}
    /\ ReserveMs \subseteq Word

Reserves == [cleanup : ReserveMs, terminalization : ReserveMs, providerSend : ReserveMs, settlement : ReserveMs]
Frozen == [cleanup |-> CleanupMs, terminalization |-> TerminalizationMs,
           providerSend |-> ProviderSendMs, settlement |-> ProcessSettlementMs]
Receipts == [hard : Word, timeout : Word, reserves : Reserves \cup {Frozen}]

TotalMs(r) == r.cleanup + r.terminalization + r.providerSend + r.settlement
Positive(r) == r.cleanup > 0 /\ r.terminalization > 0 /\ r.providerSend > 0 /\ r.settlement > 0

(* last_send is runtime_final                                              *)
Cutoffs(hard, r) ==
    LET cleanupStart == hard - r.cleanup * NsPerMs
        runtimeFinal == cleanupStart - r.terminalization * NsPerMs
        toolSettled == runtimeFinal - r.providerSend * NsPerMs
    IN [actorDone |-> toolSettled - r.settlement * NsPerMs, toolSettled |-> toolSettled,
        runtimeFinal |-> runtimeFinal, cleanupStart |-> cleanupStart, hard |-> hard]

(* no subtraction reaches zero                                             *)
Subtracts(c) == c.cleanupStart > 0 /\ c.runtimeFinal > 0 /\ c.toolSettled > 0 /\ c.actorDone > 0

-----------------------------------------------------------------------------
(* The host (Python integers do not overflow).                             *)

ReservesValid(r) == Positive(r) /\ TotalMs(r) <= U64Max \div NsPerMs

Derive(d) ==
    LET c == Cutoffs(d.hard, d.reserves)
    IN /\ ReservesValid(d.reserves) /\ d.hard > 0
       /\ d.timeout > TotalMs(d.reserves)
       /\ Subtracts(c)
       /\ c.actorDone <= c.toolSettled /\ c.toolSettled <= c.runtimeFinal
       /\ c.runtimeFinal <= c.cleanupStart /\ c.cleanupStart <= c.hard

\* Mutant: any timeout that leaves room in the word.
MintUnreserved(now, d) ==
    /\ now > 0 /\ d.timeout > 0 /\ ReservesValid(d.reserves)
    /\ d.timeout <= (U64Max - now) \div NsPerMs
    /\ d.hard = now + d.timeout * NsPerMs

(* minted at the instant now                                               *)
Mint(now, d) ==
    /\ now > 0 /\ d.timeout > 0 /\ ReservesValid(d.reserves)
    /\ d.timeout > TotalMs(d.reserves)
    /\ d.timeout <= (U64Max - now) \div NsPerMs
    /\ d.hard = now + d.timeout * NsPerMs

-----------------------------------------------------------------------------
(* The runtime: every sum and product is checked against the word.         *)

DeriveCutoffs(d) ==
    /\ TotalMs(d.reserves) <= U64Max
    /\ d.timeout > TotalMs(d.reserves)
    /\ d.reserves.cleanup * NsPerMs <= U64Max
    /\ d.reserves.terminalization * NsPerMs <= U64Max
    /\ d.reserves.providerSend * NsPerMs <= U64Max
    /\ d.reserves.settlement * NsPerMs <= U64Max
    /\ Subtracts(Cutoffs(d.hard, d.reserves))

(* only the frozen reserves are accepted                                   *)
ValidateReceipt(d) == d.reserves = Frozen /\ DeriveCutoffs(d)
=============================================================================
