-------------------------- MODULE FinishController --------------------------
(***************************************************************************)
(* The bounded finish path: nano-runtime/src/finish_controller.rs, with    *)
(* the phase and cutoff functions of agent_loop.rs that feed it.  Pure     *)
(* operators on a controller record                                        *)
(*   [state, pending, emitted, softAdmitted];                              *)
(* AgentLoop keeps the record and calls them.  commit_terminal is left     *)
(* out: the loop never calls it.                                           *)
(***************************************************************************)
EXTENDS Integers, FiniteSetsExt

CONSTANTS
    SoftTurn,       \* SOFT_FINISH_PROVIDER_TURN_V1
    FinalTurn,      \* FINAL_ONLY_PROVIDER_TURN_V1
    FinalReserve,   \* FINAL_RESPONSE_LATENCY_RESERVE_V1
    ToolReserve,    \* REVIEW_BOUNDED_TOOL_RESERVE_V1
    MinSendWindow,  \* profile.deadlines.min_provider_send_window_sec
    ActorDone,      \* signed cutoff of useful actor work
    ToolSettled,    \* signed cutoff of tool settlement
    LastSend        \* signed cutoff of the last provider send

ASSUME FinishAssumption ==
    /\ {SoftTurn, FinalTurn, FinalReserve, ToolReserve, MinSendWindow} \subseteq Nat
    /\ {ActorDone, ToolSettled, LastSend} \subseteq Nat
    /\ SoftTurn <= FinalTurn
    /\ ActorDone <= ToolSettled /\ ToolSettled <= LastSend

\* States: "ActionOpen", "SoftFinish", "FinalOnly".

NewController == [state |-> "ActionOpen", pending |-> FALSE, emitted |-> FALSE, softAdmitted |-> FALSE]

-----------------------------------------------------------------------------
(* Cutoffs.  An Instant below its epoch saturates; with cutoffs in Nat the *)
(* subtractions below are the checked_sub of the code.                     *)

SoftFinishCutoff == LastSend - (2 * FinalReserve + ToolReserve)
SoftActionCutoff == LastSend - FinalReserve
ActionCutoff == Min({ActorDone - MinSendWindow, LastSend - FinalReserve})

ReviewProviderDeadline(now) == Min({now + FinalReserve, ActorDone})
ReviewToolDeadline(now) == Min({now + ToolReserve, ToolSettled})

ProviderPhaseAt(now, finalSent) ==
    IF finalSent THEN "TerminalCommit"
    ELSE IF now < ActionCutoff THEN "ActionOpen" ELSE "FinalOnly"

\* A launch below the final-response reserve keeps one action-capable turn.
LaunchException(now) ==
    /\ now <= LastSend /\ LastSend - now < FinalReserve
    /\ now < ActorDone - MinSendWindow

InitialPhaseAt(now) ==
    IF LaunchException(now) THEN "ActionOpen" ELSE ProviderPhaseAt(now, FALSE)

-----------------------------------------------------------------------------
(* The controller's transitions. *)

Observe(f, now, turns) ==
    IF turns >= FinalTurn
    THEN IF f.state = "FinalOnly" THEN f
         ELSE [f EXCEPT !.state = "FinalOnly", !.pending = @ \/ ~f.emitted]
    ELSE IF f.state = "ActionOpen" /\ (turns >= SoftTurn \/ now >= SoftFinishCutoff)
         THEN [f EXCEPT !.state = "SoftFinish", !.pending = TRUE]
         ELSE f

CloseActions(f) == [f EXCEPT !.state = "FinalOnly"]

NoticeDue(f) == f.pending /\ ~f.emitted
TakeNotice(f) == IF NoticeDue(f) THEN [f EXCEPT !.pending = FALSE, !.emitted = TRUE] ELSE f

\* admit_action_batch: the controller afterwards, whether the batch may
\* dispatch, and the semantic deadline it gets.
AdmitBatch(f, now, requested) ==
    LET deadline == IF f.state = "SoftFinish" /\ ~f.softAdmitted
                    THEN Min({requested, SoftActionCutoff})
                    ELSE requested
        late == f.state = "SoftFinish" /\ ~f.softAdmitted /\ now >= deadline
        admitted == \/ f.state = "ActionOpen"
                    \/ f.state = "SoftFinish" /\ ~f.softAdmitted /\ ~late
    IN  [controller |-> IF late THEN [f EXCEPT !.state = "FinalOnly"]
                        ELSE [f EXCEPT !.softAdmitted = @ \/ (f.state = "SoftFinish")],
         admitted |-> admitted,
         deadline |-> IF late THEN requested ELSE deadline]

\* Mutant: the batch admitted in soft finish leaves it open.
SettleBatchOpen(f) == f

SettleBatch(f) ==
    IF f.state = "SoftFinish" /\ f.softAdmitted THEN [f EXCEPT !.state = "FinalOnly"] ELSE f
=============================================================================
