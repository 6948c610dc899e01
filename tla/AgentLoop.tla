----------------------------- MODULE AgentLoop -----------------------------
(***************************************************************************)
(* The agent loop of nano-runtime/src/agent_loop.rs                        *)
(* (run_agent_bound_with_cancellation): provider turns, tool batches, the  *)
(* finish controller, the completion review, the context checkpoint and    *)
(* every way a run ends, with the journal of events it leaves and the      *)
(* counters of its run record.                                             *)
(*                                                                         *)
(* Between two steps of the loop the clock may advance (Tick) and a        *)
(* cancellation may arrive.  The provider and the tool executor answer     *)
(* when they like, or never.  Append failures are refused appends, which   *)
(* leave the journal as it was; EventWriter models the writer itself, and  *)
(* shows that the terminal event always fits.                              *)
(*                                                                         *)
(* Abstracted data: texts are present or absent, a call is its effect      *)
(* class, history is what the checkpoint binding tells apart, token and    *)
(* history budgets are free choices.                                       *)
(***************************************************************************)
EXTENDS CompletionReview

CONSTANTS
    Modes,          \* review policy, and whether a signed deadline is present (AgentRunMode::V3)
    HistoryCommit,  \* SettlementStageCutoffsV1.history_commit
    MaxTimeout,     \* profile.tools.terminal_max_timeout_ms
    StartTimes,     \* when the run may enter its loop
    ClockPoints,    \* bound: the instants the clock is read at
    FaultyEvents,   \* event types whose append may be refused, per policy
    RepeatIds       \* the provider may repeat a call id of an earlier turn

ASSUME LoopAssumption ==
    /\ Modes \subseteq [policy : ReviewPolicies, split : BOOLEAN] /\ RepeatIds \in BOOLEAN
    /\ HistoryCommit \in Nat /\ MaxTimeout \in Nat
    /\ ClockPoints \subseteq Nat /\ StartTimes \subseteq ClockPoints
    /\ \E t \in ClockPoints : t >= LastSend
    /\ \A m \in Modes : m.split \/ m.policy = "Disabled"

VARIABLES
    mode,               \* one of Modes
    now, cancelled,     \* the clock and RunCancellation
    pc,                 \* where the loop is (see Labels)
    phase,              \* ProviderPhase
    finish, review,     \* FinishController, CompletionChallengeState
    flags,              \* the loop's one-way booleans
    turns, calls,       \* provider_turn_count, tool_call_count
    usage,              \* UsageAccumulator: settled turns
    req,                \* the provider request under way
    batch,              \* the tool batch under way
    hist,               \* "checkpoint": exactly the checkpoint history
    journal,            \* the event relations of what was appended
    outcome,            \* TerminalOutcome, and which text it delivers
    published,          \* run.json was published
    dirty               \* history variable: a mutating call was dispatched
                        \* since the provisional final was received

clock == <<mode, now, cancelled>>
policy == <<phase, finish, review, flags>>
counts == <<turns, calls, usage>>
ending == <<outcome, published, dirty>>
vars == <<mode, now, cancelled, pc, phase, finish, review, flags, turns, calls, usage,
          req, batch, hist, journal, outcome, published, dirty>>

Turn == 0..(MaxTurns - 1)
Call == 1..MaxCalls
J == INSTANCE JournalRelations WITH TurnIds <- Turn, CallIds <- Call

Batches == UNION {[1..n -> Effects] : n \in 1..MaxPerResponse}
NoBatch == [effects |-> << >>, repeat |-> FALSE, first |-> 0, next |-> 1, stage |-> "none",
            admitted |-> FALSE, cutoff |-> 0, dispatched |-> FALSE, mutated |-> FALSE]
NoRequest == [mode |-> "none", deadline |-> 0]
Undecided == [status |-> "none", phase |-> "none", code |-> "none", text |-> "none"]

\* Without a signed deadline the last send bounds actions and tools too.
ActorCutoff == IF mode.split THEN ActorDone ELSE LastSend
ToolCutoff == IF mode.split THEN ToolSettled ELSE LastSend

-----------------------------------------------------------------------------
(* Steps shared by the actions below. *)

Goto(label) == pc' = label

\* finalize_once with a failure; the marker is written by Finalize.
Fail(status, where, code) ==
    /\ Goto("finalize")
    /\ outcome' = [outcome EXCEPT !.status = status, !.phase = where, !.code = code]

Cancel == Fail("Cancelled", "Cancellation", "cooperative_cancelled")

\* finalize_with_text
FinalizeWith(text) ==
    /\ Goto("final")
    /\ outcome' = [outcome EXCEPT !.text = text]

\* take_safe_fallback, or else the failure.
FallbackOr(status, where, code) ==
    \/ SafeFallback(review) /\ FinalizeWith("candidate") /\ review' = DropFallback(review)
    \/ ~SafeFallback(review) /\ Fail(status, where, code) /\ UNCHANGED review

\* append_operational: the event lands and the run goes on, or the append is
\* refused and the run ends as an artifact failure.
Refused(type) == type \in FaultyEvents[mode.policy] /\ UNCHANGED journal
ArtifactFailure == Fail("RuntimeFailure", "Artifact", "append_refused")

\* The media history policy may refuse a history the loop just extended.
HistoryRefused(code) == Fail("RuntimeFailure", "Runtime", code)

RunRecord == [status |-> outcome.status, phase |-> outcome.phase,
              turns |-> turns, calls |-> calls,
              completed |-> usage.completed, failed |-> usage.failed]

-----------------------------------------------------------------------------
Init ==
    /\ mode \in Modes
    /\ now \in StartTimes
    /\ cancelled \in BOOLEAN
    /\ pc = "top"
    /\ phase = IF mode.split THEN InitialPhaseAt(now) ELSE "ActionOpen"
    /\ finish = NewController /\ review = NewChallenge
    /\ flags = [trigger |-> now < SoftFinishCutoff, notice |-> FALSE, finalSent |-> FALSE,
                critic |-> FALSE, checkpoint |-> FALSE, recovery |-> FALSE]
    /\ turns = 0 /\ calls = 0 /\ usage = [completed |-> 0, failed |-> 0]
    /\ req = NoRequest /\ batch = NoBatch /\ hist = "grown"
    /\ journal = J!EmptyJournal
    /\ outcome = Undecided /\ published = FALSE /\ dirty = FALSE

\* Environment: time passes, the run is cancelled.
Tick ==
    /\ pc # "ended"
    /\ \E t \in ClockPoints :
          /\ t > now /\ \A u \in ClockPoints : u > now => t <= u
          /\ now' = t
    /\ UNCHANGED <<mode, cancelled, pc, policy, counts, req, batch, hist, journal, ending>>

RequestCancel ==
    /\ pc # "ended" /\ ~cancelled
    /\ cancelled' = TRUE
    /\ UNCHANGED <<mode, now, pc, policy, counts, req, batch, hist, journal, ending>>

-----------------------------------------------------------------------------
(* The head of the loop. *)

TopCancelled ==
    /\ pc = "top" /\ cancelled
    /\ Cancel
    /\ UNCHANGED <<clock, policy, counts, req, batch, hist, journal, published, dirty>>

TopTurnsSpent ==
    /\ pc = "top" /\ ~cancelled
    /\ turns >= MaxTurns
    /\ FallbackOr("ProviderFailure", "Provider", "provider_max_turns_exceeded")
    /\ UNCHANGED <<clock, phase, finish, flags, counts, req, batch, hist, journal, published, dirty>>

\* The controller after observing time and turns, in phase ActionOpen.
Observed ==
    IF turns = 0 /\ LaunchException(now) THEN finish
    ELSE IF flags.trigger \/ turns >= SoftTurn THEN Observe(finish, now, turns)
    ELSE finish

PhaseAfter(f) ==
    CASE f.state = "SoftFinish" -> "ActionOpen"
      [] f.state = "FinalOnly" -> "FinalOnly"
      [] OTHER -> IF turns = 0 THEN InitialPhaseAt(now) ELSE ProviderPhaseAt(now, flags.finalSent)

TopSplit ==
    LET observed == IF phase = "ActionOpen" THEN Observed ELSE finish
        next == IF phase = "ActionOpen" THEN PhaseAfter(observed) ELSE phase
        closed == IF next = "FinalOnly" THEN CloseActions(observed) ELSE observed
    IN  /\ phase' = next
        /\ finish' = TakeNotice(closed)
        /\ IF NoticeDue(closed)
           THEN \/ /\ hist' = "grown"
                   /\ flags' = [flags EXCEPT !.notice = TRUE]
                   /\ Goto("checkpoint") /\ UNCHANGED outcome
                \/ HistoryRefused("finish_notice_history_failed") /\ UNCHANGED <<hist, flags>>
           ELSE Goto("checkpoint") /\ UNCHANGED <<hist, flags, outcome>>

Top ==
    /\ pc = "top" /\ ~cancelled
    /\ turns < MaxTurns
    /\ IF mode.split THEN TopSplit
       ELSE Goto("checkpoint") /\ UNCHANGED <<phase, finish, hist, flags, outcome>>
    /\ UNCHANGED <<clock, review, counts, req, batch, journal, published, dirty>>

\* One context checkpoint, in the open action phase and outside a review.
CheckpointOpen ==
    phase = "ActionOpen" /\ finish.state = "ActionOpen" /\ ~Active(review)

Checkpoint ==
    /\ pc = "checkpoint"
    /\ \E large \in BOOLEAN :
          IF CheckpointOpen /\ ShouldCheckpoint(mode.policy, now, turns, flags.checkpoint, large)
          THEN \/ /\ journal' = J!ContextCheckpointed(journal, turns, calls)
                  /\ hist' = "checkpoint"
                  /\ flags' = [flags EXCEPT !.checkpoint = TRUE]
                  /\ Goto("request") /\ UNCHANGED outcome
               \/ Refused("context.checkpointed") /\ ArtifactFailure /\ UNCHANGED <<hist, flags>>
               \/ /\ HistoryRefused("context_checkpoint_history_failed")
                  /\ UNCHANGED <<hist, flags, journal>>
          ELSE Goto("request") /\ UNCHANGED <<journal, hist, flags, outcome>>
    /\ UNCHANGED <<clock, phase, finish, review, counts, req, batch, published, dirty>>

-----------------------------------------------------------------------------
(* The provider request. *)

\* Ends before anything is sent.  The loop has two more branches here, for the
\* phases SettlingAccepted and TerminalCommit; no run reaches them (one that
\* did would be stuck here, and TLC would report the deadlock).
RequestClosed ==
    /\ pc = "request"
    /\ \/ /\ phase # "ActionOpen" /\ SafeFallback(review)
          /\ FinalizeWith("candidate") /\ review' = DropFallback(review)
       \/ /\ phase = "ActionOpen" /\ ~mode.split /\ now > ActorCutoff - MinSendWindow
          /\ FallbackOr("DeadlineFailure", "Deadline", "provider_send_window_exhausted")
       \/ /\ phase = "FinalOnly" /\ ~SafeFallback(review) /\ now >= LastSend
          /\ Fail("DeadlineFailure", "Deadline", "provider_final_deadline_exceeded")
          /\ UNCHANGED review
    /\ UNCHANGED <<clock, phase, finish, flags, counts, req, batch, hist, journal, published, dirty>>

RequestOpen ==
    \/ phase = "ActionOpen" /\ (mode.split \/ now <= ActorCutoff - MinSendWindow)
    \/ phase = "FinalOnly" /\ ~SafeFallback(review) /\ now < LastSend

\* The launch-time budget notice of a run that started late.
BudgetNoticeDue ==
    /\ ~flags.notice /\ ~flags.trigger
    /\ phase = "ActionOpen" /\ mode.split
    /\ now <= ActorCutoff /\ ActorCutoff - now <= MaxTimeout

ActionDeadline ==
    IF Active(review) \/ finish.state = "SoftFinish" THEN ReviewProviderDeadline(now) ELSE ActorCutoff

\* provider.requested is appended and the request is sent.
SendRequest ==
    /\ pc = "request" /\ RequestOpen
    /\ LET history == IF BudgetNoticeDue THEN "grown" ELSE hist
       IN  \/ /\ journal' = J!ProviderRequested(journal, turns, history = "checkpoint")
              /\ turns' = turns + 1
              /\ Goto("await") /\ UNCHANGED outcome
           \/ Refused("provider.requested") /\ ArtifactFailure /\ UNCHANGED turns
    /\ hist' = "grown"
    /\ flags' = [flags EXCEPT !.notice = @ \/ BudgetNoticeDue,
                              !.finalSent = @ \/ phase = "FinalOnly"]
    /\ req' = IF phase = "ActionOpen" THEN [mode |-> "action", deadline |-> ActionDeadline]
                                      ELSE [mode |-> "final", deadline |-> LastSend]
    /\ UNCHANGED <<clock, phase, finish, review, calls, usage, batch, published, dirty>>

\* The history exceeds its item limit, or preflight refuses the request.  The
\* three-item checkpoint history is below both: a longer one was just sent.
RequestRefused ==
    /\ pc = "request" /\ RequestOpen
    /\ hist # "checkpoint"
    /\ FallbackOr("ProviderFailure", "Provider", "provider_request_refused")
    /\ flags' = [flags EXCEPT !.notice = @ \/ BudgetNoticeDue,
                              !.finalSent = @ \/ phase = "FinalOnly"]
    /\ UNCHANGED <<clock, phase, finish, counts, req, batch, hist, journal, published, dirty>>

BudgetNoticeRefused ==
    /\ pc = "request" /\ RequestOpen /\ BudgetNoticeDue
    /\ HistoryRefused("runtime_budget_notice_history_failed")
    /\ UNCHANGED <<clock, policy, counts, req, batch, hist, journal, published, dirty>>

-----------------------------------------------------------------------------
(* The answer.  The select is biased: a visible cancellation wins.  A late *)
(* answer that is polled with the timer still counts.                      *)

AwaitCancelled ==
    /\ pc \in {"await", "criticAwait"} /\ cancelled
    /\ Cancel
    /\ UNCHANGED <<clock, policy, counts, req, batch, hist, journal, published, dirty>>

\* Mutant: the accumulator counts a failed turn twice.
FailedTurnCountedTwice(proceed) ==
    /\ usage' = [usage EXCEPT !.failed = @ + 2]
    /\ \/ journal' = J!ProviderFailed(journal, turns - 1) /\ proceed
       \/ Refused("provider.failed") /\ ArtifactFailure /\ UNCHANGED <<review, flags, hist>>

\* A failed turn is counted and appended as provider.failed; then proceed.
FailedTurn(proceed) ==
    /\ usage' = [usage EXCEPT !.failed = @ + 1]
    /\ \/ journal' = J!ProviderFailed(journal, turns - 1) /\ proceed
       \/ Refused("provider.failed") /\ ArtifactFailure /\ UNCHANGED <<review, flags, hist>>

\* Mutant: the failure is counted and its event is forgotten.
EndWithoutFailureEvent(code) ==
    /\ usage' = [usage EXCEPT !.failed = @ + 1]
    /\ FallbackOr("ProviderFailure", "Provider", code)
    /\ UNCHANGED <<journal, flags, hist>>

EndOnFailedTurn(code) ==
    FailedTurn(FallbackOr("ProviderFailure", "Provider", code) /\ UNCHANGED <<flags, hist>>)

\* The transport fails, or the response is not authoritative.
ProviderError ==
    /\ pc = "await" /\ ~cancelled
    /\ EndOnFailedTurn("provider_failed")
    /\ UNCHANGED <<clock, phase, finish, turns, calls, req, batch, published, dirty>>

\* Mutant: the final-only request is awaited without a timer.
ActionTimeoutOnly ==
    /\ pc = "await" /\ ~cancelled /\ req.mode = "action"
    /\ now >= req.deadline
    /\ \/ SafeFallback(review) /\ EndOnFailedTurn("provider_deadline_exceeded")
       \/ /\ ~SafeFallback(review)
          /\ Fail("DeadlineFailure", "Deadline", "provider_deadline_exceeded")
          /\ UNCHANGED <<usage, journal, review, flags, hist>>
    /\ UNCHANGED <<clock, phase, finish, turns, calls, req, batch, published, dirty>>

ProviderTimeout ==
    /\ pc = "await" /\ ~cancelled
    /\ now >= req.deadline
    /\ \/ SafeFallback(review) /\ EndOnFailedTurn("provider_deadline_exceeded")
       \/ /\ ~SafeFallback(review)
          /\ Fail("DeadlineFailure", "Deadline", "provider_deadline_exceeded")
          /\ UNCHANGED <<usage, journal, review, flags, hist>>
    /\ UNCHANGED <<clock, phase, finish, turns, calls, req, batch, published, dirty>>

\* Too many calls for a response or for the run: rejected as a whole, and
\* once per run the model is told and asked again.
RecoveryOpen == req.mode = "action" /\ ~flags.recovery /\ ~review.fallback

CallLimit(code) ==
    /\ IF RecoveryOpen
       THEN FailedTurn(\/ /\ flags' = [flags EXCEPT !.recovery = TRUE]
                          /\ hist' = "grown"
                          /\ Goto("top") /\ UNCHANGED <<review, outcome>>
                       \/ /\ HistoryRefused("call_limit_recovery_history_failed")
                          /\ UNCHANGED <<review, flags, hist>>)
       ELSE EndOnFailedTurn(code)
    /\ UNCHANGED <<clock, phase, finish, turns, calls, req, batch, published, dirty>>

ResponseCallLimit ==
    /\ pc = "await" /\ ~cancelled
    /\ CallLimit("provider_call_limit_exceeded")

RunCallLimit ==
    /\ pc = "await" /\ ~cancelled
    /\ req.mode = "action"
    /\ calls + MaxPerResponse > MaxCalls
    /\ CallLimit("provider_run_call_limit_exceeded")

\* An authoritative response is counted and appended; then proceed.
CompletedTurn(proceed) ==
    /\ usage' = [usage EXCEPT !.completed = @ + 1]
    /\ \/ journal' = J!ProviderCompleted(journal, turns - 1) /\ proceed
       \/ /\ Refused("provider.completed") /\ ArtifactFailure
          /\ UNCHANGED <<review, flags, hist, batch, phase, dirty>>

FinalResponse ==
    /\ pc = "await" /\ ~cancelled /\ req.mode = "final"
    /\ CompletedTurn(
          /\ phase' = "TerminalCommit"
          /\ \/ FinalizeWith("answer")
             \/ Fail("ProviderFailure", "Provider", "provider_final_only_tool_call")
             \/ Fail("ProviderFailure", "Provider", "provider_final_output_missing")
          /\ UNCHANGED <<review, flags, hist, batch, dirty>>)
    /\ UNCHANGED <<clock, finish, turns, calls, req, published>>

\* A text without calls: a review if one is due, else the end of the run.
ReviewDue(room) ==
    /\ mode.split /\ ~Active(review)
    /\ \/ HasFreshCapacity(mode.policy, now, turns, calls, flags.critic, room)
       \/ HasCapacity(mode.policy, now, turns, room)

OpenReview ==
    /\ review' = Issue(review)
    /\ dirty' = FALSE
    /\ IF UsesFreshContext(mode.policy)
       THEN \/ /\ flags' = [flags EXCEPT !.critic = TRUE]
               /\ Goto("criticRequest") /\ UNCHANGED <<hist, outcome>>
            \/ /\ flags' = [flags EXCEPT !.critic = TRUE]
               /\ FinalizeWith("candidate") /\ UNCHANGED hist
       ELSE \/ Goto("top") /\ hist' = "grown" /\ UNCHANGED <<flags, outcome>>
            \/ FinalizeWith("candidate") /\ UNCHANGED <<flags, hist>>

TextResponse ==
    /\ pc = "await" /\ ~cancelled /\ req.mode = "action"
    /\ \E room \in BOOLEAN :
          CompletedTurn(
             /\ IF ReviewDue(room) THEN OpenReview
                ELSE FinalizeWith("answer") /\ UNCHANGED <<review, flags, hist, dirty>>
             /\ UNCHANGED <<batch, phase>>)
    /\ UNCHANGED <<clock, finish, turns, calls, req, published>>

EmptyResponse ==
    /\ pc = "await" /\ ~cancelled /\ req.mode = "action"
    /\ CompletedTurn(
          /\ FallbackOr("ProviderFailure", "Provider", "provider_output_without_action")
          /\ UNCHANGED <<flags, hist, batch, phase, dirty>>)
    /\ UNCHANGED <<clock, finish, turns, calls, req, published>>

\* A batch of calls; the first may repeat the id of an earlier call.
ToolResponse ==
    /\ pc = "await" /\ ~cancelled /\ req.mode = "action"
    /\ \E effects \in Batches, repeat \in BOOLEAN :
          /\ calls + Len(effects) <= MaxCalls
          /\ repeat => RepeatIds /\ calls > 0
          /\ CompletedTurn(
                /\ batch' = [NoBatch EXCEPT !.effects = effects, !.repeat = repeat, !.first = calls + 1]
                /\ phase' = "SettlingAccepted"
                /\ hist' = "grown"
                /\ Goto("admit")
                /\ UNCHANGED <<review, flags, outcome, dirty>>)
    /\ UNCHANGED <<clock, finish, turns, calls, req, published>>

-----------------------------------------------------------------------------
(* run_fresh_completion_critic: one isolated request; whatever goes wrong  *)
(* delivers the candidate.                                                 *)

CriticSend ==
    /\ pc = "criticRequest"
    /\ \/ /\ journal' = J!ProviderRequested(journal, turns, FALSE)
          /\ turns' = turns + 1
          /\ req' = [mode |-> "critic", deadline |-> ReviewProviderDeadline(now)]
          /\ Goto("criticAwait") /\ UNCHANGED outcome
       \/ Refused("provider.requested") /\ ArtifactFailure /\ UNCHANGED <<turns, req>>
       \/ FinalizeWith("candidate") /\ UNCHANGED <<journal, turns, req>>   \* preflight refused
    /\ UNCHANGED <<clock, policy, calls, usage, batch, hist, published, dirty>>

CriticFailed ==
    /\ FailedTurn(FinalizeWith("candidate") /\ UNCHANGED <<review, flags, hist>>)
    /\ UNCHANGED <<clock, phase, finish, turns, calls, req, batch, published, dirty>>

\* A transport error, or a response with calls or otherwise not authoritative.
CriticError ==
    /\ pc = "criticAwait" /\ ~cancelled
    /\ CriticFailed

CriticTimeout ==
    /\ pc = "criticAwait" /\ ~cancelled
    /\ now >= req.deadline
    /\ CriticFailed

\* Advice goes into the actor's history; an empty answer ends the review.
CriticResponse ==
    /\ pc = "criticAwait" /\ ~cancelled
    /\ CompletedTurn(
          /\ \/ Goto("top") /\ hist' = "grown" /\ UNCHANGED outcome
             \/ FinalizeWith("candidate") /\ UNCHANGED hist
          /\ UNCHANGED <<review, flags, batch, phase, dirty>>)
    /\ UNCHANGED <<clock, finish, turns, calls, req, published>>

-----------------------------------------------------------------------------
(* The tool batch. *)

Admit ==
    LET stage == ToolStage(review, batch.effects)
        soft == finish.state = "SoftFinish"
        requested == IF stage # "none" \/ soft THEN Min({ReviewToolDeadline(now), ActorCutoff}) ELSE ActorCutoff
        ruling == AdmitBatch(finish, now, requested)
    IN  /\ pc = "admit"
        /\ finish' = ruling.controller
        /\ batch' = [batch EXCEPT !.stage = stage, !.cutoff = ruling.deadline,
                                  !.admitted = ruling.admitted /\ (Active(review) => stage # "none")]
        /\ Goto("register")
        /\ UNCHANGED <<clock, phase, review, flags, counts, req, hist, journal, ending>>

Last == batch.next = Len(batch.effects)
IdOf(k) == IF batch.repeat /\ k = 1 THEN 1 ELSE batch.first + k - 1
CallId == IdOf(batch.next)
Effect == batch.effects[batch.next]

\* The call is staged for the commit; ran: it was dispatched.
Stage(ran) ==
    /\ batch' = [batch EXCEPT !.next = @ + 1,
                             !.dispatched = @ \/ (ran /\ batch.stage # "none"),
                             !.mutated = @ \/ (ran /\ batch.stage # "none" /\ Effect = "mutating")]
    /\ Goto(IF Last THEN "commit" ELSE "register")

\* settle_tool_call up to the dispatch decision: protected-target and
\* git-history gates and the executor's validation reject as they like.
Register ==
    /\ pc = "register"
    /\ calls' = calls + 1
    /\ \/ /\ journal' = J!ToolRegistered(journal, CallId)
          /\ \/ Stage(FALSE)
             \/ batch.admitted /\ now < batch.cutoff /\ Goto("dispatch") /\ UNCHANGED batch
          /\ UNCHANGED outcome
       \/ Refused("tool.registered") /\ ArtifactFailure /\ UNCHANGED batch
    /\ UNCHANGED <<clock, policy, turns, usage, req, hist, published, dirty>>

\* Mutant: the cutoff is not read again between registration and dispatch.
DispatchUnchecked ==
    /\ pc = "dispatch"
    /\ \/ /\ journal' = J!ToolDispatched(journal, CallId)
          /\ dirty' = (dirty \/ Effect = "mutating")
          /\ Goto("tool") /\ UNCHANGED <<batch, outcome>>
       \/ Refused("tool.dispatched") /\ ArtifactFailure /\ UNCHANGED <<batch, dirty>>
    /\ UNCHANGED <<clock, policy, counts, req, hist, published>>

Dispatch ==
    /\ pc = "dispatch"
    /\ IF now < batch.cutoff
       THEN \/ /\ journal' = J!ToolDispatched(journal, CallId)
               /\ dirty' = (dirty \/ Effect = "mutating")
               /\ Goto("tool") /\ UNCHANGED <<batch, outcome>>
            \/ Refused("tool.dispatched") /\ ArtifactFailure /\ UNCHANGED <<batch, dirty>>
       ELSE Stage(FALSE) /\ UNCHANGED <<journal, outcome, dirty>>
    /\ UNCHANGED <<clock, policy, counts, req, hist, published>>

\* record_tool_failure; append_diagnostic_failure obeys the same limits.
ToolFailure(status, where, code) ==
    /\ \/ journal' = J!ToolFailed(journal, CallId) /\ Fail(status, where, code)
       \/ Refused("tool.failed") /\ ArtifactFailure
    /\ UNCHANGED <<clock, policy, counts, req, batch, hist, published, dirty>>

ToolCancelled ==
    /\ pc = "tool" /\ cancelled
    /\ ToolFailure("Cancelled", "Cancellation", "cooperative_cancelled")

ToolTimeout ==
    /\ pc = "tool" /\ ~cancelled
    /\ now >= ToolCutoff
    /\ ToolFailure("DeadlineFailure", "Deadline", "tool_action_deadline_exceeded")

ToolError ==
    /\ pc = "tool" /\ ~cancelled
    /\ \/ ToolFailure("DeadlineFailure", "Deadline", "tool_deadline")
       \/ ToolFailure("ToolFailure", "Bridge", "tool_bridge")
       \/ ToolFailure("ToolFailure", "Tool", "tool_error")

\* A result, or one whose media attachment cannot be committed.
ToolResult ==
    /\ pc = "tool" /\ ~cancelled
    /\ \/ Stage(TRUE) /\ UNCHANGED outcome
       \/ Fail("RuntimeFailure", "Runtime", "runtime_media_attachment_invalid") /\ UNCHANGED batch
    /\ UNCHANGED <<clock, policy, counts, req, hist, journal, published, dirty>>

-----------------------------------------------------------------------------
(* The commit of a settled batch. *)

\* The media policy refuses the batch: its attachments exceed the history's media
\* bytes, or an id repeats one that is still in the history.
BatchRefused ==
    /\ pc = "commit"
    /\ Fail("RuntimeFailure", "Runtime", "provider_media_batch_refused")
    /\ UNCHANGED <<clock, policy, counts, req, batch, hist, journal, published, dirty>>

\* Only a checkpoint removes the first use of a repeated id from the history.
BatchPrepared == pc = "commit" /\ (batch.repeat => flags.checkpoint)

CommitLate ==
    /\ BatchPrepared
    /\ mode.split /\ now >= HistoryCommit
    /\ Fail("DeadlineFailure", "Deadline", "tool_history_commit_deadline_exceeded")
    /\ UNCHANGED <<clock, policy, counts, req, batch, hist, journal, published, dirty>>

CommitOpen == BatchPrepared /\ (mode.split => now < HistoryCommit)

\* A refused tool.completed abandons the run without a terminal event.  Earlier
\* completions of the batch may already be in the journal; without a marker no
\* reader opens it, so they are left out.
CommitRefused ==
    /\ CommitOpen /\ Refused("tool.completed")
    /\ Goto("ended")
    /\ UNCHANGED <<clock, policy, counts, req, batch, hist, ending>>

BatchIds == {IdOf(k) : k \in DOMAIN batch.effects}

ReviewAfterBatch ==
    IF batch.stage = "none" THEN CloseReview(review)
    ELSE IF batch.dispatched THEN CommitStage(review, batch.stage, TRUE, batch.mutated)
    ELSE CloseReview(review)

Commit ==
    LET settled == SettleBatch(finish)
    IN  /\ CommitOpen
        /\ journal' = J!ToolsCompleted(journal, BatchIds)
        /\ review' = ReviewAfterBatch
        /\ \/ /\ finish' = settled
              /\ phase' = IF RequiresFinalOnly(ReviewAfterBatch) \/ settled.state = "FinalOnly"
                          THEN "FinalOnly"
                          ELSE IF mode.split THEN ProviderPhaseAt(now, flags.finalSent) ELSE "ActionOpen"
              /\ Goto("top") /\ UNCHANGED outcome
           \/ /\ batch.stage = "Validation" /\ batch.dispatched
              /\ HistoryRefused("completion_review_decision_history_failed")
              /\ UNCHANGED <<finish, phase>>
        /\ batch' = NoBatch
        /\ UNCHANGED <<clock, flags, counts, req, hist, published, dirty>>

-----------------------------------------------------------------------------
(* The end of the run. *)

WriteFinal ==
    /\ pc = "final"
    /\ \/ /\ journal' = J!AssistantFinal(journal)
          /\ Goto("finalize")
          /\ outcome' = [outcome EXCEPT !.status = "Success", !.code = "completed"]
       \/ Refused("assistant.final") /\ ArtifactFailure
    /\ UNCHANGED <<clock, policy, counts, req, batch, hist, published, dirty>>

\* finalize_once: the marker is published, or the writer gave up.
Finalize ==
    /\ pc = "finalize"
    /\ published' \in BOOLEAN
    /\ Goto("ended")
    /\ UNCHANGED <<clock, policy, counts, req, batch, hist, journal, outcome, dirty>>

Done == pc = "ended" /\ UNCHANGED vars

Answer ==
    \/ ProviderError \/ ResponseCallLimit \/ RunCallLimit
    \/ FinalResponse \/ TextResponse \/ EmptyResponse \/ ToolResponse
    \/ CriticError \/ CriticResponse
    \/ ToolError \/ ToolResult

Step ==
    \/ TopCancelled \/ TopTurnsSpent \/ Top \/ Checkpoint
    \/ RequestClosed \/ SendRequest \/ RequestRefused \/ BudgetNoticeRefused
    \/ AwaitCancelled \/ ProviderTimeout \/ CriticSend \/ CriticTimeout
    \/ Admit \/ Register \/ Dispatch \/ ToolCancelled \/ ToolTimeout
    \/ BatchRefused \/ CommitLate \/ CommitRefused \/ Commit
    \/ WriteFinal \/ Finalize

Next == Tick \/ RequestCancel \/ Answer \/ Step \/ Done

\* The process runs and its timers fire; nothing is assumed of the provider,
\* the executor or the caller that cancels.
Spec == Init /\ [][Next]_vars /\ WF_vars(Step) /\ WF_vars(Tick)

-----------------------------------------------------------------------------
\* Every run the loop settles is one the artifactizer accepts: the turns, calls
\* and settlements of run.json are those of events.jsonl (a refused append may
\* leave a gap only in a run that says so), a checkpoint is followed by the
\* request it announces, no settlement is orphaned, and a successful run has one
\* final text and no unfinished call.  (agent_loop.rs finalize_once against
\* artifactizer.py _validate_v2_event_relations.)
JournalAccepted == published => J!Accepted(journal, RunRecord)

\* A run published as successful can be projected to its ATIF trajectory
\* (project_trajectory, atif.py).
SuccessProjects == published => J!Projectable(journal, RunRecord)

\* The provisional answer is delivered only if no mutating call was dispatched
\* after it was given (CompletionChallengeState.take_safe_fallback).
NoStaleFallback ==
    outcome.status = "Success" /\ outcome.text = "candidate" => ~dirty

\* What may cost a run under review the answer it already has, with no mutating call
\* dispatched since: a cancellation, a refused append or history, and the review's
\* own calls, one that fails, one that is cut off (agent_loop.rs:2060) and a batch
\* that settles behind history commit (:2251).  Nothing else does: not the provider's
\* failure or silence, nor an exhausted turn, call, history or time budget.
ReviewCallCodes == {"tool_deadline", "tool_action_deadline_exceeded",
                    "tool_history_commit_deadline_exceeded"}
CandidateSurvives ==
    Active(review) /\ ~dirty /\ outcome.status # "none" =>
        \/ outcome.status \in {"Success", "Cancelled", "RuntimeFailure", "ToolFailure"}
        \/ outcome.code \in ReviewCallCodes

\* A review that was admitted against the turns left (FreshCriticCapacity: "the
\* complete optional fresh-critic path") does not run out of turns by itself, in
\* a run whose provider kept the call limits.
ReviewFits ==
    Active(review) /\ ~flags.recovery => outcome.code # "provider_max_turns_exceeded"

\* Nothing follows the finish: after the final-only request no other request
\* is sent, and after the one batch admitted in soft finish the only request
\* left is the final-only one.
FinishIsFinal ==
    [][turns' # turns => ~flags.finalSent /\ (finish.softAdmitted => req'.mode = "final")]_vars

\* A call is dispatched only before the actor cutoff, never after the actions
\* closed, in soft finish only while the final-response reserve is intact, and
\* in a review only as its phase allows: after a correction, read-only.
Dispatched(c) == journal.tools[c] # "dispatched" /\ journal'.tools[c] = "dispatched"
DispatchInWindow ==
    [][(\E c \in Call : Dispatched(c)) =>
          /\ now < ActorCutoff
          /\ ~flags.finalSent /\ finish.state # "FinalOnly"
          /\ finish.state = "SoftFinish" => now < SoftActionCutoff
          /\ review.phase # "Revalidation"
          /\ review.phase = "Correction" => Effect = "readOnly"]_vars

\* Every run ends, whatever the provider and the executor do.
Terminates == <>(pc = "ended")
=============================================================================
