----------------------------- MODULE StdioBridge -----------------------------
(***************************************************************************)
(* Tool calls across the process boundary (external-tool-stdio-v3):        *)
(*   the runtime's ExternalStdioExecutor, nano-runtime/src/                *)
(*     external_stdio.rs (execute_foreground_v3), as the agent loop uses   *)
(*     it;                                                                 *)
(*   the host's run_stdio_bridge, adapter/stdio_bridge.py, which owns the  *)
(*     runtime as a child process;                                         *)
(*   the handler task the bridge starts for each request (external: the    *)
(*     terminal actor), which may ignore a cancellation.                   *)
(* They share two pipes and the host's monotonic clock, and compare it     *)
(* with the signed cutoffs and with the settlement stages each derives.    *)
(*                                                                         *)
(* A request is its sequence number and operation, an answer its sequence  *)
(* number and kind.  The v2 protocol, without a deadline receipt, is left  *)
(* out, and so is the text of errors and receipts.                         *)
(***************************************************************************)
EXTENDS SettlementStages, Sequences

CONSTANTS
    ActorDone, ToolSettled, ReserveMs,  \* signed cutoffs and reserve
    CleanupStart, HardDeadline,
    MaxCalls,                           \* bound: tool calls of the run
    MaxTime                             \* bound: last instant of the clock

ASSUME BridgeAssumption ==
    /\ {ActorDone, ToolSettled, ReserveMs, CleanupStart, HardDeadline} \subseteq Nat
    /\ DeriveBridge(ActorDone, ToolSettled, ReserveMs).ok
    /\ ToolSettled < CleanupStart /\ CleanupStart < HardDeadline
    /\ MaxCalls \in Nat /\ MaxTime \in Nat /\ MaxTime >= HardDeadline

VARIABLES
    now,        \* the host's monotonic clock
    rt,         \* the runtime: idle, sending, reading, parsing, publishing, exiting, exited
    nextSeq,    \* ExternalStdioExecutor.next_seq
    op,         \* operation of the call under way
    answer,     \* the response being parsed
    verdict,    \* what became of each call, for the runtime
    published,  \* run.json is visible
    exitCode,   \* of the child process
    toBridge,   \* the child's stdout: requests
    toRuntime,  \* the child's stdin: answers
    stdinClosed,
    b,          \* where run_stdio_bridge is
    expected, fatalSent,    \* expected_seq, fatal_sent
    request,    \* the request being served
    task,       \* execution_task: none, running, cancelling, done
    result,     \* the settlement to encode: none, completed, fatal
    control,    \* terminal_control_error is set
    error,      \* the exception being handled
    executionCompleted, cleanupCompleted,   \* execution_completed, joint_completed
    cleanup,    \* handler.cleanup_active_until: none, running, verified, unverified, detached
    stop,       \* _allow_publication_then_stop_child: none, window, term, done, detached
    outcome,    \* of run_stdio_bridge: none, ok, error, unverified, cancelled
    runs        \* what the handler did for each request

runtime == <<rt, nextSeq, op, answer, verdict, published, exitCode>>
pipes == <<toBridge, toRuntime, stdinClosed>>
serving == <<expected, fatalSent, request, result, control>>
verified == <<executionCompleted, cleanupCompleted>>
handling == <<error, verified, outcome>>
vars == <<now, runtime, pipes, b, serving, task, handling, cleanup, stop, runs>>

CallIds == 0..(MaxCalls - 1)
Ops == {"output", "other"}      \* "output": get_terminal_command_output
NoMessage == [seq |-> 0, kind |-> "none"]

BridgeStage(i) == BridgeCut(ActorDone, ToolSettled)[i]
RuntimeStage(i) == DeriveInstants(ActorDone, ToolSettled, ReserveMs).cut[i]

Init ==
    /\ now = 0
    /\ rt = "idle" /\ nextSeq = 0 /\ op = "other" /\ answer = NoMessage
    /\ verdict = [c \in CallIds |-> "none"]
    /\ published = FALSE /\ exitCode = "none"
    /\ toBridge = << >> /\ toRuntime = << >> /\ stdinClosed = FALSE
    /\ b = "read" /\ expected = 0 /\ fatalSent = FALSE
    /\ request = NoMessage /\ task = "none" /\ result = "none" /\ control = FALSE
    /\ error = "none"
    /\ executionCompleted = FALSE /\ cleanupCompleted = FALSE
    /\ cleanup = "none" /\ stop = "none" /\ outcome = "none"
    /\ runs = [c \in CallIds |-> "none"]

Tick ==
    /\ now < MaxTime /\ b # "returned"
    /\ now' = now + 1
    /\ UNCHANGED <<runtime, pipes, b, serving, task, handling, cleanup, stop, runs>>

-----------------------------------------------------------------------------
(* The runtime.  It fails a call once, ends its run and publishes. *)

AsRuntime == UNCHANGED <<now, stdinClosed, b, serving, task, handling, cleanup, stop, runs>>

GiveUpCall ==
    /\ verdict' = IF nextSeq \in CallIds /\ rt = "sending"
                  THEN [verdict EXCEPT ![nextSeq] = "lost"]
                  ELSE [verdict EXCEPT ![nextSeq - 1] = "lost"]
    /\ rt' = "publishing"

\* A call that comes after the cutoff is rejected without leaving the process.
Call ==
    /\ rt = "idle" /\ nextSeq \in CallIds
    /\ now < ActorDone
    /\ op' \in Ops
    /\ rt' = "sending"
    /\ UNCHANGED <<nextSeq, answer, verdict, published, exitCode, toBridge, toRuntime>>
    /\ AsRuntime

\* A write that is done wins over its timer.
Send ==
    /\ rt = "sending"
    /\ toBridge' = Append(toBridge, [seq |-> nextSeq, kind |-> op])
    /\ verdict' = [verdict EXCEPT ![nextSeq] = "sent"]
    /\ nextSeq' = nextSeq + 1
    /\ rt' = "reading"
    /\ UNCHANGED <<op, answer, published, exitCode, toRuntime>>
    /\ AsRuntime

\* The cutoff, a failed write or the loop's own timer cuts the call off: nothing,
\* part of the line or, when only the flush was missing, all of it is in the pipe.
SendFails ==
    /\ rt = "sending"
    /\ \/ UNCHANGED toBridge
       \/ \E kind \in {"torn", op} : toBridge' = Append(toBridge, [seq |-> nextSeq, kind |-> kind])
    /\ GiveUpCall
    /\ UNCHANGED <<nextSeq, op, answer, published, exitCode, toRuntime>>
    /\ AsRuntime

Receive ==
    /\ rt = "reading"
    /\ toRuntime # << >>
    /\ answer' = Head(toRuntime) /\ toRuntime' = Tail(toRuntime)
    /\ rt' = "parsing"
    /\ UNCHANGED <<nextSeq, op, verdict, published, exitCode, toBridge>>
    /\ AsRuntime

\* End of file, or no line before the drain cutoff.
ReceiveFails ==
    /\ rt = "reading"
    /\ \/ toRuntime = << >> /\ stdinClosed
       \/ now >= RuntimeStage(Drain)
    /\ GiveUpCall
    /\ UNCHANGED <<nextSeq, op, answer, published, exitCode, toBridge, toRuntime>>
    /\ AsRuntime

\* The answer is whole, in time and carries the identity of the request.
Acceptable ==
    /\ now < RuntimeStage(Parse)
    /\ answer.seq = nextSeq - 1
    /\ answer.kind = "completed"

Accept ==
    /\ rt = "parsing" /\ Acceptable
    /\ verdict' = [verdict EXCEPT ![nextSeq - 1] = "accepted"]
    /\ rt' = "idle"
    /\ UNCHANGED <<nextSeq, op, answer, published, exitCode, toBridge, toRuntime>>
    /\ AsRuntime

\* A missed cutoff, a fatal settlement, another identity, or a payload that does
\* not validate.
Refuse ==
    /\ rt = "parsing"
    /\ GiveUpCall
    /\ UNCHANGED <<nextSeq, op, answer, published, exitCode, toBridge, toRuntime>>
    /\ AsRuntime

\* Mutant: the loop goes on with its next call.
AbandonAndGoOn ==
    /\ rt = "reading"
    /\ rt' = "idle"
    /\ UNCHANGED <<nextSeq, op, answer, verdict, published, exitCode, toBridge, toRuntime>>
    /\ AsRuntime

\* The loop's own timer (a review's tool deadline may be much earlier than the
\* stages) or a cancellation drops the executor's future.
Abandon ==
    /\ rt = "reading"
    /\ GiveUpCall
    /\ UNCHANGED <<nextSeq, op, answer, published, exitCode, toBridge, toRuntime>>
    /\ AsRuntime

\* Final answer, provider failure, deadline or SIGTERM between two calls.
FinishRun ==
    /\ rt = "idle"
    /\ rt' = "publishing"
    /\ UNCHANGED <<nextSeq, op, answer, verdict, published, exitCode, toBridge, toRuntime>>
    /\ AsRuntime

Publish ==
    /\ rt = "publishing"
    /\ rt' = "exiting" /\ published' = TRUE
    /\ UNCHANGED <<nextSeq, op, answer, verdict, exitCode, toBridge, toRuntime>>
    /\ AsRuntime

\* The process exits: 0 after a publication, 1 after an incomplete run.
Exit ==
    /\ rt \in {"publishing", "exiting"}
    /\ rt' = "exited"
    /\ exitCode' = IF rt = "exiting" THEN "zero" ELSE "one"
    /\ UNCHANGED <<nextSeq, op, answer, verdict, published, toBridge, toRuntime>>
    /\ AsRuntime

-----------------------------------------------------------------------------
(* The handler task and the handler's cleanup. *)

AsHandler == UNCHANGED <<now, runtime, pipes, b, expected, fatalSent, request, control,
                         handling, stop>>

\* execute returns, fails, raises or ends as cancelled.
TaskEnds ==
    /\ task \in {"running", "cancelling"}
    /\ task' = "done"
    /\ \E how \in {"completed", "fatal", "cancelled"} :
          /\ result' = IF task = "running" THEN how ELSE result
          /\ runs' = [runs EXCEPT ![request.seq] = IF how = "completed" THEN how ELSE "failed"]
    /\ UNCHANGED cleanup
    /\ AsHandler

CleanupEnds ==
    /\ cleanup = "running"
    /\ cleanup' \in {"verified", "unverified"}
    /\ UNCHANGED <<task, result, runs>>
    /\ AsHandler

-----------------------------------------------------------------------------
(* The bridge: one request at a time. *)

AsBridge == UNCHANGED <<now, runtime>>

\* The except branch begins by closing the child's stdin, which Rust reads as
\* the end of the answers.
Raise(code) ==
    /\ error' = code
    /\ b' = "abort"
    /\ stdinClosed' = TRUE

RequestCutoff(r) == IF r.kind = "output" THEN BridgeStage(Output) ELSE ActorDone

\* A line without its newline is returned only at the end of the stream.
LineReady == toBridge # << >> /\ (Head(toBridge).kind = "torn" => rt = "exited")

LineError(line) ==
    IF fatalSent THEN "external_request_after_fatal"
    ELSE IF line.kind = "torn" THEN "external_request_framing_invalid"
    ELSE IF line.seq # expected THEN "external_request_sequence_mismatch"
    ELSE IF now >= RequestCutoff(line) THEN "deadline_before_dispatch"
    ELSE "none"

ReadRequest ==
    /\ b = "read" /\ LineReady
    /\ LET line == Head(toBridge)
       IN  /\ IF LineError(line) # "none"
              THEN Raise(LineError(line)) /\ UNCHANGED <<request, task, runs>>
              ELSE /\ request' = line
                   /\ task' = "running"
                   /\ runs' = [runs EXCEPT ![line.seq] = "started"]
                   /\ b' = "execute"
                   /\ UNCHANGED <<stdinClosed, error>>
    /\ toBridge' = Tail(toBridge)
    /\ UNCHANGED <<toRuntime, expected, fatalSent, result, control,
                   verified, outcome, cleanup, stop>>
    /\ AsBridge

\* The child closed its stdout by exiting; its exit code decides.
ReadEof ==
    /\ b = "read" /\ toBridge = << >> /\ rt = "exited"
    /\ IF exitCode = "zero"
       THEN /\ b' = "returned" /\ outcome' = "ok" /\ stdinClosed' = TRUE
            /\ UNCHANGED error
       ELSE Raise("external_runtime_nonzero") /\ UNCHANGED outcome
    /\ UNCHANGED <<toBridge, toRuntime, serving, task, verified, cleanup, stop, runs>>
    /\ AsBridge

ReadTimeout ==
    /\ b = "read" /\ now >= CleanupStart
    /\ Raise("runtime_publication_deadline_exceeded")
    /\ UNCHANGED <<toBridge, toRuntime, serving, task, verified, outcome, cleanup, stop, runs>>
    /\ AsBridge

\* The handler's own CancelledError is not settled but raised.
TakeResult ==
    /\ b = "execute" /\ task = "done"
    /\ IF result = "cancelled"
       THEN Raise("cancelled") /\ UNCHANGED task
       ELSE b' = "encode" /\ task' = "none" /\ UNCHANGED <<error, stdinClosed>>
    /\ UNCHANGED <<toBridge, toRuntime, serving, verified, outcome, cleanup, stop, runs>>
    /\ AsBridge

\* Mutant: the missed cutoff is raised and not settled.
ExecuteTimeoutRaised ==
    /\ b = "execute" /\ task = "running" /\ now >= RequestCutoff(request)
    /\ task' = "cancelling"
    /\ Raise("tool_settlement_deadline_exceeded")
    /\ UNCHANGED <<toBridge, toRuntime, serving, verified, outcome, cleanup, stop, runs>>
    /\ AsBridge

\* The handler missed its cutoff: it is cancelled, not awaited, and a typed
\* failure is settled in its place.
ExecuteTimeout ==
    /\ b = "execute" /\ task = "running" /\ now >= RequestCutoff(request)
    /\ task' = "cancelling"
    /\ result' = "fatal" /\ control' = TRUE
    /\ b' = "encode"
    /\ UNCHANGED <<pipes, expected, fatalSent, request, error, verified, outcome,
                   cleanup, stop, runs>>
    /\ AsBridge

\* A result that cannot be encoded is settled as a fatal frame.
EncodeResponse ==
    /\ b = "encode"
    /\ IF now >= BridgeStage(Encode)
       THEN Raise("response_serialization_deadline_exceeded") /\ UNCHANGED result
       ELSE /\ result' \in {result, "fatal"}
            /\ b' = "encoded" /\ UNCHANGED <<error, stdinClosed>>
    /\ UNCHANGED <<toBridge, toRuntime, expected, fatalSent, request, control, task,
                   verified, outcome, cleanup, stop, runs>>
    /\ AsBridge

Encoded ==
    /\ b = "encoded"
    /\ IF now >= BridgeStage(Encode)
       THEN Raise("response_serialization_deadline_exceeded")
       ELSE b' = "write" /\ UNCHANGED <<error, stdinClosed>>
    /\ UNCHANGED <<toBridge, toRuntime, serving, task, verified, outcome, cleanup, stop, runs>>
    /\ AsBridge

WriteResponse ==
    /\ b = "write"
    /\ IF now >= BridgeStage(Drain)
       THEN Raise("response_serialization_deadline_exceeded") /\ UNCHANGED toRuntime
       ELSE /\ toRuntime' = Append(toRuntime, [seq |-> request.seq, kind |-> result])
            /\ b' = "buffered" /\ UNCHANGED <<error, stdinClosed>>
    /\ UNCHANGED <<toBridge, serving, task, verified, outcome, cleanup, stop, runs>>
    /\ AsBridge

\* After the write: past the cutoff the bridge fails, although the line is out.
StartDrain ==
    /\ b = "buffered"
    /\ IF now >= BridgeStage(Drain)
       THEN Raise("response_serialization_deadline_exceeded")
       ELSE b' = "drain" /\ UNCHANGED <<error, stdinClosed>>
    /\ UNCHANGED <<toBridge, toRuntime, serving, task, verified, outcome, cleanup, stop, runs>>
    /\ AsBridge

\* Mutant: a completed answer also counts as fatal.
FatalAfterAny == TRUE

FatalNow == result = "fatal"

Drained ==
    /\ b = "drain"
    /\ expected' = expected + 1
    /\ fatalSent' = FatalNow
    /\ IF control
       THEN Raise("tool_settlement_deadline_exceeded")
       ELSE b' = "read" /\ UNCHANGED <<error, stdinClosed>>
    /\ UNCHANGED <<toBridge, toRuntime, request, result, control, task,
                   verified, outcome, cleanup, stop, runs>>
    /\ AsBridge

DrainFails ==
    /\ b = "drain"
    /\ \/ now >= BridgeStage(Drain) /\ Raise("response_serialization_deadline_exceeded")
       \/ rt = "exited" /\ Raise("pipe_broken")
    /\ UNCHANGED <<toBridge, toRuntime, serving, task, verified, outcome, cleanup, stop, runs>>
    /\ AsBridge

\* The caller cancels at an await, as often as it likes.  In the loop this is the
\* exception to handle.  The waits of _complete_shielded and for the last of stderr
\* remember it, to raise it once the cleanup is verified.  Where what outlived its
\* budget is being cancelled, and where the reader of stderr is reaped, nothing
\* catches it: it leaves the bridge past what was still to be done and to be checked.
CallerCancel ==
    /\ \/ b \in {"read", "execute", "drain"} /\ Raise("cancelled") /\ UNCHANGED outcome
       \/ /\ b \in {"boundTask", "boundJoint"}
          /\ b' = "drainBare" /\ UNCHANGED <<error, stdinClosed, outcome>>
       \/ /\ b = "reapStderr"
          /\ b' = "returned" /\ outcome' = "cancelled" /\ UNCHANGED <<error, stdinClosed>>
    /\ UNCHANGED <<now, runtime, toBridge, toRuntime, serving, task, verified,
                   cleanup, stop, runs>>

-----------------------------------------------------------------------------
(* The bridge: cleanup after an exception. *)

Join == b' = "joint" /\ cleanup' = "running" /\ stop' = "window"

\* The execution task is cancelled and awaited within its own budget, a second or
\* a quarter of what is left.
CancelTask ==
    /\ b = "abort"
    /\ IF task \in {"running", "cancelling"}
       THEN /\ task' = "cancelling" /\ b' = "awaitTask"
            /\ UNCHANGED <<executionCompleted, cleanup, stop>>
       ELSE /\ executionCompleted' = TRUE
            /\ Join /\ UNCHANGED task
    /\ UNCHANGED <<pipes, serving, error, cleanupCompleted, outcome, runs>>
    /\ AsBridge

\* Mutant: the cleanup waits for the task however long it takes.
AwaitTaskUnbounded ==
    /\ b = "awaitTask" /\ task = "done"
    /\ executionCompleted' = TRUE
    /\ Join
    /\ UNCHANGED <<pipes, serving, task, error, cleanupCompleted, outcome, runs>>
    /\ AsBridge

\* The task ends, or its budget runs out first.
AwaitTask ==
    /\ b = "awaitTask"
    /\ \/ task = "done" /\ executionCompleted' = TRUE /\ Join
       \/ b' = "boundTask" /\ UNCHANGED <<executionCompleted, cleanup, stop>>
    /\ UNCHANGED <<pipes, serving, task, error, cleanupCompleted, outcome, runs>>
    /\ AsBridge

\* cancel_with_hard_bound: the task is left detached.
LeaveTask ==
    /\ b = "boundTask"
    /\ Join
    /\ UNCHANGED <<pipes, serving, task, error, verified, outcome, runs>>
    /\ AsBridge

ChildGone ==
    /\ b = "joint" /\ stop \in {"window", "term"} /\ rt = "exited"
    /\ stop' = "done"
    /\ UNCHANGED <<pipes, b, serving, task, error, verified, outcome, cleanup, runs>>
    /\ AsBridge

\* Mutant: the child is stopped as soon as the bridge fails.
TerminateAtOnce ==
    /\ b = "joint" /\ stop = "window" /\ rt # "exited"
    /\ stop' = "term"
    /\ UNCHANGED <<pipes, b, serving, task, error, verified, outcome, cleanup, runs>>
    /\ AsBridge

\* The publication window is over: SIGTERM.
TerminateChild ==
    /\ b = "joint" /\ stop = "window" /\ rt # "exited"
    /\ now >= CleanupStart
    /\ stop' = "term"
    /\ UNCHANGED <<pipes, b, serving, task, error, verified, outcome, cleanup, runs>>
    /\ AsBridge

\* Two seconds later: SIGKILL, and the child is reaped.
KillChild ==
    /\ b = "joint" /\ stop = "term" /\ rt # "exited"
    /\ rt' = "exited" /\ exitCode' = "signal"
    /\ stop' = "done"
    /\ UNCHANGED <<now, nextSeq, op, answer, verdict, published, pipes, b, serving, task,
                   handling, cleanup, runs>>

JointDone ==
    /\ b = "joint"
    /\ cleanup \in {"verified", "unverified"} /\ stop = "done"
    /\ cleanupCompleted' = TRUE
    /\ b' = "drainStderr"
    /\ UNCHANGED <<pipes, serving, task, error, executionCompleted, outcome, cleanup, stop, runs>>
    /\ AsBridge

\* The hard deadline (its last 50 ms are for the cancellation): what still runs is
\* cancelled and left behind.
JointGivenUp ==
    /\ b = "joint" /\ now >= HardDeadline
    /\ cleanup' = IF cleanup = "running" THEN "detached" ELSE cleanup
    /\ stop' = IF stop = "done" THEN "done" ELSE "detached"
    /\ b' = "boundJoint"
    /\ UNCHANGED <<pipes, serving, task, error, verified, outcome, runs>>
    /\ AsBridge

LeaveJoint ==
    /\ b = "boundJoint"
    /\ b' = "drainStderr"
    /\ UNCHANGED <<pipes, serving, task, handling, cleanup, stop, runs>>
    /\ AsBridge

\* Mutant: a task that outlived its budget is not held against the cleanup.
CleanupOkWithoutTask == cleanupCompleted /\ cleanup = "verified" /\ stop = "done"

\* cleanup_ok
CleanupOk == executionCompleted /\ cleanupCompleted /\ cleanup = "verified" /\ stop = "done"

DrainStderr ==
    /\ b = "drainStderr"
    /\ b' = "reapStderr"
    /\ UNCHANGED <<pipes, serving, task, handling, cleanup, stop, runs>>
    /\ AsBridge

ReturnError ==
    /\ b = "reapStderr"
    /\ b' = "returned"
    /\ outcome' = IF CleanupOk THEN "error" ELSE "unverified"
    /\ UNCHANGED <<pipes, serving, task, error, verified, cleanup, stop, runs>>
    /\ AsBridge

\* A cancellation that nothing caught: only stderr is still drained and reaped.
ReturnBare ==
    /\ b = "drainBare"
    /\ b' = "returned" /\ outcome' = "cancelled"
    /\ UNCHANGED <<pipes, serving, task, error, verified, cleanup, stop, runs>>
    /\ AsBridge

-----------------------------------------------------------------------------
Runtime ==
    \/ Call \/ Send \/ SendFails \/ Receive \/ ReceiveFails \/ Accept \/ Refuse
    \/ Abandon \/ FinishRun \/ Publish \/ Exit

Handler == TaskEnds \/ CleanupEnds

Bridge ==
    \/ ReadRequest \/ ReadEof \/ ReadTimeout \/ TakeResult \/ ExecuteTimeout
    \/ EncodeResponse \/ Encoded \/ WriteResponse \/ StartDrain \/ Drained \/ DrainFails
    \/ CancelTask \/ AwaitTask \/ LeaveTask \/ ChildGone \/ TerminateChild \/ KillChild
    \/ JointDone \/ JointGivenUp \/ LeaveJoint \/ DrainStderr \/ ReturnError \/ ReturnBare

\* The call is over; the processes it left behind are the caller's.
Done == b = "returned" /\ UNCHANGED vars

Next == Tick \/ Runtime \/ Handler \/ Bridge \/ CallerCancel \/ Done

\* The host's event loop runs and time passes.  Nothing is assumed of the
\* runtime, which may hang, or of the handler, which may ignore cancellation.
Spec == Init /\ [][Next]_vars /\ WF_vars(Bridge) /\ WF_vars(Tick)

-----------------------------------------------------------------------------
Messages == [seq : Nat, kind : {"none", "output", "other", "torn", "completed", "fatal"}]
Errors == {"none", "cancelled", "pipe_broken", "external_request_after_fatal",
           "external_request_framing_invalid", "external_request_sequence_mismatch",
           "deadline_before_dispatch", "external_runtime_nonzero",
           "runtime_publication_deadline_exceeded", "tool_settlement_deadline_exceeded",
           "response_serialization_deadline_exceeded"}

RuntimeType ==
    /\ now \in Nat
    /\ rt \in {"idle", "sending", "reading", "parsing", "publishing", "exiting", "exited"}
    /\ nextSeq \in 0..MaxCalls /\ op \in Ops /\ answer \in Messages
    /\ verdict \in [CallIds -> {"none", "sent", "accepted", "lost"}]
    /\ published \in BOOLEAN /\ exitCode \in {"none", "zero", "one", "signal"}

PipeType ==
    toBridge \in Seq(Messages) /\ toRuntime \in Seq(Messages) /\ stdinClosed \in BOOLEAN

BridgeType ==
    /\ b \in {"read", "execute", "encode", "encoded", "write", "buffered", "drain",
              "abort", "awaitTask", "boundTask", "joint", "boundJoint", "drainStderr",
              "reapStderr", "drainBare", "returned"}
    /\ expected \in Nat /\ fatalSent \in BOOLEAN /\ request \in Messages
    /\ result \in {"none", "completed", "fatal", "cancelled"} /\ control \in BOOLEAN
    /\ error \in Errors
    /\ outcome \in {"none", "ok", "error", "unverified", "cancelled"}

CleanupType ==
    /\ executionCompleted \in BOOLEAN /\ cleanupCompleted \in BOOLEAN
    /\ task \in {"none", "running", "cancelling", "done"}
    /\ cleanup \in {"none", "running", "verified", "unverified", "detached"}
    /\ stop \in {"none", "window", "term", "done", "detached"}
    /\ runs \in [CallIds -> {"none", "started", "completed", "failed"}]

\* The types of the three processes' states and of the pipes between them.
TypeOK == RuntimeType /\ PipeType /\ BridgeType /\ CleanupType

\* The bridge never blames a well-behaved runtime for a protocol error: however
\* answers, timeouts and cancellations interleave, no request reaches it out of
\* sequence or behind a fatal settlement.
NeverBlamed ==
    error \notin {"external_request_after_fatal", "external_request_sequence_mismatch"}

\* "EOF is the typed signal that lets Rust publish its terminal prefix": the
\* bridge kills the runtime only once its publication window is over, whatever
\* made the bridge fail.
PublicationWindowKept == exitCode = "signal" => now >= CleanupStart

\* "Encode the root-owned deadline before EOF becomes observable": a runtime that
\* still waits when the bridge fails on a handler's missed cutoff finds the typed
\* failure before the end of the stream.
DeadlineBeforeEof ==
    error = "tool_settlement_deadline_exceeded" /\ rt = "reading" => toRuntime # << >>

NothingLeft == rt = "exited" /\ task \notin {"running", "cancelling"}

\* A bridge that returns its result or the error it was handling leaves no child and
\* no handler task behind, and one that reports success leaves a run.json.  A bare
\* cancellation passes the check of the cleanup (stdio_bridge.py:2016): it leaves
\* something behind only after a handler task that outlived its budget, or past the
\* hard deadline, and never because the caller cancelled, however often.
CleanReturn ==
    /\ outcome \in {"ok", "error"} => NothingLeft
    /\ outcome = "cancelled" /\ executionCompleted /\ now < HardDeadline => NothingLeft
    /\ outcome = "ok" => published

\* The bridge returns, whatever the runtime and the handler do.
Returns == <>(b = "returned")

Contract == INSTANCE CallContract

\* Runtime and bridge together keep the contract of a tool call: one at a time,
\* executed at most once, accepted only when its own execution completed, and
\* fail-stop after the first one that is not accepted.
KeepsContract == Contract!Spec
=============================================================================
