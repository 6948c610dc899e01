--------------------------- MODULE ForegroundRun ----------------------------
(***************************************************************************)
(* A foreground command of the terminal actor: the host coroutine          *)
(* _execute_foreground_v3 (or _legacy when the request carries no signed   *)
(* cutoffs), the script in mode "run" on the other side of the transport,  *)
(* and the processes the command starts.                                   *)
(*                                                                         *)
(* The transport may lose a call before, during or after its effect.       *)
(* stage counts the signed cutoffs of the request that have passed:        *)
(* actor_done, probe, output, encode, history_commit.                      *)
(***************************************************************************)
EXTENDS OwnedProcesses, Integers

CONSTANTS
    Commands,        \* foreground requests, each with its own request_dir
    DelayedRun       \* may a run call whose reply was lost still start, or be between fork and pgid?

VARIABLES
    run,             \* the script's progress, per command
    watch,           \* signals the script's watcher has sent
    active,          \* RemoteTerminalActor._active
    fg,              \* the coroutine: step, command, signed cutoffs?, cancelled?, dispatched?
    out,             \* what the caller was told, per command
    stage

fgVars == <<run, watch, active, fg, out, stage>>

Unknown == "unknown"
NoOutcome == [kind |-> "none", started |-> FALSE, cleanup |-> Unknown, census |-> Unknown]
Resting == [pc |-> "idle", cmd |-> "none", signed |-> FALSE, cancelled |-> FALSE,
            started |-> FALSE, signalled |-> TRUE]

CleanupSteps == {"evidence", "cleanup", "cleanupKill", "cleanupWait", "term", "kill", "census"}

InitForeground ==
    /\ run = [c \in Commands |-> "none"]
    /\ watch = [c \in Commands |-> 0]
    /\ active = {}
    /\ fg = Resting
    /\ out = [c \in Commands |-> NoOutcome]
    /\ stage = 0

ActorDonePassed == fg.signed /\ stage >= 1

(* the coroutine's exits: a result, or an error after containment          *)
Leave(o, release) ==
    /\ out' = [out EXCEPT ![fg.cmd] = o]
    /\ active' = IF release THEN active \ {fg.cmd} ELSE active
    /\ fg' = Resting /\ stage' = 0
    /\ UNCHANGED <<procs, run, watch>>

GoTo(step) == fg' = [fg EXCEPT !.pc = step] /\ UNCHANGED <<procs, run, watch, active, out, stage>>

(* the time between two steps of the coroutine                             *)
PassCutoff ==
    /\ fg.pc # "idle" /\ fg.signed /\ stage < 5
    /\ stage' = stage + 1
    /\ UNCHANGED <<procs, run, watch, active, fg, out>>

(* execute, _prepare_request and the registration in _active               *)
Admit(c, signed) ==
    /\ fg.pc = "idle" /\ out[c] = NoOutcome /\ c \notin active
    /\ active' = active \cup {c}
    /\ fg' = [Resting EXCEPT !.pc = "setup", !.cmd = c, !.signed = signed]
    /\ UNCHANGED <<procs, run, watch, out, stage>>

RefuseMapping(c) ==
    /\ fg.pc = "idle" /\ out[c] = NoOutcome /\ c \notin active
    /\ out' = [out EXCEPT ![c] = [NoOutcome EXCEPT !.kind = "failed"]]
    /\ UNCHANGED <<procs, run, watch, active, fg, stage>>

Setup == fg.pc = "setup" /\ ~ActorDonePassed /\ GoTo("upload")

Upload == fg.pc = "upload" /\ ~ActorDonePassed /\ GoTo("dispatch")

(* _foreground_action_admission_failure: nothing was dispatched            *)
RejectAdmission ==
    /\ fg.pc \in {"setup", "upload", "dispatch"} /\ ActorDonePassed
    /\ Leave([NoOutcome EXCEPT !.kind = "failed"], TRUE)

LaunchFailed == fg.pc \in {"setup", "upload"} /\ GoTo("evidence")

(* _foreground_run_dispatch_rpc                                            *)
Dispatch ==
    /\ fg.pc = "dispatch" /\ ~ActorDonePassed
    /\ run' = [run EXCEPT ![fg.cmd] = "queued"]
    /\ fg' = [fg EXCEPT !.pc = "wait", !.started = TRUE]
    /\ UNCHANGED <<procs, watch, active, out, stage>>

Reply ==
    /\ fg.pc = "wait"
    /\ \/ run[fg.cmd] = "settled" /\ GoTo("download")
       \/ run[fg.cmd] \in {"refused", "unverified"} /\ GoTo("recover")

(* a call whose reply is lost: unless DelayedRun, one that has not begun   *)
(* never will                                                              *)
GiveUpOnRun(step) ==
    /\ DelayedRun \/ run[fg.cmd] # "forked"
    /\ run' = [run EXCEPT ![fg.cmd] =
                   IF @ = "queued" /\ ~DelayedRun THEN "lost" ELSE @]
    /\ fg' = [fg EXCEPT !.pc = step]
    /\ UNCHANGED <<procs, watch, active, out, stage>>

LoseReply == fg.pc = "wait" /\ ~ActorDonePassed /\ GiveUpOnRun("recover")

(* _ActorDoneDeadlineExceeded goes to _settle_dispatched_foreground        *)
DeadlineExceeded ==
    /\ ActorDonePassed
    /\ \/ fg.pc = "wait" /\ GiveUpOnRun("term")
       \/ fg.pc = "download" /\ GoTo("term")

Verified == [kind |-> "result", started |-> TRUE, cleanup |-> "yes", census |-> "yes"]

(* _download_verified_foreground and _recover_settled_foreground           *)
Download ==
    /\ fg.pc \in {"download", "recover"} /\ run[fg.cmd] = "settled"
    /\ Leave(Verified, TRUE)

DownloadFailed == fg.pc \in {"download", "recover"} /\ GoTo("evidence")

(* _execute_foreground_legacy cannot tell an unclean failure before the    *)
(* dispatch from one behind it                                             *)
MayHaveStarted(clean) == fg.started \/ (~fg.signed /\ ~clean)

(* How the coroutine leaves once containment answered (cleanup, census):   *)
(* the merged ToolFailure, or the cancellation it was given                *)
LeaveContained(cleanup, census) ==
    LET clean == cleanup = "yes" /\ census = "yes" IN
    Leave([kind |-> IF fg.cancelled /\ (clean \/ (fg.signed /\ ~fg.started)) THEN "cancelled" ELSE "failed",
           started |-> MayHaveStarted(clean),
           cleanup |-> IF fg.started THEN cleanup ELSE Unknown,
           census |-> IF fg.started THEN census ELSE Unknown],
          clean)

PgidPublished(c) == run[c] \in {"running", "reaping", "confirming", "settled", "unverified"}

(* _cleanup_failed_foreground_launch_evidence                              *)
Evidence ==
    /\ fg.pc = "evidence"
    /\ \/ LeaveContained(Unknown, Unknown)
       \/ /\ ~ActorDonePassed /\ PgidPublished(fg.cmd)
          /\ GoTo("cleanup")
       \/ /\ ~ActorDonePassed /\ ~PgidPublished(fg.cmd)
          /\ LeaveContained("yes", "yes")

(* _cleanup_dir_evidence: the script's mode "cleanup", TERM first          *)
CleanupTerm ==
    /\ fg.pc = "cleanup" /\ ~ActorDonePassed /\ OwnedAlive(procs[fg.cmd])
    /\ \E p \in AfterTerm(procs[fg.cmd], Members) : procs' = [procs EXCEPT ![fg.cmd] = p]
    /\ fg' = [fg EXCEPT !.pc = "cleanupKill"]
    /\ UNCHANGED <<run, watch, active, out, stage>>

CleanupKill ==
    /\ fg.pc = "cleanupKill"
    /\ \E p \in AfterKill(procs[fg.cmd], Members) : procs' = [procs EXCEPT ![fg.cmd] = p]
    /\ fg' = [fg EXCEPT !.pc = "cleanupWait"]
    /\ UNCHANGED <<run, watch, active, out, stage>>

CleanupAnswer ==
    /\ fg.pc \in {"cleanup", "cleanupWait"}
    /\ \/ ~OwnedAlive(procs[fg.cmd]) /\ LeaveContained("yes", "yes")
       \/ fg.pc = "cleanupWait" /\ OwnedAlive(procs[fg.cmd]) /\ LeaveContained("no", Unknown)

CleanupLost == fg.pc \in {"cleanup", "cleanupKill", "cleanupWait"} /\ LeaveContained(Unknown, Unknown)

(* _settle_dispatched_foreground: TERM, grace, KILL, census, each before   *)
(* its own cutoff.  A signal reaches nothing while the script has not      *)
(* published the pgid, and its answer may be lost.                         *)
SettleSignal(cutoff, outcomes, next) ==
    /\ \E reached, heard \in BOOLEAN :
         /\ heard => reached
         /\ reached => stage < cutoff /\ PgidPublished(fg.cmd)
         /\ \E p \in IF reached THEN outcomes ELSE {procs[fg.cmd]} :
                procs' = [procs EXCEPT ![fg.cmd] = p]
         /\ fg' = [fg EXCEPT !.pc = next, !.signalled = @ /\ heard]
    /\ UNCHANGED <<run, watch, active, out, stage>>

SettleTerm == fg.pc = "term" /\ SettleSignal(2, AfterTerm(procs[fg.cmd], Members), "kill")

SettleKill == fg.pc = "kill" /\ SettleSignal(4, AfterKill(procs[fg.cmd], Members), "census")

CensusZero(c) == PgidPublished(c) /\ ~OwnedAlive(procs[c])

SettleCensus ==
    /\ fg.pc = "census"
    /\ \/ LeaveContained("no", "no")
       \/ stage < 5 /\ CensusZero(fg.cmd) /\ LeaveContained(IF fg.signalled THEN "yes" ELSE "no", "yes")

(* the caller cancels the coroutine: it turns to containment, shielded     *)
Cancel ==
    /\ fg.pc \in {"setup", "upload", "dispatch", "wait", "download", "recover"} /\ ~fg.cancelled
    /\ DelayedRun \/ run[fg.cmd] # "forked"
    /\ run' = [run EXCEPT ![fg.cmd] =
                   IF @ = "queued" /\ ~DelayedRun THEN "lost" ELSE @]
    /\ fg' = [fg EXCEPT !.cancelled = TRUE,
                        !.pc = IF fg.started /\ fg.signed THEN "term" ELSE "evidence"]
    /\ UNCHANGED <<procs, watch, active, out, stage>>

(* and cancels again: the shielded containment goes on and nobody hears it; *)
(* what it still kills is among what Behave lets end                       *)
CancelAgain ==
    /\ fg.pc \in CleanupSteps /\ fg.cancelled
    /\ Leave([NoOutcome EXCEPT !.kind = "cancelled", !.started = fg.started], FALSE)

(***************************************************************************)
(* The script in mode "run".                                               *)
(***************************************************************************)
RunStep(c, from, to) == run[c] = from /\ run' = [run EXCEPT ![c] = to]

RunRefused(c) == RunStep(c, "queued", "refused") /\ UNCHANGED <<procs, watch, active, fg, out, stage>>

RunFork(c) ==
    /\ RunStep(c, "queued", "forked")
    /\ procs' = [procs EXCEPT ![c] = {"leader"}]
    /\ UNCHANGED <<watch, active, fg, out, stage>>

RunPublish(c) == RunStep(c, "forked", "running") /\ UNCHANGED <<procs, watch, active, fg, out, stage>>

(* the watcher: TERM to the group at the timeout, KILL after the grace     *)
RunWatcher(c) ==
    /\ run[c] = "running" /\ watch[c] < 2 /\ GroupAlive(procs[c])
    /\ watch' = [watch EXCEPT ![c] = @ + 1]
    /\ \E p \in IF watch[c] = 0 THEN AfterTerm(procs[c], GroupOf(procs[c]))
                                ELSE {procs[c] \ GroupOf(procs[c])} :
            procs' = [procs EXCEPT ![c] = p]
    /\ UNCHANGED <<run, active, fg, out, stage>>

(* the leader is gone: TERM to everything owned that is left               *)
RunReap(c) ==
    /\ RunStep(c, "running", "reaping") /\ "leader" \notin procs[c]
    /\ \E p \in AfterTerm(procs[c], Members) : procs' = [procs EXCEPT ![c] = p]
    /\ watch' = [watch EXCEPT ![c] = 0]
    /\ UNCHANGED <<active, fg, out, stage>>

RunKill(c) ==
    /\ RunStep(c, "reaping", "confirming")
    /\ \E p \in AfterKill(procs[c], Members) : procs' = [procs EXCEPT ![c] = p]
    /\ UNCHANGED <<watch, active, fg, out, stage>>

(* meta.json is published only behind a census of zero                     *)
RunSettle(c) ==
    /\ RunStep(c, "confirming", "settled") /\ ~OwnedAlive(procs[c])
    /\ UNCHANGED <<procs, watch, active, fg, out, stage>>

RunUnverified(c) ==
    /\ RunStep(c, "confirming", "unverified") /\ OwnedAlive(procs[c])
    /\ UNCHANGED <<procs, watch, active, fg, out, stage>>

Behave(c) ==
    /\ \E p \in Behaviours(procs[c]) : procs' = [procs EXCEPT ![c] = p]
    /\ UNCHANGED <<run, watch, active, fg, out, stage>>

HostStep ==
    \/ Setup \/ Upload \/ RejectAdmission \/ LaunchFailed \/ Dispatch \/ Reply \/ LoseReply
    \/ DeadlineExceeded \/ Download \/ DownloadFailed \/ Evidence \/ CleanupTerm \/ CleanupKill
    \/ CleanupAnswer \/ CleanupLost \/ SettleTerm \/ SettleKill \/ SettleCensus

RunScript(c) ==
    RunRefused(c) \/ RunFork(c) \/ RunPublish(c) \/ RunWatcher(c) \/ RunReap(c)
        \/ RunKill(c) \/ RunSettle(c) \/ RunUnverified(c)
=============================================================================
