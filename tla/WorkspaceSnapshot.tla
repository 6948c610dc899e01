-------------------------- MODULE WorkspaceSnapshot -------------------------
(***************************************************************************)
(* capture_before and capture_after.  A capture names a staging directory  *)
(* in the sandbox, runs an owned scan there, downloads and parses what the *)
(* scan wrote and removes the directory again; the first transient failure *)
(* is tried once more, only behind the proofs that nothing of the first    *)
(* attempt is left.  The capture after the agent then writes its files and *)
(* last its receipt.  Failures leave a failure receipt.  The capture after *)
(* the agent runs as a task of its own under a deadline with two cutoffs;  *)
(* its caller may cancel it and stop waiting for it.                       *)
(***************************************************************************)
EXTENDS Naturals, FiniteSets, SnapshotFailure

CONSTANTS
    WsFiles,    \* bound: the files capture_after writes before its receipt
    MaxFaults   \* bound: the calls, writes and commands that fail in one trial

VARIABLES
    cap,        \* the capture under way: phase, step, attempt, proofs, failure, outcome
    scans,      \* the captures' scan processes alive in the sandbox
    snaps,      \* the scans the actor still owns: termination not verified
    stages,     \* the staging directories in the sandbox
    wsfiles,    \* how many of capture_after's files are written
    receipt,    \* workspace-receipt.json
    clock,      \* the deadline of capture_after: 0, past capture, past cleanup, past hard
    cancelled,  \* the task of the capture was cancelled by its caller
    faults      \* the faults so far

snapshotVars == <<cap, scans, snaps, stages, wsfiles, receipt, clock, cancelled, faults>>

NoFailure == [at |-> "none"]

NoReceipt == [status |-> "absent", disposition |-> "none", scan |-> <<"none", 0>>]

Resting == [phase |-> "none", step |-> "idle", attempt |-> 0, proofs |-> NoProof,
            failure |-> NoFailure, stopped |-> FALSE, out |-> "none"]

Runs == {"before", "after"} \X {1, 2}

InitSnapshot ==
    /\ cap = Resting
    /\ scans = {} /\ snaps = {} /\ stages = {}
    /\ wsfiles = 0
    /\ receipt = NoReceipt
    /\ clock = 0
    /\ cancelled = FALSE
    /\ faults = 0

(* a step goes well, or it is one of the faults                            *)
Smooth == UNCHANGED faults

Fault == faults < MaxFaults /\ faults' = faults + 1

Id == <<cap.phase, cap.attempt>>

(* only capture_after has a deadline                                       *)
Late == cap.phase = "after" /\ clock >= 1

PastCleanup == cap.phase = "after" /\ clock >= 2

CaptureOf(phase) == [Resting EXCEPT !.phase = phase, !.step = "stage", !.attempt = 1]

Go(step) == cap' = [cap EXCEPT !.step = step]

(* the capture ends and keeps its outcome                                  *)
Ends(out) == cap' = [Resting EXCEPT !.phase = cap.phase, !.step = "done", !.out = out]

Fails(f, p, step) == cap' = [cap EXCEPT !.step = step, !.failure = f, !.proofs = p]

(* a CancelledError that leaves the attempt is fatal whatever it proves    *)
Cancels(p, step) == cap' = [cap EXCEPT !.step = step, !.failure = Stopped, !.proofs = p, !.stopped = TRUE]

Staged == [NoProof EXCEPT !.stage = TRUE]

Scanned == [Staged EXCEPT !.term = TRUE, !.zero = TRUE]

(***************************************************************************)
(* One attempt.                                                            *)
(***************************************************************************)
(* mktemp: a lost reply may leave the directory behind, unnamed            *)
NameStage ==
    /\ cap.step = "stage"
    /\ \/ Smooth /\ ~Late /\ stages' = stages \cup {Id} /\ Fails(NoFailure, Staged, "scan")
       \/ Fault /\ ~Late /\ stages' \in {stages, stages \cup {Id}} /\ Fails(SetupFailed, NoProof, "conclude")
       \/ Smooth /\ Late /\ stages' = stages /\ Fails(OutOfTime, NoProof, "conclude")
       \/ Smooth /\ cancelled /\ stages' \in {stages, stages \cup {Id}} /\ Cancels(NoProof, "conclude")
    /\ UNCHANGED <<scans, snaps, wsfiles, receipt, clock, cancelled>>

(* the actor keeps an owned scan on its list until its end is verified     *)
StartScan ==
    /\ cap.step = "scan" /\ ~Late
    /\ Go("scanning") /\ Smooth
    /\ scans' = scans \cup {Id} /\ snaps' = snaps \cup {Id}
    /\ UNCHANGED <<stages, wsfiles, receipt, clock, cancelled>>

(* exec_snapshot_owned ends with the termination of the scan verified      *)
ScanVerified ==
    /\ cap.step = "scanning"
    /\ \/ Smooth /\ Fails(NoFailure, Scanned, "download")
       \/ Fault /\ \E f \in ExecFailures \cup {ScanFailed} : Fails(f, Scanned, "clean")
       \/ Smooth /\ cancelled /\ Cancels(Scanned, "clean")
    /\ scans' = scans \ {Id} /\ snaps' = snaps \ {Id}
    /\ UNCHANGED <<stages, wsfiles, receipt, clock, cancelled>>

(* or not, and then the directory is left alone: the scan may live         *)
ScanUnverified ==
    /\ \/ cap.step = "scanning" /\ Fault
       \/ cap.step = "scan" /\ Late /\ Smooth
    /\ \E s \in {FALSE, cancelled} :
          cap' = [cap EXCEPT !.step = "conclude", !.failure = Unverified, !.stopped = s]
    /\ UNCHANGED <<scans, snaps, stages, wsfiles, receipt, clock, cancelled>>

Download ==
    /\ cap.step = "download"
    /\ \/ Smooth /\ ~Late /\ Go("clean")
       \/ Fault /\ ~Late /\ \E f \in {DownloadLost, DownloadSlow, ParseFailed} : Fails(f, Scanned, "clean")
       \/ Smooth /\ Late /\ Fails(DownloadSlow, Scanned, "clean")
       \/ Smooth /\ cancelled /\ Cancels(Scanned, "clean")
    /\ UNCHANGED <<scans, snaps, stages, wsfiles, receipt, clock, cancelled>>

Removed == [Scanned EXCEPT !.clean = TRUE]

(* the removal that trusts its own reply                                   *)
CleanAssumed ==
    /\ cap.step = "clean" /\ cap' = [cap EXCEPT !.step = "conclude", !.proofs = Removed]
    /\ \/ Smooth /\ stages' = stages \ {Id}
       \/ Fault /\ stages' \in {stages, stages \ {Id}}
    /\ UNCHANGED <<scans, snaps, wsfiles, receipt, clock, cancelled>>

(* past its cutoff the bare TimeoutError leaves the attempt; a failed      *)
(* removal outranks the failure that led to it and spoils an inventory     *)
Clean ==
    /\ cap.step = "clean"
    /\ \/ /\ Smooth /\ ~PastCleanup
          /\ stages' = stages \ {Id} /\ cap' = [cap EXCEPT !.step = "conclude", !.proofs = Removed]
       \/ /\ Fault /\ ~PastCleanup
          /\ stages' \in {stages, stages \ {Id}}
          /\ IF cap.failure = NoFailure THEN Go("conclude") ELSE Fails(StageKept, Scanned, "conclude")
       \/ Smooth /\ PastCleanup /\ stages' = stages /\ Fails(CleanupLate, NoProof, "conclude")
       \/ Smooth /\ cancelled /\ stages' \in {stages, stages \ {Id}} /\ Cancels(NoProof, "conclude")
    /\ UNCHANGED <<scans, snaps, wsfiles, receipt, clock, cancelled>>

(* a second attempt only behind all four proofs and with time left         *)
MayRetry(f, p) == Retryable(f) /\ AllProved(p)

ConcludeAttempt ==
    /\ cap.step = "conclude" /\ Smooth
    /\ IF cap.failure = NoFailure THEN Go("write")
       ELSE IF cap.attempt = 1 /\ MayRetry(cap.failure, cap.proofs) /\ ~Late
               THEN cap' = [CaptureOf(cap.phase) EXCEPT !.attempt = 2]
               ELSE Go("fail")
    /\ UNCHANGED <<scans, snaps, stages, wsfiles, receipt, clock, cancelled>>

(***************************************************************************)
(* Materialization.                                                        *)
(***************************************************************************)
(* a file or a checkpoint that fails once everything remote is proved gone *)
(* is a failure of the evidence only; a file that is there and differs is  *)
(* not                                                                     *)
Unwritten(f) ==
    Fails(IF cap.phase = "after" /\ AllProved(cap.proofs) THEN Evidence ELSE f, cap.proofs, "fail")

WriteBefore ==
    /\ cap.phase = "before" /\ cap.step = "write"
    /\ \/ Smooth /\ Ends("available")
       \/ Fault /\ Unwritten(NotPublished)
    /\ UNCHANGED <<scans, snaps, stages, wsfiles, receipt, clock, cancelled>>

WriteAfter ==
    /\ cap.phase = "after" /\ cap.step = "write" /\ wsfiles < WsFiles
    /\ \/ Smooth /\ ~Late /\ wsfiles' = wsfiles + 1 /\ UNCHANGED cap
       \/ Fault /\ ~Late /\ (Unwritten(NotPublished) \/ Fails(NotPublished, cap.proofs, "fail")) /\ UNCHANGED wsfiles
       \/ Smooth /\ Late /\ Unwritten(CleanupLate) /\ UNCHANGED wsfiles
    /\ UNCHANGED <<scans, snaps, stages, receipt, clock, cancelled>>

Complete == [status |-> "complete", disposition |-> "none", scan |-> Id]

(* the checkpoint behind the receipt may still fail                        *)
WriteReceipt ==
    /\ cap.phase = "after" /\ cap.step = "write" /\ wsfiles = WsFiles
    /\ \/ /\ ~Late /\ receipt' = Complete
          /\ \/ Smooth /\ Ends("receipt")
             \/ Fault /\ Unwritten(CleanupLate)
       \/ Fault /\ ~Late /\ Unwritten(NotPublished) /\ UNCHANGED receipt
       \/ Smooth /\ Late /\ Unwritten(CleanupLate) /\ UNCHANGED receipt
    /\ UNCHANGED <<scans, snaps, stages, wsfiles, clock, cancelled>>

FailureReceipt ==
    [status |-> "failed", scan |-> Id,
     disposition |-> IF cap.stopped THEN "fatal" ELSE Disposition(cap.phase, cap.failure, cap.proofs)]

(* _failure_receipt: a receipt that is there already and differs is kept   *)
WriteFailure ==
    /\ cap.step = "fail"
    /\ \/ /\ receipt = NoReceipt /\ Smooth
          /\ receipt' = FailureReceipt
          /\ Ends(IF cap.stopped THEN "raised"
                  ELSE IF cap.phase = "after" THEN "receipt"
                  ELSE IF FailureReceipt.disposition = "continue" THEN "unavailable" ELSE "raised")
       \/ /\ IF receipt = NoReceipt THEN Fault ELSE Smooth
          /\ Ends("raised") /\ UNCHANGED receipt
    /\ UNCHANGED <<scans, snaps, stages, wsfiles, clock, cancelled>>

CaptureStep ==
    NameStage \/ StartScan \/ ScanVerified \/ ScanUnverified \/ Download \/ Clean \/ ConcludeAttempt
        \/ WriteBefore \/ WriteAfter \/ WriteReceipt \/ WriteFailure

(* a scan that was not proved dead ends by itself                          *)
ScanEnds(id) ==
    /\ id \in scans
    /\ scans' = scans \ {id}
    /\ UNCHANGED <<cap, snaps, stages, wsfiles, receipt, clock, cancelled, faults>>
=============================================================================
