----------------------------- MODULE HarborAgent ----------------------------
(***************************************************************************)
(* NanoHarborAgent: setup, the bounded run with its launch fact, the       *)
(* handoff that seals the background processes, the hook after the agent,  *)
(* the decision on a verifier after a failed agent and the cleanup behind  *)
(* the verifier.  RemoteTerminalActor is used by its contract (module      *)
(* TerminalActor): a cleanup that answers TRUE left no owned process.      *)
(***************************************************************************)
EXTENDS WorkspaceSnapshot, ControlPlane, GitIsolation

CONSTANT Tasks       \* the background tasks the agent may start

VARIABLES
    pc,         \* where the host's coroutine is
    host,       \* what the agent object remembers
    disk,       \* its files in the private root
    alive,      \* the owned processes alive in the sandbox
    owned,      \* the ones the actor has on its books
    lease       \* the sealed process lease

actorVars == <<alive, owned, scans, snaps>>
captureVars == <<cap, stages, wsfiles, receipt, clock, cancelled>>   \* without the faults
agentVars == <<pc, host, disk, alive, owned, lease>>

Foreground == "foreground"

NoLease == [sealed |-> FALSE, tasks |-> {}]

NoManifest == [kind |-> "absent", verified |-> FALSE]

(* preserve: the task's capability asks for its history; bound: the        *)
(* instruction was accepted; err and hook: the errors of the agent and of  *)
(* the hook; failed to detached: the handoff; aborted: Harbor cancelled    *)
HostAtRest(preserve) ==
    [preserve |-> preserve, baseline |-> "none", bound |-> FALSE, launched |-> FALSE, err |-> "none", hook |-> "none",
     failed |-> FALSE, uncleaned |-> FALSE, tried |-> FALSE, verified |-> FALSE, detached |-> FALSE,
     aborted |-> FALSE]

InitAgent ==
    /\ pc = "plane"
    /\ \E preserve \in BOOLEAN : host = HostAtRest(preserve)
    /\ disk = [entry |-> "none", record |-> "none", manifest |-> NoManifest, emergency |-> FALSE]
    /\ alive = {} /\ owned = {} /\ lease = NoLease

(***************************************************************************)
(* setup.                                                                  *)
(***************************************************************************)
SetupPlane ==
    /\ pc = "plane"
    /\ CreatePlane
    /\ pc' = IF root' THEN "actor" ELSE "failed"
    /\ Smooth
    /\ UNCHANGED <<host, disk, lease, actorVars, captureVars, git>>

SetupActor ==
    /\ pc = "actor"
    /\ \/ pc' = "git" /\ Smooth
       \/ pc' = "failed" /\ Fault
    /\ UNCHANGED <<host, disk, lease, actorVars, captureVars, planeVars, git>>

(* topology first, then the script                                         *)
SetupGit ==
    /\ pc = "git"
    /\ \/ GitStart(host.preserve) /\ pc' = "gitwait" /\ Smooth
       \/ pc' = "failed" /\ UNCHANGED git /\ Fault
    /\ UNCHANGED <<host, disk, lease, actorVars, captureVars, planeVars>>

(* the reply is lost or late, or the census behind it differs              *)
SetupGitEnds ==
    /\ pc = "gitwait"
    /\ \/ pc' = "failed" /\ UNCHANGED cap /\ (IF git.pc \in {"failed", "killed"} THEN Smooth ELSE Fault)
       \/ git.pc = "ok" /\ pc' = "before" /\ cap' = CaptureOf("before") /\ Smooth
    /\ UNCHANGED <<host, disk, lease, actorVars, stages, wsfiles, receipt, clock, cancelled, planeVars, git>>

(* Harbor's setup timeout                                                  *)
CancelSetup ==
    /\ pc = "before" /\ ~cancelled
    /\ cancelled' = TRUE /\ Fault
    /\ UNCHANGED <<pc, host, disk, lease, actorVars, cap, stages, wsfiles, receipt, clock, planeVars, git>>

SetupEnds ==
    /\ pc = "before" /\ cap.step = "done"
    /\ cap' = Resting /\ cancelled' = FALSE /\ Smooth
    /\ IF cap.out = "raised" \/ cancelled THEN pc' = "failed" /\ UNCHANGED host
                                          ELSE pc' = "dispatch" /\ host' = [host EXCEPT !.baseline = cap.out]
    /\ UNCHANGED <<disk, lease, actorVars, stages, wsfiles, receipt, clock, planeVars, git>>

(***************************************************************************)
(* _run_bound.                                                             *)
(***************************************************************************)
(* a public mount that is no longer empty is refused outside the handoff   *)
Dispatch ==
    /\ pc = "dispatch" /\ Smooth
    /\ IF PreDispatchOk THEN pc' = "prepare" /\ host' = [host EXCEPT !.bound = TRUE]
                        ELSE pc' = "hook" /\ host' = [host EXCEPT !.err = "error"]
    /\ UNCHANGED <<disk, lease, actorVars, captureVars, planeVars, git>>

(* the input files, the deadline receipt and the cutoff                    *)
Prepare ==
    /\ pc = "prepare"
    /\ \/ pc' = "launch" /\ UNCHANGED host /\ Smooth
       \/ pc' = "handoff" /\ host' = [host EXCEPT !.err = "error"] /\ Fault
    /\ UNCHANGED <<disk, lease, actorVars, captureVars, planeVars, git>>

(* the launch before its fact                                              *)
LaunchFirst ==
    /\ pc = "launch"
    /\ \E e \in {"none", "torn", "started"} :
          /\ disk' = [disk EXCEPT !.entry = e]
          /\ IF e = "started" THEN pc' = "bridge" /\ host' = [host EXCEPT !.launched = TRUE] /\ Smooth
                              ELSE pc' = "handoff" /\ host' = [host EXCEPT !.launched = TRUE, !.err = "error"] /\ Fault
    /\ UNCHANGED <<lease, actorVars, captureVars, planeVars, git>>

(* write_started: a failed exclusive write leaves any prefix of the fact   *)
Launch ==
    /\ pc = "launch"
    /\ \/ /\ disk' = [disk EXCEPT !.entry = "started"]
          /\ pc' = "bridge" /\ host' = [host EXCEPT !.launched = TRUE] /\ Smooth
       \/ /\ \E e \in {"none", "torn", "started"} : disk' = [disk EXCEPT !.entry = e]
          /\ pc' = "handoff" /\ host' = [host EXCEPT !.err = "error"] /\ Fault
    /\ UNCHANGED <<lease, actorVars, captureVars, planeVars, git>>

StartTask(t) ==
    /\ pc = "bridge" /\ t \notin owned
    /\ owned' = owned \cup {t} /\ alive' = alive \cup {t} /\ Smooth
    /\ UNCHANGED <<pc, host, disk, lease, scans, snaps, captureVars, planeVars, git>>

(* an error, or a cancellation, may leave a foreground command             *)
BridgeEnds(e) ==
    /\ pc = "bridge"
    /\ pc' = "handoff" /\ host' = [host EXCEPT !.err = e]
    /\ IF e = "none" THEN Smooth ELSE Fault
    /\ \E r \in IF e = "none" THEN {"none", "success"} ELSE {"none", "failed", "eligible"} :
          disk' = [disk EXCEPT !.record = r]
    /\ \/ UNCHANGED <<owned, alive>>
       \/ e # "none" /\ owned' = owned \cup {Foreground} /\ alive' = alive \cup {Foreground}
    /\ UNCHANGED <<lease, scans, snaps, captureVars, planeVars, git>>

(***************************************************************************)
(* The actor's contract.                                                   *)
(***************************************************************************)
(* cleanup_active_until answers TRUE and left nothing                      *)
Cleaned == alive' = {} /\ owned' = {} /\ scans' = {} /\ snaps' = {}

(* or answers FALSE                                                        *)
Uncleaned ==
    /\ alive' \in SUBSET alive /\ owned' \in {o \in SUBSET owned : alive' \subseteq o}
    /\ scans' \in SUBSET scans /\ snaps' \in {s \in SUBSET snaps : scans' \subseteq s}

TaskEnds(t) ==
    /\ t \in alive
    /\ alive' = alive \ {t} /\ Smooth
    /\ UNCHANGED <<pc, host, disk, lease, owned, scans, snaps, captureVars, planeVars, git>>

LeaseExact == lease.sealed /\ owned \ {Foreground} = lease.tasks

(* the books after a refresh: a finished task may leave them               *)
Refreshed == {o \in SUBSET owned : alive \cup (owned \cap {Foreground}) \subseteq o}

(***************************************************************************)
(* _finalize_handoff, under its budget.                                    *)
(***************************************************************************)
(* cleanup first when the agent failed; the receipt of the runtime's       *)
(* stderr may fail to be written                                           *)
HandoffCleanup ==
    /\ pc = "handoff"
    /\ pc' = "manifest"
    /\ \/ /\ host.err = "none" /\ UNCHANGED actorVars
          /\ \/ Smooth /\ UNCHANGED host
             \/ Fault /\ host' = [host EXCEPT !.failed = TRUE]
       \/ /\ host.err # "none" /\ Cleaned
          /\ \/ Smooth /\ host' = [host EXCEPT !.tried = TRUE, !.verified = TRUE]
             \/ Fault /\ host' = [host EXCEPT !.tried = TRUE, !.verified = TRUE, !.failed = TRUE]
       \/ /\ host.err # "none" /\ Uncleaned
          /\ Fault /\ host' = [host EXCEPT !.tried = TRUE, !.failed = TRUE, !.uncleaned = TRUE]
    /\ UNCHANGED <<disk, lease, captureVars, planeVars, git>>

(* background_manifest refreshes the books; the lease is sealed over the   *)
(* very rows the manifest holds, before it is written                      *)
SealLease ==
    /\ pc = "manifest"
    /\ pc' = "receipts"
    /\ owned' \in Refreshed
    /\ \/ /\ Foreground \notin owned' /\ snaps = {}
          /\ lease' = [sealed |-> TRUE, tasks |-> owned']
          /\ \/ Smooth /\ disk' = [disk EXCEPT !.manifest.kind = "normal"] /\ UNCHANGED host
             \/ Fault /\ host' = [host EXCEPT !.failed = TRUE] /\ UNCHANGED disk
       \/ /\ IF Foreground \in owned' \/ snaps # {} THEN Smooth ELSE Fault
          /\ host' = [host EXCEPT !.failed = TRUE] /\ UNCHANGED <<lease, disk>>
    /\ UNCHANGED <<alive, scans, snaps, captureVars, planeVars, git>>

(* the emergency receipt stands in for a missing run record; then the      *)
(* cleanup that no agent error asked for                                   *)
HandoffReceipts ==
    /\ pc = "receipts"
    /\ \E ok \in BOOLEAN :
          /\ disk' = [disk EXCEPT !.emergency = disk.record = "none" /\ ok]
          /\ host' = [host EXCEPT !.failed = @ \/ (disk.record = "none" /\ ~ok)]
          /\ IF disk.record # "none" \/ ok THEN Smooth ELSE Fault
    /\ pc' = IF host'.failed /\ ~host.tried THEN "reclean" ELSE "failmanifest"
    /\ UNCHANGED <<lease, actorVars, captureVars, planeVars, git>>

HandoffReclean ==
    /\ pc = "reclean"
    /\ pc' = "failmanifest"
    /\ \/ Cleaned /\ host' = [host EXCEPT !.tried = TRUE, !.verified = TRUE] /\ Smooth
       \/ Uncleaned /\ host' = [host EXCEPT !.tried = TRUE] /\ Fault
    /\ UNCHANGED <<disk, lease, captureVars, planeVars, git>>

(* the failure manifest that trusts the attempt                            *)
FailManifestTried == [kind |-> "failure", verified |-> host.tried]

FailManifest == [kind |-> "failure", verified |-> host.verified]

(* an unpublished manifest is replaced by one that says what was verified; *)
(* a verified cleanup without a lease seals an empty one                   *)
HandoffEnds ==
    /\ pc = "failmanifest"
    /\ pc' = "entry"
    /\ IF disk.manifest.kind # "absent" THEN UNCHANGED disk /\ Smooth
       ELSE \/ disk' = [disk EXCEPT !.manifest = FailManifest] /\ Smooth
            \/ UNCHANGED disk /\ Fault
    /\ lease' = IF host.verified /\ ~lease.sealed THEN [sealed |-> TRUE, tasks |-> {}] ELSE lease
    /\ UNCHANGED <<host, actorVars, captureVars, planeVars, git>>

(* the budget is spent at an await: the rest of the handoff is not done,   *)
(* but a cleanup under way goes on by itself                               *)
HandoffExpires ==
    /\ pc \in {"handoff", "manifest", "reclean"} /\ Fault
    /\ pc' = "entry"
    /\ host' = [host EXCEPT !.failed = TRUE, !.uncleaned = TRUE,
                            !.detached = (pc = "handoff" /\ host.err # "none") \/ pc = "reclean"]
    /\ UNCHANGED <<disk, lease, actorVars, captureVars, planeVars, git>>

DetachedCleanup ==
    /\ host.detached /\ owned # {} /\ Smooth
    /\ Uncleaned
    /\ UNCHANGED <<pc, host, disk, lease, captureVars, planeVars, git>>

(* what _run_bound raises: an unverified cleanup outranks the agent's own  *)
(* error; a cancellation may have arrived during the handoff               *)
Raised ==
    IF host.err # "none" THEN {IF host.uncleaned THEN "error" ELSE host.err}
    ELSE IF host.failed THEN {"error"} ELSE {"none", "error", "cancelled"}

(* write_not_started needs the emergency receipt and no entry file         *)
RecordEntry ==
    /\ pc = "entry"
    /\ pc' = "hook"
    /\ IF ~host.launched /\ host.err # "none" /\ disk.emergency /\ disk.entry = "none"
          THEN \E e \in {"not_started", "torn", "none"} :
                 disk' = [disk EXCEPT !.entry = e] /\ (IF e = "not_started" THEN Smooth ELSE Fault)
          ELSE UNCHANGED disk /\ Smooth
    /\ \E e \in Raised :
          host' = [host EXCEPT !.err = e, !.failed = FALSE, !.uncleaned = FALSE, !.tried = FALSE, !.verified = FALSE]
    /\ UNCHANGED <<lease, actorVars, captureVars, planeVars, git>>

(***************************************************************************)
(* The hook after the agent.                                               *)
(***************************************************************************)
(* without a baseline the receipt of the first capture is the answer       *)
HookStarts ==
    /\ pc = "hook" /\ Smooth
    /\ pc' = "capture"
    /\ cap' = IF host.baseline = "available" THEN CaptureOf("after")
              ELSE [Resting EXCEPT !.phase = "after", !.step = "done", !.out = "receipt"]
    /\ UNCHANGED <<host, disk, lease, actorVars, stages, wsfiles, receipt, clock, cancelled, planeVars, git>>

Acceptable(r) == r.status = "complete" \/ r.disposition = "continue"

HookReturns ==
    /\ pc = "capture" /\ cap.step = "done"
    /\ cap' = Resting /\ Smooth
    /\ IF cap.out = "receipt" /\ Acceptable(receipt)
       THEN pc' = "liveness" /\ UNCHANGED host
       ELSE pc' = "hookclean" /\ host' = [host EXCEPT !.hook = IF cap.out = "receipt" THEN "fatal" ELSE "error"]
    /\ UNCHANGED <<disk, lease, actorVars, stages, wsfiles, receipt, clock, cancelled, planeVars, git>>

(* _complete_shielded cancels the capture just before the hard deadline    *)
(* and stops waiting for it                                                *)
HookExpires ==
    /\ pc = "capture" /\ cap.step # "done" /\ clock >= 2 /\ Smooth
    /\ pc' = "hookclean" /\ host' = [host EXCEPT !.hook = "error"] /\ cancelled' = TRUE
    /\ UNCHANGED <<disk, lease, actorVars, cap, stages, wsfiles, receipt, clock, planeVars, git>>

(* Harbor cancels the trial: the hook remembers it and looks at it last,   *)
(* when the capture succeeded                                              *)
Abort ==
    /\ pc = "liveness" /\ ~host.aborted /\ Fault
    /\ host' = [host EXCEPT !.aborted = TRUE]
    /\ UNCHANGED <<pc, disk, lease, actorVars, captureVars, planeVars, git>>

(* past the hard deadline nothing is cleaned and nothing is clean          *)
HookClean ==
    /\ pc = "hookclean"
    /\ pc' = "seam"
    /\ \/ Smooth /\ clock < 3 /\ Cleaned /\ UNCHANGED host
       \/ Fault /\ clock < 3 /\ Uncleaned /\ host' = [host EXCEPT !.hook = "fatal"]
       \/ Smooth /\ clock = 3 /\ UNCHANGED actorVars /\ host' = [host EXCEPT !.hook = "fatal"]
    /\ UNCHANGED <<disk, lease, captureVars, planeVars, git>>

(* a normal manifest is answered by one observation of the exact lease;    *)
(* the error of the observation itself is not a fatal one                  *)
Observe ==
    /\ pc = "liveness"
    /\ \/ /\ disk.manifest.kind = "normal" => clock < 3 /\ LeaseExact
          /\ pc' = IF host.aborted THEN "abortclean" ELSE "seam"
          /\ UNCHANGED host /\ Smooth
       \/ /\ disk.manifest.kind = "normal"
          /\ pc' = "hookclean"
          /\ IF clock < 3 /\ LeaseExact THEN Fault ELSE Smooth
          /\ \E h \in {"error", "fatal"} : host' = [host EXCEPT !.hook = h]
    /\ UNCHANGED <<disk, lease, actorVars, captureVars, planeVars, git>>

(* close_process_lease_until                                               *)
LeaseClosed == LeaseExact /\ Cleaned /\ Smooth

LeaseKept == IF LeaseExact THEN Uncleaned /\ Fault ELSE UNCHANGED actorVars /\ Smooth

(* the cancelled trial closes the lease before it passes the cancellation  *)
AbortClean ==
    /\ pc = "abortclean"
    /\ pc' = "seam"
    /\ \/ LeaseClosed /\ host' = [host EXCEPT !.hook = "cancelled"]
       \/ LeaseKept /\ host' = [host EXCEPT !.hook = "error"]
    /\ UNCHANGED <<disk, lease, captureVars, planeVars, git>>

(***************************************************************************)
(* verifier_opportunity_decision_v1.                                       *)
(***************************************************************************)
(* the decision without the cleanup                                        *)
DecideUncleaned ==
    /\ pc = "decide" /\ Smooth
    /\ \/ pc' = "granted" /\ disk.record = "eligible" /\ Acceptable(receipt) /\ clock < 3 /\ UNCHANGED actorVars
       \/ pc' = "raised" /\ (Cleaned \/ Uncleaned)
    /\ UNCHANGED <<host, disk, lease, captureVars, planeVars, git>>

(* an eligible terminal record, the bound receipt, a verified cleanup and  *)
(* a reachable workspace; everything else, exceptions included, is a no    *)
Decide ==
    /\ pc = "decide" /\ Smooth
    /\ \/ pc' = "granted" /\ disk.record = "eligible" /\ Acceptable(receipt) /\ clock < 3 /\ Cleaned
       \/ pc' = "raised" /\ (Cleaned \/ Uncleaned)
    /\ UNCHANGED <<host, disk, lease, captureVars, planeVars, git>>
=============================================================================
