----------------------------- MODULE HarborTrial ----------------------------
(***************************************************************************)
(* One Harbor trial: the agent, the seams that put the hook behind the     *)
(* agent phase and the cleanup behind the verifier, the projection of the  *)
(* context that publishes the artifacts, and a host process that may die   *)
(* at any moment.                                                          *)
(***************************************************************************)
EXTENDS HarborAgent

CONSTANT Strays      \* bound: the names a process of the sandbox may take in the public mount

VARIABLE trial       \* granted, the verifier's error, the context, where a projection returns to

vars == <<agentVars, snapshotVars, planeVars, git, trial>>

Trajectory == "trajectory.json"
Background == "runtime-background-manifest.json"
Receipt == "workspace-receipt.json"
Entry == "runtime-entry.json"

Fresh == [granted |-> FALSE, error |-> FALSE, context |-> FALSE, calls |-> 0, next |-> "none"]

Init ==
    /\ InitAgent
    /\ InitSnapshot
    /\ InitPlane
    /\ InitGit
    /\ trial = Fresh

(***************************************************************************)
(* run_agent_phase_with_deadline, behind the agent and its hook.           *)
(***************************************************************************)
(* a fatal or non-Exception hook error is raised; any other one is         *)
(* dropped; a failed agent asks for the decision when the hook succeeded   *)
Seam ==
    /\ pc = "seam" /\ Smooth
    /\ pc' = IF host.err = "none" /\ host.hook \in {"none", "error"} THEN "returned"
             ELSE IF host.err = "error" /\ host.hook = "none" THEN "decide" ELSE "raised"
    /\ UNCHANGED <<host, disk, lease, actorVars, captureVars, planeVars, git, trial>>

Granted ==
    /\ pc = "granted" /\ Smooth
    /\ pc' = "returned" /\ trial' = [trial EXCEPT !.granted = TRUE]
    /\ UNCHANGED <<host, disk, lease, actorVars, captureVars, planeVars, git>>

(***************************************************************************)
(* run_verifier_with_cleanup.                                              *)
(***************************************************************************)
VerifierEnds ==
    /\ pc = "verifier" /\ Smooth
    /\ pc' = "close"
    /\ \E e \in BOOLEAN : trial' = [trial EXCEPT !.error = e]
    /\ UNCHANGED <<host, disk, lease, actorVars, captureVars, planeVars, git>>

(* the verifier's cleanup without the answer                               *)
CloseUnchecked ==
    /\ pc = "close"
    /\ pc' = "end"
    /\ LeaseClosed \/ LeaseKept
    /\ UNCHANGED <<host, disk, lease, captureVars, planeVars, git, trial>>

(* post_verifier_cleanup_v1; its error outranks the verifier's             *)
Close ==
    /\ pc = "close"
    /\ pc' = "end"
    /\ \/ LeaseClosed /\ UNCHANGED trial
       \/ LeaseKept /\ trial' = [trial EXCEPT !.error = TRUE]
    /\ UNCHANGED <<host, disk, lease, captureVars, planeVars, git>>

SetupAbandoned ==
    /\ pc = "failed" /\ Smooth
    /\ pc' = "over" /\ trial' = [trial EXCEPT !.error = TRUE]
    /\ UNCHANGED <<host, disk, lease, actorVars, captureVars, planeVars, git>>

(***************************************************************************)
(* populate_context_post_run: one synchronous call.                        *)
(***************************************************************************)
Kind == IF disk.record = "none" THEN "emergency" ELSE disk.record

PackageNames ==
    {Marker, Trajectory, Background}
        \cup (IF receipt = NoReceipt THEN {} ELSE {Receipt})
        \cup (IF disk.entry = "none" THEN {} ELSE {Entry})

(* the marker binds the manifest and, when it is there, the receipt        *)
Content(n) ==
    CASE n = Marker -> [kind |-> Kind, manifest |-> disk.manifest, receipt |-> receipt]
      [] n = Trajectory -> [kind |-> Kind]
      [] n = Background -> disk.manifest
      [] n = Receipt -> receipt
      [] OTHER -> [entry |-> disk.entry]

Package == [n \in PackageNames |-> Content(n)]

Publishable == disk.manifest.kind # "absent" /\ (disk.record # "none" \/ disk.emergency)

(* after the agent phase, and once more at the end while it is empty       *)
Calls == {"returned", "raised", "end"}

After == [returned |-> "verifier", raised |-> "end", end |-> "over"]

Populate ==
    /\ pc \in Calls /\ host.bound /\ ~trial.context
    /\ trial' = [trial EXCEPT !.calls = @ + 1, !.next = After[pc], !.error = @ \/ pc = "raised"]
    /\ pc' = "populate"
    /\ \/ Smooth /\ Publishable /\ PublishPlane(Package)
       \/ Fault /\ Publishable /\ StageError
       \/ /\ IF Publishable THEN Fault ELSE Smooth
          /\ pub' = [PubResting EXCEPT !.pc = "failed"] /\ UNCHANGED <<root, staged, public>>
    /\ UNCHANGED <<host, disk, lease, actorVars, captureVars, git>>

(* an unbound instruction, or a context that is there, needs no call       *)
SkipPopulate ==
    /\ pc \in Calls /\ Smooth /\ (~host.bound \/ trial.context)
    /\ pc' = After[pc]
    /\ trial' = [trial EXCEPT !.error = @ \/ pc = "raised"]
    /\ UNCHANGED <<host, disk, lease, actorVars, captureVars, planeVars, git>>

Link(n) ==
    /\ pc = "populate" /\ LinkFile(n) /\ Smooth
    /\ UNCHANGED <<pc, host, disk, lease, actorVars, captureVars, git, trial>>

LinkFails ==
    /\ pc = "populate" /\ LinkError /\ Fault
    /\ UNCHANGED <<pc, host, disk, lease, actorVars, captureVars, git, trial>>

(* nothing is thrown: a failure leaves the context empty; the private root *)
(* goes once the context is there                                          *)
Populated ==
    /\ pc = "populate" /\ pub.pc \in {"ok", "failed"}
    /\ pc' = trial.next
    /\ \/ Smooth /\ pub.pc = "ok" /\ CleanPlane /\ trial' = [trial EXCEPT !.context = TRUE]
       \/ /\ pub' = PubResting /\ UNCHANGED <<root, staged, public>>
          /\ \/ (IF pub.pc = "ok" THEN Fault ELSE Smooth) /\ UNCHANGED trial
             \/ Fault /\ pub.pc = "ok" /\ trial' = [trial EXCEPT !.context = TRUE]
    /\ UNCHANGED <<host, disk, lease, actorVars, captureVars, git>>

(***************************************************************************)
(* The environment.                                                        *)
(***************************************************************************)
(* the clock of the hook's hard deadline                                   *)
Tick ==
    /\ pc \in {"capture", "liveness", "hookclean", "decide"} /\ clock < 3
    /\ clock' = clock + 1
    /\ UNCHANGED <<agentVars, cap, scans, snaps, stages, wsfiles, receipt, cancelled, faults, planeVars, git, trial>>

(* a capture nobody waits for goes on, except while a call blocks the loop *)
Capture ==
    /\ pc \notin {"populate", "crashed"} /\ CaptureStep
    /\ root \/ (receipt' = receipt /\ wsfiles' = wsfiles)
    /\ UNCHANGED <<agentVars, planeVars, git, trial>>

ScanGone(id) == ScanEnds(id) /\ UNCHANGED <<agentVars, planeVars, git, trial>>

ScriptStep ==
    /\ GitScript \/ GitSignal \/ GitKill
    /\ IF GitForced \/ (git'.pc \notin {"failed", "killed"} /\ git'.trapped = git.trapped) THEN Smooth ELSE Fault
    /\ UNCHANGED <<agentVars, cap, scans, snaps, stages, wsfiles, receipt, clock, cancelled, planeVars, trial>>

SandboxFile(n) ==
    /\ pc \in {"dispatch", "bridge", "populate"}
    /\ Stray(n) /\ Fault
    /\ UNCHANGED <<agentVars, cap, scans, snaps, stages, wsfiles, receipt, clock, cancelled, git, trial>>

(* the files and the sandbox stay; what the process remembered is gone     *)
Crash ==
    /\ pc \notin {"crashed", "over"}
    /\ pc' = "crashed"
    /\ host' = [HostAtRest(host.preserve) EXCEPT !.launched = host.launched]
    /\ cap' = Resting /\ clock' = 0 /\ cancelled' = FALSE /\ pub' = PubResting
    /\ trial' = Fresh /\ Smooth
    /\ UNCHANGED <<disk, lease, actorVars, stages, wsfiles, receipt, root, staged, public, git>>

Agent ==
    \/ SetupPlane \/ SetupActor \/ SetupGit \/ SetupGitEnds \/ SetupEnds
    \/ Dispatch \/ Prepare \/ Launch
    \/ \E e \in {"none", "error", "cancelled"} : BridgeEnds(e)
    \/ HandoffCleanup \/ SealLease \/ HandoffReceipts \/ HandoffReclean \/ HandoffEnds \/ RecordEntry
    \/ HookStarts \/ HookReturns \/ HookExpires \/ HookClean \/ Observe \/ AbortClean \/ Decide

Seams == Seam \/ Granted \/ VerifierEnds \/ Close \/ SetupAbandoned

Projection == Populate \/ SkipPopulate \/ Populated \/ LinkFails \/ \E n \in Names : Link(n)

Next ==
    \/ Agent /\ UNCHANGED trial
    \/ Seams
    \/ Projection
    \/ Capture
    \/ (\E t \in Tasks : StartTask(t)) /\ UNCHANGED trial
    \/ (CancelSetup \/ HandoffExpires \/ (pc # "crashed" /\ DetachedCleanup) \/ Abort) /\ UNCHANGED trial
    \/ (\E t \in Tasks \cup {Foreground} : TaskEnds(t)) /\ UNCHANGED trial
    \/ Tick
    \/ \E id \in Runs : ScanGone(id)
    \/ ScriptStep
    \/ \E n \in Strays : SandboxFile(n)
    \/ Crash

Spec == Init /\ [][Next]_vars

(***************************************************************************)
(* Properties.                                                             *)
(***************************************************************************)
(* write_started and write_not_started: a runtime that was launched has    *)
(* its started fact on disk, through every failed handoff and every crash, *)
(* and a not_started fact is never written for one that was.               *)
EntryTruth ==
    /\ host.launched => disk.entry = "started"
    /\ disk.entry = "not_started" => ~host.launched /\ disk.emergency

(* _remote_inventory and workspace_failure_disposition: a second scan      *)
(* starts, and a failure receipt lets the trial go on, only over a sandbox *)
(* where the scans of that capture are dead and their staging directories  *)
(* removed, whatever was lost, late or cancelled on the way.               *)
CaptureHonest ==
    /\ cap.attempt = 2 => <<cap.phase, 1>> \notin scans \cup stages
    /\ receipt.disposition = "continue" =>
          \A a \in 1..2 : <<receipt.scan[1], a>> \notin scans \cup stages

(* seal_process_lease_v1, the hook and the decision: while the verifier    *)
(* runs, every live owned process is in the sealed lease and no scan       *)
(* lives; after a failed agent nothing lives, the terminal record is an    *)
(* eligible one and the bound receipt is acceptable.                       *)
VerifierSafe ==
    pc = "verifier" =>
        /\ alive \subseteq lease.tasks /\ scans = {}
        /\ trial.granted => alive = {} /\ disk.record = "eligible" /\ Acceptable(receipt)

(* run_verifier_with_cleanup: a trial that ends without an error leaves no *)
(* owned process behind.                                                   *)
CleanEnd == pc = "over" /\ ~trial.error => alive = {} /\ scans = {}

(* _finalize_handoff: a failure manifest claims a verified cleanup only    *)
(* when nothing is left, and a normal one names every process alive.       *)
HandoffHonest ==
    /\ disk.manifest.kind = "failure" /\ disk.manifest.verified => alive = {}
    /\ disk.manifest.kind = "normal" => alive \subseteq lease.tasks

(* ControlPlane.publish: whenever a marker of the harness is public, also  *)
(* after a crash between two links or a second projection, and whatever    *)
(* the sandbox put into the mount, every file it binds is public with the  *)
(* bound content, and no receipt of the harness that it does not bind.     *)
Published ==
    Marker \in DOMAIN public /\ public[Marker] # Foreign =>
        /\ {Trajectory, Background} \subseteq DOMAIN public
        /\ public[Trajectory] = [kind |-> public[Marker].kind]
        /\ public[Background] = public[Marker].manifest
        /\ IF public[Marker].receipt = NoReceipt THEN Receipt \in DOMAIN public => public[Receipt] = Foreign
           ELSE Receipt \in DOMAIN public /\ public[Receipt] = public[Marker].receipt

(* isolate_preexisting_git_history: the agent of a task that does not ask  *)
(* for its history runs in the new repository with the old one gone, and a *)
(* script that ended by itself, wherever a command failed or a signal      *)
(* arrived, left a repository directory: the trap puts the old one back.   *)
HistoryIsolated ==
    /\ host.launched /\ ~host.preserve => git.repo = "new" /\ ~git.aside
    /\ git.pc \in {"ok", "failed"} => git.repo # "none" /\ ~git.aside
=============================================================================
