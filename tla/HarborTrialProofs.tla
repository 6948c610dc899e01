------------------------- MODULE HarborTrialProofs --------------------------
(***************************************************************************)
(* The invariants of a Harbor trial, proved for every set of tasks, names  *)
(* and foreign files and for every number of files and faults.  Each       *)
(* property has an inductive invariant of its own, stated over the         *)
(* stretches of the coroutine below; the later ones use the earlier ones.  *)
(***************************************************************************)
EXTENDS HarborTrial, TLAPS

(* from setup to the launch                                                *)
Preparing == {"plane", "actor", "git", "gitwait", "before", "dispatch", "prepare", "launch"}

(* _finalize_handoff and the entry behind it                               *)
Handing == {"handoff", "manifest", "receipts", "reclean", "failmanifest", "entry"}

BeforeHook == Preparing \cup {"bridge", "hook"} \cup Handing

(* no capture is under way                                                 *)
Quiet == BeforeHook \ {"before"}

(* behind the capture of the hook                                          *)
Behind == {"hookclean", "liveness", "abortclean", "seam", "decide", "granted", "returned", "raised",
           "verifier", "close", "end", "over", "populate"}

Pcs == BeforeHook \cup Behind \cup {"capture", "failed", "crashed"}

(***************************************************************************)
(* Types.                                                                  *)
(***************************************************************************)
HostTypes ==
    [preserve : BOOLEAN, baseline : {"none", "available", "unavailable", "raised", "receipt"}, bound : BOOLEAN,
     launched : BOOLEAN, err : {"none", "error", "cancelled"},
     hook : {"none", "error", "fatal", "cancelled"}, failed : BOOLEAN, uncleaned : BOOLEAN,
     tried : BOOLEAN, verified : BOOLEAN, detached : BOOLEAN, aborted : BOOLEAN]

DiskTypes ==
    [entry : {"none", "torn", "started", "not_started"},
     record : {"none", "success", "failed", "eligible"},
     manifest : [kind : {"absent", "normal", "failure"}, verified : BOOLEAN],
     emergency : BOOLEAN]

Failures ==
    ExecFailures \cup {NoFailure, SetupFailed, ScanFailed, DownloadLost, DownloadSlow, ParseFailed, OutOfTime,
                       Unverified, StageKept, Evidence, NotPublished, CleanupLate, Stopped}

Proofs == [stage : BOOLEAN, term : BOOLEAN, clean : BOOLEAN, zero : BOOLEAN]

CapTypes ==
    [phase : {"none", "before", "after"},
     step : {"idle", "stage", "scan", "scanning", "download", "clean", "conclude", "write", "fail", "done"},
     attempt : {0, 1, 2}, proofs : Proofs, failure : Failures, stopped : BOOLEAN,
     out : {"none", "available", "unavailable", "raised", "receipt"}]

ReceiptTypes ==
    [status : {"absent", "complete", "failed"}, disposition : {"none", "continue", "fatal"},
     scan : {"none", "before", "after"} \X {0, 1, 2}]

GitTypes ==
    [pc : {"idle", "build", "aside", "swap", "drop", "compare", "ok", "failed", "killed"},
     repo : {"old", "new", "none"}, aside : BOOLEAN, fresh : BOOLEAN, trapped : BOOLEAN]

LeaseTypes == [sealed : BOOLEAN, tasks : SUBSET (Tasks \cup {Foreground})]

TrialTypes ==
    [granted : BOOLEAN, error : BOOLEAN, context : BOOLEAN, calls : Nat,
     next : {"none", "verifier", "end", "over"}]

(* a capture is under way                                                 *)
Active == cap.step \notin {"idle", "done"}

TypeOK ==
    /\ pc \in Pcs /\ (pc = "populate" => trial.next # "none")
    /\ host \in HostTypes /\ disk \in DiskTypes /\ git \in GitTypes /\ trial \in TrialTypes
    /\ cap \in CapTypes /\ receipt \in ReceiptTypes /\ (Active => cap.phase # "none" /\ cap.attempt # 0)
    /\ lease \in LeaseTypes
    /\ owned \in SUBSET (Tasks \cup {Foreground}) /\ alive \in SUBSET owned
    /\ scans \in SUBSET Runs /\ stages \in SUBSET Runs
    /\ clock \in {0, 1, 2, 3} /\ cancelled \in BOOLEAN
    /\ root \in BOOLEAN /\ staged \in BOOLEAN
    /\ pub = [pc |-> pub.pc, files |-> pub.files, left |-> pub.left]

(***************************************************************************)
(* The inductive invariants.                                               *)
(***************************************************************************)
(* where the script stands tells what it has moved; a task that keeps its  *)
(* history never starts it                                                 *)
GitInv ==
    /\ host.preserve => git.pc \in {"idle", "ok"}
    /\ git.pc \in {"idle", "build", "aside", "failed"} => git.repo # "none" /\ ~git.aside
    /\ git.pc = "swap" /\ git.repo = "none" => git.aside
    /\ git.pc \in {"drop", "compare"} => git.repo = "new"
    /\ git.pc = "compare" => ~git.aside
    /\ git.pc = "ok" => git.repo # "none" /\ ~git.aside /\ (~host.preserve => git.repo = "new")
    /\ host.launched \/ pc \in {"before", "dispatch", "prepare", "launch"} => git.pc = "ok"

(* the fact is not on disk before its launch, and no emergency receipt     *)
(* changes once not_started is there                                       *)
EntryInv ==
    /\ EntryTruth
    /\ pc \in Preparing => ~host.launched
    /\ pc \in BeforeHook \ {"hook"} => disk.entry # "not_started"

(* the package that the marker binds                                       *)
Binds(files) ==
    /\ {Marker, Trajectory, Background} \subseteq DOMAIN files
    /\ files[Trajectory] = [kind |-> files[Marker].kind]
    /\ files[Background] = files[Marker].manifest
    /\ IF files[Marker].receipt = NoReceipt THEN Receipt \notin DOMAIN files
       ELSE Receipt \in DOMAIN files /\ files[Receipt] = files[Marker].receipt

(* while files wait to be linked, those that do not wait are public, the   *)
(* marker waits, and a receipt is the package's own or a foreign one       *)
PublishInv ==
    /\ Published
    /\ pub.pc = "linking" =>
          /\ Binds(pub.files)
          /\ pub.left \subseteq DOMAIN pub.files /\ Marker \in pub.left
          /\ \A n \in DOMAIN pub.files \ pub.left : n \in DOMAIN public /\ public[n] = pub.files[n]
          /\ Marker \in DOMAIN public => public[Marker] = Foreign
          /\ Receipt \in DOMAIN public => public[Receipt] = Foreign \/ Receipt \in DOMAIN pub.files \ pub.left

(* no manifest before the handoff wrote one, no verified cleanup before    *)
(* the agent ended: from then on nothing is started                        *)
LeaseInv ==
    /\ HandoffHonest
    /\ disk.manifest.kind = "normal" => lease.sealed
    /\ pc \in Preparing \cup {"bridge", "handoff", "manifest"} => disk.manifest.kind = "absent"
    /\ pc \in Preparing \cup {"bridge"} => ~host.verified
    /\ host.verified => alive = {}

(* the directories: one attempt at a time, its proofs true, and no capture *)
(* of a phase whose receipt is written                                     *)
StageInv ==
    /\ CaptureHonest
    /\ Active /\ cap.attempt = 1 => <<cap.phase, 2>> \notin scans \cup stages
    /\ ~Active => cap.attempt = 0
    /\ cap.proofs.clean => Id \notin stages
    /\ cap.step \in {"stage", "scan"} => ~cap.proofs.clean
    /\ pc \in {"plane", "actor", "git", "gitwait"} => stages = {} /\ receipt = NoReceipt
    /\ pc \in BeforeHook =>
          /\ \A a \in {1, 2} : <<"after", a>> \notin scans \cup stages
          /\ receipt.scan[1] # "after" /\ cap.phase # "after"
    /\ receipt.disposition = "continue" /\ Active => cap.phase # receipt.scan[1]

(* the scans: one at a time, none behind a proof of termination or behind  *)
(* a capture that succeeded, and none can start once the hook stopped      *)
(* waiting                                                                 *)
ScanInv ==
    /\ Active => scans \subseteq {Id}
    /\ cap.step \in {"stage", "scan"} => scans = {} /\ ~cap.proofs.term
    /\ cap.proofs.term => scans = {}
    /\ cap.step \in {"download", "clean", "write"} => cap.proofs.term
    /\ cap.step = "conclude" /\ cap.failure = NoFailure => cap.proofs.term
    /\ cap.step = "done" /\ cap.out \in {"available", "unavailable"} => scans = {}
    /\ cap.step = "done" /\ cap.out = "receipt" /\ Acceptable(receipt) => scans = {}
    /\ cap.step = "done" /\ cap.phase = "before" => cap.out \in {"available", "unavailable", "raised"}
    /\ (pc = "before" => cap.phase = "before") /\ (pc = "capture" => cap.phase = "after")
    /\ pc \in Quiet => cap.step = "idle" /\ scans = {}
    /\ pc = "failed" => cap.step = "idle"
    /\ pc \in Behind => cap.step = "idle" \/ (cap.phase = "after" /\ clock >= 2)

(* on the way to the verifier, and on the way out                          *)
Passing == pc \in {"returned", "verifier"} \/ (pc = "populate" /\ trial.next = "verifier")

Judging == pc \in {"hook", "capture", "liveness", "hookclean", "abortclean", "seam"} \/ Passing

Ending == pc \in {"end", "over"} \/ (pc = "populate" /\ trial.next = "over")

(* what the hook and the decision leave when the coroutine goes on         *)
VerdictInv ==
    /\ pc \in {"receipts", "reclean", "failmanifest", "entry"} /\ host.err = "none" /\ ~host.failed =>
          disk.manifest.kind = "normal"
    /\ Judging /\ host.err = "none" => disk.manifest.kind = "normal"
    /\ pc \in {"liveness", "abortclean", "decide", "granted"} => cap.step = "idle" /\ scans = {}
    /\ pc \in {"decide", "granted"} => host.err = "error"
    /\ pc = "hookclean" => host.hook # "none"
    /\ pc = "seam" /\ host.hook = "none" => cap.step = "idle"
    /\ pc = "seam" /\ host.hook # "fatal" => scans = {}
    /\ pc = "granted" => alive = {} /\ disk.record = "eligible" /\ Acceptable(receipt)
    /\ trial.granted =>
          /\ pc \in {"returned", "populate", "verifier", "close", "end", "over"}
          /\ alive = {} /\ disk.record = "eligible" /\ Acceptable(receipt) /\ cap.step = "idle"
    /\ Passing =>
          scans = {} /\ (host.err = "none" \/ trial.granted)
    /\ pc = "close" => scans = {}
    /\ pc = "populate" /\ trial.next = "end" => trial.error
    /\ Ending => trial.error \/ (alive = {} /\ scans = {})
(***************************************************************************)
(* The types.                                                              *)
(***************************************************************************)
\* Nothing that a capture can be at the start or at rest leaves the types.
LEMMA CaptureOfTypes ==
    /\ Resting \in CapTypes /\ Resting.step = "idle"
    /\ \A p \in {"before", "after"} :
          /\ CaptureOf(p) \in CapTypes /\ CaptureOf(p).phase = p
          /\ CaptureOf(p).attempt = 1 /\ CaptureOf(p).step = "stage"
    /\ [Resting EXCEPT !.phase = "after", !.step = "done", !.out = "receipt"] \in CapTypes
    /\ [Resting EXCEPT !.phase = "after", !.step = "done", !.out = "receipt"].step = "done"
<1>1. NoFailure \in Failures /\ NoProof \in Proofs
  BY DEF Failures, Proofs, NoProof
<1>2. Resting \in CapTypes /\ Resting.step = "idle"
  BY <1>1 DEF Resting, CapTypes
<1>3. ASSUME NEW r \in CapTypes, NEW p \in {"before", "after"}, NEW c,
             c = [r EXCEPT !.phase = p, !.step = "stage", !.attempt = 1]
      PROVE  c \in CapTypes /\ c.phase = p /\ c.attempt = 1 /\ c.step = "stage"
  BY <1>3 DEF CapTypes
<1>4. ASSUME NEW p \in {"before", "after"}
      PROVE  /\ CaptureOf(p) \in CapTypes /\ CaptureOf(p).phase = p
             /\ CaptureOf(p).attempt = 1 /\ CaptureOf(p).step = "stage"
  BY <1>2, <1>3, Zenon DEF CaptureOf
<1>5. ASSUME NEW r \in CapTypes, NEW c, c = [r EXCEPT !.phase = "after", !.step = "done", !.out = "receipt"]
      PROVE  c \in CapTypes /\ c.step = "done"
  BY <1>5 DEF CapTypes
<1>6. /\ [Resting EXCEPT !.phase = "after", !.step = "done", !.out = "receipt"] \in CapTypes
      /\ [Resting EXCEPT !.phase = "after", !.step = "done", !.out = "receipt"].step = "done"
  BY <1>2, <1>5, Zenon
<1> QED
  BY <1>2, <1>4, <1>6

\* The script and its trap move three directories.
LEMMA GitTypesStep ==
    ASSUME git \in GitTypes, GitScript \/ GitSignal \/ GitKill
    PROVE  git' \in GitTypes
<1>1. ASSUME NEW g \in GitTypes PROVE Trap(g) \in GitTypes
  BY DEF Trap, GitTypes
<1>2. Trap(git) \in GitTypes
  BY <1>1
<1>3. CASE GitBuild
  BY <1>2, <1>3 DEF GitBuild, GitExit, GitTypes
<1>4. CASE GitAside
  BY <1>2, <1>4 DEF GitAside, GitExit, GitTypes
<1>5. CASE GitSwap
  BY <1>2, <1>5 DEF GitSwap, GitExit, GitTypes
<1>6. CASE GitDrop
  BY <1>2, <1>6 DEF GitDrop, GitExit, GitTypes
<1>7. CASE GitCompare
  BY <1>2, <1>7 DEF GitCompare, GitExit, GitTypes
<1>8. CASE GitSignal
  BY <1>2, <1>8 DEF GitSignal, GitTypes
<1>9. CASE GitKill
  BY <1>9 DEF GitKill, GitTypes
<1> QED
  BY <1>3, <1>4, <1>5, <1>6, <1>7, <1>8, <1>9 DEF GitScript

\* A step of a capture keeps the types of what it writes.
LEMMA CaptureTypes ==
    ASSUME TypeOK, CaptureStep
    PROVE  /\ cap' \in CapTypes /\ receipt' \in ReceiptTypes
           /\ Active' => cap'.phase # "none" /\ cap'.attempt # 0
           /\ scans' \in SUBSET Runs /\ stages' \in SUBSET Runs
           /\ clock' = clock /\ cancelled' = cancelled
<1>1. /\ cap \in CapTypes /\ (Active => cap.phase # "none" /\ cap.attempt # 0)
      /\ receipt \in ReceiptTypes /\ scans \in SUBSET Runs /\ stages \in SUBSET Runs
  BY DEF TypeOK
<1>2. NoProof \in Proofs /\ Staged \in Proofs /\ Scanned \in Proofs /\ Removed \in Proofs
  BY DEF NoProof, Staged, Scanned, Removed, Proofs
<1>3. /\ {SetupFailed, ScanFailed, DownloadLost, DownloadSlow, ParseFailed, OutOfTime, Unverified, StageKept,
           Evidence, NotPublished, CleanupLate, Stopped, NoFailure} \subseteq Failures
      /\ ExecFailures \subseteq Failures
  BY DEF Failures
<1> DEFINE Good == cap' \in CapTypes /\ (Active' => cap'.phase # "none" /\ cap'.attempt # 0)
<1>4. ASSUME Active, NEW f \in Failures, NEW p \in Proofs,
             NEW s \in {"scan", "download", "clean", "conclude", "fail"},
             Fails(f, p, s)
      PROVE  Good
  BY <1>1, <1>4 DEF Fails, CapTypes
<1>5. ASSUME Active, NEW s \in {"scanning", "clean", "conclude", "write", "fail"}, Go(s)
      PROVE  Good
  BY <1>1, <1>5 DEF Go, CapTypes
<1>6. ASSUME Active, NEW p \in Proofs, NEW s \in {"clean", "conclude"}, Cancels(p, s)
      PROVE  Good
  BY <1>1, <1>3, <1>6 DEF Cancels, CapTypes
<1>7. ASSUME NEW o \in {"available", "unavailable", "raised", "receipt"}, Ends(o)
      PROVE  Good
  BY <1>1, <1>7, CaptureOfTypes DEF Ends, CapTypes, Active
<1>8. cap.proofs \in Proofs /\ (Active => Id \in Runs)
  BY <1>1 DEF CapTypes, Id, Runs
<1>9. ASSUME Active, NEW f \in Failures, Unwritten(f)
      PROVE  Good
  BY <1>3, <1>4, <1>8, <1>9 DEF Unwritten
<1>10. UNCHANGED cap => Good
  BY <1>1 DEF Active
<1>11. ASSUME NEW x \in {"complete", "failed"}, NEW d \in {"none", "continue", "fatal"}, Active,
              receipt' = [status |-> x, disposition |-> d, scan |-> Id]
       PROVE  receipt' \in ReceiptTypes
  BY <1>1, <1>11 DEF ReceiptTypes, CapTypes, Id
<1> HIDE DEF Good
<1>12. CASE NameStage
  BY <1>1, <1>2, <1>3, <1>4, <1>6, <1>8, <1>12 DEF NameStage, Active, Good
<1>13. CASE StartScan
  BY <1>1, <1>5, <1>8, <1>13 DEF StartScan, Active, Good
<1>14. CASE ScanVerified
  BY <1>1, <1>2, <1>3, <1>4, <1>6, <1>8, <1>14 DEF ScanVerified, Active, Good
<1>15. CASE ScanUnverified
  <2>1. Unverified \in Failures /\ cancelled \in BOOLEAN /\ Active
    BY <1>3, <1>15 DEF TypeOK, ScanUnverified, Active
  <2>2. PICK s \in {FALSE, cancelled} :
          cap' = [cap EXCEPT !.step = "conclude", !.failure = Unverified, !.stopped = s]
    BY <1>15 DEF ScanUnverified
  <2>3. Good
    BY <1>1, <2>1, <2>2 DEF Good, CapTypes
  <2> QED BY <1>1, <1>15, <2>3 DEF ScanUnverified, Good
<1>16. CASE Download
  BY <1>1, <1>2, <1>3, <1>4, <1>5, <1>6, <1>16 DEF Download, Active, Good
<1>17. CASE Clean
  <2>1. cap' = [cap EXCEPT !.step = "conclude", !.proofs = Removed] => Good
    BY <1>1, <1>2, <1>17 DEF Good, Active, Clean, CapTypes
  <2>2. Good /\ stages' \in SUBSET Runs
    BY <1>1, <1>2, <1>3, <1>4, <1>5, <1>6, <1>17, <2>1 DEF Clean, Active
  <2> QED BY <1>1, <1>17, <2>2 DEF Clean, Good
<1>18. CASE ConcludeAttempt
  <2>1. Active /\ cap.phase \in {"before", "after"}
    BY <1>1, <1>18 DEF ConcludeAttempt, Active, CapTypes
  <2>2. cap' = [CaptureOf(cap.phase) EXCEPT !.attempt = 2] => Good
    BY <2>1, CaptureOfTypes DEF Good, CapTypes
  <2>3. Good
    BY <1>5, <1>18, <2>1, <2>2 DEF ConcludeAttempt
  <2> QED BY <1>1, <1>18, <2>3 DEF ConcludeAttempt, Good
<1>19. CASE WriteBefore
  BY <1>1, <1>3, <1>7, <1>9, <1>19 DEF WriteBefore, Active, Good
<1>20. CASE WriteAfter
  BY <1>1, <1>3, <1>4, <1>8, <1>9, <1>10, <1>20 DEF WriteAfter, Active, Good
<1>21. CASE WriteReceipt
  <2>1. Active
    BY <1>21 DEF WriteReceipt, Active
  <2>2. Good
    BY <1>3, <1>7, <1>9, <1>21, <2>1 DEF WriteReceipt
  <2>3. receipt' \in ReceiptTypes
    BY <1>1, <1>11, <1>21, <2>1 DEF WriteReceipt, Complete
  <2> QED BY <1>1, <1>21, <2>2, <2>3 DEF WriteReceipt, Good
<1>22. CASE WriteFailure
  <2>1. Active /\ (IF cap.stopped THEN "fatal" ELSE Disposition(cap.phase, cap.failure, cap.proofs))
                     \in {"none", "continue", "fatal"}
    BY <1>22 DEF WriteFailure, Active, Disposition
  <2>2. Good
    BY <1>7, <1>22 DEF WriteFailure
  <2>3. receipt' \in ReceiptTypes
    BY <1>1, <1>11, <1>22, <2>1 DEF WriteFailure, FailureReceipt
  <2> QED BY <1>1, <1>22, <2>2, <2>3 DEF WriteFailure, Good
<1> QED
  BY <1>12, <1>13, <1>14, <1>15, <1>16, <1>17, <1>18, <1>19, <1>20, <1>21, <1>22 DEF CaptureStep, Good

\* Every action keeps the types.
LEMMA TypeNext == TypeOK /\ [Next]_vars => TypeOK'
<1> SUFFICES ASSUME TypeOK, [Next]_vars PROVE TypeOK'
  OBVIOUS
<1> USE DEF actorVars, captureVars, planeVars, agentVars
<1>1. CASE SetupPlane /\ UNCHANGED trial
  BY <1>1 DEF TypeOK, Active, Pcs, BeforeHook, Behind, Preparing, Handing, SetupPlane, CreatePlane
<1>2. CASE SetupActor /\ UNCHANGED trial
  BY <1>2 DEF TypeOK, Active, Pcs, BeforeHook, Behind, Preparing, Handing, SetupActor
<1>3. CASE SetupGit /\ UNCHANGED trial
  BY <1>3 DEF TypeOK, Active, Pcs, BeforeHook, Behind, Preparing, Handing, SetupGit, GitStart, GitTypes
<1>4. CASE SetupGitEnds /\ UNCHANGED trial
  <2>1. cap' \in CapTypes /\ (Active' => cap'.phase # "none" /\ cap'.attempt # 0)
    BY <1>4, CaptureOfTypes DEF TypeOK, SetupGitEnds, Active
  <2> QED BY <1>4, <2>1 DEF TypeOK, Active, Pcs, BeforeHook, Behind, Preparing, Handing, SetupGitEnds
<1>5. CASE SetupEnds /\ UNCHANGED trial
  <2>1. cap' \in CapTypes /\ (Active' => cap'.phase # "none" /\ cap'.attempt # 0)
    BY <1>5, CaptureOfTypes DEF TypeOK, SetupEnds, Active
  <2>2. host' \in HostTypes
    BY <1>5 DEF TypeOK, SetupEnds, Resting, HostTypes, CapTypes
  <2> QED BY <1>5, <2>1, <2>2 DEF TypeOK, Active, Pcs, BeforeHook, Behind, Preparing, Handing, SetupEnds
<1>6. CASE Dispatch /\ UNCHANGED trial
  <2>1. host' \in HostTypes
    <4>1. CASE PreDispatchOk
      BY <1>6, <4>1, ZenonT(60) DEF TypeOK, Dispatch, HostTypes
    <4>2. CASE ~PreDispatchOk
      BY <1>6, <4>2 DEF TypeOK, Dispatch, HostTypes
    <4> QED BY <4>1, <4>2
  <2> QED BY <1>6, <2>1 DEF TypeOK, Pcs, BeforeHook, Behind, Preparing, Handing, Dispatch, Active
<1>7. CASE Prepare /\ UNCHANGED trial
  BY <1>7 DEF TypeOK, Active, Pcs, BeforeHook, Behind, Preparing, Handing, Prepare, HostTypes
<1>8. CASE Launch /\ UNCHANGED trial
  <2>1. host' \in HostTypes
    BY <1>8, ZenonT(60) DEF TypeOK, Launch, HostTypes
  <2>2. disk' \in DiskTypes
    BY <1>8 DEF TypeOK, Launch, DiskTypes
  <2> QED BY <1>8, <2>1, <2>2 DEF TypeOK, Active, Pcs, BeforeHook, Behind, Preparing, Handing, Launch
<1>9. CASE (\E e \in {"none", "error", "cancelled"} : BridgeEnds(e)) /\ UNCHANGED trial
  BY <1>9 DEF TypeOK, Active, Pcs, BeforeHook, Behind, Preparing, Handing, BridgeEnds, HostTypes, DiskTypes
<1>10. CASE HandoffCleanup /\ UNCHANGED trial
  <2>1. host' \in HostTypes
    BY <1>10, ZenonT(60) DEF TypeOK, HandoffCleanup, HostTypes
  <2>2. /\ owned' \in SUBSET (Tasks \cup {Foreground}) /\ alive' \in SUBSET owned'
        /\ scans' \in SUBSET Runs /\ stages' \in SUBSET Runs
    BY <1>10 DEF TypeOK, HandoffCleanup, Cleaned, Uncleaned
  <2>3. clock' \in {0, 1, 2, 3} /\ cancelled' \in BOOLEAN
    BY <1>10 DEF TypeOK, HandoffCleanup
  <2> QED BY <1>10, <2>1, <2>2, <2>3 DEF TypeOK, Active, Pcs, BeforeHook, Behind, Preparing, Handing, HandoffCleanup
<1>11. CASE SealLease /\ UNCHANGED trial
  <2>1. host' \in HostTypes
    BY <1>11 DEF TypeOK, SealLease, HostTypes
  <2>2. disk' \in DiskTypes
    BY <1>11 DEF TypeOK, SealLease, DiskTypes
  <2>3. owned' \in SUBSET (Tasks \cup {Foreground}) /\ alive' \in SUBSET owned'
    BY <1>11 DEF TypeOK, SealLease, Refreshed
  <2>4. lease' = lease \/ lease' = [sealed |-> TRUE, tasks |-> owned']
    BY <1>11 DEF SealLease
  <2>5. \A t \in SUBSET (Tasks \cup {Foreground}) : [sealed |-> TRUE, tasks |-> t] \in LeaseTypes
    BY DEF LeaseTypes
  <2>6. lease' \in LeaseTypes
    BY <2>3, <2>4, <2>5, Zenon DEF TypeOK
  <2> QED BY <1>11, <2>1, <2>2, <2>3, <2>6 DEF TypeOK, Pcs, BeforeHook, Behind, Preparing, Handing, SealLease, Active
<1>12. CASE HandoffReceipts /\ UNCHANGED trial
  <2>1. PICK ok \in BOOLEAN :
          /\ disk' = [disk EXCEPT !.emergency = disk.record = "none" /\ ok]
          /\ host' = [host EXCEPT !.failed = @ \/ (disk.record = "none" /\ ~ok)]
    BY <1>12 DEF HandoffReceipts
  <2>2. host' \in HostTypes
    BY <2>1 DEF TypeOK, HostTypes
  <2>3. disk' \in DiskTypes
    BY <2>1 DEF TypeOK, DiskTypes
  <2> QED BY <1>12, <2>2, <2>3 DEF TypeOK, Active, Pcs, BeforeHook, Handing, HandoffReceipts
<1>13. CASE HandoffReclean /\ UNCHANGED trial
  <2>1. host' \in HostTypes
    BY <1>13, ZenonT(60) DEF TypeOK, HandoffReclean, HostTypes
  <2>2. /\ owned' \in SUBSET (Tasks \cup {Foreground}) /\ alive' \in SUBSET owned'
        /\ scans' \in SUBSET Runs /\ stages' \in SUBSET Runs
    BY <1>13 DEF TypeOK, HandoffReclean, Cleaned, Uncleaned
  <2>3. clock' \in {0, 1, 2, 3} /\ cancelled' \in BOOLEAN
    BY <1>13 DEF TypeOK, HandoffReclean
  <2> QED BY <1>13, <2>1, <2>2, <2>3 DEF TypeOK, Active, Pcs, BeforeHook, Behind, Preparing, Handing, HandoffReclean
<1>14. CASE HandoffEnds /\ UNCHANGED trial
  <2>1. lease' \in LeaseTypes
    BY <1>14 DEF TypeOK, HandoffEnds, LeaseTypes
  <2>2. disk' \in DiskTypes
    BY <1>14 DEF TypeOK, HandoffEnds, FailManifest, HostTypes, DiskTypes
  <2> QED BY <1>14, <2>1, <2>2 DEF TypeOK, Active, Pcs, BeforeHook, Handing, HandoffEnds
<1>15. CASE RecordEntry /\ UNCHANGED trial
  <2>1. Raised \subseteq {"none", "error", "cancelled"}
    BY DEF TypeOK, HostTypes, Raised
  <2>2. host' \in HostTypes
    <3>1. PICK e \in Raised : host' = [host EXCEPT !.err = e, !.failed = FALSE, !.uncleaned = FALSE,
                                                  !.tried = FALSE, !.verified = FALSE]
      BY <1>15 DEF RecordEntry
    <3> QED BY <2>1, <3>1 DEF TypeOK, HostTypes
  <2>3. disk' \in DiskTypes
    BY <1>15 DEF TypeOK, RecordEntry, DiskTypes
  <2> QED BY <1>15, <2>2, <2>3 DEF TypeOK, Pcs, BeforeHook, Behind, Preparing, Handing, RecordEntry, Active
<1>16. CASE HookStarts /\ UNCHANGED trial
  <2>1. cap' \in CapTypes /\ (Active' => cap'.phase # "none" /\ cap'.attempt # 0)
    BY <1>16, CaptureOfTypes DEF TypeOK, HookStarts, Active
  <2> QED BY <1>16, <2>1 DEF TypeOK, Active, Pcs, BeforeHook, Behind, Preparing, Handing, HookStarts
<1>17. CASE HookReturns /\ UNCHANGED trial
  <2>1. cap' \in CapTypes /\ (Active' => cap'.phase # "none" /\ cap'.attempt # 0)
    BY <1>17, CaptureOfTypes DEF TypeOK, HookReturns, Active
  <2>2. host' \in HostTypes
    BY <1>17 DEF TypeOK, HookReturns, Resting, HostTypes
  <2> QED BY <1>17, <2>1, <2>2 DEF TypeOK, Active, Pcs, BeforeHook, Behind, Preparing, Handing, HookReturns
<1>18. CASE HookExpires /\ UNCHANGED trial
  BY <1>18 DEF TypeOK, Active, Pcs, BeforeHook, Behind, Preparing, Handing, HookExpires, HostTypes
<1>19. CASE HookClean /\ UNCHANGED trial
  BY <1>19 DEF TypeOK, Active, Pcs, BeforeHook, Behind, Preparing, Handing, HookClean, Cleaned, Uncleaned, HostTypes
<1>20. CASE Observe /\ UNCHANGED trial
  BY <1>20 DEF TypeOK, Active, Pcs, BeforeHook, Behind, Preparing, Handing, Observe, HostTypes
<1>21. CASE AbortClean /\ UNCHANGED trial
  BY <1>21 DEF TypeOK, Active, Pcs, BeforeHook, Behind, Preparing, Handing, AbortClean, LeaseClosed, LeaseKept,
      Cleaned, Uncleaned, HostTypes
<1>22. CASE Decide /\ UNCHANGED trial
  BY <1>22 DEF TypeOK, Active, Pcs, BeforeHook, Behind, Preparing, Handing, Decide, Cleaned, Uncleaned
<1>23. CASE Seam
  BY <1>23 DEF TypeOK, Active, Pcs, BeforeHook, Behind, Preparing, Handing, Seam, HostTypes
<1>24. CASE Granted
  BY <1>24 DEF TypeOK, Active, Pcs, BeforeHook, Behind, Preparing, Handing, Granted, TrialTypes
<1>25. CASE VerifierEnds
  BY <1>25 DEF TypeOK, Active, Pcs, BeforeHook, Behind, Preparing, Handing, VerifierEnds, TrialTypes
<1>26. CASE Close
  BY <1>26 DEF TypeOK, Active, Pcs, BeforeHook, Behind, Preparing, Handing, Close, LeaseClosed, LeaseKept,
      Cleaned, Uncleaned, TrialTypes
<1>27. CASE SetupAbandoned
  BY <1>27 DEF TypeOK, Active, Pcs, BeforeHook, Behind, Preparing, Handing, SetupAbandoned, TrialTypes
<1>28. CASE Populate
  <2>1. After[pc] \in {"verifier", "end", "over"}
    BY <1>28 DEF Populate, Calls, After
  <2>2. trial' \in TrialTypes /\ trial'.next # "none"
    <3>1. trial.calls + 1 \in Nat /\ (trial.error \/ pc = "raised") \in BOOLEAN
      BY DEF TypeOK, TrialTypes
    <3> QED BY <1>28, <2>1, <3>1 DEF TypeOK, TrialTypes, Populate
  <2>3. pub' = [pc |-> pub'.pc, files |-> pub'.files, left |-> pub'.left]
    BY <1>28 DEF Populate, PublishPlane, StageError, PubResting
  <2>4. root' \in BOOLEAN /\ staged' \in BOOLEAN
    BY <1>28 DEF TypeOK, Populate, PublishPlane, StageError
  <2> QED BY <1>28, <2>2, <2>3, <2>4 DEF TypeOK, Pcs, Behind, Populate, Active
<1>29. CASE SkipPopulate
  <2>1. trial' \in TrialTypes
    BY <1>29 DEF TypeOK, TrialTypes, SkipPopulate, Calls, After
  <2> QED BY <1>29, <2>1 DEF TypeOK, Active, Pcs, BeforeHook, Behind, Preparing, Handing, SkipPopulate, Calls,
      After, TrialTypes
<1>30. CASE Populated
  <2>1. trial' \in TrialTypes
    BY <1>30 DEF TypeOK, TrialTypes, Populated, CleanPlane, PubResting
  <2>2. pub' = [pc |-> pub'.pc, files |-> pub'.files, left |-> pub'.left]
    BY <1>30 DEF TypeOK, Populated, CleanPlane, PubResting
  <2> QED BY <1>30, <2>1, <2>2 DEF TypeOK, Active, Pcs, BeforeHook, Behind, Preparing, Handing, Populated,
      CleanPlane, TrialTypes
<1>31. CASE LinkFails
  <2>1. pub' = [pc |-> pub'.pc, files |-> pub'.files, left |-> pub'.left]
    BY <1>31 DEF TypeOK, LinkFails, LinkError, PubResting
  <2> QED BY <1>31, <2>1 DEF TypeOK, Active, Pcs, BeforeHook, Behind, Preparing, Handing, LinkFails, LinkError
<1>32. CASE \E n \in Names : Link(n)
  <2>1. pub' = [pc |-> pub'.pc, files |-> pub'.files, left |-> pub'.left]
    BY <1>32 DEF TypeOK, Link, LinkFile, PubResting
  <2> QED BY <1>32, <2>1 DEF TypeOK, Active, Pcs, BeforeHook, Behind, Preparing, Handing, Link, LinkFile
<1>33. CASE Capture
  BY <1>33, CaptureTypes DEF TypeOK, Capture
<1>34. CASE (\E t \in Tasks : StartTask(t)) /\ UNCHANGED trial
  BY <1>34 DEF TypeOK, Active, Pcs, BeforeHook, Behind, Preparing, Handing, StartTask
<1>35. CASE CancelSetup /\ UNCHANGED trial
  BY <1>35 DEF TypeOK, Active, Pcs, BeforeHook, Behind, Preparing, Handing, CancelSetup
<1>36. CASE HandoffExpires /\ UNCHANGED trial
  BY <1>36, ZenonT(60) DEF TypeOK, Active, Pcs, BeforeHook, Behind, Preparing, Handing, HandoffExpires, HostTypes
<1>37. CASE DetachedCleanup /\ UNCHANGED trial
  BY <1>37 DEF TypeOK, Active, Pcs, BeforeHook, Behind, Preparing, Handing, DetachedCleanup, Cleaned, Uncleaned
<1>38. CASE Abort /\ UNCHANGED trial
  BY <1>38 DEF TypeOK, Active, Pcs, BeforeHook, Behind, Preparing, Handing, Abort, HostTypes
<1>39. CASE (\E t \in Tasks \cup {Foreground} : TaskEnds(t)) /\ UNCHANGED trial
  BY <1>39 DEF TypeOK, Active, Pcs, BeforeHook, Behind, Preparing, Handing, TaskEnds
<1>40. CASE Tick
  BY <1>40 DEF TypeOK, Active, Pcs, BeforeHook, Behind, Preparing, Handing, Tick
<1>41. CASE \E id \in Runs : ScanGone(id)
  BY <1>41 DEF TypeOK, Active, Pcs, BeforeHook, Behind, Preparing, Handing, ScanGone, ScanEnds
<1>42. CASE ScriptStep
  <2>1. git' \in GitTypes
    BY <1>42, GitTypesStep DEF ScriptStep, TypeOK
  <2> QED BY <1>42, <2>1 DEF TypeOK, Active, ScriptStep
<1>43. CASE \E n \in Strays : SandboxFile(n)
  BY <1>43 DEF TypeOK, Active, Pcs, BeforeHook, Behind, Preparing, Handing, SandboxFile, Stray
<1>44. CASE Crash
  <2>1. host' \in HostTypes
    BY <1>44 DEF TypeOK, Crash, HostAtRest, HostTypes
  <2>2. cap' \in CapTypes /\ cap'.step = "idle"
    BY <1>44, CaptureOfTypes DEF Crash, Resting
  <2>3. trial' \in TrialTypes
    BY <1>44 DEF Crash, Fresh, TrialTypes
  <2>4. pub' = [pc |-> pub'.pc, files |-> pub'.files, left |-> pub'.left]
    BY <1>44 DEF Crash, PubResting
  <2>5. pc' = "crashed" /\ clock' = 0 /\ cancelled' = FALSE
    BY <1>44 DEF Crash
  <2>6. UNCHANGED <<disk, lease, alive, owned, scans, stages, receipt, root, staged, git>>
    BY <1>44 DEF Crash
  <2> QED BY <2>1, <2>2, <2>3, <2>4, <2>5, <2>6 DEF TypeOK, Pcs, Active
<1>45. CASE UNCHANGED vars
  BY <1>45 DEF vars, snapshotVars, TypeOK, Active
<1> QED
  BY <1>1, <1>2, <1>3, <1>4, <1>5, <1>6, <1>7, <1>8, <1>9, <1>10, <1>11, <1>12, <1>13, <1>14, <1>15, <1>16,
      <1>17, <1>18, <1>19, <1>20, <1>21, <1>22, <1>23, <1>24, <1>25, <1>26, <1>27, <1>28, <1>29, <1>30, <1>31,
      <1>32, <1>33, <1>34, <1>35, <1>36, <1>37, <1>38, <1>39, <1>40, <1>41, <1>42, <1>43, <1>44, <1>45 DEF Next,
      Agent, Seams, Projection

\* A trial starts with well-typed values.
LEMMA TypeInit == Init => TypeOK
<1> SUFFICES ASSUME Init PROVE TypeOK
  OBVIOUS
<1>1. host \in HostTypes /\ disk \in DiskTypes
  BY DEF Init, InitAgent, HostAtRest, HostTypes, DiskTypes, NoManifest
<1>2. cap \in CapTypes /\ ~Active
  BY CaptureOfTypes DEF Init, InitSnapshot, Active
<1>3. receipt \in ReceiptTypes /\ git \in GitTypes /\ trial \in TrialTypes /\ lease \in LeaseTypes
  BY DEF Init, InitSnapshot, InitAgent, InitGit, NoReceipt, ReceiptTypes, GitResting, GitTypes, Fresh,
         TrialTypes, NoLease, LeaseTypes
<1>4. pub = [pc |-> pub.pc, files |-> pub.files, left |-> pub.left] /\ root \in BOOLEAN /\ staged \in BOOLEAN
  BY DEF Init, InitPlane, PubResting
<1> QED
  BY <1>1, <1>2, <1>3, <1>4 DEF TypeOK, Init, InitAgent, InitSnapshot, Pcs, BeforeHook, Preparing

\* Every variable of a trial keeps its type.
THEOREM TrialTypesHold == Spec => []TypeOK
  BY TypeInit, TypeNext, PTL DEF Spec

(***************************************************************************)
(* The history of the repository.                                          *)
(***************************************************************************)
\* A step of the script is followed by the trap or by what it says it moved.
LEMMA GitNext == TypeOK /\ GitInv /\ [Next]_vars => GitInv'
<1> SUFFICES ASSUME TypeOK, GitInv, [Next]_vars PROVE GitInv'
  OBVIOUS
<1> USE DEF actorVars, captureVars, planeVars, agentVars, TypeOK, HostTypes, GitInv
<1>1. CASE SetupPlane /\ UNCHANGED trial
  BY <1>1 DEF SetupPlane
<1>2. CASE SetupActor /\ UNCHANGED trial
  BY <1>2 DEF SetupActor
<1>3. CASE SetupGit /\ UNCHANGED trial
  BY <1>3 DEF SetupGit, GitStart, GitTypes
<1>4. CASE SetupGitEnds /\ UNCHANGED trial
  BY <1>4 DEF SetupGitEnds
<1>5. CASE SetupEnds /\ UNCHANGED trial
  BY <1>5 DEF SetupEnds
<1>6. CASE Dispatch /\ UNCHANGED trial
  BY <1>6 DEF Dispatch
<1>7. CASE Prepare /\ UNCHANGED trial
  BY <1>7 DEF Prepare
<1>8. CASE Launch /\ UNCHANGED trial
  BY <1>8 DEF Launch
<1>9. CASE (\E e \in {"none", "error", "cancelled"} : BridgeEnds(e)) /\ UNCHANGED trial
  BY <1>9 DEF BridgeEnds
<1>10. CASE HandoffCleanup /\ UNCHANGED trial
  BY <1>10, ZenonT(60) DEF HandoffCleanup
<1>11. CASE SealLease /\ UNCHANGED trial
  BY <1>11 DEF SealLease
<1>12. CASE HandoffReceipts /\ UNCHANGED trial
  BY <1>12 DEF HandoffReceipts
<1>13. CASE HandoffReclean /\ UNCHANGED trial
  BY <1>13 DEF HandoffReclean
<1>14. CASE HandoffEnds /\ UNCHANGED trial
  BY <1>14 DEF HandoffEnds
<1>15. CASE RecordEntry /\ UNCHANGED trial
  BY <1>15 DEF RecordEntry
<1>16. CASE HookStarts /\ UNCHANGED trial
  BY <1>16 DEF HookStarts
<1>17. CASE HookReturns /\ UNCHANGED trial
  BY <1>17 DEF HookReturns
<1>18. CASE HookExpires /\ UNCHANGED trial
  BY <1>18 DEF HookExpires
<1>19. CASE HookClean /\ UNCHANGED trial
  BY <1>19 DEF HookClean
<1>20. CASE Observe /\ UNCHANGED trial
  BY <1>20 DEF Observe
<1>21. CASE AbortClean /\ UNCHANGED trial
  BY <1>21 DEF AbortClean
<1>22. CASE Decide /\ UNCHANGED trial
  BY <1>22 DEF Decide
<1>23. CASE Seam
  BY <1>23 DEF Seam
<1>24. CASE Granted
  BY <1>24 DEF Granted
<1>25. CASE VerifierEnds
  BY <1>25 DEF VerifierEnds
<1>26. CASE Close
  BY <1>26 DEF Close
<1>27. CASE SetupAbandoned
  BY <1>27 DEF SetupAbandoned
<1>28. CASE Populate
  BY <1>28 DEF Populate, Calls
<1>29. CASE SkipPopulate
  BY <1>29 DEF SkipPopulate, Calls, After
<1>30. CASE Populated
  BY <1>30 DEF Populated, TrialTypes
<1>31. CASE LinkFails
  BY <1>31 DEF LinkFails
<1>32. CASE \E n \in Names : Link(n)
  BY <1>32 DEF Link
<1>33. CASE Capture
  BY <1>33 DEF Capture
<1>34. CASE (\E t \in Tasks : StartTask(t)) /\ UNCHANGED trial
  BY <1>34 DEF StartTask
<1>35. CASE CancelSetup /\ UNCHANGED trial
  BY <1>35 DEF CancelSetup
<1>36. CASE HandoffExpires /\ UNCHANGED trial
  BY <1>36 DEF HandoffExpires
<1>37. CASE DetachedCleanup /\ UNCHANGED trial
  BY <1>37 DEF DetachedCleanup
<1>38. CASE Abort /\ UNCHANGED trial
  BY <1>38 DEF Abort
<1>39. CASE (\E t \in Tasks \cup {Foreground} : TaskEnds(t)) /\ UNCHANGED trial
  BY <1>39 DEF TaskEnds
<1>40. CASE Tick
  BY <1>40 DEF Tick
<1>41. CASE \E id \in Runs : ScanGone(id)
  BY <1>41 DEF ScanGone
<1>42. CASE ScriptStep
  <2>1. GitScript \/ GitSignal \/ GitKill
    BY <1>42 DEF ScriptStep
  <2>2. UNCHANGED <<pc, host>>
    BY <1>42 DEF ScriptStep
  <2>3. git \in GitTypes
    BY DEF TypeOK
  <2>4. CASE GitBuild
    BY <2>2, <2>3, <2>4 DEF GitInv, GitTypes, GitBuild, GitExit, Trap
  <2>5. CASE GitAside
    BY <2>2, <2>3, <2>5, ZenonT(60) DEF GitInv, GitTypes, GitAside, GitExit, Trap
  <2>6. CASE GitSwap
    BY <2>2, <2>3, <2>6, ZenonT(60) DEF GitInv, GitTypes, GitSwap, GitExit, Trap
  <2>7. CASE GitDrop
    BY <2>2, <2>3, <2>7, ZenonT(60) DEF GitInv, GitTypes, GitDrop, GitExit, Trap
  <2>8. CASE GitCompare
    BY <2>2, <2>3, <2>8, ZenonT(60) DEF GitInv, GitTypes, GitCompare, GitExit, Trap
  <2>9. CASE GitSignal
    BY <2>2, <2>3, <2>9 DEF GitInv, GitTypes, GitSignal, GitRunning, Trap
  <2>10. CASE GitKill
    BY <2>2, <2>3, <2>10 DEF GitInv, GitTypes, GitKill, GitRunning
  <2> QED BY <2>1, <2>4, <2>5, <2>6, <2>7, <2>8, <2>9, <2>10 DEF GitScript
<1>43. CASE \E n \in Strays : SandboxFile(n)
  BY <1>43 DEF SandboxFile
<1>44. CASE Crash
  BY <1>44 DEF Crash, HostAtRest
<1>45. CASE UNCHANGED vars
  BY <1>45 DEF vars, snapshotVars
<1> QED
  BY <1>1, <1>2, <1>3, <1>4, <1>5, <1>6, <1>7, <1>8, <1>9, <1>10, <1>11, <1>12, <1>13, <1>14, <1>15, <1>16,
     <1>17, <1>18, <1>19, <1>20, <1>21, <1>22, <1>23, <1>24, <1>25, <1>26, <1>27, <1>28, <1>29, <1>30, <1>31,
     <1>32, <1>33, <1>34, <1>35, <1>36, <1>37, <1>38, <1>39, <1>40, <1>41, <1>42, <1>43, <1>44, <1>45 DEF
     Next, Agent, Seams, Projection

\* isolate_preexisting_git_history: the agent never runs beside a history
\* its task did not ask for, and every script that ends by itself leaves a
\* repository, at whatever command it failed or a signal arrived.
THEOREM HistoryIsIsolated == Spec => []HistoryIsolated
<1>1. Init => GitInv
  BY DEF Init, InitGit, GitResting, InitAgent, HostAtRest, GitInv
<1>2. GitInv => HistoryIsolated
  BY DEF GitInv, HistoryIsolated
<1> QED
  BY <1>1, <1>2, TrialTypesHold, GitNext, PTL DEF Spec

(***************************************************************************)
(* The launch fact.                                                        *)
(***************************************************************************)
\* The started fact is written with the launch, and not_started only for a run that was not launched.
LEMMA EntryNext == TypeOK /\ EntryInv /\ [Next]_vars => EntryInv'
<1> SUFFICES ASSUME TypeOK, EntryInv, [Next]_vars PROVE EntryInv'
  OBVIOUS
<1> USE DEF actorVars, captureVars, planeVars, agentVars, TypeOK, HostTypes, DiskTypes, EntryInv, EntryTruth,
    Preparing, Handing, BeforeHook
<1>1. CASE SetupPlane /\ UNCHANGED trial
  BY <1>1 DEF SetupPlane
<1>2. CASE SetupActor /\ UNCHANGED trial
  BY <1>2 DEF SetupActor
<1>3. CASE SetupGit /\ UNCHANGED trial
  BY <1>3 DEF SetupGit
<1>4. CASE SetupGitEnds /\ UNCHANGED trial
  BY <1>4 DEF SetupGitEnds
<1>5. CASE SetupEnds /\ UNCHANGED trial
  BY <1>5 DEF SetupEnds
<1>6. CASE Dispatch /\ UNCHANGED trial
  BY <1>6 DEF Dispatch
<1>7. CASE Prepare /\ UNCHANGED trial
  BY <1>7 DEF Prepare
<1>8. CASE Launch /\ UNCHANGED trial
  BY <1>8 DEF Launch
<1>9. CASE (\E e \in {"none", "error", "cancelled"} : BridgeEnds(e)) /\ UNCHANGED trial
  BY <1>9 DEF BridgeEnds
<1>10. CASE HandoffCleanup /\ UNCHANGED trial
  BY <1>10 DEF HandoffCleanup
<1>11. CASE SealLease /\ UNCHANGED trial
  BY <1>11 DEF SealLease
<1>12. CASE HandoffReceipts /\ UNCHANGED trial
  BY <1>12 DEF HandoffReceipts
<1>13. CASE HandoffReclean /\ UNCHANGED trial
  BY <1>13 DEF HandoffReclean
<1>14. CASE HandoffEnds /\ UNCHANGED trial
  BY <1>14 DEF HandoffEnds
<1>15. CASE RecordEntry /\ UNCHANGED trial
  BY <1>15 DEF RecordEntry
<1>16. CASE HookStarts /\ UNCHANGED trial
  BY <1>16 DEF HookStarts
<1>17. CASE HookReturns /\ UNCHANGED trial
  BY <1>17 DEF HookReturns
<1>18. CASE HookExpires /\ UNCHANGED trial
  BY <1>18 DEF HookExpires
<1>19. CASE HookClean /\ UNCHANGED trial
  BY <1>19 DEF HookClean
<1>20. CASE Observe /\ UNCHANGED trial
  BY <1>20 DEF Observe
<1>21. CASE AbortClean /\ UNCHANGED trial
  BY <1>21 DEF AbortClean
<1>22. CASE Decide /\ UNCHANGED trial
  BY <1>22 DEF Decide
<1>23. CASE Seam
  BY <1>23 DEF Seam
<1>24. CASE Granted
  BY <1>24 DEF Granted
<1>25. CASE VerifierEnds
  BY <1>25 DEF VerifierEnds
<1>26. CASE Close
  BY <1>26 DEF Close
<1>27. CASE SetupAbandoned
  BY <1>27 DEF SetupAbandoned
<1>28. CASE Populate
  BY <1>28 DEF Populate
<1>29. CASE SkipPopulate
  BY <1>29 DEF SkipPopulate, Calls, After
<1>30. CASE Populated
  BY <1>30 DEF Populated, TrialTypes
<1>31. CASE LinkFails
  BY <1>31 DEF LinkFails
<1>32. CASE \E n \in Names : Link(n)
  BY <1>32 DEF Link
<1>33. CASE Capture
  BY <1>33 DEF Capture
<1>34. CASE (\E t \in Tasks : StartTask(t)) /\ UNCHANGED trial
  BY <1>34 DEF StartTask
<1>35. CASE CancelSetup /\ UNCHANGED trial
  BY <1>35 DEF CancelSetup
<1>36. CASE HandoffExpires /\ UNCHANGED trial
  BY <1>36 DEF HandoffExpires
<1>37. CASE DetachedCleanup /\ UNCHANGED trial
  BY <1>37 DEF DetachedCleanup
<1>38. CASE Abort /\ UNCHANGED trial
  BY <1>38 DEF Abort
<1>39. CASE (\E t \in Tasks \cup {Foreground} : TaskEnds(t)) /\ UNCHANGED trial
  BY <1>39 DEF TaskEnds
<1>40. CASE Tick
  BY <1>40 DEF Tick
<1>41. CASE \E id \in Runs : ScanGone(id)
  BY <1>41 DEF ScanGone
<1>42. CASE ScriptStep
  BY <1>42 DEF ScriptStep
<1>43. CASE \E n \in Strays : SandboxFile(n)
  BY <1>43 DEF SandboxFile
<1>44. CASE Crash
  BY <1>44 DEF Crash, HostAtRest
<1>45. CASE UNCHANGED vars
  BY <1>45 DEF vars, snapshotVars
<1> QED
  BY <1>1, <1>2, <1>3, <1>4, <1>5, <1>6, <1>7, <1>8, <1>9, <1>10, <1>11, <1>12, <1>13, <1>14, <1>15, <1>16,
     <1>17, <1>18, <1>19, <1>20, <1>21, <1>22, <1>23, <1>24, <1>25, <1>26, <1>27, <1>28, <1>29, <1>30, <1>31,
     <1>32, <1>33, <1>34, <1>35, <1>36, <1>37, <1>38, <1>39, <1>40, <1>41, <1>42, <1>43, <1>44, <1>45 DEF
     Next, Agent, Seams, Projection

\* write_started and write_not_started: the fact on disk is true of every
\* trial, through every failed write and every crash.
THEOREM EntryIsTrue == Spec => []EntryTruth
<1>1. Init => EntryInv
  BY DEF Init, InitAgent, HostAtRest, EntryInv, EntryTruth
<1>2. EntryInv => EntryTruth
  BY SMTT(30) DEF EntryInv
<1> QED
  BY <1>1, <1>2, TrialTypesHold, EntryNext, PTL DEF Spec

(***************************************************************************)
(* The handoff.                                                            *)
(***************************************************************************)
\* Nothing is started behind the handoff, and a manifest is written over what lives.
LEMMA LeaseNext == TypeOK /\ LeaseInv /\ [Next]_vars => LeaseInv'
<1> SUFFICES ASSUME TypeOK, LeaseInv, [Next]_vars PROVE LeaseInv'
  OBVIOUS
<1> USE DEF actorVars, captureVars, planeVars, agentVars, TypeOK, HostTypes, DiskTypes, LeaseInv, HandoffHonest,
    Preparing
<1>1. CASE SetupPlane /\ UNCHANGED trial
  BY <1>1 DEF SetupPlane
<1>2. CASE SetupActor /\ UNCHANGED trial
  BY <1>2 DEF SetupActor
<1>3. CASE SetupGit /\ UNCHANGED trial
  BY <1>3 DEF SetupGit
<1>4. CASE SetupGitEnds /\ UNCHANGED trial
  BY <1>4 DEF SetupGitEnds
<1>5. CASE SetupEnds /\ UNCHANGED trial
  BY <1>5 DEF SetupEnds
<1>6. CASE Dispatch /\ UNCHANGED trial
  BY <1>6 DEF Dispatch
<1>7. CASE Prepare /\ UNCHANGED trial
  BY <1>7 DEF Prepare
<1>8. CASE Launch /\ UNCHANGED trial
  BY <1>8 DEF Launch
<1>9. CASE (\E e \in {"none", "error", "cancelled"} : BridgeEnds(e)) /\ UNCHANGED trial
  BY <1>9 DEF BridgeEnds
<1>10. CASE HandoffCleanup /\ UNCHANGED trial
  BY <1>10 DEF HandoffCleanup, Cleaned, Uncleaned
<1>11. CASE SealLease /\ UNCHANGED trial
  BY <1>11 DEF SealLease, Refreshed, LeaseTypes
<1>12. CASE HandoffReceipts /\ UNCHANGED trial
  BY <1>12 DEF HandoffReceipts
<1>13. CASE HandoffReclean /\ UNCHANGED trial
  BY <1>13 DEF HandoffReclean, Cleaned, Uncleaned
<1>14. CASE HandoffEnds /\ UNCHANGED trial
  BY <1>14 DEF HandoffEnds, FailManifest, LeaseTypes
<1>15. CASE RecordEntry /\ UNCHANGED trial
  BY <1>15 DEF RecordEntry
<1>16. CASE HookStarts /\ UNCHANGED trial
  BY <1>16 DEF HookStarts
<1>17. CASE HookReturns /\ UNCHANGED trial
  BY <1>17 DEF HookReturns
<1>18. CASE HookExpires /\ UNCHANGED trial
  BY <1>18 DEF HookExpires
<1>19. CASE HookClean /\ UNCHANGED trial
  BY <1>19 DEF HookClean, Cleaned, Uncleaned
<1>20. CASE Observe /\ UNCHANGED trial
  BY <1>20 DEF Observe
<1>21. CASE AbortClean /\ UNCHANGED trial
  BY <1>21 DEF AbortClean, LeaseClosed, LeaseKept, Cleaned, Uncleaned
<1>22. CASE Decide /\ UNCHANGED trial
  BY <1>22 DEF Decide, Cleaned, Uncleaned
<1>23. CASE Seam
  BY <1>23 DEF Seam
<1>24. CASE Granted
  BY <1>24 DEF Granted
<1>25. CASE VerifierEnds
  BY <1>25 DEF VerifierEnds
<1>26. CASE Close
  BY <1>26 DEF Close, LeaseClosed, LeaseKept, Cleaned, Uncleaned
<1>27. CASE SetupAbandoned
  BY <1>27 DEF SetupAbandoned
<1>28. CASE Populate
  BY <1>28 DEF Populate
<1>29. CASE SkipPopulate
  BY <1>29 DEF SkipPopulate, Calls, After
<1>30. CASE Populated
  BY <1>30 DEF Populated, TrialTypes
<1>31. CASE LinkFails
  BY <1>31 DEF LinkFails
<1>32. CASE \E n \in Names : Link(n)
  BY <1>32 DEF Link
<1>33. CASE Capture
  BY <1>33 DEF Capture
<1>34. CASE (\E t \in Tasks : StartTask(t)) /\ UNCHANGED trial
  BY <1>34 DEF StartTask
<1>35. CASE CancelSetup /\ UNCHANGED trial
  BY <1>35 DEF CancelSetup
<1>36. CASE HandoffExpires /\ UNCHANGED trial
  BY <1>36 DEF HandoffExpires
<1>37. CASE DetachedCleanup /\ UNCHANGED trial
  BY <1>37 DEF DetachedCleanup, Cleaned, Uncleaned
<1>38. CASE Abort /\ UNCHANGED trial
  BY <1>38 DEF Abort
<1>39. CASE (\E t \in Tasks \cup {Foreground} : TaskEnds(t)) /\ UNCHANGED trial
  BY <1>39 DEF TaskEnds
<1>40. CASE Tick
  BY <1>40 DEF Tick
<1>41. CASE \E id \in Runs : ScanGone(id)
  BY <1>41 DEF ScanGone
<1>42. CASE ScriptStep
  BY <1>42 DEF ScriptStep
<1>43. CASE \E n \in Strays : SandboxFile(n)
  BY <1>43 DEF SandboxFile
<1>44. CASE Crash
  BY <1>44 DEF Crash, HostAtRest
<1>45. CASE UNCHANGED vars
  BY <1>45 DEF vars, snapshotVars
<1> QED
  BY <1>1, <1>2, <1>3, <1>4, <1>5, <1>6, <1>7, <1>8, <1>9, <1>10, <1>11, <1>12, <1>13, <1>14, <1>15, <1>16,
     <1>17, <1>18, <1>19, <1>20, <1>21, <1>22, <1>23, <1>24, <1>25, <1>26, <1>27, <1>28, <1>29, <1>30, <1>31,
     <1>32, <1>33, <1>34, <1>35, <1>36, <1>37, <1>38, <1>39, <1>40, <1>41, <1>42, <1>43, <1>44, <1>45 DEF
     Next, Agent, Seams, Projection

\* The handoff's invariant holds in every state.
LEMMA LeaseHolds == Spec => []LeaseInv
<1>1. Init => LeaseInv
  BY DEF Init, InitAgent, HostAtRest, NoManifest, LeaseInv, HandoffHonest
<1> QED
  BY <1>1, TrialTypesHold, LeaseNext, PTL DEF Spec

\* _finalize_handoff: no manifest claims a cleanup that left a process, and
\* a normal one names every process that lives.
THEOREM HandoffIsHonest == Spec => []HandoffHonest
<1>1. LeaseInv => HandoffHonest
  BY DEF LeaseInv
<1> QED
  BY <1>1, LeaseHolds, PTL

(***************************************************************************)
(* The publication.                                                        *)
(***************************************************************************)
\* What a projection publishes is bound by its marker.
LEMMA PackageBinds == Binds(Package)
<1>1. Marker # Trajectory /\ Marker # Background /\ Trajectory # Background
  BY DEF Marker, Trajectory, Background
<1>2. Receipt \notin {Marker, Trajectory, Background, Entry}
  BY DEF Marker, Trajectory, Background, Receipt, Entry
<1>3. DOMAIN Package = PackageNames /\ \A n \in PackageNames : Package[n] = Content(n)
  BY DEF Package
<1>4. {Marker, Trajectory, Background} \subseteq PackageNames
  BY DEF PackageNames
<1>5. Receipt \in PackageNames <=> receipt # NoReceipt
  BY <1>2 DEF PackageNames
<1>6. Content(Marker) = [kind |-> Kind, manifest |-> disk.manifest, receipt |-> receipt]
  BY <1>1, <1>2, Zenon DEF Content
<1>7. Content(Trajectory) = [kind |-> Kind] /\ Content(Background) = disk.manifest /\ Content(Receipt) = receipt
  BY <1>1, <1>2 DEF Content
<1>8. Package[Marker].kind = Kind /\ Package[Marker].manifest = disk.manifest /\ Package[Marker].receipt = receipt
  BY <1>3, <1>4, <1>6
<1> QED
  BY <1>3, <1>4, <1>5, <1>7, <1>8 DEF Binds


\* The marker is linked when every other file of its package is public.
LEMMA PublishNext == TypeOK /\ PublishInv /\ [Next]_vars => PublishInv'
<1> SUFFICES ASSUME TypeOK, PublishInv, [Next]_vars PROVE PublishInv'
  OBVIOUS
<1> USE DEF actorVars, captureVars, planeVars, agentVars
<1>1. CASE SetupPlane /\ UNCHANGED trial
  BY <1>1 DEF PublishInv, Published, SetupPlane, CreatePlane
<1>2. CASE SetupActor /\ UNCHANGED trial
  BY <1>2 DEF PublishInv, Published, SetupActor
<1>3. CASE SetupGit /\ UNCHANGED trial
  BY <1>3 DEF PublishInv, Published, SetupGit
<1>4. CASE SetupGitEnds /\ UNCHANGED trial
  BY <1>4 DEF PublishInv, Published, SetupGitEnds
<1>5. CASE SetupEnds /\ UNCHANGED trial
  BY <1>5 DEF PublishInv, Published, SetupEnds
<1>6. CASE Dispatch /\ UNCHANGED trial
  BY <1>6 DEF PublishInv, Published, Dispatch
<1>7. CASE Prepare /\ UNCHANGED trial
  BY <1>7 DEF PublishInv, Published, Prepare
<1>8. CASE Launch /\ UNCHANGED trial
  BY <1>8 DEF PublishInv, Published, Launch
<1>9. CASE (\E e \in {"none", "error", "cancelled"} : BridgeEnds(e)) /\ UNCHANGED trial
  BY <1>9 DEF PublishInv, Published, BridgeEnds
<1>10. CASE HandoffCleanup /\ UNCHANGED trial
  BY <1>10 DEF PublishInv, Published, HandoffCleanup
<1>11. CASE SealLease /\ UNCHANGED trial
  BY <1>11 DEF PublishInv, Published, SealLease
<1>12. CASE HandoffReceipts /\ UNCHANGED trial
  BY <1>12 DEF PublishInv, Published, HandoffReceipts
<1>13. CASE HandoffReclean /\ UNCHANGED trial
  BY <1>13 DEF PublishInv, Published, HandoffReclean
<1>14. CASE HandoffEnds /\ UNCHANGED trial
  BY <1>14 DEF PublishInv, Published, HandoffEnds
<1>15. CASE RecordEntry /\ UNCHANGED trial
  BY <1>15 DEF PublishInv, Published, RecordEntry
<1>16. CASE HookStarts /\ UNCHANGED trial
  BY <1>16 DEF PublishInv, Published, HookStarts
<1>17. CASE HookReturns /\ UNCHANGED trial
  BY <1>17 DEF PublishInv, Published, HookReturns
<1>18. CASE HookExpires /\ UNCHANGED trial
  BY <1>18 DEF PublishInv, Published, HookExpires
<1>19. CASE HookClean /\ UNCHANGED trial
  BY <1>19 DEF PublishInv, Published, HookClean
<1>20. CASE Observe /\ UNCHANGED trial
  BY <1>20 DEF PublishInv, Published, Observe
<1>21. CASE AbortClean /\ UNCHANGED trial
  BY <1>21 DEF PublishInv, Published, AbortClean
<1>22. CASE Decide /\ UNCHANGED trial
  BY <1>22 DEF PublishInv, Published, Decide
<1>23. CASE Seam
  BY <1>23 DEF PublishInv, Published, Seam
<1>24. CASE Granted
  BY <1>24 DEF PublishInv, Published, Granted
<1>25. CASE VerifierEnds
  BY <1>25 DEF PublishInv, Published, VerifierEnds
<1>26. CASE Close
  BY <1>26 DEF PublishInv, Published, Close
<1>27. CASE SetupAbandoned
  BY <1>27 DEF PublishInv, Published, SetupAbandoned
<1>28. CASE Populate
  <2>1. public' = public
    BY <1>28 DEF Populate, PublishPlane, StageError
  <2>2. CASE pub'.pc # "linking"
    BY <2>1, <2>2 DEF PublishInv, Published
  <2>3. CASE pub'.pc = "linking"
    <3>1. public = NoFiles /\ pub' = [pc |-> "linking", files |-> Package, left |-> DOMAIN Package]
      BY <1>28, <2>3 DEF Populate, PublishPlane, StageError, PubResting
    <3>2. DOMAIN public = {}
      BY <3>1 DEF NoFiles
    <3>3. Marker \in DOMAIN Package
      BY PackageBinds DEF Binds
    <3> QED BY <2>1, <3>1, <3>2, <3>3, PackageBinds DEF PublishInv, Published
  <2> QED BY <2>2, <2>3
<1>29. CASE SkipPopulate
  BY <1>29 DEF PublishInv, Published, SkipPopulate
<1>30. CASE Populated
  BY <1>30 DEF PublishInv, Published, Populated, PubResting, CleanPlane
<1>31. CASE LinkFails
  BY <1>31 DEF PublishInv, Published, LinkFails, LinkError, PubResting
<1>32. CASE \E n \in Names : Link(n)
  <2>1. PICK n \in Names : LinkFile(n)
    BY <1>32 DEF Link
  <2>2. pub.pc = "linking" /\ n \in NextLink(pub.left)
    BY <2>1 DEF LinkFile
  <2>3. CASE n \in DOMAIN public
    BY <2>1, <2>3 DEF LinkFile, PubResting, PublishInv, Published
  <2>4. CASE n \notin DOMAIN public
    <3>1. /\ DOMAIN public' = DOMAIN public \cup {n}
          /\ public'[n] = pub.files[n]
          /\ \A x \in DOMAIN public : public'[x] = public[x]
      BY <2>1, <2>4 DEF LinkFile
    <3>2. CASE pub.left = {n}
      <4>1. n = Marker /\ pub'.pc = "ok"
        BY <2>1, <2>2, <2>4, <3>2 DEF LinkFile, PubResting, PublishInv
      <4>2. \A x \in DOMAIN pub.files : x \in DOMAIN public' /\ public'[x] = pub.files[x]
        BY <2>2, <3>1, <3>2 DEF PublishInv
      <4>3. Receipt # Marker
        BY DEF Receipt, Marker
      <4>4. Receipt \in DOMAIN public' => public'[Receipt] = Foreign \/ Receipt \in DOMAIN pub.files
        BY <2>2, <3>1, <4>1, <4>3 DEF PublishInv
      <4>5. Binds(pub.files)
        BY <2>2 DEF PublishInv
      <4> QED BY <4>1, <4>2, <4>4, <4>5 DEF PublishInv, Published, Binds
    <3>3. CASE pub.left # {n}
      <4>1. n # Marker /\ n \in pub.left
        BY <2>2, <3>3 DEF NextLink
      <4>2. pub' = [pub EXCEPT !.left = @ \ {n}]
        BY <2>1, <2>4, <3>3 DEF LinkFile
      <4>3. pub'.pc = "linking" /\ pub'.files = pub.files /\ pub'.left = pub.left \ {n}
        BY <2>2, <4>2 DEF TypeOK
      <4>4. Marker \in DOMAIN public' => public'[Marker] = Foreign
        BY <2>2, <3>1, <4>1 DEF PublishInv
      <4>5. Receipt \in DOMAIN public' =>
              public'[Receipt] = Foreign \/ Receipt \in DOMAIN pub.files \ pub'.left
        BY <2>2, <3>1, <4>1, <4>3 DEF PublishInv
      <4>6. \A x \in DOMAIN pub.files \ pub'.left : x \in DOMAIN public' /\ public'[x] = pub.files[x]
        BY <2>2, <3>1, <4>1, <4>3 DEF PublishInv
      <4>7. Binds(pub.files) /\ pub.left \subseteq DOMAIN pub.files /\ Marker \in pub.left
        BY <2>2 DEF PublishInv
      <4> QED BY <4>1, <4>3, <4>4, <4>5, <4>6, <4>7 DEF PublishInv, Published
    <3> QED BY <3>2, <3>3
  <2> QED BY <2>3, <2>4
<1>33. CASE Capture
  BY <1>33 DEF PublishInv, Published, Capture
<1>34. CASE (\E t \in Tasks : StartTask(t)) /\ UNCHANGED trial
  BY <1>34 DEF PublishInv, Published, StartTask
<1>35. CASE CancelSetup /\ UNCHANGED trial
  BY <1>35 DEF PublishInv, Published, CancelSetup
<1>36. CASE HandoffExpires /\ UNCHANGED trial
  BY <1>36 DEF PublishInv, Published, HandoffExpires
<1>37. CASE DetachedCleanup /\ UNCHANGED trial
  BY <1>37 DEF PublishInv, Published, DetachedCleanup
<1>38. CASE Abort /\ UNCHANGED trial
  BY <1>38 DEF PublishInv, Published, Abort
<1>39. CASE (\E t \in Tasks \cup {Foreground} : TaskEnds(t)) /\ UNCHANGED trial
  BY <1>39 DEF PublishInv, Published, TaskEnds
<1>40. CASE Tick
  BY <1>40 DEF PublishInv, Published, Tick
<1>41. CASE \E id \in Runs : ScanGone(id)
  BY <1>41 DEF PublishInv, Published, ScanGone
<1>42. CASE ScriptStep
  BY <1>42 DEF PublishInv, Published, ScriptStep
<1>43. CASE \E n \in Strays : SandboxFile(n)
  <2>1. PICK n \in Strays : Stray(n)
    BY <1>43 DEF SandboxFile
  <2>2. /\ n \notin DOMAIN public /\ DOMAIN public' = DOMAIN public \cup {n}
        /\ public'[n] = Foreign
        /\ \A x \in DOMAIN public : public'[x] = public[x]
        /\ pub' = pub
    BY <2>1 DEF Stray
  <2> QED BY <2>2 DEF PublishInv, Published
<1>44. CASE Crash
  BY <1>44 DEF PublishInv, Published, Crash, PubResting
<1>45. CASE UNCHANGED vars
  BY <1>45 DEF vars, snapshotVars, PublishInv, Published
<1> QED
  BY <1>1, <1>2, <1>3, <1>4, <1>5, <1>6, <1>7, <1>8, <1>9, <1>10, <1>11, <1>12, <1>13, <1>14, <1>15, <1>16,
     <1>17, <1>18, <1>19, <1>20, <1>21, <1>22, <1>23, <1>24, <1>25, <1>26, <1>27, <1>28, <1>29, <1>30, <1>31,
     <1>32, <1>33, <1>34, <1>35, <1>36, <1>37, <1>38, <1>39, <1>40, <1>41, <1>42, <1>43, <1>44, <1>45 DEF
     Next, Agent, Seams, Projection

\* ControlPlane.publish: whatever the sandbox puts into the mount, and
\* wherever linking stops, a public marker binds files that are public.
THEOREM PublicationIsBound == Spec => []Published
<1>1. Init => PublishInv
  <2> SUFFICES ASSUME Init PROVE PublishInv
    OBVIOUS
  <2>1. Marker \notin DOMAIN public
    BY DEF Init, InitPlane, NoFiles, Marker
  <2>2. pub.pc = "idle"
    BY DEF Init, InitPlane, PubResting
  <2> QED BY <2>1, <2>2 DEF PublishInv, Published
<1>2. PublishInv => Published
  BY DEF PublishInv
<1> QED
  BY <1>1, <1>2, TrialTypesHold, PublishNext, PTL DEF Spec

(***************************************************************************)
(* The captures.                                                           *)
(***************************************************************************)
\* The fields a step of a capture leaves behind.
LEMMA CapEffects ==
    ASSUME cap \in CapTypes
    PROVE  /\ \A s : Go(s) =>
                 /\ cap'.step = s /\ cap'.phase = cap.phase /\ cap'.attempt = cap.attempt
                 /\ cap'.proofs = cap.proofs /\ cap'.failure = cap.failure
           /\ \A f, p, s : Fails(f, p, s) =>
                 /\ cap'.step = s /\ cap'.phase = cap.phase /\ cap'.attempt = cap.attempt
                 /\ cap'.proofs = p /\ cap'.failure = f
           /\ \A p, s : Cancels(p, s) =>
                 /\ cap'.step = s /\ cap'.phase = cap.phase /\ cap'.attempt = cap.attempt
                 /\ cap'.proofs = p /\ cap'.failure = Stopped
           /\ \A o : Ends(o) =>
                 /\ cap'.step = "done" /\ cap'.phase = cap.phase /\ cap'.attempt = 0
                 /\ cap'.proofs = NoProof /\ cap'.out = o
<1>1. ASSUME NEW s, Go(s)
      PROVE  /\ cap'.step = s /\ cap'.phase = cap.phase /\ cap'.attempt = cap.attempt
             /\ cap'.proofs = cap.proofs /\ cap'.failure = cap.failure
  BY <1>1 DEF Go, CapTypes
<1>2. ASSUME NEW f, NEW p, NEW s, Fails(f, p, s)
      PROVE  /\ cap'.step = s /\ cap'.phase = cap.phase /\ cap'.attempt = cap.attempt
             /\ cap'.proofs = p /\ cap'.failure = f
  BY <1>2 DEF Fails, CapTypes
<1>3. ASSUME NEW p, NEW s, Cancels(p, s)
      PROVE  /\ cap'.step = s /\ cap'.phase = cap.phase /\ cap'.attempt = cap.attempt
             /\ cap'.proofs = p /\ cap'.failure = Stopped
  BY <1>3 DEF Cancels, CapTypes
<1>4. Resting.attempt = 0 /\ Resting.proofs = NoProof
  BY DEF Resting
<1>5. ASSUME NEW o, Ends(o)
      PROVE  /\ cap'.step = "done" /\ cap'.phase = cap.phase /\ cap'.attempt = 0
             /\ cap'.proofs = NoProof /\ cap'.out = o
  BY <1>4, <1>5, CaptureOfTypes DEF Ends, CapTypes
<1> QED
  BY <1>1, <1>2, <1>3, <1>5

\* A capture starts, and starts again, without proofs.
LEMMA RestingFields ==
    /\ Resting.step = "idle" /\ Resting.phase = "none" /\ Resting.attempt = 0 /\ Resting.proofs = NoProof
    /\ ~NoProof.term /\ ~NoProof.clean
    /\ \A p : CaptureOf(p).proofs = NoProof
    /\ [Resting EXCEPT !.phase = "after", !.step = "done", !.out = "receipt"].proofs = NoProof
    /\ [Resting EXCEPT !.phase = "after", !.step = "done", !.out = "receipt"].attempt = 0
    /\ [Resting EXCEPT !.phase = "after", !.step = "done", !.out = "receipt"].phase = "after"
<1>1. /\ Resting.step = "idle" /\ Resting.phase = "none" /\ Resting.attempt = 0 /\ Resting.proofs = NoProof
      /\ ~NoProof.term /\ ~NoProof.clean
  BY DEF Resting, NoProof
<1>2. ASSUME NEW r \in CapTypes, NEW p, NEW c, c = [r EXCEPT !.phase = p, !.step = "stage", !.attempt = 1]
      PROVE  c.proofs = r.proofs
  BY <1>2 DEF CapTypes
<1>3. ASSUME NEW r \in CapTypes, NEW c, c = [r EXCEPT !.phase = "after", !.step = "done", !.out = "receipt"]
      PROVE  c.proofs = r.proofs /\ c.attempt = r.attempt /\ c.phase = "after"
  BY <1>3 DEF CapTypes
<1>4. Resting \in CapTypes
  BY CaptureOfTypes
<1>5. \A p : CaptureOf(p).proofs = NoProof
  BY <1>1, <1>2, <1>4, Zenon DEF CaptureOf
<1>6. /\ [Resting EXCEPT !.phase = "after", !.step = "done", !.out = "receipt"].proofs = NoProof
      /\ [Resting EXCEPT !.phase = "after", !.step = "done", !.out = "receipt"].attempt = 0
      /\ [Resting EXCEPT !.phase = "after", !.step = "done", !.out = "receipt"].phase = "after"
  BY <1>1, <1>3, <1>4, Zenon
<1> QED BY <1>1, <1>5, <1>6

\* The second attempt of a capture.
LEMMA RetryFields ==
    ASSUME NEW p \in {"before", "after"}, NEW c, c = [CaptureOf(p) EXCEPT !.attempt = 2]
    PROVE  c.step = "stage" /\ c.phase = p /\ c.attempt = 2 /\ c.proofs = NoProof
<1>1. CaptureOf(p) \in CapTypes /\ CaptureOf(p).phase = p /\ CaptureOf(p).step = "stage" /\ CaptureOf(p).proofs = NoProof
  BY CaptureOfTypes, RestingFields
<1> HIDE DEF CaptureOf
<1> QED BY <1>1 DEF CapTypes

\* A retry and a receipt that lets the trial go on have all four proofs.
LEMMA ProofsNeeded ==
    /\ \A f, p : MayRetry(f, p) => AllProved(p)
    /\ \A x, f, p : Disposition(x, f, p) = "continue" => AllProved(p)
  BY DEF MayRetry, Disposition

\* The failures without a proof of termination are told from no failure.
LEMMA FailuresAreSome ==
    NoFailure \notin {SetupFailed, OutOfTime, Unverified, CleanupLate, Stopped, StageKept}
<1>1. NoFailure.at = "none"
  BY DEF NoFailure
<1>2. \A f \in {SetupFailed, OutOfTime, Unverified, CleanupLate, Stopped, StageKept} : f.at # "none"
  BY DEF SetupFailed, OutOfTime, Unverified, CleanupLate, Stopped, StageKept, Failure
<1> QED BY <1>1, <1>2

\* What the proofs of each stage of an attempt say.
LEMMA ProofFields ==
    /\ ~NoProof.term /\ ~NoProof.clean /\ ~Staged.term /\ ~Staged.clean
    /\ Scanned.term /\ ~Scanned.clean /\ Removed.term /\ Removed.clean
  BY DEF NoProof, Staged, Scanned, Removed

\* A step of a capture: a scan runs only between its start and the proof
\* that it ended.
LEMMA ScanCapture == TypeOK /\ ScanInv /\ Capture => ScanInv'
<1> SUFFICES ASSUME TypeOK, ScanInv, Capture PROVE ScanInv'
  OBVIOUS
<1>1. /\ cap \in CapTypes /\ cap' \in CapTypes /\ clock \in {0, 1, 2, 3} /\ clock' = clock /\ pc' = pc
      /\ scans \in SUBSET Runs
  BY CaptureTypes DEF TypeOK, Capture, agentVars
<1>2. CaptureStep
  BY DEF Capture
<1>3. Active
  BY <1>2 DEF CaptureStep, NameStage, StartScan, ScanVerified, ScanUnverified, Download, Clean, ConcludeAttempt,
              WriteBefore, WriteAfter, WriteReceipt, WriteFailure, Active
<1>4. /\ pc \notin Quiet /\ pc # "failed"
      /\ pc \in Behind => cap.phase = "after" /\ clock >= 2
  BY <1>3 DEF ScanInv, Active
<1>5. Id' = Id \/ cap'.attempt # cap.attempt \/ cap'.phase # cap.phase
  BY DEF Id
<1> USE DEF ScanInv, Active
<1>6. CASE NameStage
  BY <1>1, <1>4, <1>5, <1>6, CapEffects, ProofFields, FailuresAreSome DEF NameStage
<1>7. CASE StartScan
  BY <1>1, <1>4, <1>5, <1>7, CapEffects DEF StartScan, Late
<1>8. CASE ScanVerified
  BY <1>1, <1>4, <1>5, <1>8, CapEffects, ProofFields DEF ScanVerified
<1>9. CASE ScanUnverified
  <2>1. /\ cap'.step = "conclude" /\ cap'.failure = Unverified /\ cap'.proofs = cap.proofs
        /\ cap'.phase = cap.phase /\ cap'.attempt = cap.attempt
    BY <1>1, <1>9 DEF ScanUnverified, CapTypes
  <2> QED BY <1>1, <1>4, <1>5, <1>9, <2>1, FailuresAreSome DEF ScanUnverified
<1>10. CASE Download
  BY <1>1, <1>4, <1>5, <1>10, CapEffects, ProofFields DEF Download
<1>11. CASE Clean
  <2>1. cap' = [cap EXCEPT !.step = "conclude", !.proofs = Removed] =>
          /\ cap'.step = "conclude" /\ cap'.proofs = Removed
          /\ cap'.phase = cap.phase /\ cap'.attempt = cap.attempt
    BY <1>1 DEF CapTypes
  <2> QED BY <1>1, <1>4, <1>5, <1>11, <2>1, CapEffects, ProofFields, FailuresAreSome DEF Clean
<1>12. CASE ConcludeAttempt
  <2>1. CASE cap.failure # NoFailure /\ cap.attempt = 1 /\ MayRetry(cap.failure, cap.proofs) /\ ~Late
    <3>1. cap.proofs.term
      BY <2>1, ProofsNeeded DEF AllProved
    <3>2. scans = {} /\ scans' = {} /\ receipt' = receipt
      BY <1>12, <3>1 DEF ConcludeAttempt
    <3>3. cap'.step = "stage" /\ cap'.phase = cap.phase /\ cap'.proofs = NoProof
      <4>1. cap.phase \in {"before", "after"}
        BY <1>1, <1>3 DEF TypeOK, CapTypes
      <4>2. cap' = [CaptureOf(cap.phase) EXCEPT !.attempt = 2]
        BY <1>12, <2>1 DEF ConcludeAttempt
      <4> QED BY <4>1, <4>2, RetryFields
    <3> QED BY <1>1, <1>4, <2>1, <3>2, <3>3, ProofFields DEF Late
  <2>2. CASE ~(cap.failure # NoFailure /\ cap.attempt = 1 /\ MayRetry(cap.failure, cap.proofs) /\ ~Late)
    <3>1. (cap.failure = NoFailure /\ Go("write")) \/ Go("fail")
      BY <1>12, <2>2 DEF ConcludeAttempt
    <3> QED BY <1>1, <1>4, <1>5, <1>12, <3>1, CapEffects DEF ConcludeAttempt
  <2> QED BY <2>1, <2>2
<1>13. CASE WriteBefore
  BY <1>1, <1>4, <1>5, <1>13, CapEffects, ProofFields DEF WriteBefore, Unwritten
<1>14. CASE WriteAfter
  BY <1>1, <1>4, <1>5, <1>14, CapEffects DEF WriteAfter, Unwritten
<1>15. CASE WriteReceipt
  BY <1>1, <1>4, <1>5, <1>15, CapEffects, ProofFields DEF WriteReceipt, Unwritten
<1>16. CASE WriteFailure
  <2>1. receipt' = FailureReceipt \/ receipt' = receipt
    BY <1>16 DEF WriteFailure
  <2>2. CASE receipt' = FailureReceipt
    BY <1>1, <1>4, <1>16, <2>2, CapEffects, ProofFields, ProofsNeeded DEF WriteFailure, FailureReceipt,
        Acceptable, AllProved
  <2>3. CASE Ends("raised")
    BY <1>1, <1>4, <1>16, <2>3, CapEffects, ProofFields, SMTT(30) DEF WriteFailure
  <2> QED BY <1>16, <2>2, <2>3 DEF WriteFailure
<1> QED
  BY <1>2, <1>6, <1>7, <1>8, <1>9, <1>10, <1>11, <1>12, <1>13, <1>14, <1>15, <1>16 DEF CaptureStep


\* No scan lives where none can be accounted for.
LEMMA ScanNext == TypeOK /\ ScanInv /\ [Next]_vars => ScanInv'
<1> SUFFICES ASSUME TypeOK, ScanInv, [Next]_vars PROVE ScanInv'
  OBVIOUS
<1> USE DEF actorVars, captureVars, planeVars, agentVars, TypeOK, ScanInv, Active, Id, Quiet, BeforeHook,
    Preparing, Handing, Behind
<1>1. CASE SetupPlane /\ UNCHANGED trial
  BY <1>1 DEF SetupPlane
<1>2. CASE SetupActor /\ UNCHANGED trial
  BY <1>2 DEF SetupActor
<1>3. CASE SetupGit /\ UNCHANGED trial
  BY <1>3 DEF SetupGit
<1>4. CASE SetupGitEnds /\ UNCHANGED trial
  <2>1. cap' = cap \/ cap' = CaptureOf("before")
    BY <1>4 DEF SetupGitEnds
  <2>2. CaptureOf("before").step = "stage" /\ ~CaptureOf("before").proofs.term
    BY CaptureOfTypes, RestingFields
  <2>3. CaptureOf("before").phase = "before"
    BY CaptureOfTypes
  <2> QED BY <1>4, <2>1, <2>2, <2>3 DEF SetupGitEnds
<1>5. CASE SetupEnds /\ UNCHANGED trial
  <2>1. cap'.step = "idle" /\ ~cap'.proofs.term
    BY <1>5, RestingFields DEF SetupEnds
  <2> QED BY <1>5, <2>1 DEF SetupEnds
<1>6. CASE Dispatch /\ UNCHANGED trial
  BY <1>6 DEF Dispatch
<1>7. CASE Prepare /\ UNCHANGED trial
  BY <1>7 DEF Prepare
<1>8. CASE Launch /\ UNCHANGED trial
  BY <1>8 DEF Launch
<1>9. CASE (\E e \in {"none", "error", "cancelled"} : BridgeEnds(e)) /\ UNCHANGED trial
  BY <1>9 DEF BridgeEnds
<1>10. CASE HandoffCleanup /\ UNCHANGED trial
  BY <1>10 DEF HandoffCleanup, Cleaned, Uncleaned
<1>11. CASE SealLease /\ UNCHANGED trial
  BY <1>11 DEF SealLease
<1>12. CASE HandoffReceipts /\ UNCHANGED trial
  BY <1>12 DEF HandoffReceipts
<1>13. CASE HandoffReclean /\ UNCHANGED trial
  BY <1>13 DEF HandoffReclean, Cleaned, Uncleaned
<1>14. CASE HandoffEnds /\ UNCHANGED trial
  BY <1>14 DEF HandoffEnds
<1>15. CASE RecordEntry /\ UNCHANGED trial
  BY <1>15 DEF RecordEntry
<1>16. CASE HookStarts /\ UNCHANGED trial
  <2>1. cap' = CaptureOf("after") \/ cap' = [Resting EXCEPT !.phase = "after", !.step = "done", !.out = "receipt"]
    BY <1>16 DEF HookStarts
  <2>2. cap'.step \in {"stage", "done"} /\ ~cap'.proofs.term
    <3>1. CaptureOf("after").step = "stage" /\ CaptureOf("after").proofs = NoProof
      BY CaptureOfTypes, RestingFields, Zenon
    <3>2. CASE cap' = CaptureOf("after")
      BY <3>1, <3>2, RestingFields, Zenon
    <3>3. CASE cap' = [Resting EXCEPT !.phase = "after", !.step = "done", !.out = "receipt"]
      BY <3>3, CaptureOfTypes, RestingFields, Zenon
    <3> QED BY <2>1, <3>2, <3>3
  <2>3. cap'.phase = "after"
    BY <2>1, CaptureOfTypes, RestingFields
  <2> QED BY <1>16, <2>1, <2>2, <2>3 DEF HookStarts
<1>17. CASE HookReturns /\ UNCHANGED trial
  <2>1. cap'.step = "idle" /\ ~cap'.proofs.term
    BY <1>17, RestingFields DEF HookReturns
  <2> QED BY <1>17, <2>1 DEF HookReturns
<1>18. CASE HookExpires /\ UNCHANGED trial
  BY <1>18 DEF HookExpires
<1>19. CASE HookClean /\ UNCHANGED trial
  BY <1>19 DEF HookClean, Cleaned, Uncleaned
<1>20. CASE Observe /\ UNCHANGED trial
  BY <1>20 DEF Observe
<1>21. CASE AbortClean /\ UNCHANGED trial
  BY <1>21 DEF AbortClean, LeaseClosed, LeaseKept, Cleaned, Uncleaned
<1>22. CASE Decide /\ UNCHANGED trial
  BY <1>22 DEF Decide, Cleaned, Uncleaned
<1>23. CASE Seam
  BY <1>23 DEF Seam
<1>24. CASE Granted
  BY <1>24 DEF Granted
<1>25. CASE VerifierEnds
  BY <1>25 DEF VerifierEnds
<1>26. CASE Close
  BY <1>26 DEF Close, LeaseClosed, LeaseKept, Cleaned, Uncleaned
<1>27. CASE SetupAbandoned
  BY <1>27 DEF SetupAbandoned
<1>28. CASE Populate
  BY <1>28 DEF Populate, Calls
<1>29. CASE SkipPopulate
  BY <1>29 DEF SkipPopulate, Calls, After
<1>30. CASE Populated
  BY <1>30 DEF Populated, TrialTypes
<1>31. CASE LinkFails
  BY <1>31 DEF LinkFails
<1>32. CASE \E n \in Names : Link(n)
  BY <1>32 DEF Link
<1>33. CASE Capture
  BY <1>33, ScanCapture
<1>34. CASE (\E t \in Tasks : StartTask(t)) /\ UNCHANGED trial
  BY <1>34 DEF StartTask
<1>35. CASE CancelSetup /\ UNCHANGED trial
  BY <1>35 DEF CancelSetup
<1>36. CASE HandoffExpires /\ UNCHANGED trial
  BY <1>36 DEF HandoffExpires
<1>37. CASE DetachedCleanup /\ UNCHANGED trial
  BY <1>37 DEF DetachedCleanup, Cleaned, Uncleaned
<1>38. CASE Abort /\ UNCHANGED trial
  BY <1>38 DEF Abort
<1>39. CASE (\E t \in Tasks \cup {Foreground} : TaskEnds(t)) /\ UNCHANGED trial
  BY <1>39 DEF TaskEnds
<1>40. CASE Tick
  BY <1>40 DEF Tick
<1>41. CASE \E id \in Runs : ScanGone(id)
  BY <1>41 DEF ScanGone, ScanEnds
<1>42. CASE ScriptStep
  BY <1>42 DEF ScriptStep
<1>43. CASE \E n \in Strays : SandboxFile(n)
  BY <1>43 DEF SandboxFile
<1>44. CASE Crash
  <2>1. cap'.step = "idle" /\ ~cap'.proofs.term
    BY <1>44, RestingFields DEF Crash
  <2> QED BY <1>44, <2>1 DEF Crash
<1>45. CASE UNCHANGED vars
  BY <1>45 DEF vars, snapshotVars
<1> QED
  BY <1>1, <1>2, <1>3, <1>4, <1>5, <1>6, <1>7, <1>8, <1>9, <1>10, <1>11, <1>12, <1>13, <1>14, <1>15, <1>16,
     <1>17, <1>18, <1>19, <1>20, <1>21, <1>22, <1>23, <1>24, <1>25, <1>26, <1>27, <1>28, <1>29, <1>30, <1>31,
     <1>32, <1>33, <1>34, <1>35, <1>36, <1>37, <1>38, <1>39, <1>40, <1>41, <1>42, <1>43, <1>44, <1>45 DEF
     Next, Agent, Seams, Projection

\* The scans' invariant holds in every state.
LEMMA ScansHold == Spec => []ScanInv
<1>1. Init => ScanInv
  BY RestingFields DEF Init, InitAgent, InitSnapshot, ScanInv, Active, Quiet, Behind
<1> QED
  BY <1>1, TrialTypesHold, ScanNext, PTL DEF Spec

\* A step of a capture: directories and scans carry its own name.
LEMMA StageCapture == TypeOK /\ ScanInv /\ StageInv /\ Capture => StageInv'
<1> SUFFICES ASSUME TypeOK, ScanInv, StageInv, Capture PROVE StageInv'
  OBVIOUS
<1>1. cap \in CapTypes /\ pc' = pc /\ receipt \in ReceiptTypes
  BY DEF TypeOK, Capture, agentVars
<1>2. CaptureStep
  BY DEF Capture
<1>3. Active
  BY <1>2 DEF CaptureStep, NameStage, StartScan, ScanVerified, ScanUnverified, Download, Clean, ConcludeAttempt,
              WriteBefore, WriteAfter, WriteReceipt, WriteFailure, Active
<1>4. cap.phase \in {"before", "after"} /\ cap.attempt \in {1, 2}
  BY <1>1, <1>3 DEF TypeOK, CapTypes
<1>5. pc \notin {"plane", "actor", "git", "gitwait"}
  BY <1>3 DEF ScanInv, Active, Quiet, BeforeHook, Preparing
<1> DEFINE Same == cap'.phase = cap.phase /\ cap'.attempt = cap.attempt
           Shrinks == scans' \subseteq scans /\ stages' \subseteq stages
           Kept == receipt' = receipt
<1>6. ASSUME Same, Shrinks, Kept, cap'.step \notin {"idle", "done", "stage", "scan"},
             cap'.proofs.clean => Id \notin stages'
      PROVE  StageInv'
  BY <1>1, <1>3, <1>4, <1>5, <1>6 DEF StageInv, CaptureHonest, Active, Id
<1>7. ASSUME NEW o, Ends(o), Shrinks, Kept PROVE StageInv'
  <2>1. cap'.step = "done" /\ cap'.phase = cap.phase /\ cap'.attempt = 0 /\ ~cap'.proofs.clean
    BY <1>1, <1>7, CapEffects, RestingFields
  <2> QED BY <1>1, <1>3, <1>4, <1>5, <1>7, <2>1 DEF StageInv, CaptureHonest, Active, Id
<1>8. CASE NameStage
  <2>1. Same /\ scans' = scans /\ Kept /\ ~cap'.proofs.clean /\ cap'.step \in {"scan", "conclude"}
    BY <1>1, <1>8, CapEffects, ProofFields DEF NameStage
  <2>2. stages' \in {stages, stages \cup {Id}}
    BY <1>8 DEF NameStage
  <2> QED BY <1>1, <1>3, <1>4, <1>5, <2>1, <2>2 DEF StageInv, CaptureHonest, Active, Id
<1>9. CASE StartScan
  <2>1. /\ Same /\ Kept /\ cap'.step = "scanning"
        /\ cap'.proofs = cap.proofs /\ stages' = stages /\ scans' = scans \cup {Id}
    BY <1>1, <1>9, CapEffects DEF StartScan
  <2>2. ~cap.proofs.clean
    BY <1>9 DEF StartScan, StageInv
  <2> QED BY <1>1, <1>3, <1>4, <1>5, <2>1, <2>2 DEF StageInv, CaptureHonest, Active, Id
<1>10. CASE ScanVerified
  BY <1>1, <1>6, <1>10, CapEffects, ProofFields DEF ScanVerified
<1>11. CASE ScanUnverified
  <2>1. cap'.step = "conclude" /\ cap'.proofs = cap.proofs /\ Same
    BY <1>1, <1>11 DEF ScanUnverified, CapTypes
  <2> QED BY <1>6, <1>11, <2>1 DEF ScanUnverified, StageInv
<1>12. CASE Download
  <2>1. cap'.proofs = Scanned \/ cap'.proofs = cap.proofs
    BY <1>1, <1>12, CapEffects DEF Download
  <2>2. Same /\ cap'.step = "clean"
    BY <1>1, <1>12, CapEffects DEF Download
  <2> QED BY <1>6, <1>12, <2>1, <2>2, ProofFields DEF Download, StageInv
<1>13. CASE Clean
  <2>1. cap' = [cap EXCEPT !.step = "conclude", !.proofs = Removed] => cap'.step = "conclude" /\ Same
    BY <1>1 DEF CapTypes
  <2>2. Same /\ cap'.step = "conclude" /\ Shrinks /\ Kept
    BY <1>1, <1>13, <2>1, CapEffects DEF Clean
  <2>3. cap'.proofs.clean => Id \notin stages'
    BY <1>1, <1>13, CapEffects, ProofFields DEF Clean, StageInv
  <2> QED BY <1>6, <2>2, <2>3
<1>14. CASE ConcludeAttempt
  <2>1. CASE cap.failure # NoFailure /\ cap.attempt = 1 /\ MayRetry(cap.failure, cap.proofs) /\ ~Late
    <3>1. cap.proofs.term /\ cap.proofs.clean
      BY <2>1, ProofsNeeded DEF AllProved
    <3>2. scans = {} /\ Id \notin stages
      BY <3>1 DEF ScanInv, StageInv
    <3>3. cap' = [CaptureOf(cap.phase) EXCEPT !.attempt = 2]
      BY <1>14, <2>1 DEF ConcludeAttempt
    <3>4. cap'.step = "stage" /\ cap'.phase = cap.phase /\ cap'.attempt = 2 /\ ~cap'.proofs.clean
      BY <1>4, <3>3, RetryFields, ProofFields, ZenonT(60)
    <3>5. scans' = scans /\ stages' = stages /\ Kept
      BY <1>14 DEF ConcludeAttempt
    <3> QED BY <1>1, <1>3, <1>4, <1>5, <2>1, <3>2, <3>4, <3>5 DEF StageInv, CaptureHonest, Active, Id
  <2>2. CASE ~(cap.failure # NoFailure /\ cap.attempt = 1 /\ MayRetry(cap.failure, cap.proofs) /\ ~Late)
    <3>1. Go("write") \/ Go("fail")
      BY <1>14, <2>2 DEF ConcludeAttempt
    <3> QED BY <1>1, <1>6, <1>14, <3>1, CapEffects DEF ConcludeAttempt, StageInv
  <2> QED BY <2>1, <2>2
<1>15. ASSUME NEW f, Unwritten(f), Shrinks, Kept, stages' = stages PROVE StageInv'
  BY <1>1, <1>6, <1>15, CapEffects DEF Unwritten, StageInv
<1>16. CASE WriteBefore
  BY <1>7, <1>15, <1>16 DEF WriteBefore
<1>17. CASE WriteAfter
  <2>1. UNCHANGED cap => StageInv'
    BY <1>6, <1>17 DEF WriteAfter, StageInv
  <2>2. Fails(NotPublished, cap.proofs, "fail") => StageInv'
    BY <1>1, <1>6, <1>17, CapEffects DEF WriteAfter, StageInv
  <2> QED BY <1>15, <1>17, <2>1, <2>2 DEF WriteAfter
<1>18. CASE WriteReceipt
  <2>1. CASE Kept
    BY <1>7, <1>15, <1>18, <2>1 DEF WriteReceipt
  <2>2. CASE receipt' = Complete
    <3>1. receipt'.disposition = "none" /\ receipt'.scan = Id /\ cap.phase = "after"
      BY <1>18, <2>2 DEF Complete, WriteReceipt
    <3>2. \/ cap'.step = "done" /\ cap'.attempt = 0 /\ ~cap'.proofs.clean
          \/ cap'.step = "fail" /\ cap'.attempt = cap.attempt /\ cap'.proofs = cap.proofs
      BY <1>1, <1>18, CapEffects, ProofFields DEF WriteReceipt, Unwritten
    <3>3. cap'.phase = cap.phase /\ scans' = scans /\ stages' = stages
      BY <1>1, <1>18, CapEffects DEF WriteReceipt, Unwritten
    <3>4. pc \notin BeforeHook
      BY <3>1 DEF StageInv
    <3> QED BY <1>1, <1>3, <1>4, <3>1, <3>2, <3>3, <3>4 DEF StageInv, CaptureHonest, Active, Id, BeforeHook, Preparing
  <2> QED BY <1>18, <2>1, <2>2 DEF WriteReceipt
<1>19. CASE WriteFailure
  <2>1. CASE Kept
    BY <1>7, <1>19, <2>1 DEF WriteFailure
  <2>2. CASE receipt' = FailureReceipt /\ ~Kept
    <3>1. PICK o : Ends(o)
      BY <1>19 DEF WriteFailure
    <3>2. cap'.step = "done" /\ cap'.phase = cap.phase /\ cap'.attempt = 0 /\ ~cap'.proofs.clean
      BY <1>1, <3>1, CapEffects, RestingFields
    <3>3. receipt'.scan = Id /\ (receipt'.disposition = "continue" => AllProved(cap.proofs))
      BY <2>2, ProofsNeeded DEF FailureReceipt
    <3>4. scans' = scans /\ stages' = stages
      BY <1>19 DEF WriteFailure
    <3>5. receipt'.disposition = "continue" => scans = {} /\ Id \notin stages
      BY <3>3 DEF AllProved, ScanInv, StageInv
    <3>6. receipt'.disposition = "continue" => \A a \in 1..2 : <<receipt'.scan[1], a>> \notin scans' \cup stages'
      <4>1. SUFFICES ASSUME receipt'.disposition = "continue", NEW a \in {1, 2}
                     PROVE  <<cap.phase, a>> \notin stages
        BY <3>3, <3>4, <3>5 DEF Id
      <4> QED BY <1>3, <1>4, <3>5, <4>1 DEF StageInv, CaptureHonest, Id
    <3>7. pc \in BeforeHook => receipt'.scan[1] # "after"
      BY <3>3, SMTT(30) DEF StageInv, Id
    <3> QED BY <1>1, <1>5, <3>2, <3>4, <3>6, <3>7 DEF StageInv, CaptureHonest, Active, Id
  <2> QED BY <1>19, <2>1, <2>2 DEF WriteFailure
<1> QED
  BY <1>2, <1>8, <1>9, <1>10, <1>11, <1>12, <1>13, <1>14, <1>16, <1>17, <1>18, <1>19 DEF CaptureStep


\* A directory is left behind only where no proof says otherwise.
LEMMA StageNext == TypeOK /\ ScanInv /\ StageInv /\ [Next]_vars => StageInv'
<1> SUFFICES ASSUME TypeOK, ScanInv, StageInv, [Next]_vars PROVE StageInv'
  OBVIOUS
<1> USE DEF actorVars, captureVars, planeVars, agentVars, TypeOK, StageInv, CaptureHonest, Active, Id,
    BeforeHook, Preparing, Handing
<1>1. CASE SetupPlane /\ UNCHANGED trial
  BY <1>1 DEF SetupPlane
<1>2. CASE SetupActor /\ UNCHANGED trial
  BY <1>2 DEF SetupActor
<1>3. CASE SetupGit /\ UNCHANGED trial
  BY <1>3 DEF SetupGit
<1>4. CASE SetupGitEnds /\ UNCHANGED trial
  <2>1. cap' = cap \/ cap' = CaptureOf("before")
    BY <1>4 DEF SetupGitEnds
  <2>2. /\ CaptureOf("before").phase = "before" /\ CaptureOf("before").attempt = 1 /\ CaptureOf("before").step = "stage"
        /\ ~CaptureOf("before").proofs.clean
    BY CaptureOfTypes, RestingFields
  <2>3. scans = {} /\ stages = {} /\ receipt = NoReceipt
    BY <1>4 DEF SetupGitEnds, ScanInv, StageInv, Quiet, BeforeHook, Preparing
  <2>4. NoReceipt.disposition = "none"
    BY DEF NoReceipt
  <2> QED BY <1>4, <2>1, <2>2, <2>3, <2>4 DEF SetupGitEnds
<1>5. CASE SetupEnds /\ UNCHANGED trial
  <2>1. /\ cap'.step = "idle" /\ cap'.phase = "none" /\ cap'.attempt = 0 /\ ~cap'.proofs.clean
    BY <1>5, RestingFields DEF SetupEnds
  <2> QED BY <1>5, <2>1 DEF SetupEnds
<1>6. CASE Dispatch /\ UNCHANGED trial
  BY <1>6 DEF Dispatch
<1>7. CASE Prepare /\ UNCHANGED trial
  BY <1>7 DEF Prepare
<1>8. CASE Launch /\ UNCHANGED trial
  BY <1>8 DEF Launch
<1>9. CASE (\E e \in {"none", "error", "cancelled"} : BridgeEnds(e)) /\ UNCHANGED trial
  BY <1>9 DEF BridgeEnds
<1>10. CASE HandoffCleanup /\ UNCHANGED trial
  BY <1>10 DEF HandoffCleanup, Cleaned, Uncleaned
<1>11. CASE SealLease /\ UNCHANGED trial
  BY <1>11 DEF SealLease
<1>12. CASE HandoffReceipts /\ UNCHANGED trial
  BY <1>12 DEF HandoffReceipts
<1>13. CASE HandoffReclean /\ UNCHANGED trial
  BY <1>13 DEF HandoffReclean, Cleaned, Uncleaned
<1>14. CASE HandoffEnds /\ UNCHANGED trial
  BY <1>14 DEF HandoffEnds
<1>15. CASE RecordEntry /\ UNCHANGED trial
  BY <1>15 DEF RecordEntry
<1>16. CASE HookStarts /\ UNCHANGED trial
  <2>1. cap' = CaptureOf("after") \/ cap' = [Resting EXCEPT !.phase = "after", !.step = "done", !.out = "receipt"]
    BY <1>16 DEF HookStarts
  <2>2. /\ cap'.phase = "after" /\ ~cap'.proofs.clean
        /\ (cap'.step = "stage" /\ cap'.attempt = 1) \/ (cap'.step = "done" /\ cap'.attempt = 0)
    <3>1. CASE cap' = CaptureOf("after")
      BY <3>1, CaptureOfTypes, RestingFields
    <3>2. CASE cap' = [Resting EXCEPT !.phase = "after", !.step = "done", !.out = "receipt"]
      BY <3>2, CaptureOfTypes, RestingFields
    <3> QED BY <2>1, <3>1, <3>2
  <2>3. receipt.scan[1] # "after" /\ \A a \in {1, 2} : <<"after", a>> \notin scans \cup stages
    BY <1>16 DEF HookStarts, StageInv, BeforeHook
  <2> QED BY <1>16, <2>2, <2>3 DEF HookStarts
<1>17. CASE HookReturns /\ UNCHANGED trial
  <2>1. /\ cap'.step = "idle" /\ cap'.phase = "none" /\ cap'.attempt = 0 /\ ~cap'.proofs.clean
    BY <1>17, RestingFields DEF HookReturns
  <2> QED BY <1>17, <2>1 DEF HookReturns
<1>18. CASE HookExpires /\ UNCHANGED trial
  BY <1>18 DEF HookExpires
<1>19. CASE HookClean /\ UNCHANGED trial
  BY <1>19 DEF HookClean, Cleaned, Uncleaned
<1>20. CASE Observe /\ UNCHANGED trial
  BY <1>20 DEF Observe
<1>21. CASE AbortClean /\ UNCHANGED trial
  BY <1>21 DEF AbortClean, LeaseClosed, LeaseKept, Cleaned, Uncleaned
<1>22. CASE Decide /\ UNCHANGED trial
  BY <1>22 DEF Decide, Cleaned, Uncleaned
<1>23. CASE Seam
  BY <1>23 DEF Seam
<1>24. CASE Granted
  BY <1>24 DEF Granted
<1>25. CASE VerifierEnds
  BY <1>25 DEF VerifierEnds
<1>26. CASE Close
  BY <1>26 DEF Close, LeaseClosed, LeaseKept, Cleaned, Uncleaned
<1>27. CASE SetupAbandoned
  BY <1>27 DEF SetupAbandoned
<1>28. CASE Populate
  BY <1>28 DEF Populate
<1>29. CASE SkipPopulate
  BY <1>29 DEF SkipPopulate, Calls, After
<1>30. CASE Populated
  BY <1>30 DEF Populated, TrialTypes
<1>31. CASE LinkFails
  BY <1>31 DEF LinkFails
<1>32. CASE \E n \in Names : Link(n)
  BY <1>32 DEF Link
<1>33. CASE Capture
  BY <1>33, StageCapture
<1>34. CASE (\E t \in Tasks : StartTask(t)) /\ UNCHANGED trial
  BY <1>34 DEF StartTask
<1>35. CASE CancelSetup /\ UNCHANGED trial
  BY <1>35 DEF CancelSetup
<1>36. CASE HandoffExpires /\ UNCHANGED trial
  BY <1>36 DEF HandoffExpires
<1>37. CASE DetachedCleanup /\ UNCHANGED trial
  BY <1>37 DEF DetachedCleanup, Cleaned, Uncleaned
<1>38. CASE Abort /\ UNCHANGED trial
  BY <1>38 DEF Abort
<1>39. CASE (\E t \in Tasks \cup {Foreground} : TaskEnds(t)) /\ UNCHANGED trial
  BY <1>39 DEF TaskEnds
<1>40. CASE Tick
  BY <1>40 DEF Tick
<1>41. CASE \E id \in Runs : ScanGone(id)
  BY <1>41 DEF ScanGone, ScanEnds
<1>42. CASE ScriptStep
  BY <1>42 DEF ScriptStep
<1>43. CASE \E n \in Strays : SandboxFile(n)
  BY <1>43 DEF SandboxFile
<1>44. CASE Crash
  <2>1. /\ cap'.step = "idle" /\ cap'.phase = "none" /\ cap'.attempt = 0 /\ ~cap'.proofs.clean
    BY <1>44, RestingFields DEF Crash
  <2> QED BY <1>44, <2>1 DEF Crash
<1>45. CASE UNCHANGED vars
  BY <1>45 DEF vars, snapshotVars
<1> QED
  BY <1>1, <1>2, <1>3, <1>4, <1>5, <1>6, <1>7, <1>8, <1>9, <1>10, <1>11, <1>12, <1>13, <1>14, <1>15, <1>16,
     <1>17, <1>18, <1>19, <1>20, <1>21, <1>22, <1>23, <1>24, <1>25, <1>26, <1>27, <1>28, <1>29, <1>30, <1>31,
     <1>32, <1>33, <1>34, <1>35, <1>36, <1>37, <1>38, <1>39, <1>40, <1>41, <1>42, <1>43, <1>44, <1>45 DEF
     Next, Agent, Seams, Projection

\* _remote_inventory and workspace_failure_disposition: neither a second
\* scan nor a receipt that lets the trial go on leaves a scan or a staging
\* directory of its capture, whatever was lost, late or cancelled.
THEOREM CapturesAreHonest == Spec => []CaptureHonest
<1>1. Init => StageInv
  <2> SUFFICES ASSUME Init PROVE StageInv
    OBVIOUS
  <2>1. /\ cap = Resting /\ scans = {} /\ stages = {} /\ receipt = NoReceipt
    BY DEF Init, InitSnapshot
  <2>2. NoReceipt.disposition = "none" /\ NoReceipt.scan[1] = "none"
    BY DEF NoReceipt
  <2> QED BY <2>1, <2>2, RestingFields DEF StageInv, CaptureHonest, Active
<1>2. StageInv => CaptureHonest
  BY DEF StageInv
<1> QED
  BY <1>1, <1>2, TrialTypesHold, ScansHold, StageNext, PTL DEF Spec

(***************************************************************************)
(* The verifier and the end of the trial.                                  *)
(***************************************************************************)
\* Behind the hook a capture nobody waits for only winds down.
LEMMA CaptureBehind ==
    ASSUME TypeOK, ScanInv, Capture
    PROVE  /\ cap.step # "idle" /\ (pc \in Behind => scans' \subseteq scans)
           /\ UNCHANGED <<pc, host, disk, alive, owned, lease, trial>>
<1>1. CaptureStep /\ UNCHANGED <<pc, host, disk, alive, owned, lease, trial>>
  BY DEF Capture, agentVars
<1>2. cap.step # "idle"
  BY <1>1 DEF CaptureStep, NameStage, StartScan, ScanVerified, ScanUnverified, Download, Clean, ConcludeAttempt,
              WriteBefore, WriteAfter, WriteReceipt, WriteFailure
<1>3. ASSUME pc \in Behind PROVE scans' \subseteq scans
  <2>1. cap.phase = "after" /\ clock >= 2 /\ clock \in {0, 1, 2, 3}
    BY <1>2, <1>3 DEF ScanInv, TypeOK
  <2>2. ~StartScan
    BY <2>1, SMTT(30) DEF StartScan, Late
  <2> QED BY <1>1, <2>2 DEF CaptureStep, NameStage, ScanVerified, ScanUnverified, Download, Clean, ConcludeAttempt,
              WriteBefore, WriteAfter, WriteReceipt, WriteFailure
<1> QED BY <1>1, <1>2, <1>3


\* The hook, the decision and the cleanup leave what the verifier relies on.
LEMMA VerdictNext == TypeOK /\ LeaseInv /\ ScanInv /\ VerdictInv /\ [Next]_vars => VerdictInv'
<1> SUFFICES ASSUME TypeOK, LeaseInv, ScanInv, VerdictInv, [Next]_vars PROVE VerdictInv'
  OBVIOUS
<1> USE DEF actorVars, captureVars, planeVars, agentVars, TypeOK, HostTypes, DiskTypes, TrialTypes, VerdictInv,
    Passing, Judging, Ending
<1>1. CASE SetupPlane /\ UNCHANGED trial
  BY <1>1 DEF SetupPlane
<1>2. CASE SetupActor /\ UNCHANGED trial
  BY <1>2 DEF SetupActor
<1>3. CASE SetupGit /\ UNCHANGED trial
  BY <1>3 DEF SetupGit
<1>4. CASE SetupGitEnds /\ UNCHANGED trial
  BY <1>4 DEF SetupGitEnds
<1>5. CASE SetupEnds /\ UNCHANGED trial
  BY <1>5 DEF SetupEnds
<1>6. CASE Dispatch /\ UNCHANGED trial
  BY <1>6 DEF Dispatch
<1>7. CASE Prepare /\ UNCHANGED trial
  BY <1>7 DEF Prepare
<1>8. CASE Launch /\ UNCHANGED trial
  BY <1>8 DEF Launch
<1>9. CASE (\E e \in {"none", "error", "cancelled"} : BridgeEnds(e)) /\ UNCHANGED trial
  BY <1>9 DEF BridgeEnds
<1>10. CASE HandoffCleanup /\ UNCHANGED trial
  BY <1>10 DEF HandoffCleanup, Cleaned, Uncleaned
<1>11. CASE SealLease /\ UNCHANGED trial
  BY <1>11 DEF SealLease, Refreshed
<1>12. CASE HandoffReceipts /\ UNCHANGED trial
  BY <1>12 DEF HandoffReceipts
<1>13. CASE HandoffReclean /\ UNCHANGED trial
  BY <1>13, ZenonT(60) DEF HandoffReclean, Cleaned, Uncleaned
<1>14. CASE HandoffEnds /\ UNCHANGED trial
  BY <1>14 DEF HandoffEnds
<1>15. CASE RecordEntry /\ UNCHANGED trial
  BY <1>15 DEF RecordEntry, Raised
<1>16. CASE HookStarts /\ UNCHANGED trial
  BY <1>16 DEF HookStarts
<1>17. CASE HookReturns /\ UNCHANGED trial
  <2>1. cap'.step = "idle" /\ scans' = scans
    BY <1>17, RestingFields DEF HookReturns
  <2>2. pc' = "liveness" => scans = {}
    BY <1>17 DEF HookReturns, ScanInv
  <2>3. pc' = "hookclean" => host'.hook # "none"
    BY <1>17 DEF HookReturns, TypeOK, HostTypes
  <2>4. pc = "capture" /\ pc' \in {"liveness", "hookclean"} /\ host'.err = host.err /\ disk' = disk
    BY <1>17 DEF HookReturns, TypeOK, HostTypes
  <2> QED BY <1>17, <2>1, <2>2, <2>3, <2>4 DEF VerdictInv, Passing, Judging, Ending
<1>18. CASE HookExpires /\ UNCHANGED trial
  BY <1>18 DEF HookExpires
<1>19. CASE HookClean /\ UNCHANGED trial
  BY <1>19 DEF HookClean, Cleaned, Uncleaned
<1>20. CASE Observe /\ UNCHANGED trial
  BY <1>20 DEF Observe
<1>21. CASE AbortClean /\ UNCHANGED trial
  BY <1>21 DEF AbortClean, LeaseClosed, LeaseKept, Cleaned, Uncleaned
<1>22. CASE Decide /\ UNCHANGED trial
  BY <1>22 DEF Decide, Cleaned, Uncleaned
<1>23. CASE Seam
  <2>1. UNCHANGED <<host, disk, alive, scans, cap, receipt, trial>> /\ pc = "seam"
    BY <1>23 DEF Seam
  <2>2. pc' \in {"raised", "returned", "decide"}
    BY <1>23 DEF Seam
  <2>3. pc' = "returned" => host.hook # "fatal" /\ host.err = "none"
    BY <1>23 DEF Seam
  <2>4. pc' = "decide" => host.hook = "none" /\ host.err = "error"
    BY <1>23 DEF Seam
  <2> QED BY <2>1, <2>2, <2>3, <2>4 DEF VerdictInv, Passing, Judging, Ending
<1>24. CASE Granted
  <2>1. pc = "granted" /\ pc' = "returned" /\ UNCHANGED <<host, disk, alive, scans, cap, receipt>>
    BY <1>24 DEF Granted
  <2>2. trial'.granted /\ trial'.next = trial.next /\ trial'.error = trial.error
    BY <1>24 DEF Granted, TypeOK, TrialTypes
  <2> QED BY <2>1, <2>2 DEF VerdictInv, Passing, Judging, Ending
<1>25. CASE VerifierEnds
  BY <1>25 DEF VerifierEnds
<1>26. CASE Close
  BY <1>26 DEF Close, LeaseClosed, LeaseKept, Cleaned, Uncleaned, LeaseExact
<1>27. CASE SetupAbandoned
  BY <1>27 DEF SetupAbandoned
<1>28. CASE Populate
  <2>1. pc' = "populate" /\ UNCHANGED <<host, disk, alive, scans, cap, receipt>>
    BY <1>28 DEF Populate
  <2>2. trial'.granted = trial.granted /\ trial'.next = After[pc] /\ trial'.error = (trial.error \/ pc = "raised")
    BY <1>28 DEF Populate, TypeOK, TrialTypes
  <2>3. \/ pc = "returned" /\ After[pc] = "verifier"
        \/ pc = "raised" /\ After[pc] = "end"
        \/ pc = "end" /\ After[pc] = "over"
    BY <1>28 DEF Populate, Calls, After
  <2> QED BY <2>1, <2>2, <2>3 DEF VerdictInv, Passing, Judging, Ending
<1>29. CASE SkipPopulate
  <2>1. UNCHANGED <<host, disk, alive, scans, cap, receipt>>
    BY <1>29 DEF SkipPopulate
  <2>2. trial'.granted = trial.granted /\ trial'.next = trial.next /\ trial'.error = (trial.error \/ pc = "raised")
    BY <1>29 DEF SkipPopulate, TypeOK, TrialTypes
  <2>3. \/ pc = "returned" /\ pc' = "verifier"
        \/ pc = "raised" /\ pc' = "end"
        \/ pc = "end" /\ pc' = "over"
    BY <1>29 DEF SkipPopulate, Calls, After
  <2> QED BY <2>1, <2>2, <2>3 DEF VerdictInv, Passing, Judging, Ending
<1>30. CASE Populated
  BY <1>30 DEF Populated
<1>31. CASE LinkFails
  BY <1>31 DEF LinkFails
<1>32. CASE \E n \in Names : Link(n)
  BY <1>32 DEF Link
<1>33. CASE Capture
  <2>1. pc \in Behind /\ cap.step # "idle" => scans' \subseteq scans
    BY <1>33, CaptureBehind
  <2>2. cap.step # "idle" /\ UNCHANGED <<pc, host, disk, alive, trial>>
    BY <1>33, CaptureBehind
  <2>3. /\ ~trial.granted /\ pc \notin {"granted", "decide", "liveness", "abortclean"}
        /\ ~(pc = "seam" /\ host.hook = "none")
    BY <2>2 DEF VerdictInv
  <2> QED BY <2>1, <2>2, <2>3 DEF Behind, VerdictInv, Passing, Judging, Ending
<1>34. CASE (\E t \in Tasks : StartTask(t)) /\ UNCHANGED trial
  BY <1>34 DEF StartTask
<1>35. CASE CancelSetup /\ UNCHANGED trial
  BY <1>35 DEF CancelSetup
<1>36. CASE HandoffExpires /\ UNCHANGED trial
  BY <1>36 DEF HandoffExpires
<1>37. CASE DetachedCleanup /\ UNCHANGED trial
  BY <1>37 DEF DetachedCleanup, Cleaned, Uncleaned
<1>38. CASE Abort /\ UNCHANGED trial
  BY <1>38 DEF Abort
<1>39. CASE (\E t \in Tasks \cup {Foreground} : TaskEnds(t)) /\ UNCHANGED trial
  BY <1>39 DEF TaskEnds
<1>40. CASE Tick
  BY <1>40 DEF Tick
<1>41. CASE \E id \in Runs : ScanGone(id)
  BY <1>41 DEF ScanGone, ScanEnds
<1>42. CASE ScriptStep
  BY <1>42 DEF ScriptStep
<1>43. CASE \E n \in Strays : SandboxFile(n)
  BY <1>43 DEF SandboxFile
<1>44. CASE Crash
  BY <1>44 DEF Crash, HostAtRest, Fresh, Resting
<1>45. CASE UNCHANGED vars
  BY <1>45 DEF vars, snapshotVars
<1> QED
  BY <1>1, <1>2, <1>3, <1>4, <1>5, <1>6, <1>7, <1>8, <1>9, <1>10, <1>11, <1>12, <1>13, <1>14, <1>15, <1>16,
     <1>17, <1>18, <1>19, <1>20, <1>21, <1>22, <1>23, <1>24, <1>25, <1>26, <1>27, <1>28, <1>29, <1>30, <1>31,
     <1>32, <1>33, <1>34, <1>35, <1>36, <1>37, <1>38, <1>39, <1>40, <1>41, <1>42, <1>43, <1>44, <1>45 DEF
     Next, Agent, Seams, Projection

\* The invariant of the way to the verifier and out.
LEMMA VerdictHolds == Spec => []VerdictInv
<1>1. Init => VerdictInv
  BY DEF Init, InitAgent, Fresh, VerdictInv, Passing, Judging, Ending
<1> QED
  BY <1>1, TrialTypesHold, LeaseHolds, ScansHold, VerdictNext, PTL DEF Spec

\* seal_process_lease_v1, the hook and the decision: the verifier starts
\* over a sandbox whose live processes are all in the sealed lease, without
\* a scan, and after a failed agent only over one that is empty.
THEOREM VerifierIsSafe == Spec => []VerifierSafe
<1>1. LeaseInv /\ VerdictInv => VerifierSafe
  BY DEF LeaseInv, HandoffHonest, VerdictInv, Judging, Passing, VerifierSafe
<1> QED
  BY <1>1, LeaseHolds, VerdictHolds, PTL

\* run_verifier_with_cleanup: a trial that ends without an error left no
\* owned process and no scan.
THEOREM TrialEndsClean == Spec => []CleanEnd
<1>1. VerdictInv => CleanEnd
  BY DEF VerdictInv, Ending, CleanEnd
<1> QED
  BY <1>1, VerdictHolds, PTL
=============================================================================
