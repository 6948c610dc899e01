--------------------------- MODULE SnapshotLease ----------------------------
(***************************************************************************)
(* exec_snapshot_owned: a long snapshot command under an in-container      *)
(* lease.  The host coroutine drives the script's modes snapshot-start,    *)
(* -release, -wait, -inspect and -cancel; a detached supervisor publishes  *)
(* the lease, holds the command behind a gate, and settles it.  Control    *)
(* files order the release of the gate against cancellation: release,      *)
(* cancel_intent (before a lease is known) and cancel_requested (after).   *)
(*                                                                         *)
(* A call may be lost with or without its effect, and a lost snapshot-start *)
(* or snapshot-release may still take effect later.                        *)
(***************************************************************************)
EXTENDS OwnedProcesses, Integers

CONSTANT Snapshots

VARIABLES
    start,      \* snapshot-start: none, queued (dispatched), begun, gaveUp
    sup,        \* the supervisor's progress
    rel,        \* snapshot-release: none, sent, checked, released
    intent,     \* cancel_intent exists
    requested,  \* cancel_requested exists
    ran,        \* the gate opened: the command was executed
    terminal,   \* terminal.json
    snaps,      \* _active_snapshots
    leased,     \* the host knows the lease of a snapshot in snaps
    sn,         \* the coroutine: step and snapshot
    snOut       \* what the caller was told

snRemote == <<start, sup, rel, intent, requested, ran, terminal>>
snHost == <<snaps, leased, sn, snOut>>
snVars == <<start, sup, rel, intent, requested, ran, terminal, snaps, leased, sn, snOut>>

SnResting == [pc |-> "idle", at |-> "none"]

InitSnapshots ==
    /\ start = [s \in Snapshots |-> "none"]
    /\ sup = [s \in Snapshots |-> "none"]
    /\ rel = [s \in Snapshots |-> "none"]
    /\ intent = {} /\ requested = {} /\ ran = {}
    /\ terminal = [s \in Snapshots |-> "none"]
    /\ snaps = {} /\ leased = {}
    /\ sn = SnResting
    /\ snOut = [s \in Snapshots |-> "none"]

(***************************************************************************)
(* The supervisor (snapshot-supervise), started by snapshot-start.         *)
(***************************************************************************)
SupAlive(s) == sup[s] \in {"up", "forked", "watching", "term", "kill", "confirm", "done"}

LeasePublished(s) == sup[s] \in {"watching", "term", "kill", "confirm", "done", "gone", "killed"}

SupStep(s, from, to) == sup[s] = from /\ sup' = [sup EXCEPT ![s] = to]

SupervisorUp(s) ==
    /\ start[s] = "queued" /\ start' = [start EXCEPT ![s] = "begun"]
    /\ SupStep(s, "none", "up")
    /\ UNCHANGED <<procs, rel, intent, requested, ran, terminal>>

(* snapshot-start waits for the lease and then forbids the release         *)
StartTimesOut(s) ==
    /\ start[s] = "begun" /\ ~LeasePublished(s) /\ sup[s] # "lost"
    /\ start' = [start EXCEPT ![s] = "gaveUp"]
    /\ intent' = intent \cup {s}
    /\ UNCHANGED <<procs, sup, rel, requested, ran, terminal>>

(* the command's leader starts behind the gate                             *)
SupervisorFork(s) ==
    /\ SupStep(s, "up", "forked")
    /\ procs' = [procs EXCEPT ![s] = {"leader"}]
    /\ UNCHANGED <<start, rel, intent, requested, ran, terminal>>

(* identity files, then lease.json                                         *)
SupervisorLease(s) ==
    /\ SupStep(s, "forked", "watching") /\ "leader" \in procs[s]
    /\ UNCHANGED <<procs, start, rel, intent, requested, ran, terminal>>

(* an early exit leaves the leader waiting at the gate                     *)
SupervisorFails(s) ==
    /\ \/ SupStep(s, "up", "lost")
       \/ SupStep(s, "forked", "lost")
    /\ UNCHANGED <<procs, start, rel, intent, requested, ran, terminal>>

(* the gate: release opens it, an intent without release ends the leader   *)
GateOpens(s) ==
    /\ "leader" \in procs[s] /\ s \notin ran /\ rel[s] = "released"
    /\ ran' = ran \cup {s}
    /\ UNCHANGED <<procs, start, sup, rel, intent, requested, terminal>>

GateCancels(s) ==
    /\ "leader" \in procs[s] /\ s \notin ran /\ rel[s] # "released" /\ s \in intent
    /\ procs' = [procs EXCEPT ![s] = @ \ {"leader"}]
    /\ UNCHANGED <<start, sup, rel, intent, requested, ran, terminal>>

Cancelled(s) == s \in requested \/ (s \in intent /\ rel[s] # "released")

(* the watch ends: all gone, cancelled, or released and out of time        *)
SupervisorEnds(s) ==
    /\ SupStep(s, "watching", "term")
    /\ ~OwnedAlive(procs[s]) \/ Cancelled(s) \/ rel[s] = "released"
    /\ terminal' = [terminal EXCEPT ![s] =
                       IF Cancelled(s) THEN "cancelling"
                       ELSE IF OwnedAlive(procs[s]) THEN "timingOut" ELSE "exiting"]
    /\ UNCHANGED <<procs, start, rel, intent, requested, ran>>

(* TERM, then KILL, if some process of the group still carries the token;  *)
(* otherwise the identity is not valid and nothing is signalled            *)
Signalled(s, outcomes) ==
    \E p \in outcomes \cup (IF "leader" \in procs[s] THEN {} ELSE {procs[s]}) : procs' = [procs EXCEPT ![s] = p]

SupervisorTerm(s) ==
    /\ SupStep(s, "term", "kill")
    /\ Signalled(s, AfterTerm(procs[s], Members))
    /\ UNCHANGED <<start, rel, intent, requested, ran, terminal>>

SupervisorKill(s) ==
    /\ SupStep(s, "kill", "confirm")
    /\ Signalled(s, AfterKill(procs[s], Members))
    /\ UNCHANGED <<start, rel, intent, requested, ran, terminal>>

Verdict(s) ==
    CASE terminal[s] = "cancelling" -> {"cancelled"}
      [] terminal[s] = "timingOut" -> {"timedOut"}
      [] OTHER -> {"completed", "failed"}

Publish(s, v) ==
    /\ SupStep(s, "confirm", "done")
    /\ terminal' = [terminal EXCEPT ![s] = v]
    /\ UNCHANGED <<procs, start, rel, intent, requested, ran>>

(* Mutant: the terminal record is written without a census.                *)
SupervisorSettlesUnseen(s) == \E v \in Verdict(s) : Publish(s, v)

(* terminal.json with a verified census                                    *)
SupervisorSettles(s) == ~OwnedAlive(procs[s]) /\ \E v \in Verdict(s) : Publish(s, v)

SupervisorUnverified(s) == Publish(s, "unverified")

SupervisorExits(s) ==
    /\ SupStep(s, "done", "gone")
    /\ UNCHANGED <<procs, start, rel, intent, requested, ran, terminal>>

(* the command once it runs: it may end, fork, or leave the group          *)
BehaveSnapshot(s) ==
    /\ s \in ran
    /\ \E p \in Behaviours(procs[s]) : procs' = [procs EXCEPT ![s] = p]
    /\ UNCHANGED snRemote

(***************************************************************************)
(* snapshot-release: it tests the identities and the cancel files, and     *)
(* then, a step later, creates release.                                    *)
(***************************************************************************)
ReleaseRefused(s) == {s} \cap (intent \cup requested) # {} \/ terminal[s] \in {"cancelled", "timedOut", "completed", "failed", "unverified"}

ReleaseChecks(s) ==
    /\ rel[s] = "sent" /\ sup[s] = "watching" /\ "leader" \in procs[s] /\ ~ReleaseRefused(s)
    /\ rel' = [rel EXCEPT ![s] = "checked"]
    /\ UNCHANGED <<procs, start, sup, intent, requested, ran, terminal>>

ReleaseLands(s) ==
    /\ rel[s] = "checked" /\ rel' = [rel EXCEPT ![s] = "released"]
    /\ UNCHANGED <<procs, start, sup, intent, requested, ran, terminal>>

SnapshotScript(s) ==
    \/ SupervisorUp(s) \/ StartTimesOut(s) \/ SupervisorFork(s) \/ SupervisorLease(s) \/ SupervisorFails(s)
    \/ GateOpens(s) \/ GateCancels(s) \/ SupervisorEnds(s) \/ SupervisorTerm(s) \/ SupervisorKill(s)
    \/ SupervisorSettles(s) \/ SupervisorUnverified(s) \/ SupervisorExits(s)
    \/ ReleaseChecks(s) \/ ReleaseLands(s)

(***************************************************************************)
(* The host coroutine.                                                     *)
(***************************************************************************)
SnGoes(step) == sn' = [sn EXCEPT !.pc = step]

(* Mutant: an unverified snapshot is forgotten like a proven one.          *)
SnLeaveForgets(what) ==
    /\ snOut' = [snOut EXCEPT ![sn.at] = what]
    /\ snaps' = snaps \ {sn.at}
    /\ leased' = leased \ {sn.at}
    /\ sn' = SnResting
    /\ UNCHANGED <<procs, snRemote>>

(* it leaves: the caller is told, and a proven end releases the snapshot   *)
SnLeave(what) ==
    /\ snOut' = [snOut EXCEPT ![sn.at] = what]
    /\ snaps' = IF what = "unverified" THEN snaps ELSE snaps \ {sn.at}
    /\ leased' = IF what = "unverified" THEN leased ELSE leased \ {sn.at}
    /\ sn' = SnResting
    /\ UNCHANGED <<procs, snRemote>>

SnBegin(s) ==
    /\ sn.pc = "idle" /\ snOut[s] = "none" /\ s \notin snaps
    /\ snaps' = snaps \cup {s}
    /\ sn' = [pc |-> "setup", at |-> s]
    /\ UNCHANGED <<procs, snRemote, leased, snOut>>

(* a passed capture cutoff, or a failure before the start was dispatched   *)
SnNotStarted == sn.pc \in {"setup", "upload"} /\ SnLeave("failed")

SnPrepare ==
    /\ sn.pc = "setup" /\ SnGoes("upload")
    /\ UNCHANGED <<procs, snRemote, snaps, leased, snOut>>

SnDispatch ==
    /\ sn.pc = "upload" /\ SnGoes("starting")
    /\ start' = [start EXCEPT ![sn.at] = "queued"]
    /\ UNCHANGED <<procs, sup, rel, intent, requested, ran, terminal, snaps, leased, snOut>>

SnStarted ==
    /\ sn.pc = "starting" /\ LeasePublished(sn.at) /\ SnGoes("release")
    /\ leased' = leased \cup {sn.at}
    /\ UNCHANGED <<procs, snRemote, snaps, snOut>>

SnRelease ==
    /\ sn.pc = "release" /\ SnGoes("releasing")
    /\ rel' = [rel EXCEPT ![sn.at] = "sent"]
    /\ UNCHANGED <<procs, start, sup, intent, requested, ran, terminal, snaps, leased, snOut>>

SnReleased ==
    /\ sn.pc = "releasing" /\ rel[sn.at] = "released" /\ SnGoes("waiting")
    /\ UNCHANGED <<procs, snRemote, snaps, leased, snOut>>

VerifiedTerminal(s) == terminal[s] \in {"completed", "failed", "timedOut", "cancelled"}

(* snapshot-wait answers once terminal.json exists and the supervisor left *)
SnSettled ==
    /\ sn.pc = "waiting" /\ sup[sn.at] = "gone" /\ VerifiedTerminal(sn.at)
    /\ SnLeave(IF terminal[sn.at] \in {"completed", "failed"} THEN "result" ELSE "failed")

(* a lost or invalid answer, a deadline, or a cancellation of the caller   *)
SnTrouble ==
    /\ sn.pc \in {"starting", "release", "releasing", "waiting"}
    /\ SnGoes(IF sn.at \in leased THEN "cancel" ELSE "inspect")
    /\ UNCHANGED <<procs, snRemote, snaps, leased, snOut>>

(* snapshot-inspect: cancel_intent first, then the lease if it is there    *)
SnInspect ==
    /\ sn.pc = "inspect" /\ SnGoes("inspecting")
    /\ intent' = intent \cup {sn.at}
    /\ UNCHANGED <<procs, start, sup, rel, requested, ran, terminal, snaps, leased, snOut>>

SnInspected ==
    /\ sn.pc = "inspecting" /\ LeasePublished(sn.at) /\ SnGoes("cancel")
    /\ leased' = leased \cup {sn.at}
    /\ UNCHANGED <<procs, snRemote, snaps, snOut>>

(* snapshot-cancel: refused when the supervisor died without a terminal    *)
SnCancel ==
    /\ sn.pc = "cancel" /\ (SupAlive(sn.at) \/ sup[sn.at] = "gone") /\ SnGoes("cancelling")
    /\ requested' = requested \cup {sn.at}
    /\ UNCHANGED <<procs, start, sup, rel, intent, ran, terminal, snaps, leased, snOut>>

SnContained ==
    /\ sn.pc = "cancelling" /\ sup[sn.at] = "gone" /\ VerifiedTerminal(sn.at)
    /\ SnLeave("failed")

SnUnverified == sn.pc \in {"inspect", "inspecting", "cancel", "cancelling"} /\ SnLeave("unverified")

SnapshotHost ==
    \/ SnNotStarted \/ SnPrepare \/ SnDispatch \/ SnStarted \/ SnRelease \/ SnReleased \/ SnSettled
    \/ SnTrouble \/ SnInspect \/ SnInspected \/ SnCancel \/ SnContained \/ SnUnverified
=============================================================================
