---------------------------- MODULE TerminalActor ---------------------------
(***************************************************************************)
(* RemoteTerminalActor: foreground commands and background tasks served    *)
(* one at a time, owned snapshot commands, the cleanup that may start while *)
(* a cancelled call still contains its command, the process lease handed   *)
(* to the caller, and the workspace readiness claimed behind it.           *)
(***************************************************************************)
EXTENDS ForegroundRun, BackgroundTasks, SnapshotLease

CONSTANTS
    Sessions,    \* bound: the requests a session makes
    Later        \* bound: the tasks that are not the first one of their session

(* every request has a directory and an owner token of its own             *)
ASSUME OwnersAssumption ==
    Commands \cap Tasks = {} /\ Commands \cap Snapshots = {} /\ Tasks \cap Snapshots = {}

VARIABLES
    session,   \* one of Sessions
    cu,        \* cleanup_active_until: phase, participants, the ones still to act, proven zero
    lease,     \* the sealed process lease and the outcome of closing it
    probe      \* workspace_readiness_v1

Owned == Commands \cup Tasks \cup Snapshots

vars == <<session, procs, fgVars, bgVars, snVars, cu, lease, probe>>

CuResting == [pc |-> "idle", parts |-> {}, left |-> {}, zero |-> {}, closing |-> FALSE, answer |-> "none"]

Init ==
    /\ session \in Sessions
    /\ procs = [o \in Owned |-> {}]
    /\ InitForeground
    /\ InitBackground
    /\ InitSnapshots
    /\ cu = CuResting
    /\ lease = [sealed |-> FALSE, tasks |-> {}, outcome |-> "none"]
    /\ probe = "none"

restVars == <<session, cu, lease, probe>>
fgRest == <<bgVars, snVars, restVars>>
bgRest == <<fgVars, snVars, restVars>>
snRest == <<fgVars, bgVars, restVars>>

(* a fatal or cancelled call, a sealed lease or a cleanup ends the session *)
Over == bg.fatal \/ lease.sealed \/ cu.answer # "none" \/ \E c \in Commands : out[c].kind \in {"failed", "cancelled"}

Idle == fg.pc = "idle" /\ bg.pc = "idle" /\ sn.pc = "idle" /\ cu.pc = "idle"

Serving == ~Over /\ Idle

(***************************************************************************)
(* Requests.                                                               *)
(***************************************************************************)
ExecuteCommand(c, signed) == Serving /\ c \in session /\ (Admit(c, signed) \/ RefuseMapping(c)) /\ UNCHANGED fgRest

(* ids are fresh and alike: a later one is only used behind another one,   *)
(* whose start was answered; an unanswered start ends the service          *)
ExecuteStart(t) ==
    /\ Serving /\ t \in session /\ (t \in Later => \E u \in Tasks : told[u] # "none")
    /\ StartBackground(t)
    /\ UNCHANGED bgRest

ExecuteOutput(todo) == Serving /\ TerminalOutput(todo) /\ UNCHANGED bgRest

ExecuteKill(t) == Serving /\ KillCommand(t) /\ UNCHANGED bgRest

RequestManifest == Serving /\ session \cap Tasks # {} /\ BackgroundManifest /\ UNCHANGED bgRest

ExecSnapshot(s) == Idle /\ s \in session /\ probe = "none" /\ SnBegin(s) /\ UNCHANGED snRest

ForegroundStep == (HostStep \/ PassCutoff \/ Cancel \/ CancelAgain) /\ UNCHANGED fgRest

BackgroundStep == (BackgroundHost \/ CancelBackground) /\ UNCHANGED bgRest

SnapshotStep == SnapshotHost /\ UNCHANGED snRest

RemoteRun(c) == (RunScript(c) \/ Behave(c)) /\ UNCHANGED fgRest

RemoteMonitor(t) ==
    (Monitor(t) \/ BehaveBackground(t) \/ ReusePid(t)) /\ UNCHANGED <<hostVars, bgRest>>

RemoteSnapshot(s) == (SnapshotScript(s) \/ BehaveSnapshot(s)) /\ UNCHANGED <<snHost, snRest>>

(***************************************************************************)
(* cleanup_active_until.                                                   *)
(***************************************************************************)
Participants == active \cup (reg \ Terminal) \cup snaps

(* the bridge starts it once the handler has ended or was cancelled        *)
HandlerGone == (fg.pc = "idle" \/ fg.cancelled) /\ sn.pc = "idle" /\ (bg.pc \in {"idle", "salvage"} \/ bg.op = "salvage")

BeginCleanup(closing) ==
    /\ cu.pc = "idle" /\ HandlerGone /\ cu.answer # "clean"
    /\ closing => lease.sealed /\ lease.outcome = "none" /\ Live = lease.tasks
    /\ reg' = reg \ Terminal      \* ended tasks, which gave their spool back, are dropped
    /\ cu' = IF Participants = {} THEN [CuResting EXCEPT !.answer = "clean"]
             ELSE [CuResting EXCEPT !.pc = "term", !.parts = Participants, !.left = Participants, !.closing = closing,
                                       !.answer = cu.answer]
    /\ lease' = IF closing /\ Participants = {} THEN [lease EXCEPT !.outcome = "clean"] ELSE lease
    /\ UNCHANGED <<session, procs, fgVars, remoteVars, task, bg, told, spool, snVars, probe>>

(* cleanup-signal and snapshot-cleanup-signal are refused while the        *)
(* identity is not known                                                   *)
Reachable(o) ==
    CASE o \in Commands -> PgidPublished(o)
      [] o \in Tasks -> task[o].bound /\ Published(o)
      [] OTHER -> LeasePublished(o) /\ o \in leased \cup intent

Hits(o) == IF o \in Tasks THEN SignalHits(o) ELSE Members

Signals(o) == IF cu.pc = "term" THEN AfterTerm(procs[o], Hits(o)) ELSE AfterKill(procs[o], Hits(o))

SignalParticipant(o) ==
    /\ cu.pc \in {"term", "kill"} /\ o \in cu.left \ Snapshots
    /\ cu' = [cu EXCEPT !.left = @ \ {o}]
    /\ \/ UNCHANGED <<procs, killed, foreign>>
       \/ /\ Reachable(o)
          /\ IF o \in Commands
                THEN (\E p \in Signals(o) : Put(o, p)) /\ UNCHANGED <<killed, foreign>>
                ELSE SignalIdentity(o, Signals(o)) /\ killed' = [killed EXCEPT ![o] = TRUE]
    /\ UNCHANGED <<session, fgVars, hostVars, starter, mon, expired, status, reused, snVars, lease, probe>>

(* without a lease it is inspected first, which forbids the release; the   *)
(* supervisor is signalled with its command                                *)
SignalSnapshot(s) ==
    /\ cu.pc \in {"term", "kill"} /\ s \in cu.left
    /\ cu' = [cu EXCEPT !.left = @ \ {s}]
    /\ intent' \in {intent} \cup IF s \in leased THEN {} ELSE {intent \cup {s}}
    /\ \/ UNCHANGED <<procs, requested, sup>>
       \/ /\ LeasePublished(s) /\ s \in leased \cup intent'
          /\ SupAlive(s) \/ VerifiedTerminal(s) \/ terminal[s] = "unverified" \/ ~OwnedAlive(procs[s])
          /\ requested' = IF cu.pc = "term" THEN requested \cup {s} ELSE requested
          /\ \E p \in Signals(s) : Put(s, p)
          /\ sup' \in (IF SupAlive(s) THEN {[sup EXCEPT ![s] = IF @ = "done" THEN "gone" ELSE "killed"]} ELSE {sup})
                       \cup IF cu.pc = "term" THEN {sup} ELSE {}
    /\ UNCHANGED <<session, fgVars, bgVars, start, rel, ran, terminal, snHost, lease, probe>>

(* a phase ends when everyone acted, or at its quarter of the budget       *)
NextPhase ==
    /\ cu.pc \in {"term", "kill"}
    /\ cu' = [cu EXCEPT !.pc = IF @ = "term" THEN "kill" ELSE "census", !.left = cu.parts]
    /\ UNCHANGED <<session, procs, fgVars, bgVars, snVars, lease, probe>>

NoneAlive(o) ==
    CASE o \in Commands -> ~OwnedAlive(procs[o])
      [] o \in Tasks -> IdentityAlive(o) = "absent"
      [] OTHER -> ~OwnedAlive(procs[o]) /\ ~SupAlive(o)

(* Mutant: nothing seen is taken for nothing there.                        *)
ProvenZeroUnreached(o) == NoneAlive(o)

(* cleanup-census and snapshot-cleanup-census                              *)
ProvenZero(o) == Reachable(o) /\ NoneAlive(o)

CensusParticipant(o) ==
    /\ cu.pc = "census" /\ o \in cu.left
    /\ cu' \in {[cu EXCEPT !.left = @ \ {o}]}
               \cup IF ProvenZero(o) THEN {[cu EXCEPT !.left = @ \ {o}, !.zero = @ \cup {o}]} ELSE {}
    /\ UNCHANGED <<session, procs, fgVars, bgVars, snVars, lease, probe>>

Closed(answer) ==
    /\ cu' = [CuResting EXCEPT !.answer = answer]
    /\ lease' = IF cu.closing THEN [lease EXCEPT !.outcome = answer] ELSE lease

(* the participants proven zero are released, and only those               *)
FinishCleanup ==
    /\ cu.pc = "census" /\ cu.left = {}
    /\ Closed(IF cu.zero = cu.parts THEN "clean" ELSE "unclean")
    /\ active' = active \ cu.zero
    /\ reg' = reg \ cu.zero
    /\ snaps' = snaps \ cu.zero /\ leased' = leased \ cu.zero
    /\ task' = [t \in Tasks |-> IF t \in cu.zero THEN [task[t] EXCEPT !.spooled = TRUE] ELSE task[t]]
    /\ spool' \in SpoolsAfter(Cardinality({t \in cu.zero \cap Tasks : ~task[t].spooled}))
    /\ UNCHANGED <<session, procs, run, watch, fg, out, stage, remoteVars, bg, told, snRemote, sn, snOut, probe>>

CleanupExpires ==
    /\ cu.pc = "census" /\ cu.left # {}
    /\ Closed("unclean")
    /\ UNCHANGED <<session, procs, fgVars, bgVars, snVars, probe>>

(***************************************************************************)
(* The lease of the running tasks, and the readiness behind a cleanup.     *)
(***************************************************************************)
SealLease ==
    /\ Swept("manifest")
    /\ \/ /\ active = {} /\ \A t \in Live : task[t].fresh /\ task[t].bound
          /\ lease' = [lease EXCEPT !.sealed = TRUE, !.tasks = Live]
          /\ \E kept \in SUBSET reg : Pruned(kept) /\ reg' = kept
       \/ UNCHANGED <<lease, reg>>
    /\ bg' = BgResting
    /\ UNCHANGED <<session, procs, fgVars, remoteVars, task, told, spool, snVars, cu, probe>>

AskReady ==
    /\ probe = "none" /\ Over /\ cu.pc = "idle" /\ sn.pc = "idle" /\ Participants = {}
    /\ probe' = "asked" /\ reg' = reg \ Terminal
    /\ UNCHANGED <<session, procs, fgVars, remoteVars, task, bg, told, spool, snVars, cu, lease>>

ClaimReady ==
    /\ probe = "asked" /\ Participants = {}
    /\ probe' = "ready"
    /\ UNCHANGED <<session, procs, fgVars, bgVars, snVars, cu, lease>>

Cleanup ==
    \/ (\E o \in Owned : SignalParticipant(o) \/ CensusParticipant(o))
    \/ (\E s \in Snapshots : SignalSnapshot(s))
    \/ NextPhase \/ FinishCleanup \/ CleanupExpires

Next ==
    \/ \E c \in Commands, signed \in BOOLEAN : ExecuteCommand(c, signed)
    \/ \E t \in Tasks : ExecuteStart(t)
    \/ \E todo \in SUBSET Tasks : ExecuteOutput(todo)
    \/ \E t \in Tasks : ExecuteKill(t)
    \/ RequestManifest
    \/ \E s \in Snapshots : ExecSnapshot(s)
    \/ ForegroundStep
    \/ BackgroundStep
    \/ SnapshotStep
    \/ \E c \in Commands : RemoteRun(c)
    \/ \E t \in Tasks : RemoteMonitor(t)
    \/ \E s \in Snapshots : RemoteSnapshot(s)
    \/ \E closing \in BOOLEAN : BeginCleanup(closing)
    \/ Cleanup
    \/ SealLease
    \/ AskReady
    \/ ClaimReady

(* the event loop runs every coroutine that can go on, and its timers; the *)
(* scripts are fair, the processes they watch are not                      *)
Fairness ==
    /\ WF_vars(HostStep /\ UNCHANGED fgRest)
    /\ WF_vars(BackgroundHost /\ UNCHANGED bgRest)
    /\ WF_vars(SnapshotStep)
    /\ WF_vars(SealLease)
    /\ WF_vars(Cleanup)
    /\ \A c \in Commands : WF_vars(RunScript(c) /\ UNCHANGED fgRest)

Spec == Init /\ [][Next]_vars /\ Fairness

(***************************************************************************)
(* Properties.                                                             *)
(***************************************************************************)
(* What the actor can trace: of a command and of a snapshot the whole      *)
(* group and every process with the token, of a background task only the   *)
(* processes with the token.                                               *)
Traced(o) == IF o \in Tasks THEN TokensOf(procs[o]) ELSE procs[o]

(* docs/ARCHITECTURE.md:51: foreground and background processes remain     *)
(* owned until they terminate.  A live process that the actor can trace    *)
(* belongs to a request that _active, _background or _active_snapshots     *)
(* still holds, whatever was lost, cancelled or cleaned up in between.     *)
OwnedUntilGone == \A o \in Owned : Traced(o) # {} => o \in active \cup reg \cup snaps

(* The same of every process in the group does not hold: a background      *)
(* task may leave a child without the token in its group, which outlives   *)
(* the task's leader, its final status, kill and cleanup (README).         *)
EveryProcessOwned == \A o \in Owned : procs[o] # {} => o \in active \cup reg \cup snaps

(* A census the caller is told of is true and stays true: verified results *)
(* of a command, census_verified of a task (which counts traced processes  *)
(* only), and a cleanup or a closed lease that reports clean.              *)
CensusIsTrue ==
    /\ \A c \in Commands : out[c].census = "yes" => procs[c] = {}
    /\ \A t \in reg : task[t].census => Traced(t) = {}
    /\ \A s \in Snapshots : snOut[s] \in {"result", "failed"} => procs[s] = {}
    /\ lease.outcome = "clean" => \A t \in lease.tasks : Traced(t) = {}

(* workspace_readiness_v1 claims zero owned processes only when there are  *)
(* none that can be traced, in any request of the session, even if a       *)
(* cancelled call was still containing its command when the cleanup ran.   *)
ReadyMeansNone == probe = "ready" => \A o \in Owned : Traced(o) = {}

(* A process that took over the pid of an ended leader is never signalled. *)
StrangersSpared == ~foreign

(* max_background_processes bounds the tasks with traced live processes,   *)
(* not only the ones the host takes for running.                           *)
BackgroundBounded == Cardinality({t \in Tasks : Traced(t) # {}}) <= MaxBackground

(* The spool reservation covers every acknowledged task that has not given *)
(* it back, and never exceeds the budget of the run.                       *)
SpoolAccounted ==
    ~bg.fatal /\ bg.op # "salvage" =>
        /\ spool <= SpoolPerRun
        /\ Cardinality({t \in reg : task[t].bound /\ ~task[t].spooled}) <= spool

(* The books of the actor as ProcessOwnership sees them: the owners whose  *)
(* request was not admitted, in a session that still may admit it, and the *)
(* ones somebody was told are empty.                                       *)
Untouched ==
    {c \in Commands : out[c].kind = "none" /\ ~(fg.pc # "idle" /\ fg.cmd = c)}
        \cup {t \in Tasks : told[t] = "none" /\ mon[t] = "none" /\ t \notin reg /\ ~bg.fatal}
        \cup {s \in Snapshots : snOut[s] = "none" /\ s \notin snaps}

ToldEmpty ==
    {c \in Commands : out[c].census = "yes"}
        \cup {t \in Tasks : task[t].census \/ (lease.outcome = "clean" /\ t \in lease.tasks)}
        \cup {s \in Snapshots : snOut[s] \in {"result", "failed"}}

Ownership == INSTANCE ProcessOwnership WITH
    Owners <- Owned,
    fresh <- Untouched,
    held <- active \cup reg \cup snaps,
    live <- {o \in Owned : Traced(o) # {}},
    vouched <- ToldEmpty,
    ready <- probe = "ready"

(* What the actor does to the processes it starts is what ProcessOwnership *)
(* allows: a request is admitted once, an owner is struck off _active,     *)
(* _background or _active_snapshots only when no process of it can be      *)
(* traced, and whoever was refused, given up or reported empty never has a *)
(* traced process again, in any later state of the session.                *)
OwnsProcesses == Ownership!Spec

(* Every foreground call, background call and cleanup returns, even if the *)
(* transport stays silent and the command ignores every signal.            *)
CallsReturn == []<>(fg.pc = "idle") /\ []<>(bg.pc = "idle") /\ []<>(sn.pc = "idle") /\ []<>(cu.pc = "idle")
=============================================================================
