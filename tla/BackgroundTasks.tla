-------------------------- MODULE BackgroundTasks ---------------------------
(***************************************************************************)
(* Background tasks of the terminal actor: the host side (_start_background *)
(* and its recovery, status, output, kill, manifest), the script's modes    *)
(* start, background-monitor, kill-background and confirm-background, and   *)
(* the processes a task owns: leader, daemons with its token, monitor.  A   *)
(* child that lost the token stays in the leader's group, where only the    *)
(* signals for that group still find it; no scan of the script asks for it. *)
(*                                                                          *)
(* Every call over the transport may be lost, with or without its effect; a *)
(* cutoff that has passed is one of the ways a call fails.  The host serves *)
(* one request at a time; bg is the coroutine that serves it.               *)
(***************************************************************************)
EXTENDS OwnedProcesses, Integers

CONSTANTS
    Tasks,            \* task ids
    MaxBackground,    \* request.max_background_processes
    SpoolPerRun,      \* process_spool_bytes_per_run, in spools of one process
    MaxTombstones,    \* _MAX_BACKGROUND_TOMBSTONES
    Troubled          \* bound: the tasks that may fork, time out or have their pid reused

ASSUME TasksAssumption == IsFiniteSet(Tasks) /\ MaxBackground \in Nat

ASSUME SpoolAssumption == SpoolPerRun \in Nat

VARIABLES
    starter,          \* the script in mode start: waiting, acked or gaveUp
    mon,              \* progress of background-monitor, per task
    expired,          \* signals the monitor sent at the runtime timeout
    status,           \* status.json
    killed,           \* the explicit_kill marker exists
    reused,           \* the pid of the ended leader belongs to a stranger
    foreign,          \* a stranger's process was signalled
    reg,              \* RemoteTerminalActor._background
    task,             \* BackgroundTask, per task id
    bg,               \* the coroutine: step, operation, its task, the task it is at, tasks to visit
    told,             \* what the caller was told of the task
    spool             \* _background_spool_reserved

remoteVars == <<starter, mon, expired, status, killed, reused, foreign>>
hostVars == <<reg, task, bg, told, spool>>
bgVars == <<starter, mon, expired, status, killed, reused, foreign, reg, task, bg, told, spool>>

BgResting == [pc |-> "idle", op |-> "none", tgt |-> "none", at |-> "none", todo |-> {}, fatal |-> FALSE]
NewTask == [state |-> "running", exited |-> FALSE, census |-> FALSE, bound |-> FALSE, fresh |-> TRUE, spooled |-> FALSE]

InitBackground ==
    /\ starter = [t \in Tasks |-> "none"]
    /\ mon = [t \in Tasks |-> "none"]
    /\ expired = [t \in Tasks |-> 0]
    /\ status = [t \in Tasks |-> "none"]
    /\ killed = [t \in Tasks |-> FALSE]
    /\ reused = [t \in Tasks |-> FALSE]
    /\ foreign = FALSE
    /\ reg = {}
    /\ task = [t \in Tasks |-> NewTask]
    /\ bg = BgResting
    /\ told = [t \in Tasks |-> "none"]
    /\ spool = 0

(***************************************************************************)
(* The monitor.                                                            *)
(***************************************************************************)
Published(t) == mon[t] \in {"ready", "exited", "final"}

Others(t) == procs[t] \ {"monitor"}

Put(t, p) == procs' = [procs EXCEPT ![t] = p]

MonStep(t, from, to) == mon[t] = from /\ "monitor" \in procs[t] /\ mon' = [mon EXCEPT ![t] = to]

(* start spawns the monitor, which records itself                          *)
MonitorUp(t) ==
    /\ mon[t] = "queued" /\ mon' = [mon EXCEPT ![t] = "up"]
    /\ Put(t, {"monitor"})
    /\ UNCHANGED <<starter, expired, status, killed, reused, foreign>>

(* the leader is forked behind the closed launch gate                      *)
MonitorFork(t) ==
    /\ MonStep(t, "up", "gated")
    /\ Put(t, procs[t] \cup {"leader"})
    /\ UNCHANGED <<starter, expired, status, killed, reused, foreign>>

(* identity files, then status.json, then the gate opens                   *)
MonitorPublish(t) ==
    /\ MonStep(t, "gated", "ready") /\ "leader" \in procs[t]
    /\ status' = [status EXCEPT ![t] = "running"]
    /\ UNCHANGED <<procs, starter, expired, killed, reused, foreign>>

(* an early exit of the monitor leaves a gated leader behind               *)
MonitorFail(t) ==
    /\ \/ MonStep(t, "up", "gone")
       \/ MonStep(t, "gated", "gone")
    /\ Put(t, Others(t))
    /\ UNCHANGED <<starter, expired, status, killed, reused, foreign>>

MonitorExpire(t) ==
    /\ t \in Troubled /\ MonStep(t, "ready", "ready") /\ expired[t] < 2 /\ Others(t) # {}
    /\ expired' = [expired EXCEPT ![t] = @ + 1]
    /\ \E p \in IF expired[t] = 0 THEN AfterTerm(procs[t], Others(t)) ELSE AfterKill(procs[t], Others(t)) :
            Put(t, p)
    /\ UNCHANGED <<starter, status, killed, reused, foreign>>

(* wait returned: leader_exited                                            *)
MonitorReap(t) ==
    /\ MonStep(t, "ready", "exited") /\ "leader" \notin procs[t] /\ (expired[t] = 1 => Others(t) = {})
    /\ UNCHANGED <<procs, starter, expired, status, killed, reused, foreign>>

(* descendants with the token keep the task running                        *)
MonitorLeaderExit(t) ==
    /\ MonStep(t, "exited", "exited") /\ TokensOf(Others(t)) # {} /\ ~reused[t]
    /\ status' = [status EXCEPT ![t] = "leaderExited"]
    /\ UNCHANGED <<procs, starter, expired, killed, reused, foreign>>

FinalState(t) == IF killed[t] THEN {"cancelled"} ELSE IF expired[t] > 0 THEN {"failed"} ELSE {"completed", "failed"}

(* the final status is written once nothing of the task is seen any more,  *)
(* while a child without the token may live on                             *)
MonitorFinal(t) ==
    /\ MonStep(t, "exited", "final") /\ TokensOf(Others(t)) = {} /\ ~reused[t]
    /\ \E s \in FinalState(t) : status' = [status EXCEPT ![t] = s]
    /\ Put(t, Others(t))
    /\ UNCHANGED <<starter, expired, killed, reused, foreign>>

MonitorMismatch(t) ==
    /\ MonStep(t, "exited", "exited") /\ reused[t]
    /\ Put(t, Others(t))
    /\ UNCHANGED <<starter, expired, status, killed, reused, foreign>>

(* start answers once everything is published, or kills what there is      *)
StartAck(t) ==
    /\ starter[t] = "waiting" /\ Published(t)
    /\ starter' = [starter EXCEPT ![t] = "acked"]
    /\ UNCHANGED <<procs, mon, expired, status, killed, reused, foreign>>

StartGivesUp(t) ==
    /\ starter[t] = "waiting" /\ mon[t] # "queued"
    /\ starter' = [starter EXCEPT ![t] = "gaveUp"]
    /\ mon' = [mon EXCEPT ![t] = IF Published(t) THEN @ ELSE "gone"]
    /\ \E p \in AfterKill(procs[t], Members) : Put(t, p)
    /\ UNCHANGED <<expired, status, killed, reused, foreign>>

(* the command's processes; a gated leader only waits                      *)
BehaveBackground(t) ==
    /\ Published(t)
    /\ \E p \in Behaviours(procs[t]) : Put(t, p) /\ (t \in Troubled \/ p \subseteq procs[t])
    /\ UNCHANGED <<starter, mon, expired, status, killed, reused, foreign>>

(* once the monitor has waited for the leader, or is gone, and the group   *)
(* of that number is empty, the pid is free                                *)
ReusePid(t) ==
    /\ t \in Troubled /\ Published(t) /\ ~GroupAlive(procs[t]) /\ ~reused[t]
    /\ mon[t] \in {"exited", "final"} \/ "monitor" \notin procs[t]
    /\ reused' = [reused EXCEPT ![t] = TRUE]
    /\ UNCHANGED <<procs, starter, mon, expired, status, killed, foreign>>

Monitor(t) ==
    \/ MonitorUp(t) \/ MonitorFork(t) \/ MonitorPublish(t) \/ MonitorFail(t) \/ MonitorExpire(t)
    \/ StartAck(t) \/ StartGivesUp(t) \/ MonitorReap(t) \/ MonitorLeaderExit(t) \/ MonitorFinal(t) \/ MonitorMismatch(t)

(***************************************************************************)
(* What the script answers about a task's identity, and its signals.       *)
(***************************************************************************)
(* background_identity_alive: "mismatch" while a stranger has the pid;     *)
(* otherwise leader, monitor and the token are looked for, and not the group *)
IdentityAlive(t) ==
    IF reused[t] THEN "mismatch" ELSE IF OwnerAlive(procs[t]) THEN "alive" ELSE "absent"

(* background_signal_identity: the group only if the leader is still the   *)
(* leader, then every process with the token                               *)
(* Mutant: the group of a reused leader pid is signalled as well.          *)
GroupSignalBlind(t) == "leader" \in procs[t] \/ reused[t]

GroupSignal(t) == "leader" \in procs[t]

SignalHits(t) == TokensOf(procs[t]) \cup IF GroupSignal(t) THEN GroupOf(procs[t]) ELSE {}

SignalIdentity(t, outcomes) ==
    /\ \E p \in outcomes : Put(t, p)
    /\ foreign' = (foreign \/ (GroupSignal(t) /\ reused[t]))

(***************************************************************************)
(* The host.                                                               *)
(***************************************************************************)
MaxOf(a, b) == IF a >= b THEN a ELSE b

(* Mutant: a reservation that was given back is given back again.          *)
SpoolTwice(t, used) == MaxOf(0, spool - 1) + used

(* _finalize_background_spool, with used bytes at most the cap             *)
SpoolAfter(t, used) == IF task[t].spooled THEN spool ELSE MaxOf(0, spool - 1) + used

(* the values it can leave when n tasks that had not given back do so, one *)
(* after the other and each with its own used bytes                        *)
SpoolsAfter(n) == IF n = 0 THEN {spool} ELSE MaxOf(0, spool - n) .. MaxOf(1, spool)

Update(t, rec) == task' = [task EXCEPT ![t] = rec]

Conclude(t, rec) ==
    /\ Update(t, [rec EXCEPT !.spooled = TRUE])
    /\ \E used \in 0..1 : spool' = SpoolAfter(t, used)

(* _refresh_background_remote; its status may be older than the processes  *)
Seen(t) ==
    [task[t] EXCEPT !.state = IF status[t] = "leaderExited" THEN "running" ELSE status[t],
                    !.exited = status[t] # "running", !.census = FALSE, !.fresh = TRUE]

Refreshed(t) ==
    IF task[t].state # "running" THEN {task[t]}
    ELSE {[task[t] EXCEPT !.fresh = FALSE]} \cup IF status[t] = "none" THEN {} ELSE {Seen(t)}

Store(t, rec) ==
    IF rec.state # "running" THEN Conclude(t, rec) ELSE Update(t, rec) /\ UNCHANGED spool

NeedsCensus(rec) == (rec.state # "running" \/ rec.exited) /\ ~rec.census

(* where the coroutine goes on once the task it visits is done             *)
Resume ==
    IF bg.op = "kill" THEN [bg EXCEPT !.pc = "decide"]
    ELSE IF bg.at \in bg.todo THEN [bg EXCEPT !.pc = "sweep", !.todo = @ \ {bg.at}]
    ELSE [bg EXCEPT !.pc = "settle"]

Goes(next) == bg' = [bg EXCEPT !.pc = next]

Answer(t, what) == told' = [told EXCEPT ![t] = what] /\ bg' = BgResting

(* a ToolFatalError: the bridge serves no further request                  *)
Fatal == bg' = [BgResting EXCEPT !.fatal = TRUE]

Begin(op, t, todo) ==
    /\ bg = BgResting
    /\ bg' = [BgResting EXCEPT !.pc = "sweep", !.op = op, !.tgt = t, !.todo = todo]
    /\ UNCHANGED <<procs, remoteVars, reg, task, told, spool>>

StartBackground(t) == told[t] = "none" /\ Begin("start", t, reg)

TerminalOutput(todo) == todo # {} /\ todo \subseteq reg /\ Begin("output", "none", todo)

BackgroundManifest == Begin("manifest", "none", reg)

KillCommand(t) == t \in reg /\ Begin("kill", t, {t})

(* _refresh_all_background, and the same visit for output and kill         *)
Visit(t) ==
    /\ bg.pc = "sweep" /\ t \in bg.todo /\ t \in reg
    /\ \E rec \in IF task[t].exited THEN {task[t]} ELSE Refreshed(t) :
         /\ Store(t, rec)
         /\ bg' = IF NeedsCensus(rec) THEN [bg EXCEPT !.pc = "verify", !.at = t]
                  ELSE IF bg.op = "kill" THEN [bg EXCEPT !.pc = "decide", !.at = t]
                  ELSE [bg EXCEPT !.todo = @ \ {t}]
    /\ UNCHANGED <<procs, remoteVars, reg, told>>

(***************************************************************************)
(* _verify_background_terminal_census of the task at.                      *)
(***************************************************************************)
(* background-liveness: a mismatch or a lost call is no answer             *)
LivenessAnswers(t) == {"none"} \cup ({IdentityAlive(t)} \cap {"alive", "absent"})

(* a task that still counts as running: ask whether its owner set is alive *)
VerifyLiveness ==
    /\ bg.pc = "verify" /\ task[bg.at].state = "running"
    /\ \E a \in LivenessAnswers(bg.at) :
         CASE a = "alive" -> bg' = Resume /\ Update(bg.at, [task[bg.at] EXCEPT !.census = FALSE])
           [] a = "none" -> bg' = Resume /\ Update(bg.at, [task[bg.at] EXCEPT !.fresh = FALSE])
           [] OTHER -> Goes("confirm") /\ UNCHANGED task
    /\ UNCHANGED <<procs, remoteVars, reg, told, spool>>

VerifyEnded ==
    /\ bg.pc = "verify" /\ task[bg.at].state # "running"
    /\ Goes("confirm")
    /\ UNCHANGED <<procs, remoteVars, reg, task, told, spool>>

Ended(rec) == [rec EXCEPT !.census = TRUE, !.state = IF @ = "running" THEN "failed" ELSE @]

(* confirm-background: several scans in a row without a process            *)
ConfirmStopped ==
    /\ bg.pc = "confirm" /\ IdentityAlive(bg.at) = "absent"
    /\ bg' = Resume /\ Conclude(bg.at, Ended(task[bg.at]))
    /\ UNCHANGED <<procs, remoteVars, reg, told>>

ConfirmFailed ==
    /\ bg.pc = "confirm" /\ Goes("kill")
    /\ UNCHANGED <<procs, remoteVars, reg, task, told, spool>>

(***************************************************************************)
(* _terminate_background_remote: kill-background for the task at.          *)
(***************************************************************************)
TerminateTerm ==
    /\ bg.pc = "kill" /\ IdentityAlive(bg.at) = "alive"
    /\ killed' = [killed EXCEPT ![bg.at] = TRUE]
    /\ SignalIdentity(bg.at, AfterTerm(procs[bg.at], SignalHits(bg.at)))
    /\ Goes("killAgain")
    /\ UNCHANGED <<starter, mon, expired, status, reused, reg, task, told, spool>>

TerminateNone ==
    /\ bg.pc = "kill" /\ IdentityAlive(bg.at) = "absent"
    /\ killed' = [killed EXCEPT ![bg.at] = TRUE]
    /\ Goes("noneLeft")
    /\ UNCHANGED <<procs, starter, mon, expired, status, reused, foreign, reg, task, told, spool>>

TerminateKill ==
    /\ bg.pc = "killAgain" /\ IdentityAlive(bg.at) # "mismatch"
    /\ SignalIdentity(bg.at, AfterKill(procs[bg.at], SignalHits(bg.at)))
    /\ Goes("killed")
    /\ UNCHANGED <<starter, mon, expired, status, killed, reused, reg, task, told, spool>>

(* the state a verified task is given: cancelled if it was signalled or    *)
(* killed on request, else what its last status says                       *)
EndStates(t) ==
    IF bg.pc = "killed" \/ bg.op = "stop" THEN {"cancelled"}
    ELSE IF task[t].state # "running" THEN {task[t].state}
    ELSE {"cancelled"} \cup ({status[t]} \cap {"completed", "failed"})

Terminated ==
    /\ bg.pc \in {"killed", "noneLeft"} /\ IdentityAlive(bg.at) = "absent"
    /\ IF bg.op = "salvage"
          THEN reg' = reg \ {bg.at} /\ Fatal /\ UNCHANGED <<task, spool>>
          ELSE /\ \E s \in EndStates(bg.at) :
                    Conclude(bg.at, [task[bg.at] EXCEPT !.census = TRUE, !.state = s, !.fresh = TRUE])
               /\ bg' = IF bg.op = "stop" THEN BgResting ELSE Resume
               /\ UNCHANGED reg
    /\ UNCHANGED <<procs, remoteVars, told>>

(* Mutant: a survivor is not reported, the caller goes on waiting.         *)
SurvivorAwaited ==
    /\ bg.pc \in {"kill", "killAgain", "killed", "noneLeft"} /\ IdentityAlive(bg.at) # "alive" /\ Fatal
    /\ UNCHANGED <<procs, remoteVars, reg, task, told, spool>>

(* a survivor, a stranger's pid or a lost answer: the task stays owned     *)
NotTerminated ==
    /\ bg.pc \in {"kill", "killAgain", "killed", "noneLeft"} /\ Fatal
    /\ UNCHANGED <<procs, remoteVars, reg, task, told, spool>>

(* _kill_terminal_command behind the verification                          *)
Decide ==
    /\ bg.pc = "decide"
    /\ bg' = IF task[bg.at].state # "running" THEN BgResting ELSE [bg EXCEPT !.pc = "kill", !.op = "stop"]
    /\ UNCHANGED <<procs, remoteVars, reg, task, told, spool>>

(***************************************************************************)
(* _start_background.                                                      *)
(***************************************************************************)
Terminal == {t \in reg : task[t].state # "running" /\ task[t].census}

(* _prune_background                                                       *)
Pruned(kept) ==
    /\ reg \ Terminal \subseteq kept /\ kept \subseteq reg
    /\ IF Cardinality(Terminal) > MaxTombstones
          THEN Cardinality(kept \cap Terminal) = MaxTombstones
          ELSE kept = reg

(* Mutant: a task whose last status was not heard is not counted.          *)
LiveFresh == {t \in reg : task[t].state = "running" /\ task[t].fresh}

Live == {t \in reg : task[t].state = "running"}

Room == Cardinality(Live) < MaxBackground /\ spool + 1 <= SpoolPerRun

Swept(op) == bg.pc = "sweep" /\ bg.todo = {} /\ bg.op = op

RefuseStart ==
    /\ Swept("start") /\ ~Room
    /\ \E kept \in SUBSET reg : Pruned(kept) /\ reg' = kept
    /\ Answer(bg.tgt, "refused")
    /\ UNCHANGED <<procs, remoteVars, task, spool>>

RegisterTask ==
    /\ Swept("start") /\ Room
    /\ \E kept \in SUBSET reg : Pruned(kept) /\ reg' = kept \cup {bg.tgt}
    /\ bg' = [bg EXCEPT !.pc = "setup", !.at = bg.tgt]
    /\ UNCHANGED <<procs, remoteVars, task, told, spool>>

(* a launch that never left the host: the task is dropped                  *)
LaunchRefused ==
    /\ bg.pc \in {"setup", "upload", "dispatch"}
    /\ reg' = reg \ {bg.at}
    /\ \/ Answer(bg.at, "refused")
       \/ bg.pc # "dispatch" /\ Fatal /\ UNCHANGED told
    /\ UNCHANGED <<procs, remoteVars, task, spool>>

LaunchStep ==
    /\ \/ bg.pc = "setup" /\ Goes("upload")
       \/ bg.pc = "upload" /\ Goes("dispatch")
    /\ UNCHANGED <<procs, remoteVars, reg, task, told, spool>>

LaunchDispatch ==
    /\ bg.pc = "dispatch" /\ Goes("await")
    /\ mon' = [mon EXCEPT ![bg.at] = "queued"]
    /\ starter' = [starter EXCEPT ![bg.at] = "waiting"]
    /\ UNCHANGED <<procs, expired, status, killed, reused, foreign, reg, task, told, spool>>

(* the acknowledgement binds the identities and reserves the spool         *)
LaunchAck ==
    /\ bg.pc = "await" /\ starter[bg.at] = "acked" /\ Goes("first")
    /\ Update(bg.at, [task[bg.at] EXCEPT !.bound = TRUE])
    /\ spool' = spool + 1
    /\ UNCHANGED <<procs, remoteVars, reg, told>>

LaunchLost ==
    /\ bg.pc = "await" /\ Goes("salvage")
    /\ UNCHANGED <<procs, remoteVars, reg, task, told, spool>>

(* the first status probe; its loss does not undo the acknowledgement      *)
FirstStatus ==
    /\ bg.pc = "first"
    /\ \E rec \in Refreshed(bg.at) : Store(bg.at, rec) /\ Goes(IF NeedsCensus(rec) THEN "verify" ELSE "settle")
    /\ UNCHANGED <<procs, remoteVars, reg, told>>

(* the handoff: a retained handle, or a quick exit without one             *)
HandOff ==
    /\ bg.pc = "settle"
    /\ \/ task[bg.at].state = "running" /\ Answer(bg.at, "retained") /\ UNCHANGED reg
       \/ task[bg.at].state \in {"completed", "failed"} /\ Answer(bg.at, "quickExit") /\ reg' = reg \ {bg.at}
       \/ task[bg.at].state \in {"failed", "cancelled"} /\ Fatal /\ UNCHANGED told /\ reg' = reg \ {bg.at}
    /\ UNCHANGED <<procs, remoteVars, task, spool>>

(***************************************************************************)
(* _cleanup_failed_background_launch: a dispatched start without an answer. *)
(***************************************************************************)
SalvageEnded ==
    /\ bg.pc = "salvage" /\ Published(bg.at) /\ status[bg.at] \in {"completed", "failed", "cancelled"}
    /\ IdentityAlive(bg.at) = "absent"
    /\ reg' = reg \ {bg.at} /\ Fatal
    /\ UNCHANGED <<procs, remoteVars, task, told, spool>>

Salvage ==
    /\ bg.pc = "salvage" /\ Published(bg.at)
    /\ bg' = [bg EXCEPT !.pc = "kill", !.op = "salvage"]
    /\ Update(bg.at, [task[bg.at] EXCEPT !.bound = TRUE])
    /\ UNCHANGED <<procs, remoteVars, reg, told, spool>>

(* Mutant: missing control files are taken for a proof that nothing runs.  *)
SalvageUnknownReleased ==
    /\ bg.pc = "salvage" /\ Fatal /\ reg' = IF Published(bg.at) THEN reg ELSE reg \ {bg.at}
    /\ UNCHANGED <<procs, remoteVars, task, told, spool>>

(* missing control files do not prove that nothing runs                    *)
SalvageUnknown ==
    /\ bg.pc = "salvage" /\ Fatal
    /\ UNCHANGED <<procs, remoteVars, reg, task, told, spool>>

(* the caller cancels: a start that may have been dispatched is salvaged,  *)
(* an acknowledged one terminated, any other operation just ends           *)
CancelBackground ==
    /\ bg.pc \in {"sweep", "verify", "setup", "upload", "first"}
    /\ bg' = CASE bg.pc \in {"setup", "upload"} -> [bg EXCEPT !.pc = "salvage"]
               [] bg.pc = "first" -> [bg EXCEPT !.pc = "kill", !.op = "salvage"]
               [] OTHER -> [BgResting EXCEPT !.fatal = TRUE]
    /\ UNCHANGED <<procs, remoteVars, reg, task, told, spool>>

OutputDone ==
    /\ Swept("output")
    /\ \E kept \in SUBSET reg : Pruned(kept) /\ reg' = kept
    /\ bg' = BgResting
    /\ UNCHANGED <<procs, remoteVars, task, told, spool>>

BackgroundHost ==
    \/ (\E t \in Tasks : Visit(t))
    \/ VerifyLiveness \/ VerifyEnded \/ ConfirmStopped \/ ConfirmFailed
    \/ TerminateTerm \/ TerminateNone \/ TerminateKill \/ Terminated \/ NotTerminated \/ Decide
    \/ RefuseStart \/ RegisterTask \/ LaunchRefused \/ LaunchStep \/ LaunchDispatch
    \/ LaunchAck \/ LaunchLost \/ FirstStatus \/ HandOff
    \/ SalvageEnded \/ Salvage \/ SalvageUnknown \/ OutputDone
=============================================================================
