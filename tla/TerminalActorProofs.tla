------------------------ MODULE TerminalActorProofs -------------------------
(***************************************************************************)
(* Proofs about the terminal actor, for every set of commands, tasks and   *)
(* snapshots and every length of a session.                                *)
(*                                                                         *)
(* Three owners share the map procs and never each other's entry.  Each    *)
(* has its own inductive invariant, which says of every owned set either   *)
(* that the host still holds it, or that it is empty and that nothing can  *)
(* fill it again: a run that was never dispatched or has published its     *)
(* pgid, a monitor that has published its identity, a supervisor that has  *)
(* published its lease.  Of a task this is said of the processes with its  *)
(* token: a child without it is not looked for, and cannot pass one on.    *)
(* CleanupInv and ReadyInv relate the three.                               *)
(* SpoolInv follows the spool reservation, and OnceInv is what the         *)
(* refinement of ProcessOwnership needs beside them.                       *)
(***************************************************************************)
EXTENDS TerminalActor, FiniteSetTheorems, TLAPS

(***************************************************************************)
(* Types.                                                                  *)
(***************************************************************************)
RunSteps == {"none", "queued", "lost", "refused", "forked", "running", "reaping", "confirming", "settled", "unverified"}

FgSteps == {"idle", "setup", "upload", "dispatch", "wait", "download", "recover"} \cup CleanupSteps

FgType == [pc : FgSteps, cmd : Commands \cup {"none"}, signed : BOOLEAN, cancelled : BOOLEAN,
           started : BOOLEAN, signalled : BOOLEAN]

OutType == [kind : {"none", "result", "failed", "cancelled"}, started : BOOLEAN,
            cleanup : {"yes", "no", Unknown}, census : {"yes", "no", Unknown}]

ProcTypes == procs \in [Owned -> SUBSET Members]

FgTypes ==
    /\ run \in [Commands -> RunSteps]
    /\ active \in SUBSET Commands
    /\ fg \in FgType
    /\ out \in [Commands -> OutType]

MonSteps == {"none", "queued", "up", "gated", "ready", "exited", "final", "gone"}

(* the steps that act on the task at                                       *)
Verifying == {"verify", "confirm", "kill", "killAgain", "killed", "noneLeft"}

AtSteps == {"setup", "upload", "dispatch", "await", "first", "settle", "decide", "salvage"} \cup Verifying

BgType == [pc : {"idle", "sweep"} \cup AtSteps,
           op : {"none", "start", "output", "kill", "stop", "manifest", "salvage"},
           tgt : Tasks \cup {"none"}, at : Tasks \cup {"none"}, todo : SUBSET Tasks, fatal : BOOLEAN]

TaskType == [state : {"none", "running", "leaderExited", "completed", "failed", "cancelled"}, exited : BOOLEAN,
             census : BOOLEAN, bound : BOOLEAN, fresh : BOOLEAN, spooled : BOOLEAN]

BgTypes ==
    /\ mon \in [Tasks -> MonSteps]
    /\ starter \in [Tasks -> {"none", "waiting", "acked", "gaveUp"}]
    /\ status \in [Tasks -> {"none", "running", "leaderExited", "completed", "failed", "cancelled"}]
    /\ killed \in [Tasks -> BOOLEAN]
    /\ reused \in [Tasks -> BOOLEAN] /\ foreign \in BOOLEAN
    /\ reg \in SUBSET Tasks
    /\ task \in [Tasks -> TaskType]
    /\ bg \in BgType
    /\ told \in [Tasks -> {"none", "refused", "retained", "quickExit"}]

SupSteps == {"none", "up", "forked", "watching", "term", "kill", "confirm", "done", "gone", "killed", "lost"}

SnType == [pc : {"idle", "setup", "upload", "starting", "release", "releasing", "waiting", "inspect", "inspecting",
                 "cancel", "cancelling"},
           at : Snapshots \cup {"none"}]

SnTypes ==
    /\ start \in [Snapshots -> {"none", "queued", "begun", "gaveUp"}]
    /\ sup \in [Snapshots -> SupSteps]
    /\ terminal \in [Snapshots -> {"none", "cancelling", "timingOut", "exiting", "completed", "failed", "timedOut",
                                   "cancelled", "unverified"}]
    /\ snaps \in SUBSET Snapshots
    /\ sn \in SnType
    /\ snOut \in [Snapshots -> {"none", "result", "failed", "unverified"}]

CuType == [pc : {"idle", "term", "kill", "census"}, parts : SUBSET Owned, left : SUBSET Owned, zero : SUBSET Owned,
           closing : BOOLEAN, answer : {"none", "clean", "unclean"}]

LeaseType == [sealed : BOOLEAN, tasks : SUBSET Tasks, outcome : {"none", "clean", "unclean"}]

RestTypes == cu \in CuType /\ lease \in LeaseType

(***************************************************************************)
(* The foreground.                                                         *)
(***************************************************************************)
(* a run in flight belongs to the coroutine that waits for it              *)
RunInv ==
    /\ fg.pc # "idle" => fg.cmd \in Commands /\ out[fg.cmd].kind = "none"
    /\ fg.cancelled => fg.pc \in CleanupSteps
    /\ fg.pc \in {"setup", "upload", "dispatch"} => run[fg.cmd] = "none"
    /\ fg.pc \in {"setup", "upload", "dispatch", "wait"} => fg.cmd \in active
    /\ fg.pc # "idle" /\ ~fg.cancelled => cu.pc = "idle"
    /\ \A c \in Commands : run[c] \in {"queued", "forked"} => fg.pc = "wait" /\ fg.cmd = c
    /\ \A c \in Commands : run[c] # "none" => out[c].kind # "none" \/ (fg.pc # "idle" /\ fg.cmd = c)

CommandInv ==
    /\ \A c \in Commands : run[c] \in {"none", "queued", "lost", "refused", "settled"} => procs[c] = {}
    /\ \A c \in Commands : procs[c] # {} => c \in active
    /\ \A c \in Commands : c \in cu.zero => procs[c] = {} /\ PgidPublished(c)
    /\ \A c \in Commands : out[c].census = "yes" => procs[c] = {} /\ out[c].kind # "none"

(***************************************************************************)
(* The background.                                                         *)
(***************************************************************************)
(* the coroutine serves a request, rather than salvaging a launch          *)
Busy == bg.pc \notin {"idle", "salvage"} /\ bg.op # "salvage"

(* the start in progress has not registered its task                       *)
Sweeping == bg.op = "start" /\ (bg.pc = "sweep" \/ (bg.pc \in Verifying /\ bg.at \in bg.todo))

(* the start in progress may have dispatched its task                      *)
Launched ==
    \/ bg.pc \in {"await", "first", "salvage", "settle"}
    \/ bg.pc \in Verifying /\ (bg.op = "salvage" \/ (bg.op = "start" /\ bg.at \notin bg.todo))

(* a task is launched once, and the host acts on it only once it is bound  *)
LaunchInv ==
    /\ bg.fatal => bg.pc = "idle"
    /\ bg.pc \in AtSteps => bg.at \in Tasks
    /\ bg.pc \in {"setup", "upload", "dispatch"} => bg.at \in reg /\ mon[bg.at] = "none"
    /\ bg.pc \in {"setup", "upload", "dispatch", "await", "first"} => bg.op = "start" /\ bg.todo = {} /\ bg.at = bg.tgt
    /\ bg.pc \in {"first", "settle", "decide"} \cup Verifying => task[bg.at].bound
    /\ bg.op = "salvage" => bg.pc \in {"kill", "killAgain", "killed", "noneLeft"}
    /\ Sweeping => bg.tgt \in Tasks /\ mon[bg.tgt] = "none"
    /\ \A t \in Tasks : mon[t] # "none" => told[t] # "none" \/ bg.fatal \/ (bg.at = t /\ Launched)
    /\ \A t \in reg : task[t].bound \/ bg.fatal
                          \/ (bg.at = t /\ bg.pc \in {"setup", "upload", "dispatch", "await", "salvage"})
    /\ \A t \in Tasks : starter[t] = "waiting" => mon[t] # "none"
    /\ \A t \in Tasks : starter[t] = "acked" => Published(t)
    /\ \A t \in Tasks : IF task[t].bound THEN Published(t) ELSE task[t].state = "running" /\ ~task[t].census

(* while a request is served nothing else is under way                     *)
ServeInv == Busy => ~Over /\ fg.pc = "idle" /\ sn.pc = "idle" /\ cu.pc = "idle"

TaskInv ==
    /\ \A t \in Tasks : mon[t] \in {"none", "queued"} => TokensOf(procs[t]) = {}
    /\ \A t \in Tasks : mon[t] = "queued" \/ TokensOf(procs[t]) # {} => t \in reg
    /\ \A t \in Tasks : task[t].census => TokensOf(procs[t]) = {} /\ Published(t) /\ task[t].state # "running"
    /\ ~bg.fatal => \A t \in reg : task[t].state # "running" => task[t].census \/ (bg.at = t /\ bg.pc \in Verifying)
    /\ \A t \in Tasks : t \in cu.zero => TokensOf(procs[t]) = {} /\ Published(t)

StrangerInv == ~foreign /\ \A t \in Tasks : reused[t] => "leader" \notin procs[t] /\ Published(t)

BoundInv == Cardinality({t \in reg : ~task[t].census}) <= MaxBackground

(***************************************************************************)
(* Snapshots.                                                              *)
(***************************************************************************)
(* no process, and no start or supervisor that could still fork one        *)
Settled(s) == procs[s] = {} /\ (start[s] = "none" \/ LeasePublished(s))

SnapInv ==
    /\ sn.pc # "idle" => sn.at \in snaps /\ snOut[sn.at] = "none" /\ cu.pc = "idle"
    /\ sn.pc \in {"setup", "upload"} => start[sn.at] = "none"
    /\ \A s \in Snapshots : start[s] # "none" => snOut[s] # "none" \/ (sn.pc # "idle" /\ sn.at = s)
    /\ \A s \in Snapshots : start[s] = "none" => sup[s] = "none"
    /\ \A s \in Snapshots : sup[s] \in {"none", "up"} => procs[s] = {}
    /\ \A s \in Snapshots : VerifiedTerminal(s) => procs[s] = {} /\ LeasePublished(s)
    /\ \A s \in Snapshots : s \notin snaps => Settled(s)
    /\ \A s \in Snapshots : snOut[s] \in {"result", "failed"} => Settled(s)
    /\ \A s \in Snapshots : s \in cu.zero => procs[s] = {} /\ LeasePublished(s)

(***************************************************************************)
(* Cleanup, lease and readiness.                                           *)
(***************************************************************************)
CleanupInv ==
    /\ cu.pc = "idle" => cu.zero = {} /\ ~cu.closing
    /\ cu.closing => lease.sealed /\ lease.tasks \subseteq cu.parts
    /\ lease.outcome # "none" => lease.sealed
    /\ lease.sealed => bg.pc = "idle"
    /\ lease.outcome = "clean" => \A t \in lease.tasks : TokensOf(procs[t]) = {} /\ Published(t)

ReadyInv ==
    /\ probe # "none" => Over /\ sn.pc = "idle"
    /\ probe = "ready" => active = {} /\ reg \subseteq Terminal /\ snaps = {}

(***************************************************************************)
(* The operators on processes.                                             *)
(***************************************************************************)
(* No signal adds a process; a set is alive when it is not empty.          *)
LEMMA SignalsShrink ==
    ASSUME NEW p \in SUBSET Members, NEW hit
    PROVE  /\ \A q \in AfterTerm(p, hit) : q \in SUBSET p
           /\ \A q \in AfterKill(p, hit) : q \in SUBSET p
  BY DEF AfterTerm, AfterKill

LEMMA AliveMeansSome ==
    ASSUME NEW p \in SUBSET Members
    PROVE  OwnedAlive(p) <=> p # {}
  BY DEF OwnedAlive, GroupAlive, OwnerAlive, GroupOf, TokensOf, Members

(* Processes on their own neither come from nothing nor become the leader, *)
(* and a set that has lost the token does not get it back.                 *)
LEMMA BehavioursOfSome ==
    ASSUME NEW p \in SUBSET Members, NEW q \in Behaviours(p)
    PROVE  /\ q \in SUBSET Members /\ p # {} /\ ("leader" \in q => "leader" \in p)
           /\ TokensOf(p) = {} => TokensOf(q) = {}
<1>1. CASE \E x \in p \ {"monitor"} : q = p \ {x}
  BY <1>1 DEF TokensOf
<1>2. CASE \E x \in Forks(p) : q = p \cup {x}
  <2>1. p \cap {"leader", "daemon"} # {} /\ (q = p \cup {"child"} \/ q = p \cup {"daemon"})
    BY <1>2 DEF Forks
  <2> QED BY <2>1 DEF Members, TokensOf
<1> QED BY <1>1, <1>2, Zenon DEF Behaviours

(* What a step that forks nothing does to the set of one owner.            *)
Lives(o) ==
    \E p \in SUBSET Members :
        /\ procs' = [procs EXCEPT ![o] = p]
        /\ procs[o] = {} => p = {}
        /\ TokensOf(procs[o]) = {} => TokensOf(p) = {}
        /\ "leader" \in p => "leader" \in procs[o]

LEMMA LivesEffect ==
    ASSUME ProcTypes, NEW o \in Owned, Lives(o)
    PROVE  /\ ProcTypes'
           /\ \A x \in Owned \ {o} : procs'[x] = procs[x]
           /\ \A x \in Owned : procs[x] = {} => procs'[x] = {}
           /\ \A x \in Owned : TokensOf(procs[x]) = {} => TokensOf(procs'[x]) = {}
           /\ \A x \in Owned : "leader" \in procs'[x] => "leader" \in procs[x]
<1>1. PICK p \in SUBSET Members :
          /\ procs' = [procs EXCEPT ![o] = p]
          /\ procs[o] = {} => p = {}
          /\ TokensOf(procs[o]) = {} => TokensOf(p) = {}
          /\ "leader" \in p => "leader" \in procs[o]
  BY DEF Lives
<1>2. ProcTypes' /\ procs'[o] = p /\ \A x \in Owned \ {o} : procs'[x] = procs[x]
  BY <1>1 DEF ProcTypes
<1> QED BY <1>1, <1>2

LEMMA ShrinkLives ==
    ASSUME ProcTypes, NEW o \in Owned, NEW p \in SUBSET procs[o], procs' = [procs EXCEPT ![o] = p]
    PROVE  Lives(o)
<1>1. procs[o] \in SUBSET Members
  BY DEF ProcTypes
<1>2. /\ p \in SUBSET Members /\ (procs[o] = {} => p = {}) /\ ("leader" \in p => "leader" \in procs[o])
      /\ TokensOf(procs[o]) = {} => TokensOf(p) = {}
  BY <1>1 DEF TokensOf
<1> QED BY <1>2 DEF Lives

(* A set that gets one leader, or what it had and a leader.                *)
LEMMA ForkEffect ==
    ASSUME ProcTypes, NEW o \in Owned, NEW p \in SUBSET Members, procs' = [procs EXCEPT ![o] = p]
    PROVE  ProcTypes' /\ procs'[o] = p /\ \A x \in Owned \ {o} : procs'[x] = procs[x]
  BY DEF ProcTypes

(* The owners are distinct.                                                *)
LEMMA OwnersDistinct ==
    /\ Commands \subseteq Owned /\ Tasks \subseteq Owned /\ Snapshots \subseteq Owned
    /\ \A c \in Commands : c \notin Tasks /\ c \notin Snapshots
    /\ \A t \in Tasks : t \notin Commands /\ t \notin Snapshots
    /\ \A s \in Snapshots : s \notin Commands /\ s \notin Tasks
    /\ \A o \in Owned : o \in Commands \/ o \in Tasks \/ o \in Snapshots
  BY OwnersAssumption DEF Owned

(***************************************************************************)
(* The foreground's steps.                                                 *)
(***************************************************************************)
Launching == {"setup", "upload", "dispatch"}

(* the coroutine goes on, and may find the run of its command lost         *)
HostMoves ==
    /\ fg.pc # "idle" /\ fg' \in FgType /\ fg'.pc # "idle" /\ fg'.cmd = fg.cmd
    /\ UNCHANGED <<active, out>>
    /\ UNCHANGED procs \/ Lives(fg.cmd)
    /\ run' = run \/ run' = [run EXCEPT ![fg.cmd] = IF @ = "queued" THEN "lost" ELSE @]
    /\ fg.pc = "wait" /\ fg'.pc # "wait" => run'[fg.cmd] \notin {"queued", "forked"}
    /\ fg'.pc \in Launching => fg.pc \in Launching
    /\ fg'.pc = "wait" => fg.pc = "wait"
    /\ fg'.cancelled => fg'.pc \in CleanupSteps
    /\ ~fg'.cancelled => ~fg.cancelled

HostDispatches ==
    /\ fg.pc = "dispatch" /\ fg' \in FgType /\ fg'.pc = "wait" /\ fg'.cmd = fg.cmd /\ fg'.cancelled = fg.cancelled
    /\ run' = [run EXCEPT ![fg.cmd] = "queued"]
    /\ UNCHANGED <<procs, active, out>>

(* the coroutine leaves, and releases or vouches for an empty set only     *)
HostLeaves ==
    /\ fg.pc \notin {"idle", "wait"} /\ fg' = Resting
    /\ UNCHANGED <<procs, run>>
    /\ \E o \in OutType, release \in BOOLEAN :
         /\ out' = [out EXCEPT ![fg.cmd] = o]
         /\ active' = IF release THEN active \ {fg.cmd} ELSE active
         /\ o.kind # "none"
         /\ release \/ o.census = "yes" => procs[fg.cmd] = {}

Admits(c) ==
    /\ fg.pc = "idle" /\ c \notin active /\ out[c] = NoOutcome
    /\ fg' \in FgType /\ fg'.pc = "setup" /\ fg'.cmd = c /\ ~fg'.cancelled
    /\ active' = active \cup {c}
    /\ UNCHANGED <<procs, run, out>>

LEMMA RestingType ==
    /\ Resting \in FgType /\ Resting.pc = "idle" /\ ~Resting.cancelled
    /\ NoOutcome \in OutType /\ NoOutcome.kind = "none" /\ NoOutcome.census = Unknown /\ Unknown # "yes"
  BY DEF Resting, FgType, FgSteps, NoOutcome, OutType, Unknown

LEMMA FgGoes ==
    ASSUME NEW f \in FgType, NEW g, NEW step \in FgSteps, g = [f EXCEPT !.pc = step]
    PROVE  /\ g \in FgType /\ g.pc = step /\ g.cmd = f.cmd /\ g.cancelled = f.cancelled
  BY DEF FgType

LEMMA AdmitEffect ==
    ASSUME NEW c \in Commands, NEW signed \in BOOLEAN, Admit(c, signed)
    PROVE  Admits(c)
<1>1. ASSUME NEW r \in FgType, NEW g, g = [r EXCEPT !.pc = "setup", !.cmd = c, !.signed = signed]
      PROVE  g \in FgType /\ g.pc = "setup" /\ g.cmd = c /\ g.cancelled = r.cancelled
  BY <1>1 DEF FgType, FgSteps
<1>2. fg' = [Resting EXCEPT !.pc = "setup", !.cmd = c, !.signed = signed]
  BY DEF Admit
<1>3. fg' \in FgType /\ fg'.pc = "setup" /\ fg'.cmd = c /\ fg'.cancelled = Resting.cancelled
  BY <1>1, <1>2, RestingType
<1> QED BY <1>3, RestingType DEF Admit, Admits

(* A step that only moves the coroutine.                                   *)
LEMMA GoToMoves ==
    ASSUME FgTypes, RunInv, fg.pc # "idle", NEW step \in FgSteps \ {"idle", "wait"}, GoTo(step),
           step \in Launching => fg.pc \in Launching,
           fg.pc = "wait" => run[fg.cmd] \notin {"queued", "forked"},
           fg.cancelled => step \in CleanupSteps
    PROVE  HostMoves
<1>1. fg' \in FgType /\ fg'.pc = step /\ fg'.cmd = fg.cmd /\ fg'.cancelled = fg.cancelled
  BY FgGoes DEF GoTo, FgTypes
<1> QED BY <1>1 DEF GoTo, HostMoves

(* A step that leaves after containment.                                   *)
LEMMA LeaveContainedLeaves ==
    ASSUME FgTypes, RunInv, fg.pc \notin {"idle", "wait"},
           NEW cleanup \in {"yes", "no", Unknown}, NEW census \in {"yes", "no", Unknown},
           LeaveContained(cleanup, census), census = "yes" => procs[fg.cmd] = {}
    PROVE  HostLeaves
<1> DEFINE clean == cleanup = "yes" /\ census = "yes"
           o == [kind |-> IF fg.cancelled /\ (clean \/ (fg.signed /\ ~fg.started)) THEN "cancelled" ELSE "failed",
                 started |-> MayHaveStarted(clean),
                 cleanup |-> IF fg.started THEN cleanup ELSE Unknown,
                 census |-> IF fg.started THEN census ELSE Unknown]
<1>1. Leave(o, clean)
  BY DEF LeaveContained
<1>2. fg.started \in BOOLEAN /\ fg.signed \in BOOLEAN
  BY DEF FgTypes, FgType
<1>3. MayHaveStarted(clean) \in BOOLEAN
  BY <1>2, Zenon DEF MayHaveStarted
<1>4. o \in OutType /\ o.kind # "none" /\ (o.census = "yes" => census = "yes")
  BY <1>3 DEF OutType, Unknown
<1>5. clean \in BOOLEAN /\ (clean => census = "yes")
  OBVIOUS
<1> HIDE DEF o, clean
<1>6. fg' = Resting /\ UNCHANGED <<procs, run>> /\ out' = [out EXCEPT ![fg.cmd] = o]
      /\ active' = IF clean THEN active \ {fg.cmd} ELSE active
  BY <1>1 DEF Leave
<1>7. clean \/ o.census = "yes" => procs[fg.cmd] = {}
  BY <1>4, <1>5
<1> QED BY <1>4, <1>5, <1>6, <1>7, Zenon DEF HostLeaves

(* Every step of the coroutine is one of the three, as long as a run whose *)
(* reply was lost never begins.                                            *)
LEMMA HostEffect ==
    ASSUME ProcTypes, FgTypes, RunInv, CommandInv, ~DelayedRun, HostStep \/ PassCutoff \/ Cancel \/ CancelAgain
    PROVE  HostMoves \/ HostDispatches \/ HostLeaves
<1> USE DEF Launching
<1>a. fg \in FgType /\ run \in [Commands -> RunSteps]
  BY DEF FgTypes
<1>b. fg.pc # "idle" => fg.cmd \in Commands /\ fg.cmd \in Owned /\ procs[fg.cmd] \in SUBSET Members
                         /\ run[fg.cmd] \in RunSteps
  BY <1>a, OwnersDistinct DEF RunInv, ProcTypes
<1>c. fg.pc # "idle" /\ run[fg.cmd] \in {"queued", "forked"} => fg.pc = "wait"
  BY <1>b DEF RunInv
<1>d. fg.pc # "idle" /\ run[fg.cmd] \in {"none", "queued", "lost", "refused", "settled"} => procs[fg.cmd] = {}
  BY <1>b DEF CommandInv
<1>e. fg.cancelled => fg.pc \in CleanupSteps
  BY DEF RunInv
<1>f. fg.pc # "idle" => (OwnedAlive(procs[fg.cmd]) <=> procs[fg.cmd] # {})
  BY <1>b, AliveMeansSome
<1>g. ASSUME fg.pc \in {"cleanup", "cleanupKill", "term", "kill"}, NEW p \in SUBSET procs[fg.cmd],
             NEW next \in CleanupSteps, procs' = [procs EXCEPT ![fg.cmd] = p],
             fg' \in FgType, fg'.pc = next, fg'.cmd = fg.cmd, fg'.cancelled = fg.cancelled,
             UNCHANGED <<run, active, out>>
      PROVE  HostMoves
  <2>1. Lives(fg.cmd)
    BY <1>b, <1>g, ShrinkLives
  <2> QED BY <1>g, <2>1 DEF HostMoves, CleanupSteps
<1>h. ASSUME NEW step \in {"recover", "term"}, fg.pc = "wait", GiveUpOnRun(step)
      PROVE  HostMoves
  <2>1. fg' \in FgType /\ fg'.pc = step /\ fg'.cmd = fg.cmd /\ fg'.cancelled = fg.cancelled
    BY <1>a, <1>h, FgGoes DEF GiveUpOnRun, FgSteps, CleanupSteps
  <2>2. /\ run[fg.cmd] # "forked" /\ UNCHANGED <<procs, active, out>>
        /\ run' = [run EXCEPT ![fg.cmd] = IF @ = "queued" THEN "lost" ELSE @]
    BY <1>h DEF GiveUpOnRun
  <2>3. run'[fg.cmd] \notin {"queued", "forked"}
    BY <1>a, <1>b, <1>h, <2>2
  <2> QED BY <1>e, <1>h, <2>1, <2>2, <2>3 DEF HostMoves, CleanupSteps
<1>1. CASE PassCutoff
  <2>1. UNCHANGED <<procs, run, active, fg, out>> /\ fg.pc # "idle"
    BY <1>1 DEF PassCutoff
  <2> QED BY <1>a, <1>e, <2>1 DEF HostMoves
<1>2. CASE Cancel
  <2>1. /\ fg.pc \in {"setup", "upload", "dispatch", "wait", "download", "recover"}
        /\ run[fg.cmd] # "forked" /\ UNCHANGED <<procs, active, out>>
        /\ run' = [run EXCEPT ![fg.cmd] = IF @ = "queued" THEN "lost" ELSE @]
        /\ fg' = [fg EXCEPT !.cancelled = TRUE, !.pc = IF fg.started /\ fg.signed THEN "term" ELSE "evidence"]
    BY <1>2 DEF Cancel
  <2>2. fg' \in FgType /\ fg'.pc \in {"term", "evidence"} /\ fg'.cmd = fg.cmd /\ fg'.cancelled
    <3>1. ASSUME NEW f \in FgType, NEW g, NEW step \in {"term", "evidence"},
                 g = [f EXCEPT !.cancelled = TRUE, !.pc = step]
          PROVE  g \in FgType /\ g.pc = step /\ g.cmd = f.cmd /\ g.cancelled
      BY <3>1 DEF FgType, FgSteps, CleanupSteps
    <3>2. PICK step \in {"term", "evidence"} : fg' = [fg EXCEPT !.cancelled = TRUE, !.pc = step]
      BY <2>1
    <3>3. fg \in FgType
      BY <1>a
    <3>4. PICK g : g = fg'
      OBVIOUS
    <3>5. g \in FgType /\ g.pc = step /\ g.cmd = fg.cmd /\ g.cancelled
      BY <3>1, <3>2, <3>3, <3>4, Zenon
    <3> QED BY <3>4, <3>5
  <2>3. run'[fg.cmd] \notin {"queued", "forked"}
    BY <1>a, <1>b, <2>1
  <2> QED BY <2>1, <2>2, <2>3 DEF HostMoves, CleanupSteps
<1>3. CASE CancelAgain
  <2> DEFINE o == [NoOutcome EXCEPT !.kind = "cancelled", !.started = fg.started]
  <2>1. fg.pc \in CleanupSteps /\ Leave(o, FALSE)
    BY <1>3 DEF CancelAgain
  <2>2. o \in OutType /\ o.kind # "none" /\ o.census # "yes"
    <3>1. ASSUME NEW b \in BOOLEAN, NEW r \in OutType, NEW q, q = [r EXCEPT !.kind = "cancelled", !.started = b]
          PROVE  q \in OutType /\ q.kind # "none" /\ q.census = r.census
      BY <3>1 DEF OutType
    <3>2. fg.started \in BOOLEAN
      BY <1>a DEF FgType
    <3> QED BY <3>1, <3>2, RestingType
  <2> HIDE DEF o
  <2>3. fg.pc \notin {"idle", "wait"} /\ FALSE \in BOOLEAN
    BY <2>1 DEF CleanupSteps
  <2> QED BY <2>1, <2>2, <2>3, Zenon DEF HostLeaves, Leave
<1>4. CASE HostStep
  <2>1. CASE Setup
    BY <1>e, <2>1, GoToMoves DEF Setup, FgSteps, CleanupSteps
  <2>2. CASE Upload
    BY <1>e, <2>2, GoToMoves DEF Upload, FgSteps, CleanupSteps
  <2>3. CASE RejectAdmission
    <3> DEFINE o == [NoOutcome EXCEPT !.kind = "failed"]
    <3>1. fg.pc \in {"setup", "upload", "dispatch"} /\ Leave(o, TRUE)
      BY <2>3 DEF RejectAdmission
    <3>2. o \in OutType /\ o.kind # "none"
      <4>1. ASSUME NEW r \in OutType, NEW q, q = [r EXCEPT !.kind = "failed"]
            PROVE  q \in OutType /\ q.kind # "none"
        BY <4>1 DEF OutType
      <4> QED BY <4>1, RestingType
    <3> HIDE DEF o
    <3>3. fg.pc \notin {"idle", "wait"} /\ TRUE \in BOOLEAN /\ procs[fg.cmd] = {}
      BY <1>d, <3>1 DEF RunInv
    <3> QED BY <3>1, <3>2, <3>3, Zenon DEF HostLeaves, Leave
  <2>4. CASE LaunchFailed
    BY <1>e, <2>4, GoToMoves DEF LaunchFailed, FgSteps, CleanupSteps
  <2>5. CASE Dispatch
    <3>1. ASSUME NEW f \in FgType, NEW g, g = [f EXCEPT !.pc = "wait", !.started = TRUE]
          PROVE  g \in FgType /\ g.pc = "wait" /\ g.cmd = f.cmd /\ g.cancelled = f.cancelled
      BY <3>1 DEF FgType, FgSteps
    <3>2. fg' \in FgType /\ fg'.pc = "wait" /\ fg'.cmd = fg.cmd /\ fg'.cancelled = fg.cancelled
      BY <1>a, <2>5, <3>1 DEF Dispatch
    <3> QED BY <2>5, <3>2 DEF Dispatch, HostDispatches
  <2>6. CASE Reply
    BY <1>e, <2>6, GoToMoves DEF Reply, FgSteps, CleanupSteps
  <2>7. CASE LoseReply
    BY <1>h, <2>7 DEF LoseReply
  <2>8. CASE DeadlineExceeded
    BY <1>e, <1>h, <2>8, GoToMoves DEF DeadlineExceeded, FgSteps, CleanupSteps
  <2>9. CASE Download
    <3>1. fg.pc \notin {"idle", "wait"} /\ Leave(Verified, TRUE) /\ procs[fg.cmd] = {}
      BY <1>d, <2>9 DEF Download
    <3>2. Verified \in OutType /\ Verified.kind # "none" /\ TRUE \in BOOLEAN
      BY DEF Verified, OutType
    <3> QED BY <3>1, <3>2, Zenon DEF HostLeaves, Leave
  <2>10. CASE DownloadFailed
    BY <1>e, <2>10, GoToMoves DEF DownloadFailed, FgSteps, CleanupSteps
  <2>11. CASE Evidence
    <3>1. CASE LeaveContained(Unknown, Unknown)
      BY <2>11, <3>1, RestingType, LeaveContainedLeaves DEF Evidence
    <3>2. CASE GoTo("cleanup")
      BY <2>11, <3>2, GoToMoves DEF Evidence, FgSteps, CleanupSteps
    <3>3. CASE ~PgidPublished(fg.cmd) /\ LeaveContained("yes", "yes")
      <4>1. fg.pc = "evidence"
        BY <2>11 DEF Evidence
      <4>2. procs[fg.cmd] = {}
        BY <1>b, <1>c, <1>d, <3>3, <4>1 DEF PgidPublished, RunSteps
      <4> QED BY <3>3, <4>1, <4>2, LeaveContainedLeaves
    <3> QED BY <2>11, <3>1, <3>2, <3>3 DEF Evidence
  <2>12. CASE CleanupTerm
    <3>1. PICK p \in AfterTerm(procs[fg.cmd], Members) : procs' = [procs EXCEPT ![fg.cmd] = p]
      BY <2>12 DEF CleanupTerm
    <3>2. fg.pc = "cleanup" /\ fg' = [fg EXCEPT !.pc = "cleanupKill"] /\ UNCHANGED <<run, active, out>>
      BY <2>12 DEF CleanupTerm
    <3>3. fg' \in FgType /\ fg'.pc = "cleanupKill" /\ fg'.cmd = fg.cmd /\ fg'.cancelled = fg.cancelled
      BY <1>a, <3>2, FgGoes DEF FgSteps, CleanupSteps
    <3>4. p \in SUBSET procs[fg.cmd]
      BY <1>b, <3>2, SignalsShrink
    <3> QED BY <1>g, <3>1, <3>2, <3>3, <3>4 DEF CleanupSteps
  <2>13. CASE CleanupKill
    <3>1. PICK p \in AfterKill(procs[fg.cmd], Members) : procs' = [procs EXCEPT ![fg.cmd] = p]
      BY <2>13 DEF CleanupKill
    <3>2. fg.pc = "cleanupKill" /\ fg' = [fg EXCEPT !.pc = "cleanupWait"] /\ UNCHANGED <<run, active, out>>
      BY <2>13 DEF CleanupKill
    <3>3. fg' \in FgType /\ fg'.pc = "cleanupWait" /\ fg'.cmd = fg.cmd /\ fg'.cancelled = fg.cancelled
      BY <1>a, <3>2, FgGoes DEF FgSteps, CleanupSteps
    <3>4. p \in SUBSET procs[fg.cmd]
      BY <1>b, <3>2, SignalsShrink
    <3> QED BY <1>g, <3>1, <3>2, <3>3, <3>4 DEF CleanupSteps
  <2>14. CASE CleanupAnswer
    <3>1. fg.pc \notin {"idle", "wait"}
      BY <2>14 DEF CleanupAnswer
    <3>2. CASE procs[fg.cmd] = {} /\ LeaveContained("yes", "yes")
      BY <3>1, <3>2, LeaveContainedLeaves
    <3>3. CASE LeaveContained("no", Unknown)
      BY <3>1, <3>3, RestingType, LeaveContainedLeaves
    <3> QED BY <1>f, <2>14, <3>1, <3>2, <3>3 DEF CleanupAnswer
  <2>15. CASE CleanupLost
    BY <2>15, RestingType, LeaveContainedLeaves DEF CleanupLost
  <2>16. ASSUME NEW cutoff, NEW outcomes, NEW next \in {"kill", "census"}, fg.pc \in {"term", "kill"},
                \A q \in outcomes : q \in SUBSET procs[fg.cmd], SettleSignal(cutoff, outcomes, next)
         PROVE  HostMoves
    <3>1. PICK reached \in BOOLEAN, heard \in BOOLEAN :
              /\ \E p \in IF reached THEN outcomes ELSE {procs[fg.cmd]} : procs' = [procs EXCEPT ![fg.cmd] = p]
              /\ fg' = [fg EXCEPT !.pc = next, !.signalled = @ /\ heard]
      BY <2>16 DEF SettleSignal
    <3>2. PICK p \in SUBSET procs[fg.cmd] : procs' = [procs EXCEPT ![fg.cmd] = p]
      BY <2>16, <3>1
    <3>3. fg' \in FgType /\ fg'.pc = next /\ fg'.cmd = fg.cmd /\ fg'.cancelled = fg.cancelled
      <4>1. ASSUME NEW f \in FgType, NEW g, NEW b \in BOOLEAN, g = [f EXCEPT !.pc = next, !.signalled = b]
            PROVE  g \in FgType /\ g.pc = next /\ g.cmd = f.cmd /\ g.cancelled = f.cancelled
        BY <4>1 DEF FgType, FgSteps, CleanupSteps
      <4>2. (fg.signalled /\ heard) \in BOOLEAN
        OBVIOUS
      <4>3. fg' = [fg EXCEPT !.pc = next, !.signalled = (fg.signalled /\ heard)]
        BY <3>1, Zenon
      <4> QED BY <1>a, <4>1, <4>2, <4>3, Zenon
    <3>4. /\ UNCHANGED <<run, active, out>> /\ next \in CleanupSteps
          /\ fg.pc \in {"cleanup", "cleanupKill", "term", "kill"}
      BY <2>16 DEF SettleSignal, CleanupSteps
    <3> QED BY <1>g, <3>2, <3>3, <3>4
  <2>17. CASE SettleTerm
    <3>1. fg.pc = "term" /\ SettleSignal(2, AfterTerm(procs[fg.cmd], Members), "kill")
      BY <2>17 DEF SettleTerm
    <3>2. \A q \in AfterTerm(procs[fg.cmd], Members) : q \in SUBSET procs[fg.cmd]
      BY <1>b, <3>1, SignalsShrink
    <3> QED BY <2>16, <3>1, <3>2
  <2>18. CASE SettleKill
    <3>1. fg.pc = "kill" /\ SettleSignal(4, AfterKill(procs[fg.cmd], Members), "census")
      BY <2>18 DEF SettleKill
    <3>2. \A q \in AfterKill(procs[fg.cmd], Members) : q \in SUBSET procs[fg.cmd]
      BY <1>b, <3>1, SignalsShrink
    <3> QED BY <2>16, <3>1, <3>2
  <2>19. CASE SettleCensus
    <3>1. fg.pc \notin {"idle", "wait"}
      BY <2>19 DEF SettleCensus
    <3>2. CASE LeaveContained("no", "no")
      BY <3>1, <3>2, LeaveContainedLeaves
    <3>3. CASE CensusZero(fg.cmd) /\ LeaveContained(IF fg.signalled THEN "yes" ELSE "no", "yes")
      <4>1. procs[fg.cmd] = {}
        BY <1>f, <3>1, <3>3 DEF CensusZero
      <4>2. (IF fg.signalled THEN "yes" ELSE "no") \in {"yes", "no", Unknown}
        OBVIOUS
      <4> QED BY <3>1, <3>3, <4>1, <4>2, LeaveContainedLeaves
    <3> QED BY <2>19, <3>2, <3>3 DEF SettleCensus
  <2> QED BY <1>4, <2>1, <2>2, <2>3, <2>4, <2>5, <2>6, <2>7, <2>8, <2>9, <2>10, <2>11, <2>12, <2>13, <2>14, <2>15,
             <2>17, <2>18, <2>19 DEF HostStep
<1> QED BY <1>1, <1>2, <1>3, <1>4

(* The script runs a command it was sent, forks it once and publishes it.  *)
ScriptForks(c) ==
    /\ run[c] = "queued" /\ run' = [run EXCEPT ![c] = "forked"]
    /\ procs' = [procs EXCEPT ![c] = {"leader"}]

ScriptMoves(c) ==
    /\ UNCHANGED procs \/ Lives(c)
    /\ \E to \in RunSteps :
         /\ run' = [run EXCEPT ![c] = to]
         /\ to \in {"none", "queued", "lost", "refused", "settled"} => run[c] = to \/ procs[c] = {}
         /\ to \in {"queued", "forked"} => run[c] = to
         /\ run[c] # "none" \/ to = "none"
         /\ PgidPublished(c) => to \in {"running", "reaping", "confirming", "settled", "unverified"}

LEMMA ScriptEffect ==
    ASSUME ProcTypes, FgTypes, CommandInv, NEW c \in Commands, RunScript(c) \/ Behave(c)
    PROVE  (ScriptForks(c) \/ ScriptMoves(c)) /\ UNCHANGED <<active, fg, out>>
<1>a. run \in [Commands -> RunSteps] /\ run[c] \in RunSteps
  BY DEF FgTypes
<1>b. c \in Owned /\ procs[c] \in SUBSET Members
  BY OwnersDistinct DEF ProcTypes
<1>c. OwnedAlive(procs[c]) <=> procs[c] # {}
  BY <1>b, AliveMeansSome
<1>d. ASSUME NEW p \in SUBSET procs[c], procs' = [procs EXCEPT ![c] = p]
      PROVE  Lives(c)
  BY <1>b, <1>d, ShrinkLives
<1>1. CASE RunRefused(c)
  BY <1>1 DEF RunRefused, RunStep, ScriptMoves, RunSteps, PgidPublished, CommandInv
<1>2. CASE RunFork(c)
  BY <1>2 DEF RunFork, RunStep, ScriptForks
<1>3. CASE RunPublish(c)
  BY <1>3 DEF RunPublish, RunStep, ScriptMoves, RunSteps, PgidPublished
<1>4. CASE RunWatcher(c)
  <2>1. PICK p \in IF watch[c] = 0 THEN AfterTerm(procs[c], GroupOf(procs[c]))
                                   ELSE {procs[c] \ GroupOf(procs[c])} : procs' = [procs EXCEPT ![c] = p]
    BY <1>4 DEF RunWatcher
  <2>2. p \in SUBSET procs[c]
    BY <1>b, <2>1, SignalsShrink
  <2>3. Lives(c)
    BY <1>d, <2>1, <2>2
  <2>4. run[c] = "running" /\ run' = [run EXCEPT ![c] = "running"] /\ UNCHANGED <<active, fg, out>>
    BY <1>a, <1>4 DEF RunWatcher
  <2> QED BY <2>3, <2>4 DEF ScriptMoves, RunSteps
<1>5. CASE RunReap(c)
  <2>1. PICK p \in AfterTerm(procs[c], Members) : procs' = [procs EXCEPT ![c] = p]
    BY <1>5 DEF RunReap
  <2>2. Lives(c)
    BY <1>b, <1>d, <2>1, SignalsShrink
  <2>3. run[c] = "running" /\ run' = [run EXCEPT ![c] = "reaping"] /\ UNCHANGED <<active, fg, out>>
    BY <1>5 DEF RunReap, RunStep
  <2> QED BY <2>2, <2>3 DEF ScriptMoves, RunSteps
<1>6. CASE RunKill(c)
  <2>1. PICK p \in AfterKill(procs[c], Members) : procs' = [procs EXCEPT ![c] = p]
    BY <1>6 DEF RunKill
  <2>2. Lives(c)
    BY <1>b, <1>d, <2>1, SignalsShrink
  <2>3. run[c] = "reaping" /\ run' = [run EXCEPT ![c] = "confirming"] /\ UNCHANGED <<active, fg, out>>
    BY <1>6 DEF RunKill, RunStep
  <2> QED BY <2>2, <2>3 DEF ScriptMoves, RunSteps
<1>7. CASE RunSettle(c)
  BY <1>c, <1>7 DEF RunSettle, RunStep, ScriptMoves, RunSteps
<1>8. CASE RunUnverified(c)
  BY <1>8 DEF RunUnverified, RunStep, ScriptMoves, RunSteps
<1>9. CASE Behave(c)
  <2>1. PICK p \in Behaviours(procs[c]) : procs' = [procs EXCEPT ![c] = p]
    BY <1>9 DEF Behave
  <2>2. /\ p \in SUBSET Members /\ procs[c] # {} /\ ("leader" \in p => "leader" \in procs[c])
        /\ TokensOf(procs[c]) = {} => TokensOf(p) = {}
    BY <1>b, <2>1, BehavioursOfSome
  <2>3. Lives(c)
    BY <2>1, <2>2 DEF Lives
  <2>4. run' = [run EXCEPT ![c] = run[c]] /\ UNCHANGED <<active, fg, out>>
    BY <1>a, <1>9 DEF Behave
  <2> QED BY <1>a, <2>3, <2>4 DEF ScriptMoves, PgidPublished
<1> QED BY <1>1, <1>2, <1>3, <1>4, <1>5, <1>6, <1>7, <1>8, <1>9 DEF RunScript

FgInv == ProcTypes /\ FgTypes /\ RunInv /\ CommandInv

(* Steps that change nothing of the foreground but the set of a command.   *)
LEMMA ForegroundQuiet ==
    ASSUME FgInv, ProcTypes', UNCHANGED <<run, fg, out>>, active' \in SUBSET Commands,
           \A c \in Commands : procs[c] = {} => procs'[c] = {},
           \A c \in Commands : procs'[c] # {} => c \in active',
           fg.pc \in {"setup", "upload", "dispatch", "wait"} => fg.cmd \in active',
           fg.pc # "idle" /\ ~fg.cancelled => cu'.pc = "idle",
           \A c \in Commands : c \in cu'.zero => procs'[c] = {} /\ PgidPublished(c)
    PROVE  FgInv'
<1>1. FgTypes'
  BY DEF FgInv, FgTypes
<1>2. RunInv'
  BY DEF FgInv, RunInv
<1>3. CommandInv'
  BY DEF FgInv, CommandInv, PgidPublished
<1> QED BY <1>1, <1>2, <1>3 DEF FgInv

LEMMA HostMovesKeep ==
    ASSUME FgInv, UNCHANGED cu, HostMoves
    PROVE  FgInv'
<1> DEFINE c == fg.cmd
<1>a. c \in Commands /\ c \in Owned /\ run[c] \in RunSteps /\ run \in [Commands -> RunSteps]
  BY OwnersDistinct DEF FgInv, FgTypes, RunInv, HostMoves
<1>b. ProcTypes' /\ \A x \in Owned : procs[x] = {} => procs'[x] = {}
  BY <1>a, LivesEffect DEF HostMoves, FgInv, ProcTypes
<1>c. \A x \in Commands : x \in Owned
  BY OwnersDistinct
<1>d. /\ run' \in [Commands -> RunSteps] /\ \A x \in Commands \ {c} : run'[x] = run[x]
      /\ run'[c] = run[c] \/ (run[c] = "queued" /\ run'[c] = "lost")
  BY <1>a DEF HostMoves, RunSteps
<1>1. FgTypes'
  BY <1>d DEF FgInv, FgTypes, HostMoves
<1>2. RunInv'
  <2>1. fg'.pc # "idle" /\ fg'.cmd \in Commands /\ out'[fg'.cmd].kind = "none"
    BY <1>a DEF FgInv, RunInv, HostMoves
  <2>2. fg'.cancelled => fg'.pc \in CleanupSteps
    BY DEF HostMoves
  <2>3. fg'.pc \in {"setup", "upload", "dispatch"} => run'[fg'.cmd] = "none"
    BY <1>d DEF FgInv, RunInv, HostMoves, Launching
  <2>4. fg'.pc \in {"setup", "upload", "dispatch", "wait"} => fg'.cmd \in active'
    BY DEF FgInv, RunInv, HostMoves, Launching
  <2>5. ~fg'.cancelled => cu'.pc = "idle"
    BY DEF FgInv, RunInv, HostMoves
  <2>6. ASSUME NEW x \in Commands, run'[x] \in {"queued", "forked"}
        PROVE  fg'.pc = "wait" /\ fg'.cmd = x
    <3>1. run[x] \in {"queued", "forked"}
      BY <1>d, <2>6
    <3>2. fg.pc = "wait" /\ c = x
      BY <3>1 DEF FgInv, RunInv
    <3> QED BY <2>6, <3>2 DEF HostMoves
  <2>7. \A x \in Commands : run'[x] # "none" => out'[x].kind # "none" \/ (fg'.pc # "idle" /\ fg'.cmd = x)
    BY <1>d, <2>1 DEF FgInv, RunInv, HostMoves
  <2> QED BY <2>1, <2>2, <2>3, <2>4, <2>5, <2>6, <2>7 DEF RunInv
<1>3. CommandInv'
  <2>1. UNCHANGED <<active, out>>
    BY DEF HostMoves
  <2>2. \A x \in Commands : PgidPublished(x) => PgidPublished(x)'
    BY <1>d DEF PgidPublished
  <2>3. \A x \in Commands : run'[x] \in {"none", "queued", "lost", "refused", "settled"} =>
                                run[x] \in {"none", "queued", "lost", "refused", "settled"}
    BY <1>d
  <2> QED BY <1>b, <1>c, <2>1, <2>2, <2>3 DEF FgInv, CommandInv
<1> QED BY <1>b, <1>1, <1>2, <1>3 DEF FgInv

LEMMA HostDispatchesKeep ==
    ASSUME FgInv, UNCHANGED cu, HostDispatches
    PROVE  FgInv'
<1> DEFINE c == fg.cmd
<1>a. c \in Commands /\ run[c] = "none" /\ c \in active /\ out[c].kind = "none" /\ ~fg.cancelled
  BY DEF FgInv, RunInv, HostDispatches, CleanupSteps
<1>d. /\ run' \in [Commands -> RunSteps] /\ \A x \in Commands \ {c} : run'[x] = run[x]
      /\ run'[c] = "queued"
  BY <1>a DEF HostDispatches, FgInv, FgTypes, RunSteps
<1>1. FgTypes' /\ ProcTypes'
  BY <1>d DEF FgInv, FgTypes, HostDispatches, ProcTypes
<1>2. RunInv'
  <2>1. \A x \in Commands : run'[x] \in {"queued", "forked"} => x = c
    BY <1>a, <1>d DEF FgInv, RunInv, HostDispatches
  <2>2. \A x \in Commands : run'[x] # "none" => out[x].kind # "none" \/ c = x
    BY <1>a, <1>d DEF FgInv, RunInv, HostDispatches
  <2> QED BY <1>a, <2>1, <2>2 DEF FgInv, RunInv, HostDispatches, CleanupSteps
<1>3. CommandInv'
  <2>1. ~PgidPublished(c)
    BY <1>a DEF PgidPublished
  <2>2. \A x \in Commands : PgidPublished(x) => PgidPublished(x)'
    BY <1>d, <2>1 DEF PgidPublished
  <2> QED BY <1>a, <1>d, <2>2 DEF FgInv, CommandInv, HostDispatches
<1> QED BY <1>1, <1>2, <1>3 DEF FgInv

LEMMA HostLeavesKeep ==
    ASSUME FgInv, UNCHANGED cu, HostLeaves
    PROVE  FgInv'
<1> DEFINE c == fg.cmd
<1>1. PICK o \in OutType, release \in BOOLEAN :
          /\ out' = [out EXCEPT ![fg.cmd] = o]
          /\ active' = IF release THEN active \ {fg.cmd} ELSE active
          /\ o.kind # "none"
          /\ release \/ o.census = "yes" => procs[fg.cmd] = {}
  BY DEF HostLeaves
<1>a. c \in Commands /\ fg.pc # "idle"
  BY DEF FgInv, RunInv, HostLeaves
<1>b. out' \in [Commands -> OutType] /\ out'[c] = o /\ \A x \in Commands \ {c} : out'[x] = out[x]
  BY <1>1, <1>a DEF FgInv, FgTypes
<1>c. fg' \in FgType /\ fg'.pc = "idle" /\ ~fg'.cancelled
  BY RestingType DEF HostLeaves
<1>d. UNCHANGED <<procs, run>> /\ active' \in SUBSET active /\ \A x \in active \ active' : x = c /\ procs[c] = {}
  BY <1>1 DEF HostLeaves
<1>2. FgTypes' /\ ProcTypes'
  BY <1>b, <1>c, <1>d DEF FgInv, FgTypes, ProcTypes
<1>3. RunInv'
  <2>1. \A x \in Commands : run[x] \notin {"queued", "forked"}
    <3>1. \A x \in Commands : run[x] \in {"queued", "forked"} => fg.pc = "wait" /\ c = x
      BY DEF FgInv, RunInv
    <3> QED BY <3>1 DEF HostLeaves
  <2>2. \A x \in Commands : run[x] # "none" => out'[x].kind # "none"
    BY <1>1, <1>a, <1>b DEF FgInv, RunInv
  <2> QED BY <1>c, <1>d, <2>1, <2>2 DEF RunInv
<1>4. CommandInv'
  BY <1>1, <1>a, <1>b, <1>d DEF FgInv, CommandInv, PgidPublished
<1> QED BY <1>2, <1>3, <1>4 DEF FgInv

LEMMA AdmitsKeep ==
    ASSUME FgInv, UNCHANGED cu, cu.pc = "idle", NEW c \in Commands, Admits(c)
    PROVE  FgInv'
<1>1. run[c] = "none"
  BY RestingType DEF FgInv, RunInv, Admits
<1>2. FgTypes' /\ ProcTypes'
  BY DEF FgInv, FgTypes, Admits, ProcTypes
<1>3. RunInv'
  BY <1>1, RestingType DEF FgInv, RunInv, Admits
<1>4. CommandInv'
  BY DEF FgInv, CommandInv, Admits, PgidPublished
<1> QED BY <1>2, <1>3, <1>4 DEF FgInv

LEMMA RefuseKeeps ==
    ASSUME FgInv, UNCHANGED cu, NEW c \in Commands, RefuseMapping(c)
    PROVE  FgInv'
<1> DEFINE o == [NoOutcome EXCEPT !.kind = "failed"]
<1>1. o \in OutType /\ o.kind = "failed" /\ o.census # "yes"
  <2>1. ASSUME NEW r \in OutType, NEW q, q = [r EXCEPT !.kind = "failed"]
        PROVE  q \in OutType /\ q.kind = "failed" /\ q.census = r.census
    BY <2>1 DEF OutType
  <2> QED BY <2>1, RestingType
<1>2. out' = [out EXCEPT ![c] = o] /\ fg.pc = "idle" /\ UNCHANGED <<procs, run, active, fg>>
  BY DEF RefuseMapping
<1> HIDE DEF o
<1>3. out' \in [Commands -> OutType] /\ out'[c] = o /\ \A x \in Commands \ {c} : out'[x] = out[x]
  BY <1>1, <1>2 DEF FgInv, FgTypes
<1>4. FgTypes' /\ ProcTypes'
  BY <1>2, <1>3 DEF FgInv, FgTypes, ProcTypes
<1>5. RunInv'
  BY <1>1, <1>2, <1>3 DEF FgInv, RunInv
<1>6. CommandInv'
  BY <1>1, <1>2, <1>3 DEF FgInv, CommandInv, PgidPublished
<1> QED BY <1>4, <1>5, <1>6 DEF FgInv

LEMMA ForksKeeps ==
    ASSUME FgInv, UNCHANGED <<cu, active, fg, out>>, NEW c \in Commands, ScriptForks(c)
    PROVE  FgInv'
<1>a. c \in Owned /\ {"leader"} \in SUBSET Members /\ \A x \in Commands : x \in Owned
  BY OwnersDistinct DEF Members
<1>b. ProcTypes' /\ procs'[c] = {"leader"} /\ \A x \in Owned \ {c} : procs'[x] = procs[x]
  BY <1>a, ForkEffect DEF FgInv, ScriptForks
<1>c. /\ run' \in [Commands -> RunSteps] /\ \A x \in Commands \ {c} : run'[x] = run[x]
      /\ run[c] = "queued" /\ run'[c] = "forked"
  BY DEF FgInv, FgTypes, ScriptForks, RunSteps
<1>d. fg.pc = "wait" /\ fg.cmd = c /\ c \in active /\ out[c].kind = "none"
  BY <1>c DEF FgInv, RunInv
<1>1. FgTypes'
  BY <1>c DEF FgInv, FgTypes
<1>2. RunInv'
  BY <1>c, <1>d DEF FgInv, RunInv
<1>3. CommandInv'
  <2>1. ~PgidPublished(c) /\ \A x \in Commands \ {c} : PgidPublished(x) => PgidPublished(x)'
    BY <1>c DEF PgidPublished
  <2> QED BY <1>a, <1>b, <1>c, <1>d, <2>1 DEF FgInv, CommandInv
<1> QED BY <1>b, <1>1, <1>2, <1>3 DEF FgInv

LEMMA ScriptMovesKeep ==
    ASSUME FgInv, UNCHANGED <<cu, active, fg, out>>, NEW c \in Commands, ScriptMoves(c)
    PROVE  FgInv'
<1>a. c \in Owned /\ \A x \in Commands : x \in Owned
  BY OwnersDistinct
<1>b. ProcTypes' /\ \A x \in Owned : procs[x] = {} => procs'[x] = {}
  BY <1>a, LivesEffect DEF ScriptMoves, FgInv, ProcTypes
<1>1. PICK to \in RunSteps :
         /\ run' = [run EXCEPT ![c] = to]
         /\ to \in {"none", "queued", "lost", "refused", "settled"} => run[c] = to \/ procs[c] = {}
         /\ to \in {"queued", "forked"} => run[c] = to
         /\ run[c] # "none" \/ to = "none"
         /\ PgidPublished(c) => to \in {"running", "reaping", "confirming", "settled", "unverified"}
  BY DEF ScriptMoves
<1>c. run' \in [Commands -> RunSteps] /\ run'[c] = to /\ \A x \in Commands \ {c} : run'[x] = run[x]
  BY <1>1 DEF FgInv, FgTypes
<1>2. FgTypes'
  BY <1>c DEF FgInv, FgTypes
<1>3. RunInv'
  <2>1. fg.pc \in {"setup", "upload", "dispatch"} => run'[fg.cmd] = "none"
    BY <1>1, <1>c DEF FgInv, RunInv
  <2>2. \A x \in Commands : run'[x] \in {"queued", "forked"} => fg.pc = "wait" /\ fg.cmd = x
    BY <1>1, <1>c DEF FgInv, RunInv
  <2>3. \A x \in Commands : run'[x] # "none" => out[x].kind # "none" \/ (fg.pc # "idle" /\ fg.cmd = x)
    BY <1>1, <1>c DEF FgInv, RunInv
  <2> QED BY <2>1, <2>2, <2>3 DEF FgInv, RunInv
<1>4. CommandInv'
  <2>1. \A x \in Commands : run'[x] \in {"none", "queued", "lost", "refused", "settled"} => procs'[x] = {}
    BY <1>1, <1>a, <1>b, <1>c DEF FgInv, CommandInv
  <2>2. \A x \in Commands : PgidPublished(x) => PgidPublished(x)'
    BY <1>1, <1>c DEF PgidPublished
  <2> QED BY <1>a, <1>b, <2>1, <2>2 DEF FgInv, CommandInv
<1> QED BY <1>b, <1>2, <1>3, <1>4 DEF FgInv

(***************************************************************************)
(* The fields that the host's steps of the background leave.               *)
(***************************************************************************)
BgSteps == {"idle", "sweep"} \cup AtSteps

SameRequest ==
    /\ bg' \in BgType /\ bg'.op = bg.op /\ bg'.tgt = bg.tgt
    /\ bg'.at = bg.at /\ bg'.todo = bg.todo /\ bg'.fatal = bg.fatal

Rests(fatal) == bg' \in BgType /\ bg'.pc = "idle" /\ bg'.op = "none" /\ bg'.fatal = fatal

LEMMA BgRests == BgResting \in BgType /\ BgResting.pc = "idle" /\ BgResting.op = "none" /\ ~BgResting.fatal
  BY DEF BgResting, BgType

LEMMA GoesEffect ==
    ASSUME BgTypes, NEW next \in BgSteps, Goes(next)
    PROVE  SameRequest /\ bg'.pc = next
  BY DEF BgTypes, Goes, BgType, BgSteps, SameRequest

LEMMA FatalEffect ==
    ASSUME Fatal
    PROVE  Rests(TRUE)
<1>1. ASSUME NEW b \in BgType, NEW g, g = [b EXCEPT !.fatal = TRUE]
      PROVE  g \in BgType /\ g.pc = b.pc /\ g.op = b.op /\ g.fatal
  BY <1>1 DEF BgType
<1> QED BY <1>1, BgRests DEF Fatal, Rests

LEMMA RestEffect ==
    ASSUME bg' = BgResting
    PROVE  Rests(FALSE)
  BY BgRests DEF Rests

LEMMA ResumeEffect ==
    ASSUME BgTypes, bg' = Resume
    PROVE  /\ bg' \in BgType /\ bg'.op = bg.op /\ bg'.tgt = bg.tgt /\ bg'.at = bg.at /\ bg'.fatal = bg.fatal
           /\ \/ bg.op = "kill" /\ bg'.pc = "decide" /\ bg'.todo = bg.todo
              \/ bg.op # "kill" /\ bg.at \in bg.todo /\ bg'.pc = "sweep" /\ bg'.todo = bg.todo \ {bg.at}
              \/ bg.op # "kill" /\ bg.at \notin bg.todo /\ bg'.pc = "settle" /\ bg'.todo = bg.todo
<1>a. bg \in BgType
  BY DEF BgTypes
<1>1. ASSUME NEW g, NEW next \in {"decide", "settle"}, g = [bg EXCEPT !.pc = next]
      PROVE  g \in BgType /\ g.op = bg.op /\ g.tgt = bg.tgt /\ g.at = bg.at /\ g.fatal = bg.fatal /\ g.pc = next
             /\ g.todo = bg.todo
  BY <1>a, <1>1 DEF BgType, AtSteps
<1>2. ASSUME NEW g, g = [bg EXCEPT !.pc = "sweep", !.todo = @ \ {bg.at}]
      PROVE  g \in BgType /\ g.op = bg.op /\ g.tgt = bg.tgt /\ g.at = bg.at /\ g.fatal = bg.fatal /\ g.pc = "sweep"
             /\ g.todo = bg.todo \ {bg.at}
  BY <1>a, <1>2 DEF BgType
<1>3. CASE bg.op = "kill"
  BY <1>1, <1>3 DEF Resume
<1>4. CASE bg.op # "kill" /\ bg.at \in bg.todo
  BY <1>2, <1>4 DEF Resume
<1>5. CASE bg.op # "kill" /\ bg.at \notin bg.todo
  BY <1>1, <1>5 DEF Resume
<1> QED BY <1>3, <1>4, <1>5

(* What storing the record rec for the task t leaves.                      *)
Gets(t, rec) ==
    /\ task' \in [Tasks -> TaskType]
    /\ task'[t].state = rec.state /\ task'[t].census = rec.census /\ task'[t].bound = rec.bound
    /\ \A u \in Tasks \ {t} : task'[u] = task[u]

LEMMA UpdateEffect ==
    ASSUME BgTypes, NEW t \in Tasks, NEW rec \in TaskType, Update(t, rec)
    PROVE  Gets(t, rec)
  BY DEF BgTypes, Update, Gets

LEMMA ConcludeEffect ==
    ASSUME BgTypes, NEW t \in Tasks, NEW rec \in TaskType, Conclude(t, rec)
    PROVE  Gets(t, rec)
<1>1. ASSUME NEW q, q = [rec EXCEPT !.spooled = TRUE]
      PROVE  q \in TaskType /\ q.state = rec.state /\ q.census = rec.census /\ q.bound = rec.bound
  BY <1>1 DEF TaskType
<1>2. PICK q : q = [rec EXCEPT !.spooled = TRUE]
  OBVIOUS
<1>3. q \in TaskType /\ q.state = rec.state /\ q.census = rec.census /\ q.bound = rec.bound
  BY <1>1, <1>2
<1>4. task' = [task EXCEPT ![t] = q]
  BY <1>2, Zenon DEF Conclude, Update
<1> QED BY <1>3, <1>4 DEF BgTypes, Gets

LEMMA StoreEffect ==
    ASSUME BgTypes, NEW t \in Tasks, NEW rec \in TaskType, Store(t, rec)
    PROVE  Gets(t, rec)
  BY UpdateEffect, ConcludeEffect DEF Store

(* A task record's fields after the edits the host makes.                  *)
LEMMA TaskEdits ==
    ASSUME NEW r \in TaskType, NEW q,
           q = [r EXCEPT !.census = FALSE] \/ q = [r EXCEPT !.fresh = FALSE] \/ q = [r EXCEPT !.bound = TRUE]
               \/ q = [r EXCEPT !.spooled = TRUE]
    PROVE  /\ q \in TaskType /\ q.state = r.state
           /\ q.bound = r.bound \/ (q.bound /\ q = [r EXCEPT !.bound = TRUE])
           /\ q.census = r.census \/ (~q.census /\ q = [r EXCEPT !.census = FALSE])
<1>1. CASE q = [r EXCEPT !.census = FALSE]
  BY <1>1 DEF TaskType
<1>2. CASE q = [r EXCEPT !.fresh = FALSE]
  BY <1>2 DEF TaskType
<1>3. CASE q = [r EXCEPT !.bound = TRUE]
  BY <1>3 DEF TaskType
<1>4. CASE q = [r EXCEPT !.spooled = TRUE]
  BY <1>4 DEF TaskType
<1> QED BY <1>1, <1>2, <1>3, <1>4

LEMMA EndedType ==
    ASSUME NEW r \in TaskType
    PROVE  Ended(r) \in TaskType /\ Ended(r).census /\ Ended(r).bound = r.bound /\ Ended(r).state # "running"
<1>1. ASSUME NEW q, NEW s \in {"none", "leaderExited", "completed", "failed", "cancelled"},
             q = [r EXCEPT !.census = TRUE, !.state = s]
      PROVE  q \in TaskType /\ q.census /\ q.bound = r.bound /\ q.state # "running"
  BY <1>1 DEF TaskType
<1>2. (IF r.state = "running" THEN "failed" ELSE r.state) \in {"none", "leaderExited", "completed", "failed", "cancelled"}
  BY DEF TaskType
<1>3. PICK s \in {"none", "leaderExited", "completed", "failed", "cancelled"} :
          s = IF r.state = "running" THEN "failed" ELSE r.state
  BY <1>2
<1>4. Ended(r) = [r EXCEPT !.census = TRUE, !.state = s]
  BY <1>3, Zenon DEF Ended
<1> QED BY <1>1, <1>4

(* What a refresh may leave of a task that is bound.                       *)
LEMMA RefreshedType ==
    ASSUME BgTypes, NEW t \in Tasks, NEW rec \in Refreshed(t) \cup {task[t]}
    PROVE  /\ rec \in TaskType /\ rec.bound = task[t].bound
           /\ rec = task[t] \/ task[t].state = "running"
           /\ rec.census => task[t].census
<1>a. task[t] \in TaskType /\ status[t] \in {"none", "running", "leaderExited", "completed", "failed", "cancelled"}
  BY DEF BgTypes
<1>1. CASE rec = task[t]
  BY <1>a, <1>1
<1>2. CASE rec = [task[t] EXCEPT !.fresh = FALSE] /\ task[t].state = "running"
  <2>1. ASSUME NEW q, NEW r \in TaskType, q = [r EXCEPT !.fresh = FALSE]
        PROVE  q \in TaskType /\ q.census = r.census /\ q.bound = r.bound
    BY <2>1 DEF TaskType
  <2>2. rec \in TaskType /\ rec.census = task[t].census /\ rec.bound = task[t].bound
    BY <1>a, <1>2, <2>1
  <2> QED BY <1>2, <2>2
<1>3. CASE rec = Seen(t) /\ task[t].state = "running"
  <2>1. ASSUME NEW q, NEW r \in TaskType, NEW e \in BOOLEAN,
               NEW s \in {"none", "running", "leaderExited", "completed", "failed", "cancelled"},
               q = [r EXCEPT !.state = s, !.exited = e, !.census = FALSE, !.fresh = TRUE]
        PROVE  q \in TaskType /\ q.bound = r.bound /\ ~q.census
    BY <2>1 DEF TaskType
  <2>2. /\ (IF status[t] = "leaderExited" THEN "running" ELSE status[t])
               \in {"none", "running", "leaderExited", "completed", "failed", "cancelled"}
        /\ (status[t] # "running") \in BOOLEAN
    BY <1>a
  <2>3. Seen(t) = [task[t] EXCEPT !.state = IF status[t] = "leaderExited" THEN "running" ELSE status[t],
                                  !.exited = (status[t] # "running"), !.census = FALSE, !.fresh = TRUE]
    BY DEF Seen
  <2>4. Seen(t) \in TaskType /\ Seen(t).bound = task[t].bound /\ ~Seen(t).census
    BY <1>a, <2>1, <2>2, <2>3, ZenonT(60)
  <2> QED BY <1>3, <2>4
<1> QED BY <1>1, <1>2, <1>3 DEF Refreshed

(***************************************************************************)
(* The host's steps of the background.                                     *)
(***************************************************************************)
(* A task is only vouched for, and only dropped, when it is empty and its  *)
(* monitor cannot fill it.                                                 *)
TaskEffect ==
    /\ \A t \in Tasks : task'[t].census => TokensOf(procs'[t]) = {} /\ Published(t) /\ task'[t].state # "running"
    /\ \A t \in Tasks : task[t].census => task'[t].census
    /\ reg' \subseteq reg
    /\ \A t \in reg \ reg' : TokensOf(procs'[t]) = {} /\ mon[t] # "queued"
    /\ ~bg'.fatal => \A t \in reg' : task'[t].state # "running" => task'[t].census
                                         \/ (bg'.at = t /\ bg'.pc \in Verifying)

Seated == BgTypes' /\ LaunchInv' /\ TaskEffect

HostBase == ProcTypes /\ BgTypes /\ LaunchInv /\ TaskInv

LEMMA BaseFacts ==
    ASSUME HostBase
    PROVE  /\ bg \in BgType /\ task \in [Tasks -> TaskType] /\ reg \subseteq Tasks
           /\ bg.pc \in AtSteps => bg.at \in Tasks /\ task[bg.at] \in TaskType /\ ~bg.fatal
           /\ bg.pc \in {"first", "settle", "decide"} \cup Verifying => task[bg.at].bound /\ Published(bg.at)
           /\ \A t \in Tasks : IdentityAlive(t) = "absent" => TokensOf(procs[t]) = {}
           /\ \A t \in Tasks : Published(t) => mon[t] \notin {"none", "queued"}
<1>1. bg \in BgType /\ task \in [Tasks -> TaskType] /\ reg \subseteq Tasks
  BY DEF HostBase, BgTypes
<1>2. bg.pc \in AtSteps => bg.at \in Tasks /\ task[bg.at] \in TaskType /\ ~bg.fatal
  BY <1>1 DEF HostBase, LaunchInv, AtSteps, Verifying
<1>3. bg.pc \in {"first", "settle", "decide"} \cup Verifying => task[bg.at].bound /\ Published(bg.at)
  BY <1>2 DEF HostBase, LaunchInv, AtSteps
<1>4. \A t \in Tasks : IdentityAlive(t) = "absent" => TokensOf(procs[t]) = {}
  BY DEF IdentityAlive, OwnerAlive
<1>5. \A t \in Tasks : Published(t) => mon[t] \notin {"none", "queued"}
  BY DEF Published
<1> QED BY <1>1, <1>2, <1>3, <1>4, <1>5

(* A step of the coroutine that edits no task and keeps the registry.      *)
LEMMA MoveSeats ==
    ASSUME HostBase, NEW next \in BgSteps \ {"idle", "sweep"}, Goes(next), UNCHANGED <<starter, mon, status, reused>>,
           UNCHANGED <<reg, task, told>>, killed' \in [Tasks -> BOOLEAN], foreign' \in BOOLEAN,
           \A t \in Tasks : TokensOf(procs[t]) = {} => TokensOf(procs'[t]) = {},
           bg.pc \in AtSteps,
           next \in {"setup", "upload", "dispatch"} => bg.pc \in {"setup", "upload"},
           bg.pc \in {"setup", "upload"} => next \in {"upload", "dispatch", "salvage"},
           next \in {"await", "first", "settle", "decide"} => FALSE,
           next \in Verifying => bg.pc \in Verifying,
           bg.pc \in {"await", "dispatch"} => next = "salvage",
           bg.pc \in Verifying => next \in Verifying,
           bg.pc \notin {"first", "settle", "decide", "salvage"},
           bg.op = "salvage" => next \in {"kill", "killAgain", "killed", "noneLeft"}
    PROVE  Seated
<1>1. SameRequest /\ bg'.pc = next
  BY GoesEffect DEF HostBase
<1>2. BgTypes'
  BY <1>1 DEF HostBase, BgTypes, SameRequest
<1>3. LaunchInv'
  BY <1>1 DEF HostBase, LaunchInv, SameRequest, Sweeping, Launched, Verifying, AtSteps, BgSteps, Published
<1>4. TaskEffect
  BY <1>1, BaseFacts DEF HostBase, TaskInv, TaskEffect, SameRequest, Verifying, AtSteps, Published
<1> QED BY <1>2, <1>3, <1>4 DEF Seated

(* A step that ends the request, and tells what was launched.              *)
LEMMA RestSeats ==
    ASSUME HostBase, NEW fatal \in BOOLEAN, Rests(fatal), ~bg.fatal,
           UNCHANGED <<remoteVars>>, UNCHANGED procs,
           \/ UNCHANGED task /\ (fatal \/ bg.pc \notin Verifying)
           \/ (bg.pc \in Verifying /\ \E rec \in TaskType : Gets(bg.at, rec) /\ rec.bound /\ rec.census
                                                      /\ rec.state # "running" /\ TokensOf(procs[bg.at]) = {}),
           \A t \in Tasks : told[t] # "none" => told'[t] # "none",
           told' \in [Tasks -> {"none", "refused", "retained", "quickExit"}],
           reg' \subseteq reg, \A t \in reg \ reg' : TokensOf(procs[t]) = {} /\ mon[t] # "queued",
           ~fatal => \A t \in Tasks : bg.at = t /\ Launched /\ mon[t] # "none" => told'[t] # "none",
           ~fatal => (bg.pc \in {"setup", "upload", "dispatch", "await", "salvage"} => bg.at \notin reg')
    PROVE  Seated
<1>a. /\ task' \in [Tasks -> TaskType]
      /\ \A t \in Tasks : task'[t].bound = task[t].bound
      /\ \A t \in Tasks : ~task[t].bound => task'[t] = task[t]
      /\ \A t \in Tasks : task'[t] = task[t] \/ (t = bg.at /\ bg.pc \in Verifying /\ task'[t].census
                                                  /\ task'[t].state # "running" /\ TokensOf(procs[t]) = {} /\ Published(t))
      /\ ~fatal /\ bg.pc \in Verifying => task'[bg.at].census
  <2>1. CASE UNCHANGED task /\ (fatal \/ bg.pc \notin Verifying)
    BY <2>1 DEF HostBase, BgTypes
  <2>2. CASE bg.pc \in Verifying /\ \E rec \in TaskType : Gets(bg.at, rec) /\ rec.bound /\ rec.census
                                                      /\ rec.state # "running" /\ TokensOf(procs[bg.at]) = {}
    <3>1. bg.at \in Tasks /\ task[bg.at].bound /\ Published(bg.at)
      BY <2>2, BaseFacts DEF AtSteps
    <3> QED BY <2>2, <3>1 DEF Gets
  <2> QED BY <2>1, <2>2
<1>2. BgTypes'
  BY <1>a DEF HostBase, BgTypes, Rests, remoteVars
<1>3. LaunchInv'
  <2>1. \A t \in Tasks : Published(t)' <=> Published(t)
    BY DEF remoteVars, Published
  <2>2. \A t \in reg' : task[t].bound \/ fatal
    BY DEF HostBase, LaunchInv
  <2>3. \A t \in Tasks : mon[t] # "none" => told'[t] # "none" \/ fatal
    BY DEF HostBase, LaunchInv
  <2>4. \A t \in Tasks : t \in reg' => t \in Tasks
    OBVIOUS
  <2>5. ~Sweeping' /\ bg'.pc = "idle" /\ bg'.op = "none" /\ bg'.fatal = fatal
    BY DEF Rests, Sweeping, Verifying
  <2>6. \A t \in Tasks : IF task'[t].bound THEN Published(t)' ELSE task'[t].state = "running" /\ ~task'[t].census
    BY <1>a, <2>1 DEF HostBase, LaunchInv
  <2>7. \A t \in Tasks : (starter'[t] = "waiting" => mon'[t] # "none") /\ (starter'[t] = "acked" => Published(t)')
    BY <2>1 DEF HostBase, LaunchInv, remoteVars
  <2>8. \A t \in reg' : task'[t].bound = task[t].bound
    BY <1>a DEF HostBase, BgTypes
  <2> QED BY <2>2, <2>3, <2>5, <2>6, <2>7, <2>8 DEF LaunchInv, AtSteps, Verifying, remoteVars
<1>4. TaskEffect
  <2>1. reg' \subseteq Tasks
    BY DEF HostBase, BgTypes
  <2>2. ~fatal => \A t \in reg' : task'[t].state # "running" => task'[t].census
    BY <1>a, <2>1 DEF HostBase, TaskInv
  <2> QED BY <1>a, <2>1, <2>2 DEF HostBase, TaskInv, TaskEffect, Rests
<1> QED BY <1>2, <1>3, <1>4 DEF Seated

(* _prune_background drops tombstones only.                                *)
LEMMA PrunedKeeps ==
    ASSUME HostBase, NEW kept \in SUBSET reg, Pruned(kept)
    PROVE  \A t \in reg \ kept : /\ task[t].census /\ task[t].state # "running"
                               /\ TokensOf(procs[t]) = {} /\ mon[t] # "queued"
  BY BaseFacts DEF Pruned, Terminal, HostBase, TaskInv

LEMMA SweepSeats ==
    ASSUME HostBase, NEW t \in Tasks, Visit(t)
    PROVE  Seated
<1>1. PICK rec \in IF task[t].exited THEN {task[t]} ELSE Refreshed(t) :
         /\ Store(t, rec)
         /\ bg' = IF NeedsCensus(rec) THEN [bg EXCEPT !.pc = "verify", !.at = t]
                  ELSE IF bg.op = "kill" THEN [bg EXCEPT !.pc = "decide", !.at = t]
                  ELSE [bg EXCEPT !.todo = @ \ {t}]
  BY DEF Visit
<1>2. bg.pc = "sweep" /\ t \in bg.todo /\ t \in reg /\ UNCHANGED <<procs, remoteVars, reg, told>>
  BY DEF Visit
<1>3. /\ rec \in TaskType /\ rec.bound = task[t].bound
      /\ rec = task[t] \/ task[t].state = "running"
      /\ rec.census => task[t].census
  BY <1>1, RefreshedType DEF HostBase
<1>4. Gets(t, rec)
  BY <1>1, <1>3, StoreEffect DEF HostBase
<1>5. ~bg.fatal /\ task[t].bound /\ Published(t)
  BY <1>2 DEF HostBase, LaunchInv
<1>6. /\ bg' \in BgType /\ bg'.op = bg.op /\ bg'.tgt = bg.tgt /\ bg'.fatal = bg.fatal
      /\ \/ NeedsCensus(rec) /\ bg'.pc = "verify" /\ bg'.at = t /\ bg'.todo = bg.todo
         \/ ~NeedsCensus(rec) /\ bg.op = "kill" /\ bg'.pc = "decide" /\ bg'.at = t /\ bg'.todo = bg.todo
         \/ ~NeedsCensus(rec) /\ bg.op # "kill" /\ bg'.pc = "sweep" /\ bg'.at = bg.at /\ bg'.todo = bg.todo \ {t}
  <2>1. ASSUME NEW b \in BgType, NEW g, NEW p \in {"verify", "decide"}, g = [b EXCEPT !.pc = p, !.at = t]
        PROVE  /\ g \in BgType /\ g.pc = p /\ g.at = t /\ g.todo = b.todo
               /\ g.op = b.op /\ g.tgt = b.tgt /\ g.fatal = b.fatal
    BY <2>1, ZenonT(60) DEF BgType, AtSteps, Verifying
  <2>2. ASSUME NEW b \in BgType, NEW g, g = [b EXCEPT !.todo = @ \ {t}]
        PROVE  g \in BgType /\ g.pc = b.pc /\ g.at = b.at /\ g.todo = b.todo \ {t} /\ g.op = b.op /\ g.tgt = b.tgt
               /\ g.fatal = b.fatal
    BY <2>2 DEF BgType
  <2>3. bg \in BgType
    BY DEF HostBase, BgTypes
  <2>4. CASE NeedsCensus(rec)
    BY <1>1, <2>1, <2>3, <2>4
  <2>5. CASE ~NeedsCensus(rec) /\ bg.op = "kill"
    BY <1>1, <2>1, <2>3, <2>5, ZenonT(60)
  <2>6. CASE ~NeedsCensus(rec) /\ bg.op # "kill"
    BY <1>1, <1>2, <2>2, <2>3, <2>6
  <2> QED BY <2>4, <2>5, <2>6
<1>7. NeedsCensus(rec) \/ rec.state = "running" \/ rec.census
  BY DEF NeedsCensus
<1> HIDE DEF NeedsCensus
<1>8. BgTypes'
  BY <1>2, <1>4, <1>6 DEF HostBase, BgTypes, Gets, remoteVars
<1>9. LaunchInv'
  <2>1. /\ \A u \in Tasks : task'[u].bound = task[u].bound
        /\ \A u \in Tasks : ~task[u].bound => task'[u] = task[u]
    BY <1>3, <1>4, <1>5 DEF Gets
  <2>2. \A u \in Tasks : Published(u)' <=> Published(u)
    BY <1>2 DEF remoteVars, Published
  <2>3. bg'.pc \in {"verify", "decide", "sweep"} /\ ~bg'.fatal /\ (bg'.pc # "sweep" => bg'.at = t)
    BY <1>5, <1>6
  <2>4. Sweeping' => bg'.tgt \in Tasks /\ mon'[bg'.tgt] = "none"
    BY <1>2, <1>6 DEF HostBase, LaunchInv, Sweeping, remoteVars
  <2>5. ~Launched
    BY <1>2 DEF Launched, Verifying
  <2>6. \A u \in Tasks : mon[u] # "none" => told[u] # "none"
    BY <1>5, <2>5 DEF HostBase, LaunchInv
  <2>7. \A u \in reg : task[u].bound
    BY <1>2, <1>5 DEF HostBase, LaunchInv
  <2>8. \A u \in Tasks : (starter'[u] = "waiting" => mon'[u] # "none") /\ (starter'[u] = "acked" => Published(u)')
    BY <1>2, <2>2 DEF HostBase, LaunchInv, remoteVars
  <2>9. \A u \in Tasks : IF task'[u].bound THEN Published(u)' ELSE task'[u].state = "running" /\ ~task'[u].census
    BY <2>1, <2>2 DEF HostBase, LaunchInv
  <2>10. reg' \subseteq Tasks /\ reg' = reg /\ UNCHANGED <<mon, told>>
    BY <1>2 DEF HostBase, BgTypes, remoteVars
  <2>11. bg'.op # "salvage"
    BY <1>2, <1>6 DEF HostBase, LaunchInv
  <2> QED BY <1>5, <2>1, <2>3, <2>4, <2>6, <2>7, <2>8, <2>9, <2>10, <2>11 DEF LaunchInv, AtSteps, Verifying
<1>10. TaskEffect
  <2>1. bg.pc \notin Verifying
    BY <1>2 DEF Verifying
  <2>2. \A u \in reg : task[u].state # "running" => task[u].census
    BY <1>5, <2>1 DEF HostBase, TaskInv
  <2>3. \A u \in Tasks : task[u].census => task[u].state # "running" /\ TokensOf(procs[u]) = {} /\ Published(u)
    BY DEF HostBase, TaskInv
  <2>4. \A u \in Tasks \ {t} : task'[u] = task[u]
    BY <1>4 DEF Gets
  <2>5. task'[t].state = rec.state /\ task'[t].census = rec.census
    BY <1>4 DEF Gets
  <2>6. task[t].census <=> rec.census
    BY <1>3, <2>3
  <2>7. rec.census => rec.state # "running"
    BY <1>3, <2>3
  <2>8. rec.state # "running" => rec.census \/ (bg'.at = t /\ bg'.pc \in Verifying)
    BY <1>6, <1>7 DEF Verifying
  <2>9. reg' = reg /\ procs' = procs /\ reg \subseteq Tasks
    BY <1>2 DEF HostBase, BgTypes
  <2> QED BY <2>2, <2>3, <2>4, <2>5, <2>6, <2>7, <2>8, <2>9 DEF TaskEffect
<1> QED BY <1>8, <1>9, <1>10 DEF Seated

(* A step that edits the bound task it is at and goes on inside a request. *)
LEMMA EditSeats ==
    ASSUME HostBase, bg.pc \in {"first"} \cup Verifying, bg.op # "salvage", NEW rec \in TaskType,
           Gets(bg.at, rec) \/ (UNCHANGED task /\ rec = task[bg.at]),
           rec.bound, UNCHANGED <<remoteVars, procs, reg, told>>,
           bg' \in BgType, bg'.op = bg.op, bg'.tgt = bg.tgt, bg'.at = bg.at, ~bg'.fatal,
           rec.census => task[bg.at].census \/ TokensOf(procs[bg.at]) = {},
           rec.census => rec.state # "running",
           task[bg.at].census => rec.census,
           rec.state # "running" => rec.census \/ bg'.pc \in Verifying,
           \/ bg'.pc \in Verifying /\ bg'.todo = bg.todo
           \/ bg.op = "kill" /\ bg'.pc = "decide" /\ bg'.todo = bg.todo
           \/ bg.pc \in Verifying /\ bg.op \notin {"kill", "salvage"} /\ bg.at \in bg.todo /\ bg'.pc = "sweep" /\ bg'.todo = bg.todo \ {bg.at}
           \/ bg.op # "kill" /\ bg.at \notin bg.todo /\ bg'.pc = "settle" /\ bg'.todo = bg.todo
    PROVE  Seated
<1> DEFINE t == bg.at
<1>1. t \in Tasks /\ task[t].bound /\ Published(t) /\ task[t] \in TaskType
  BY BaseFacts DEF AtSteps
<1>2. /\ task' \in [Tasks -> TaskType]
      /\ task'[t].state = rec.state /\ task'[t].census = rec.census /\ task'[t].bound = rec.bound
      /\ \A u \in Tasks \ {t} : task'[u] = task[u]
  BY <1>1 DEF Gets, HostBase, BgTypes
<1>3. ~bg.fatal
  BY BaseFacts DEF AtSteps
<1>4. BgTypes'
  BY <1>2 DEF HostBase, BgTypes, remoteVars
<1>5. LaunchInv'
  <2>1. /\ \A u \in Tasks : task'[u].bound = task[u].bound
        /\ \A u \in Tasks : ~task[u].bound => task'[u] = task[u]
    BY <1>1, <1>2
  <2>2. \A u \in Tasks : Published(u)' <=> Published(u)
    BY DEF remoteVars, Published
  <2>3. bg'.pc \in {"decide", "sweep", "settle"} \cup Verifying
    OBVIOUS
  <2>4. Sweeping' => Sweeping
    BY DEF HostBase, LaunchInv, Sweeping, Verifying
  <2>5. Launched => Launched' \/ bg.op = "kill"
    BY <1>1 DEF HostBase, LaunchInv, Launched, Verifying
  <2>6. ASSUME NEW u \in Tasks, mon[u] # "none"
        PROVE  told[u] # "none" \/ (t = u /\ Launched')
    <3>1. told[u] # "none" \/ (t = u /\ Launched)
      BY <1>3, <2>6 DEF HostBase, LaunchInv
    <3>2. bg.op = "kill" => ~Launched
      BY DEF HostBase, LaunchInv, Launched, Verifying
    <3> QED BY <2>5, <3>1, <3>2
  <2>7. \A u \in reg : task[u].bound
    BY <1>3 DEF HostBase, LaunchInv, Verifying
  <2>8. \A u \in Tasks : (starter'[u] = "waiting" => mon'[u] # "none") /\ (starter'[u] = "acked" => Published(u)')
    BY <2>2 DEF HostBase, LaunchInv, remoteVars
  <2>9. \A u \in Tasks : IF task'[u].bound THEN Published(u)' ELSE task'[u].state = "running" /\ ~task'[u].census
    BY <2>1, <2>2 DEF HostBase, LaunchInv
  <2>10. reg' \subseteq Tasks /\ reg' = reg /\ UNCHANGED <<mon, told>>
    BY DEF HostBase, BgTypes, remoteVars
  <2>11. Sweeping' => bg'.tgt \in Tasks /\ mon'[bg'.tgt] = "none"
    BY <2>4, <2>10 DEF HostBase, LaunchInv
  <2> HIDE DEF t
  <2> QED BY <1>1, <2>1, <2>3, <2>6, <2>7, <2>8, <2>9, <2>10, <2>11 DEF LaunchInv, AtSteps, Verifying, t
<1>6. TaskEffect
  <2>1. \A u \in reg : u # t /\ task[u].state # "running" => task[u].census
    BY <1>3 DEF HostBase, TaskInv
  <2>2. \A u \in Tasks : task[u].census => task[u].state # "running" /\ TokensOf(procs[u]) = {} /\ Published(u)
    BY DEF HostBase, TaskInv
  <2>3. reg' = reg /\ procs' = procs /\ reg \subseteq Tasks
    BY DEF HostBase, BgTypes
  <2> HIDE DEF t
  <2> QED BY <1>1, <1>2, <2>1, <2>2, <2>3 DEF TaskEffect, t
<1> QED BY <1>4, <1>5, <1>6 DEF Seated

(* A signal by identity: the owner's set shrinks, and a stranger is hit    *)
(* only if its pid is still taken for the leader's.                        *)
LEMMA SignalEffect ==
    ASSUME ProcTypes, BgTypes, NEW t \in Tasks, NEW outcomes, SignalIdentity(t, outcomes),
           \A q \in outcomes : q \in SUBSET procs[t]
    PROVE  /\ Lives(t)
           /\ foreign' \in BOOLEAN
           /\ foreign' => foreign \/ (reused[t] /\ "leader" \in procs[t])
<1>1. PICK p \in outcomes : procs' = [procs EXCEPT ![t] = p]
  BY DEF SignalIdentity, Put
<1>2. Lives(t)
  BY <1>1, OwnersDistinct, ShrinkLives
<1>3. foreign' = (foreign \/ (GroupSignal(t) /\ reused[t]))
  BY DEF SignalIdentity
<1>4. foreign \in BOOLEAN /\ reused[t] \in BOOLEAN
  BY DEF BgTypes
<1>5. foreign' \in BOOLEAN /\ (foreign' => foreign \/ (reused[t] /\ "leader" \in procs[t]))
  BY <1>3, <1>4, Zenon DEF GroupSignal
<1> QED BY <1>2, <1>5

(* The steps of the host but the registration of a task and its dispatch.  *)
LEMMA BeginSeats ==
    ASSUME HostBase, NEW op \in {"start", "output", "kill", "manifest"}, NEW tgt \in Tasks \cup {"none"},
           NEW todo \in SUBSET reg, Begin(op, tgt, todo),
           op = "start" => tgt \in Tasks /\ told[tgt] = "none"
    PROVE  Seated /\ UNCHANGED <<procs, reg, task>>
<1>1. bg = BgResting /\ UNCHANGED <<procs, remoteVars, reg, task, told, spool>>
  BY DEF Begin
<1>2. bg.pc = "idle" /\ bg.op = "none" /\ ~bg.fatal
  BY <1>1, BgRests
<1>3. /\ bg' \in BgType /\ bg'.pc = "sweep" /\ bg'.op = op /\ bg'.tgt = tgt /\ bg'.todo = todo /\ ~bg'.fatal
  <2>1. ASSUME NEW b \in BgType, NEW g, g = [b EXCEPT !.pc = "sweep", !.op = op, !.tgt = tgt, !.todo = todo]
        PROVE  g \in BgType /\ g.pc = "sweep" /\ g.op = op /\ g.tgt = tgt /\ g.todo = todo /\ g.fatal = b.fatal
    <3>1. todo \in SUBSET Tasks
      BY DEF HostBase, BgTypes
    <3> QED BY <2>1, <3>1 DEF BgType
  <2> QED BY <2>1, BgRests DEF Begin
<1>4. BgTypes'
  BY <1>1, <1>3 DEF HostBase, BgTypes, remoteVars
<1>5. ~Launched
  BY <1>2 DEF Launched, Verifying
<1>6. LaunchInv'
  <2>1. \A t \in Tasks : Published(t)' <=> Published(t)
    BY <1>1 DEF remoteVars, Published
  <2>2. \A t \in Tasks : mon[t] # "none" => told[t] # "none"
    BY <1>2, <1>5 DEF HostBase, LaunchInv
  <2>3. \A t \in reg : task[t].bound
    BY <1>2 DEF HostBase, LaunchInv
  <2>4. Sweeping' => tgt \in Tasks /\ mon[tgt] = "none"
    BY <1>3, <2>2 DEF Sweeping
  <2> QED BY <1>1, <1>3, <2>1, <2>2, <2>3, <2>4 DEF HostBase, LaunchInv, remoteVars, AtSteps, Verifying
<1>7. TaskEffect
  BY <1>1, <1>2, <1>3 DEF HostBase, BgTypes, TaskInv, TaskEffect, Verifying
<1> QED BY <1>1, <1>4, <1>6, <1>7 DEF Seated

LEMMA VerifySeats ==
    ASSUME HostBase, VerifyLiveness \/ VerifyEnded \/ ConfirmStopped \/ ConfirmFailed
    PROVE  Seated /\ UNCHANGED <<procs, mon, reused, foreign>>
<1> USE DEF Verifying
<1>a. bg.pc \in {"verify", "confirm"}
  BY DEF VerifyLiveness, VerifyEnded, ConfirmStopped, ConfirmFailed
<1>b. bg.at \in Tasks /\ task[bg.at] \in TaskType /\ task[bg.at].bound /\ Published(bg.at) /\ ~bg.fatal
  BY <1>a, BaseFacts DEF AtSteps
<1>c. task[bg.at].census => task[bg.at].state # "running"
  BY <1>b DEF HostBase, TaskInv
<1>d. killed \in [Tasks -> BOOLEAN] /\ foreign \in BOOLEAN
  BY DEF HostBase, BgTypes
<1>e. bg.op # "salvage"
  BY <1>a DEF HostBase, LaunchInv
<1>1. ASSUME NEW next \in {"confirm", "kill"}, Goes(next), UNCHANGED <<procs, remoteVars, reg, task, told>>
      PROVE  Seated
  BY <1>1, <1>a, <1>d, <1>e, MoveSeats DEF BgSteps, AtSteps, remoteVars
<1>2. ASSUME NEW rec \in TaskType, bg' = Resume, Gets(bg.at, rec), rec.bound,
             UNCHANGED <<procs, remoteVars, reg, told>>,
             rec.census => task[bg.at].census \/ TokensOf(procs[bg.at]) = {}, rec.census => rec.state # "running",
             task[bg.at].census => rec.census, rec.state # "running" => rec.census
      PROVE  Seated
  <2>1. /\ bg' \in BgType /\ bg'.op = bg.op /\ bg'.tgt = bg.tgt /\ bg'.at = bg.at /\ bg'.fatal = bg.fatal
        /\ \/ bg.op = "kill" /\ bg'.pc = "decide" /\ bg'.todo = bg.todo
           \/ bg.op # "kill" /\ bg.at \in bg.todo /\ bg'.pc = "sweep" /\ bg'.todo = bg.todo \ {bg.at}
           \/ bg.op # "kill" /\ bg.at \notin bg.todo /\ bg'.pc = "settle" /\ bg'.todo = bg.todo
    BY <1>2, ResumeEffect DEF HostBase
  <2> QED BY <1>2, <1>a, <1>b, <1>e, <2>1, EditSeats
<1>3. CASE VerifyLiveness
  <2>1. PICK a \in LivenessAnswers(bg.at) :
          CASE a = "alive" -> bg' = Resume /\ Update(bg.at, [task[bg.at] EXCEPT !.census = FALSE])
            [] a = "none" -> bg' = Resume /\ Update(bg.at, [task[bg.at] EXCEPT !.fresh = FALSE])
            [] OTHER -> Goes("confirm") /\ UNCHANGED task
    BY <1>3 DEF VerifyLiveness
  <2>2. /\ UNCHANGED <<procs, remoteVars, reg, told>> /\ task[bg.at].state = "running"
    BY <1>3 DEF VerifyLiveness
  <2>3. ~task[bg.at].census
    BY <1>c, <2>2
  <2>4. CASE Goes("confirm") /\ UNCHANGED task
    BY <1>1, <2>2, <2>4 DEF remoteVars
  <2>5. ASSUME NEW q, q = [task[bg.at] EXCEPT !.census = FALSE] \/ q = [task[bg.at] EXCEPT !.fresh = FALSE],
               bg' = Resume, Update(bg.at, q)
        PROVE  Seated
    <3>1. q \in TaskType /\ q.state = "running" /\ q.bound /\ ~q.census
      BY <1>b, <2>2, <2>3, <2>5, TaskEdits
    <3>2. Gets(bg.at, q)
      BY <1>b, <2>5, <3>1, UpdateEffect DEF HostBase
    <3> QED BY <1>2, <2>2, <2>3, <2>5, <3>1, <3>2
  <2> QED BY <2>1, <2>2, <2>4, <2>5 DEF remoteVars
<1>4. CASE VerifyEnded
  BY <1>1, <1>4 DEF VerifyEnded, remoteVars
<1>5. CASE ConfirmStopped
  <2>1. Gets(bg.at, Ended(task[bg.at]))
    BY <1>5, <1>b, EndedType, ConcludeEffect DEF ConfirmStopped, HostBase
  <2>2. TokensOf(procs[bg.at]) = {}
    BY <1>5, <1>b, BaseFacts DEF ConfirmStopped
  <2> QED BY <1>2, <1>5, <1>b, <2>1, <2>2, EndedType DEF ConfirmStopped, remoteVars
<1>6. CASE ConfirmFailed
  BY <1>1, <1>6 DEF ConfirmFailed, remoteVars
<1>7. UNCHANGED <<procs, mon, reused, foreign>>
  BY DEF VerifyLiveness, VerifyEnded, ConfirmStopped, ConfirmFailed, remoteVars
<1> QED BY <1>3, <1>4, <1>5, <1>6, <1>7

LEMMA TerminateSeats ==
    ASSUME HostBase, TerminateTerm \/ TerminateNone \/ TerminateKill
    PROVE  /\ Seated /\ UNCHANGED <<mon, reused>>
           /\ UNCHANGED procs \/ Lives(bg.at)
           /\ foreign' => foreign \/ (reused[bg.at] /\ "leader" \in procs[bg.at])
<1> USE DEF Verifying
<1>a. bg.pc \in {"kill", "killAgain"}
  BY DEF TerminateTerm, TerminateNone, TerminateKill
<1>b. bg.at \in Tasks /\ bg.at \in Owned /\ procs[bg.at] \in SUBSET Members
  BY <1>a, BaseFacts, OwnersDistinct DEF AtSteps, HostBase, ProcTypes
<1>c. killed \in [Tasks -> BOOLEAN] /\ foreign \in BOOLEAN /\ ProcTypes
  BY DEF HostBase, BgTypes
<1>d. ASSUME NEW next \in {"killAgain", "killed", "noneLeft"}, Goes(next), UNCHANGED <<starter, mon, status, reused>>,
             UNCHANGED <<reg, task, told>>, killed' \in [Tasks -> BOOLEAN], foreign' \in BOOLEAN,
             UNCHANGED procs \/ Lives(bg.at)
      PROVE  Seated
  <2>1. \A x \in Owned : TokensOf(procs[x]) = {} => TokensOf(procs'[x]) = {}
    BY <1>b, <1>c, <1>d, LivesEffect
  <2>2. \A t \in Tasks : TokensOf(procs[t]) = {} => TokensOf(procs'[t]) = {}
    BY <2>1, OwnersDistinct
  <2> QED BY <1>a, <1>d, <2>2, MoveSeats DEF BgSteps, AtSteps
<1>1. CASE TerminateTerm
  <2>1. SignalIdentity(bg.at, AfterTerm(procs[bg.at], SignalHits(bg.at))) /\ killed' = [killed EXCEPT ![bg.at] = TRUE]
        /\ Goes("killAgain") /\ UNCHANGED <<starter, mon, expired, status, reused, reg, task, told, spool>>
    BY <1>1 DEF TerminateTerm
  <2>0. \A q \in AfterTerm(procs[bg.at], SignalHits(bg.at)) : q \in SUBSET procs[bg.at]
    BY <1>b, SignalsShrink
  <2>2. /\ Lives(bg.at) /\ foreign' \in BOOLEAN
        /\ foreign' => foreign \/ (reused[bg.at] /\ "leader" \in procs[bg.at])
    BY <1>b, <1>c, <2>0, <2>1, SignalEffect DEF HostBase
  <2>3. killed' \in [Tasks -> BOOLEAN]
    BY <1>c, <2>1
  <2> QED BY <1>d, <2>1, <2>2, <2>3
<1>2. CASE TerminateNone
  <2>1. killed' = [killed EXCEPT ![bg.at] = TRUE] /\ Goes("noneLeft")
        /\ UNCHANGED <<procs, starter, mon, expired, status, reused, foreign, reg, task, told, spool>>
    BY <1>2 DEF TerminateNone
  <2>2. killed' \in [Tasks -> BOOLEAN] /\ foreign' \in BOOLEAN
    BY <1>c, <2>1
  <2> QED BY <1>d, <2>1, <2>2
<1>3. CASE TerminateKill
  <2>1. SignalIdentity(bg.at, AfterKill(procs[bg.at], SignalHits(bg.at))) /\ Goes("killed")
        /\ UNCHANGED <<starter, mon, expired, status, killed, reused, reg, task, told, spool>>
    BY <1>3 DEF TerminateKill
  <2>2. \A q \in AfterKill(procs[bg.at], SignalHits(bg.at)) : q \in SUBSET procs[bg.at]
    BY <1>b, SignalsShrink
  <2>3. /\ Lives(bg.at) /\ foreign' \in BOOLEAN
        /\ foreign' => foreign \/ (reused[bg.at] /\ "leader" \in procs[bg.at])
    BY <1>b, <1>c, <2>1, <2>2, SignalEffect DEF HostBase
  <2> QED BY <2>3, <1>c, <1>d, <2>1, <2>2
<1> QED BY <1>1, <1>2, <1>3

(* the steps at which a request of the host ends                           *)
Ends == Terminated \/ NotTerminated \/ Decide \/ RefuseStart \/ LaunchRefused \/ HandOff \/ SalvageEnded
            \/ SalvageUnknown \/ OutputDone

LEMMA EndsSeat ==
    ASSUME HostBase, Ends
    PROVE  Seated /\ UNCHANGED <<procs, remoteVars>>
<1> USE DEF Verifying
<1>a. UNCHANGED <<procs, remoteVars>>
  BY DEF Ends, Terminated, NotTerminated, Decide, RefuseStart, LaunchRefused, HandOff, SalvageEnded, SalvageUnknown,
         OutputDone
<1>b. told \in [Tasks -> {"none", "refused", "retained", "quickExit"}] /\ reg \subseteq Tasks /\ TRUE \in BOOLEAN
      /\ FALSE \in BOOLEAN
  BY DEF HostBase, BgTypes
<1>c. ASSUME NEW t \in Tasks, NEW what \in {"refused", "retained", "quickExit"}, told' = [told EXCEPT ![t] = what]
      PROVE  /\ told' \in [Tasks -> {"none", "refused", "retained", "quickExit"}] /\ told'[t] # "none"
             /\ \A u \in Tasks : told[u] # "none" => told'[u] # "none"
  BY <1>b, <1>c
<1>d. bg.pc \in AtSteps => bg.at \in Tasks /\ task[bg.at] \in TaskType /\ ~bg.fatal
  BY BaseFacts
<1>e. bg.pc \in {"first", "settle", "decide"} \cup Verifying => task[bg.at].bound /\ Published(bg.at)
  BY BaseFacts
<1>f. bg.pc # "idle" => ~bg.fatal
  BY DEF HostBase, LaunchInv
<1>g. ASSUME Fatal, task' = task, told' = told, bg.pc # "idle",
             \/ reg' = reg
             \/ reg' = reg \ {bg.at} /\ (bg.at \in reg => TokensOf(procs[bg.at]) = {} /\ mon[bg.at] # "queued")
      PROVE  Seated
  <2>1. Rests(TRUE)
    BY <1>a, <1>g, FatalEffect
  <2>2. reg' \subseteq reg /\ \A t \in reg \ reg' : TokensOf(procs[t]) = {} /\ mon[t] # "queued"
    BY <1>g
  <2> QED BY <1>a, <1>b, <1>f, <1>g, <2>1, <2>2, RestSeats
<1>1. CASE Terminated
  <2>1. bg.pc \in {"killed", "noneLeft"} /\ IdentityAlive(bg.at) = "absent" /\ UNCHANGED told
    BY <1>1 DEF Terminated
  <2>2. TokensOf(procs[bg.at]) = {} /\ mon[bg.at] # "queued"
    BY <1>d, <1>e, <2>1, BaseFacts DEF AtSteps
  <2>3. CASE bg.op = "salvage" /\ reg' = reg \ {bg.at} /\ Fatal /\ UNCHANGED <<task, spool>>
    BY <1>a, <1>g, <2>1, <2>2, <2>3
  <2>4. ASSUME bg.op # "salvage", NEW s \in EndStates(bg.at),
               Conclude(bg.at, [task[bg.at] EXCEPT !.census = TRUE, !.state = s, !.fresh = TRUE]),
               bg' = IF bg.op = "stop" THEN BgResting ELSE Resume, UNCHANGED reg
        PROVE  Seated
    <3>1. s \in {"none", "leaderExited", "completed", "failed", "cancelled"}
      BY <1>d, <2>1, <2>4 DEF EndStates, TaskType, AtSteps
    <3>2. PICK rec : rec = [task[bg.at] EXCEPT !.census = TRUE, !.state = s, !.fresh = TRUE]
      OBVIOUS
    <3>3. rec \in TaskType /\ rec.census /\ rec.state = s /\ rec.bound
      <4>1. ASSUME NEW r \in TaskType, NEW q, q = [r EXCEPT !.census = TRUE, !.state = s, !.fresh = TRUE]
            PROVE  q \in TaskType /\ q.census /\ q.state = s /\ q.bound = r.bound
        BY <3>1, <4>1 DEF TaskType
      <4> QED BY <1>d, <1>e, <2>1, <3>2, <4>1 DEF AtSteps
    <3>4. Gets(bg.at, rec)
      BY <1>d, <2>1, <2>4, <3>2, <3>3, ConcludeEffect DEF AtSteps, HostBase
    <3>5. CASE bg.op = "stop"
      <4>1. Rests(FALSE)
        BY <2>4, <3>5, RestEffect
      <4>2. \A t \in Tasks : bg.at = t => ~Launched
        BY <2>1, <3>5 DEF Launched
      <4> QED BY <1>a, <1>b, <1>d, <1>f, <2>1, <2>2, <2>4, <3>1, <3>3, <3>4, <4>1, <4>2, RestSeats
    <3>6. CASE bg.op # "stop"
      <4>1. bg' = Resume
        BY <2>4, <3>6
      <4>2. /\ bg' \in BgType /\ bg'.op = bg.op /\ bg'.tgt = bg.tgt /\ bg'.at = bg.at /\ bg'.fatal = bg.fatal
            /\ \/ bg.op = "kill" /\ bg'.pc = "decide" /\ bg'.todo = bg.todo
               \/ bg.op # "kill" /\ bg.at \in bg.todo /\ bg'.pc = "sweep" /\ bg'.todo = bg.todo \ {bg.at}
               \/ bg.op # "kill" /\ bg.at \notin bg.todo /\ bg'.pc = "settle" /\ bg'.todo = bg.todo
        BY <4>1, ResumeEffect DEF HostBase
      <4> QED BY <1>a, <1>d, <2>1, <2>2, <2>4, <3>1, <3>3, <3>4, <4>2, EditSeats DEF AtSteps
    <3> QED BY <3>5, <3>6
  <2> QED BY <1>1, <2>3, <2>4 DEF Terminated
<1>2. CASE NotTerminated
  BY <1>b, <1>g, <1>2 DEF NotTerminated
<1>3. CASE Decide
  <2>1. bg.pc = "decide" /\ UNCHANGED <<reg, task, told>>
    BY <1>3 DEF Decide
  <2>2. CASE task[bg.at].state # "running" /\ bg' = BgResting
    <3>1. Rests(FALSE)
      BY <2>2, RestEffect
    <3>2. ~Launched /\ bg.pc \notin Verifying
      BY <2>1 DEF Launched
    <3> QED BY <1>a, <1>b, <1>f, <2>1, <3>1, <3>2, RestSeats
  <2>3. CASE bg' = [bg EXCEPT !.pc = "kill", !.op = "stop"]
    <3>1. /\ bg' \in BgType /\ bg'.pc = "kill" /\ bg'.op = "stop" /\ bg'.tgt = bg.tgt /\ bg'.at = bg.at
          /\ bg'.fatal = bg.fatal
      <4>1. ASSUME NEW b \in BgType, NEW g, g = [b EXCEPT !.pc = "kill", !.op = "stop"]
            PROVE  g \in BgType /\ g.pc = "kill" /\ g.op = "stop" /\ g.tgt = b.tgt /\ g.at = b.at /\ g.fatal = b.fatal
        BY <4>1 DEF BgType, AtSteps
      <4> QED BY <2>3, <4>1 DEF HostBase, BgTypes
    <3>2. BgTypes'
      BY <1>a, <2>1, <3>1 DEF HostBase, BgTypes, remoteVars
    <3>3. ~Launched
      BY <2>1 DEF Launched
    <3>4. LaunchInv'
      <4>1. \A t \in Tasks : Published(t)' <=> Published(t)
        BY <1>a DEF remoteVars, Published
      <4>2. \A t \in Tasks : mon[t] # "none" => told[t] # "none"
        BY <1>f, <2>1, <3>3 DEF HostBase, LaunchInv
      <4>3. \A t \in reg : task[t].bound
        BY <1>f, <2>1 DEF HostBase, LaunchInv
      <4>4. ~Sweeping' /\ ~bg.fatal /\ bg.at \in Tasks /\ task[bg.at].bound
        BY <1>d, <1>e, <2>1, <3>1 DEF Sweeping, AtSteps
      <4> QED BY <1>a, <2>1, <3>1, <4>1, <4>2, <4>3, <4>4 DEF HostBase, LaunchInv, remoteVars, AtSteps
    <3>5. TaskEffect
      BY <1>a, <1>b, <2>1, <3>1 DEF HostBase, TaskInv, TaskEffect
    <3> QED BY <1>a, <3>2, <3>4, <3>5 DEF Seated
  <2> QED BY <1>3, <2>2, <2>3 DEF Decide
<1>4. CASE RefuseStart
  <2>1. PICK kept \in SUBSET reg : Pruned(kept) /\ reg' = kept
    BY <1>4 DEF RefuseStart
  <2>2. /\ bg.pc = "sweep" /\ bg.op = "start" /\ told' = [told EXCEPT ![bg.tgt] = "refused"] /\ bg' = BgResting
        /\ UNCHANGED task
    BY <1>4 DEF RefuseStart, Swept, Answer
  <2>3. Rests(FALSE) /\ bg.tgt \in Tasks /\ ~Launched
    BY <2>2, RestEffect DEF HostBase, LaunchInv, Sweeping, Launched
  <2>4. \A t \in reg \ reg' : TokensOf(procs[t]) = {} /\ mon[t] # "queued"
    BY <2>1, PrunedKeeps
  <2> QED BY <1>a, <1>b, <1>c, <1>f, <2>1, <2>2, <2>3, <2>4, RestSeats
<1>5. CASE LaunchRefused
  <2>1. bg.pc \in {"setup", "upload", "dispatch"} /\ reg' = reg \ {bg.at} /\ UNCHANGED task
    BY <1>5 DEF LaunchRefused
  <2>2. bg.at \in Tasks /\ mon[bg.at] = "none" /\ TokensOf(procs[bg.at]) = {}
    BY <1>d, <2>1 DEF AtSteps, HostBase, LaunchInv, TaskInv
  <2>3. CASE Fatal /\ UNCHANGED told
    BY <1>a, <1>g, <2>1, <2>2, <2>3
  <2>4. CASE Answer(bg.at, "refused")
    <3>1. told' = [told EXCEPT ![bg.at] = "refused"] /\ Rests(FALSE)
      BY <2>4, RestEffect DEF Answer
    <3>2. /\ told' \in [Tasks -> {"none", "refused", "retained", "quickExit"}] /\ told'[bg.at] # "none"
          /\ \A u \in Tasks : told[u] # "none" => told'[u] # "none"
      BY <1>c, <2>2, <3>1
    <3> QED BY <1>a, <1>b, <1>f, <2>1, <2>2, <3>1, <3>2, RestSeats
  <2> QED BY <1>5, <2>3, <2>4 DEF LaunchRefused
<1>6. CASE HandOff
  <2>1. bg.pc = "settle" /\ UNCHANGED task
    BY <1>6 DEF HandOff
  <2>2. bg.at \in Tasks /\ Published(bg.at) /\ mon[bg.at] # "queued"
    BY <1>d, <1>e, <2>1, BaseFacts DEF AtSteps
  <2>3. bg.at \in reg /\ task[bg.at].state # "running" => TokensOf(procs[bg.at]) = {}
    BY <1>f, <2>1, <2>2 DEF HostBase, TaskInv
  <2>4. reg' = reg \/ (reg' = reg \ {bg.at} /\ task[bg.at].state # "running")
    BY <1>6 DEF HandOff
  <2>5. \A t \in reg \ reg' : TokensOf(procs[t]) = {} /\ mon[t] # "queued"
    BY <2>2, <2>3, <2>4
  <2>6. CASE Fatal /\ UNCHANGED told
    BY <1>a, <1>g, <2>1, <2>2, <2>3, <2>4, <2>6
  <2>7. ASSUME NEW what \in {"retained", "quickExit"}, Answer(bg.at, what)
        PROVE  Seated
    <3>1. told' = [told EXCEPT ![bg.at] = what] /\ Rests(FALSE)
      BY <2>7, RestEffect DEF Answer
    <3>2. /\ told' \in [Tasks -> {"none", "refused", "retained", "quickExit"}] /\ told'[bg.at] # "none"
          /\ \A u \in Tasks : told[u] # "none" => told'[u] # "none"
      BY <1>c, <2>2, <3>1
    <3> QED BY <1>a, <1>b, <1>f, <2>1, <2>2, <2>4, <2>5, <3>1, <3>2, RestSeats
  <2> QED BY <1>6, <2>6, <2>7 DEF HandOff
<1>7. CASE SalvageEnded
  <2>1. /\ bg.pc = "salvage" /\ Published(bg.at) /\ IdentityAlive(bg.at) = "absent"
        /\ reg' = reg \ {bg.at} /\ Fatal /\ UNCHANGED <<task, told>>
    BY <1>7 DEF SalvageEnded
  <2>2. TokensOf(procs[bg.at]) = {} /\ mon[bg.at] # "queued"
    BY <1>d, <2>1, BaseFacts DEF AtSteps
  <2> QED BY <1>a, <1>g, <2>1, <2>2
<1>8. CASE SalvageUnknown
  BY <1>b, <1>g, <1>8 DEF SalvageUnknown
<1>9. CASE OutputDone
  <2>1. PICK kept \in SUBSET reg : Pruned(kept) /\ reg' = kept
    BY <1>9 DEF OutputDone
  <2>2. bg.pc = "sweep" /\ bg' = BgResting /\ UNCHANGED <<task, told>>
    BY <1>9 DEF OutputDone, Swept
  <2>3. Rests(FALSE) /\ ~Launched
    BY <2>2, RestEffect DEF Launched
  <2>4. \A t \in reg \ reg' : TokensOf(procs[t]) = {} /\ mon[t] # "queued"
    BY <2>1, PrunedKeeps
  <2> QED BY <1>a, <1>b, <1>f, <2>1, <2>2, <2>3, <2>4, RestSeats
<1> QED BY <1>a, <1>1, <1>2, <1>3, <1>4, <1>5, <1>6, <1>7, <1>8, <1>9 DEF Ends

(* The launch behind the registration, up to its first status.             *)
LEMMA LaunchSeats ==
    ASSUME HostBase, LaunchStep \/ LaunchAck \/ LaunchLost \/ FirstStatus \/ Salvage \/ CancelBackground
    PROVE  Seated /\ UNCHANGED <<procs, remoteVars>>
<1> USE DEF Verifying
<1>a. UNCHANGED <<procs, remoteVars, reg, told>>
  BY DEF LaunchStep, LaunchAck, LaunchLost, FirstStatus, Salvage, CancelBackground
<1>b. /\ told \in [Tasks -> {"none", "refused", "retained", "quickExit"}] /\ reg \subseteq Tasks
      /\ killed \in [Tasks -> BOOLEAN] /\ foreign \in BOOLEAN /\ TRUE \in BOOLEAN /\ bg \in BgType
  BY DEF HostBase, BgTypes
<1>d. bg.pc \in AtSteps => bg.at \in Tasks /\ task[bg.at] \in TaskType /\ ~bg.fatal
  BY BaseFacts
<1>f. bg.pc # "idle" => ~bg.fatal
  BY DEF HostBase, LaunchInv
<1>g. ASSUME NEW next \in {"upload", "dispatch", "salvage"}, Goes(next), task' = task,
             \/ next = "upload" /\ bg.pc = "setup"
             \/ next = "dispatch" /\ bg.pc = "upload"
             \/ next = "salvage" /\ bg.pc \in {"setup", "upload", "await"}
      PROVE  Seated
  <2>1. bg.op # "salvage"
    BY <1>g DEF HostBase, LaunchInv
  <2> QED BY <1>a, <1>b, <1>g, <2>1, MoveSeats DEF BgSteps, AtSteps, remoteVars
<1>p. \A t \in Tasks : Published(t)' <=> Published(t)
  BY <1>a DEF remoteVars, Published
(* the task at is bound now, and the coroutine goes on with it             *)
<1>h. ASSUME bg.pc \in {"await", "salvage", "first"}, Published(bg.at),
             NEW rec \in TaskType, Gets(bg.at, rec), rec.bound, rec.state = task[bg.at].state, rec.census = task[bg.at].census,
             bg' \in BgType, bg'.tgt = bg.tgt, bg'.at = bg.at, ~bg'.fatal, bg'.todo = bg.todo,
             \/ bg'.pc = "first" /\ bg'.op = bg.op /\ bg.pc = "await"
             \/ bg'.pc = "kill" /\ bg'.op = "salvage"
      PROVE  Seated
  <2>1. bg.at \in Tasks /\ ~bg.fatal
    BY <1>d, <1>h DEF AtSteps
  <2>2. BgTypes'
    BY <1>a, <1>h DEF HostBase, BgTypes, remoteVars, Gets
  <2>3. /\ task'[bg.at].bound /\ task'[bg.at].state = task[bg.at].state /\ task'[bg.at].census = task[bg.at].census
        /\ \A u \in Tasks \ {bg.at} : task'[u] = task[u]
    BY <1>h DEF Gets
  <2>4. LaunchInv'
    <3>1. Launched' /\ ~Sweeping' /\ bg'.pc \notin {"setup", "upload", "dispatch", "await"}
      BY <1>h DEF Launched, Sweeping, HostBase, LaunchInv
    <3>2. bg'.pc = "first" => bg'.op = "start" /\ bg'.todo = {} /\ bg'.at = bg'.tgt
      BY <1>h DEF HostBase, LaunchInv
    <3>3. \A t \in Tasks : mon[t] # "none" => told[t] # "none" \/ bg.at = t
      BY <2>1 DEF HostBase, LaunchInv
    <3>4. \A t \in reg : task'[t].bound
      BY <1>b, <2>1, <2>3 DEF HostBase, LaunchInv
    <3>5. \A t \in Tasks : (starter'[t] = "waiting" => mon'[t] # "none") /\ (starter'[t] = "acked" => Published(t)')
      BY <1>a, <1>p DEF HostBase, LaunchInv, remoteVars
    <3>6. \A t \in Tasks : IF task'[t].bound THEN Published(t)' ELSE task'[t].state = "running" /\ ~task'[t].census
      BY <1>h, <1>p, <2>3 DEF HostBase, LaunchInv
    <3>7. bg'.op = "salvage" => bg'.pc = "kill"
      BY <1>h DEF HostBase, LaunchInv
    <3>8. UNCHANGED <<mon, reg, told>>
      BY <1>a DEF remoteVars
    <3> QED BY <1>h, <2>1, <2>3, <3>1, <3>2, <3>3, <3>4, <3>5, <3>6, <3>7, <3>8 DEF LaunchInv, AtSteps
  <2>5. TaskEffect
    <3>1. \A t \in Tasks : task'[t].state = task[t].state /\ task'[t].census = task[t].census
      BY <2>3
    <3>2. \A t \in reg : task[t].state # "running" => task[t].census
      BY <1>h, <2>1 DEF HostBase, TaskInv
    <3> QED BY <1>a, <1>b, <3>1, <3>2 DEF HostBase, TaskInv, TaskEffect
  <2> QED BY <2>2, <2>4, <2>5 DEF Seated
<1>k. ASSUME NEW b \in BgType, NEW g, g = [b EXCEPT !.pc = "kill", !.op = "salvage"]
      PROVE  g \in BgType /\ g.pc = "kill" /\ g.op = "salvage" /\ g.tgt = b.tgt /\ g.at = b.at /\ g.fatal = b.fatal
             /\ g.todo = b.todo
  BY <1>k DEF BgType, AtSteps
<1>m. ASSUME NEW r \in TaskType, NEW q, q = [r EXCEPT !.bound = TRUE]
      PROVE  q \in TaskType /\ q.bound /\ q.state = r.state /\ q.census = r.census
  BY <1>m DEF TaskType
<1>1. CASE LaunchStep
  <2>1. task' = task
    BY <1>1 DEF LaunchStep
  <2>2. (bg.pc = "setup" /\ Goes("upload")) \/ (bg.pc = "upload" /\ Goes("dispatch"))
    BY <1>1, Zenon DEF LaunchStep
  <2>3. Seated
    BY <1>g, <2>1, <2>2
  <2> QED BY <1>a, <2>3
<1>2. CASE LaunchLost
  BY <1>a, <1>g, <1>2 DEF LaunchLost
<1>3. CASE LaunchAck
  <2>1. bg.pc = "await" /\ starter[bg.at] = "acked" /\ Goes("first")
        /\ Update(bg.at, [task[bg.at] EXCEPT !.bound = TRUE])
    BY <1>3 DEF LaunchAck
  <2>2. bg.at \in Tasks /\ task[bg.at] \in TaskType /\ ~bg.fatal /\ Published(bg.at)
    BY <1>d, <2>1 DEF AtSteps, HostBase, LaunchInv
  <2>3. PICK q : q = [task[bg.at] EXCEPT !.bound = TRUE]
    OBVIOUS
  <2>4. q \in TaskType /\ q.bound /\ q.state = task[bg.at].state /\ q.census = task[bg.at].census
    BY <1>m, <2>2, <2>3
  <2>5. Gets(bg.at, q)
    BY <2>1, <2>2, <2>3, <2>4, UpdateEffect DEF HostBase
  <2>6. SameRequest /\ bg'.pc = "first"
    BY <2>1, GoesEffect DEF HostBase, BgSteps, AtSteps
  <2> QED BY <1>a, <1>h, <2>1, <2>2, <2>4, <2>5, <2>6 DEF SameRequest
<1>4. CASE Salvage
  <2>1. bg.pc = "salvage" /\ Published(bg.at) /\ bg' = [bg EXCEPT !.pc = "kill", !.op = "salvage"]
        /\ Update(bg.at, [task[bg.at] EXCEPT !.bound = TRUE])
    BY <1>4 DEF Salvage
  <2>2. bg.at \in Tasks /\ task[bg.at] \in TaskType /\ ~bg.fatal
    BY <1>d, <2>1 DEF AtSteps
  <2>3. PICK q : q = [task[bg.at] EXCEPT !.bound = TRUE]
    OBVIOUS
  <2>4. q \in TaskType /\ q.bound /\ q.state = task[bg.at].state /\ q.census = task[bg.at].census
    BY <1>m, <2>2, <2>3
  <2>5. Gets(bg.at, q)
    BY <2>1, <2>2, <2>3, <2>4, UpdateEffect DEF HostBase
  <2>6. bg' \in BgType /\ bg'.pc = "kill" /\ bg'.op = "salvage" /\ bg'.tgt = bg.tgt /\ bg'.at = bg.at /\ ~bg'.fatal
        /\ bg'.todo = bg.todo
    BY <1>b, <1>k, <2>1, <2>2, ZenonT(60)
  <2> QED BY <1>a, <1>h, <2>1, <2>2, <2>4, <2>5, <2>6
<1>5. CASE FirstStatus
  <2>1. bg.pc = "first"
    BY <1>5 DEF FirstStatus
  <2>2. PICK rec \in Refreshed(bg.at) : Store(bg.at, rec) /\ Goes(IF NeedsCensus(rec) THEN "verify" ELSE "settle")
    BY <1>5 DEF FirstStatus
  <2>3. /\ bg.at \in Tasks /\ task[bg.at] \in TaskType /\ ~bg.fatal
        /\ task[bg.at].bound /\ bg.op = "start" /\ bg.todo = {}
    BY <1>d, <2>1 DEF AtSteps, HostBase, LaunchInv
  <2>4. /\ rec \in TaskType /\ rec.bound
        /\ rec = task[bg.at] \/ task[bg.at].state = "running"
        /\ rec.census => task[bg.at].census
    BY <2>2, <2>3, RefreshedType DEF HostBase
  <2>5. Gets(bg.at, rec)
    BY <2>2, <2>3, <2>4, StoreEffect DEF HostBase
  <2>6. task[bg.at].census => task[bg.at].state # "running"
    BY <2>3 DEF HostBase, TaskInv
  <2>7. NeedsCensus(rec) \/ rec.state = "running" \/ rec.census
    BY DEF NeedsCensus
  <2> HIDE DEF NeedsCensus
  <2>8. SameRequest /\ bg'.pc = IF NeedsCensus(rec) THEN "verify" ELSE "settle"
    BY <2>2, GoesEffect DEF HostBase, BgSteps, AtSteps
  <2>9. rec.census => rec.state # "running"
    BY <2>4, <2>6
  <2>10. task[bg.at].census => rec.census
    BY <2>4, <2>6
  <2>11. Seated
    BY <1>a, <2>1, <2>3, <2>4, <2>5, <2>7, <2>8, <2>9, <2>10, EditSeats DEF SameRequest, AtSteps
  <2> QED BY <1>a, <2>11
<1>6. CASE CancelBackground
  <2>1. bg.pc \in {"sweep", "verify", "setup", "upload", "first"} /\ UNCHANGED task
        /\ bg' = CASE bg.pc \in {"setup", "upload"} -> [bg EXCEPT !.pc = "salvage"]
                   [] bg.pc = "first" -> [bg EXCEPT !.pc = "kill", !.op = "salvage"]
                   [] OTHER -> [BgResting EXCEPT !.fatal = TRUE]
    BY <1>6 DEF CancelBackground
  <2>2. CASE bg.pc \in {"setup", "upload"}
    BY <1>a, <1>g, <2>1, <2>2 DEF Goes
  <2>3. CASE bg.pc = "first"
    <3>1. bg' = [bg EXCEPT !.pc = "kill", !.op = "salvage"]
      BY <2>1, <2>3
    <3>2. bg.at \in Tasks /\ task[bg.at] \in TaskType /\ ~bg.fatal /\ task[bg.at].bound /\ Published(bg.at)
      BY <1>d, <2>3, BaseFacts DEF AtSteps
    <3>3. Gets(bg.at, task[bg.at])
      BY <2>1, <3>2 DEF Gets, HostBase, BgTypes
    <3>4. bg' \in BgType /\ bg'.pc = "kill" /\ bg'.op = "salvage" /\ bg'.tgt = bg.tgt /\ bg'.at = bg.at /\ ~bg'.fatal
          /\ bg'.todo = bg.todo
      <4>1. bg \in BgType
        BY DEF HostBase, BgTypes
      <4>2. PICK g : g = bg'
        OBVIOUS
      <4>3. /\ g \in BgType /\ g.pc = "kill" /\ g.op = "salvage" /\ g.tgt = bg.tgt
            /\ g.at = bg.at /\ g.todo = bg.todo /\ g.fatal = bg.fatal
        BY <1>k, <3>1, <4>1, <4>2, Zenon
      <4> QED BY <3>2, <4>2, <4>3
    <3> QED BY <1>a, <1>h, <2>3, <3>2, <3>3, <3>4
  <2>4. CASE bg.pc \in {"sweep", "verify"}
    <3>1. Fatal
      BY <2>1, <2>4 DEF Fatal
    <3>2. Rests(TRUE)
      BY <3>1, FatalEffect
    <3>3. Seated
      BY <1>a, <1>b, <1>f, <2>1, <2>4, <3>2, RestSeats
    <3> QED BY <1>a, <3>3
  <2> QED BY <2>1, <2>2, <2>3, <2>4
<1> QED BY <1>1, <1>2, <1>3, <1>4, <1>5, <1>6

(* The registration of the task to start.                                  *)
LEMMA RegisterEffect ==
    ASSUME HostBase, RegisterTask
    PROVE  /\ BgTypes' /\ LaunchInv' /\ UNCHANGED <<procs, remoteVars, task>>
           /\ bg.tgt \in Tasks /\ bg.tgt \in reg' /\ reg' \subseteq reg \cup {bg.tgt}
           /\ \A t \in reg \ reg' : TokensOf(procs[t]) = {} /\ mon[t] # "queued"
           /\ \A t \in reg' : task[t].state # "running" => task[t].census
           /\ \A t \in reg' \ {bg.tgt} : t \in Live \/ task[t].census
           /\ Cardinality(Live) < MaxBackground
<1>1. bg.pc = "sweep" /\ bg.todo = {} /\ bg.op = "start" /\ Room /\ UNCHANGED <<procs, remoteVars, task, told, spool>>
  BY DEF RegisterTask, Swept
<1>2. PICK kept \in SUBSET reg : Pruned(kept) /\ reg' = kept \cup {bg.tgt}
  BY DEF RegisterTask
<1>3. bg' \in BgType /\ bg'.pc = "setup" /\ bg'.op = "start" /\ bg'.tgt = bg.tgt /\ bg'.at = bg.tgt /\ bg'.todo = {}
      /\ bg'.fatal = bg.fatal
  <2>1. ASSUME NEW b \in BgType, NEW g, g = [b EXCEPT !.pc = "setup", !.at = b.tgt]
        PROVE  g \in BgType /\ g.pc = "setup" /\ g.op = b.op /\ g.tgt = b.tgt /\ g.at = b.tgt /\ g.todo = b.todo
               /\ g.fatal = b.fatal
    BY <2>1 DEF BgType, AtSteps
  <2> QED BY <1>1, <2>1 DEF RegisterTask, HostBase, BgTypes
<1>4. bg.tgt \in Tasks /\ mon[bg.tgt] = "none" /\ ~bg.fatal /\ ~Launched
  BY <1>1 DEF HostBase, LaunchInv, Sweeping, Launched, Verifying
<1>5. reg \subseteq Tasks /\ reg' \subseteq Tasks
  BY <1>2, <1>4 DEF HostBase, BgTypes
<1>6. BgTypes'
  BY <1>1, <1>3, <1>5 DEF HostBase, BgTypes, remoteVars
<1>7. LaunchInv'
  <2>1. \A t \in Tasks : Published(t)' <=> Published(t)
    BY <1>1 DEF remoteVars, Published
  <2>2. \A t \in Tasks : mon[t] # "none" => told[t] # "none"
    BY <1>4 DEF HostBase, LaunchInv
  <2>3. \A t \in reg : task[t].bound
    BY <1>1, <1>4 DEF HostBase, LaunchInv
  <2>4. ~Sweeping'
    BY <1>3 DEF Sweeping, Verifying
  <2>5. bg.tgt \in reg' /\ \A t \in reg' : t \in reg \/ t = bg.tgt
    BY <1>2
  <2> QED BY <1>1, <1>3, <1>4, <1>5, <2>1, <2>2, <2>3, <2>4, <2>5 DEF HostBase, LaunchInv, remoteVars, AtSteps,
      Verifying
<1>8. \A t \in reg \ reg' : TokensOf(procs[t]) = {} /\ mon[t] # "queued"
  BY <1>2, PrunedKeeps
<1>9. \A t \in reg : task[t].state # "running" => task[t].census
  BY <1>1, <1>4 DEF HostBase, TaskInv, Verifying
<1>10. task[bg.tgt].state = "running"
  BY <1>4, BaseFacts DEF HostBase, LaunchInv
<1>11. Cardinality(Live) < MaxBackground
  BY <1>1 DEF Room
<1>12. \A t \in reg' \ {bg.tgt} : t \in Live \/ task[t].census
  BY <1>2, <1>9 DEF Live
<1> QED BY <1>1, <1>2, <1>4, <1>6, <1>7, <1>8, <1>9, <1>10, <1>11, <1>12

(* The dispatch of a start.                                                *)
LEMMA DispatchEffect ==
    ASSUME HostBase, LaunchDispatch
    PROVE  /\ BgTypes' /\ LaunchInv' /\ UNCHANGED <<procs, reused, foreign, reg, task>>
           /\ bg.at \in reg /\ mon[bg.at] = "none" /\ mon' = [mon EXCEPT ![bg.at] = "queued"]
           /\ ~bg.fatal /\ ~bg'.fatal /\ bg.pc \notin Verifying
<1>1. /\ bg.pc = "dispatch" /\ Goes("await") /\ mon' = [mon EXCEPT ![bg.at] = "queued"]
      /\ starter' = [starter EXCEPT ![bg.at] = "waiting"]
      /\ UNCHANGED <<procs, expired, status, killed, reused, foreign, reg, task, told, spool>>
  BY DEF LaunchDispatch
<1>2. SameRequest /\ bg'.pc = "await"
  BY <1>1, GoesEffect DEF HostBase, BgSteps, AtSteps
<1>3. bg.at \in reg /\ bg.at \in Tasks /\ mon[bg.at] = "none" /\ bg.op = "start" /\ bg.todo = {} /\ bg.at = bg.tgt
      /\ ~bg.fatal
  BY <1>1 DEF HostBase, LaunchInv, BgTypes
<1>4. /\ mon' \in [Tasks -> MonSteps] /\ mon'[bg.at] = "queued" /\ \A t \in Tasks \ {bg.at} : mon'[t] = mon[t]
      /\ starter' \in [Tasks -> {"none", "waiting", "acked", "gaveUp"}] /\ starter'[bg.at] = "waiting"
      /\ \A t \in Tasks \ {bg.at} : starter'[t] = starter[t]
  BY <1>1, <1>3 DEF HostBase, BgTypes, MonSteps
<1>5. BgTypes'
  BY <1>1, <1>2, <1>4 DEF HostBase, BgTypes, SameRequest
<1>6. LaunchInv'
  <2>1. \A t \in Tasks \ {bg.at} : Published(t)' <=> Published(t)
    BY <1>4 DEF Published
  <2>2. ~Published(bg.at)
    BY <1>3 DEF Published
  <2>3. ~Launched /\ Launched' /\ ~Sweeping'
    BY <1>1, <1>2 DEF Launched, Sweeping, Verifying
  <2>4. ~task[bg.at].bound
    BY <1>3, <2>2 DEF HostBase, LaunchInv
  <2>5. \A t \in Tasks : mon'[t] # "none" => told[t] # "none" \/ bg.at = t
    BY <1>3, <1>4, <2>3 DEF HostBase, LaunchInv
  <2>6. \A t \in Tasks : IF task[t].bound THEN Published(t)' ELSE task[t].state = "running" /\ ~task[t].census
    BY <2>1, <2>4 DEF HostBase, LaunchInv
  <2>7. \A t \in Tasks : (starter'[t] = "waiting" => mon'[t] # "none") /\ (starter'[t] = "acked" => Published(t)')
    BY <1>4, <2>1 DEF HostBase, LaunchInv
  <2>8. \A t \in reg : task[t].bound \/ bg.at = t
    BY <1>3 DEF HostBase, LaunchInv
  <2> QED BY <1>1, <1>2, <1>3, <2>3, <2>5, <2>6, <2>7, <2>8 DEF LaunchInv, SameRequest, AtSteps, Verifying
<1> QED BY <1>1, <1>2, <1>3, <1>5, <1>6 DEF SameRequest, Verifying

(***************************************************************************)
(* The monitor.                                                            *)
(***************************************************************************)
(* Once it has published, a monitor fills nothing; before, only a set that *)
(* the host holds.  A pid is free for a stranger only behind the leader.   *)
MonitorMoves(t) ==
    /\ UNCHANGED <<foreign, reg, task, bg, told>>
    /\ mon' \in [Tasks -> MonSteps] /\ \A u \in Tasks \ {t} : mon'[u] = mon[u]
    /\ mon[t] # "none" /\ mon'[t] \notin {"none", "queued"}
    /\ Published(t) => mon'[t] \in {"ready", "exited", "final"}
    /\ \/ UNCHANGED procs
       \/ Lives(t)
       \/ /\ mon[t] = "queued" \/ (mon[t] = "up" /\ TokensOf(procs[t]) # {})
          /\ \E p \in SUBSET Members : procs' = [procs EXCEPT ![t] = p]
    /\ starter' \in [Tasks -> {"none", "waiting", "acked", "gaveUp"}]
    /\ \A u \in Tasks \ {t} : starter'[u] = starter[u]
    /\ starter'[t] = "acked" => Published(t)
    /\ status' \in [Tasks -> {"none", "running", "leaderExited", "completed", "failed", "cancelled"}]
    /\ killed' \in [Tasks -> BOOLEAN]
    /\ reused' \in [Tasks -> BOOLEAN] /\ \A u \in Tasks \ {t} : reused'[u] = reused[u]
    /\ reused'[t] => reused[t] \/ (Published(t) /\ "leader" \notin procs[t] /\ UNCHANGED procs)

LEMMA MonitorEffect ==
    ASSUME HostBase, NEW t \in Tasks, (Monitor(t) \/ BehaveBackground(t) \/ ReusePid(t)) /\ UNCHANGED hostVars
    PROVE  MonitorMoves(t)
<1>a. /\ mon \in [Tasks -> MonSteps] /\ starter \in [Tasks -> {"none", "waiting", "acked", "gaveUp"}]
      /\ status \in [Tasks -> {"none", "running", "leaderExited", "completed", "failed", "cancelled"}]
      /\ killed \in [Tasks -> BOOLEAN] /\ reused \in [Tasks -> BOOLEAN]
      /\ UNCHANGED <<reg, task, bg, told>>
  BY DEF HostBase, BgTypes, hostVars
<1>b. t \in Owned /\ procs[t] \in SUBSET Members /\ ProcTypes
  BY OwnersDistinct DEF HostBase, ProcTypes
<1>c. starter[t] = "acked" => Published(t)
  BY DEF HostBase, LaunchInv
<1>d. ASSUME NEW p \in SUBSET procs[t], Put(t, p)
      PROVE  Lives(t)
  BY <1>b, <1>d, ShrinkLives DEF Put
<1>e. Others(t) \in SUBSET procs[t]
  BY DEF Others
<1>f. Published(t) <=> mon[t] \in {"ready", "exited", "final"}
  BY DEF Published
<1>g. starter[t] = "waiting" => mon[t] # "none"
  BY DEF HostBase, LaunchInv
(* the monitor writes nothing but its own step, its processes and status   *)
<1>h. ASSUME NEW from \in MonSteps \ {"none", "queued"}, NEW to \in MonSteps \ {"none", "queued"},
             MonStep(t, from, to),
             from \in {"ready", "exited", "final"} => to \in {"ready", "exited", "final"},
             UNCHANGED <<starter, killed, reused, foreign>>,
             status' = status \/ \E s \in {"running", "leaderExited", "completed", "failed", "cancelled"} :
                                      status' = [status EXCEPT ![t] = s],
             \/ UNCHANGED procs
             \/ Lives(t)
             \/ from = "up" /\ \E p \in SUBSET Members : procs' = [procs EXCEPT ![t] = p]
      PROVE  MonitorMoves(t)
  <2>1. mon[t] = from /\ TokensOf(procs[t]) # {} /\ mon' = [mon EXCEPT ![t] = to]
    BY <1>h DEF MonStep, TokensOf
  <2>2. mon' \in [Tasks -> MonSteps] /\ mon'[t] = to /\ \A u \in Tasks \ {t} : mon'[u] = mon[u]
    BY <1>a, <2>1
  <2>3. status' \in [Tasks -> {"none", "running", "leaderExited", "completed", "failed", "cancelled"}]
    BY <1>a, <1>h
  <2> QED BY <1>a, <1>c, <1>f, <1>h, <2>1, <2>2, <2>3 DEF MonitorMoves
<1>1. CASE MonitorUp(t)
  <2>1. mon[t] = "queued" /\ mon' = [mon EXCEPT ![t] = "up"] /\ procs' = [procs EXCEPT ![t] = {"monitor"}]
        /\ UNCHANGED <<starter, expired, status, killed, reused, foreign>>
    BY <1>1 DEF MonitorUp, Put
  <2>2. mon' \in [Tasks -> MonSteps] /\ mon'[t] = "up" /\ \A u \in Tasks \ {t} : mon'[u] = mon[u]
    BY <1>a, <2>1 DEF MonSteps
  <2>3. {"monitor"} \in SUBSET Members
    BY DEF Members
  <2> QED BY <1>a, <1>c, <1>f, <2>1, <2>2, <2>3 DEF MonitorMoves
<1>2. CASE MonitorFork(t)
  <2>1. MonStep(t, "up", "gated") /\ procs' = [procs EXCEPT ![t] = procs[t] \cup {"leader"}]
    BY <1>2 DEF MonitorFork, Put
  <2>2. procs[t] \cup {"leader"} \in SUBSET Members
    BY <1>b DEF Members
  <2> QED BY <1>2, <1>h, <2>1, <2>2 DEF MonSteps, MonitorFork
<1>3. CASE MonitorPublish(t)
  BY <1>3, <1>h DEF MonSteps, MonitorPublish
<1>4. CASE MonitorFail(t)
  <2>1. Put(t, Others(t)) /\ UNCHANGED <<starter, expired, status, killed, reused, foreign>>
    BY <1>4 DEF MonitorFail
  <2>2. Lives(t)
    BY <1>d, <1>e, <2>1
  <2> QED BY <1>4, <1>h, <2>1, <2>2 DEF MonSteps, MonitorFail
<1>5. CASE MonitorExpire(t)
  <2>1. PICK p \in IF expired[t] = 0 THEN AfterTerm(procs[t], Others(t)) ELSE AfterKill(procs[t], Others(t)) : Put(t, p)
    BY <1>5 DEF MonitorExpire
  <2>2. p \in SUBSET procs[t]
    BY <1>b, <2>1, SignalsShrink
  <2>3. Lives(t)
    BY <1>d, <2>1, <2>2
  <2> QED BY <1>5, <1>h, <2>3 DEF MonSteps, MonitorExpire
<1>6. CASE StartAck(t)
  <2>1. Published(t) /\ starter' = [starter EXCEPT ![t] = "acked"]
        /\ UNCHANGED <<procs, mon, expired, status, killed, reused, foreign>>
    BY <1>6 DEF StartAck
  <2> QED BY <1>a, <1>f, <2>1 DEF MonitorMoves
<1>7. CASE StartGivesUp(t)
  <2>1. starter[t] = "waiting" /\ mon[t] # "queued" /\ starter' = [starter EXCEPT ![t] = "gaveUp"]
        /\ mon' = [mon EXCEPT ![t] = IF Published(t) THEN @ ELSE "gone"]
        /\ UNCHANGED <<expired, status, killed, reused, foreign>>
    BY <1>7 DEF StartGivesUp
  <2>2. PICK p \in AfterKill(procs[t], Members) : Put(t, p)
    BY <1>7 DEF StartGivesUp
  <2>3. Lives(t)
    BY <1>b, <1>d, <2>2, SignalsShrink
  <2>4. /\ mon' \in [Tasks -> MonSteps] /\ \A u \in Tasks \ {t} : mon'[u] = mon[u]
        /\ mon'[t] = IF Published(t) THEN mon[t] ELSE "gone"
    BY <1>a, <2>1 DEF MonSteps
  <2> QED BY <1>a, <1>f, <1>g, <2>1, <2>3, <2>4 DEF MonitorMoves
<1>8. CASE MonitorReap(t)
  BY <1>8, <1>h DEF MonSteps, MonitorReap
<1>9. CASE MonitorLeaderExit(t)
  BY <1>9, <1>h DEF MonSteps, MonitorLeaderExit
<1>10. CASE MonitorFinal(t)
  <2>1. PICK s \in FinalState(t) : status' = [status EXCEPT ![t] = s]
    BY <1>10 DEF MonitorFinal
  <2>2. s \in {"running", "leaderExited", "completed", "failed", "cancelled"}
    BY <2>1 DEF FinalState
  <2>3. Lives(t)
    BY <1>10, <1>d, <1>e DEF MonitorFinal
  <2> QED BY <1>10, <1>h, <2>1, <2>2, <2>3 DEF MonSteps, MonitorFinal
<1>11. CASE MonitorMismatch(t)
  <2>1. Lives(t)
    BY <1>11, <1>d, <1>e DEF MonitorMismatch
  <2> QED BY <1>11, <1>h, <2>1 DEF MonSteps, MonitorMismatch
<1>12. CASE BehaveBackground(t)
  <2>1. PICK p \in Behaviours(procs[t]) : Put(t, p)
    BY <1>12 DEF BehaveBackground
  <2>2. Lives(t)
    BY <1>b, <2>1, BehavioursOfSome DEF Lives, Put
  <2> QED BY <1>12, <1>a, <1>c, <1>f, <2>2 DEF MonitorMoves, BehaveBackground
<1>13. CASE ReusePid(t)
  <2>1. Published(t) /\ "leader" \notin procs[t] /\ reused' = [reused EXCEPT ![t] = TRUE]
        /\ UNCHANGED <<procs, starter, mon, expired, status, killed, foreign>>
    BY <1>13 DEF ReusePid, GroupAlive, GroupOf
  <2> QED BY <1>a, <1>f, <2>1 DEF MonitorMoves
<1> QED BY <1>1, <1>2, <1>3, <1>4, <1>5, <1>6, <1>7, <1>8, <1>9, <1>10, <1>11, <1>12, <1>13 DEF Monitor

(***************************************************************************)
(* The background's invariant.                                             *)
(***************************************************************************)
BgInv == HostBase /\ StrangerInv /\ BoundInv

LEMMA MonitorKeeps ==
    ASSUME BgInv, UNCHANGED cu, NEW t \in Tasks, MonitorMoves(t)
    PROVE  BgInv'
<1>a. t \in Owned /\ ProcTypes /\ \A u \in Tasks : u \in Owned
  BY OwnersDistinct DEF BgInv, HostBase
<1>b. ProcTypes' /\ \A u \in Owned \ {t} : procs'[u] = procs[u]
  BY <1>a, LivesEffect, ForkEffect DEF MonitorMoves, ProcTypes
<1>c. Published(t) => /\ TokensOf(procs[t]) = {} => TokensOf(procs'[t]) = {}
                      /\ "leader" \in procs'[t] => "leader" \in procs[t]
  BY <1>a, LivesEffect DEF MonitorMoves, Published
<1>d. TokensOf(procs'[t]) # {} => TokensOf(procs[t]) # {} \/ mon[t] = "queued"
  BY <1>a, LivesEffect DEF MonitorMoves
<1>e. \A u \in Tasks : Published(u) => Published(u)'
  BY DEF MonitorMoves, Published
<1>1. BgTypes'
  BY DEF BgInv, HostBase, BgTypes, MonitorMoves
<1>2. LaunchInv'
  <2>1. \A u \in Tasks : mon[u] = "none" => mon'[u] = "none"
    BY DEF MonitorMoves
  <2>2. \A u \in Tasks : mon'[u] = "none" => mon[u] = "none"
    BY DEF MonitorMoves
  <2>3. \A u \in Tasks : (starter'[u] = "waiting" => mon'[u] # "none") /\ (starter'[u] = "acked" => Published(u)')
    BY <1>e DEF BgInv, HostBase, LaunchInv, MonitorMoves
  <2>4. \A u \in Tasks : IF task[u].bound THEN Published(u)' ELSE task[u].state = "running" /\ ~task[u].census
    BY <1>e DEF BgInv, HostBase, LaunchInv
  <2>5. UNCHANGED <<reg, task, bg, told>>
    BY DEF MonitorMoves
  <2>6. (Launched' <=> Launched) /\ (Sweeping' <=> Sweeping)
    BY <2>5 DEF Launched, Sweeping, Verifying
  <2>7. bg.pc \in {"setup", "upload", "dispatch"} => bg.at \in reg /\ bg.at \in Tasks /\ mon'[bg.at] = "none"
    BY <2>1 DEF BgInv, HostBase, LaunchInv, BgTypes
  <2>8. Sweeping => bg.tgt \in Tasks /\ mon'[bg.tgt] = "none"
    BY <2>1 DEF BgInv, HostBase, LaunchInv
  <2>9. \A u \in Tasks : mon'[u] # "none" => told[u] # "none" \/ bg.fatal \/ (bg.at = u /\ Launched)
    BY <2>1 DEF BgInv, HostBase, LaunchInv
  <2> QED BY <2>3, <2>4, <2>5, <2>6, <2>7, <2>8, <2>9 DEF BgInv, HostBase, LaunchInv
<1>3. TaskInv'
  <2>1. UNCHANGED <<reg, task, bg, cu>>
    BY DEF MonitorMoves
  <2>2. \A u \in Tasks : mon'[u] \in {"none", "queued"} => TokensOf(procs'[u]) = {}
    BY <1>a, <1>b DEF BgInv, HostBase, TaskInv, MonitorMoves
  <2>3. \A u \in Tasks : mon'[u] = "queued" \/ TokensOf(procs'[u]) # {} => u \in reg
    BY <1>a, <1>b, <1>d DEF BgInv, HostBase, TaskInv, MonitorMoves
  <2>4. \A u \in Tasks : TokensOf(procs[u]) = {} /\ Published(u) => TokensOf(procs'[u]) = {} /\ Published(u)'
    BY <1>a, <1>b, <1>c, <1>e
  <2> QED BY <2>1, <2>2, <2>3, <2>4 DEF BgInv, HostBase, TaskInv
<1>4. StrangerInv'
  BY <1>a, <1>b, <1>c, <1>e DEF BgInv, StrangerInv, MonitorMoves
<1>5. BoundInv'
  BY DEF BgInv, BoundInv, MonitorMoves
<1> QED BY <1>b, <1>1, <1>2, <1>3, <1>4, <1>5 DEF BgInv, HostBase

(* A host's step that is seated keeps the invariant.                       *)
LEMMA SeatedKeeps ==
    ASSUME BgInv, UNCHANGED <<cu, mon, reused>>, Seated,
           UNCHANGED procs \/ (bg.at \in Tasks /\ Lives(bg.at)),
           foreign' => foreign \/ (bg.at \in Tasks /\ reused[bg.at] /\ "leader" \in procs[bg.at])
    PROVE  BgInv'
<1>a. ProcTypes /\ \A u \in Tasks : u \in Owned
  BY OwnersDistinct DEF BgInv, HostBase
<1>b. /\ ProcTypes'
      /\ \A u \in Tasks : TokensOf(procs[u]) = {} => TokensOf(procs'[u]) = {}
      /\ \A u \in Tasks : "leader" \in procs'[u] => "leader" \in procs[u]
  BY <1>a, LivesEffect DEF ProcTypes
<1>c. BgTypes' /\ LaunchInv' /\ TaskEffect /\ BgTypes
  BY DEF Seated, BgInv, HostBase
<1>d. \A u \in Tasks : Published(u)' <=> Published(u)
  BY DEF Published
<1>1. TaskInv'
  <2>1. \A t \in Tasks : mon[t] \in {"none", "queued"} => TokensOf(procs'[t]) = {}
    BY <1>b DEF BgInv, HostBase, TaskInv
  <2>2. \A t \in Tasks : mon[t] = "queued" \/ TokensOf(procs'[t]) # {} => t \in reg'
    BY <1>b, <1>c DEF BgInv, HostBase, TaskInv, TaskEffect
  <2>3. \A t \in Tasks : task'[t].census => TokensOf(procs'[t]) = {} /\ Published(t)' /\ task'[t].state # "running"
    BY <1>c, <1>d DEF TaskEffect
  <2>4. \A t \in Tasks : t \in cu.zero => TokensOf(procs'[t]) = {} /\ Published(t)'
    BY <1>b, <1>d DEF BgInv, HostBase, TaskInv
  <2> QED BY <1>c, <2>1, <2>2, <2>3, <2>4 DEF TaskInv, TaskEffect
<1>2. StrangerInv'
  BY <1>b, <1>d DEF BgInv, StrangerInv
<1>3. BoundInv'
  <2> DEFINE S == {t \in reg : ~task[t].census}
             T == {t \in reg' : ~task'[t].census}
  <2>1. T \subseteq S
    BY <1>c DEF TaskEffect, BgTypes
  <2>2. IsFiniteSet(S)
    BY <1>c, TasksAssumption, FS_Subset DEF BgTypes
  <2>3. Cardinality(T) <= Cardinality(S) /\ Cardinality(T) \in Nat /\ Cardinality(S) \in Nat
    BY <2>1, <2>2, FS_Subset, FS_CardinalityType
  <2>4. Cardinality(S) <= MaxBackground
    BY DEF BgInv, BoundInv
  <2>5. Cardinality(T) <= MaxBackground
    BY <2>3, <2>4, TasksAssumption
  <2> QED BY <2>5 DEF BoundInv
<1> QED BY <1>b, <1>c, <1>1, <1>2, <1>3 DEF BgInv, HostBase

LEMMA RegisterKeeps ==
    ASSUME BgInv, UNCHANGED cu, RegisterTask
    PROVE  BgInv'
<1>a. HostBase
  BY DEF BgInv
<1>b. /\ BgTypes' /\ LaunchInv' /\ UNCHANGED <<procs, remoteVars, task>>
      /\ bg.tgt \in Tasks /\ bg.tgt \in reg' /\ reg' \subseteq reg \cup {bg.tgt}
      /\ \A t \in reg \ reg' : TokensOf(procs[t]) = {} /\ mon[t] # "queued"
      /\ \A t \in reg' : task[t].state # "running" => task[t].census
      /\ \A t \in reg' \ {bg.tgt} : t \in Live \/ task[t].census
      /\ Cardinality(Live) < MaxBackground
  BY <1>a, RegisterEffect
<1>c. UNCHANGED <<mon, reused, foreign>> /\ \A u \in Tasks : Published(u)' <=> Published(u)
  BY <1>b DEF remoteVars, Published
<1>1. TaskInv'
  <2>1. \A t \in Tasks : mon[t] = "queued" \/ TokensOf(procs[t]) # {} => t \in reg'
    BY <1>a, <1>b DEF HostBase, TaskInv
  <2> QED BY <1>a, <1>b, <1>c, <2>1 DEF HostBase, TaskInv
<1>2. StrangerInv'
  BY <1>b, <1>c DEF BgInv, StrangerInv
<1>3. BoundInv'
  <2> DEFINE T == {t \in reg' : ~task'[t].census}
  <2>1. T \subseteq Live \cup {bg.tgt}
    BY <1>b
  <2>2. IsFiniteSet(Live) /\ IsFiniteSet(Live \cup {bg.tgt})
    <3>1. IsFiniteSet(Live)
      BY <1>a, TasksAssumption, FS_Subset DEF HostBase, BgTypes, Live
    <3> QED BY <3>1, FS_AddElement
  <2>3. Cardinality(Live \cup {bg.tgt}) <= Cardinality(Live) + 1 /\ Cardinality(Live) \in Nat
    <3>1. Cardinality(Live) \in Nat
      BY <2>2, FS_CardinalityType
    <3>2. Cardinality(Live \cup {bg.tgt}) = IF bg.tgt \in Live THEN Cardinality(Live) ELSE Cardinality(Live) + 1
      BY <2>2, FS_AddElement
    <3> QED BY <3>1, <3>2
  <2>4. Cardinality(T) <= Cardinality(Live \cup {bg.tgt}) /\ Cardinality(T) \in Nat
        /\ Cardinality(Live \cup {bg.tgt}) \in Nat
    BY <2>1, <2>2, FS_Subset, FS_CardinalityType
  <2>5. Cardinality(T) <= MaxBackground
    BY <1>b, <2>3, <2>4, TasksAssumption
  <2> QED BY <2>5 DEF BoundInv
<1>4. ProcTypes'
  BY <1>a, <1>b DEF HostBase, ProcTypes
<1> QED BY <1>b, <1>1, <1>2, <1>3, <1>4 DEF BgInv, HostBase

LEMMA DispatchKeeps ==
    ASSUME BgInv, UNCHANGED cu, LaunchDispatch
    PROVE  BgInv'
<1>a. HostBase
  BY DEF BgInv
<1>b. /\ BgTypes' /\ LaunchInv' /\ UNCHANGED <<procs, reused, foreign, reg, task>>
      /\ bg.at \in reg /\ mon[bg.at] = "none" /\ mon' = [mon EXCEPT ![bg.at] = "queued"]
      /\ ~bg.fatal /\ ~bg'.fatal /\ bg.pc \notin Verifying
  BY <1>a, DispatchEffect
<1>c. bg.at \in Tasks /\ ~Published(bg.at) /\ \A u \in Tasks : Published(u) => Published(u)'
  BY <1>a, <1>b DEF HostBase, BgTypes, Published
<1>d. mon'[bg.at] = "queued" /\ \A u \in Tasks \ {bg.at} : mon'[u] = mon[u]
  BY <1>a, <1>b, <1>c DEF HostBase, BgTypes
<1>1. TaskInv'
  BY <1>a, <1>b, <1>c, <1>d DEF HostBase, TaskInv
<1>2. StrangerInv'
  BY <1>b, <1>c DEF BgInv, StrangerInv
<1>3. BoundInv'
  BY <1>b DEF BgInv, BoundInv
<1>4. ProcTypes'
  BY <1>a, <1>b DEF HostBase, ProcTypes
<1> QED BY <1>b, <1>1, <1>2, <1>3, <1>4 DEF BgInv, HostBase

(* Every step of the background keeps the invariant of the background.     *)
LEMMA BackgroundKeeps ==
    ASSUME BgInv, UNCHANGED cu, BackgroundStep
    PROVE  BgInv'
<1>a. HostBase /\ bg.pc \in AtSteps => bg.at \in Tasks
  BY BaseFacts DEF BgInv
<1>b. HostBase
  BY DEF BgInv
<1>c. ASSUME Seated, UNCHANGED <<procs, remoteVars>>
      PROVE  BgInv'
  BY <1>c, SeatedKeeps DEF remoteVars
<1>1. ASSUME NEW t \in Tasks, Visit(t)
      PROVE  BgInv'
  <2>1. UNCHANGED <<procs, remoteVars>>
    BY <1>1 DEF Visit
  <2> QED BY <1>b, <1>c, <1>1, <2>1, SweepSeats
<1>2. CASE VerifyLiveness \/ VerifyEnded \/ ConfirmStopped \/ ConfirmFailed
  <2>1. Seated /\ UNCHANGED <<procs, mon, reused, foreign>>
    BY <1>b, <1>2, VerifySeats
  <2> QED BY <2>1, SeatedKeeps
<1>3. CASE TerminateTerm \/ TerminateNone \/ TerminateKill
  <2>1. /\ Seated /\ UNCHANGED <<mon, reused>>
        /\ UNCHANGED procs \/ Lives(bg.at)
        /\ foreign' => foreign \/ (reused[bg.at] /\ "leader" \in procs[bg.at])
    BY <1>b, <1>3, TerminateSeats
  <2>2. bg.at \in Tasks
    BY <1>a, <1>b, <1>3 DEF TerminateTerm, TerminateNone, TerminateKill, AtSteps, Verifying
  <2> QED BY <2>1, <2>2, SeatedKeeps
<1>4. CASE Ends
  BY <1>b, <1>c, <1>4, EndsSeat
<1>5. CASE LaunchStep \/ LaunchAck \/ LaunchLost \/ FirstStatus \/ Salvage \/ CancelBackground
  BY <1>b, <1>c, <1>5, LaunchSeats
<1>6. CASE RegisterTask
  BY <1>6, RegisterKeeps
<1>7. CASE LaunchDispatch
  BY <1>7, DispatchKeeps
<1> QED BY <1>1, <1>2, <1>3, <1>4, <1>5, <1>6, <1>7, Zenon DEF BackgroundStep, BackgroundHost, Ends

LEMMA RequestsKeep ==
    ASSUME BgInv, UNCHANGED cu,
           \/ \E t \in Tasks : StartBackground(t) \/ KillCommand(t)
           \/ \E todo \in SUBSET Tasks : TerminalOutput(todo)
           \/ BackgroundManifest
    PROVE  BgInv'
<1>b. HostBase /\ reg \subseteq Tasks
  BY DEF BgInv, HostBase, BgTypes
<1>c. ASSUME NEW op \in {"start", "output", "kill", "manifest"}, NEW tgt \in Tasks \cup {"none"},
             NEW todo \in SUBSET reg, Begin(op, tgt, todo),
             op = "start" => tgt \in Tasks /\ told[tgt] = "none"
      PROVE  BgInv'
  <2>1. Seated
    BY <1>b, <1>c, BeginSeats
  <2>2. UNCHANGED <<procs, mon, reused, foreign>>
    BY <1>c DEF Begin, remoteVars
  <2> QED BY <2>1, <2>2, SeatedKeeps
<1>1. ASSUME NEW t \in Tasks, StartBackground(t)
      PROVE  BgInv'
  BY <1>1, <1>c DEF StartBackground
<1>2. ASSUME NEW t \in Tasks, KillCommand(t)
      PROVE  BgInv'
  BY <1>2, <1>c DEF KillCommand
<1>3. ASSUME NEW todo \in SUBSET Tasks, TerminalOutput(todo)
      PROVE  BgInv'
  BY <1>3, <1>c DEF TerminalOutput
<1>4. CASE BackgroundManifest
  BY <1>4, <1>c DEF BackgroundManifest
<1> QED BY <1>1, <1>2, <1>3, <1>4

(***************************************************************************)
(* Snapshots.                                                              *)
(***************************************************************************)
SnInv == ProcTypes /\ SnTypes /\ SnapInv

(* The supervisor forks before it publishes the lease and never again, and *)
(* writes a verified terminal record behind an empty set only.             *)
SupMoves(s) ==
    /\ start' \in [Snapshots -> {"none", "queued", "begun", "gaveUp"}]
    /\ sup' \in [Snapshots -> SupSteps]
    /\ terminal' \in [Snapshots -> {"none", "cancelling", "timingOut", "exiting", "completed", "failed", "timedOut",
                                    "cancelled", "unverified"}]
    /\ \A u \in Snapshots \ {s} : start'[u] = start[u] /\ sup'[u] = sup[u] /\ terminal'[u] = terminal[u]
    /\ start'[s] = "none" <=> start[s] = "none"
    /\ sup'[s] \in {"none", "up"} => UNCHANGED procs /\ (sup[s] = sup'[s] \/ (sup[s] = "none" /\ start[s] # "none"))
    /\ sup'[s] # sup[s] => sup[s] # "none" \/ start[s] # "none"
    /\ LeasePublished(s) => sup'[s] \in {"watching", "term", "kill", "confirm", "done", "gone", "killed"}
    /\ VerifiedTerminal(s)' => VerifiedTerminal(s) \/ (procs[s] = {} /\ UNCHANGED procs /\ sup'[s] = "done")
    /\ \/ UNCHANGED procs
       \/ Lives(s)
       \/ sup[s] = "up" /\ \E p \in SUBSET Members : procs' = [procs EXCEPT ![s] = p]

LEMMA SupervisorEffect ==
    ASSUME ProcTypes, SnTypes, SnapInv, NEW s \in Snapshots, (SnapshotScript(s) \/ BehaveSnapshot(s))
    PROVE  SupMoves(s)
<1>a. /\ start \in [Snapshots -> {"none", "queued", "begun", "gaveUp"}]
      /\ sup \in [Snapshots -> SupSteps]
      /\ terminal \in [Snapshots -> {"none", "cancelling", "timingOut", "exiting", "completed", "failed", "timedOut",
                                     "cancelled", "unverified"}]
  BY DEF SnTypes
<1>b. s \in Owned /\ procs[s] \in SUBSET Members
  BY OwnersDistinct DEF ProcTypes
<1>c. LeasePublished(s) <=> sup[s] \in {"watching", "term", "kill", "confirm", "done", "gone", "killed"}
  BY DEF LeasePublished
<1>d. ASSUME NEW p \in SUBSET procs[s], procs' = [procs EXCEPT ![s] = p]
      PROVE  Lives(s)
  BY <1>b, <1>d, ShrinkLives
<1>e. OwnedAlive(procs[s]) <=> procs[s] # {}
  BY <1>b, AliveMeansSome
<1>f. terminal'[s] = terminal[s] => (VerifiedTerminal(s)' <=> VerifiedTerminal(s))
  BY DEF VerifiedTerminal
<1>g. sup[s] \in {"none", "up"} => procs[s] = {}
  BY DEF SnapInv
(* the supervisor's own steps                                              *)
<1>h. ASSUME NEW from \in SupSteps \ {"none"}, NEW to \in SupSteps \ {"none", "up"}, SupStep(s, from, to),
             from \in {"watching", "term", "kill", "confirm", "done"} =>
                 to \in {"watching", "term", "kill", "confirm", "done", "gone"},
             from \notin {"gone", "killed"},
             UNCHANGED start,
             \/ UNCHANGED terminal
             \/ \E v \in {"cancelling", "timingOut", "exiting", "unverified"} : terminal' = [terminal EXCEPT ![s] = v]
             \/ /\ to = "done" /\ procs[s] = {} /\ UNCHANGED procs
                /\ \E v \in {"completed", "failed", "timedOut", "cancelled"} : terminal' = [terminal EXCEPT ![s] = v],
             \/ UNCHANGED procs
             \/ Lives(s)
             \/ from = "up" /\ \E p \in SUBSET Members : procs' = [procs EXCEPT ![s] = p]
      PROVE  SupMoves(s)
  <2>1. sup[s] = from /\ sup' = [sup EXCEPT ![s] = to]
    BY <1>h DEF SupStep
  <2>2. sup' \in [Snapshots -> SupSteps] /\ sup'[s] = to /\ \A u \in Snapshots \ {s} : sup'[u] = sup[u]
    BY <1>a, <2>1
  <2>3. terminal' \in [Snapshots -> {"none", "cancelling", "timingOut", "exiting", "completed", "failed", "timedOut",
                                     "cancelled", "unverified"}]
        /\ \A u \in Snapshots \ {s} : terminal'[u] = terminal[u]
    BY <1>a, <1>h
  <2>4. VerifiedTerminal(s)' => VerifiedTerminal(s) \/ (procs[s] = {} /\ UNCHANGED procs /\ to = "done")
    BY <1>a, <1>h DEF VerifiedTerminal
  <2> QED BY <1>a, <1>c, <1>h, <2>1, <2>2, <2>3, <2>4 DEF SupMoves
(* steps of snapshot-start, of the gate and of snapshot-release            *)
<1>i. ASSUME UNCHANGED <<start, sup, terminal>>, UNCHANGED procs \/ Lives(s)
      PROVE  SupMoves(s)
  <2>1. sup[s] \in {"none", "up"} => UNCHANGED procs
    <3>1. ASSUME sup[s] \in {"none", "up"}, Lives(s)
          PROVE  UNCHANGED procs
      <4>1. procs[s] = {}
        BY <1>g, <3>1
      <4>2. PICK p \in SUBSET Members : procs' = [procs EXCEPT ![s] = p] /\ (procs[s] = {} => p = {})
        BY <3>1 DEF Lives
      <4> QED BY <1>b, <4>1, <4>2 DEF ProcTypes
    <3> QED BY <1>i, <3>1
  <2> QED BY <1>a, <1>c, <1>f, <1>i, <2>1 DEF SupMoves
<1>1. CASE SupervisorUp(s)
  <2>1. /\ start[s] = "queued" /\ start' = [start EXCEPT ![s] = "begun"]
        /\ sup[s] = "none" /\ sup' = [sup EXCEPT ![s] = "up"]
        /\ UNCHANGED <<procs, rel, intent, requested, ran, terminal>>
    BY <1>1 DEF SupervisorUp, SupStep
  <2>2. sup' \in [Snapshots -> SupSteps] /\ sup'[s] = "up" /\ \A u \in Snapshots \ {s} : sup'[u] = sup[u]
    BY <1>a, <2>1 DEF SupSteps
  <2>3. start' \in [Snapshots -> {"none", "queued", "begun", "gaveUp"}] /\ start'[s] = "begun"
        /\ \A u \in Snapshots \ {s} : start'[u] = start[u]
    BY <1>a, <2>1
  <2> QED BY <1>a, <1>c, <1>f, <2>1, <2>2, <2>3 DEF SupMoves
<1>2. CASE StartTimesOut(s)
  <2>1. start[s] = "begun" /\ start' = [start EXCEPT ![s] = "gaveUp"]
        /\ UNCHANGED <<procs, sup, rel, requested, ran, terminal>>
    BY <1>2 DEF StartTimesOut
  <2>2. start' \in [Snapshots -> {"none", "queued", "begun", "gaveUp"}] /\ start'[s] = "gaveUp"
        /\ \A u \in Snapshots \ {s} : start'[u] = start[u]
    BY <1>a, <2>1
  <2> QED BY <1>a, <1>c, <1>f, <2>1, <2>2 DEF SupMoves
<1>3. CASE SupervisorFork(s)
  <2>1. SupStep(s, "up", "forked") /\ procs' = [procs EXCEPT ![s] = {"leader"}] /\ UNCHANGED <<start, terminal>>
        /\ {"leader"} \in SUBSET Members
    BY <1>3 DEF SupervisorFork, Members
  <2> QED BY <1>h, <2>1 DEF SupSteps
<1>4. CASE SupervisorLease(s)
  BY <1>4, <1>h DEF SupSteps, SupervisorLease
<1>5. CASE SupervisorFails(s)
  BY <1>5, <1>h DEF SupSteps, SupervisorFails
<1>6. CASE GateOpens(s)
  BY <1>6, <1>i DEF GateOpens
<1>7. CASE GateCancels(s)
  <2>1. procs[s] \ {"leader"} \in SUBSET procs[s] /\ procs' = [procs EXCEPT ![s] = procs[s] \ {"leader"}]
        /\ UNCHANGED <<start, sup, rel, intent, requested, ran, terminal>>
    BY <1>7 DEF GateCancels
  <2> QED BY <1>d, <1>i, <2>1
<1>8. CASE SupervisorEnds(s)
  <2>1. PICK v \in {"cancelling", "timingOut", "exiting"} : terminal' = [terminal EXCEPT ![s] = v]
    BY <1>8 DEF SupervisorEnds
  <2> QED BY <1>8, <1>h, <2>1 DEF SupSteps, SupervisorEnds
<1>9. ASSUME NEW outcomes, \A q \in outcomes : q \in SUBSET procs[s], Signalled(s, outcomes)
      PROVE  Lives(s)
  BY <1>9, <1>d DEF Signalled
<1>10. CASE SupervisorTerm(s)
  <2>1. Lives(s)
    BY <1>b, <1>9, <1>10, SignalsShrink DEF SupervisorTerm
  <2> QED BY <1>10, <1>h, <2>1 DEF SupSteps, SupervisorTerm
<1>11. CASE SupervisorKill(s)
  <2>1. Lives(s)
    BY <1>b, <1>9, <1>11, SignalsShrink DEF SupervisorKill
  <2> QED BY <1>11, <1>h, <2>1 DEF SupSteps, SupervisorKill
<1>12. CASE SupervisorSettles(s)
  <2>1. PICK v \in Verdict(s) : Publish(s, v)
    BY <1>12 DEF SupervisorSettles
  <2>2. v \in {"completed", "failed", "timedOut", "cancelled"}
    BY <2>1 DEF Verdict
  <2>3. procs[s] = {}
    BY <1>e, <1>12 DEF SupervisorSettles
  <2> QED BY <1>h, <2>1, <2>2, <2>3 DEF SupSteps, Publish
<1>13. CASE SupervisorUnverified(s)
  BY <1>13, <1>h DEF SupSteps, SupervisorUnverified, Publish
<1>14. CASE SupervisorExits(s)
  BY <1>14, <1>h DEF SupSteps, SupervisorExits
<1>15. CASE ReleaseChecks(s)
  BY <1>15, <1>i DEF ReleaseChecks
<1>16. CASE ReleaseLands(s)
  BY <1>16, <1>i DEF ReleaseLands
<1>17. CASE BehaveSnapshot(s)
  <2>1. PICK p \in Behaviours(procs[s]) : procs' = [procs EXCEPT ![s] = p]
    BY <1>17 DEF BehaveSnapshot
  <2>2. /\ p \in SUBSET Members /\ procs[s] # {} /\ ("leader" \in p => "leader" \in procs[s])
        /\ TokensOf(procs[s]) = {} => TokensOf(p) = {}
    BY <1>b, <2>1, BehavioursOfSome
  <2>3. Lives(s)
    BY <2>1, <2>2 DEF Lives
  <2> QED BY <1>17, <1>i, <2>3 DEF BehaveSnapshot, snRemote
<1> QED BY <1>1, <1>2, <1>3, <1>4, <1>5, <1>6, <1>7, <1>8, <1>10, <1>11, <1>12, <1>13, <1>14, <1>15, <1>16, <1>17
        DEF SnapshotScript

LEMMA SupervisorKeeps ==
    ASSUME SnInv, UNCHANGED <<cu, snHost>>, NEW s \in Snapshots, SupMoves(s)
    PROVE  SnInv'
<1>a. s \in Owned /\ ProcTypes /\ \A u \in Snapshots : u \in Owned
  BY OwnersDistinct DEF SnInv
<1>b. ProcTypes' /\ \A u \in Owned \ {s} : procs'[u] = procs[u]
  BY <1>a, LivesEffect, ForkEffect DEF SupMoves, ProcTypes
<1>c. sup[s] # "up" /\ procs[s] = {} => procs'[s] = {}
  BY <1>a, LivesEffect DEF SupMoves
<1>d. \A u \in Snapshots : LeasePublished(u) => LeasePublished(u)' /\ sup[u] # "up"
  BY DEF SupMoves, LeasePublished
<1>e. UNCHANGED <<snaps, leased, sn, snOut, cu>>
  BY DEF snHost
<1>1. SnTypes'
  BY <1>e DEF SnInv, SnTypes, SupMoves
<1>2. \A u \in Snapshots : Settled(u) => Settled(u)'
  <2>1. ASSUME NEW u \in Snapshots, Settled(u)
        PROVE  Settled(u)'
    <3>1. sup[u] # "up"
      BY <1>d, <2>1 DEF Settled, SnInv, SnapInv
    <3>2. procs'[u] = {}
      BY <1>a, <1>b, <1>c, <2>1, <3>1 DEF Settled
    <3>3. start[u] = "none" => start'[u] = "none"
      BY DEF SupMoves
    <3> QED BY <1>d, <2>1, <3>2, <3>3 DEF Settled
  <2> QED BY <2>1
<1>3. \A u \in Snapshots : start'[u] = "none" <=> start[u] = "none"
  BY DEF SupMoves
<1>4. \A u \in Snapshots : start'[u] = "none" => sup'[u] = "none"
  BY <1>3 DEF SnInv, SnapInv, SupMoves
<1>5. \A u \in Snapshots : sup'[u] \in {"none", "up"} => procs'[u] = {}
  <2>1. ASSUME NEW u \in Snapshots, sup'[u] \in {"none", "up"}
        PROVE  procs'[u] = {}
    <3>1. CASE u # s
      BY <1>a, <1>b, <2>1, <3>1 DEF SnInv, SnapInv, SupMoves
    <3>2. CASE u = s
      BY <2>1, <3>2 DEF SnInv, SnapInv, SupMoves
    <3> QED BY <3>1, <3>2
  <2> QED BY <2>1
<1>6. \A u \in Snapshots : VerifiedTerminal(u)' => procs'[u] = {} /\ LeasePublished(u)'
  <2>1. ASSUME NEW u \in Snapshots, VerifiedTerminal(u)'
        PROVE  procs'[u] = {} /\ LeasePublished(u)'
    <3>1. CASE VerifiedTerminal(u)
      <4>1. procs[u] = {} /\ LeasePublished(u)
        BY <3>1 DEF SnInv, SnapInv
      <4> QED BY <1>a, <1>b, <1>c, <1>d, <4>1
    <3>2. CASE ~VerifiedTerminal(u)
      <4>1. u = s
        BY <2>1, <3>2 DEF SupMoves, VerifiedTerminal
      <4> QED BY <2>1, <3>2, <4>1 DEF SupMoves, LeasePublished
    <3> QED BY <3>1, <3>2
  <2> QED BY <2>1
<1>7. \A u \in Snapshots : u \in cu.zero => procs'[u] = {} /\ LeasePublished(u)'
  BY <1>a, <1>b, <1>c, <1>d DEF SnInv, SnapInv
<1>8. sn.pc # "idle" => sn.at \in Snapshots
  BY DEF SnInv, SnTypes, SnapInv
<1>9. SnapInv'
  BY <1>2, <1>3, <1>4, <1>5, <1>6, <1>7, <1>8, <1>e DEF SnInv, SnapInv
<1> QED BY <1>b, <1>1, <1>9 DEF SnInv

LEMMA SnapshotHostKeeps ==
    ASSUME SnInv, UNCHANGED cu, SnapshotHost
    PROVE  SnInv' /\ UNCHANGED procs /\ (sn.pc = "idle" => sn'.pc = "idle") /\ snaps' \subseteq snaps
<1>a. sn \in SnType /\ snaps \subseteq Snapshots
  BY DEF SnInv, SnTypes
<1>b. sn.pc # "idle" => sn.at \in Snapshots /\ sn.at \in snaps /\ snOut[sn.at] = "none" /\ cu.pc = "idle"
  BY <1>a DEF SnInv, SnapInv
<1>c. ASSUME NEW step, step \in {"upload", "starting", "release", "releasing", "waiting", "inspect", "inspecting",
             "cancel",
                                 "cancelling"}, SnGoes(step)
      PROVE  sn' \in SnType /\ sn'.pc = step /\ sn'.at = sn.at
  BY <1>a, <1>c DEF SnGoes, SnType
<1>d. SnResting \in SnType /\ SnResting.pc = "idle"
  BY DEF SnResting, SnType
(* the coroutine only goes on                                              *)
<1>g. ASSUME NEW step, step \in {"upload", "starting", "release", "releasing", "waiting", "inspect", "inspecting",
             "cancel",
                                 "cancelling"}, SnGoes(step), sn.pc # "idle",
             step = "upload" => sn.pc = "setup", UNCHANGED <<procs, sup, terminal, snaps, snOut>>,
             UNCHANGED start \/ start' = [start EXCEPT ![sn.at] = "queued"],
             start' # start => step = "starting"
      PROVE  SnInv' /\ UNCHANGED procs /\ (sn.pc = "idle" => sn'.pc = "idle") /\ snaps' \subseteq snaps
  <2>1. sn' \in SnType /\ sn'.pc = step /\ sn'.at = sn.at
    BY <1>c, <1>g
  <2>2. SnTypes' /\ ProcTypes'
    BY <1>b, <1>g, <2>1 DEF SnInv, SnTypes, ProcTypes
  <2>3. /\ \A s \in Snapshots \ {sn.at} : start'[s] = start[s]
        /\ start'[sn.at] = start[sn.at] \/ start'[sn.at] = "queued"
    BY <1>b, <1>g DEF SnInv, SnTypes
  <2>4. \A s \in Snapshots : start'[s] = "none" => start[s] = "none"
    BY <1>b, <2>3 DEF SnInv, SnTypes
  <2>5. \A s \in Snapshots \ {sn.at} : Settled(s) => Settled(s)'
    BY <1>g, <2>3 DEF Settled, LeasePublished
  <2>6. \A s \in Snapshots : s \notin snaps => Settled(s)'
    BY <1>b, <1>g, <2>5 DEF SnInv, SnapInv
  <2>7. \A s \in Snapshots : snOut[s] \in {"result", "failed"} => Settled(s)'
    BY <1>b, <1>g, <2>5 DEF SnInv, SnapInv
  <2>8. \A s \in Snapshots : (VerifiedTerminal(s)' <=> VerifiedTerminal(s)) /\ (LeasePublished(s)' <=> LeasePublished(s))
    BY <1>g DEF VerifiedTerminal, LeasePublished
  <2>9. step = "upload" => start'[sn.at] = "none"
    BY <1>g DEF SnInv, SnapInv
  <2>10. \A s \in Snapshots : start'[s] # "none" => snOut[s] # "none" \/ sn.at = s
    BY <1>b, <2>3 DEF SnInv, SnapInv
  <2>11. SnapInv'
    BY <1>b, <1>g, <2>1, <2>4, <2>6, <2>7, <2>8, <2>9, <2>10 DEF SnInv, SnapInv
  <2> QED BY <1>g, <2>2, <2>11 DEF SnInv
(* it leaves, and drops the snapshot behind a proven end only              *)
<1>h. ASSUME NEW what \in {"result", "failed", "unverified"}, SnLeave(what), sn.pc # "idle",
             what # "unverified" => Settled(sn.at)
      PROVE  SnInv' /\ UNCHANGED procs /\ (sn.pc = "idle" => sn'.pc = "idle") /\ snaps' \subseteq snaps
  <2>1. /\ snOut' = [snOut EXCEPT ![sn.at] = what] /\ sn' = SnResting
        /\ snaps' = IF what = "unverified" THEN snaps ELSE snaps \ {sn.at}
        /\ UNCHANGED <<procs, start, sup, terminal>>
    BY <1>h DEF SnLeave, snRemote
  <2>2. /\ snOut' \in [Snapshots -> {"none", "result", "failed", "unverified"}] /\ snOut'[sn.at] = what
        /\ \A s \in Snapshots \ {sn.at} : snOut'[s] = snOut[s]
    BY <1>b, <1>h, <2>1 DEF SnInv, SnTypes
  <2>3. SnTypes' /\ ProcTypes'
    BY <1>a, <1>d, <2>1, <2>2 DEF SnInv, SnTypes, ProcTypes
  <2>4. \A s \in Snapshots : /\ Settled(s)' <=> Settled(s)
                             /\ VerifiedTerminal(s)' <=> VerifiedTerminal(s)
                             /\ LeasePublished(s)' <=> LeasePublished(s)
    BY <2>1 DEF Settled, VerifiedTerminal, LeasePublished
  <2>5. \A s \in Snapshots : s \notin snaps' => Settled(s)
    BY <1>b, <1>h, <2>1 DEF SnInv, SnapInv
  <2>6. \A s \in Snapshots : snOut'[s] \in {"result", "failed"} => Settled(s)
    BY <1>b, <1>h, <2>2 DEF SnInv, SnapInv
  <2>7. \A s \in Snapshots : start[s] # "none" => snOut'[s] # "none"
    BY <1>b, <1>h, <2>2 DEF SnInv, SnapInv
  <2>8. SnapInv'
    BY <1>d, <2>1, <2>4, <2>5, <2>6, <2>7 DEF SnInv, SnapInv
  <2>9. snaps' \subseteq snaps
    BY <2>1
  <2> QED BY <1>h, <2>1, <2>3, <2>8, <2>9 DEF SnInv
<1>i. sn.pc # "idle" /\ VerifiedTerminal(sn.at) => Settled(sn.at)
  BY <1>b DEF SnInv, SnapInv, Settled
<1>j. sn.pc \in {"setup", "upload"} => Settled(sn.at)
  BY <1>b DEF SnInv, SnapInv, Settled
<1>1. CASE SnNotStarted
  BY <1>1, <1>h, <1>j DEF SnNotStarted
<1>2. CASE SnPrepare
  BY <1>2, <1>g DEF SnPrepare, snRemote
<1>3. CASE SnDispatch
  BY <1>3, <1>g DEF SnDispatch
<1>4. CASE SnStarted
  BY <1>4, <1>g DEF SnStarted, snRemote
<1>5. CASE SnRelease
  BY <1>5, <1>g DEF SnRelease
<1>6. CASE SnReleased
  BY <1>6, <1>g DEF SnReleased, snRemote
<1>7. CASE SnSettled
  <2>1. sn.pc = "waiting" /\ VerifiedTerminal(sn.at)
    BY <1>7 DEF SnSettled
  <2>2. PICK what \in {"result", "failed"} : SnLeave(what)
    BY <1>7 DEF SnSettled
  <2> QED BY <1>h, <1>i, <2>1, <2>2
<1>8. CASE SnTrouble
  <2>1. PICK step \in {"cancel", "inspect"} : SnGoes(step)
    BY <1>8 DEF SnTrouble
  <2> QED BY <1>8, <1>g, <2>1 DEF SnTrouble, snRemote
<1>9. CASE SnInspect
  BY <1>9, <1>g DEF SnInspect
<1>10. CASE SnInspected
  BY <1>10, <1>g DEF SnInspected, snRemote
<1>11. CASE SnCancel
  BY <1>11, <1>g DEF SnCancel
<1>12. CASE SnContained
  BY <1>12, <1>h, <1>i DEF SnContained
<1>13. CASE SnUnverified
  BY <1>13, <1>h DEF SnUnverified
<1> QED BY <1>1, <1>2, <1>3, <1>4, <1>5, <1>6, <1>7, <1>8, <1>9, <1>10, <1>11, <1>12, <1>13 DEF SnapshotHost

LEMMA SnapshotBegins ==
    ASSUME SnInv, UNCHANGED cu, cu.pc = "idle", NEW s \in Snapshots, SnBegin(s)
    PROVE  SnInv' /\ UNCHANGED procs
<1>1. /\ sn.pc = "idle" /\ snOut[s] = "none" /\ s \notin snaps /\ snaps' = snaps \cup {s}
      /\ sn' = [pc |-> "setup", at |-> s]
      /\ UNCHANGED <<procs, start, sup, terminal, snOut>>
  BY DEF SnBegin, snRemote
<1>2. sn' \in SnType /\ sn'.pc = "setup" /\ sn'.at = s
  BY <1>1 DEF SnType
<1>3. start[s] = "none"
  BY <1>1 DEF SnInv, SnapInv
<1>4. SnTypes' /\ ProcTypes'
  BY <1>1, <1>2 DEF SnInv, SnTypes, ProcTypes
<1>5. \A u \in Snapshots : /\ Settled(u)' <=> Settled(u)
                           /\ VerifiedTerminal(u)' <=> VerifiedTerminal(u)
                           /\ LeasePublished(u)' <=> LeasePublished(u)
  BY <1>1 DEF Settled, VerifiedTerminal, LeasePublished
<1>6. SnapInv'
  BY <1>1, <1>2, <1>3, <1>5 DEF SnInv, SnapInv
<1> QED BY <1>1, <1>4, <1>6 DEF SnInv

(* Steps that change of the snapshots only what a cleanup may.             *)
LEMMA SnapshotQuiet ==
    ASSUME SnInv, ProcTypes', UNCHANGED <<start, terminal, sn, snOut>>, snaps' \subseteq snaps,
           \/ sup' = sup
           \/ \E s \in Snapshots, to \in {"gone", "killed"} : LeasePublished(s) /\ sup' = [sup EXCEPT ![s] = to],
           \A s \in Snapshots : procs[s] = {} => procs'[s] = {},
           \A s \in Snapshots : s \in snaps \ snaps' => procs[s] = {} /\ LeasePublished(s),
           sn.pc # "idle" => cu'.pc = "idle" /\ snaps' = snaps,
           \A s \in Snapshots : s \in cu'.zero => procs'[s] = {} /\ LeasePublished(s)
    PROVE  SnInv'
<1>a. /\ sup' \in [Snapshots -> SupSteps]
      /\ \A s \in Snapshots : sup'[s] = sup[s] \/ (LeasePublished(s) /\ sup'[s] \in {"gone", "killed"})
  BY DEF SnInv, SnTypes, SupSteps
<1>1. SnTypes'
  BY <1>a DEF SnInv, SnTypes
<1>2. \A s \in Snapshots : /\ LeasePublished(s)' <=> LeasePublished(s)
                           /\ sup'[s] \in {"none", "up"} => sup[s] = sup'[s]
                           /\ sup[s] = "none" => sup'[s] = "none"
  BY <1>a DEF LeasePublished
<1>3. \A s \in Snapshots : /\ Settled(s) => Settled(s)'
                           /\ VerifiedTerminal(s)' <=> VerifiedTerminal(s)
  BY <1>2 DEF Settled, VerifiedTerminal
<1>4. \A s \in Snapshots : s \notin snaps' => Settled(s)'
  BY <1>3 DEF SnInv, SnapInv, Settled
<1>5. SnapInv'
  BY <1>2, <1>3, <1>4 DEF SnInv, SnapInv
<1> QED BY <1>1, <1>5 DEF SnInv

(***************************************************************************)
(* What the steps of one owner leave of the others.                        *)
(***************************************************************************)
Touches(o) == \E p \in SUBSET Members : procs' = [procs EXCEPT ![o] = p]

LEMMA TouchEffect ==
    ASSUME ProcTypes, NEW o \in Owned, UNCHANGED procs \/ Touches(o)
    PROVE  ProcTypes' /\ \A x \in Owned \ {o} : procs'[x] = procs[x]
  BY DEF ProcTypes, Touches

LEMMA LivesTouches ==
    ASSUME NEW o, Lives(o)
    PROVE  Touches(o)
  BY DEF Lives, Touches

(* The foreground, whatever becomes of a run whose reply was lost.         *)
FrameInv == ProcTypes /\ FgTypes /\ (fg.pc # "idle" => fg.cmd \in Commands /\ out[fg.cmd].kind = "none")

(* the coroutine goes on, or it leaves behind an outcome                   *)
HostFrame ==
    /\ fg.pc # "idle" /\ (UNCHANGED procs \/ Touches(fg.cmd))
    /\ run' \in [Commands -> RunSteps] /\ active' \subseteq active /\ fg' \in FgType
    /\ \/ fg'.pc # "idle" /\ fg'.cmd = fg.cmd /\ UNCHANGED out
       \/ fg'.pc = "idle" /\ \E o \in OutType : out' = [out EXCEPT ![fg.cmd] = o] /\ o.kind # "none"

LEMMA LeaveFrames ==
    ASSUME FrameInv, fg.pc # "idle", NEW o \in OutType, o.kind # "none", NEW release \in BOOLEAN, Leave(o, release)
    PROVE  HostFrame
<1>1. /\ out' = [out EXCEPT ![fg.cmd] = o] /\ fg' = Resting /\ UNCHANGED <<procs, run>>
      /\ active' = IF release THEN active \ {fg.cmd} ELSE active
  BY DEF Leave
<1>2. run' \in [Commands -> RunSteps] /\ active' \subseteq active
  BY <1>1 DEF FrameInv, FgTypes
<1> QED BY <1>1, <1>2, RestingType, Zenon DEF HostFrame

LEMMA ContainedFrames ==
    ASSUME FrameInv, fg.pc # "idle", NEW cleanup \in {"yes", "no", Unknown}, NEW census \in {"yes", "no", Unknown},
           LeaveContained(cleanup, census)
    PROVE  HostFrame
<1> DEFINE clean == cleanup = "yes" /\ census = "yes"
           o == [kind |-> IF fg.cancelled /\ (clean \/ (fg.signed /\ ~fg.started)) THEN "cancelled" ELSE "failed",
                 started |-> MayHaveStarted(clean),
                 cleanup |-> IF fg.started THEN cleanup ELSE Unknown,
                 census |-> IF fg.started THEN census ELSE Unknown]
<1>1. Leave(o, clean)
  BY DEF LeaveContained
<1>2. fg.started \in BOOLEAN /\ fg.signed \in BOOLEAN
  BY DEF FrameInv, FgTypes, FgType
<1>3. MayHaveStarted(clean) \in BOOLEAN
  BY <1>2, Zenon DEF MayHaveStarted
<1>4. o \in OutType /\ o.kind # "none"
  BY <1>3 DEF OutType, Unknown
<1>5. clean \in BOOLEAN
  OBVIOUS
<1> HIDE DEF o, clean
<1> QED BY <1>1, <1>4, <1>5, LeaveFrames

LEMMA HostFrames ==
    ASSUME FrameInv, HostStep \/ PassCutoff \/ Cancel \/ CancelAgain
    PROVE  HostFrame
<1>a. fg \in FgType /\ run \in [Commands -> RunSteps] /\ ProcTypes
  BY DEF FrameInv, FgTypes
<1>b. fg.pc # "idle" => fg.cmd \in Commands /\ fg.cmd \in Owned /\ procs[fg.cmd] \in SUBSET Members
                         /\ run[fg.cmd] \in RunSteps
  BY <1>a, OwnersDistinct DEF FrameInv, ProcTypes
<1>c. ASSUME NEW step \in FgSteps \ {"idle"}, GoTo(step), fg.pc # "idle"
      PROVE  HostFrame
  <2>1. fg' \in FgType /\ fg'.pc = step /\ fg'.cmd = fg.cmd
    BY <1>a, <1>c, FgGoes DEF GoTo
  <2> QED BY <1>a, <1>c, <2>1 DEF GoTo, HostFrame
(* a coroutine that gives up on its run goes on without it                 *)
<1>d. ASSUME NEW g \in FgType, fg' = g, g.pc # "idle", g.cmd = fg.cmd, fg.pc # "idle",
             UNCHANGED <<procs, active, out>>,
             run' = run \/ \E to \in RunSteps : run' = [run EXCEPT ![fg.cmd] = to]
      PROVE  HostFrame
  <2>1. run' \in [Commands -> RunSteps]
    BY <1>a, <1>d
  <2> QED BY <1>d, <2>1 DEF HostFrame
<1>e. ASSUME fg.pc # "idle", run' = [run EXCEPT ![fg.cmd] = IF @ = "queued" /\ ~DelayedRun THEN "lost" ELSE @]
      PROVE  \E to \in RunSteps : run' = [run EXCEPT ![fg.cmd] = to]
  BY <1>b, <1>e DEF RunSteps
<1>f. ASSUME NEW step \in FgSteps \ {"idle"}, fg.pc = "wait", GiveUpOnRun(step)
      PROVE  HostFrame
  <2>1. fg' \in FgType /\ fg'.pc = step /\ fg'.cmd = fg.cmd
    BY <1>a, <1>f, FgGoes DEF GiveUpOnRun
  <2> QED BY <1>d, <1>e, <1>f, <2>1 DEF GiveUpOnRun
(* a signal                                                                *)
<1>g. ASSUME NEW p \in SUBSET procs[fg.cmd], procs' = [procs EXCEPT ![fg.cmd] = p], fg.pc # "idle",
             fg' \in FgType, fg'.pc # "idle", fg'.cmd = fg.cmd, UNCHANGED <<run, active, out>>
      PROVE  HostFrame
  <2>1. p \in SUBSET Members
    BY <1>b, <1>g
  <2> QED BY <1>a, <1>g, <2>1 DEF HostFrame, Touches
<1> USE DEF FgSteps, CleanupSteps
<1>1. CASE PassCutoff
  BY <1>1, <1>a DEF PassCutoff, HostFrame
<1>2. CASE Cancel
  <2>1. /\ fg.pc # "idle" /\ UNCHANGED <<procs, active, out>>
        /\ run' = [run EXCEPT ![fg.cmd] = IF @ = "queued" /\ ~DelayedRun THEN "lost" ELSE @]
        /\ fg' = [fg EXCEPT !.cancelled = TRUE, !.pc = IF fg.started /\ fg.signed THEN "term" ELSE "evidence"]
    BY <1>2 DEF Cancel
  <2>2. fg' \in FgType /\ fg'.pc # "idle" /\ fg'.cmd = fg.cmd
    <3>1. ASSUME NEW f \in FgType, NEW g, NEW step \in {"term", "evidence"},
                 g = [f EXCEPT !.cancelled = TRUE, !.pc = step]
          PROVE  g \in FgType /\ g.pc # "idle" /\ g.cmd = f.cmd
      BY <3>1 DEF FgType
    <3> QED BY <1>a, <2>1, <3>1
  <2> QED BY <1>d, <1>e, <2>1, <2>2
<1>3. CASE CancelAgain
  <2> DEFINE o == [NoOutcome EXCEPT !.kind = "cancelled", !.started = fg.started]
  <2>1. fg.pc # "idle" /\ Leave(o, FALSE)
    BY <1>3 DEF CancelAgain
  <2>2. o \in OutType /\ o.kind # "none"
    <3>1. ASSUME NEW b \in BOOLEAN, NEW r \in OutType, NEW q, q = [r EXCEPT !.kind = "cancelled", !.started = b]
          PROVE  q \in OutType /\ q.kind # "none"
      BY <3>1 DEF OutType
    <3>2. fg.started \in BOOLEAN
      BY <1>a DEF FgType
    <3> QED BY <3>1, <3>2, RestingType
  <2> HIDE DEF o
  <2>3. FALSE \in BOOLEAN
    OBVIOUS
  <2> QED BY <2>1, <2>2, <2>3, LeaveFrames
<1>4. CASE HostStep
  <2>1. CASE Setup \/ Upload \/ LaunchFailed \/ Reply \/ DownloadFailed
    BY <1>c, <2>1 DEF Setup, Upload, LaunchFailed, Reply, DownloadFailed
  <2>2. CASE RejectAdmission
    <3> DEFINE o == [NoOutcome EXCEPT !.kind = "failed"]
    <3>1. fg.pc # "idle" /\ Leave(o, TRUE)
      BY <2>2 DEF RejectAdmission
    <3>2. o \in OutType /\ o.kind # "none"
      <4>1. ASSUME NEW r \in OutType, NEW q, q = [r EXCEPT !.kind = "failed"]
            PROVE  q \in OutType /\ q.kind # "none"
        BY <4>1 DEF OutType
      <4> QED BY <4>1, RestingType
    <3> HIDE DEF o
    <3>3. TRUE \in BOOLEAN
      OBVIOUS
    <3> QED BY <3>1, <3>2, <3>3, LeaveFrames
  <2>3. CASE Dispatch
    <3>1. ASSUME NEW f \in FgType, NEW g, g = [f EXCEPT !.pc = "wait", !.started = TRUE]
          PROVE  g \in FgType /\ g.pc = "wait" /\ g.cmd = f.cmd
      BY <3>1 DEF FgType
    <3>2. fg' \in FgType /\ fg'.pc = "wait" /\ fg'.cmd = fg.cmd
      BY <1>a, <2>3, <3>1 DEF Dispatch
    <3>3. fg.pc # "idle" /\ UNCHANGED <<procs, active, out>> /\ run' = [run EXCEPT ![fg.cmd] = "queued"]
      BY <2>3 DEF Dispatch
    <3>4. \E to \in RunSteps : run' = [run EXCEPT ![fg.cmd] = to]
      BY <3>3 DEF RunSteps
    <3> QED BY <1>d, <3>2, <3>3, <3>4
  <2>4. CASE LoseReply \/ DeadlineExceeded
    BY <1>c, <1>f, <2>4 DEF LoseReply, DeadlineExceeded
  <2>5. CASE Download
    <3>1. fg.pc # "idle" /\ Leave(Verified, TRUE)
      BY <2>5 DEF Download
    <3>2. Verified \in OutType /\ Verified.kind # "none" /\ TRUE \in BOOLEAN
      BY DEF Verified, OutType
    <3> QED BY <3>1, <3>2, LeaveFrames
  <2>6. CASE Evidence \/ CleanupAnswer \/ CleanupLost \/ SettleCensus
    <3>1. fg.pc # "idle"
      BY <2>6 DEF Evidence, CleanupAnswer, CleanupLost, SettleCensus
    <3>2. GoTo("cleanup") \/ \E cleanup \in {"yes", "no", Unknown}, census \in {"yes", "no", Unknown} :
                                 LeaveContained(cleanup, census)
      BY <2>6 DEF Evidence, CleanupAnswer, CleanupLost, SettleCensus
    <3> QED BY <1>c, <3>1, <3>2, ContainedFrames
  <2>7. CASE CleanupTerm \/ CleanupKill
    <3>1. PICK next \in {"cleanupKill", "cleanupWait"},
               p \in AfterTerm(procs[fg.cmd], Members) \cup AfterKill(procs[fg.cmd], Members) :
              /\ fg.pc # "idle" /\ fg' = [fg EXCEPT !.pc = next] /\ UNCHANGED <<run, active, out>>
              /\ procs' = [procs EXCEPT ![fg.cmd] = p]
      BY <2>7 DEF CleanupTerm, CleanupKill
    <3>2. p \in SUBSET procs[fg.cmd]
      BY <1>b, <3>1, SignalsShrink
    <3>3. fg' \in FgType /\ fg'.pc # "idle" /\ fg'.cmd = fg.cmd
      BY <1>a, <3>1, FgGoes
    <3> QED BY <1>g, <3>1, <3>2, <3>3
  <2>8. ASSUME NEW cutoff, NEW outcomes, NEW next \in {"kill", "census"}, fg.pc # "idle",
               SettleSignal(cutoff, outcomes, next), \A q \in outcomes : q \in SUBSET procs[fg.cmd]
        PROVE  HostFrame
    <3>1. PICK reached \in BOOLEAN, heard \in BOOLEAN :
              /\ \E p \in IF reached THEN outcomes ELSE {procs[fg.cmd]} : procs' = [procs EXCEPT ![fg.cmd] = p]
              /\ fg' = [fg EXCEPT !.pc = next, !.signalled = @ /\ heard]
      BY <2>8 DEF SettleSignal
    <3>2. PICK p : p \in SUBSET procs[fg.cmd] /\ procs' = [procs EXCEPT ![fg.cmd] = p]
      BY <2>8, <3>1
    <3>3. fg' \in FgType /\ fg'.pc # "idle" /\ fg'.cmd = fg.cmd
      <4>1. ASSUME NEW f \in FgType, NEW b \in BOOLEAN, NEW g, g = [f EXCEPT !.pc = next, !.signalled = b]
            PROVE  g \in FgType /\ g.pc # "idle" /\ g.cmd = f.cmd
        BY <2>8, <4>1 DEF FgType
      <4>2. (fg.signalled /\ heard) \in BOOLEAN
        OBVIOUS
      <4>3. fg' = [fg EXCEPT !.pc = next, !.signalled = (fg.signalled /\ heard)]
        BY <3>1, Zenon
      <4> QED BY <1>a, <4>1, <4>2, <4>3, Zenon
    <3>4. UNCHANGED <<run, active, out>>
      BY <2>8 DEF SettleSignal
    <3> QED BY <1>g, <2>8, <3>2, <3>3, <3>4
  <2>9. CASE SettleTerm
    <3>1. fg.pc = "term" /\ SettleSignal(2, AfterTerm(procs[fg.cmd], Members), "kill")
      BY <2>9 DEF SettleTerm
    <3>2. \A q \in AfterTerm(procs[fg.cmd], Members) : q \in SUBSET procs[fg.cmd]
      BY <1>b, <3>1, SignalsShrink
    <3> QED BY <2>8, <3>1, <3>2
  <2>10. CASE SettleKill
    <3>1. fg.pc = "kill" /\ SettleSignal(4, AfterKill(procs[fg.cmd], Members), "census")
      BY <2>10 DEF SettleKill
    <3>2. \A q \in AfterKill(procs[fg.cmd], Members) : q \in SUBSET procs[fg.cmd]
      BY <1>b, <3>1, SignalsShrink
    <3> QED BY <2>8, <3>1, <3>2
  <2> QED BY <1>4, <2>1, <2>2, <2>3, <2>4, <2>5, <2>6, <2>7, <2>9, <2>10 DEF HostStep
<1> QED BY <1>1, <1>2, <1>3, <1>4

(* A failed or cancelled command, which ends the session.                  *)
Failed(c) == out[c].kind \in {"failed", "cancelled"}

LEMMA FrameKeeps ==
    ASSUME FrameInv, HostFrame
    PROVE  /\ FrameInv' /\ (UNCHANGED procs \/ (fg.cmd \in Commands /\ Touches(fg.cmd)))
           /\ active' \subseteq active
           /\ \A c \in Commands : Failed(c) => Failed(c)'
<1>a. /\ fg.cmd \in Commands /\ fg.cmd \in Owned /\ out[fg.cmd].kind = "none"
      /\ ProcTypes /\ out \in [Commands -> OutType]
  BY OwnersDistinct DEF FrameInv, HostFrame, FgTypes
<1>1. ProcTypes'
  BY <1>a, TouchEffect DEF HostFrame
<1>2. CASE fg'.pc # "idle"
  <2>1. fg'.cmd = fg.cmd /\ UNCHANGED out
    BY <1>2 DEF HostFrame
  <2>2. FgTypes'
    BY <2>1 DEF HostFrame, FrameInv, FgTypes
  <2> QED BY <1>a, <1>1, <2>1, <2>2 DEF FrameInv, HostFrame, Failed
<1>3. CASE fg'.pc = "idle"
  <2>1. PICK o \in OutType : out' = [out EXCEPT ![fg.cmd] = o] /\ o.kind # "none"
    BY <1>3 DEF HostFrame
  <2>2. out' \in [Commands -> OutType] /\ \A c \in Commands \ {fg.cmd} : out'[c] = out[c]
    BY <1>a, <2>1
  <2>3. FgTypes'
    BY <2>2 DEF HostFrame, FrameInv, FgTypes
  <2>4. \A c \in Commands : Failed(c) => Failed(c)'
    BY <1>a, <2>2 DEF Failed
  <2> QED BY <1>a, <1>1, <1>3, <2>3, <2>4 DEF FrameInv, HostFrame
<1> QED BY <1>2, <1>3

LEMMA FrameQuiet ==
    ASSUME FrameInv, ProcTypes', UNCHANGED <<run, fg, out>>, active' \subseteq active
    PROVE  FrameInv' /\ \A c \in Commands : Failed(c) => Failed(c)'
<1>1. FgTypes'
  BY DEF FrameInv, FgTypes
<1> QED BY <1>1 DEF FrameInv, Failed

LEMMA FrameAdmits ==
    ASSUME FrameInv, NEW c \in Commands, Admits(c) \/ RefuseMapping(c)
    PROVE  FrameInv' /\ UNCHANGED procs /\ fg.pc = "idle"
<1>1. CASE Admits(c)
  <2>1. FgTypes' /\ ProcTypes'
    BY <1>1 DEF FrameInv, FgTypes, ProcTypes, Admits
  <2> QED BY <1>1, <2>1, RestingType DEF FrameInv, Admits
<1>2. CASE RefuseMapping(c)
  <2> DEFINE o == [NoOutcome EXCEPT !.kind = "failed"]
  <2>1. o \in OutType
    <3>1. ASSUME NEW r \in OutType, NEW q, q = [r EXCEPT !.kind = "failed"]
          PROVE  q \in OutType
      BY <3>1 DEF OutType
    <3> QED BY <3>1, RestingType
  <2>2. out' = [out EXCEPT ![c] = o] /\ fg.pc = "idle" /\ UNCHANGED <<procs, run, active, fg>>
    BY <1>2 DEF RefuseMapping
  <2> HIDE DEF o
  <2>3. FgTypes' /\ ProcTypes'
    BY <2>1, <2>2 DEF FrameInv, FgTypes, ProcTypes
  <2> QED BY <2>2, <2>3 DEF FrameInv
<1> QED BY <1>1, <1>2

(* The script of a run touches its own set only.                           *)
LEMMA ScriptFrames ==
    ASSUME FrameInv, NEW c \in Commands, RunScript(c) \/ Behave(c)
    PROVE  FrameInv' /\ (UNCHANGED procs \/ Touches(c)) /\ UNCHANGED <<active, fg, out>>
<1>a. run \in [Commands -> RunSteps]
  BY DEF FrameInv, FgTypes
<1>b. c \in Owned /\ procs[c] \in SUBSET Members /\ ProcTypes
  BY OwnersDistinct DEF FrameInv, ProcTypes
<1>c. UNCHANGED <<active, fg, out>>
  BY DEF RunScript, RunRefused, RunFork, RunPublish, RunWatcher, RunReap, RunKill, RunSettle, RunUnverified, Behave
<1>d. run' \in [Commands -> RunSteps]
  BY <1>a DEF RunScript, RunRefused, RunFork, RunPublish, RunWatcher, RunReap, RunKill, RunSettle,
      RunUnverified, Behave,
              RunStep, RunSteps
<1>e. UNCHANGED procs \/ Touches(c)
  <2>1. CASE RunRefused(c) \/ RunPublish(c) \/ RunSettle(c) \/ RunUnverified(c)
    BY <2>1 DEF RunRefused, RunPublish, RunSettle, RunUnverified
  <2>2. CASE RunFork(c)
    BY <2>2 DEF RunFork, Touches, Members
  <2>3. CASE RunWatcher(c)
    <3>1. PICK p \in IF watch[c] = 0 THEN AfterTerm(procs[c], GroupOf(procs[c]))
                                     ELSE {procs[c] \ GroupOf(procs[c])} : procs' = [procs EXCEPT ![c] = p]
      BY <2>3 DEF RunWatcher
    <3>2. p \in SUBSET procs[c]
      BY <1>b, <3>1, SignalsShrink, ZenonT(60)
    <3>3. p \in SUBSET Members
      BY <1>b, <3>2
    <3> QED BY <3>1, <3>3 DEF Touches
  <2>4. CASE RunReap(c)
    BY <1>b, <2>4, SignalsShrink DEF RunReap, Touches
  <2>5. CASE RunKill(c)
    BY <1>b, <2>5, SignalsShrink DEF RunKill, Touches
  <2>6. CASE Behave(c)
    <3>1. PICK p \in Behaviours(procs[c]) : procs' = [procs EXCEPT ![c] = p]
      BY <2>6 DEF Behave
    <3>2. p \in SUBSET Members
      BY <1>b, <3>1, BehavioursOfSome
    <3> QED BY <3>1, <3>2 DEF Touches
  <2> QED BY <2>1, <2>2, <2>3, <2>4, <2>5, <2>6 DEF RunScript
<1>f. ProcTypes'
  BY <1>b, <1>e, TouchEffect
<1>g. FgTypes'
  BY <1>c, <1>d DEF FrameInv, FgTypes
<1> QED BY <1>c, <1>e, <1>f, <1>g DEF FrameInv

(* Steps that change of the background only what a cleanup may.            *)
LEMMA BackgroundQuiet ==
    ASSUME BgInv, ProcTypes', UNCHANGED <<starter, mon, status, reused, told, bg>>, killed' \in [Tasks -> BOOLEAN],
           reg' \subseteq reg, bg.pc \in Launching => reg' = reg,
           task' \in [Tasks -> TaskType],
           \A t \in Tasks : task'[t].state = task[t].state /\ task'[t].census = task[t].census
                                /\ task'[t].bound = task[t].bound,
           \A t \in Tasks : TokensOf(procs[t]) = {} => TokensOf(procs'[t]) = {},
           \A t \in Tasks : "leader" \in procs'[t] => "leader" \in procs[t],
           \A t \in reg \ reg' : TokensOf(procs[t]) = {} /\ mon[t] # "queued",
           foreign' \in BOOLEAN, foreign' => foreign \/ \E t \in Tasks : reused[t] /\ "leader" \in procs[t],
           \A t \in Tasks : t \in cu'.zero => TokensOf(procs'[t]) = {} /\ Published(t)
    PROVE  BgInv'
<1>a. reg \subseteq Tasks /\ reg' \subseteq Tasks
  BY DEF BgInv, HostBase, BgTypes
<1>b. \A t \in Tasks : Published(t)' <=> Published(t)
  BY DEF Published
<1>c. (Launched' <=> Launched) /\ (Sweeping' <=> Sweeping)
  BY DEF Launched, Sweeping
<1>1. BgTypes'
  BY <1>a DEF BgInv, HostBase, BgTypes
<1>2. LaunchInv'
  <2>1. bg.pc \in {"setup", "upload", "dispatch"} => bg.at \in reg' /\ mon[bg.at] = "none"
    BY DEF BgInv, HostBase, LaunchInv, Launching
  <2>2. bg.pc \in {"first", "settle", "decide"} \cup Verifying => task'[bg.at].bound
    BY DEF BgInv, HostBase, LaunchInv, AtSteps
  <2>3. \A t \in reg' : task'[t].bound \/ bg.fatal
                          \/ (bg.at = t /\ bg.pc \in {"setup", "upload", "dispatch", "await", "salvage"})
    BY <1>a DEF BgInv, HostBase, LaunchInv
  <2>4. \A t \in Tasks : IF task'[t].bound THEN Published(t) ELSE task'[t].state = "running" /\ ~task'[t].census
    BY DEF BgInv, HostBase, LaunchInv
  <2> QED BY <1>b, <1>c, <2>1, <2>2, <2>3, <2>4 DEF BgInv, HostBase, LaunchInv
<1>3. TaskInv'
  <2>1. \A t \in Tasks : mon[t] \in {"none", "queued"} => TokensOf(procs'[t]) = {}
    BY DEF BgInv, HostBase, TaskInv
  <2>2. \A t \in Tasks : mon[t] = "queued" \/ TokensOf(procs'[t]) # {} => t \in reg'
    BY DEF BgInv, HostBase, TaskInv
  <2>3. \A t \in Tasks : task'[t].census => TokensOf(procs'[t]) = {} /\ Published(t) /\ task'[t].state # "running"
    BY DEF BgInv, HostBase, TaskInv
  <2>4. ~bg.fatal => \A t \in reg' : task'[t].state # "running" => task'[t].census \/ (bg.at = t /\ bg.pc \in Verifying)
    BY <1>a DEF BgInv, HostBase, TaskInv
  <2> QED BY <1>b, <2>1, <2>2, <2>3, <2>4 DEF TaskInv
<1>4. StrangerInv'
  BY <1>b DEF BgInv, StrangerInv
<1>5. BoundInv'
  <2> DEFINE S == {t \in reg : ~task[t].census}
             T == {t \in reg' : ~task'[t].census}
  <2>1. T \subseteq S
    BY <1>a
  <2>2. IsFiniteSet(S)
    BY <1>a, TasksAssumption, FS_Subset
  <2>3. Cardinality(T) <= Cardinality(S) /\ Cardinality(T) \in Nat /\ Cardinality(S) \in Nat
    BY <2>1, <2>2, FS_Subset, FS_CardinalityType
  <2>4. Cardinality(S) <= MaxBackground
    BY DEF BgInv, BoundInv
  <2>5. Cardinality(T) <= MaxBackground
    BY <2>3, <2>4, TasksAssumption
  <2> QED BY <2>5 DEF BoundInv
<1> QED BY <1>1, <1>2, <1>3, <1>4, <1>5 DEF BgInv, HostBase

(* Steps of the other owners leave the background's invariant.             *)
LEMMA BackgroundFrame ==
    ASSUME BgInv, ProcTypes', UNCHANGED <<bgVars, cu>>, \A t \in Tasks : procs'[t] = procs[t]
    PROVE  BgInv'
<1>1. UNCHANGED <<starter, mon, status, killed, reused, foreign, reg, task, bg, told>>
  BY DEF bgVars
<1>2. killed \in [Tasks -> BOOLEAN] /\ foreign \in BOOLEAN /\ task \in [Tasks -> TaskType]
  BY DEF BgInv, HostBase, BgTypes
<1>3. \A t \in Tasks : t \in cu.zero => TokensOf(procs[t]) = {} /\ Published(t)
  BY DEF BgInv, HostBase, TaskInv
<1> QED BY <1>1, <1>2, <1>3, BackgroundQuiet

LEMMA SnapshotFrame ==
    ASSUME SnInv, ProcTypes', UNCHANGED <<snVars, cu>>, \A s \in Snapshots : procs'[s] = procs[s]
    PROVE  SnInv'
<1>1. UNCHANGED <<start, sup, terminal, snaps, sn, snOut>>
  BY DEF snVars
<1>2. \A s \in Snapshots : s \in cu.zero => procs[s] = {} /\ LeasePublished(s)
  BY DEF SnInv, SnapInv
<1>3. sn.pc # "idle" => cu.pc = "idle"
  BY DEF SnInv, SnapInv
<1> QED BY <1>1, <1>2, <1>3, SnapshotQuiet

(* Every step of the background is of a request or of a salvage, and only  *)
(* signals the task it is at.                                              *)
LEMMA BackgroundActs ==
    ASSUME HostBase, BackgroundHost \/ CancelBackground
    PROVE  /\ bg.pc # "idle"
           /\ UNCHANGED procs \/ (bg.at \in Tasks /\ Touches(bg.at))
           /\ ~Busy => /\ ~Busy' /\ reg' \subseteq reg
                       /\ \A t \in Tasks : task'[t].state = task[t].state /\ task'[t].census = task[t].census
<1>a. bg \in BgType /\ task \in [Tasks -> TaskType]
  BY DEF HostBase, BgTypes
<1>b. bg.op = "salvage" => bg.pc \in {"kill", "killAgain", "killed", "noneLeft"}
  BY DEF HostBase, LaunchInv
<1>c. Rests(TRUE) \/ Rests(FALSE) => ~Busy'
  BY DEF Rests, Busy
<1>1. CASE TerminateTerm \/ TerminateNone \/ TerminateKill
  <2>1. bg.pc \in {"kill", "killAgain"} /\ UNCHANGED <<reg, task>>
    BY <1>1 DEF TerminateTerm, TerminateNone, TerminateKill
  <2>2. UNCHANGED procs \/ Lives(bg.at)
    BY <1>1, TerminateSeats
  <2>3. bg.at \in Tasks
    BY <2>1, BaseFacts DEF AtSteps, Verifying
  <2>4. PICK next \in {"killAgain", "killed", "noneLeft"} : Goes(next)
    BY <1>1 DEF TerminateTerm, TerminateNone, TerminateKill
  <2>5. bg'.op = bg.op
    BY <1>a, <2>4, GoesEffect DEF HostBase, BgSteps, AtSteps, Verifying, SameRequest
  <2>6. ~Busy => ~Busy'
    BY <2>1, <2>5 DEF Busy
  <2> QED BY <2>1, <2>2, <2>3, <2>6, LivesTouches
<1>2. CASE Terminated
  <2>1. UNCHANGED procs /\ bg.pc \in {"killed", "noneLeft"}
    BY <1>2 DEF Terminated, remoteVars
  <2>2. CASE bg.op = "salvage"
    <3>1. reg' = reg \ {bg.at} /\ Fatal /\ UNCHANGED task
      BY <1>2, <2>2 DEF Terminated
    <3> QED BY <1>c, <2>1, <3>1, FatalEffect
  <2>3. CASE bg.op # "salvage"
    BY <2>1, <2>3 DEF Busy
  <2> QED BY <2>2, <2>3
<1>3. CASE NotTerminated \/ SalvageEnded \/ SalvageUnknown
  <2>1. UNCHANGED <<procs, task>> /\ bg.pc # "idle" /\ Fatal /\ reg' \subseteq reg
    BY <1>3 DEF NotTerminated, SalvageEnded, SalvageUnknown, remoteVars
  <2> QED BY <1>c, <2>1, FatalEffect
<1>4. CASE Salvage
  <2>1. /\ UNCHANGED <<procs, reg>> /\ bg.pc = "salvage" /\ bg' = [bg EXCEPT !.pc = "kill", !.op = "salvage"]
        /\ Update(bg.at, [task[bg.at] EXCEPT !.bound = TRUE])
    BY <1>4 DEF Salvage, remoteVars
  <2>2. bg.at \in Tasks /\ task[bg.at] \in TaskType
    BY <2>1, BaseFacts DEF AtSteps
  <2>3. bg'.op = "salvage"
    BY <1>a, <2>1 DEF BgType
  <2>4. ASSUME NEW r \in TaskType, NEW q, q = [r EXCEPT !.bound = TRUE]
        PROVE  q \in TaskType /\ q.state = r.state /\ q.census = r.census
    BY <2>4 DEF TaskType
  <2>5. PICK q : q = [task[bg.at] EXCEPT !.bound = TRUE]
    OBVIOUS
  <2>6. q \in TaskType /\ q.state = task[bg.at].state /\ q.census = task[bg.at].census
    BY <2>2, <2>4, <2>5
  <2>7. Update(bg.at, q)
    BY <2>1, <2>5
  <2>8. \A t \in Tasks : task'[t].state = task[t].state /\ task'[t].census = task[t].census
    BY <1>a, <2>2, <2>6, <2>7 DEF Update
  <2>9. ~Busy'
    BY <2>3 DEF Busy
  <2> QED BY <2>1, <2>8, <2>9
<1>5. CASE \/ \E t \in Tasks : Visit(t)
           \/ VerifyLiveness \/ VerifyEnded \/ ConfirmStopped \/ ConfirmFailed \/ Decide
           \/ RefuseStart \/ RegisterTask \/ LaunchRefused \/ LaunchStep \/ LaunchDispatch
           \/ LaunchAck \/ LaunchLost \/ FirstStatus \/ HandOff \/ CancelBackground \/ OutputDone
  <2>1. UNCHANGED procs
    BY <1>5, ZenonT(60) DEF Visit, VerifyLiveness, VerifyEnded, ConfirmStopped, ConfirmFailed, Decide, RefuseStart, RegisterTask,
                LaunchRefused, LaunchStep, LaunchDispatch, LaunchAck, LaunchLost, FirstStatus, HandOff,
                CancelBackground, OutputDone
  <2>2. bg.pc \notin {"idle", "salvage", "kill", "killAgain", "killed", "noneLeft"}
    BY <1>5 DEF Visit, VerifyLiveness, VerifyEnded, ConfirmStopped, ConfirmFailed, Decide, RefuseStart, RegisterTask,
                LaunchRefused, LaunchStep, LaunchDispatch, LaunchAck, LaunchLost, FirstStatus, HandOff,
                CancelBackground, OutputDone, Swept
  <2>3. Busy
    BY <1>b, <2>2 DEF Busy
  <2> QED BY <2>1, <2>2, <2>3, SMTT(30)
<1> QED BY <1>1, <1>2, <1>3, <1>4, <1>5, Zenon DEF BackgroundHost

(***************************************************************************)
(* The three owners together.  The first part needs nothing of DelayedRun. *)
(***************************************************************************)
CoreInv == FrameInv /\ BgInv /\ SnInv /\ RestTypes /\ ServeInv /\ CleanupInv /\ ReadyInv

(* what no step of an owner undoes                                         *)
Persists ==
    /\ \A t \in Tasks : TokensOf(procs[t]) = {} /\ Published(t) => TokensOf(procs'[t]) = {} /\ Published(t)'
    /\ Over => Over'

LEMMA RestKeeps ==
    ASSUME RestTypes, CleanupInv, ReadyInv, UNCHANGED <<cu, lease, probe>>, Persists,
           lease.sealed => bg'.pc = "idle",
           probe # "none" => sn'.pc = "idle" /\ active' \subseteq active /\ snaps' \subseteq snaps /\ reg' \subseteq reg,
           probe # "none" => \A t \in Terminal : task'[t].state # "running" /\ task'[t].census
    PROVE  RestTypes' /\ CleanupInv' /\ ReadyInv'
<1>1. RestTypes'
  BY DEF RestTypes
<1>2. CleanupInv'
  BY DEF CleanupInv, Persists, RestTypes, LeaseType
<1>3. ReadyInv'
  <2>1. probe # "none" => Over' /\ sn'.pc = "idle"
    BY DEF ReadyInv, Persists
  <2>2. probe = "ready" => active' = {} /\ snaps' = {}
    BY DEF ReadyInv
  <2>3. probe = "ready" => reg' \subseteq Terminal'
    BY DEF ReadyInv, Terminal
  <2> QED BY <2>1, <2>2, <2>3 DEF ReadyInv
<1> QED BY <1>1, <1>2, <1>3

LEMMA OverPersists ==
    ASSUME UNCHANGED lease, bg.fatal => bg'.fatal, cu.answer # "none" => cu'.answer # "none",
           \A c \in Commands : Failed(c) => Failed(c)'
    PROVE  Over => Over'
  BY DEF Over, Failed

(* A step that leaves the background and the lease alone and does not      *)
(* disturb a request being served.                                         *)
LEMMA OutsideKeeps ==
    ASSUME CoreInv, UNCHANGED <<bgVars, cu, lease, probe>>, FrameInv', SnInv', \A t \in Tasks : procs'[t] = procs[t],
           Busy => UNCHANGED <<fg, sn>>, \A c \in Commands : Failed(c) => Failed(c)', Busy => UNCHANGED out,
           probe # "none" => sn'.pc = "idle" /\ active' \subseteq active /\ snaps' \subseteq snaps
    PROVE  CoreInv'
<1>a. UNCHANGED <<mon, reg, task, bg>> /\ UNCHANGED <<cu, lease, probe>>
  BY DEF bgVars
<1>b. /\ FrameInv /\ BgInv /\ SnInv /\ RestTypes /\ ServeInv /\ CleanupInv /\ ReadyInv
  BY DEF CoreInv
<1>1. BgInv'
  BY <1>b, BackgroundFrame DEF FrameInv
<1>2. ServeInv'
  BY <1>a, <1>b DEF ServeInv, Busy, Over
<1>3. Over => Over'
  BY <1>a, OverPersists
<1>4. Persists
  BY <1>a, <1>3 DEF Persists, Published
<1>5. lease.sealed => bg'.pc = "idle"
  BY <1>a, <1>b DEF CleanupInv
<1>6. \A t \in Terminal : task'[t].state # "running" /\ task'[t].census
  BY <1>a DEF Terminal
<1>7. RestTypes' /\ CleanupInv' /\ ReadyInv'
  BY <1>a, <1>b, <1>4, <1>5, <1>6, RestKeeps
<1> QED BY <1>1, <1>2, <1>7 DEF CoreInv

LEMMA CommandCore ==
    ASSUME CoreInv, NEW c \in Commands, NEW signed \in BOOLEAN, ExecuteCommand(c, signed)
    PROVE  CoreInv'
<1>a. Serving /\ UNCHANGED <<bgVars, snVars, cu, lease, probe>>
  BY DEF ExecuteCommand, fgRest, restVars
<1>b. ~Over /\ bg.pc = "idle" /\ cu.pc = "idle" /\ probe = "none" /\ ~Busy
  BY <1>a DEF Serving, Idle, CoreInv, ReadyInv, Busy
<1>1. FrameInv' /\ UNCHANGED procs
  BY AdmitEffect, FrameAdmits DEF ExecuteCommand, CoreInv
<1>2. SnInv'
  BY <1>1, <1>a, SnapshotFrame DEF CoreInv, FrameInv
<1>3. \A x \in Commands : ~Failed(x)
  BY <1>b DEF Over, Failed
<1> QED BY <1>a, <1>b, <1>1, <1>2, <1>3, OutsideKeeps

LEMMA ForegroundCore ==
    ASSUME CoreInv, ForegroundStep
    PROVE  CoreInv'
<1>a. UNCHANGED <<bgVars, snVars, cu, lease, probe>>
  BY DEF ForegroundStep, fgRest, restVars
<1>b. HostFrame
  BY HostFrames DEF ForegroundStep, CoreInv
<1>1. /\ FrameInv' /\ (UNCHANGED procs \/ (fg.cmd \in Commands /\ Touches(fg.cmd))) /\ active' \subseteq active
      /\ \A c \in Commands : Failed(c) => Failed(c)'
  BY <1>b, FrameKeeps DEF CoreInv
<1>2. \A x \in Tasks \cup Snapshots : procs'[x] = procs[x]
  BY <1>1, OwnersDistinct, TouchEffect DEF CoreInv, FrameInv
<1>3. SnInv'
  BY <1>1, <1>2, <1>a, SnapshotFrame DEF CoreInv, FrameInv
<1>4. ~Busy
  BY <1>b DEF CoreInv, ServeInv, HostFrame
<1>5. UNCHANGED <<sn, snaps>>
  BY <1>a DEF snVars
<1>6. probe # "none" => sn'.pc = "idle"
  BY <1>5 DEF CoreInv, ReadyInv
<1> QED BY <1>a, <1>1, <1>2, <1>3, <1>4, <1>5, <1>6, OutsideKeeps

LEMMA RunCore ==
    ASSUME CoreInv, NEW c \in Commands, RemoteRun(c)
    PROVE  CoreInv'
<1>a. UNCHANGED <<bgVars, snVars, cu, lease, probe>>
  BY DEF RemoteRun, fgRest, restVars
<1>1. FrameInv' /\ (UNCHANGED procs \/ Touches(c)) /\ UNCHANGED <<active, fg, out>>
  BY ScriptFrames DEF RemoteRun, CoreInv
<1>2. \A x \in Tasks \cup Snapshots : procs'[x] = procs[x]
  BY <1>1, OwnersDistinct, TouchEffect DEF CoreInv, FrameInv
<1>3. SnInv'
  <2>1. SnInv /\ ProcTypes'
    BY <1>1 DEF CoreInv, FrameInv
  <2>2. \A s \in Snapshots : procs'[s] = procs[s]
    BY <1>2
  <2> QED BY <1>a, <2>1, <2>2, SnapshotFrame
<1>4. UNCHANGED <<sn, snaps>>
  BY <1>a DEF snVars
<1>5. probe # "none" => sn'.pc = "idle"
  BY <1>4 DEF CoreInv, ReadyInv
<1>6. \A x \in Commands : Failed(x) => Failed(x)'
  BY <1>1 DEF Failed
<1>7. UNCHANGED <<bgVars, cu, lease, probe>> /\ \A t \in Tasks : procs'[t] = procs[t]
  BY <1>a, <1>2
<1>8. FrameInv' /\ UNCHANGED <<fg, sn>> /\ UNCHANGED out /\ active' \subseteq active /\ snaps' \subseteq snaps
  BY <1>1, <1>4
<1> QED BY <1>3, <1>5, <1>6, <1>7, <1>8, OutsideKeeps

LEMMA SnapshotBeginsCore ==
    ASSUME CoreInv, NEW s \in Snapshots, ExecSnapshot(s)
    PROVE  CoreInv'
<1>a. Idle /\ probe = "none" /\ SnBegin(s) /\ UNCHANGED <<fgVars, bgVars, cu, lease, probe>>
  BY DEF ExecSnapshot, snRest, restVars
<1>b. cu.pc = "idle" /\ ~Busy /\ UNCHANGED <<run, active, fg, out>>
  BY <1>a DEF Idle, Busy, fgVars
<1>1. SnInv' /\ UNCHANGED procs
  BY <1>a, <1>b, SnapshotBegins DEF CoreInv
<1>2. FrameInv' /\ \A c \in Commands : Failed(c) => Failed(c)'
  BY <1>b, <1>1, FrameQuiet DEF CoreInv, SnInv
<1> QED BY <1>a, <1>b, <1>1, <1>2, OutsideKeeps

LEMMA SnapshotCore ==
    ASSUME CoreInv, SnapshotStep
    PROVE  CoreInv'
<1>a. SnapshotHost /\ UNCHANGED <<fgVars, bgVars, cu, lease, probe>>
  BY DEF SnapshotStep, snRest, restVars
<1>b. sn.pc # "idle"
  BY <1>a DEF SnapshotHost, SnNotStarted, SnPrepare, SnDispatch, SnStarted, SnRelease, SnReleased, SnSettled,
      SnTrouble,
              SnInspect, SnInspected, SnCancel, SnContained, SnUnverified
<1>c. ~Busy /\ probe = "none" /\ UNCHANGED <<run, active, fg, out>>
  BY <1>a, <1>b DEF CoreInv, ServeInv, ReadyInv, fgVars
<1>1. SnInv' /\ UNCHANGED procs
  BY <1>a, SnapshotHostKeeps DEF CoreInv
<1>2. FrameInv' /\ \A c \in Commands : Failed(c) => Failed(c)'
  BY <1>c, <1>1, FrameQuiet DEF CoreInv, SnInv
<1> QED BY <1>a, <1>c, <1>1, <1>2, OutsideKeeps

LEMMA SupervisorCore ==
    ASSUME CoreInv, NEW s \in Snapshots, RemoteSnapshot(s)
    PROVE  CoreInv'
<1>a. (SnapshotScript(s) \/ BehaveSnapshot(s)) /\ UNCHANGED <<snHost, fgVars, bgVars, cu, lease, probe>>
  BY DEF RemoteSnapshot, snRest, restVars
<1>b. UNCHANGED <<run, active, fg, out, sn, snaps>>
  BY <1>a DEF fgVars, snHost
<1>1. SupMoves(s)
  BY <1>a, SupervisorEffect DEF CoreInv, SnInv
<1>2. SnInv'
  BY <1>1, <1>a, SupervisorKeeps DEF CoreInv
<1>3. UNCHANGED procs \/ Touches(s)
  BY <1>1, LivesTouches DEF SupMoves, Touches
<1>4. ProcTypes' /\ \A t \in Tasks : procs'[t] = procs[t]
  BY <1>3, OwnersDistinct, TouchEffect DEF CoreInv, FrameInv
<1>5. FrameInv' /\ \A c \in Commands : Failed(c) => Failed(c)'
  BY <1>b, <1>4, FrameQuiet DEF CoreInv
<1>6. probe # "none" => sn'.pc = "idle"
  BY <1>b DEF CoreInv, ReadyInv
<1> QED BY <1>a, <1>b, <1>2, <1>4, <1>5, <1>6, OutsideKeeps

LEMMA RequestCore ==
    ASSUME CoreInv,
           \/ \E t \in Tasks : ExecuteStart(t) \/ ExecuteKill(t)
           \/ \E todo \in SUBSET Tasks : ExecuteOutput(todo)
           \/ RequestManifest
    PROVE  CoreInv'
<1>a. Serving /\ UNCHANGED bgRest
  BY DEF ExecuteStart, ExecuteKill, ExecuteOutput, RequestManifest
<1>b. UNCHANGED <<fgVars, snVars, cu, lease, probe>>
  BY <1>a DEF bgRest, restVars
<1>c. ~Over /\ fg.pc = "idle" /\ sn.pc = "idle" /\ cu.pc = "idle" /\ probe = "none"
  BY <1>a DEF Serving, Idle, CoreInv, ReadyInv
<1>d. \/ \E t \in Tasks : StartBackground(t) \/ KillCommand(t)
      \/ \E todo \in SUBSET Tasks : TerminalOutput(todo)
      \/ BackgroundManifest
  BY DEF ExecuteStart, ExecuteKill, ExecuteOutput, RequestManifest
<1>1. BgInv'
  BY <1>b, <1>d, RequestsKeep DEF CoreInv
<1>e. \E op \in {"start", "output", "kill", "manifest"}, t \in Tasks \cup {"none"}, todo \in SUBSET Tasks :
          Begin(op, t, todo)
  <2>1. reg \in SUBSET Tasks
    BY DEF CoreInv, BgInv, HostBase, BgTypes
  <2>2. CASE \E t \in Tasks : StartBackground(t)
    BY <2>1, <2>2 DEF StartBackground
  <2>3. CASE \E t \in Tasks : KillCommand(t)
    BY <2>3 DEF KillCommand
  <2>4. CASE \E todo \in SUBSET Tasks : TerminalOutput(todo)
    BY <2>4 DEF TerminalOutput
  <2>5. CASE BackgroundManifest
    BY <2>1, <2>5 DEF BackgroundManifest
  <2> QED BY <1>d, <2>2, <2>3, <2>4, <2>5
<1>f. ~bg'.fatal /\ UNCHANGED <<procs, mon>>
  <2>1. PICK op \in {"start", "output", "kill", "manifest"}, t \in Tasks \cup {"none"}, todo \in SUBSET Tasks :
             Begin(op, t, todo)
    BY <1>e
  <2>2. bg' = [BgResting EXCEPT !.pc = "sweep", !.op = op, !.tgt = t, !.todo = todo] /\ UNCHANGED <<procs, mon>>
    BY <2>1 DEF Begin, remoteVars
  <2>3. ASSUME NEW r \in BgType, NEW q, q = [r EXCEPT !.pc = "sweep", !.op = op, !.tgt = t, !.todo = todo]
        PROVE  q.fatal = r.fatal
    BY <2>3 DEF BgType
  <2> QED BY <2>2, <2>3, BgRests
<1>g. UNCHANGED <<run, active, fg, out>> /\ UNCHANGED <<sn, snaps>>
  BY <1>b DEF fgVars, snVars
<1>2. FrameInv'
  BY <1>g, <1>1, FrameQuiet DEF CoreInv, BgInv, HostBase
<1>3. SnInv'
  BY <1>b, <1>f, <1>1, SnapshotFrame DEF CoreInv, BgInv, HostBase
<1>4. ServeInv'
  BY <1>b, <1>c, <1>f, <1>g DEF ServeInv, Over
<1>5. Persists
  BY <1>c, <1>f DEF Persists, Published
<1>6. ~lease.sealed
  BY <1>c DEF Over
<1>7. RestTypes' /\ CleanupInv' /\ ReadyInv'
  BY <1>b, <1>c, <1>5, <1>6, RestKeeps DEF CoreInv
<1> QED BY <1>1, <1>2, <1>3, <1>4, <1>7 DEF CoreInv

(* The host revives nothing, and takes back no published identity.         *)
LEMMA BackgroundLasts ==
    ASSUME HostBase, BackgroundHost \/ CancelBackground, NEW t \in Tasks, TokensOf(procs[t]) = {}, Published(t)
    PROVE  TokensOf(procs'[t]) = {} /\ Published(t)'
<1>1. CASE TerminateTerm \/ TerminateNone \/ TerminateKill
  <2>1. (UNCHANGED procs \/ Lives(bg.at)) /\ UNCHANGED <<mon, reused>>
    BY <1>1, TerminateSeats
  <2>2. bg.at \in Tasks
    BY <1>1, BaseFacts DEF TerminateTerm, TerminateNone, TerminateKill, AtSteps, Verifying
  <2> QED BY <2>1, <2>2, OwnersDistinct, LivesEffect DEF Published, HostBase
<1>2. CASE LaunchDispatch
  <2>1. /\ UNCHANGED procs /\ mon[bg.at] = "none" /\ mon' = [mon EXCEPT ![bg.at] = "queued"]
    BY <1>2, DispatchEffect
  <2> QED BY <2>1 DEF Published, HostBase, BgTypes
<1>3. CASE \/ \E u \in Tasks : Visit(u)
           \/ VerifyLiveness \/ VerifyEnded \/ ConfirmStopped \/ ConfirmFailed \/ Decide \/ Terminated \/ NotTerminated
           \/ RefuseStart \/ RegisterTask \/ LaunchRefused \/ LaunchStep \/ SalvageEnded \/ Salvage \/ SalvageUnknown
           \/ LaunchAck \/ LaunchLost \/ FirstStatus \/ HandOff \/ CancelBackground \/ OutputDone
  <2>1. UNCHANGED <<procs, remoteVars>>
    BY <1>3 DEF Visit, VerifyLiveness, VerifyEnded, ConfirmStopped, ConfirmFailed, Decide, RefuseStart, RegisterTask,
                LaunchRefused, LaunchStep, LaunchAck, LaunchLost, FirstStatus, HandOff, Terminated, NotTerminated,
                CancelBackground, OutputDone, SalvageEnded, Salvage, SalvageUnknown
  <2> QED BY <2>1, SMTT(30) DEF remoteVars, Published
<1> QED BY <1>1, <1>2, <1>3, Zenon DEF BackgroundHost

LEMMA BackgroundCore ==
    ASSUME CoreInv, BackgroundStep
    PROVE  CoreInv'
<1>b. UNCHANGED <<fgVars, snVars, cu, lease, probe>> /\ (BackgroundHost \/ CancelBackground)
  BY DEF BackgroundStep, bgRest, restVars
<1>g. UNCHANGED <<run, active, fg, out>> /\ UNCHANGED <<sn, snaps>>
  BY <1>b DEF fgVars, snVars
<1>c. BgInv /\ HostBase /\ BgInv'
  BY <1>b, BackgroundKeeps DEF CoreInv, BgInv
<1>d. /\ bg.pc # "idle"
      /\ UNCHANGED procs \/ (bg.at \in Tasks /\ Touches(bg.at))
      /\ ~Busy => /\ ~Busy' /\ reg' \subseteq reg
                  /\ \A t \in Tasks : task'[t].state = task[t].state /\ task'[t].census = task[t].census
  BY <1>b, <1>c, BackgroundActs
<1>e. ~bg.fatal /\ ~lease.sealed
  BY <1>c, <1>d DEF CoreInv, CleanupInv, HostBase, LaunchInv
<1>f. bg'.fatal => bg'.pc = "idle"
  BY <1>c DEF BgInv, HostBase, LaunchInv
<1>1. \A x \in Commands \cup Snapshots : procs'[x] = procs[x]
  BY <1>c, <1>d, OwnersDistinct, TouchEffect DEF HostBase
<1>2. FrameInv' /\ \A c \in Commands : Failed(c) => Failed(c)'
  BY <1>c, <1>g, FrameQuiet DEF CoreInv, BgInv, HostBase
<1>3. SnInv'
  BY <1>b, <1>c, <1>1, SnapshotFrame DEF CoreInv, BgInv, HostBase
<1>4. ServeInv'
  <2>1. SUFFICES ASSUME Busy'
                 PROVE  ~Over' /\ fg'.pc = "idle" /\ sn'.pc = "idle" /\ cu'.pc = "idle"
    BY DEF ServeInv
  <2>2. Busy /\ ~bg'.fatal
    BY <1>d, <1>f, <2>1 DEF Busy
  <2> QED BY <1>b, <1>g, <2>2 DEF CoreInv, ServeInv, Over
<1>5. Persists
  <2>1. Over => Over'
    BY <1>b, <1>e, <1>2, OverPersists
  <2>2. ASSUME NEW t \in Tasks, TokensOf(procs[t]) = {}, Published(t)
        PROVE  TokensOf(procs'[t]) = {} /\ Published(t)'
    BY <1>b, <1>c, <2>2, BackgroundLasts
  <2> QED BY <2>1, <2>2 DEF Persists
<1>6. probe # "none" => /\ sn'.pc = "idle" /\ active' \subseteq active /\ snaps' \subseteq snaps /\ reg' \subseteq reg
                        /\ \A t \in Terminal : task'[t].state # "running" /\ task'[t].census
  <2>1. probe # "none" => ~Busy /\ sn.pc = "idle"
    BY DEF CoreInv, ReadyInv, ServeInv
  <2>2. Terminal \subseteq Tasks
    BY <1>c DEF HostBase, BgTypes, Terminal
  <2> QED BY <1>d, <1>g, <2>1, <2>2 DEF Terminal
<1>7. RestTypes' /\ CleanupInv' /\ ReadyInv'
  BY <1>b, <1>e, <1>5, <1>6, RestKeeps DEF CoreInv
<1> QED BY <1>c, <1>2, <1>3, <1>4, <1>7 DEF CoreInv

LEMMA MonitorCore ==
    ASSUME CoreInv, NEW t \in Tasks, RemoteMonitor(t)
    PROVE  CoreInv'
<1>b. /\ UNCHANGED hostVars /\ UNCHANGED <<fgVars, snVars, cu, lease, probe>>
      /\ Monitor(t) \/ BehaveBackground(t) \/ ReusePid(t)
  BY DEF RemoteMonitor, bgRest, restVars
<1>g. UNCHANGED <<run, active, fg, out>> /\ UNCHANGED <<sn, snaps>>
  BY <1>b DEF fgVars, snVars
<1>c. BgInv /\ HostBase /\ MonitorMoves(t)
  BY <1>b, MonitorEffect DEF CoreInv, BgInv
<1>d. BgInv'
  BY <1>b, <1>c, MonitorKeeps
<1>e. UNCHANGED <<reg, task, bg>> /\ (UNCHANGED procs \/ Touches(t))
  BY <1>c, LivesTouches DEF MonitorMoves, Touches
<1>1. \A x \in Commands \cup Snapshots : procs'[x] = procs[x]
  BY <1>c, <1>e, OwnersDistinct, TouchEffect DEF HostBase
<1>2. FrameInv' /\ \A c \in Commands : Failed(c) => Failed(c)'
  BY <1>d, <1>g, FrameQuiet DEF CoreInv, BgInv, HostBase
<1>3. SnInv'
  BY <1>b, <1>d, <1>1, SnapshotFrame DEF CoreInv, BgInv, HostBase
<1>4. ServeInv'
  BY <1>b, <1>e, <1>g DEF CoreInv, ServeInv, Busy, Over
<1>5. Persists
  <2>1. Over => Over'
    BY <1>b, <1>e, <1>2, OverPersists
  <2>2. ASSUME NEW u \in Tasks, TokensOf(procs[u]) = {}, Published(u)
        PROVE  TokensOf(procs'[u]) = {} /\ Published(u)'
    <3>1. CASE u = t
      BY <1>c, <2>2, <3>1, OwnersDistinct, LivesEffect DEF MonitorMoves, Published, HostBase
    <3>2. CASE u # t
      BY <1>c, <1>e, <2>2, <3>2, OwnersDistinct, TouchEffect DEF MonitorMoves, Published, HostBase
    <3> QED BY <3>1, <3>2
  <2> QED BY <2>1, <2>2 DEF Persists
<1>6. (lease.sealed => bg'.pc = "idle") /\ (probe # "none" => sn'.pc = "idle")
  BY <1>e, <1>g DEF CoreInv, CleanupInv, ReadyInv
<1>7. \A u \in Terminal : task'[u].state # "running" /\ task'[u].census
  BY <1>e DEF Terminal
<1>8. RestTypes' /\ CleanupInv' /\ ReadyInv'
  BY <1>b, <1>e, <1>g, <1>5, <1>6, <1>7, RestKeeps DEF CoreInv
<1> QED BY <1>d, <1>2, <1>3, <1>4, <1>8 DEF CoreInv

(***************************************************************************)
(* Cleanup.                                                                *)
(***************************************************************************)
LEMMA CuRests ==
    ASSUME NEW answer \in {"none", "clean", "unclean"}, cu' = [CuResting EXCEPT !.answer = answer]
    PROVE  cu' \in CuType /\ cu'.pc = "idle" /\ cu'.zero = {} /\ ~cu'.closing /\ cu'.answer = answer
  BY DEF CuResting, CuType

LEMMA CuGoes ==
    ASSUME cu \in CuType, NEW step \in {"term", "kill", "census"}, NEW left \in SUBSET Owned,
           NEW zero \in SUBSET Owned,
           cu' = [cu EXCEPT !.pc = step, !.left = left, !.zero = zero]
    PROVE  /\ cu' \in CuType /\ cu'.pc = step /\ cu'.zero = zero /\ cu'.parts = cu.parts
           /\ cu'.closing = cu.closing /\ cu'.answer = cu.answer
  BY DEF CuType

LEMMA LeaseEdits ==
    ASSUME lease \in LeaseType, NEW answer \in {"clean", "unclean"}, lease' = [lease EXCEPT !.outcome = answer]
    PROVE  /\ lease' \in LeaseType /\ lease'.sealed = lease.sealed
           /\ lease'.tasks = lease.tasks /\ lease'.outcome = answer
  BY DEF LeaseType

(* The tasks that are pruned have ended, and nobody launches one while a   *)
(* cleanup runs or the session is over.                                    *)
LEMMA PruneQuiet ==
    ASSUME CoreInv, HandlerGone \/ Over, UNCHANGED <<procs, remoteVars, task, bg, told>>, reg' = reg \ Terminal,
           \A t \in Tasks : t \in cu'.zero => TokensOf(procs[t]) = {} /\ Published(t)
    PROVE  BgInv' /\ ~Busy /\ ~Busy'
<1>a. BgInv /\ HostBase /\ ProcTypes /\ reg \subseteq Tasks
  BY DEF CoreInv, BgInv, HostBase, BgTypes
<1>b. UNCHANGED <<starter, mon, status, killed, reused, foreign>>
  BY DEF remoteVars
<1>c. \A t \in Terminal : TokensOf(procs[t]) = {} /\ mon[t] # "queued"
  BY <1>a, BaseFacts DEF Terminal, HostBase, TaskInv
<1>d. bg.op = "salvage" => bg.pc \in {"kill", "killAgain", "killed", "noneLeft"}
  BY <1>a DEF HostBase, LaunchInv
<1>e. ~Busy
  BY <1>d DEF CoreInv, ServeInv, HandlerGone, Busy
<1>f. bg.pc \notin Launching
  BY <1>d, <1>e DEF Busy, Launching
<1>g. ProcTypes' /\ killed \in [Tasks -> BOOLEAN] /\ foreign \in BOOLEAN /\ task \in [Tasks -> TaskType]
  BY <1>a DEF ProcTypes, HostBase, BgTypes
<1>h. reg' \subseteq reg /\ \A t \in reg \ reg' : TokensOf(procs[t]) = {} /\ mon[t] # "queued"
  BY <1>c
<1>1. BgInv'
  BY <1>a, <1>b, <1>f, <1>g, <1>h, BackgroundQuiet
<1>2. ~Busy'
  BY <1>e DEF Busy
<1> QED BY <1>e, <1>1, <1>2

LEMMA BeginCore ==
    ASSUME CoreInv, NEW closing \in BOOLEAN, BeginCleanup(closing)
    PROVE  CoreInv'
<1>a. /\ cu.pc = "idle" /\ HandlerGone /\ reg' = reg \ Terminal
      /\ closing => lease.sealed /\ lease.outcome = "none" /\ Live = lease.tasks
      /\ UNCHANGED <<procs, fgVars, remoteVars, task, bg, told, snVars, probe>>
  BY DEF BeginCleanup
<1>b. UNCHANGED <<run, active, fg, out, start, sup, terminal, sn, snOut, snaps, mon>>
  BY <1>a DEF fgVars, snVars, remoteVars
<1>c. Participants \subseteq Owned /\ Live \subseteq Participants
  BY OwnersDistinct DEF CoreInv, FrameInv, FgTypes, BgInv, HostBase, BgTypes, SnInv, SnTypes, Participants,
      Live, Terminal
<1>d. cu \in CuType /\ lease \in LeaseType /\ sn.pc = "idle" /\ ProcTypes /\ ProcTypes'
  BY <1>a DEF CoreInv, RestTypes, HandlerGone, FrameInv, ProcTypes
<1>e. /\ cu' \in CuType /\ cu'.zero = {} /\ (cu.answer # "none" => cu'.answer # "none")
      /\ cu'.closing => Participants # {} /\ closing /\ cu'.parts = Participants
      /\ cu'.pc = "idle" => ~cu'.closing
  <2>1. CASE Participants = {}
    <3>1. cu' = [CuResting EXCEPT !.answer = "clean"]
      BY <2>1 DEF BeginCleanup
    <3> QED BY <3>1, CuRests
  <2>2. CASE Participants # {}
    <3>1. cu' = [CuResting EXCEPT !.pc = "term", !.parts = Participants, !.left = Participants, !.closing = closing,
                                       !.answer = cu.answer]
      BY <2>2 DEF BeginCleanup
    <3>2. cu.answer \in {"none", "clean", "unclean"} /\ Participants \in SUBSET Owned
      BY <1>c, <1>d DEF CuType
    <3>3. PICK P \in SUBSET Owned, a \in {"none", "clean", "unclean"}, b \in BOOLEAN :
              /\ P = Participants /\ a = cu.answer /\ (b <=> closing)
              /\ cu' = [CuResting EXCEPT !.pc = "term", !.parts = P, !.left = P, !.closing = b, !.answer = a]
      BY <3>1, <3>2, Zenon
    <3>4. cu' \in CuType /\ cu'.zero = {} /\ cu'.answer = a /\ cu'.pc = "term" /\ cu'.parts = P /\ cu'.closing = b
      BY <3>3 DEF CuResting, CuType
    <3> QED BY <2>2, <3>3, <3>4
  <2> QED BY <2>1, <2>2
<1>f. /\ lease' \in LeaseType /\ lease'.sealed = lease.sealed /\ lease'.tasks = lease.tasks
      /\ lease' = lease \/ (closing /\ Participants = {} /\ lease'.outcome = "clean")
  BY <1>d, LeaseEdits DEF BeginCleanup
<1>1. BgInv' /\ ~Busy /\ ~Busy'
  BY <1>a, <1>e, PruneQuiet
<1>2. FrameInv' /\ \A c \in Commands : Failed(c) => Failed(c)'
  BY <1>b, <1>d, FrameQuiet DEF CoreInv
<1>3. SnInv'
  BY <1>a, <1>b, <1>d, <1>e, SnapshotQuiet DEF CoreInv
<1>4. Over => Over'
  BY <1>a, <1>e, <1>f, <1>2 DEF Over, Failed
<1>5. RestTypes' /\ ServeInv'
  BY <1>1, <1>e, <1>f DEF RestTypes, ServeInv
<1>6. CleanupInv'
  <2>1. cu'.closing => lease'.sealed /\ lease'.tasks \subseteq cu'.parts
    BY <1>a, <1>c, <1>e, <1>f
  <2>2. lease'.outcome # "none" => lease'.sealed
    BY <1>a, <1>f DEF CoreInv, CleanupInv
  <2>3. lease'.sealed => bg'.pc = "idle"
    BY <1>a, <1>f DEF CoreInv, CleanupInv
  <2>4. lease'.outcome = "clean" => \A t \in lease'.tasks : TokensOf(procs'[t]) = {} /\ Published(t)'
    BY <1>a, <1>b, <1>c, <1>f DEF CoreInv, CleanupInv, Published
  <2> QED BY <1>e, <2>1, <2>2, <2>3, <2>4 DEF CleanupInv
<1>7. ReadyInv'
  <2>1. probe = "ready" => reg' = {}
    BY <1>a DEF CoreInv, ReadyInv
  <2> QED BY <1>a, <1>b, <1>4, <2>1 DEF CoreInv, ReadyInv
<1> QED BY <1>1, <1>2, <1>3, <1>5, <1>6, <1>7 DEF CoreInv

(* A step of a running cleanup that signals or counts.                     *)
LEMMA CleanupQuiet ==
    ASSUME CoreInv, cu.pc # "idle", cu' \in CuType, cu'.pc # "idle", cu'.parts = cu.parts, cu'.closing = cu.closing,
           cu'.answer = cu.answer, UNCHANGED <<lease, probe>>, UNCHANGED <<run, active, fg, out>>,
           UNCHANGED <<starter, mon, status, reused, told, bg, reg, task>>, UNCHANGED <<sn, snaps>>,
           killed' \in [Tasks -> BOOLEAN], ProcTypes',
           \A t \in Tasks : TokensOf(procs[t]) = {} => TokensOf(procs'[t]) = {},
           \A t \in Tasks : "leader" \in procs'[t] => "leader" \in procs[t],
           foreign' \in BOOLEAN, foreign' => foreign \/ \E t \in Tasks : reused[t] /\ "leader" \in procs[t],
           \A t \in Tasks : t \in cu'.zero => TokensOf(procs'[t]) = {} /\ Published(t), SnInv'
    PROVE  CoreInv'
<1>a. BgInv /\ ~Busy /\ task \in [Tasks -> TaskType]
  BY DEF CoreInv, ServeInv, BgInv, HostBase, BgTypes
<1>1. BgInv'
  BY <1>a, BackgroundQuiet
<1>2. FrameInv' /\ \A c \in Commands : Failed(c) => Failed(c)'
  BY FrameQuiet DEF CoreInv
<1>3. ServeInv'
  BY <1>a DEF ServeInv, Busy
<1>4. RestTypes'
  BY DEF CoreInv, RestTypes
<1>5. CleanupInv'
  <2>1. lease.tasks \subseteq Tasks
    BY DEF CoreInv, RestTypes, LeaseType
  <2> QED BY <2>1 DEF CoreInv, CleanupInv, Published
<1>6. ReadyInv'
  BY DEF CoreInv, ReadyInv, Over, Terminal
<1> QED BY <1>1, <1>2, <1>3, <1>4, <1>5, <1>6, Zenon DEF CoreInv

(* what it leaves of the foreground                                        *)
Spares ==
    /\ cu.pc # "idle" /\ UNCHANGED <<run, active, fg, out>>
    /\ \A c \in Commands : procs[c] = {} => procs'[c] = {}
    /\ \A c \in Commands : c \in cu'.zero => c \in cu.zero \/ (procs[c] = {} /\ PgidPublished(c))

LEMMA SignalCore ==
    ASSUME CoreInv, NEW o \in Owned, SignalParticipant(o)
    PROVE  CoreInv' /\ Spares
<1>a. /\ cu.pc \in {"term", "kill"} /\ o \notin Snapshots /\ cu' = [cu EXCEPT !.left = @ \ {o}]
      /\ UNCHANGED <<fgVars, hostVars, starter, mon, status, reused, snVars, lease, probe>>
  BY DEF SignalParticipant
<1>b. UNCHANGED <<run, active, fg, out>> /\ UNCHANGED <<reg, task, bg, told>>
      /\ UNCHANGED <<start, sup, terminal, sn, snOut, snaps>>
  BY <1>a DEF fgVars, hostVars, snVars
<1>c. cu \in CuType /\ sn.pc = "idle" /\ ProcTypes /\ procs[o] \in SUBSET Members /\ BgTypes
  BY <1>a DEF CoreInv, RestTypes, SnInv, SnapInv, FrameInv, ProcTypes, BgInv, HostBase
<1>d. /\ cu' \in CuType /\ cu'.pc = cu.pc /\ cu'.zero = cu.zero /\ cu'.parts = cu.parts
      /\ cu'.closing = cu.closing /\ cu'.answer = cu.answer
  BY <1>a, <1>c DEF CuType
<1>e. killed \in [Tasks -> BOOLEAN] /\ foreign \in BOOLEAN
  BY <1>c DEF BgTypes
<1>f. \A q \in Signals(o) : q \in SUBSET procs[o]
  BY <1>c, SignalsShrink DEF Signals
<1>1. /\ UNCHANGED procs \/ Lives(o)
      /\ killed' \in [Tasks -> BOOLEAN] /\ foreign' \in BOOLEAN
      /\ foreign' => foreign \/ \E t \in Tasks : reused[t] /\ "leader" \in procs[t]
  <2>1. CASE UNCHANGED <<procs, killed, foreign>>
    BY <1>e, <2>1
  <2>2. CASE (\E p \in Signals(o) : Put(o, p)) /\ UNCHANGED <<killed, foreign>>
    <3>1. PICK p \in SUBSET procs[o] : procs' = [procs EXCEPT ![o] = p]
      BY <1>f, <2>2 DEF Put
    <3> QED BY <1>c, <1>e, <2>2, <3>1, ShrinkLives
  <2>3. CASE o \in Tasks /\ SignalIdentity(o, Signals(o)) /\ killed' = [killed EXCEPT ![o] = TRUE]
    <3>1. Lives(o) /\ foreign' \in BOOLEAN /\ (foreign' => foreign \/ (reused[o] /\ "leader" \in procs[o]))
      BY <1>c, <1>f, <2>3, SignalEffect
    <3>2. killed' \in [Tasks -> BOOLEAN]
      BY <1>e, <2>3
    <3> QED BY <2>3, <3>1, <3>2
  <2>4. o \in Commands \/ o \in Tasks
    BY <1>a, OwnersDistinct
  <2> QED BY <2>1, <2>2, <2>3, <2>4 DEF SignalParticipant
<1>2. /\ ProcTypes' /\ \A x \in Owned : procs[x] = {} => procs'[x] = {}
      /\ \A x \in Owned : TokensOf(procs[x]) = {} => TokensOf(procs'[x]) = {}
      /\ \A x \in Owned : "leader" \in procs'[x] => "leader" \in procs[x]
  BY <1>1, <1>c, LivesEffect DEF ProcTypes
<1>3. SnInv'
  <2>1. \A s \in Snapshots : procs[s] = {} => procs'[s] = {}
    BY <1>2, OwnersDistinct
  <2>2. \A s \in Snapshots : s \in cu'.zero => procs'[s] = {} /\ LeasePublished(s)
    BY <1>d, <2>1 DEF CoreInv, SnInv, SnapInv
  <2> QED BY <1>b, <1>c, <1>2, <2>1, <2>2, SnapshotQuiet DEF CoreInv
<1>4. \A t \in Tasks : /\ TokensOf(procs[t]) = {} => TokensOf(procs'[t]) = {}
                       /\ "leader" \in procs'[t] => "leader" \in procs[t]
                       /\ t \in cu'.zero => TokensOf(procs'[t]) = {} /\ Published(t)
  BY <1>2, <1>d, OwnersDistinct DEF CoreInv, BgInv, HostBase, TaskInv
<1>5. Spares
  BY <1>a, <1>b, <1>d, <1>2, OwnersDistinct DEF Spares
<1>6. CoreInv'
  BY <1>a, <1>b, <1>d, <1>1, <1>2, <1>3, <1>4, CleanupQuiet
<1> QED BY <1>5, <1>6

LEMMA SignalSnapshotCore ==
    ASSUME CoreInv, NEW s \in Snapshots, SignalSnapshot(s)
    PROVE  CoreInv' /\ Spares
<1>a. /\ cu.pc \in {"term", "kill"} /\ cu' = [cu EXCEPT !.left = @ \ {s}]
      /\ UNCHANGED <<fgVars, bgVars, start, terminal, snHost, lease, probe>>
  BY DEF SignalSnapshot
<1>b. /\ UNCHANGED <<run, active, fg, out>>
      /\ UNCHANGED <<starter, mon, status, killed, reused, foreign, told, bg, reg, task>>
      /\ UNCHANGED <<sn, snOut, snaps>>
  BY <1>a DEF fgVars, bgVars, snHost
<1>c. cu \in CuType /\ sn.pc = "idle" /\ ProcTypes /\ s \in Owned /\ procs[s] \in SUBSET Members
  BY <1>a, OwnersDistinct DEF CoreInv, RestTypes, SnInv, SnapInv, FrameInv, ProcTypes
<1>d. /\ cu' \in CuType /\ cu'.pc = cu.pc /\ cu'.zero = cu.zero /\ cu'.parts = cu.parts
      /\ cu'.closing = cu.closing /\ cu'.answer = cu.answer
  BY <1>a, <1>c DEF CuType
<1>e. killed \in [Tasks -> BOOLEAN] /\ foreign \in BOOLEAN
  BY DEF CoreInv, BgInv, HostBase, BgTypes
<1>1. UNCHANGED procs \/ Lives(s)
  <2>1. CASE \E p \in Signals(s) : Put(s, p)
    <3>1. PICK p \in Signals(s) : procs' = [procs EXCEPT ![s] = p]
      BY <2>1 DEF Put
    <3>2. p \in SUBSET procs[s]
      BY <3>1 DEF Signals, AfterTerm, AfterKill
    <3> QED BY <1>c, <3>1, <3>2, ShrinkLives
  <2> QED BY <2>1 DEF SignalSnapshot
<1>2. \/ sup' = sup
      \/ \E u \in Snapshots, to \in {"gone", "killed"} : LeasePublished(u) /\ sup' = [sup EXCEPT ![u] = to]
  BY DEF SignalSnapshot
<1>3. ProcTypes' /\ \A x \in Owned : procs[x] = {} => procs'[x] = {}
  BY <1>1, <1>c, LivesEffect DEF ProcTypes
<1>4. \A t \in Tasks : procs'[t] = procs[t]
  BY <1>1, <1>c, OwnersDistinct, LivesEffect
<1>5. SnInv'
  <2>1. \A u \in Snapshots : procs[u] = {} => procs'[u] = {}
    BY <1>3, OwnersDistinct
  <2>2. \A u \in Snapshots : u \in cu'.zero => procs'[u] = {} /\ LeasePublished(u)
    BY <1>d, <2>1 DEF CoreInv, SnInv, SnapInv
  <2> QED BY <1>a, <1>b, <1>c, <1>2, <1>3, <2>1, <2>2, SnapshotQuiet DEF CoreInv
<1>6. \A t \in Tasks : t \in cu'.zero => TokensOf(procs'[t]) = {} /\ Published(t)
  BY <1>4, <1>d DEF CoreInv, BgInv, HostBase, TaskInv
<1>7. Spares
  BY <1>a, <1>b, <1>d, <1>3, OwnersDistinct DEF Spares
<1>8. CoreInv'
  BY <1>a, <1>b, <1>d, <1>e, <1>3, <1>4, <1>5, <1>6, CleanupQuiet
<1> QED BY <1>7, <1>8

(* A census that counts zero is one of a set that stays empty.             *)
LEMMA ProvenMeansGone ==
    ASSUME ProcTypes, NEW o \in Owned, ProvenZero(o)
    PROVE  /\ o \in Commands => procs[o] = {} /\ PgidPublished(o)
           /\ o \in Tasks => TokensOf(procs[o]) = {} /\ Published(o)
           /\ o \in Snapshots => procs[o] = {} /\ LeasePublished(o)
<1>a. procs[o] \in SUBSET Members
  BY DEF ProcTypes
<1>b. OwnedAlive(procs[o]) <=> procs[o] # {}
  BY <1>a, AliveMeansSome
<1>1. CASE o \in Commands
  BY <1>b, <1>1, OwnersDistinct DEF ProvenZero, Reachable, NoneAlive
<1>2. CASE o \in Tasks
  BY <1>2, OwnersDistinct DEF ProvenZero, Reachable, NoneAlive, IdentityAlive, OwnerAlive
<1>3. CASE o \in Snapshots
  BY <1>b, <1>3, OwnersDistinct DEF ProvenZero, Reachable, NoneAlive
<1> QED BY <1>1, <1>2, <1>3, OwnersDistinct

(* The phases and the census.                                              *)
LEMMA PhaseCore ==
    ASSUME CoreInv, NextPhase \/ \E o \in Owned : CensusParticipant(o)
    PROVE  CoreInv' /\ Spares
<1>a. /\ cu.pc # "idle" /\ UNCHANGED <<procs, fgVars, bgVars, snVars, lease, probe>>
  BY DEF NextPhase, CensusParticipant
<1>b. /\ UNCHANGED <<run, active, fg, out>>
      /\ UNCHANGED <<starter, mon, status, killed, reused, foreign, told, bg, reg, task>>
      /\ UNCHANGED <<start, sup, terminal, sn, snOut, snaps>>
  BY <1>a DEF fgVars, bgVars, snVars
<1>c. cu \in CuType /\ sn.pc = "idle" /\ ProcTypes /\ ProcTypes'
  BY <1>a DEF CoreInv, RestTypes, SnInv, SnapInv, FrameInv, ProcTypes
<1>e. killed \in [Tasks -> BOOLEAN] /\ foreign \in BOOLEAN
  BY DEF CoreInv, BgInv, HostBase, BgTypes
<1>1. /\ cu' \in CuType /\ cu'.pc # "idle" /\ cu'.parts = cu.parts
      /\ cu'.closing = cu.closing /\ cu'.answer = cu.answer
      /\ \A x \in cu'.zero : x \in cu.zero \/ (x \in Owned /\ ProvenZero(x))
  <2>1. CASE NextPhase
    BY <1>c, <2>1 DEF NextPhase, CuType
  <2>2. ASSUME NEW o \in Owned, CensusParticipant(o)
        PROVE  /\ cu' \in CuType /\ cu'.pc # "idle" /\ cu'.parts = cu.parts /\ cu'.closing = cu.closing
               /\ cu'.answer = cu.answer
               /\ \A x \in cu'.zero : x \in cu.zero \/ (x \in Owned /\ ProvenZero(x))
    <3>1. \/ cu' = [cu EXCEPT !.left = @ \ {o}]
          \/ ProvenZero(o) /\ cu' = [cu EXCEPT !.left = @ \ {o}, !.zero = @ \cup {o}]
      BY <2>2 DEF CensusParticipant
    <3>2. CASE cu' = [cu EXCEPT !.left = @ \ {o}]
      BY <1>a, <1>c, <3>2 DEF CuType
    <3>3. CASE ProvenZero(o) /\ cu' = [cu EXCEPT !.left = @ \ {o}, !.zero = @ \cup {o}]
      <4>1. /\ cu' \in CuType /\ cu'.pc = cu.pc /\ cu'.zero = cu.zero \cup {o} /\ cu'.parts = cu.parts
            /\ cu'.closing = cu.closing /\ cu'.answer = cu.answer
        BY <1>c, <3>3 DEF CuType
      <4> QED BY <1>a, <3>3, <4>1
    <3> QED BY <3>1, <3>2, <3>3
  <2> QED BY <2>1, <2>2
<1>2. \A s \in Snapshots : s \in cu'.zero => procs[s] = {} /\ LeasePublished(s)
  BY <1>1, <1>c, ProvenMeansGone DEF CoreInv, SnInv, SnapInv
<1>3. \A t \in Tasks : t \in cu'.zero => TokensOf(procs[t]) = {} /\ Published(t)
  BY <1>1, <1>c, ProvenMeansGone DEF CoreInv, BgInv, HostBase, TaskInv
<1>4. SnInv'
  BY <1>a, <1>b, <1>c, <1>2, SnapshotQuiet DEF CoreInv
<1>5. Spares
  BY <1>a, <1>b, <1>c, <1>1, ProvenMeansGone DEF Spares
<1>6. CoreInv'
  BY <1>a, <1>b, <1>c, <1>e, <1>1, <1>3, <1>4, CleanupQuiet
<1> QED BY <1>5, <1>6

(* The cleanup answers, and a lease it closes has its outcome.             *)
LEMMA ClosedEffect ==
    ASSUME RestTypes, NEW answer \in {"clean", "unclean"}, Closed(answer)
    PROVE  /\ RestTypes' /\ cu'.pc = "idle" /\ cu'.zero = {} /\ ~cu'.closing /\ cu'.answer # "none"
           /\ lease'.sealed = lease.sealed /\ lease'.tasks = lease.tasks
           /\ lease'.outcome = IF cu.closing THEN answer ELSE lease.outcome
<1>1. cu' \in CuType /\ cu'.pc = "idle" /\ cu'.zero = {} /\ ~cu'.closing /\ cu'.answer = answer
  BY CuRests DEF Closed
<1>2. /\ lease' \in LeaseType /\ lease'.sealed = lease.sealed /\ lease'.tasks = lease.tasks
      /\ lease'.outcome = IF cu.closing THEN answer ELSE lease.outcome
  BY LeaseEdits DEF Closed, RestTypes
<1> QED BY <1>1, <1>2 DEF RestTypes

LEMMA FinishCore ==
    ASSUME CoreInv, FinishCleanup
    PROVE  CoreInv'
<1>a. /\ cu.pc = "census" /\ Closed(IF cu.zero = cu.parts THEN "clean" ELSE "unclean")
      /\ active' = active \ cu.zero /\ reg' = reg \ cu.zero /\ snaps' = snaps \ cu.zero
      /\ task' = [t \in Tasks |-> IF t \in cu.zero THEN [task[t] EXCEPT !.spooled = TRUE] ELSE task[t]]
      /\ UNCHANGED <<procs, run, fg, out, remoteVars, bg, told, snRemote, sn, snOut, probe>>
  BY DEF FinishCleanup
<1>b. UNCHANGED <<starter, mon, status, killed, reused, foreign, start, sup, terminal>>
  BY <1>a DEF remoteVars, snRemote
<1>c. /\ cu \in CuType /\ lease \in LeaseType /\ sn.pc = "idle" /\ ProcTypes /\ ProcTypes' /\ BgInv /\ ~Busy
      /\ killed \in [Tasks -> BOOLEAN] /\ foreign \in BOOLEAN /\ task \in [Tasks -> TaskType] /\ reg \subseteq Tasks
  BY <1>a DEF CoreInv, RestTypes, SnInv, SnapInv, FrameInv, ProcTypes, ServeInv, BgInv, HostBase, BgTypes
<1>d. PICK answer \in {"clean", "unclean"} : Closed(answer) /\ (answer = "clean" => cu.zero = cu.parts)
  BY <1>a
<1>e. /\ RestTypes' /\ cu'.pc = "idle" /\ cu'.zero = {} /\ ~cu'.closing /\ cu'.answer # "none"
      /\ lease'.sealed = lease.sealed /\ lease'.tasks = lease.tasks
      /\ lease'.outcome = IF cu.closing THEN answer ELSE lease.outcome
  BY <1>d, ClosedEffect DEF CoreInv
<1>f. \A t \in Tasks : t \in cu.zero => TokensOf(procs[t]) = {} /\ Published(t)
  BY <1>c DEF BgInv, HostBase, TaskInv
<1>g. /\ task' \in [Tasks -> TaskType]
      /\ \A t \in Tasks : task'[t].state = task[t].state /\ task'[t].census = task[t].census
                              /\ task'[t].bound = task[t].bound
  <2>1. ASSUME NEW r \in TaskType, NEW q, q = [r EXCEPT !.spooled = TRUE]
        PROVE  q \in TaskType /\ q.state = r.state /\ q.census = r.census /\ q.bound = r.bound
    BY <2>1 DEF TaskType
  <2>2. ASSUME NEW t \in Tasks
        PROVE  /\ task'[t] \in TaskType /\ task'[t].state = task[t].state /\ task'[t].census = task[t].census
               /\ task'[t].bound = task[t].bound
    <3>1. task[t] \in TaskType
      BY <1>c
    <3>2. task'[t] = task[t] \/ task'[t] = [task[t] EXCEPT !.spooled = TRUE]
      BY <1>a
    <3> QED BY <2>1, <3>1, <3>2
  <2>3. task' = [t \in Tasks |-> task'[t]]
    BY <1>a
  <2> QED BY <2>2, <2>3
<1>h. \A t \in reg \ reg' : TokensOf(procs[t]) = {} /\ mon[t] # "queued"
  BY <1>a, <1>c, <1>f DEF Published
<1>i. bg.pc \notin Launching
  BY <1>c DEF Busy, Launching, BgInv, HostBase, LaunchInv
<1>1. BgInv'
  <2>1. \A t \in Tasks : procs'[t] = procs[t]
    BY <1>a
  <2>2. reg' \subseteq reg /\ UNCHANGED <<starter, mon, status, reused, told, bg>>
    BY <1>a, <1>b
  <2> QED BY <1>b, <1>c, <1>e, <1>g, <1>h, <1>i, <2>1, <2>2, BackgroundQuiet
<1>2. FrameInv' /\ \A c \in Commands : Failed(c) => Failed(c)'
  BY <1>a, <1>c, FrameQuiet DEF CoreInv
<1>3. SnInv'
  <2>1. \A s \in Snapshots : s \in snaps \ snaps' => procs[s] = {} /\ LeasePublished(s)
    BY <1>a DEF CoreInv, SnInv, SnapInv
  <2>2. snaps' \subseteq snaps
    BY <1>a
  <2> QED BY <1>a, <1>b, <1>c, <1>e, <2>1, <2>2, SnapshotQuiet DEF CoreInv
<1>4. ServeInv'
  BY <1>a, <1>c DEF ServeInv, Busy
<1>5. CleanupInv'
  <2>1. lease'.outcome # "none" => lease'.sealed
    BY <1>e DEF CoreInv, CleanupInv
  <2>2. lease'.sealed => bg'.pc = "idle"
    BY <1>a, <1>e DEF CoreInv, CleanupInv
  <2>3. ASSUME lease'.outcome = "clean", NEW t \in lease'.tasks
        PROVE  TokensOf(procs'[t]) = {} /\ Published(t)'
    <3>1. t \in Tasks /\ t \in lease.tasks
      BY <1>c, <1>e, <2>3 DEF LeaseType
    <3>2. TokensOf(procs[t]) = {} /\ Published(t)
      BY <1>d, <1>e, <1>f, <2>3, <3>1 DEF CoreInv, CleanupInv
    <3> QED BY <1>a, <1>b, <3>2 DEF Published
  <2> QED BY <1>e, <2>1, <2>2, <2>3 DEF CleanupInv
<1>6. ReadyInv'
  <2>1. Over'
    BY <1>e DEF Over
  <2>2. probe = "ready" => active' = {} /\ snaps' = {}
    BY <1>a DEF CoreInv, ReadyInv
  <2>3. probe = "ready" => reg' \subseteq Terminal'
    BY <1>a, <1>c, <1>g DEF CoreInv, ReadyInv, Terminal
  <2> QED BY <1>a, <1>c, <2>1, <2>2, <2>3 DEF ReadyInv
<1> QED BY <1>e, <1>1, <1>2, <1>3, <1>4, <1>5, <1>6 DEF CoreInv

LEMMA ExpireCore ==
    ASSUME CoreInv, CleanupExpires
    PROVE  CoreInv'
<1>a. cu.pc = "census" /\ Closed("unclean") /\ UNCHANGED <<procs, fgVars, bgVars, snVars, probe>>
  BY DEF CleanupExpires
<1>b. /\ UNCHANGED <<run, active, fg, out>>
      /\ UNCHANGED <<starter, mon, status, killed, reused, foreign, told, bg, reg, task>>
      /\ UNCHANGED <<start, sup, terminal, sn, snOut, snaps>>
  BY <1>a DEF fgVars, bgVars, snVars
<1>c. /\ sn.pc = "idle" /\ ProcTypes /\ ProcTypes' /\ BgInv /\ ~Busy
      /\ killed \in [Tasks -> BOOLEAN] /\ foreign \in BOOLEAN /\ task \in [Tasks -> TaskType]
  BY <1>a DEF CoreInv, SnInv, SnapInv, FrameInv, ProcTypes, ServeInv, BgInv, HostBase, BgTypes
<1>e. /\ RestTypes' /\ cu'.pc = "idle" /\ cu'.zero = {} /\ ~cu'.closing /\ cu'.answer # "none"
      /\ lease'.sealed = lease.sealed /\ lease'.tasks = lease.tasks
      /\ lease'.outcome = IF cu.closing THEN "unclean" ELSE lease.outcome
  BY <1>a, ClosedEffect DEF CoreInv
<1>1. BgInv'
  BY <1>a, <1>b, <1>c, <1>e, BackgroundQuiet
<1>2. FrameInv'
  BY <1>b, <1>c, FrameQuiet DEF CoreInv
<1>3. SnInv'
  BY <1>a, <1>b, <1>c, <1>e, SnapshotQuiet DEF CoreInv
<1>4. ServeInv'
  BY <1>b, <1>c DEF ServeInv, Busy
<1>5. CleanupInv'
  BY <1>a, <1>b, <1>e DEF CoreInv, CleanupInv, Published
<1>6. ReadyInv'
  <2>1. Over'
    BY <1>e DEF Over
  <2> QED BY <1>a, <1>b, <2>1 DEF CoreInv, ReadyInv, Terminal
<1> QED BY <1>e, <1>1, <1>2, <1>3, <1>4, <1>5, <1>6 DEF CoreInv

(***************************************************************************)
(* The lease and the readiness.                                            *)
(***************************************************************************)
LEMMA SealCore ==
    ASSUME CoreInv, SealLease
    PROVE  CoreInv'
<1>a. /\ bg.pc = "sweep" /\ bg.op = "manifest" /\ bg' = BgResting
      /\ UNCHANGED <<procs, fgVars, remoteVars, task, told, snVars, cu, probe>>
  BY DEF SealLease, Swept
<1>b. UNCHANGED <<run, active, fg, out>> /\ UNCHANGED <<sn, snaps>> /\ UNCHANGED <<mon, reused, foreign>>
  BY <1>a DEF fgVars, snVars, remoteVars
<1>c. BgInv /\ HostBase /\ ~Over /\ probe = "none" /\ ~cu.closing /\ lease.outcome = "none" /\ ~bg.fatal
  <2>1. Busy
    BY <1>a DEF Busy
  <2> QED BY <2>1 DEF CoreInv, ServeInv, ReadyInv, CleanupInv, BgInv, Over
<1>d. reg \subseteq Tasks /\ told \in [Tasks -> {"none", "refused", "retained", "quickExit"}] /\ lease \in LeaseType
  BY <1>c DEF HostBase, BgTypes, CoreInv, RestTypes
<1>e. reg' \subseteq reg /\ \A t \in reg \ reg' : TokensOf(procs[t]) = {} /\ mon[t] # "queued"
  BY <1>c, PrunedKeeps DEF SealLease
<1>f. lease' \in LeaseType /\ lease'.outcome = "none"
  <2>1. ASSUME NEW T \in SUBSET Tasks, lease' = [lease EXCEPT !.sealed = TRUE, !.tasks = T]
        PROVE  lease' \in LeaseType /\ lease'.outcome = lease.outcome
    BY <1>d, <2>1 DEF LeaseType
  <2>2. Live \in SUBSET Tasks
    BY <1>d DEF Live
  <2> QED BY <1>c, <1>d, <2>1, <2>2 DEF SealLease
<1>g. Rests(FALSE)
  BY <1>a, RestEffect
<1>h. ~Launched /\ bg.pc \notin Verifying
  BY <1>a DEF Launched, Verifying
<1>1. Seated
  <2>1. FALSE \in BOOLEAN
    OBVIOUS
  <2> QED BY <1>a, <1>c, <1>d, <1>e, <1>g, <1>h, <2>1, RestSeats
<1>2. BgInv'
  BY <1>a, <1>b, <1>c, <1>1, SeatedKeeps
<1>3. FrameInv'
  BY <1>b, <1>2, FrameQuiet DEF CoreInv, BgInv, HostBase
<1>4. SnInv'
  BY <1>a, <1>2, SnapshotFrame DEF CoreInv, BgInv, HostBase
<1>5. ServeInv' /\ bg'.pc = "idle"
  BY <1>g DEF ServeInv, Busy, Rests
<1>6. RestTypes' /\ CleanupInv'
  BY <1>a, <1>c, <1>f, <1>5 DEF CoreInv, RestTypes, CleanupInv
<1>7. ReadyInv'
  BY <1>a, <1>c DEF ReadyInv
<1> QED BY <1>2, <1>3, <1>4, <1>5, <1>6, <1>7 DEF CoreInv

LEMMA ReadyCore ==
    ASSUME CoreInv, AskReady \/ ClaimReady
    PROVE  CoreInv'
<1>a. Participants = {} /\ UNCHANGED <<procs, fgVars, remoteVars, task, bg, told, snVars, cu, lease>>
  BY DEF AskReady, ClaimReady, bgVars, remoteVars
<1>b. UNCHANGED <<run, active, fg, out>> /\ UNCHANGED <<sn, snaps>> /\ UNCHANGED mon
  BY <1>a DEF fgVars, snVars, remoteVars
<1>c. active = {} /\ snaps = {} /\ reg \subseteq Terminal
  BY <1>a DEF Participants
<1>d. Over /\ sn.pc = "idle"
  BY DEF AskReady, ClaimReady, CoreInv, ReadyInv
<1>1. BgInv' /\ ~Busy'
  <2>1. CASE AskReady
    <3>1. \A t \in Tasks : t \in cu'.zero => TokensOf(procs[t]) = {} /\ Published(t)
      BY <1>a DEF CoreInv, BgInv, HostBase, TaskInv
    <3> QED BY <1>a, <1>d, <2>1, <3>1, PruneQuiet DEF AskReady
  <2>2. CASE ClaimReady
    <3>1. UNCHANGED <<bgVars, cu>> /\ ProcTypes'
      BY <1>a, <2>2 DEF ClaimReady, CoreInv, FrameInv, ProcTypes
    <3>2. BgInv'
      BY <1>a, <3>1, BackgroundFrame DEF CoreInv
    <3>3. ~Busy'
      BY <1>a, <1>d DEF CoreInv, ServeInv, Busy
    <3> QED BY <3>2, <3>3
  <2> QED BY <2>1, <2>2
<1>2. FrameInv'
  BY <1>b, <1>1, FrameQuiet DEF CoreInv, BgInv, HostBase
<1>3. SnInv'
  BY <1>a, <1>1, SnapshotFrame DEF CoreInv, BgInv, HostBase
<1>4. ServeInv'
  BY <1>1 DEF ServeInv
<1>5. RestTypes' /\ CleanupInv'
  BY <1>a, <1>b DEF CoreInv, RestTypes, CleanupInv, Published
<1>6. ReadyInv'
  <2>1. reg' \subseteq Terminal' /\ active' = {} /\ snaps' = {}
    BY <1>a, <1>b, <1>c DEF AskReady, ClaimReady, Terminal, bgVars
  <2>2. Over' /\ sn'.pc = "idle"
    BY <1>a, <1>b, <1>d DEF Over
  <2> QED BY <2>1, <2>2 DEF ReadyInv
<1> QED BY <1>1, <1>2, <1>3, <1>4, <1>5, <1>6 DEF CoreInv

(***************************************************************************)
(* The invariants of the specification.                                    *)
(***************************************************************************)
LEMMA InitHolds ==
    ASSUME Init
    PROVE  CoreInv /\ FgInv
<1>a. /\ procs = [o \in Owned |-> {}] /\ InitForeground /\ InitBackground /\ InitSnapshots /\ cu = CuResting
      /\ lease = [sealed |-> FALSE, tasks |-> {}, outcome |-> "none"] /\ probe = "none"
  BY DEF Init
<1>b. ProcTypes /\ \A o \in Owned : procs[o] = {}
  BY <1>a DEF ProcTypes
<1>c. FgTypes /\ fg = Resting /\ active = {} /\ \A c \in Commands : run[c] = "none" /\ out[c] = NoOutcome
  BY <1>a, RestingType DEF InitForeground, FgTypes, RunSteps
<1>d. /\ cu \in CuType /\ cu.pc = "idle" /\ cu.zero = {} /\ ~cu.closing /\ cu.answer = "none"
      /\ lease \in LeaseType /\ ~lease.sealed /\ lease.outcome = "none" /\ RestTypes
  BY <1>a DEF CuResting, CuType, LeaseType, RestTypes
<1>1. FrameInv
  BY <1>b, <1>c, RestingType DEF FrameInv
<1>2. FgInv
  <2>1. RunInv
    BY <1>c, RestingType DEF RunInv
  <2>2. CommandInv
    BY <1>b, <1>c, <1>d, OwnersDistinct, RestingType DEF CommandInv
  <2> QED BY <1>b, <1>c, <2>1, <2>2 DEF FgInv
<1>3. BgInv
  <2>1. NewTask \in TaskType /\ NewTask.state = "running" /\ ~NewTask.census /\ ~NewTask.bound
    BY DEF NewTask, TaskType
  <2>2. /\ reg = {} /\ bg = BgResting /\ ~foreign
        /\ \A t \in Tasks : mon[t] = "none" /\ starter[t] = "none" /\ ~reused[t] /\ task[t] = NewTask
    BY <1>a DEF InitBackground
  <2>3. BgTypes
    BY <1>a, <2>1, BgRests DEF InitBackground, BgTypes, MonSteps
  <2>4. LaunchInv
    BY <2>1, <2>2, BgRests DEF LaunchInv, Sweeping, AtSteps, Verifying
  <2>5. TaskInv
    BY <1>b, <1>d, <2>1, <2>2, OwnersDistinct DEF TaskInv, TokensOf
  <2>6. StrangerInv
    BY <2>2 DEF StrangerInv
  <2>7. BoundInv
    <3>1. {t \in reg : ~task[t].census} = {}
      BY <2>2
    <3>2. Cardinality({}) = 0
      BY FS_EmptySet
    <3> QED BY <3>1, <3>2, TasksAssumption DEF BoundInv
  <2> QED BY <1>b, <2>3, <2>4, <2>5, <2>6, <2>7 DEF BgInv, HostBase
<1>4. SnInv
  <2>1. /\ snaps = {} /\ sn = SnResting
        /\ \A s \in Snapshots : start[s] = "none" /\ sup[s] = "none" /\ terminal[s] = "none" /\ snOut[s] = "none"
    BY <1>a DEF InitSnapshots
  <2>2. sn \in SnType /\ sn.pc = "idle"
    BY <2>1 DEF SnResting, SnType
  <2>3. SnTypes
    BY <1>a, <2>2 DEF InitSnapshots, SnTypes, SupSteps
  <2>4. SnapInv
    BY <1>b, <1>d, <2>1, <2>2, OwnersDistinct DEF SnapInv, Settled, VerifiedTerminal
  <2> QED BY <1>b, <2>3, <2>4 DEF SnInv
<1>5. ServeInv
  <2>1. bg.pc = "idle"
    BY <1>a, BgRests DEF InitBackground
  <2> QED BY <2>1 DEF ServeInv, Busy
<1>6. CleanupInv /\ ReadyInv
  BY <1>a, <1>d DEF CleanupInv, ReadyInv
<1> QED BY <1>d, <1>1, <1>2, <1>3, <1>4, <1>5, <1>6 DEF CoreInv

LEMMA StutterCore ==
    ASSUME CoreInv, UNCHANGED vars
    PROVE  CoreInv'
<1>a. UNCHANGED <<procs, fgVars, bgVars, snVars, cu, lease, probe>>
  BY DEF vars
<1>b. UNCHANGED <<run, active, fg, out>> /\ UNCHANGED <<sn, snaps>> /\ ProcTypes'
  BY <1>a DEF fgVars, snVars, CoreInv, FrameInv, ProcTypes
<1>1. FrameInv' /\ \A c \in Commands : Failed(c) => Failed(c)'
  BY <1>b, FrameQuiet DEF CoreInv
<1>2. SnInv'
  BY <1>a, <1>b, SnapshotFrame DEF CoreInv
<1>3. probe # "none" => sn'.pc = "idle"
  BY <1>b DEF CoreInv, ReadyInv
<1> QED BY <1>a, <1>b, <1>1, <1>2, <1>3, OutsideKeeps

LEMMA CoreKeeps ==
    ASSUME CoreInv, [Next]_vars
    PROVE  CoreInv'
<1>1. CASE \E c \in Commands, signed \in BOOLEAN : ExecuteCommand(c, signed)
  BY <1>1, CommandCore
<1>2. CASE \/ \E t \in Tasks : ExecuteStart(t)
           \/ \E todo \in SUBSET Tasks : ExecuteOutput(todo)
           \/ \E t \in Tasks : ExecuteKill(t)
           \/ RequestManifest
  BY <1>2, RequestCore
<1>3. CASE \E s \in Snapshots : ExecSnapshot(s)
  BY <1>3, SnapshotBeginsCore
<1>4. CASE ForegroundStep
  BY <1>4, ForegroundCore
<1>5. CASE BackgroundStep
  BY <1>5, BackgroundCore
<1>6. CASE SnapshotStep
  BY <1>6, SnapshotCore
<1>7. CASE \E c \in Commands : RemoteRun(c)
  BY <1>7, RunCore
<1>8. CASE \E t \in Tasks : RemoteMonitor(t)
  BY <1>8, MonitorCore
<1>9. CASE \E s \in Snapshots : RemoteSnapshot(s)
  BY <1>9, SupervisorCore
<1>10. CASE \E closing \in BOOLEAN : BeginCleanup(closing)
  BY <1>10, BeginCore
<1>11. CASE Cleanup
  BY <1>11, SignalCore, SignalSnapshotCore, PhaseCore, FinishCore, ExpireCore DEF Cleanup
<1>12. CASE SealLease
  BY <1>12, SealCore
<1>13. CASE AskReady \/ ClaimReady
  BY <1>13, ReadyCore
<1>14. CASE UNCHANGED vars
  BY <1>14, StutterCore
<1> QED BY <1>1, <1>2, <1>3, <1>4, <1>5, <1>6, <1>7, <1>8, <1>9, <1>10, <1>11, <1>12, <1>13, <1>14, Zenon DEF Next

(* Steps of the others leave the foreground.                               *)
LEMMA ForegroundFrame ==
    ASSUME FgInv, ProcTypes', UNCHANGED <<fgVars, cu>>, \A c \in Commands : procs'[c] = procs[c]
    PROVE  FgInv'
<1>1. UNCHANGED <<run, active, fg, out>>
  BY DEF fgVars
<1>2. active \in SUBSET Commands
  BY DEF FgInv, FgTypes
<1>3. /\ \A c \in Commands : procs[c] # {} => c \in active
      /\ \A c \in Commands : c \in cu.zero => procs[c] = {} /\ PgidPublished(c)
  BY DEF FgInv, CommandInv
<1>4. /\ fg.pc \in {"setup", "upload", "dispatch", "wait"} => fg.cmd \in active
      /\ fg.pc # "idle" /\ ~fg.cancelled => cu.pc = "idle"
  BY DEF FgInv, RunInv
<1> QED BY <1>1, <1>2, <1>3, <1>4, ForegroundQuiet

LEMMA SparedKeeps ==
    ASSUME FgInv, ProcTypes', Spares
    PROVE  FgInv'
<1>2. active \in SUBSET Commands
  BY DEF FgInv, FgTypes
<1>3. /\ \A c \in Commands : procs'[c] # {} => c \in active
      /\ \A c \in Commands : c \in cu'.zero => procs'[c] = {} /\ PgidPublished(c)
  BY DEF FgInv, CommandInv, Spares
<1>4. /\ fg.pc \in {"setup", "upload", "dispatch", "wait"} => fg.cmd \in active
      /\ ~(fg.pc # "idle" /\ ~fg.cancelled)
  BY DEF FgInv, RunInv, Spares
<1> QED BY <1>2, <1>3, <1>4, ForegroundQuiet DEF Spares

(* The foreground keeps its invariant, unless a run may begin behind a     *)
(* lost reply.                                                             *)
LEMMA ForegroundKeeps ==
    ASSUME ~DelayedRun, CoreInv, CoreInv', FgInv, [Next]_vars
    PROVE  FgInv'
<1>a. ProcTypes /\ ProcTypes'
  BY DEF CoreInv, FrameInv
<1>1. ASSUME NEW c \in Commands, NEW signed \in BOOLEAN, ExecuteCommand(c, signed)
      PROVE  FgInv'
  <2>1. UNCHANGED cu /\ cu.pc = "idle"
    BY <1>1 DEF ExecuteCommand, fgRest, restVars, Serving, Idle
  <2> QED BY <1>1, <2>1, AdmitEffect, AdmitsKeep, RefuseKeeps DEF ExecuteCommand
<1>2. CASE ForegroundStep
  <2>1. UNCHANGED cu
    BY <1>2 DEF ForegroundStep, fgRest, restVars
  <2>2. HostMoves \/ HostDispatches \/ HostLeaves
    BY <1>2, HostEffect DEF ForegroundStep, FgInv
  <2> QED BY <2>1, <2>2, HostMovesKeep, HostDispatchesKeep, HostLeavesKeep
<1>3. ASSUME NEW c \in Commands, RemoteRun(c)
      PROVE  FgInv'
  <2>1. UNCHANGED cu
    BY <1>3 DEF RemoteRun, fgRest, restVars
  <2>2. (ScriptForks(c) \/ ScriptMoves(c)) /\ UNCHANGED <<active, fg, out>>
    BY <1>3, ScriptEffect DEF RemoteRun, FgInv
  <2> QED BY <2>1, <2>2, ForksKeeps, ScriptMovesKeep
<1>4. ASSUME UNCHANGED <<fgVars, cu>>, NEW o \in Tasks \cup Snapshots, UNCHANGED procs \/ Touches(o)
      PROVE  FgInv'
  BY <1>4, <1>a, OwnersDistinct, TouchEffect, ForegroundFrame
<1>5. ASSUME UNCHANGED <<procs, fgVars, cu>>
      PROVE  FgInv'
  BY <1>5, <1>a, ForegroundFrame, SMTT(30)
<1>6. CASE \/ \E t \in Tasks : ExecuteStart(t) \/ ExecuteKill(t)
           \/ \E todo \in SUBSET Tasks : ExecuteOutput(todo)
           \/ RequestManifest
  BY <1>5, <1>6 DEF ExecuteStart, ExecuteKill, ExecuteOutput, RequestManifest, StartBackground, KillCommand,
                    TerminalOutput, BackgroundManifest, Begin, bgRest, restVars
<1>7. CASE BackgroundStep
  <2>1. UNCHANGED procs \/ (bg.at \in Tasks /\ Touches(bg.at))
    BY <1>7, BackgroundActs DEF BackgroundStep, CoreInv, BgInv
  <2>2. UNCHANGED <<fgVars, cu>>
    BY <1>7 DEF BackgroundStep, bgRest, restVars
  <2> QED BY <1>4, <1>5, <2>1, <2>2
<1>8. ASSUME NEW t \in Tasks, RemoteMonitor(t)
      PROVE  FgInv'
  <2>1. UNCHANGED <<fgVars, cu>> /\ MonitorMoves(t)
    BY <1>8, MonitorEffect DEF RemoteMonitor, bgRest, restVars, CoreInv, BgInv
  <2>2. UNCHANGED procs \/ Touches(t)
    BY <2>1, LivesTouches DEF MonitorMoves, Touches
  <2> QED BY <1>4, <2>1, <2>2
<1>9. ASSUME NEW s \in Snapshots, ExecSnapshot(s) \/ RemoteSnapshot(s)
      PROVE  FgInv'
  <2>1. UNCHANGED <<fgVars, cu>>
    BY <1>9 DEF ExecSnapshot, RemoteSnapshot, snRest, restVars
  <2>2. UNCHANGED procs \/ Touches(s)
    BY <1>9, SupervisorEffect, LivesTouches DEF ExecSnapshot, SnBegin, RemoteSnapshot, SupMoves, Touches,
        CoreInv, SnInv
  <2> QED BY <1>4, <2>1, <2>2
<1>10. CASE SnapshotStep
  <2>1. UNCHANGED <<procs, fgVars, cu>>
    BY <1>10, SnapshotHostKeeps DEF SnapshotStep, snRest, restVars, CoreInv
  <2> QED BY <1>5, <2>1
<1>11. ASSUME NEW closing \in BOOLEAN, BeginCleanup(closing)
       PROVE  FgInv'
  <2>1. UNCHANGED <<run, active, fg, out, procs>> /\ (fg.pc = "idle" \/ fg.cancelled)
    BY <1>11 DEF BeginCleanup, fgVars, HandlerGone
  <2>2. cu'.zero = {}
    BY <1>11 DEF BeginCleanup, CuResting
  <2>3. active \in SUBSET Commands /\ \A c \in Commands : procs[c] # {} => c \in active
    BY DEF FgInv, FgTypes, CommandInv
  <2>4. fg.pc \in {"setup", "upload", "dispatch", "wait"} => fg.cmd \in active
    BY DEF FgInv, RunInv
  <2> QED BY <1>a, <2>1, <2>2, <2>3, <2>4, ForegroundQuiet
<1>12. CASE Cleanup
  <2>1. CASE \/ \E o \in Owned : SignalParticipant(o) \/ CensusParticipant(o)
             \/ \E s \in Snapshots : SignalSnapshot(s)
             \/ NextPhase
    <3>1. Spares
      BY <2>1, SignalCore, SignalSnapshotCore, PhaseCore
    <3> QED BY <1>a, <3>1, SparedKeeps
  <2>2. CASE FinishCleanup \/ CleanupExpires
    <3>1. /\ cu.pc = "census" /\ UNCHANGED <<procs, run, fg, out>> /\ (active' = active \ cu.zero \/ active' = active)
      BY <2>2 DEF FinishCleanup, CleanupExpires, fgVars
    <3>2. cu'.zero = {}
      BY <2>2 DEF FinishCleanup, CleanupExpires, Closed, CuResting
    <3>3. active' \in SUBSET Commands /\ \A c \in Commands : procs[c] # {} => c \in active'
      BY <3>1 DEF FgInv, FgTypes, CommandInv
    <3>4. ~(fg.pc # "idle" /\ ~fg.cancelled) /\ fg.pc \notin {"setup", "upload", "dispatch", "wait"}
      BY <3>1 DEF FgInv, RunInv, CleanupSteps
    <3> QED BY <1>a, <3>1, <3>2, <3>3, <3>4, ForegroundQuiet
  <2> QED BY <1>12, <2>1, <2>2 DEF Cleanup
<1>13. CASE SealLease \/ AskReady \/ ClaimReady \/ UNCHANGED vars
  BY <1>5, <1>13 DEF SealLease, AskReady, ClaimReady, vars
<1> QED BY <1>1, <1>2, <1>3, <1>6, <1>7, <1>8, <1>9, <1>10, <1>11, <1>12, <1>13, Zenon DEF Next

(***************************************************************************)
(* The spool reservation.                                                  *)
(***************************************************************************)
(* the session still serves, and no launch is being salvaged               *)
Ledger == ~bg.fatal /\ bg.op # "salvage"

(* the acknowledged tasks that have not given their reservation back       *)
Reserved == {t \in reg : task[t].bound /\ ~task[t].spooled}

Counted ==
    /\ spool \in Nat
    /\ Ledger => spool <= SpoolPerRun /\ Cardinality(Reserved) <= spool

(* the steps between the registration of a task and its acknowledgement    *)
Unacked == {"setup", "upload", "dispatch", "await"}

(* the reservation is made long after there was room for it; what a task   *)
(* gives back, it has; and what a cleanup counted was reserved             *)
SpoolInv ==
    /\ Counted
    /\ bg.pc \in Unacked => spool + 1 <= SpoolPerRun
    /\ Busy /\ bg.pc \in AtSteps => bg.at \in reg
    /\ cu.pc # "idle" /\ Ledger =>
          \A t \in Tasks : /\ t \in cu.parts \cup cu.left => t \in reg
                           /\ t \in cu.zero => t \in reg /\ task[t].bound

LEMMA ReservedFinite ==
    ASSUME BgTypes
    PROVE  Reserved \in SUBSET Tasks /\ IsFiniteSet(Reserved) /\ Cardinality(Reserved) \in Nat
<1>1. Reserved \in SUBSET Tasks
  BY DEF BgTypes, Reserved
<1>2. IsFiniteSet(Reserved)
  BY <1>1, TasksAssumption, FS_Subset
<1> QED BY <1>1, <1>2, FS_CardinalityType

(* What a sequence of finalizations can leave is what one more leaves of   *)
(* each value the ones before it could: the closed form of SpoolsAfter.    *)
LEMMA SpoolsOneByOne ==
    ASSUME spool \in Nat, NEW n \in Nat
    PROVE  SpoolsAfter(n + 1) =
             UNION {{MaxOf(0, s - 1) + used : used \in 0..1} : s \in SpoolsAfter(n)}
<1> DEFINE After(s) == {MaxOf(0, s - 1) + used : used \in 0..1}
<1>1. ASSUME NEW s \in Nat
      PROVE  After(s) = MaxOf(0, s - 1) .. MaxOf(1, s)
  BY <1>1 DEF MaxOf
<1>2. \A s \in SpoolsAfter(n) : s \in Nat
  BY DEF SpoolsAfter, MaxOf
<1>3. CASE n = 0
  BY <1>1, <1>3 DEF SpoolsAfter
<1>4. CASE n # 0
  <2>1. SpoolsAfter(n) = MaxOf(0, spool - n) .. MaxOf(1, spool)
    BY <1>4 DEF SpoolsAfter
  <2>2. SpoolsAfter(n + 1) = MaxOf(0, spool - (n + 1)) .. MaxOf(1, spool)
    BY DEF SpoolsAfter
  <2>3. ASSUME NEW v \in SpoolsAfter(n + 1)
        PROVE  \E s \in SpoolsAfter(n) : v \in After(s)
    <3>1. CASE v < MaxOf(0, spool - n)
      <4>1. MaxOf(0, spool - n) \in SpoolsAfter(n) /\ v \in After(MaxOf(0, spool - n))
        BY <1>1, <2>1, <2>2, <2>3, <3>1 DEF MaxOf
      <4> QED BY <4>1
    <3>2. CASE v >= MaxOf(0, spool - n)
      <4>1. v \in SpoolsAfter(n) /\ v \in After(v)
        BY <1>1, <2>1, <2>2, <2>3, <3>2 DEF MaxOf
      <4> QED BY <4>1
    <3> QED BY <2>2, <2>3, <3>1, <3>2 DEF MaxOf
  <2>4. ASSUME NEW s \in SpoolsAfter(n), NEW v \in After(s)
        PROVE  v \in SpoolsAfter(n + 1)
    BY <1>1, <1>2, <2>1, <2>2, <2>4 DEF MaxOf
  <2> QED BY <2>3, <2>4
<1> QED BY <1>3, <1>4

(* What an edit leaves of the two fields the reservation depends on.       *)
LEMMA UpdateKept ==
    ASSUME BgTypes, NEW t \in Tasks, NEW rec \in TaskType, Update(t, rec)
    PROVE  task'[t] = rec /\ \A u \in Tasks \ {t} : task'[u] = task[u]
  BY DEF BgTypes, Update

LEMMA RefreshedSpool ==
    ASSUME BgTypes, NEW t \in Tasks, NEW rec \in Refreshed(t) \cup {task[t]}
    PROVE  rec.spooled = task[t].spooled
<1>a. task[t] \in TaskType
  BY DEF BgTypes
<1>1. CASE rec = [task[t] EXCEPT !.fresh = FALSE]
  <2>1. ASSUME NEW r \in TaskType, NEW q, q = [r EXCEPT !.fresh = FALSE]
        PROVE  q.spooled = r.spooled
    BY <2>1 DEF TaskType
  <2> QED BY <1>a, <1>1, <2>1
<1>2. CASE rec = Seen(t)
  <2>1. ASSUME NEW q, NEW r \in TaskType, NEW e \in BOOLEAN,
               NEW now \in {"none", "running", "leaderExited", "completed", "failed", "cancelled"},
               q = [r EXCEPT !.state = now, !.exited = e, !.census = FALSE, !.fresh = TRUE]
        PROVE  q.spooled = r.spooled
    BY <2>1 DEF TaskType
  <2>2. /\ (IF status[t] = "leaderExited" THEN "running" ELSE status[t])
               \in {"none", "running", "leaderExited", "completed", "failed", "cancelled"}
        /\ (status[t] # "running") \in BOOLEAN
    BY DEF BgTypes
  <2>3. PICK e \in BOOLEAN, now \in {"none", "running", "leaderExited", "completed", "failed", "cancelled"} :
             Seen(t) = [task[t] EXCEPT !.state = now, !.exited = e, !.census = FALSE, !.fresh = TRUE]
    BY <2>2, Zenon DEF Seen
  <2> QED BY <1>a, <1>2, <2>1, <2>3
<1>3. rec = task[t] \/ rec = [task[t] EXCEPT !.fresh = FALSE] \/ rec = Seen(t)
  BY DEF Refreshed
<1> QED BY <1>1, <1>2, <1>3

(* the reservations only shrink, and so does nothing they count against    *)
LEMMA CountKept ==
    ASSUME BgTypes, BgTypes', Counted, UNCHANGED spool, Ledger' => Ledger,
           \A t \in reg' : task'[t].bound /\ ~task'[t].spooled => t \in reg /\ task[t].bound /\ ~task[t].spooled
    PROVE  Counted'
<1>1. Reserved' \subseteq Reserved
  BY DEF Reserved
<1>2. Cardinality(Reserved') <= Cardinality(Reserved)
  BY <1>1, ReservedFinite, FS_Subset
<1>3. Cardinality(Reserved) \in Nat /\ Cardinality(Reserved') \in Nat
  <2>1. Reserved' \in SUBSET Tasks
    BY DEF BgTypes, Reserved
  <2> QED BY <2>1, ReservedFinite, TasksAssumption, FS_Subset, FS_CardinalityType
<1> QED BY <1>2, <1>3, SpoolAssumption DEF Counted

(* A task that gives its reservation back leaves one less to be covered.   *)
LEMMA CountConcludes ==
    ASSUME BgTypes, BgTypes', Counted, Ledger, NEW t \in reg, task[t].bound, NEW rec \in TaskType, Conclude(t, rec),
           UNCHANGED reg
    PROVE  Counted'
<1>0. t \in Tasks
  BY DEF BgTypes
<1>1. PICK used \in 0..1 : spool' = SpoolAfter(t, used)
  BY DEF Conclude
<1>2. task'[t].spooled /\ \A u \in Tasks \ {t} : task'[u] = task[u]
  <2>1. ASSUME NEW q, q = [rec EXCEPT !.spooled = TRUE]
        PROVE  q \in TaskType /\ q.spooled
    BY <2>1 DEF TaskType
  <2>2. PICK q : q = [rec EXCEPT !.spooled = TRUE]
    OBVIOUS
  <2>3. q \in TaskType /\ q.spooled
    BY <2>1, <2>2
  <2>4. Update(t, q)
    BY <2>2, Zenon DEF Conclude
  <2> QED BY <1>0, <2>3, <2>4, UpdateKept
<1>3. Cardinality(Reserved) \in Nat /\ IsFiniteSet(Reserved)
  BY ReservedFinite
<1>4. Reserved' = Reserved \ {t}
  BY <1>2 DEF Reserved, BgTypes
<1>5. CASE task[t].spooled
  <2>1. Reserved' = Reserved /\ spool' = spool
    BY <1>1, <1>4, <1>5 DEF SpoolAfter, Reserved
  <2> QED BY <2>1 DEF Counted
<1>6. CASE ~task[t].spooled
  <2>1. t \in Reserved
    BY <1>6 DEF Reserved
  <2>2. Cardinality(Reserved') = Cardinality(Reserved) - 1
    BY <1>3, <1>4, <2>1, FS_RemoveElement
  <2>3. spool' = MaxOf(0, spool - 1) + used
    BY <1>1, <1>6 DEF SpoolAfter
  <2>4. Cardinality(Reserved) # 0
    BY <1>3, <2>1, FS_EmptySet
  <2> QED BY <1>3, <2>2, <2>3, <2>4, SpoolAssumption DEF Counted, MaxOf
<1> QED BY <1>5, <1>6

(* An acknowledgement adds a reservation and a task to be covered.         *)
LEMMA CountReserves ==
    ASSUME BgTypes, BgTypes', Counted, Ledger, NEW t \in Tasks, spool + 1 <= SpoolPerRun, spool' = spool + 1,
           UNCHANGED reg, \A u \in Tasks \ {t} : task'[u] = task[u]
    PROVE  Counted'
<1>1. Reserved' \subseteq Reserved \cup {t}
  BY DEF Reserved, BgTypes
<1>2. IsFiniteSet(Reserved) /\ Cardinality(Reserved) \in Nat
  BY ReservedFinite
<1>3. /\ IsFiniteSet(Reserved \cup {t}) /\ Cardinality(Reserved \cup {t}) \in Nat
      /\ Cardinality(Reserved \cup {t}) <= Cardinality(Reserved) + 1
  <2>1. Cardinality(Reserved \cup {t}) = IF t \in Reserved THEN Cardinality(Reserved) ELSE Cardinality(Reserved) + 1
    BY <1>2, FS_AddElement
  <2>2. IsFiniteSet(Reserved \cup {t})
    BY <1>2, FS_AddElement
  <2> QED BY <1>2, <2>1, <2>2
<1>4. Cardinality(Reserved') <= Cardinality(Reserved \cup {t}) /\ Cardinality(Reserved') \in Nat
  BY <1>1, <1>3, FS_Subset, FS_CardinalityType
<1> QED BY <1>2, <1>3, <1>4, SpoolAssumption DEF Counted

LEMMA BusyLedger ==
    ASSUME HostBase, Busy
    PROVE  Ledger
  BY DEF HostBase, LaunchInv, Busy, Ledger

(* A salvage ends the session, whatever it finds.                          *)
LEMMA SalvageEnds ==
    ASSUME HostBase, BackgroundHost \/ CancelBackground, ~Busy
    PROVE  ~Ledger'
<1>a. bg \in BgType
  BY DEF HostBase, BgTypes
<1>b. bg.op = "salvage" => bg.pc \in {"kill", "killAgain", "killed", "noneLeft"}
  BY DEF HostBase, LaunchInv
<1>c. Fatal => ~Ledger'
  BY FatalEffect DEF Rests, Ledger
<1>1. CASE TerminateTerm \/ TerminateNone \/ TerminateKill
  <2>1. PICK next \in {"killAgain", "killed", "noneLeft"} : Goes(next)
    BY <1>1 DEF TerminateTerm, TerminateNone, TerminateKill
  <2>2. bg'.op = bg.op
    BY <2>1, GoesEffect DEF HostBase, BgSteps, AtSteps, Verifying, SameRequest
  <2>3. bg.pc \in {"kill", "killAgain"}
    BY <1>1 DEF TerminateTerm, TerminateNone, TerminateKill
  <2> QED BY <2>2, <2>3 DEF Busy, Ledger
<1>2. CASE Terminated
  <2>1. bg.op = "salvage"
    BY <1>2 DEF Terminated, Busy
  <2> QED BY <1>2, <1>c, <2>1 DEF Terminated
<1>3. CASE NotTerminated \/ SalvageEnded \/ SalvageUnknown
  BY <1>3, <1>c DEF NotTerminated, SalvageEnded, SalvageUnknown
<1>4. CASE Salvage
  BY <1>4, <1>a DEF Salvage, BgType, Ledger
<1>5. CASE \/ \E t \in Tasks : Visit(t)
           \/ VerifyLiveness \/ VerifyEnded \/ ConfirmStopped \/ ConfirmFailed \/ Decide
           \/ RefuseStart \/ RegisterTask \/ LaunchRefused \/ LaunchStep \/ LaunchDispatch
           \/ LaunchAck \/ LaunchLost \/ FirstStatus \/ HandOff \/ CancelBackground \/ OutputDone
  <2>1. bg.pc \notin {"idle", "salvage", "kill", "killAgain", "killed", "noneLeft"}
    BY <1>5 DEF Visit, VerifyLiveness, VerifyEnded, ConfirmStopped, ConfirmFailed, Decide, RefuseStart, RegisterTask,
                LaunchRefused, LaunchStep, LaunchDispatch, LaunchAck, LaunchLost, FirstStatus, HandOff,
                CancelBackground, OutputDone, Swept
  <2> QED BY <1>b, <2>1 DEF Busy
<1> QED BY <1>1, <1>2, <1>3, <1>4, <1>5, Zenon DEF BackgroundHost

(* the coroutine is at a task it holds, with room for its reservation      *)
Placed == bg.pc \in {"idle", "sweep"} \/ (bg.at \in reg /\ (bg.pc \in Unacked => spool + 1 <= SpoolPerRun))

(* The steps of a request that reserve nothing and give nothing back.      *)
LEMMA SpoolMoves ==
    ASSUME HostBase, BgTypes', SpoolInv, Busy,
           \/ VerifyEnded \/ ConfirmFailed \/ TerminateTerm \/ TerminateNone \/ TerminateKill \/ NotTerminated \/ Decide
           \/ RefuseStart \/ LaunchRefused \/ LaunchStep \/ LaunchDispatch \/ LaunchLost \/ HandOff \/ OutputDone
           \/ CancelBackground
    PROVE  Counted' /\ Placed'
<1> USE DEF Verifying
<1>a. bg \in BgType /\ BgTypes /\ bg.op # "salvage"
  BY DEF HostBase, BgTypes, Busy
<1>1. UNCHANGED <<task, spool>> /\ reg' \subseteq reg
  BY DEF VerifyEnded, ConfirmFailed, TerminateTerm, TerminateNone, TerminateKill, NotTerminated, Decide, RefuseStart,
         LaunchRefused, LaunchStep, LaunchDispatch, LaunchLost, HandOff, OutputDone, CancelBackground
<1>2. Counted'
  BY <1>a, <1>1, CountKept, BusyLedger DEF SpoolInv
<1>3. \A next \in BgSteps : Goes(next) => bg'.at = bg.at /\ bg'.pc = next
  BY <1>a, GoesEffect DEF SameRequest
<1>4. Rests(TRUE) \/ Rests(FALSE) => Placed'
  BY DEF Rests, Placed
<1>5. CASE VerifyEnded \/ ConfirmFailed \/ TerminateTerm \/ TerminateNone \/ TerminateKill \/ LaunchLost
  <2>1. PICK next \in {"confirm", "kill", "killAgain", "killed", "noneLeft", "salvage"} : Goes(next)
    BY <1>5 DEF VerifyEnded, ConfirmFailed, TerminateTerm, TerminateNone, TerminateKill, LaunchLost
  <2>2. UNCHANGED reg /\ bg.pc \in AtSteps
    BY <1>5 DEF VerifyEnded, ConfirmFailed, TerminateTerm, TerminateNone, TerminateKill, LaunchLost, AtSteps
  <2>3. bg'.at \in reg' /\ bg'.pc \notin Unacked
    BY <1>3, <2>1, <2>2 DEF SpoolInv, BgSteps, AtSteps, Unacked
  <2> QED BY <1>2, <2>3 DEF Placed
<1>6. CASE LaunchStep \/ LaunchDispatch
  <2>1. PICK next \in {"upload", "dispatch", "await"} : Goes(next)
    BY <1>6 DEF LaunchStep, LaunchDispatch
  <2>2. UNCHANGED reg /\ bg.pc \in AtSteps /\ bg.pc \in {"setup", "upload", "dispatch", "await"}
    BY <1>6 DEF LaunchStep, LaunchDispatch, AtSteps
  <2>3. bg'.at \in reg' /\ spool' + 1 <= SpoolPerRun
    BY <1>1, <1>3, <2>1, <2>2 DEF SpoolInv, BgSteps, AtSteps, Unacked
  <2> QED BY <1>2, <2>3 DEF Placed, Unacked
<1>7. CASE Decide
  <2>1. CASE bg' = BgResting
    BY <1>2, <1>4, <2>1, RestEffect
  <2>2. CASE bg' = [bg EXCEPT !.pc = "kill", !.op = "stop"]
    <3>1. bg'.at = bg.at /\ bg'.pc = "kill"
      BY <1>a, <2>2 DEF BgType
    <3>2. UNCHANGED reg /\ bg.pc \in AtSteps
      BY <1>7 DEF Decide, AtSteps
    <3> QED BY <1>2, <3>1, <3>2 DEF SpoolInv, Placed, Unacked
  <2> QED BY <1>7, <2>1, <2>2 DEF Decide
<1>8. CASE NotTerminated \/ RefuseStart \/ LaunchRefused \/ HandOff \/ OutputDone
  <2>1. Fatal \/ bg' = BgResting
    BY <1>8 DEF NotTerminated, RefuseStart, LaunchRefused, HandOff, OutputDone, Answer
  <2> QED BY <1>2, <1>4, <2>1, FatalEffect, RestEffect
<1>9. CASE CancelBackground
  <2>1. CASE bg.pc \in {"setup", "upload"}
    <3>1. Goes("salvage") /\ UNCHANGED reg
      BY <1>9, <2>1 DEF CancelBackground, Goes
    <3>2. bg'.at \in reg' /\ bg'.pc = "salvage"
      BY <1>3, <2>1, <3>1 DEF SpoolInv, BgSteps, AtSteps
    <3> QED BY <1>2, <3>2 DEF Placed, Unacked
  <2>2. CASE bg.pc = "first"
    <3>1. bg' = [bg EXCEPT !.pc = "kill", !.op = "salvage"] /\ UNCHANGED reg
      BY <1>9, <2>2 DEF CancelBackground
    <3>2. bg'.at = bg.at /\ bg'.pc = "kill"
      BY <1>a, <3>1 DEF BgType
    <3>3. bg.at \in reg
      BY <2>2 DEF SpoolInv, AtSteps
    <3> QED BY <1>2, <3>1, <3>2, <3>3 DEF Placed, Unacked
  <2>3. CASE bg.pc \in {"sweep", "verify"}
    <3>1. Fatal
      BY <1>9, <2>3 DEF CancelBackground, Fatal
    <3> QED BY <1>2, <1>4, <3>1, FatalEffect
  <2> QED BY <1>9, <2>1, <2>2, <2>3 DEF CancelBackground
<1> QED BY <1>5, <1>6, <1>7, <1>8, <1>9

(* A refresh keeps the reservation of a running task, and gives back that  *)
(* of an ended one.                                                        *)
LEMMA SpoolStores ==
    ASSUME HostBase, BgTypes', SpoolInv, Ledger, NEW t \in reg, task[t].bound,
           NEW rec \in Refreshed(t) \cup {task[t]}, Store(t, rec), UNCHANGED reg, Ledger' => Ledger
    PROVE  Counted'
<1>a. BgTypes /\ t \in Tasks
  BY DEF HostBase, BgTypes
<1>1. rec \in TaskType /\ rec.bound = task[t].bound /\ rec.spooled = task[t].spooled
  BY <1>a, RefreshedType, RefreshedSpool
<1>2. CASE rec.state # "running"
  BY <1>a, <1>1, <1>2, CountConcludes DEF Store, SpoolInv
<1>3. CASE rec.state = "running"
  <2>1. Update(t, rec) /\ UNCHANGED spool
    BY <1>3 DEF Store
  <2>2. task'[t] = rec /\ \A u \in Tasks \ {t} : task'[u] = task[u]
    BY <1>a, <1>1, <2>1, UpdateKept
  <2>3. \A u \in reg' : task'[u].bound /\ ~task'[u].spooled => u \in reg /\ task[u].bound /\ ~task[u].spooled
    BY <1>1, <2>2 DEF BgTypes
  <2> QED BY <1>a, <2>1, <2>3, CountKept DEF SpoolInv
<1> QED BY <1>2, <1>3

LEMMA SpoolEdits ==
    ASSUME HostBase, BgTypes', SpoolInv, Busy,
           VerifyLiveness \/ ConfirmStopped \/ Terminated \/ FirstStatus \/ \E t \in Tasks : Visit(t)
    PROVE  Counted' /\ Placed'
<1> USE DEF Verifying
<1>a. bg \in BgType /\ BgTypes /\ bg.op # "salvage" /\ Ledger
  BY BusyLedger DEF HostBase, BgTypes, Busy
<1>b. bg.pc \in AtSteps => bg.at \in reg /\ bg.at \in Tasks /\ task[bg.at] \in TaskType
  BY BaseFacts DEF SpoolInv
<1>c. bg.pc \in {"first", "settle", "decide"} \cup Verifying => task[bg.at].bound
  BY BaseFacts
<1>d. \A next \in BgSteps : Goes(next) => bg'.at = bg.at /\ bg'.pc = next
  BY <1>a, GoesEffect DEF SameRequest
<1>r. bg' = Resume => bg'.at = bg.at /\ bg'.pc \in {"decide", "sweep", "settle"}
  BY <1>a, ResumeEffect
<1>1. CASE VerifyLiveness
  <2>1. UNCHANGED <<reg, spool>> /\ bg.pc = "verify"
    BY <1>1 DEF VerifyLiveness
  <2>2. PICK a \in LivenessAnswers(bg.at) :
          CASE a = "alive" -> bg' = Resume /\ Update(bg.at, [task[bg.at] EXCEPT !.census = FALSE])
            [] a = "none" -> bg' = Resume /\ Update(bg.at, [task[bg.at] EXCEPT !.fresh = FALSE])
            [] OTHER -> Goes("confirm") /\ UNCHANGED task
    BY <1>1 DEF VerifyLiveness
  <2>3. /\ bg' = Resume \/ Goes("confirm")
        /\ \/ UNCHANGED task
           \/ \E q : /\ Update(bg.at, q)
                     /\ q = [task[bg.at] EXCEPT !.census = FALSE] \/ q = [task[bg.at] EXCEPT !.fresh = FALSE]
    BY <2>2
  <2>4. \A u \in Tasks : task'[u].bound = task[u].bound /\ task'[u].spooled = task[u].spooled
    <3>1. ASSUME NEW q, Update(bg.at, q),
                 q = [task[bg.at] EXCEPT !.census = FALSE] \/ q = [task[bg.at] EXCEPT !.fresh = FALSE]
          PROVE  \A u \in Tasks : task'[u].bound = task[u].bound /\ task'[u].spooled = task[u].spooled
      <4>1. ASSUME NEW r \in TaskType, q = [r EXCEPT !.census = FALSE] \/ q = [r EXCEPT !.fresh = FALSE]
            PROVE  q \in TaskType /\ q.bound = r.bound /\ q.spooled = r.spooled
        <5>1. CASE q = [r EXCEPT !.census = FALSE]
          BY <5>1 DEF TaskType
        <5>2. CASE q = [r EXCEPT !.fresh = FALSE]
          BY <5>2 DEF TaskType
        <5> QED BY <4>1, <5>1, <5>2
      <4>2. q \in TaskType /\ q.bound = task[bg.at].bound /\ q.spooled = task[bg.at].spooled
        BY <1>b, <2>1, <3>1, <4>1 DEF AtSteps
      <4>3. task'[bg.at] = q /\ \A u \in Tasks \ {bg.at} : task'[u] = task[u]
        BY <1>a, <1>b, <2>1, <3>1, <4>2, UpdateKept DEF AtSteps
      <4> QED BY <4>2, <4>3
    <3> QED BY <2>3, <3>1
  <2>5. Counted'
    BY <1>a, <2>1, <2>4, CountKept DEF SpoolInv, BgTypes
  <2>6. bg'.at = bg.at /\ bg'.pc \in {"decide", "sweep", "settle", "confirm"}
    BY <1>d, <1>r, <2>3 DEF BgSteps, AtSteps
  <2> QED BY <1>b, <2>1, <2>5, <2>6 DEF Placed, AtSteps, Unacked
<1>2. CASE ConfirmStopped
  <2>1. bg.pc = "confirm" /\ UNCHANGED reg /\ bg' = Resume /\ Conclude(bg.at, Ended(task[bg.at]))
    BY <1>2 DEF ConfirmStopped
  <2>2. bg.at \in reg /\ task[bg.at].bound /\ Ended(task[bg.at]) \in TaskType
    BY <1>b, <1>c, <2>1, EndedType DEF AtSteps
  <2>3. Counted'
    BY <1>a, <2>1, <2>2, CountConcludes DEF SpoolInv
  <2> QED BY <1>r, <2>1, <2>2, <2>3 DEF Placed, Unacked
<1>3. CASE Terminated
  <2>1. bg.pc \in {"killed", "noneLeft"} /\ UNCHANGED reg /\ (bg' = BgResting \/ bg' = Resume)
    BY <1>a, <1>3 DEF Terminated
  <2>2. PICK s \in EndStates(bg.at) : Conclude(bg.at, [task[bg.at] EXCEPT !.census = TRUE, !.state = s, !.fresh = TRUE])
    BY <1>a, <1>3 DEF Terminated
  <2>3. bg.at \in reg /\ bg.at \in Tasks /\ task[bg.at].bound /\ task[bg.at] \in TaskType
    BY <1>b, <1>c, <2>1 DEF AtSteps
  <2>4. s \in {"none", "leaderExited", "completed", "failed", "cancelled"}
    BY <2>2, <2>3 DEF EndStates, TaskType
  <2>5. PICK rec : rec = [task[bg.at] EXCEPT !.census = TRUE, !.state = s, !.fresh = TRUE]
    OBVIOUS
  <2>6. rec \in TaskType
    <3>1. ASSUME NEW r \in TaskType, NEW q, q = [r EXCEPT !.census = TRUE, !.state = s, !.fresh = TRUE]
          PROVE  q \in TaskType
      BY <2>4, <3>1 DEF TaskType
    <3> QED BY <2>3, <2>5, <3>1
  <2>7. Counted'
    BY <1>a, <2>1, <2>2, <2>3, <2>5, <2>6, CountConcludes DEF SpoolInv
  <2>8. CASE bg' = BgResting
    BY <2>7, <2>8, RestEffect DEF Rests, Placed
  <2>9. CASE bg' = Resume
    BY <1>r, <2>1, <2>3, <2>7, <2>9 DEF Placed, Unacked
  <2> QED BY <2>1, <2>8, <2>9
<1>4. CASE FirstStatus
  <2>1. bg.pc = "first" /\ UNCHANGED reg
    BY <1>4 DEF FirstStatus
  <2>2. PICK rec \in Refreshed(bg.at) : Store(bg.at, rec) /\ Goes(IF NeedsCensus(rec) THEN "verify" ELSE "settle")
    BY <1>4 DEF FirstStatus
  <2>3. Counted'
    BY <1>a, <1>b, <1>c, <2>1, <2>2, SpoolStores DEF AtSteps
  <2>4. bg'.at = bg.at /\ bg'.pc \in {"verify", "settle"}
    BY <1>d, <2>2 DEF BgSteps, AtSteps
  <2> QED BY <1>b, <2>1, <2>3, <2>4 DEF Placed, AtSteps, Unacked
<1>5. ASSUME NEW t \in Tasks, Visit(t)
      PROVE  Counted' /\ Placed'
  <2>1. bg.pc = "sweep" /\ t \in reg /\ UNCHANGED reg
    BY <1>5 DEF Visit
  <2>2. PICK rec \in IF task[t].exited THEN {task[t]} ELSE Refreshed(t) :
         /\ Store(t, rec)
         /\ bg' = IF NeedsCensus(rec) THEN [bg EXCEPT !.pc = "verify", !.at = t]
                  ELSE IF bg.op = "kill" THEN [bg EXCEPT !.pc = "decide", !.at = t]
                  ELSE [bg EXCEPT !.todo = @ \ {t}]
    BY <1>5 DEF Visit
  <2>3. task[t].bound
    BY <1>a, <2>1 DEF HostBase, LaunchInv, Ledger
  <2>4. Counted'
    BY <1>a, <2>1, <2>2, <2>3, SpoolStores
  <2>5. ASSUME NEW b \in BgType, NEW g, NEW next \in {"verify", "decide"}, g = [b EXCEPT !.pc = next, !.at = t]
        PROVE  g.pc = next /\ g.at = t
    BY <2>5 DEF BgType
  <2>6. ASSUME NEW b \in BgType, NEW g, g = [b EXCEPT !.todo = @ \ {t}]
        PROVE  g.pc = b.pc
    BY <2>6 DEF BgType
  <2>7. (bg'.pc \in {"verify", "decide"} /\ bg'.at = t) \/ bg'.pc = "sweep"
    BY <1>a, <2>1, <2>2, <2>5, <2>6, ZenonT(60)
  <2> QED BY <2>1, <2>4, <2>7 DEF Placed, Unacked
<1> QED BY <1>1, <1>2, <1>3, <1>4, <1>5

(* A registration counts nothing yet, but leaves room for its reservation. *)
LEMMA SpoolRegisters ==
    ASSUME HostBase, BgTypes', SpoolInv, Busy, RegisterTask
    PROVE  Counted' /\ Placed'
<1>a. bg \in BgType /\ BgTypes /\ Ledger
  BY BusyLedger DEF HostBase, BgTypes
<1>1. bg' = [bg EXCEPT !.pc = "setup", !.at = bg.tgt] /\ UNCHANGED <<task, spool>> /\ Room
  BY DEF RegisterTask
<1>2. bg.tgt \in Tasks /\ bg.tgt \in reg' /\ reg' \subseteq reg \cup {bg.tgt}
  BY RegisterEffect
<1>3. ~task[bg.tgt].bound
  <2>1. Sweeping
    BY DEF RegisterTask, Swept, Sweeping
  <2>2. mon[bg.tgt] = "none"
    BY <2>1 DEF HostBase, LaunchInv
  <2> QED BY <1>2, <2>2 DEF HostBase, LaunchInv, Published
<1>4. Counted'
  BY <1>a, <1>1, <1>2, <1>3, CountKept DEF SpoolInv
<1>5. bg'.at = bg.tgt /\ bg'.pc = "setup"
  <2>1. ASSUME NEW b \in BgType, NEW g, g = [b EXCEPT !.pc = "setup", !.at = b.tgt]
        PROVE  g.pc = "setup" /\ g.at = b.tgt
    BY <2>1 DEF BgType
  <2> QED BY <1>a, <1>1, <2>1
<1>6. spool' + 1 <= SpoolPerRun
  BY <1>1 DEF Room
<1> QED BY <1>2, <1>4, <1>5, <1>6 DEF Placed

LEMMA SpoolAcknowledged ==
    ASSUME HostBase, BgTypes', SpoolInv, Busy, LaunchAck
    PROVE  Counted' /\ Placed'
<1>a. bg \in BgType /\ BgTypes /\ Ledger
  BY BusyLedger DEF HostBase, BgTypes
<1>1. /\ bg.pc = "await" /\ Goes("first") /\ Update(bg.at, [task[bg.at] EXCEPT !.bound = TRUE])
      /\ spool' = spool + 1 /\ UNCHANGED reg
  BY DEF LaunchAck
<1>2. bg.at \in Tasks /\ task[bg.at] \in TaskType /\ bg.at \in reg /\ spool + 1 <= SpoolPerRun
  BY <1>1, BaseFacts DEF AtSteps, SpoolInv, Unacked
<1>3. [task[bg.at] EXCEPT !.bound = TRUE] \in TaskType
  BY <1>2, TaskEdits
<1>4. \A u \in Tasks \ {bg.at} : task'[u] = task[u]
  BY <1>a, <1>1, <1>2, <1>3, UpdateKept
<1>5. Counted'
  BY <1>a, <1>1, <1>2, <1>4, CountReserves DEF SpoolInv
<1>6. bg'.at = bg.at /\ bg'.pc = "first"
  BY <1>a, <1>1, GoesEffect DEF SameRequest, BgSteps, AtSteps
<1> QED BY <1>1, <1>2, <1>5, <1>6 DEF Placed, Unacked

LEMMA SpoolIsNat ==
    ASSUME spool \in Nat, BackgroundHost \/ CancelBackground
    PROVE  spool' \in Nat
<1>1. ASSUME NEW t, NEW rec, Conclude(t, rec)
      PROVE  spool' \in Nat
  BY <1>1 DEF Conclude, SpoolAfter, MaxOf
<1>2. ASSUME NEW t, NEW rec, Store(t, rec)
      PROVE  spool' \in Nat
  BY <1>1, <1>2 DEF Store
<1>3. CASE ConfirmStopped \/ Terminated \/ FirstStatus \/ \E t \in Tasks : Visit(t)
  BY <1>1, <1>2, <1>3 DEF ConfirmStopped, Terminated, FirstStatus, Visit
<1>4. CASE LaunchAck
  BY <1>4 DEF LaunchAck
<1>5. CASE \/ VerifyLiveness \/ VerifyEnded \/ ConfirmFailed \/ TerminateTerm \/ TerminateNone \/ TerminateKill
           \/ NotTerminated \/ Decide \/ RefuseStart \/ RegisterTask \/ LaunchRefused \/ LaunchStep \/ LaunchDispatch
           \/ LaunchLost \/ HandOff \/ SalvageEnded \/ Salvage \/ SalvageUnknown \/ OutputDone \/ CancelBackground
  <2>1. UNCHANGED spool
    BY <1>5, ZenonT(60) DEF VerifyLiveness, VerifyEnded, ConfirmFailed, TerminateTerm, TerminateNone, TerminateKill, NotTerminated,
                Decide, RefuseStart, RegisterTask, LaunchRefused, LaunchStep, LaunchDispatch, LaunchLost, HandOff,
                SalvageEnded, Salvage, SalvageUnknown, OutputDone, CancelBackground
  <2> QED BY <2>1
<1> QED BY <1>3, <1>4, <1>5, Zenon DEF BackgroundHost

LEMMA SpoolBackground ==
    ASSUME CoreInv, CoreInv', SpoolInv, BackgroundStep
    PROVE  SpoolInv'
<1>a. HostBase /\ HostBase' /\ BgTypes /\ BgTypes' /\ ServeInv /\ LaunchInv'
  BY DEF CoreInv, BgInv, HostBase
<1>b. (BackgroundHost \/ CancelBackground) /\ UNCHANGED cu
  BY DEF BackgroundStep, bgRest, restVars
<1>c. spool' \in Nat
  BY <1>b, SpoolIsNat DEF SpoolInv, Counted
<1>1. CASE ~Busy
  <2>1. ~Ledger' /\ ~Busy'
    BY <1>a, <1>b, <1>1, SalvageEnds, BackgroundActs
  <2>2. bg'.pc \notin Unacked
    BY <1>a, <2>1 DEF LaunchInv, Unacked, Busy
  <2> QED BY <1>c, <2>1, <2>2 DEF SpoolInv, Counted, Unacked
<1>2. CASE Busy
  <2>1. CASE Salvage \/ SalvageEnded \/ SalvageUnknown
    BY <1>2, <2>1 DEF Salvage, SalvageEnded, SalvageUnknown, Busy
  <2>2. CASE ~(Salvage \/ SalvageEnded \/ SalvageUnknown)
    <3>1. Counted' /\ Placed'
      BY <1>a, <1>b, <1>2, <2>2, SpoolMoves, SpoolEdits, SpoolRegisters, SpoolAcknowledged, Zenon DEF BackgroundHost
    <3>2. cu'.pc = "idle"
      BY <1>a, <1>b, <1>2 DEF ServeInv
    <3>3. "idle" \notin AtSteps /\ "sweep" \notin AtSteps /\ "idle" \notin Unacked /\ "sweep" \notin Unacked
      BY DEF AtSteps, Verifying, Unacked
    <3> QED BY <3>1, <3>2, <3>3 DEF SpoolInv, Placed, Unacked
  <2> QED BY <2>1, <2>2
<1> QED BY <1>1, <1>2

(* A step outside the background's coroutine that prunes at most.          *)
LEMMA SpoolPrunes ==
    ASSUME CoreInv, CoreInv', SpoolInv, UNCHANGED <<task, spool>>, reg' \subseteq reg,
           Busy' => UNCHANGED <<bg, reg>>, UNCHANGED bg \/ bg'.pc \in {"idle", "sweep"}, Ledger' => Ledger,
           cu'.pc # "idle" /\ Ledger' =>
               \A t \in Tasks : /\ t \in cu'.parts \cup cu'.left => t \in reg'
                                /\ t \in cu'.zero => t \in reg' /\ task[t].bound
    PROVE  SpoolInv'
<1>1. BgTypes /\ BgTypes'
  BY DEF CoreInv, BgInv, HostBase
<1>2. Counted'
  BY <1>1, CountKept DEF SpoolInv
<1>3. bg'.pc \in Unacked => spool' + 1 <= SpoolPerRun
  BY DEF SpoolInv, Unacked
<1>4. Busy' /\ bg'.pc \in AtSteps => bg'.at \in reg'
  BY DEF SpoolInv, Busy
<1> QED BY <1>2, <1>3, <1>4 DEF SpoolInv, Unacked

LEMMA SpoolCounts ==
    ASSUME CoreInv, CoreInv', SpoolInv,
           \/ \E o \in Owned : SignalParticipant(o) \/ CensusParticipant(o)
           \/ \E s \in Snapshots : SignalSnapshot(s)
           \/ NextPhase
    PROVE  SpoolInv'
<1>a. cu \in CuType
  BY DEF CoreInv, RestTypes
<1>1. UNCHANGED <<reg, task, bg, spool>> /\ cu.pc # "idle"
  BY DEF SignalParticipant, CensusParticipant, SignalSnapshot, NextPhase, hostVars, bgVars
<1>2. /\ cu'.parts = cu.parts /\ cu'.left \subseteq cu.left \cup cu.parts
      /\ \A t \in Tasks : t \in cu'.zero => t \in cu.zero \/ (t \in cu.left /\ task[t].bound)
  <2>1. ASSUME NEW o \in Owned, cu' = [cu EXCEPT !.left = @ \ {o}]
        PROVE  cu'.parts = cu.parts /\ cu'.left \subseteq cu.left /\ cu'.zero = cu.zero
    BY <1>a, <2>1 DEF CuType
  <2>2. ASSUME NEW o \in Owned, SignalParticipant(o)
        PROVE  cu'.parts = cu.parts /\ cu'.left \subseteq cu.left /\ cu'.zero = cu.zero
    BY <2>1, <2>2 DEF SignalParticipant
  <2>3. ASSUME NEW s \in Snapshots, SignalSnapshot(s)
        PROVE  cu'.parts = cu.parts /\ cu'.left \subseteq cu.left /\ cu'.zero = cu.zero
    BY <2>1, <2>3, OwnersDistinct DEF SignalSnapshot
  <2>4. CASE NextPhase
    BY <1>a, <2>4 DEF NextPhase, CuType
  <2>5. ASSUME NEW o \in Owned, CensusParticipant(o)
        PROVE  /\ cu'.parts = cu.parts /\ cu'.left \subseteq cu.left
               /\ \A t \in Tasks : t \in cu'.zero => t \in cu.zero \/ (t \in cu.left /\ task[t].bound)
    <3>1. CASE cu' = [cu EXCEPT !.left = @ \ {o}]
      BY <2>1, <3>1
    <3>2. CASE ProvenZero(o) /\ cu' = [cu EXCEPT !.left = @ \ {o}, !.zero = @ \cup {o}]
      <4>1. cu'.parts = cu.parts /\ cu'.left = cu.left \ {o} /\ cu'.zero = cu.zero \cup {o}
        BY <1>a, <3>2 DEF CuType
      <4>2. o \in Tasks => task[o].bound
        BY <3>2, OwnersDistinct DEF ProvenZero, Reachable
      <4>3. o \in cu.left
        BY <2>5 DEF CensusParticipant
      <4> QED BY <4>1, <4>2, <4>3
    <3> QED BY <2>5, <3>1, <3>2 DEF CensusParticipant
  <2> QED BY <2>2, <2>3, <2>4, <2>5
<1>3. Ledger' <=> Ledger
  BY <1>1 DEF Ledger
<1>4. ASSUME Ledger, NEW t \in Tasks
      PROVE  /\ t \in cu'.parts \cup cu'.left => t \in reg'
             /\ t \in cu'.zero => t \in reg' /\ task[t].bound
  BY <1>1, <1>2, <1>4 DEF SpoolInv
<1> QED BY <1>1, <1>3, <1>4, SpoolPrunes

LEMMA SpoolBegins ==
    ASSUME CoreInv, CoreInv', SpoolInv, NEW closing \in BOOLEAN, BeginCleanup(closing)
    PROVE  SpoolInv'
<1>1. UNCHANGED <<task, bg, spool>> /\ reg' = reg \ Terminal /\ HandlerGone
  BY DEF BeginCleanup
<1>2. ~Busy
  BY <1>1 DEF CoreInv, BgInv, HostBase, LaunchInv, HandlerGone, Busy, ServeInv
<1>3. cu'.pc # "idle" => cu'.parts = Participants /\ cu'.left = Participants /\ cu'.zero = {}
  BY DEF BeginCleanup, CuResting
<1>4. \A t \in Tasks : t \in Participants => t \in reg'
  BY <1>1, OwnersDistinct DEF Participants, CoreInv, FrameInv, FgTypes, SnInv, SnTypes
<1> QED BY <1>1, <1>2, <1>3, <1>4, SpoolPrunes DEF Busy, Ledger

(* What a cleanup strikes off was reserved, and is given back.             *)
LEMMA SpoolFinishes ==
    ASSUME CoreInv, CoreInv', SpoolInv, FinishCleanup
    PROVE  SpoolInv'
<1>a. /\ cu.pc = "census" /\ Closed(IF cu.zero = cu.parts THEN "clean" ELSE "unclean") /\ reg' = reg \ cu.zero
      /\ task' = [t \in Tasks |-> IF t \in cu.zero THEN [task[t] EXCEPT !.spooled = TRUE] ELSE task[t]]
      /\ spool' \in SpoolsAfter(Cardinality({t \in cu.zero \cap Tasks : ~task[t].spooled})) /\ UNCHANGED bg
  BY DEF FinishCleanup
<1>b. BgTypes /\ ~Busy /\ cu'.pc = "idle" /\ spool \in Nat
  <2>1. cu'.pc = "idle"
    BY <1>a DEF Closed, CuResting
  <2> QED BY <1>a, <2>1 DEF CoreInv, BgInv, HostBase, ServeInv, SpoolInv, Counted
<1> DEFINE Given == {t \in cu.zero \cap Tasks : ~task[t].spooled}
<1>1. IsFiniteSet(Given) /\ Cardinality(Given) \in Nat
  <2>1. Given \subseteq Tasks
    OBVIOUS
  <2> QED BY <2>1, TasksAssumption, FS_Subset, FS_CardinalityType
<1>2. spool' \in Nat /\ spool' \in SpoolsAfter(Cardinality(Given))
  BY <1>a, <1>b, <1>1 DEF SpoolsAfter, MaxOf
<1>3. ASSUME Ledger
      PROVE  Counted'
  <2>1. Given \subseteq Reserved
    BY <1>a, <1>3 DEF SpoolInv, Reserved
  <2>2. Reserved' \subseteq Reserved \ Given
    <3>1. \A t \in Tasks : t \notin cu.zero => task'[t] = task[t]
      BY <1>a
    <3> QED BY <1>a, <1>b, <3>1 DEF Reserved, BgTypes
  <2>3. /\ IsFiniteSet(Reserved) /\ Cardinality(Reserved) \in Nat
        /\ IsFiniteSet(Reserved \ Given) /\ Cardinality(Reserved \ Given) \in Nat
    BY <1>b, ReservedFinite, FS_Difference, FS_CardinalityType
  <2>4. Cardinality(Reserved \ Given) = Cardinality(Reserved) - Cardinality(Given)
    <3>1. Reserved \cap Given = Given
      BY <2>1
    <3>2. Cardinality(Reserved \ Given) = Cardinality(Reserved) - Cardinality(Reserved \cap Given)
      BY <2>3, FS_Difference
    <3> QED BY <3>1, <3>2
  <2>5. Cardinality(Reserved') <= Cardinality(Reserved \ Given) /\ Cardinality(Reserved') \in Nat
    BY <2>2, <2>3, FS_Subset, FS_CardinalityType
  <2>6. spool <= SpoolPerRun /\ Cardinality(Reserved) <= spool
    BY <1>3 DEF SpoolInv, Counted
  <2>7. PICK n \in Nat : n = Cardinality(Given)
    BY <1>1
  <2>8. /\ spool' \in SpoolsAfter(n) /\ Cardinality(Reserved') <= Cardinality(Reserved) - n
        /\ Cardinality(Reserved) >= n
    BY <1>1, <1>2, <2>3, <2>4, <2>5, <2>7
  <2> HIDE DEF Given
  <2>9. Cardinality(Reserved') <= spool' /\ spool' <= SpoolPerRun
    <3>1. CASE n = 0
      BY <1>b, <1>2, <2>3, <2>5, <2>6, <2>8, <3>1 DEF SpoolsAfter
    <3>2. CASE n # 0
      <4>1. MaxOf(0, spool - n) <= spool' /\ spool' <= MaxOf(1, spool)
        BY <1>b, <1>2, <2>8, <3>2 DEF SpoolsAfter, MaxOf
      <4> QED BY <1>b, <1>2, <2>3, <2>5, <2>6, <2>8, <3>2, <4>1, SpoolAssumption DEF MaxOf
    <3> QED BY <3>1, <3>2
  <2> QED BY <1>2, <2>9 DEF Counted
<1>5. Counted'
  BY <1>a, <1>2, <1>3 DEF Counted, Ledger
<1>6. bg'.pc \notin Unacked /\ ~Busy'
  BY <1>a, <1>b DEF Unacked, Busy, CoreInv, BgInv, HostBase, LaunchInv
<1> QED BY <1>b, <1>5, <1>6 DEF SpoolInv, Unacked

LEMMA SpoolKeeps ==
    ASSUME CoreInv, CoreInv', SpoolInv, [Next]_vars
    PROVE  SpoolInv'
<1>1. ASSUME UNCHANGED <<reg, task, bg, spool, cu>>
      PROVE  SpoolInv'
  BY <1>1 DEF SpoolInv, Counted, Reserved, Ledger, Busy
<1>2. CASE \/ \E c \in Commands, signed \in BOOLEAN : ExecuteCommand(c, signed)
           \/ \E s \in Snapshots : ExecSnapshot(s)
           \/ ForegroundStep \/ SnapshotStep \/ ClaimReady \/ UNCHANGED vars
           \/ \E c \in Commands : RemoteRun(c)
           \/ \E t \in Tasks : RemoteMonitor(t)
           \/ \E s \in Snapshots : RemoteSnapshot(s)
  <2>1. UNCHANGED <<reg, task, bg, spool, cu>>
    BY <1>2 DEF ExecuteCommand, ExecSnapshot, ForegroundStep, SnapshotStep, ClaimReady, vars, RemoteRun, RemoteMonitor,
                RemoteSnapshot, fgRest, snRest, bgRest, restVars, hostVars, bgVars
  <2> QED BY <1>1, <2>1
<1>3. CASE \/ \E t \in Tasks : ExecuteStart(t) \/ ExecuteKill(t)
           \/ \E todo \in SUBSET Tasks : ExecuteOutput(todo)
           \/ RequestManifest
  <2>0. ASSUME NEW op, NEW t, NEW todo, Begin(op, t, todo)
        PROVE  UNCHANGED <<task, spool, reg>> /\ bg'.pc = "sweep" /\ bg = BgResting
    BY <2>0 DEF Begin, BgResting
  <2>1. Serving /\ UNCHANGED cu
    BY <1>3 DEF ExecuteStart, ExecuteKill, ExecuteOutput, RequestManifest, bgRest, restVars
  <2>2. UNCHANGED <<task, spool, reg>> /\ bg'.pc = "sweep" /\ bg = BgResting
    BY <1>3, <2>0 DEF ExecuteStart, ExecuteKill, ExecuteOutput, RequestManifest, StartBackground, KillCommand,
                      TerminalOutput, BackgroundManifest
  <2>3. Ledger /\ cu'.pc = "idle"
    BY <2>1, <2>2, BgRests DEF Ledger, Serving, Idle
  <2>4. Counted'
    <3>1. BgTypes /\ BgTypes'
      BY DEF CoreInv, BgInv, HostBase
    <3> QED BY <2>2, <2>3, <3>1, CountKept DEF SpoolInv
  <2> QED BY <2>2, <2>3, <2>4 DEF SpoolInv, AtSteps, Verifying, Unacked
<1>4. CASE BackgroundStep
  BY <1>4, SpoolBackground
<1>5. CASE \E closing \in BOOLEAN : BeginCleanup(closing)
  BY <1>5, SpoolBegins
<1>6. CASE Cleanup
  <2>1. CASE CleanupExpires
    <3>1. UNCHANGED <<reg, task, bg, spool>> /\ cu'.pc = "idle"
      BY <2>1 DEF CleanupExpires, Closed, CuResting, bgVars
    <3> QED BY <3>1, SpoolPrunes DEF Ledger
  <2> QED BY <1>6, <2>1, SpoolCounts, SpoolFinishes DEF Cleanup
<1>7. CASE SealLease
  <2>1. UNCHANGED <<task, spool, cu>> /\ bg' = BgResting /\ reg' \subseteq reg /\ bg.pc = "sweep" /\ bg.op = "manifest"
    BY <1>7 DEF SealLease, Swept
  <2>2. Busy
    BY <2>1 DEF Busy
  <2>3. Ledger /\ cu'.pc = "idle"
    BY <2>1, <2>2, BusyLedger DEF CoreInv, BgInv, ServeInv
  <2>4. bg'.pc = "idle"
    BY <2>1, BgRests
  <2> QED BY <2>1, <2>3, <2>4, SpoolPrunes DEF Busy
<1>8. CASE AskReady
  <2>1. UNCHANGED <<task, spool, cu, bg>> /\ reg' \subseteq reg /\ Over /\ cu.pc = "idle"
    BY <1>8 DEF AskReady
  <2>2. ~Busy
    BY <2>1 DEF CoreInv, ServeInv
  <2> QED BY <2>1, <2>2, SpoolPrunes DEF Busy, Ledger
<1> QED BY <1>2, <1>3, <1>4, <1>5, <1>6, <1>7, <1>8, Zenon DEF Next

LEMMA SpoolInit == Init => SpoolInv
<1> SUFFICES ASSUME Init
             PROVE  SpoolInv
  OBVIOUS
<1>1. reg = {} /\ spool = 0 /\ bg = BgResting /\ cu.pc = "idle"
  BY DEF Init, InitBackground, CuResting
<1>2. Reserved = {} /\ Cardinality({}) = 0
  BY <1>1, FS_EmptySet DEF Reserved
<1>3. Counted
  BY <1>1, <1>2, SpoolAssumption DEF Counted
<1> QED BY <1>1, <1>3, BgRests DEF SpoolInv, AtSteps, Verifying, Unacked

(***************************************************************************)
(* The ownership the actor implements: every step settles the books while  *)
(* the processes rest, or touches the processes of one owner while the     *)
(* books rest, or admits an owner, or claims readiness.                    *)
(***************************************************************************)
(* a start in progress was never answered, and a lease is closed once      *)
OnceInv ==
    /\ Sweeping => told[bg.tgt] = "none"
    /\ cu.closing => lease.outcome = "none"

OwnInv == CoreInv /\ FgInv /\ OnceInv

OnTheBooks == active \cup reg \cup snaps

Alive == {o \in Owned : Traced(o) # {}}

OwnStep == [Ownership!Next]_(Ownership!vars)

(* what a settling step may do to the books of each component              *)
FgYields ==
    /\ active' \subseteq active
    /\ \A c \in Commands : /\ out'[c].kind = "none" => out[c].kind = "none"
                           /\ out'[c].kind = "none" /\ fg.pc # "idle" /\ fg.cmd = c => fg'.pc # "idle" /\ fg'.cmd = c
                           /\ out[c].census = "yes" => out'[c].census = "yes"

BgYields ==
    /\ reg' \subseteq reg
    /\ \A t \in Tasks : /\ told[t] # "none" => told'[t] # "none"
                        /\ mon[t] # "none" => mon'[t] # "none"
                        /\ task[t].census => task'[t].census
    /\ bg.fatal => bg'.fatal
    /\ \A t \in reg \ reg' : told'[t] # "none" \/ mon[t] # "none" \/ bg'.fatal

SnYields ==
    /\ snaps' \subseteq snaps
    /\ \A s \in Snapshots : /\ snOut[s] # "none" => snOut'[s] # "none"
                            /\ snOut[s] \in {"result", "failed"} => snOut'[s] = snOut[s]
                            /\ s \in snaps \ snaps' => snOut'[s] # "none"

LeaseYields == lease.outcome = "clean" => UNCHANGED lease

LEMMA QuietYields ==
    /\ UNCHANGED <<active, fg, out>> => FgYields
    /\ UNCHANGED <<reg, told, mon, task, bg>> => BgYields
    /\ UNCHANGED <<snaps, snOut>> => SnYields
    /\ UNCHANGED lease => LeaseYields
BY DEF FgYields, BgYields, SnYields, LeaseYields

(* whatever lives is held                                                  *)
LEMMA AliveIsHeld ==
    ASSUME CoreInv, FgInv
    PROVE  Alive \subseteq OnTheBooks
<1> SUFFICES ASSUME NEW o \in Owned, Traced(o) # {}
             PROVE  o \in OnTheBooks
  BY DEF Alive
<1>1. CASE o \in Commands
  BY <1>1, OwnersDistinct DEF FgInv, CommandInv, OnTheBooks, Traced
<1>2. CASE o \in Tasks
  BY <1>2 DEF CoreInv, BgInv, HostBase, TaskInv, OnTheBooks, Traced
<1>3. CASE o \in Snapshots
  BY <1>3, OwnersDistinct DEF CoreInv, SnInv, SnapInv, Settled, OnTheBooks, Traced
<1> QED BY <1>1, <1>2, <1>3, OwnersDistinct

(* whoever was reported empty is empty                                     *)
LEMMA ToldIsEmpty ==
    ASSUME CoreInv, FgInv
    PROVE  ToldEmpty \cap Alive = {}
<1> SUFFICES ASSUME NEW o \in ToldEmpty
             PROVE  Traced(o) = {}
  BY DEF Alive
<1>1. CASE o \in Commands /\ out[o].census = "yes"
  BY <1>1, OwnersDistinct DEF FgInv, CommandInv, Traced
<1>2. CASE o \in Tasks /\ task[o].census
  BY <1>2 DEF CoreInv, BgInv, HostBase, TaskInv, Traced
<1>3. CASE o \in Tasks /\ o \in lease.tasks /\ lease.outcome = "clean"
  BY <1>3 DEF CoreInv, CleanupInv, Traced
<1>4. CASE o \in Snapshots /\ snOut[o] \in {"result", "failed"}
  BY <1>4, OwnersDistinct DEF CoreInv, SnInv, SnapInv, Settled, Traced
<1> QED BY <1>1, <1>2, <1>3, <1>4 DEF ToldEmpty

(* The books after a settling step: none is added, no report is taken back.*)
LEMMA BooksYield ==
    ASSUME FgYields, BgYields, SnYields, LeaseYields
    PROVE  /\ Untouched' \subseteq Untouched
           /\ OnTheBooks' \subseteq OnTheBooks
           /\ ToldEmpty \subseteq ToldEmpty'
<1>1. ASSUME NEW o \in Untouched'
      PROVE  o \in Untouched
  <2>1. CASE o \in Commands /\ out'[o].kind = "none" /\ ~(fg'.pc # "idle" /\ fg'.cmd = o)
    BY <2>1 DEF FgYields, Untouched
  <2>2. CASE o \in Tasks /\ told'[o] = "none" /\ mon'[o] = "none" /\ o \notin reg' /\ ~bg'.fatal
    <3>1. told[o] = "none" /\ mon[o] = "none" /\ ~bg.fatal /\ o \notin reg
      BY <2>2 DEF BgYields
    <3> QED BY <2>2, <3>1 DEF Untouched
  <2>3. CASE o \in Snapshots /\ snOut'[o] = "none" /\ o \notin snaps'
    <3>1. snOut[o] = "none" /\ o \notin snaps
      BY <2>3 DEF SnYields
    <3> QED BY <2>3, <3>1 DEF Untouched
  <2> QED BY <1>1, <2>1, <2>2, <2>3 DEF Untouched
<1>2. OnTheBooks' \subseteq OnTheBooks
  BY DEF FgYields, BgYields, SnYields, OnTheBooks
<1>3. ASSUME NEW o \in ToldEmpty
      PROVE  o \in ToldEmpty'
  <2>1. CASE o \in Commands /\ out[o].census = "yes"
    BY <2>1 DEF FgYields, ToldEmpty
  <2>2. CASE o \in Tasks /\ task[o].census
    BY <2>2 DEF BgYields, ToldEmpty
  <2>3. CASE o \in Tasks /\ lease.outcome = "clean" /\ o \in lease.tasks
    BY <2>3 DEF LeaseYields, ToldEmpty
  <2>4. CASE o \in Snapshots /\ snOut[o] \in {"result", "failed"}
    BY <2>4 DEF SnYields, ToldEmpty
  <2> QED BY <1>3, <2>1, <2>2, <2>3, <2>4 DEF ToldEmpty
<1> QED BY <1>1, <1>2, <1>3

LEMMA BooksTrue == CoreInv /\ FgInv => Alive \subseteq OnTheBooks /\ ToldEmpty \cap Alive = {}
BY AliveIsHeld, ToldIsEmpty

LEMMA BooksStayTrue == (CoreInv /\ FgInv)' => (Alive \subseteq OnTheBooks /\ ToldEmpty \cap Alive = {})'
BY BooksTrue, PTL

(* An answer: the processes rest.                                          *)
LEMMA SettleAllowed ==
    ASSUME CoreInv', FgInv', UNCHANGED procs, (probe = "ready") = (probe = "ready")',
           FgYields, BgYields, SnYields, LeaseYields
    PROVE  Ownership!Settle
<1>1. Alive' = Alive
  BY DEF Alive, Traced
<1>2. Alive \subseteq OnTheBooks' /\ ToldEmpty' \cap Alive = {}
  <2>1. Alive' \subseteq OnTheBooks' /\ ToldEmpty' \cap Alive' = {}
    BY BooksStayTrue
  <2> QED BY <1>1, <2>1
<1> QED BY <1>1, <1>2, BooksYield DEF Ownership!Settle, Ownership!StrikesOnlyEmpty, Alive, Traced, OnTheBooks

(* The books rest: no owner is admitted, given up or reported on.          *)
BooksRest == UNCHANGED <<Untouched, OnTheBooks, ToldEmpty>>

LEMMA TouchAllowed ==
    ASSUME CoreInv, FgInv, CoreInv', FgInv', NEW o \in Owned, UNCHANGED procs \/ Touches(o), BooksRest,
           (probe = "ready") = (probe = "ready")'
    PROVE  OwnStep
<1>1. Alive' \subseteq OnTheBooks /\ ToldEmpty \cap Alive' = {}
  BY BooksStayTrue DEF BooksRest
<1>2. \A x \in Owned \ {o} : procs'[x] = procs[x]
  BY TouchEffect DEF CoreInv, FrameInv
<1>3. CASE o \in Alive /\ o \notin Alive'
  <2>1. Alive' = Alive \ {o}
    BY <1>2, <1>3 DEF Alive, Traced
  <2>2. Ownership!End(o)
    BY <1>3, <2>1 DEF Ownership!End, Ownership!books, BooksRest, Alive, Traced, OnTheBooks
  <2> QED BY <2>2 DEF OwnStep, Ownership!Next
<1>4. CASE o \notin Alive /\ o \in Alive'
  <2>1. Alive' = Alive \cup {o}
    BY <1>2, <1>4 DEF Alive, Traced
  <2>2. Ownership!Run(o)
    BY <1>1, <1>4, <2>1 DEF Ownership!Run, Ownership!books, BooksRest, Alive, Traced, OnTheBooks
  <2> QED BY <2>2 DEF OwnStep, Ownership!Next
<1>5. CASE o \in Alive <=> o \in Alive'
  <2>1. Alive' = Alive
    BY <1>2, <1>5 DEF Alive, Traced
  <2> QED BY <2>1 DEF OwnStep, Ownership!vars, BooksRest, Alive, Traced, OnTheBooks
<1> QED BY <1>3, <1>4, <1>5

LEMMA RestAllowed ==
    ASSUME UNCHANGED procs, BooksRest, (probe = "ready") = (probe = "ready")'
    PROVE  OwnStep
BY DEF OwnStep, Ownership!vars, BooksRest, OnTheBooks, Traced

LEMMA SettleIsStep == Ownership!Settle => OwnStep
BY DEF OwnStep, Ownership!Next

LEMMA RestingBooks ==
    ASSUME \A c \in Commands : UNCHANGED out[c] /\ ((fg.pc # "idle" /\ fg.cmd = c) = (fg.pc # "idle" /\ fg.cmd = c)'),
           \A t \in Tasks : (mon[t] = "none") = (mon[t] = "none")',
           UNCHANGED <<active, reg, task, told, snaps, snOut, lease>>, UNCHANGED bg.fatal
    PROVE  BooksRest
<1>1. UNCHANGED Untouched
  BY DEF Untouched
<1>2. UNCHANGED ToldEmpty
  BY DEF ToldEmpty
<1>3. UNCHANGED OnTheBooks
  BY DEF OnTheBooks
<1> QED BY <1>1, <1>2, <1>3 DEF BooksRest

(***************************************************************************)
(* The steps of the foreground.                                            *)
(***************************************************************************)
LEMMA OwnCommand ==
    ASSUME OwnInv, CoreInv', FgInv', NEW c \in Commands, NEW signed \in BOOLEAN, ExecuteCommand(c, signed)
    PROVE  OwnStep
<1>a. Serving /\ UNCHANGED <<bgVars, snVars, cu, lease, probe>> /\ (Admit(c, signed) \/ RefuseMapping(c))
  BY DEF ExecuteCommand, fgRest, restVars
<1>b. probe = "none"
  BY <1>a DEF OwnInv, CoreInv, ReadyInv, Serving
<1>c. out \in [Commands -> OutType]
  BY DEF OwnInv, FgInv, FgTypes
<1>1. CASE Admit(c, signed)
  <2>1. Admits(c)
    BY <1>1, AdmitEffect
  <2>2. /\ fg.pc = "idle" /\ c \notin active /\ out[c].kind = "none" /\ UNCHANGED <<procs, out>>
        /\ fg'.pc = "setup" /\ fg'.cmd = c /\ active' = active \cup {c}
    BY <2>1, RestingType DEF Admits
  <2>3. c \in Untouched /\ Untouched' = Untouched \ {c}
    <3>1. UNCHANGED <<told, mon, reg, bg, snaps, snOut>>
      BY <1>a DEF bgVars, snVars
    <3> QED BY <2>2, <3>1, OwnersDistinct DEF Untouched
  <2>4. UNCHANGED <<Alive, ToldEmpty>> /\ OnTheBooks' = OnTheBooks \cup {c}
    BY <1>a, <2>2 DEF Alive, Traced, ToldEmpty, OnTheBooks, bgVars, snVars
  <2>5. Ownership!Admit(c)
    BY <1>a, <1>b, <2>3, <2>4 DEF Ownership!Admit, Ownership!StrikesOnlyEmpty, Alive, Traced, OnTheBooks
  <2> QED BY <2>5, OwnersDistinct DEF OwnStep, Ownership!Next
<1>2. CASE RefuseMapping(c)
  <2>1. /\ fg.pc = "idle" /\ out[c] = NoOutcome /\ UNCHANGED <<procs, active, fg>>
        /\ out' = [out EXCEPT ![c] = [NoOutcome EXCEPT !.kind = "failed"]]
    BY <1>2 DEF RefuseMapping
  <2>2. out'[c].kind = "failed" /\ \A x \in Commands \ {c} : out'[x] = out[x]
    BY <1>c, <2>1 DEF NoOutcome
  <2>3. out[c].census # "yes"
    BY <2>1, RestingType
  <2>4. FgYields
    BY <2>1, <2>2, <2>3 DEF FgYields
  <2>5. BgYields /\ SnYields /\ LeaseYields
    BY <1>a, QuietYields DEF bgVars, snVars
  <2>6. Ownership!Settle
    BY <1>a, <2>1, <2>4, <2>5, SettleAllowed
  <2> QED BY <2>6, SettleIsStep
<1> QED BY <1>a, <1>1, <1>2

LEMMA OwnForeground ==
    ASSUME ~DelayedRun, OwnInv, CoreInv', FgInv', ForegroundStep
    PROVE  OwnStep
<1>a. UNCHANGED <<bgVars, snVars, cu, lease, probe>> /\ (HostStep \/ PassCutoff \/ Cancel \/ CancelAgain)
  BY DEF ForegroundStep, fgRest, restVars
<1>b. HostMoves \/ HostDispatches \/ HostLeaves
  BY <1>a, HostEffect DEF OwnInv, FgInv
<1>c. /\ out \in [Commands -> OutType]
      /\ fg.pc # "idle" => fg.cmd \in Commands /\ fg.cmd \in Owned /\ out[fg.cmd].kind = "none" /\ out[fg.cmd].census # "yes"
  BY OwnersDistinct DEF OwnInv, FgInv, FgTypes, RunInv, CommandInv
<1>d. UNCHANGED <<told, mon, reg, task, bg, snaps, snOut>>
  BY <1>a DEF bgVars, snVars
<1>1. CASE HostMoves \/ HostDispatches
  <2>1. /\ fg.pc # "idle" /\ fg'.pc # "idle" /\ fg'.cmd = fg.cmd /\ UNCHANGED <<active, out>>
        /\ UNCHANGED procs \/ Touches(fg.cmd)
    BY <1>1, LivesTouches DEF HostMoves, HostDispatches
  <2>2. BooksRest
    BY <1>a, <1>d, <2>1, RestingBooks
  <2> QED BY <1>a, <1>c, <2>1, <2>2, TouchAllowed DEF OwnInv
<1>2. CASE HostLeaves
  <2>1. PICK o \in OutType, release \in BOOLEAN :
          /\ out' = [out EXCEPT ![fg.cmd] = o]
          /\ active' = IF release THEN active \ {fg.cmd} ELSE active
          /\ o.kind # "none"
    BY <1>2 DEF HostLeaves
  <2>2. fg.pc # "idle" /\ UNCHANGED procs
    BY <1>2 DEF HostLeaves
  <2>3. out'[fg.cmd].kind # "none" /\ \A x \in Commands \ {fg.cmd} : out'[x] = out[x]
    BY <1>c, <2>1, <2>2
  <2>4. FgYields
    BY <1>c, <2>1, <2>2, <2>3 DEF FgYields
  <2>5. BgYields /\ SnYields /\ LeaseYields
    BY <1>a, <1>d, QuietYields
  <2>6. Ownership!Settle
    BY <1>a, <2>2, <2>4, <2>5, SettleAllowed
  <2> QED BY <2>6, SettleIsStep
<1> QED BY <1>b, <1>1, <1>2

LEMMA OwnRun ==
    ASSUME OwnInv, CoreInv', FgInv', NEW c \in Commands, RemoteRun(c)
    PROVE  OwnStep
<1>a. UNCHANGED <<bgVars, snVars, cu, lease, probe>> /\ (RunScript(c) \/ Behave(c))
  BY DEF RemoteRun, fgRest, restVars
<1>1. (UNCHANGED procs \/ Touches(c)) /\ UNCHANGED <<active, fg, out>>
  BY <1>a, ScriptFrames DEF OwnInv, CoreInv
<1>2. BooksRest
  BY <1>a, <1>1, RestingBooks DEF bgVars, snVars
<1> QED BY <1>a, <1>1, <1>2, TouchAllowed, OwnersDistinct DEF OwnInv

(***************************************************************************)
(* The steps of a snapshot.                                                *)
(***************************************************************************)
LEMMA OwnSnapshotBegins ==
    ASSUME OwnInv, CoreInv', FgInv', NEW s \in Snapshots, ExecSnapshot(s)
    PROVE  OwnStep
<1>a. probe = "none" /\ SnBegin(s) /\ UNCHANGED <<fgVars, bgVars, cu, lease, probe>>
  BY DEF ExecSnapshot, snRest, restVars
<1>1. snOut[s] = "none" /\ s \notin snaps /\ snaps' = snaps \cup {s} /\ UNCHANGED <<procs, snOut>>
  BY <1>a DEF SnBegin
<1>2. s \in Untouched /\ Untouched' = Untouched \ {s}
  <2>1. UNCHANGED <<out, fg, told, mon, reg, bg>>
    BY <1>a DEF fgVars, bgVars
  <2> QED BY <1>1, <2>1, OwnersDistinct DEF Untouched
<1>3. UNCHANGED <<Alive, ToldEmpty>> /\ OnTheBooks' = OnTheBooks \cup {s}
  BY <1>a, <1>1 DEF Alive, Traced, ToldEmpty, OnTheBooks, fgVars, bgVars
<1>4. Ownership!Admit(s)
  BY <1>a, <1>2, <1>3 DEF Ownership!Admit, Ownership!StrikesOnlyEmpty, Alive, Traced, OnTheBooks
<1> QED BY <1>4, OwnersDistinct DEF OwnStep, Ownership!Next

LEMMA LeavingYields ==
    ASSUME SnInv, sn.pc # "idle", NEW what \in {"result", "failed", "unverified"}, SnLeave(what)
    PROVE  SnYields
<1>1. /\ snOut' = [snOut EXCEPT ![sn.at] = what]
      /\ snaps' = IF what = "unverified" THEN snaps ELSE snaps \ {sn.at}
  BY DEF SnLeave
<1>2. sn.at \in Snapshots /\ snOut[sn.at] = "none" /\ snOut \in [Snapshots -> {"none", "result", "failed", "unverified"}]
  BY DEF SnInv, SnTypes, SnapInv
<1>3. snOut'[sn.at] # "none" /\ \A s \in Snapshots \ {sn.at} : snOut'[s] = snOut[s]
  BY <1>1, <1>2
<1> QED BY <1>1, <1>2, <1>3 DEF SnYields

LEMMA OwnSnapshot ==
    ASSUME OwnInv, CoreInv', FgInv', SnapshotStep
    PROVE  OwnStep
<1>a. SnapshotHost /\ UNCHANGED <<fgVars, bgVars, cu, lease, probe>>
  BY DEF SnapshotStep, snRest, restVars
<1>b. SnInv
  BY DEF OwnInv, CoreInv
<1>1. UNCHANGED procs
  BY <1>a, <1>b, SnapshotHostKeeps
<1>2. SnYields
  <2>1. CASE SnNotStarted
    BY <1>b, <2>1, LeavingYields DEF SnNotStarted
  <2>2. CASE SnSettled
    <3>1. sn.pc # "idle" /\ \E what \in {"result", "failed", "unverified"} : SnLeave(what)
      BY <2>2 DEF SnSettled
    <3> QED BY <1>b, <3>1, LeavingYields
  <2>3. CASE SnContained
    BY <1>b, <2>3, LeavingYields DEF SnContained
  <2>4. CASE SnUnverified
    BY <1>b, <2>4, LeavingYields DEF SnUnverified
  <2>5. CASE \/ SnPrepare \/ SnDispatch \/ SnStarted \/ SnRelease \/ SnReleased
             \/ SnTrouble \/ SnInspect \/ SnInspected \/ SnCancel
    <3>1. UNCHANGED <<snaps, snOut>>
      BY <2>5 DEF SnPrepare, SnDispatch, SnStarted, SnRelease, SnReleased, SnTrouble, SnInspect, SnInspected, SnCancel
    <3> QED BY <3>1, QuietYields
  <2> QED BY <1>a, <2>1, <2>2, <2>3, <2>4, <2>5 DEF SnapshotHost
<1>3. FgYields /\ BgYields /\ LeaseYields
  BY <1>a, QuietYields DEF fgVars, bgVars
<1>4. Ownership!Settle
  BY <1>a, <1>1, <1>2, <1>3, SettleAllowed
<1> QED BY <1>4, SettleIsStep

LEMMA OwnSupervisor ==
    ASSUME OwnInv, CoreInv', FgInv', NEW s \in Snapshots, RemoteSnapshot(s)
    PROVE  OwnStep
<1>a. (SnapshotScript(s) \/ BehaveSnapshot(s)) /\ UNCHANGED <<snHost, fgVars, bgVars, cu, lease, probe>>
  BY DEF RemoteSnapshot, snRest, restVars
<1>1. SupMoves(s)
  BY <1>a, SupervisorEffect DEF OwnInv, CoreInv, SnInv
<1>2. UNCHANGED procs \/ Touches(s)
  BY <1>1, LivesTouches DEF SupMoves, Touches
<1>3. BooksRest
  BY <1>a, RestingBooks DEF snHost, fgVars, bgVars
<1> QED BY <1>a, <1>2, <1>3, TouchAllowed, OwnersDistinct DEF OwnInv

(***************************************************************************)
(* The steps of the background.                                            *)
(***************************************************************************)
LEMMA OwnMonitor ==
    ASSUME OwnInv, CoreInv', FgInv', NEW t \in Tasks, RemoteMonitor(t)
    PROVE  OwnStep
<1>a. /\ UNCHANGED hostVars /\ UNCHANGED <<fgVars, snVars, cu, lease, probe>>
      /\ Monitor(t) \/ BehaveBackground(t) \/ ReusePid(t)
  BY DEF RemoteMonitor, bgRest, restVars
<1>1. MonitorMoves(t)
  BY <1>a, MonitorEffect DEF OwnInv, CoreInv, BgInv
<1>2. UNCHANGED procs \/ Touches(t)
  BY <1>1, LivesTouches DEF MonitorMoves, Touches
<1>3. \A u \in Tasks : (mon[u] = "none") = (mon[u] = "none")'
  BY <1>1 DEF MonitorMoves
<1>4. UNCHANGED <<reg, task, told, bg, active, fg, out, snaps, snOut>>
  BY <1>a DEF hostVars, fgVars, snVars
<1>5. BooksRest
  BY <1>a, <1>3, <1>4, RestingBooks
<1> QED BY <1>a, <1>2, <1>5, TouchAllowed, OwnersDistinct DEF OwnInv

LEMMA OwnRequest ==
    ASSUME OwnInv, CoreInv', FgInv',
           \/ \E t \in Tasks : ExecuteStart(t) \/ ExecuteKill(t)
           \/ \E todo \in SUBSET Tasks : ExecuteOutput(todo)
           \/ RequestManifest
    PROVE  OwnStep
<1>1. /\ bg = BgResting /\ UNCHANGED <<procs, mon, reg, task, told>> /\ UNCHANGED <<fgVars, snVars, lease, probe>>
  BY DEF ExecuteStart, ExecuteKill, ExecuteOutput, RequestManifest, StartBackground, KillCommand, TerminalOutput,
         BackgroundManifest, Begin, bgRest, restVars, remoteVars
<1>2. BgYields
  BY <1>1, BgRests DEF BgYields
<1>3. FgYields /\ SnYields /\ LeaseYields
  BY <1>1, QuietYields DEF fgVars, snVars
<1>4. Ownership!Settle
  BY <1>1, <1>2, <1>3, SettleAllowed
<1> QED BY <1>4, SettleIsStep

(* a step that answers nobody and registers nobody                         *)
LEMMA QuietTasksYield ==
    ASSUME HostBase, TaskEffect, UNCHANGED <<mon, reg, told>>, bg.pc # "idle"
    PROVE  BgYields
BY DEF BgYields, TaskEffect, HostBase, LaunchInv

(* what is pruned was published, and what ends without an answer ends the  *)
(* session                                                                 *)
LEMMA EndsYield ==
    ASSUME HostBase, Ends
    PROVE  BgYields
<1>a. TaskEffect /\ UNCHANGED <<procs, mon>>
  BY EndsSeat DEF Seated, remoteVars
<1>b. bg.pc # "idle"
  BY DEF Ends, Terminated, NotTerminated, Decide, RefuseStart, LaunchRefused, HandOff, SalvageEnded, SalvageUnknown,
         OutputDone, Swept
<1>c. ~bg.fatal /\ told \in [Tasks -> {"none", "refused", "retained", "quickExit"}]
  BY <1>b DEF HostBase, LaunchInv, BgTypes
<1>d. ASSUME NEW kept \in SUBSET reg, Pruned(kept), reg' = kept
      PROVE  \A t \in reg \ reg' : mon[t] # "none"
  <2>1. \A t \in reg \ reg' : task[t].census
    BY <1>d, PrunedKeeps
  <2>2. \A t \in Tasks : task[t].census => Published(t)
    BY DEF HostBase, TaskInv
  <2>3. reg \subseteq Tasks
    BY DEF HostBase, BgTypes
  <2> QED BY <2>1, <2>2, <2>3 DEF Published
<1>e. ASSUME NEW t, NEW what \in {"refused", "retained", "quickExit"}, Answer(t, what)
      PROVE  \A u \in Tasks : (told[u] # "none" => told'[u] # "none") /\ (u = t => told'[u] # "none")
  BY <1>c, <1>e DEF Answer
<1>1. /\ \A t \in Tasks : told[t] # "none" => told'[t] # "none"
      /\ \A t \in reg \ reg' : told'[t] # "none" \/ mon[t] # "none" \/ bg'.fatal
  <2>a. reg \subseteq Tasks
    BY DEF HostBase, BgTypes
  <2>b. Fatal => bg'.fatal
    BY FatalEffect DEF Rests
  <2>1. CASE Terminated
    BY <2>1, <2>b DEF Terminated
  <2>2. CASE RefuseStart
    BY <2>2, <1>d, <1>e DEF RefuseStart
  <2>3. CASE LaunchRefused
    BY <2>3, <1>e, <2>a, <2>b DEF LaunchRefused
  <2>4. CASE HandOff
    BY <2>4, <1>e, <2>a, <2>b DEF HandOff
  <2>5. CASE SalvageEnded
    BY <2>5, <2>b DEF SalvageEnded
  <2>6. CASE OutputDone
    BY <2>6, <1>d DEF OutputDone
  <2>7. CASE NotTerminated \/ Decide \/ SalvageUnknown
    BY <2>7 DEF NotTerminated, Decide, SalvageUnknown
  <2> QED BY <2>1, <2>2, <2>3, <2>4, <2>5, <2>6, <2>7 DEF Ends
<1> QED BY <1>a, <1>c, <1>1 DEF BgYields, TaskEffect

LEMMA OwnRegister ==
    ASSUME OwnInv, CoreInv', FgInv', RegisterTask, UNCHANGED <<fgVars, snVars, lease, probe>>
    PROVE  OwnStep
<1>a. HostBase /\ CoreInv
  BY DEF OwnInv, CoreInv, BgInv
<1>b. /\ bg.pc = "sweep" /\ bg.todo = {} /\ bg.op = "start"
      /\ bg' = [bg EXCEPT !.pc = "setup", !.at = bg.tgt] /\ UNCHANGED <<procs, mon, told, task>>
  BY DEF RegisterTask, Swept, remoteVars
<1>c. PICK kept \in SUBSET reg : Pruned(kept) /\ reg' = kept \cup {bg.tgt}
  BY DEF RegisterTask
<1>d. /\ bg.tgt \in Tasks /\ mon[bg.tgt] = "none" /\ told[bg.tgt] = "none"
  BY <1>a, <1>b DEF OwnInv, OnceInv, Sweeping, HostBase, LaunchInv
<1>e. ~bg.fatal /\ bg'.fatal = bg.fatal
  BY <1>a, <1>b DEF HostBase, LaunchInv, BgTypes, BgType
<1>f. reg \subseteq Tasks /\ (\A t \in Tasks : task[t].bound \/ task[t].census => mon[t] # "none")
  BY <1>a DEF HostBase, BgTypes, LaunchInv, TaskInv, Published
<1>1. \A t \in reg : mon[t] # "none"
  BY <1>a, <1>b, <1>e, <1>f DEF HostBase, LaunchInv
<1>2. bg.tgt \in Untouched
  BY <1>d, <1>e, <1>1 DEF Untouched
<1>3. Untouched' = Untouched \ {bg.tgt}
  <2>1. \A t \in Tasks : mon[t] = "none" => t \notin reg /\ (t \in reg' <=> t = bg.tgt)
    BY <1>1, <1>c
  <2>2. UNCHANGED <<out, fg, snaps, snOut>>
    BY DEF fgVars, snVars
  <2> QED BY <1>b, <1>d, <1>e, <2>1, <2>2, OwnersDistinct DEF Untouched
<1>4. UNCHANGED Alive
  BY <1>b DEF Alive, Traced
<1>5. UNCHANGED ToldEmpty
  BY <1>b DEF ToldEmpty, fgVars, snVars
<1>6. bg.tgt \in OnTheBooks' /\ OnTheBooks' \subseteq OnTheBooks \cup {bg.tgt}
  BY <1>c DEF OnTheBooks, fgVars, snVars
<1>7. (OnTheBooks \ OnTheBooks') \cap Alive = {}
  <2>1. Alive' \subseteq OnTheBooks'
    BY BooksStayTrue
  <2> QED BY <1>4, <2>1
<1>8. probe = "none"
  <2>1. Busy
    BY <1>b DEF Busy
  <2> QED BY <1>a, <2>1 DEF CoreInv, ServeInv, ReadyInv
<1>9. Ownership!Admit(bg.tgt)
  BY <1>2, <1>3, <1>4, <1>5, <1>6, <1>7, <1>8 DEF Ownership!Admit, Ownership!StrikesOnlyEmpty, Alive, Traced, OnTheBooks
<1> QED BY <1>9, <1>d, OwnersDistinct DEF OwnStep, Ownership!Next

LEMMA OwnBackground ==
    ASSUME OwnInv, CoreInv', FgInv', BackgroundStep
    PROVE  OwnStep
<1>a. UNCHANGED <<fgVars, snVars, lease, probe>> /\ (BackgroundHost \/ CancelBackground)
  BY DEF BackgroundStep, bgRest, restVars
<1>b. HostBase
  BY DEF OwnInv, CoreInv, BgInv
<1>c. FgYields /\ SnYields /\ LeaseYields
  BY <1>a, QuietYields DEF fgVars, snVars
<1>d. ASSUME BgYields, UNCHANGED procs
      PROVE  OwnStep
  <2>1. Ownership!Settle
    BY <1>a, <1>c, <1>d, SettleAllowed
  <2> QED BY <2>1, SettleIsStep
<1>1. CASE RegisterTask
  BY <1>a, <1>1, OwnRegister
<1>2. CASE LaunchDispatch
  <2>1. /\ UNCHANGED <<procs, reg, task, told>> /\ mon' = [mon EXCEPT ![bg.at] = "queued"] /\ ~bg.fatal
    BY <1>b, <1>2, DispatchEffect DEF LaunchDispatch
  <2>2. mon \in [Tasks -> MonSteps]
    BY <1>b DEF HostBase, BgTypes
  <2>3. BgYields
    BY <2>1, <2>2 DEF BgYields
  <2> QED BY <1>d, <2>1, <2>3
<1>3. CASE TerminateTerm \/ TerminateNone \/ TerminateKill
  <2>1. bg.pc \in {"kill", "killAgain"} /\ UNCHANGED <<mon, reg, task, told>> /\ UNCHANGED bg.fatal
    <3>1. /\ bg.pc \in {"kill", "killAgain"} /\ UNCHANGED <<mon, reg, task, told>>
          /\ \E next \in {"killAgain", "noneLeft", "killed"} : Goes(next)
      BY <1>3 DEF TerminateTerm, TerminateNone, TerminateKill
    <3> QED BY <1>b, <3>1 DEF Goes, HostBase, BgTypes, BgType
  <2>2. bg.at \in Owned
    BY <1>b, <2>1, OwnersDistinct DEF HostBase, LaunchInv, AtSteps, Verifying
  <2>3. UNCHANGED procs \/ Touches(bg.at)
    BY <1>b, <1>3, TerminateSeats, LivesTouches
  <2>4. BooksRest
    BY <1>a, <2>1, RestingBooks DEF fgVars, snVars
  <2> QED BY <1>a, <2>2, <2>3, <2>4, TouchAllowed DEF OwnInv
<1>4. CASE Ends
  <2>1. BgYields /\ UNCHANGED procs
    BY <1>b, <1>4, EndsYield, EndsSeat
  <2> QED BY <1>d, <2>1
<1>5. CASE LaunchStep \/ LaunchAck \/ LaunchLost \/ FirstStatus \/ Salvage \/ CancelBackground
  <2>1. TaskEffect /\ UNCHANGED <<procs, mon>>
    BY <1>b, <1>5, LaunchSeats DEF Seated, remoteVars
  <2>2. UNCHANGED <<reg, told>> /\ bg.pc # "idle"
    BY <1>5 DEF LaunchStep, LaunchAck, LaunchLost, FirstStatus, Salvage, CancelBackground
  <2> QED BY <1>b, <1>d, <2>1, <2>2, QuietTasksYield
<1>6. CASE VerifyLiveness \/ VerifyEnded \/ ConfirmStopped \/ ConfirmFailed
  <2>1. TaskEffect /\ UNCHANGED <<procs, mon>>
    BY <1>b, <1>6, VerifySeats DEF Seated
  <2>2. UNCHANGED <<reg, told>> /\ bg.pc # "idle"
    BY <1>6 DEF VerifyLiveness, VerifyEnded, ConfirmStopped, ConfirmFailed
  <2> QED BY <1>b, <1>d, <2>1, <2>2, QuietTasksYield
<1>7. CASE \E t \in Tasks : Visit(t)
  <2>1. TaskEffect
    BY <1>b, <1>7, SweepSeats DEF Seated
  <2>2. UNCHANGED <<procs, mon, reg, told>> /\ bg.pc # "idle"
    BY <1>7 DEF Visit, remoteVars
  <2> QED BY <1>b, <1>d, <2>1, <2>2, QuietTasksYield
<1> QED BY <1>a, <1>1, <1>2, <1>3, <1>4, <1>5, <1>6, <1>7 DEF BackgroundHost, Ends

(***************************************************************************)
(* The steps of the cleanup, of the lease and of the readiness.            *)
(***************************************************************************)
LEMMA PruningYields ==
    ASSUME CoreInv, UNCHANGED <<mon, task, told>>, bg.fatal => bg'.fatal, reg' \subseteq reg, reg \ reg' \subseteq Terminal
    PROVE  BgYields
<1>1. reg \subseteq Tasks /\ \A t \in Tasks : task[t].census => mon[t] # "none"
  BY DEF CoreInv, BgInv, HostBase, BgTypes, TaskInv, Published
<1>2. \A t \in Terminal : task[t].census
  BY DEF Terminal
<1> QED BY <1>1, <1>2 DEF BgYields

LEMMA OwnBegin ==
    ASSUME OwnInv, CoreInv', FgInv', NEW closing \in BOOLEAN, BeginCleanup(closing)
    PROVE  OwnStep
<1>1. /\ reg' = reg \ Terminal /\ UNCHANGED <<procs, fgVars, mon, task, bg, told, snVars, probe>>
      /\ closing => lease.outcome = "none"
      /\ lease' = lease \/ closing
  BY DEF BeginCleanup, remoteVars
<1>2. BgYields
  BY <1>1, PruningYields DEF OwnInv
<1>3. LeaseYields
  BY <1>1 DEF LeaseYields
<1>4. FgYields /\ SnYields
  BY <1>1, QuietYields DEF fgVars, snVars
<1>5. Ownership!Settle
  BY <1>1, <1>2, <1>3, <1>4, SettleAllowed
<1> QED BY <1>5, SettleIsStep

LEMMA OwnSignals ==
    ASSUME OwnInv, CoreInv', FgInv',
           \/ \E o \in Owned : SignalParticipant(o) \/ CensusParticipant(o)
           \/ \E s \in Snapshots : SignalSnapshot(s)
           \/ NextPhase
    PROVE  OwnStep
<1>a. ProcTypes
  BY DEF OwnInv, FgInv
<1>1. /\ UNCHANGED <<active, fg, out, mon, reg, task, bg, told, snaps, snOut, lease, probe>>
      /\ UNCHANGED procs \/ \E o \in Owned : Touches(o)
  <2>1. ASSUME NEW o \in Owned, SignalParticipant(o)
        PROVE  UNCHANGED procs \/ Touches(o)
    <3>1. UNCHANGED procs \/ \E p \in Signals(o) : Put(o, p)
      BY <2>1 DEF SignalParticipant, SignalIdentity
    <3>2. \A p \in Signals(o) : p \in SUBSET Members
      <4>1. procs[o] \in SUBSET Members
        BY <1>a DEF ProcTypes
      <4> QED BY <4>1 DEF Signals, AfterTerm, AfterKill
    <3> QED BY <3>1, <3>2 DEF Put, Touches
  <2>2. ASSUME NEW s \in Snapshots, SignalSnapshot(s)
        PROVE  UNCHANGED procs \/ Touches(s)
    <3>1. UNCHANGED procs \/ \E p \in Signals(s) : Put(s, p)
      BY <2>2 DEF SignalSnapshot
    <3>2. \A p \in Signals(s) : p \in SUBSET Members
      <4>1. procs[s] \in SUBSET Members
        BY <1>a, OwnersDistinct DEF ProcTypes
      <4> QED BY <4>1 DEF Signals, AfterTerm, AfterKill
    <3> QED BY <3>1, <3>2 DEF Put, Touches
  <2>3. CASE \E o \in Owned : SignalParticipant(o)
    BY <2>1, <2>3 DEF SignalParticipant, fgVars, hostVars, snVars
  <2>4. CASE \E s \in Snapshots : SignalSnapshot(s)
    BY <2>2, <2>4, OwnersDistinct DEF SignalSnapshot, fgVars, bgVars, snHost
  <2>5. CASE \E o \in Owned : CensusParticipant(o)
    BY <2>5 DEF CensusParticipant, fgVars, bgVars, snVars
  <2>6. CASE NextPhase
    <3>1. cu.pc \in {"term", "kill"} /\ UNCHANGED <<procs, fgVars, bgVars, snVars, lease, probe>>
      BY <2>6 DEF NextPhase
    <3> QED BY <3>1 DEF fgVars, bgVars, snVars
  <2> QED BY <2>3, <2>4, <2>5, <2>6
<1>2. BooksRest
  BY <1>1, RestingBooks
<1> QED BY <1>1, <1>2, TouchAllowed, RestAllowed DEF OwnInv

LEMMA OwnFinish ==
    ASSUME OwnInv, CoreInv', FgInv', FinishCleanup
    PROVE  OwnStep
<1>a. /\ cu.pc = "census" /\ Closed(IF cu.zero = cu.parts THEN "clean" ELSE "unclean")
      /\ active' = active \ cu.zero /\ reg' = reg \ cu.zero /\ snaps' = snaps \ cu.zero
      /\ task' = [t \in Tasks |-> IF t \in cu.zero THEN [task[t] EXCEPT !.spooled = TRUE] ELSE task[t]]
      /\ UNCHANGED <<procs, fg, out, mon, bg, told, sn, snOut, probe>>
  BY DEF FinishCleanup, remoteVars
<1>b. CoreInv /\ task \in [Tasks -> TaskType] /\ reg \subseteq Tasks /\ snaps \subseteq Snapshots
  BY DEF OwnInv, CoreInv, BgInv, HostBase, BgTypes, SnInv, SnTypes
<1>1. FgYields
  BY <1>a DEF FgYields
<1>2. BgYields
  <2>1. \A t \in Tasks : t \in cu.zero => mon[t] # "none"
    BY <1>b DEF CoreInv, BgInv, HostBase, TaskInv, Published
  <2>2. \A t \in Tasks : task'[t].census = task[t].census
    BY <1>a, <1>b, TaskEdits
  <2> QED BY <1>a, <1>b, <2>1, <2>2 DEF BgYields
<1>3. SnYields
  <2>1. ASSUME NEW s \in Snapshots, s \in cu.zero
        PROVE  snOut[s] # "none"
    <3>1. LeasePublished(s) /\ sn.pc = "idle"
      BY <1>a, <1>b, <2>1 DEF CoreInv, SnInv, SnapInv
    <3>2. sup[s] # "none"
      BY <3>1 DEF LeasePublished
    <3> QED BY <1>b, <3>1, <3>2 DEF CoreInv, SnInv, SnapInv
  <2> QED BY <1>a, <1>b, <2>1 DEF SnYields
<1>4. LeaseYields
  BY <1>a DEF LeaseYields, Closed, OwnInv, OnceInv
<1>5. Ownership!Settle
  BY <1>a, <1>1, <1>2, <1>3, <1>4, SettleAllowed
<1> QED BY <1>5, SettleIsStep

LEMMA OwnExpires ==
    ASSUME OwnInv, CoreInv', FgInv', CleanupExpires
    PROVE  OwnStep
<1>1. Closed("unclean") /\ UNCHANGED <<procs, fgVars, bgVars, snVars, probe>>
  BY DEF CleanupExpires
<1>2. LeaseYields
  BY <1>1 DEF LeaseYields, Closed, OwnInv, OnceInv
<1>3. FgYields /\ BgYields /\ SnYields
  BY <1>1, QuietYields DEF fgVars, bgVars, snVars
<1>4. Ownership!Settle
  BY <1>1, <1>2, <1>3, SettleAllowed
<1> QED BY <1>4, SettleIsStep

LEMMA OwnSeal ==
    ASSUME OwnInv, CoreInv', FgInv', SealLease
    PROVE  OwnStep
<1>a. bg.pc = "sweep" /\ bg' = BgResting /\ UNCHANGED <<procs, fgVars, mon, task, told, snVars, probe>>
  BY DEF SealLease, Swept, remoteVars
<1>b. ~bg.fatal /\ lease.outcome = "none"
  BY <1>a DEF OwnInv, CoreInv, BgInv, HostBase, LaunchInv, CleanupInv, RestTypes, LeaseType
<1>1. reg' \subseteq reg /\ \A t \in reg \ reg' : mon[t] # "none"
  <2>1. CASE UNCHANGED reg
    BY <2>1
  <2>2. CASE \E kept \in SUBSET reg : Pruned(kept) /\ reg' = kept
    <3>1. \A t \in reg \ reg' : task[t].census
      BY <2>2, PrunedKeeps DEF OwnInv, CoreInv, BgInv
    <3> QED BY <2>2, <3>1 DEF OwnInv, CoreInv, BgInv, HostBase, BgTypes, TaskInv, Published
  <2> QED BY <2>1, <2>2 DEF SealLease
<1>2. BgYields
  BY <1>a, <1>b, <1>1 DEF BgYields
<1>3. LeaseYields
  BY <1>b DEF LeaseYields
<1>4. FgYields /\ SnYields
  BY <1>a, QuietYields DEF fgVars, snVars
<1>5. Ownership!Settle
  BY <1>a, <1>2, <1>3, <1>4, SettleAllowed
<1> QED BY <1>5, SettleIsStep

LEMMA OwnAskReady ==
    ASSUME OwnInv, CoreInv', FgInv', AskReady
    PROVE  OwnStep
<1>1. /\ probe = "none" /\ probe' = "asked" /\ reg' = reg \ Terminal
      /\ UNCHANGED <<procs, fgVars, mon, task, bg, told, snVars, lease>>
  BY DEF AskReady, remoteVars
<1>2. BgYields
  BY <1>1, PruningYields DEF OwnInv
<1>3. FgYields /\ SnYields /\ LeaseYields
  BY <1>1, QuietYields DEF fgVars, snVars
<1>4. Ownership!Settle
  BY <1>1, <1>2, <1>3, SettleAllowed
<1> QED BY <1>4, SettleIsStep

LEMMA OwnClaimReady ==
    ASSUME OwnInv, ClaimReady
    PROVE  OwnStep
<1>1. probe = "asked" /\ probe' = "ready" /\ Participants = {} /\ UNCHANGED <<procs, fgVars, bgVars, snVars, lease>>
  BY DEF ClaimReady
<1>2. active = {} /\ snaps = {} /\ \A t \in reg : t \in Tasks /\ task[t].census
  BY <1>1 DEF Participants, Terminal, OwnInv, CoreInv, BgInv, HostBase, BgTypes
<1>3. OnTheBooks \subseteq ToldEmpty
  BY <1>2 DEF OnTheBooks, ToldEmpty
<1>4. BooksRest
  BY <1>1, RestingBooks DEF fgVars, bgVars, snVars
<1>5. Ownership!Claim
  BY <1>1, <1>3, <1>4 DEF Ownership!Claim, Ownership!books, BooksRest, OnTheBooks, Traced
<1> QED BY <1>5 DEF OwnStep, Ownership!Next

(***************************************************************************)
(* OnceInv is inductive.                                                   *)
(***************************************************************************)
(* only the start under way goes on sweeping, and nobody is told of it     *)
LEMMA SweepGoesOn ==
    ASSUME HostBase, BackgroundHost \/ CancelBackground
    PROVE  Sweeping' => Sweeping /\ UNCHANGED <<bg.tgt, told>>
<1>a. BgTypes /\ bg \in BgType
  BY DEF HostBase, BgTypes
<1>b. ASSUME Rests(TRUE) \/ Rests(FALSE)
      PROVE  ~Sweeping'
  BY <1>b DEF Rests, Sweeping
<1>c. ASSUME NEW next \in BgSteps, Goes(next), next # "sweep", next \in Verifying => bg.pc \in Verifying \/ bg.todo = {},
             UNCHANGED told
      PROVE  Sweeping' => Sweeping /\ UNCHANGED <<bg.tgt, told>>
  BY <1>a, <1>c, GoesEffect DEF SameRequest, Sweeping
<1>d. ASSUME bg' = Resume, bg.pc \in Verifying, UNCHANGED told
      PROVE  Sweeping' => Sweeping /\ UNCHANGED <<bg.tgt, told>>
  BY <1>a, <1>d, ResumeEffect DEF Sweeping, Verifying
<1>1. CASE \E t \in Tasks : Visit(t)
  <2>1. PICK t \in Tasks : Visit(t)
    BY <1>1
  <2>2. bg.pc = "sweep" /\ UNCHANGED told
    BY <2>1 DEF Visit
  <2>3. /\ bg'.op = bg.op /\ bg'.tgt = bg.tgt
    BY <1>a, <2>1 DEF Visit, BgType
  <2> QED BY <2>2, <2>3 DEF Sweeping
<1>2. CASE VerifyLiveness \/ VerifyEnded \/ ConfirmStopped \/ ConfirmFailed
  <2>1. bg.pc \in Verifying /\ UNCHANGED told
    BY <1>2 DEF VerifyLiveness, VerifyEnded, ConfirmStopped, ConfirmFailed, Verifying
  <2>2. bg' = Resume \/ Goes("confirm") \/ Goes("kill")
    BY <1>2 DEF VerifyLiveness, VerifyEnded, ConfirmStopped, ConfirmFailed
  <2>3. "confirm" \in BgSteps /\ "kill" \in BgSteps
    BY DEF BgSteps, AtSteps, Verifying
  <2> QED BY <1>c, <1>d, <2>1, <2>2, <2>3
<1>3. CASE TerminateTerm \/ TerminateNone \/ TerminateKill
  <2>1. bg.pc \in Verifying /\ UNCHANGED told
    BY <1>3 DEF TerminateTerm, TerminateNone, TerminateKill, Verifying
  <2>2. Goes("killAgain") \/ Goes("noneLeft") \/ Goes("killed")
    BY <1>3 DEF TerminateTerm, TerminateNone, TerminateKill
  <2>3. "killAgain" \in BgSteps /\ "noneLeft" \in BgSteps /\ "killed" \in BgSteps
    BY DEF BgSteps, AtSteps, Verifying
  <2> QED BY <1>c, <2>1, <2>2, <2>3
<1>4. CASE Terminated
  <2>1. bg.pc \in Verifying /\ UNCHANGED told
    BY <1>4 DEF Terminated, Verifying
  <2>2. Rests(TRUE) \/ Rests(FALSE) \/ bg' = Resume
    BY <1>4, FatalEffect, RestEffect DEF Terminated
  <2> QED BY <1>b, <1>d, <2>1, <2>2
<1>5. CASE NotTerminated \/ RefuseStart \/ LaunchRefused \/ HandOff \/ SalvageEnded \/ SalvageUnknown \/ OutputDone
  <2>1. Rests(TRUE) \/ Rests(FALSE)
    BY <1>5, FatalEffect, RestEffect DEF NotTerminated, RefuseStart, LaunchRefused, HandOff, SalvageEnded, SalvageUnknown,
       OutputDone, Answer
  <2> QED BY <1>b, <2>1
<1>6. CASE Decide
  <2>1. CASE bg' = BgResting
    BY <1>b, <2>1, RestEffect
  <2>2. CASE bg' = [bg EXCEPT !.pc = "kill", !.op = "stop"]
    <3>1. bg'.op = "stop"
      BY <1>a, <2>2 DEF BgType
    <3> QED BY <3>1 DEF Sweeping
  <2> QED BY <1>6, <2>1, <2>2 DEF Decide
<1>7. CASE RegisterTask
  <2>1. bg'.pc = "setup"
    BY <1>a, <1>7 DEF RegisterTask, BgType
  <2> QED BY <2>1 DEF Sweeping, Verifying
<1>8. CASE LaunchStep \/ LaunchDispatch \/ LaunchAck \/ LaunchLost
  <2>1. \E next \in {"upload", "dispatch", "await", "first", "salvage"} : Goes(next)
    BY <1>8 DEF LaunchStep, LaunchDispatch, LaunchAck, LaunchLost
  <2>2. bg'.pc \in {"upload", "dispatch", "await", "first", "salvage"}
    BY <1>a, <2>1 DEF Goes, BgType
  <2> QED BY <2>2 DEF Sweeping, Verifying
<1>9. CASE FirstStatus
  <2>1. bg.pc = "first" /\ UNCHANGED told /\ (Goes("verify") \/ Goes("settle"))
    BY <1>9 DEF FirstStatus
  <2>2. bg.todo = {}
    BY <2>1 DEF HostBase, LaunchInv
  <2>3. "verify" \in BgSteps /\ "settle" \in BgSteps
    BY DEF BgSteps, AtSteps, Verifying
  <2> QED BY <1>c, <2>1, <2>2, <2>3
<1>10. CASE Salvage
  <2>1. bg'.op = "salvage"
    BY <1>a, <1>10 DEF Salvage, BgType
  <2> QED BY <2>1 DEF Sweeping
<1>11. CASE CancelBackground
  <2>1. bg' = [bg EXCEPT !.pc = "salvage"] \/ bg' = [bg EXCEPT !.pc = "kill", !.op = "salvage"]
        \/ bg' = [BgResting EXCEPT !.fatal = TRUE]
    BY <1>11 DEF CancelBackground
  <2>2. CASE bg' = [bg EXCEPT !.pc = "salvage"]
    <3>1. bg'.pc = "salvage"
      BY <1>a, <2>2 DEF BgType
    <3> QED BY <3>1 DEF Sweeping, Verifying
  <2>3. CASE bg' = [bg EXCEPT !.pc = "kill", !.op = "salvage"]
    <3>1. bg'.op = "salvage"
      BY <1>a, <2>3 DEF BgType
    <3> QED BY <3>1 DEF Sweeping
  <2>4. CASE bg' = [BgResting EXCEPT !.fatal = TRUE]
    BY <1>b, <2>4, FatalEffect DEF Fatal
  <2> QED BY <2>1, <2>2, <2>3, <2>4
<1> QED BY <1>1, <1>2, <1>3, <1>4, <1>5, <1>6, <1>7, <1>8, <1>9, <1>10, <1>11, Zenon DEF BackgroundHost

LEMMA OnceKeeps ==
    ASSUME CoreInv, OnceInv, [Next]_vars
    PROVE  OnceInv'
<1>a. HostBase /\ bg \in BgType /\ cu \in CuType /\ RestTypes
  BY DEF CoreInv, BgInv, HostBase, BgTypes, RestTypes
<1>b. ASSUME UNCHANGED <<bg, told, cu, lease>>
      PROVE  OnceInv'
  BY <1>b DEF OnceInv, Sweeping
<1>1. CASE UNCHANGED vars
  BY <1>1, <1>b DEF vars, bgVars
<1>2. CASE \/ \E c \in Commands, signed \in BOOLEAN : ExecuteCommand(c, signed)
           \/ ForegroundStep
           \/ \E c \in Commands : RemoteRun(c)
           \/ \E s \in Snapshots : ExecSnapshot(s) \/ RemoteSnapshot(s)
           \/ SnapshotStep
           \/ \E t \in Tasks : RemoteMonitor(t)
           \/ AskReady \/ ClaimReady
  BY <1>2, <1>b DEF ExecuteCommand, ForegroundStep, RemoteRun, ExecSnapshot, RemoteSnapshot, SnapshotStep, RemoteMonitor,
     AskReady, ClaimReady, fgRest, bgRest, snRest, restVars, bgVars, hostVars
<1>3. CASE \/ \E t \in Tasks : ExecuteStart(t) \/ ExecuteKill(t)
           \/ \E todo \in SUBSET Tasks : ExecuteOutput(todo)
           \/ RequestManifest
  <2>1. /\ UNCHANGED <<told, cu, lease>>
        /\ \E op \in {"start", "output", "kill", "manifest"}, tgt \in Tasks \cup {"none"} :
             /\ bg'.op = op /\ bg'.tgt = tgt
             /\ op = "start" => told[tgt] = "none"
    <3>1. ASSUME NEW op \in {"start", "output", "kill", "manifest"}, NEW tgt \in Tasks \cup {"none"}, NEW todo, Begin(op, tgt, todo)
          PROVE  bg'.op = op /\ bg'.tgt = tgt /\ UNCHANGED told
      BY <3>1 DEF Begin, BgResting
    <3>2. CASE \E t \in Tasks : ExecuteStart(t)
      <4>1. PICK t \in Tasks : StartBackground(t) /\ UNCHANGED bgRest
        BY <3>2 DEF ExecuteStart
      <4>2. told[t] = "none" /\ Begin("start", t, reg) /\ UNCHANGED <<cu, lease>>
        BY <4>1 DEF StartBackground, bgRest, restVars
      <4>3. bg'.op = "start" /\ bg'.tgt = t /\ UNCHANGED told
        BY <3>1, <4>2
      <4> QED BY <4>2, <4>3
    <3>3. CASE \E t \in Tasks : ExecuteKill(t)
      <4>1. PICK t \in Tasks : KillCommand(t) /\ UNCHANGED bgRest
        BY <3>3 DEF ExecuteKill
      <4>2. Begin("kill", t, {t}) /\ UNCHANGED <<cu, lease>>
        BY <4>1 DEF KillCommand, bgRest, restVars
      <4>3. bg'.op = "kill" /\ bg'.tgt = t /\ UNCHANGED told
        BY <3>1, <4>2
      <4> QED BY <4>2, <4>3
    <3>4. CASE \E todo \in SUBSET Tasks : ExecuteOutput(todo)
      <4>1. PICK todo \in SUBSET Tasks : TerminalOutput(todo) /\ UNCHANGED bgRest
        BY <3>4 DEF ExecuteOutput
      <4>2. Begin("output", "none", todo) /\ UNCHANGED <<cu, lease>>
        BY <4>1 DEF TerminalOutput, bgRest, restVars
      <4>3. bg'.op = "output" /\ bg'.tgt = "none" /\ UNCHANGED told
        BY <3>1, <4>2
      <4> QED BY <4>2, <4>3
    <3>5. CASE RequestManifest
      <4>1. Begin("manifest", "none", reg) /\ UNCHANGED <<cu, lease>>
        BY <3>5 DEF RequestManifest, BackgroundManifest, bgRest, restVars
      <4>2. bg'.op = "manifest" /\ bg'.tgt = "none" /\ UNCHANGED told
        BY <3>1, <4>1
      <4> QED BY <4>1, <4>2
    <3> QED BY <1>3, <3>2, <3>3, <3>4, <3>5
  <2> QED BY <2>1 DEF OnceInv, Sweeping
<1>4. CASE BackgroundStep
  <2>1. (BackgroundHost \/ CancelBackground) /\ UNCHANGED <<cu, lease>>
    BY <1>4 DEF BackgroundStep, bgRest, restVars
  <2>2. Sweeping' => Sweeping /\ UNCHANGED <<bg.tgt, told>>
    BY <1>a, <2>1, SweepGoesOn
  <2> QED BY <2>1, <2>2 DEF OnceInv
<1>5. CASE \E closing \in BOOLEAN : BeginCleanup(closing)
  <2>1. PICK closing \in BOOLEAN : BeginCleanup(closing)
    BY <1>5
  <2>2. UNCHANGED <<bg, told>> /\ (closing => lease.outcome = "none")
    BY <2>1 DEF BeginCleanup
  <2>3. CASE Participants = {}
    <3>1. cu' = [CuResting EXCEPT !.answer = "clean"]
      BY <2>1, <2>3 DEF BeginCleanup
    <3>2. ~cu'.closing
      BY <3>1 DEF CuResting
    <3> QED BY <2>2, <3>2 DEF OnceInv, Sweeping
  <2>4. CASE Participants # {}
    <3>1. /\ UNCHANGED lease
          /\ cu' = [CuResting EXCEPT !.pc = "term", !.parts = Participants, !.left = Participants, !.closing = closing,
                                       !.answer = cu.answer]
      BY <2>1, <2>4 DEF BeginCleanup
    <3>2. cu'.closing = closing
      BY <3>1 DEF CuResting
    <3> QED BY <2>2, <3>1, <3>2 DEF OnceInv, Sweeping
  <2> QED BY <2>3, <2>4
<1>6. CASE Cleanup
  <2>1. ASSUME NEW answer \in {"clean", "unclean"}, Closed(answer), UNCHANGED <<bg, told>>
        PROVE  OnceInv'
    <3>1. ~cu'.closing
      BY <1>a, <2>1, ClosedEffect
    <3> QED BY <2>1, <3>1 DEF OnceInv, Sweeping
  <2>2. CASE FinishCleanup
    <3>1. UNCHANGED <<bg, told>> /\ \E answer \in {"clean", "unclean"} : Closed(answer)
      BY <2>2 DEF FinishCleanup
    <3> QED BY <2>1, <3>1
  <2>3. CASE CleanupExpires
    <3>1. UNCHANGED <<bg, told>> /\ Closed("unclean")
      BY <2>3 DEF CleanupExpires, bgVars
    <3> QED BY <2>1, <3>1
  <2>4. CASE \/ \E o \in Owned : SignalParticipant(o) \/ CensusParticipant(o)
             \/ \E s \in Snapshots : SignalSnapshot(s)
             \/ NextPhase
    <3>1. UNCHANGED <<bg, told, lease>> /\ cu'.closing = cu.closing
      <4>1. CASE \E o \in Owned : SignalParticipant(o)
        BY <1>a, <4>1 DEF SignalParticipant, hostVars, CuType
      <4>2. CASE \E o \in Owned : CensusParticipant(o)
        BY <1>a, <4>2 DEF CensusParticipant, bgVars, CuType
      <4>3. CASE \E s \in Snapshots : SignalSnapshot(s)
        BY <1>a, <4>3 DEF SignalSnapshot, bgVars, CuType
      <4>4. CASE NextPhase
        BY <1>a, <4>4 DEF NextPhase, bgVars, CuType
      <4> QED BY <2>4, <4>1, <4>2, <4>3, <4>4
    <3> QED BY <3>1 DEF OnceInv, Sweeping
  <2> QED BY <1>6, <2>2, <2>3, <2>4 DEF Cleanup
<1>7. CASE SealLease
  <2>1. bg' = BgResting /\ UNCHANGED cu /\ (lease' = lease \/ lease' = [lease EXCEPT !.sealed = TRUE, !.tasks = Live])
    BY <1>7 DEF SealLease
  <2>2. lease'.outcome = lease.outcome
    BY <1>a, <2>1 DEF RestTypes, LeaseType
  <2>3. ~Sweeping'
    BY <2>1, BgRests DEF Sweeping
  <2> QED BY <2>1, <2>2, <2>3 DEF OnceInv
<1> QED BY <1>1, <1>2, <1>3, <1>4, <1>5, <1>6, <1>7, Zenon DEF Next

LEMMA OnceInit == Init => OnceInv
BY BgRests DEF Init, InitBackground, CuResting, OnceInv, Sweeping

LEMMA OwnInit == Init => Ownership!Init
<1> SUFFICES ASSUME Init
             PROVE  Ownership!Init
  OBVIOUS
<1>1. /\ procs = [o \in Owned |-> {}] /\ active = {} /\ reg = {} /\ snaps = {}
      /\ fg = Resting /\ out = [c \in Commands |-> NoOutcome]
      /\ mon = [t \in Tasks |-> "none"] /\ told = [t \in Tasks |-> "none"] /\ bg = BgResting
      /\ task = [t \in Tasks |-> NewTask] /\ snOut = [s \in Snapshots |-> "none"]
      /\ lease = [sealed |-> FALSE, tasks |-> {}, outcome |-> "none"] /\ probe = "none"
  BY DEF Init, InitForeground, InitBackground, InitSnapshots
<1>2. Untouched = Owned
  BY <1>1, BgRests, RestingType DEF Untouched, Owned
<1>3. ToldEmpty = {}
  BY <1>1, RestingType DEF ToldEmpty, NewTask
<1> QED BY <1>1, <1>2, <1>3 DEF Ownership!Init, Traced, TokensOf

LEMMA OwnNext ==
    ASSUME ~DelayedRun, OwnInv, CoreInv', FgInv', [Next]_vars
    PROVE  OwnStep
<1>1. CASE UNCHANGED vars
  <2>1. UNCHANGED <<procs, active, fg, out, mon, reg, task, bg, told, snaps, snOut, lease, probe>>
    BY <1>1 DEF vars, fgVars, bgVars, snVars
  <2> QED BY <2>1, RestingBooks, RestAllowed
<1>2. CASE \E c \in Commands, signed \in BOOLEAN : ExecuteCommand(c, signed)
  BY <1>2, OwnCommand
<1>3. CASE \/ \E t \in Tasks : ExecuteStart(t) \/ ExecuteKill(t)
           \/ \E todo \in SUBSET Tasks : ExecuteOutput(todo)
           \/ RequestManifest
  BY <1>3, OwnRequest
<1>4. CASE \E s \in Snapshots : ExecSnapshot(s) \/ RemoteSnapshot(s)
  BY <1>4, OwnSnapshotBegins, OwnSupervisor
<1>5. CASE ForegroundStep \/ SnapshotStep
  BY <1>5, OwnForeground, OwnSnapshot
<1>6. CASE BackgroundStep \/ SealLease
  BY <1>6, OwnBackground, OwnSeal
<1>7. CASE \E c \in Commands : RemoteRun(c)
  BY <1>7, OwnRun
<1>8. CASE \E t \in Tasks : RemoteMonitor(t)
  BY <1>8, OwnMonitor
<1>9. CASE \E closing \in BOOLEAN : BeginCleanup(closing)
  BY <1>9, OwnBegin
<1>10. CASE Cleanup
  BY <1>10, OwnSignals, OwnFinish, OwnExpires DEF Cleanup
<1>11. CASE AskReady \/ ClaimReady
  BY <1>11, OwnAskReady, OwnClaimReady
<1> QED BY <1>1, <1>2, <1>3, <1>4, <1>5, <1>6, <1>7, <1>8, <1>9, <1>10, <1>11, Zenon DEF Next

(***************************************************************************)
(* The theorems.                                                           *)
(***************************************************************************)
(* What the actor keeps of its tasks, its snapshots, its cleanup and its   *)
(* readiness, in every state and under every delay of the transport.       *)
THEOREM CoreHolds == Spec => []CoreInv
<1>1. Init => CoreInv
  BY InitHolds
<1>2. CoreInv /\ [Next]_vars => CoreInv'
  BY CoreKeeps
<1> QED BY <1>1, <1>2, PTL DEF Spec

(* What the actor keeps of its foreground commands as well, when a run     *)
(* call whose reply was lost has either published its pgid or never        *)
(* starts.  Without that the guarantee is false: TerminalActorDelayed.cfg  *)
(* shows the command that starts after its containment.                    *)
THEOREM ForegroundHolds ==
    ASSUME ~DelayedRun
    PROVE  Spec => [](CoreInv /\ FgInv)
<1>1. Init => CoreInv /\ FgInv
  BY InitHolds
<1>2. (CoreInv /\ FgInv) /\ [Next]_vars => (CoreInv /\ FgInv)'
  <2> SUFFICES ASSUME CoreInv, FgInv, [Next]_vars
               PROVE  CoreInv' /\ FgInv'
    OBVIOUS
  <2>1. CoreInv'
    BY CoreKeeps
  <2> QED BY <2>1, ForegroundKeeps
<1> QED BY <1>1, <1>2, PTL DEF Spec

(* Neither a kill nor a sweep nor a cleanup signals a process that took    *)
(* over the pid of a leader that has ended.                                *)
THEOREM StrangersAreSpared == Spec => []StrangersSpared
<1>1. CoreInv => StrangersSpared
  BY DEF CoreInv, BgInv, StrangerInv, StrangersSpared
<1> QED BY <1>1, CoreHolds, PTL

(* At most max_background_processes tasks have a live process with their   *)
(* token, whatever launch was lost, salvaged or given up: no such process  *)
(* is without a register entry, and an entry whose census is not verified  *)
(* counts.  A child that lost the token may outlive its task and is not    *)
(* counted, neither by the host nor here.                                  *)
THEOREM BackgroundIsBounded == Spec => []BackgroundBounded
<1>1. CoreInv => BackgroundBounded
  <2> SUFFICES ASSUME CoreInv
               PROVE  BackgroundBounded
    OBVIOUS
  <2> DEFINE Inhabited == {t \in Tasks : Traced(t) # {}}
             Held == {t \in reg : ~task[t].census}
  <2>1. Inhabited \subseteq Held
    BY DEF CoreInv, BgInv, HostBase, TaskInv, Traced
  <2>2. Held \subseteq Tasks
    BY DEF CoreInv, BgInv, HostBase, BgTypes
  <2>3. IsFiniteSet(Held)
    BY <2>2, TasksAssumption, FS_Subset
  <2>4. IsFiniteSet(Inhabited) /\ Cardinality(Inhabited) <= Cardinality(Held)
    BY <2>1, <2>3, FS_Subset
  <2>5. Cardinality(Inhabited) \in Nat /\ Cardinality(Held) \in Nat
    BY <2>3, <2>4, FS_CardinalityType
  <2>6. Cardinality(Held) <= MaxBackground
    BY DEF CoreInv, BgInv, BoundInv
  <2>7. Cardinality(Inhabited) <= MaxBackground
    BY <2>4, <2>5, <2>6, TasksAssumption
  <2> QED BY <2>7 DEF BackgroundBounded
<1> QED BY <1>1, CoreHolds, PTL

(* The reservation never exceeds the spool budget of the run and covers    *)
(* every acknowledged task that has not given it back: no finalization is  *)
(* missed, none is done twice and a cleanup gives back what it strikes off.*)
THEOREM SpoolStaysAccounted == Spec => []SpoolAccounted
<1>1. Init => CoreInv /\ SpoolInv
  BY InitHolds, SpoolInit
<1>2. (CoreInv /\ SpoolInv) /\ [Next]_vars => (CoreInv /\ SpoolInv)'
  BY CoreKeeps, SpoolKeeps
<1>3. CoreInv /\ SpoolInv => SpoolAccounted
  BY DEF SpoolInv, Counted, Ledger, Reserved, SpoolAccounted
<1> QED BY <1>1, <1>2, <1>3, PTL DEF Spec

(* A live process of a command or a snapshot, and a live process with the  *)
(* token of a task, belongs to one the actor still holds, in every state,  *)
(* if no run call starts after its reply was lost.  Of a task's child that *)
(* lost the token this is false (EveryProcessOwned).                       *)
THEOREM ProcessesStayOwned ==
    ASSUME ~DelayedRun
    PROVE  Spec => []OwnedUntilGone
<1>1. CoreInv /\ FgInv => OwnedUntilGone
  BY AliveIsHeld DEF Alive, Traced, OnTheBooks, OwnedUntilGone
<1> QED BY <1>1, ForegroundHolds, PTL

(* A census a caller was told of stays true: no process comes back to a    *)
(* command or a snapshot reported empty, and none with the token to a task *)
(* reported ended or to one of a lease closed clean, later in the session. *)
THEOREM CensusesAreTrue ==
    ASSUME ~DelayedRun
    PROVE  Spec => []CensusIsTrue
<1>1. CoreInv /\ FgInv => CensusIsTrue
  <2> SUFFICES ASSUME CoreInv, FgInv
               PROVE  CensusIsTrue
    OBVIOUS
  <2>1. \A c \in Commands : out[c].census = "yes" => procs[c] = {}
    BY DEF FgInv, CommandInv
  <2>2. \A t \in reg : task[t].census => Traced(t) = {}
    BY DEF CoreInv, BgInv, HostBase, BgTypes, TaskInv, Traced
  <2>3. \A s \in Snapshots : snOut[s] \in {"result", "failed"} => procs[s] = {}
    BY DEF CoreInv, SnInv, SnapInv, Settled
  <2>4. lease.outcome = "clean" => \A t \in lease.tasks : Traced(t) = {}
    BY DEF CoreInv, CleanupInv, RestTypes, LeaseType, Traced
  <2> QED BY <2>1, <2>2, <2>3, <2>4 DEF CensusIsTrue
<1> QED BY <1>1, ForegroundHolds, PTL

(* When workspace_readiness_v1 answers ready there is no process of any    *)
(* command or snapshot of the session and none with the token of a task,   *)
(* which is what the answer looked for.                                    *)
THEOREM ReadinessIsTrue ==
    ASSUME ~DelayedRun
    PROVE  Spec => []ReadyMeansNone
<1>1. CoreInv /\ FgInv => ReadyMeansNone
  <2> SUFFICES ASSUME CoreInv, FgInv, probe = "ready", NEW o \in Owned
               PROVE  Traced(o) = {}
    BY DEF ReadyMeansNone
  <2>1. active = {} /\ reg \subseteq Terminal /\ snaps = {}
    BY DEF CoreInv, ReadyInv
  <2>2. CASE o \in Commands
    BY <2>1, <2>2, OwnersDistinct DEF FgInv, CommandInv, Traced
  <2>3. CASE o \in Tasks
    BY <2>1, <2>3 DEF CoreInv, BgInv, HostBase, TaskInv, Terminal, Traced
  <2>4. CASE o \in Snapshots
    BY <2>1, <2>4, OwnersDistinct DEF CoreInv, SnInv, SnapInv, Settled, Traced
  <2> QED BY <2>2, <2>3, <2>4 DEF Owned
<1> QED BY <1>1, ForegroundHolds, PTL

(* The terminal actor implements ProcessOwnership, as long as a run whose  *)
(* reply was lost does not start later: every request is admitted once, an *)
(* owner leaves _active, _background or _active_snapshots only when no     *)
(* process of it can be traced, and nothing that was refused, given up or  *)
(* reported empty has a traced process again.                              *)
THEOREM ActorOwnsProcesses ==
    ASSUME ~DelayedRun
    PROVE  Spec => OwnsProcesses
<1>1. Init => Ownership!Init /\ OnceInv
  BY OwnInit, OnceInit
<1>2. CoreInv /\ FgInv /\ OnceInv /\ [Next]_vars => OnceInv'
  BY OnceKeeps
<1>3. OwnInv /\ (CoreInv /\ FgInv)' /\ [Next]_vars => [Ownership!Next]_(Ownership!vars)
  BY OwnNext DEF OwnStep
<1>4. Spec => [](CoreInv /\ FgInv)
  BY ForegroundHolds
<1> QED BY <1>1, <1>2, <1>3, <1>4, PTL DEF Spec, OwnsProcesses, OwnInv, Ownership!Spec

(* the theorems about ProcessOwnership, for the books of the actor          *)
Promise == INSTANCE ProcessOwnershipProofs WITH
    Owners <- Owned,
    fresh <- Untouched,
    held <- active \cup reg \cup snaps,
    live <- {o \in Owned : Traced(o) # {}},
    vouched <- ToldEmpty,
    ready <- probe = "ready"

(* What ProcessOwnership promises holds of the actor: a request that was   *)
(* refused, or struck off after a cleanup, a verified census or a failed   *)
(* launch, is never admitted again and no process that could be traced to  *)
(* it starts, and a report that it has none is never taken back.           *)
THEOREM ActorGivesUpForGood ==
    ASSUME ~DelayedRun
    PROVE  Spec => Ownership!GivenUpForGood /\ Ownership!ReportsStand
<1>1. Spec => OwnsProcesses
  BY ActorOwnsProcesses
<1>2. OwnsProcesses => Ownership!GivenUpForGood
  BY Promise!OwnersAreGivenUpForGood, PTL
     DEF OwnsProcesses, Ownership!Spec, Ownership!Init, Ownership!Next, Ownership!vars, Ownership!books, Ownership!Admit,
         Ownership!Run, Ownership!End, Ownership!Settle, Ownership!Claim, Ownership!StrikesOnlyEmpty,
         Promise!Spec, Promise!Init, Promise!Next, Promise!vars, Promise!books, Promise!Admit,
         Promise!Run, Promise!End, Promise!Settle, Promise!Claim, Promise!StrikesOnlyEmpty,
         Promise!GivenUpForGood, Promise!GivenUp, Ownership!GivenUpForGood, Ownership!GivenUp
<1>3. OwnsProcesses => Ownership!ReportsStand
  BY Promise!ReportsOfEmptinessStand, PTL
     DEF OwnsProcesses, Ownership!Spec, Ownership!Init, Ownership!Next, Ownership!vars, Ownership!books, Ownership!Admit,
         Ownership!Run, Ownership!End, Ownership!Settle, Ownership!Claim, Ownership!StrikesOnlyEmpty,
         Promise!Spec, Promise!Init, Promise!Next, Promise!vars, Promise!books, Promise!Admit,
         Promise!Run, Promise!End, Promise!Settle, Promise!Claim, Promise!StrikesOnlyEmpty, Promise!ReportsStand, Ownership!ReportsStand
<1> QED BY <1>1, <1>2, <1>3, PTL
=============================================================================
