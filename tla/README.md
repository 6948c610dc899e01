# TLA+ models of surf-harness

surf-harness runs coding tasks of a benchmark. A Rust runtime (`crates/`) talks
to a model provider and records every step in a journal; a Python adapter
(`src/nano_grok_build/adapter`) executes the runtime's tool calls in the task
container, owns the processes they start, photographs the workspace before and
after, and turns the settled journal into published artifacts; the harbor layer
(`src/nano_grok_build/harbor`) launches such runs as trials of a job, lets a
verifier score them and collects the results. This directory holds the models of
that system, the TLC configurations that check them and the proofs TLAPS checks.

    tlc -workers 2 -config HarborTrial.cfg HarborTrial     # one run
    tlapm EventWriterProofs.tla                            # one proof module

`PROJECT.json` lists the runs, the source lines each definition stands for, the
hazards, the mutants and the theorems.

## The system: components, state, interaction

| component | state it keeps | operations | talks to |
|---|---|---|---|
| event journal (`event_writer.rs`) | sequence number, byte count, hasher, terminal and poisoned flags, files `events.jsonl`, `.run.json.tmp`, `run.json` | create, append (operational, receipt, terminal), commit the run record | agent loop; file system; readers of the directory |
| agent loop (`agent_loop.rs`) | provider phase, turn and call counters, history, staged receipts, outcome | one provider turn, one tool batch, checkpoint, review, finalization | provider client, tool executor, journal, finish controller |
| finish controller (`finish_controller.rs`) | action-open / soft-finish / final-only, the notice, the one soft batch | observe, admit a batch, settle it, close | agent loop |
| completion review (`completion_review.rs`, `CompletionChallengeState`) | review phase, the kept answer, whether the workspace was mutated | issue, admit a stage, commit it, fall back | agent loop |
| artifact reader (`artifactizer.py`, `atif.py`) | sets of in-flight turns and calls while it reads | validate event relations, project, publish | the settled directory, the control plane |
| tool executor and stdio bridge (`external_stdio.rs`, `stdio_bridge.py`) | sequence number, poisoned / fatal flags, the running handler task, the child process | request, execute, settle by stages, clean up | agent loop on one side, terminal actor on the other, over two pipes |
| deadlines (`deadline.rs`, `deadline.py`) | none: they derive the signed cutoffs | mint, derive, validate | everyone who compares against a cutoff |
| terminal actor (`terminal_actor.py`) | foreground commands, background tasks and snapshot scans it owns, spool reservation, process lease; in the container a directory of control files per request | start, wait, output, kill, salvage, cleanup, census, seal and close the lease | bridge, harbor agent, workspace snapshot; a script in the container, over a transport that may lose calls |
| workspace snapshot (`workspace_snapshot.py`) | the before state, staging directories, the receipt | capture before, capture after, retry once, classify failures | terminal actor, harbor agent |
| control plane (`control_plane.py`) | a private root, staged files, public links | create, open, publish with the marker last | artifact reader, harbor agent |
| harbor agent (`harbor.py`, `runtime_entry.py`) | started / not-started fact, manifests, receipts, the handoff's result | set up, run, hand off, capture, observe, decide, clean up, populate | all of the above; Harbor's trial |
| git history isolation (`git_history_isolation.py`) | `.git` and the directories it is moved to | isolate, with a trap that undoes it | harbor agent's setup |
| campaign runner (`tb21.py`, `compat_v020.py`) | files of a job directory: dispatch, cohort, interruption receipt, rows, summary | bind, run, terminalize an interruption, collect | Harbor's job; an operator |
| provider client (`nano-provider-xai`) | attempt number, SSE parser state | send, retry once, assemble a response | agent loop; network |
| protected target, prelaunch, scripts, contracts, command line | receipts and schemas | measure, compare, refuse | launch sequence |

What is hard here: cutoffs that several processes derive apart and compare
against at different instants; cancellation, timers and answers that become
ready together; a journal that must be acceptable to a strict reader whichever
step of the run failed; processes in a container that outlive the call that
started them, behind a transport that may lose the call, the answer or both;
receipts that claim something about such processes; files that appear one by one
while processes crash; and a score that is derived twice from evidence that may
be incomplete.

What makes each part correct:

- journal: `run.json` is last, unique, and binds exactly what is on disk; the
  terminal event always has room; a used directory is never written to;
- loop: every run ends; every settled journal passes the reader; soft finish
  admits one batch; an answer is delivered as a fallback only if nothing was
  mutated since it was given, and an unmutated one is lost only to a cancellation,
  to a refused append or history, or to a call of the review itself that fails, is
  cut off or settles late;
- executor and bridge: one call at a time, executed at most once, accepted only
  if its own execution completed; the runtime has its publication window; the
  bridge returns in any case, does not claim a cleanup it could not verify, and is
  not made to leave anything behind by a caller that cancels in time;
- deadlines: both sides accept the same receipts and mean the same instants;
- terminal actor: no live process that it can trace is disowned, no foreign one is
  signalled, what is reported about traced processes is true, limits hold, every
  call returns;
- captures and handoff: no claim of a verified cleanup over something alive, no
  second scan beside the first, no verifier beside an unknown process;
- publication: a public marker binds what is public;
- campaign: an interrupted job is told as it was, the two scores agree, a job
  that ended in order can be collected.

## Modules

### The runtime

`SettledArtifacts` is the abstract contract of a run's directory for its
readers: until it is published anything may happen to the journal; `run.json`
appears once, over no other file, when the journal is complete; afterwards
nothing changes.

`EventWriter` is the writer together with the part of `RunState` that drives it
(`stage_tool_receipt`, `flush_staged_tool_receipts`, `finalize_once`). The
journal is a sequence of bytes, each known by its event's sequence number and
kind, so the digest of a prefix is the prefix. Each append is one action per
outcome (accepted, refused by a limit, failed in the file system with any
prefix written); `commit_run_record` is one action per file operation, so that a
crash or another process can come between any two.

`FinishController` and `CompletionReview` are pure operators on records, one
per method, called by the loop exactly where the code calls the method; the
policy of the review is a parameter.

`JournalRelations` is `_validate_v2_event_relations` of the reader as a monitor:
each event operator is the branch of that loop for the event's type, `broken`
is a raised `ArtifactError`, `Accepted` is the comparison with the run record at
the end, `Projectable` the two checks of `project_trajectory` on provider turns.

`AgentLoop` is `run_agent_bound_with_cancellation`. Its `pc` has one label per
point at which the code awaits, appends or decides; between two steps `Tick`
may move the clock and `RequestCancel` may cancel the run. `mode` is the review
policy and whether the deadlines are signed. `Answer` holds what the provider
and the executor do (they may also do nothing, for ever), `Step` what the
runtime does. Every append of an event type in `FaultyEvents` may be refused;
the journal is then unchanged and the run ends as an artifact failure (a refused
`tool.completed` abandons it, as in the code). History and token budgets are
free choices: where the code asks whether something fits, both answers are
possible.

### The process boundary

`SettlementStages` holds the three derivations of the settlement stages: the
bridge's (`derive`) and the runtime's two (`derive_raw`, `derive_instants`), with
saturating 64-bit arithmetic where the code has it. `DeadlineCutoffs` holds the
deadline receipt: `Mint` and `Derive` of `deadline.py`, `DeriveCutoffs` and
`ValidateReceipt` of `deadline.rs`, with the overflow guards of each side.
`StageBudget` puts them side by side: on any budget of a request before there is
a receipt, and on the receipt's own budget afterwards.

`CallContract` is the abstract specification of a tool call across the process
boundary. `StdioBridge` implements it: the runtime's `execute_foreground_v3`, as
the agent loop uses it, and the host's `run_stdio_bridge`, joined by two pipes
and the host's clock. The variable `b` has a label for every await, and for
every comparison with a cutoff, of `run_stdio_bridge`; `Raise` is the head of
its `except` branch. The handler task is external: it may complete, fail, end as
cancelled or ignore its cancellation. A call the runtime gives up may leave
nothing, part or all of its line in the pipe, and may still be executed; the
contract permits that, and no result of it is accepted. `CallerCancel` is a
cancellation at any await. `_complete_shielded` remembers one that lands in its own
wait (`stdio_bridge.py:1644`), but not one that lands while `cancel_with_hard_bound`
detaches what outlived its budget (`:1610-1632`, labels `boundTask` and `boundJoint`):
that one leaves through the `finally` (`drainBare`), past the rest of the cleanup and
past `cleanup_ok` (`:2016`), and another may come in the last gather (`:2009`,
`reapStderr`). The outcome is then `cancelled`, with no receipt, and a handler task or
the child may live on. `CleanReturn` says when: never with a result or an error of the
bridge's own, and with a bare cancellation only if the handler task outlived its
budget before it, or past the hard deadline.

### The terminal actor

`OwnedProcesses` says what the processes of a request are and do: the leader may
fork a `child` that stays in the group without the owner token, or a `daemon` that
keeps the token; each of them may obey or survive TERM, and only a process out of
reach survives KILL. The group of a command or a scan is searched as well as the
token; of a background task the script looks at the token only, and signals the group
only while the leader is verified (`SignalHits`).

`ForegroundRun`, `BackgroundTasks` and `SnapshotLease` each
hold one kind of request twice: the script in the container, with one step per
control file it publishes, and the host's coroutine, with one label per call
over the transport. A call may be lost before or after it had its effect.
`TerminalActor` composes the three with `cleanup_active_until` (participants,
TERM, KILL, census, each under its share of the time), the process lease and
`workspace_readiness_v1`. `procs` is what really lives in the container;
`active`, `reg` and `snaps` are the host's books, and most properties relate the
two. The scan of `/proc` is one step; a pid is used again only for tasks in
`Troubled`, after their monitor has waited for the leader; a descendant that
leaves both its group and its token is nobody's, as in the code. A cleanup starts when
nothing runs, or while a cancelled foreground call still contains its command or a
launch is still being salvaged: the bridge awaits the cancelled handler only up to its
hard bound (`stdio_bridge.py`, `_complete_shielded`) and then cleans up.

`ProcessOwnership` is what all of this promises to a caller, without a host, a script or
a transport: an owner is admitted once, may have processes only while it is held and
nobody was told that it is empty, and is given up for good when it is empty; readiness
is claimed only when everything held was reported empty. `OwnsProcesses` of
`TerminalActor` is the refinement. Its mapping reads the three books as `held`, the
requests nobody has admitted or refused as `fresh` (`Untouched`), and every report of
emptiness, of a call, a task's census, a snapshot or the closed lease, as `vouched`
(`ToldEmpty`).

### A trial

`SnapshotFailure` holds the typed failures of a capture, their disposition and
whether they may be retried; `WorkspaceSnapshot` the captures themselves.
`ControlPlane` is the isolated root and `publish`, one link per step; a process of
the sandbox may take any name of `Strays` in the public mount at any time. `GitIsolation`
is the isolation script as a state machine in which any command may fail and any
signal may arrive. `HarborAgent` is the agent's life: setup, launch with its
started fact, bridge, handoff (cleanup, lease, manifests, receipts, second
cleanup) under a budget that may expire between any two steps, post-agent
capture, liveness receipt and the verifier decision. `HarborTrial` composes them
with the trial seams of `compat_v020.py` and with `populate_context_post_run`.
`Smooth` and `Fault` count the faults of a behaviour. A crash keeps the files and
drops the memory. Harbor's own order of calls is external: it populates the
context after the agent phase and again at the end while the context is empty,
and a phase that raises skips the verifier.

### A campaign

`TrialEvidence` is what one trial directory may hold (runtime-entry fact, journal, run
record, emergency marker, workspace receipt, Harbor's result) and what `collect_job`
reads from it: `_row`, the official classification, the usage source. A result may hold
a reward and an exception at once (`rewarded_late`: Harbor's agent timeout with the
verifier run after it): the classification and the passes look at the reward, the bucket
and `reliable` at the exception. `Campaign` is `run_baseline`, Harbor's job, the
interruption receipt (`_interruption_value`, `_validate_terminalization`) and
`collect_job`, run by the runner or by an operator. Hash bindings are equality of
contents. `Alter` changes one file of one trial after the run.

`MCEventWriter` and `MCAgentLoop` only name the sets the configurations use, and
`MCStdioBridge` explains the instants of its configuration.

## Runs

| run | shows |
|---|---|
| `EventWriter` | all appends may fail: `TerminalAlwaysFits`, `EarlierRunUntouched`, `FinalizationEnds` |
| `EventWriterSettled` | receipt and terminal appends may fail: `MarkerBindsLog`, `OmissionsAccounted`, and the refinement `ImplementsSettled` |
| `EventWriterFault` | violation: with operational failures, `MarkerBindsLog` is false |
| `AgentLoopReview` | policies FreshV3 and CheckpointV4, appends may be refused: `JournalAccepted`, `NoStaleFallback`, `CandidateSurvives`, `FinishIsFinal` |
| `AgentLoopDebt` | EvidenceDebtV2 with signed deadlines and no review without them, fine clock, late starts: `JournalAccepted`, `DispatchInWindow`, `Terminates` |
| `AgentLoopReviewFits` | violation: the review's gate is one response and one batch short |
| `StageBudget` | every budget and receipt of a 31-value word: `StagesAgree`, `StageMinimum`, `DeadlineAgrees` |
| `StdioBridge` | hanging runtime, stubborn handler, cancelling caller: `NeverBlamed`, `PublicationWindowKept`, `DeadlineBeforeEof`, `CleanReturn`, the refinement `KeepsContract`, and `Returns` |
| `TerminalActor` | lossy transport, stubborn processes, reused pids: `OwnedUntilGone`, `CensusIsTrue`, `ReadyMeansNone`, `StrangersSpared`, `BackgroundBounded`, `SpoolAccounted`, the refinement `OwnsProcesses`, and `CallsReturn` |
| `TerminalActorDelayed` | violation: a launch call that starts after the host gave it up is disowned |
| `HarborTrial` | two faults, a crash, cancellations, foreign files under the names of the marker and of the receipt: `EntryTruth`, `CaptureHonest`, `VerifierSafe`, `CleanEnd`, `HandoffHonest`, `Published`, `HistoryIsolated` |
| `Campaign` | kills, interruptions, changed files: `InterruptionHonest`, `ScoreAgrees`, `Collectable` |

The findings in `PROJECT.json` give, for each violation, the line of the
repository that says otherwise.

### Assumptions of the passing runs, and what happens without them

- All runs of the loop set `RepeatIds` to FALSE: a provider that never repeats a
  call id of an earlier turn. The loop does not compare ids across turns
  (`agent_loop.rs:1917`), and the reader refuses a journal with a repeated one
  (`artifactizer.py:1572`): with `RepeatIds = TRUE`, `JournalAccepted` fails.
- `Faults` of `MCAgentLoop` leaves the request append of the checkpoint policy
  reliable. If `provider.requested` is refused right behind
  `context.checkpointed` (`agent_loop.rs:979`), the run publishes a typed failure
  that the reader refuses (`artifactizer.py:1524`): with `AllEvents` for every
  policy, `JournalAccepted` fails.
- `SuccessProjects` of `AgentLoop` is not checked, because it is false: a review
  that falls back after a failed provider turn ends as a success with a
  `provider.failed` in its journal (`agent_loop.rs:2370`), which
  `project_trajectory` refuses (`atif.py:106`).
- `DelayedRun` is FALSE in `TerminalActor`: a run call given up by the host is
  then either under way with its pgid published or never starts.
- `OwnedUntilGone`, `CensusIsTrue`, `ReadyMeansNone`, `BackgroundBounded` and
  `OwnsProcesses` speak of the processes the actor can trace (`Traced`): of a command
  and a scan all of them, of a background task those with its token. A background
  command may leave a process in its group without the token, for instance
  `env -i sleep 999 >/dev/null 2>&1 &`. `background_identity_alive`
  (`terminal_actor.py:835-865`) and the loop before the final status (`:1875-1893`) look
  at leader, monitor and token and do not see it, and once the leader is gone
  `background_signal_identity` (`:990-1017`) does not reach it. The models contain such a
  child. The task is then reported ended, its census verified, it is struck off or
  cleaned up, another may take its place at the limit, and the workspace is declared
  ready, while the child lives. So `EveryProcessOwned` of `TerminalActor`, which states
  docs/ARCHITECTURE.md:51-54 of every process, is false: TLC violates it within 15
  steps. No run states it. `HarborTrial` has the actor's answers and so its sense of a
  live task.
- `ScoreAgrees` lets a strict pass carry a failure bucket when its result has an
  exception beside the reward: `_official_result_classification` (`tb21.py:1693-1707`) and
  `strict_pass` (`:4627-4642`) ignore the exception, `_classify` (`:4258-4297`) returns the
  bucket of its text. Such a row is never `reliable` (`:4621`). The model has one such
  exception, the agent's timeout; others differ only in the bucket.
- `Collectable` exempts a run with the price file of another model: the
  interruption receipt binds that file, and no collection can satisfy it once a
  trial has tokens without cost.

### Bounds

Journal: five events of 1, 2 or 5 bytes, line limit 4, log limit 9, terminal
reserve 3, omission field 2, two staged and three offered receipts, one restart:
event count, line length and log length each turn an append away in some state.
Loop: six turns and four calls with the controller's turn thresholds at 4 and 5
(40 and 48 in the code), enough for action turns, a full review and the final
request; the clock visits the instants that separate the outcomes of all
comparisons with the code's reserves of 90, 120 and 30 seconds and the last send
at 1000 s. `AgentLoopReviewFits` uses the code's own thresholds of 40, 48 and 12.
Stages and deadlines: words up to 30 with two units to the millisecond, so that
spans leave every even remainder by six and reach the last value of the word;
reserves 0, 1, 2 and 5 reach zero, equality and overflow. Bridge: two calls, six
stages of one tick, one tick each for the publication window and the hard
deadline. Terminal actor: one command, two tasks that share the limit of one
live task and the spool for two, one task whose pid is used again, one scan;
`Sessions` says which of them live in the same session, since kinds of request meet
only in the cleanup, and `Later` that the first task of two alike is started first: a
start is answered or ends the service, so no other order is lost. Trial: one background task beside the foreground command,
one file of the workspace, two names a foreign file may take (the marker's and the
receipt's), two faults, which is one more than any single repair
path of the code expects. Campaign: two trials one after the other, one of them
with varying evidence (`Detailed`; the other always ends with a reward); `Ends`,
`Finals`, `Snapshots`, `Results` and `Edits` bound what that evidence can be, and one
change after the run. The largest runs are `Campaign`
(663 thousand states), `TerminalActor` (296 thousand, with liveness) and `StdioBridge`
(387 thousand, with liveness).

### Fairness

`EventWriter`: weak fairness of `Finalize`, which is sequential code without a
wait for another party. `AgentLoop`: weak fairness of `Step` (the runtime's own
code and its timers run) and of `Tick`; nothing is assumed of the provider, the
executor or the canceller. `StdioBridge`: weak fairness of `Bridge` (the host's
event loop runs) and of `Tick`; nothing is assumed of the runtime, the handler or
the caller. `TerminalActor`: weak fairness of the host's coroutines and their
timers, of the cleanup and of the foreground script, whose shell runs on its own;
nothing is assumed of the commands, the tasks, their monitors or the transport.
`HarborTrial` and `Campaign` state no liveness: every wait in them is one of the
actor or the bridge, which have it.

Deadlock is checked in the runs of the loop and of the bridge: a run that ended
stutters in an explicit `Done`. The other runs switch it off, since a settled
run, a cleaned session, a finished trial and a collected job are over.

## Proofs

`EventWriterProofs` proves, for all limits, line sizes, staging bounds and
restart counts that satisfy `EventWriterAssumption`:

- `TypeCorrect`: `Spec => []TypeOK`;
- `TerminalReserve`: `Spec => []TerminalAlwaysFits`;
- `MarkerBinding`: if `"operational"` is not a faulty append,
  `Spec => []MarkerBindsLog`;
- `WriterImplementsSettled`: under the same hypothesis, `Spec => ImplementsSettled`;
- `OmissionsAreAccounted`: under the same hypothesis, `Spec => []OmissionsAccounted`;
- `EarlierRunsUntouched`: `Spec => EarlierRunUntouched`, whatever fails.

`TerminalAlwaysFits` is not inductive: it holds in `flushing` because of what
happened in `running`. Its strengthening says that while the log is open the
writer's counters stay below the reserve (`bytes <= MaxLogBytes - Reserve`,
`nextSeq <= MaxEvents - 1`), that the limits were admitted at creation, and that
a log that is being flushed is neither poisoned nor terminal. `MarkerBindsLog`
needs the relation between file, hasher and counter in every phase
(`JournalHashed`): while the log grows the file is exactly what was hashed and
`bytes` is its length, which is what makes the truncation of a failed receipt
restore it; from the terminal event to the rename the hashed bytes also end
with a terminal event; a marker of this run freezes both. The refinement then
follows step by step: `PublishMarker` is `Publish`, the appearance of a foreign
marker is `Forestall`, everything else is `Work` or a stutter, because no other
action changes a published log. `OmissionsAreAccounted` carries the account from the
first receipt to the rename (`Accounted`: offered = omitted + staged + lines in the
hashed bytes); a line adds its own newline to the ends of the journal and nothing
else (`LineEndsOnce`), so an append moves one receipt from the staging area to the
journal, and a rollback or a limit moves it to the count.

`StageBudgetProofs` proves `SidesAgree` (`Spec => []StagesAgree`), `StagesLast`
(`Spec => []StageMinimum`) and `DeadlineSound` (`Spec => []DeadlineAgrees`) for every
word size of at least 30, every unit, every minimum and all frozen reserves. The
argument is arithmetic. For the stages: with `span = 6q + r`, `floor(span * i / 6)`
is `q * i + floor(r * i / 6)`, and no partial result exceeds `tool_settled`, so
saturation never happens in an accepted budget; each difference of two cutoffs
is at least `q`, and `q` is at least the minimum. For the receipts: the chain of
subtractions succeeds exactly when the sum of the reserves, in nanoseconds, ends
before the hard deadline (`SubtractionChain`), a bound that makes the division
guard of one side and the checked products of the other superfluous in the same
cases (`SameOverflow`, `SameReceipts`). The invariant `WireWords` says that after
the launch the budget on the wire is the receipt's own.

`StdioBridgeProofs` proves, for all cutoffs that satisfy `BridgeAssumption` and
any number of calls:

- `BridgeTypes`: `Spec => []TypeOK` (proved, so no run repeats it), strengthened by
  `Settling` (a sequence number is left for the call under way, and what is written is
  a settlement);
- `WindowKept`: `Spec => []PublicationWindowKept`, from the state of the stop;
- `ReturnIsClean`: `Spec => []CleanReturn`. The property speaks of the return; the
  invariant `CleanInv` follows the handler task and the child to it: a task is
  running only while it is served or being aborted, a settlement without a control
  error has no task, `execution_completed` and a finished stop are set only when
  task and child are gone, and a child exits with 0 only after publishing. A bare
  cancellation takes over what the invariant knows at its label: behind `boundTask` the
  task did not complete, behind `boundJoint` the hard deadline has passed, and behind
  `reapStderr` the joint cleanup has ended one way or the other.

The conversation of the two sides needs the contents of both pipes:

- `RuntimeNeverBlamed`: `Spec => []NeverBlamed`;
- `DeadlineComesFirst`: `Spec => []DeadlineBeforeEof`;
- `BridgeKeepsContract`: `Spec => KeepsContract`, the refinement of `CallContract`.

`ConvInv` says whose turn it is. While the runtime talks, each pipe holds at most
one line, of the call both sides count (`WireInv`, `TurnInv`): a request on the wire
carries the number the bridge expects, and is there only if the last answer was
not fatal; an answer on the wire is the one for the call under way, and one that
says "completed" belongs to an execution that completed (`AnswerInv`); `VerdictInv`
and `ServeInv` say what each side has recorded of the calls before. A torn line or
a given-up call ends the runtime's part, so nothing follows it, and out of its loop
the bridge reads and writes no more (`LeftKeeps`). Every step is then a step of the
contract or a stutter (`ContractStep`): `Send` is `SendCall`, `ReadRequest` is `Start`,
`TaskEnds` is `End`, `Accept` is `AcceptResult`, the failures of a call are `Lose`.

`AgentLoopProofs` proves, for all cutoffs, reserves, thresholds, policies and sets
of refused appends: `FallbackIsFresh` (`[]NoStaleFallback`), `CandidateIsKept`
(`[]CandidateSurvives`), `NothingAfterFinish` (`FinishIsFinal`), `DispatchesInWindow`
(`DispatchInWindow`), over the types (`LoopTypesHold`) and three inductive invariants
(`LoopInvariants`). `FinishInv` says where the loop can be once the final-only
request is out or the soft batch admitted. `BatchInv` keeps, from the admission of a
batch to its commit, the cutoff and the stage it was admitted with below those of
the controller's state, which is what a dispatch compares with. `CandidateInv` relates
the review's own record of mutations (`SafeFallback`) to the model's `dirty`, which is
set by the dispatch and not by the record, in each phase of a batch: the two differ
exactly while a mutating call is out. `CandidateIsKept` enumerates what may still cost the
answer (`ReviewCallCodes` and four statuses) instead of what may not.
`PublishedRunsAreAccepted` proves `[]JournalAccepted` under `SoundAppends`: call ids do
not come back, and the append of `provider.requested` is not refused under
`CheckpointV4`. These are the two hypotheses of "Assumptions" above, and each is
necessary: TLC violates the property without it. Its invariant, `JournalInv`, follows
the reader along the journal while the loop writes it: turns and calls in flight, the
counters (a settlement is missing only if its append was refused and the run is an
artifact failure), the checkpoint that still awaits its request.

`TerminalActorProofs` proves, for all sets of commands, tasks and snapshots (distinct,
`OwnersAssumption`: each request has a directory and an id of its own; finitely many
tasks and a natural limit, `TasksAssumption`; a natural spool budget,
`SpoolAssumption`):

- `StrangersAreSpared`: `Spec => []StrangersSpared`;
- `BackgroundIsBounded`: `Spec => []BackgroundBounded`;
- `SpoolStaysAccounted`: `Spec => []SpoolAccounted`, for every budget of the spool;
- if `DelayedRun` is false: `ProcessesStayOwned` (`[]OwnedUntilGone`), `CensusesAreTrue`
  (`[]CensusIsTrue`), `ReadinessIsTrue` (`[]ReadyMeansNone`);
- under the same hypothesis, `ActorOwnsProcesses`: `Spec => OwnsProcesses`, the actor
  implements `ProcessOwnership` over its traced processes; and `ActorGivesUpForGood`:
  what was refused or struck off never has a traced process again, and no report of
  emptiness is taken back.

All but the first and the third speak of traced processes (see "Assumptions").

None of the safety properties is inductive, since a process may appear after the books
were closed. The invariant says of the traced processes of an owner that there are none
*and that nothing can add one again*: a command whose run was never dispatched or has
published its pgid, a task whose monitor has published its identity, a snapshot whose
supervisor has published its lease. `CoreInv` (`CoreHolds`) holds whatever the transport
does and has a part per owner: `BgInv` for tasks (`LaunchInv`: launched once, acted on
once bound; `TaskInv`: the books against the processes; `StrangerInv`; `BoundInv`, which
bounds the entries without a verified census, and so the live tasks), `SnInv` for
snapshots, and `ServeInv`, `CleanupInv`, `ReadyInv` for what they share: no request is
served while a cleanup runs, a census of the cleanup is of a settled participant, ready
means empty books. `FgInv` (`ForegroundHolds`) is the part of the commands and the only
one that needs `DelayedRun` to be false; `TerminalActorDelayed` is the counterexample
without it. A step of one owner leaves the sets of the others alone (`Touches`), so each
action is checked against its own owner's invariant and framed for the rest.

The spool has an invariant of its own, `SpoolInv`, beside `CoreInv`: the reservation made at
the acknowledgement still fits although room was tested at the registration, because
nothing is reserved in between; the task a step gives back for is in `_background`; and
what a cleanup counts as proven zero was reserved and is still there. A cleanup
finalizes its tasks one after the other, each with its own used bytes; the model states
the set of outcomes in closed form (`SpoolsAfter`), and `SpoolsOneByOne` proves that the
form for one task more is one more finalization of each value before it.

The refinement needs `CoreInv`, `FgInv` and two facts more (`OnceInv`): a start that is still
sweeping was never answered, and a lease that is being closed has no outcome yet. Each
step is then of one of four kinds. It *settles* (`SettleAllowed`): the processes rest, the
books only shrink and the reports only grow (`FgYields`, `BgYields`, `SnYields`,
`LeaseYields`); that what it strikes off or reports is empty follows from the invariants
in the next state. Or it *touches* one owner while the books rest (`TouchAllowed`): a process
starts or ends. Or it admits an owner (`OwnCommand`, `OwnRegister`, `OwnSnapshotBegins`), or
claims readiness. `ProcessOwnershipProofs` proves what the abstract specification itself
promises (`BooksAndProcessesAgree`, `OwnersAreGivenUpForGood`, `ReportsOfEmptinessStand`); the
last two carry over to the actor through the refinement.

`HarborTrialProofs` proves every invariant the run checks, for all tasks, captured
files, names of foreign files and numbers of faults: `HistoryIsIsolated`, `EntryIsTrue`,
`HandoffIsHonest`, `PublicationIsBound`, `CapturesAreHonest`, `VerifierIsSafe`,
`TrialEndsClean`, over `TrialTypesHold`. Each has an invariant of its own, stated over
the stretches of the agent's coroutine (`Preparing`, `Handing`, `Behind`); the later ones use
the earlier ones. `GitInv` tells from the point of the script what it has moved.
`PublicationIsBound` needs that what is being linked agrees with what is bound, also
when a second projection meets the links of the first, and that the receipt and the
manifest on disk do not change once a marker binds them. `CapturesAreHonest` and
`VerifierIsSafe` need, for every point of a capture, which scans and staging directories
its proofs of cleanup account for, and whose processes the lease holds.

`CampaignProofs` proves every invariant the run checks, for all sets of trials, every
concurrency and every choice of what a runtime, Harbor and a later change of the
directory leave (`Trials` is finite and not empty): `InterruptionsAreHonest`
(`[]InterruptionHonest`), `ScoresAgree` (`[]ScoreAgrees`), `OrderlyRunsAreCollectable`
(`[]Collectable`), over one inductive invariant (`CampaignInvariant`). `Progress` says
which files exist at each step of the runner and that a receipt, which appears only
with the end of the run, is the seal of the directories as the run left them
(`SealOf`); a later change keeps those in `original`. So a collection that validates the
receipt against today's directories reads directories with the evidence the run left
(`SummaryIsHonest`), even if it reads them while its price list is another one. The
scores need no history: `StrictRowHolds` and `AccuracyAgrees` are facts about any
directories whose success markers carry a success (`MarkerTrue`, kept by the adapter's
order of writing), with a case for the exception beside a reward, and the counts follow by
inclusion. A summary that is about to be
written is under the same invariant as the one on disk, which is what lets the runner
and an operator collect, die and collect again in any order.

Only model-checked: liveness (`FinalizationEnds`, `Terminates`, `Returns`, `CallsReturn`),
which is out of the prover's reach. That `SpoolsAfter(n)` is what `n` finalizations leave
for every `n` is an induction over `n`; its base and its step are proved, the induction
itself is not stated.

## Not modelled

- Texts, prompts, token counts, JSON layouts, byte limits and hashes of records;
  the evidence ledger and its summary; setup before the loop; the v2 tool
  protocol and the bridge's legacy mode; the validation of request and response
  payloads (a payload may be refused at any time).
- Provider client: its retry and stream parser end in the outcomes `AgentLoop`
  already lets the provider choose from; that a retried request may be sent twice
  is visible only to the provider.
- Deadlines: identity and digest bindings, expiry at load, projection on wall-clock
  instants; a receipt whose cutoffs are not the derived ones is refused by both
  sides and is not represented.
- Terminal actor: the file tools, which are single calls without ownership; the
  cutoffs inside background calls are folded into lost calls; cleanup ends the
  session.
- Trial: the hook's error for an unavailable budget; omissions and the truncated
  flag of a complete receipt; the materialization of changed files is one step. A
  lease sealed over tasks that a later cleanup ended makes the post-verifier
  cleanup fail, conservatively.
- Campaign: `prelaunch.py`, the audits' findings, verifier text signals, older
  schemas of the marker and of the receipt, the binding of deadline receipts, the
  cost arithmetic. `runtime-entry.json` and the verifier's output are not in the
  receipt's evidence manifest, so a change of them after the interruption is not
  detected by the code, and the model says nothing against it.
- Schemas (`nano-types`), argument parsing (`nano-cli`), protected-target digests
  and the repository's release scripts have no state of the running system.

## Plan

Done: the runtime, the process boundary, the terminal actor, the trial and the
campaign. Left:

1. `HarborAgent` on top of `ProcessOwnership` in place of its own copy of the actor's
   answers, which starts a task id again and so does not implement it as it stands;
2. `prelaunch.py` and the provider client's stream parser.
