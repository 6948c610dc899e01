------------------------------ MODULE Campaign ------------------------------
(***************************************************************************)
(* A benchmark campaign: the runner binds a job, lets Harbor run its       *)
(* trials once, seals the job when the run is interrupted and collects it  *)
(* when it finishes; an operator may collect the directory again at any    *)
(* time.  The host process may be killed, and files of the directory may   *)
(* be changed after the run.                                               *)
(***************************************************************************)
EXTENDS TrialEvidence

CONSTANTS
    Trials,          \* the trials of the dispatch manifest
    Concurrency,     \* n_concurrent_trials
    Pricings,        \* "none", "own" (the model's prices), "other" (another model's)
    Detailed,        \* bound: the trials whose evidence varies and may change after the run
    Results,         \* bound: what Harbor may write as the result of a trial
    Edits            \* bound: the results a changed directory may hold

ASSUME TrialsAssumption == IsFiniteSet(Trials) /\ Trials # {}
ASSUME ConcurrencyAssumption == Concurrency \in Nat \ {0}
ASSUME DetailedAssumption == Detailed \subseteq Trials
ASSUME PricingsAssumption == Pricings \subseteq {"none", "own", "other"}

VARIABLES
    runner,      \* the step of run_baseline, its pricing, the error of the job, how the run ended
    files,       \* which of the job's manifests exist
    job,         \* result.json of the job: "absent", "open" or "finished"
    stat,        \* its statistics, per trial
    dirs,        \* the directories of the trials
    receipt,     \* nano-terminalization.json
    rows,        \* rows.jsonl
    summary,     \* summary.json
    reader,      \* the collection under way and what it is about to write
    original     \* the directories before they were changed after the run, <<>> if they were not

vars == <<runner, files, job, stat, dirs, receipt, rows, summary, reader, original>>

NoReceipt == [state |-> "absent", reason |-> "none", pricing |-> "none", stat |-> <<>>, trials |-> <<>>]
NoSummary == [status |-> "none", rows |-> <<>>, official |-> 0, available |-> FALSE, passed |-> 0, exact |-> FALSE]
Idle == [by |-> "none", at |-> "idle", rows |-> <<>>, summary |-> NoSummary]

Init ==
    /\ \E p \in Pricings : runner = [pc |-> "main", pricing |-> p, error |-> "none", outcome |-> "none"]
    /\ files = {}
    /\ job = "absent"
    /\ stat = [t \in Trials |-> "pending"]
    /\ dirs = [t \in Trials |-> EmptyDir]
    /\ receipt = NoReceipt
    /\ rows = <<>>
    /\ summary = NoSummary
    /\ reader = Idle
    /\ original = <<>>

Over(outcome) == runner' = [runner EXCEPT !.pc = "over", !.outcome = outcome]

(***************************************************************************)
(* main and run_baseline up to the job.                                    *)
(***************************************************************************)
(* a failed preflight creates nothing                                      *)
Preflight ==
    /\ runner.pc = "main"
    /\ \/ runner' = [runner EXCEPT !.pc = "bind"]
       \/ Over("refused")
    /\ UNCHANGED <<files, job, stat, dirs, receipt, rows, summary, reader, original>>

(* create_bound_job: a fresh job, its specs bound before it runs           *)
Bind ==
    /\ runner.pc = "bind"
    /\ \/ runner' = [runner EXCEPT !.pc = "cohort"] /\ files' = {"dispatch"}
       \/ Over("unbound") /\ UNCHANGED files
    /\ UNCHANGED <<job, stat, dirs, receipt, rows, summary, reader, original>>

(* a mismatch of the bound trials leaves the dispatch behind               *)
WriteCohort ==
    /\ runner.pc = "cohort"
    /\ \/ runner' = [runner EXCEPT !.pc = "job"] /\ files' = files \cup {"capabilities", "cohort"}
       \/ Over("unbound") /\ UNCHANGED files
    /\ UNCHANGED <<job, stat, dirs, receipt, rows, summary, reader, original>>

(***************************************************************************)
(* Harbor runs the trials.                                                 *)
(***************************************************************************)
Running == {t \in Trials : stat[t] = "running"}

JobOpens ==
    /\ runner.pc = "job" /\ job = "absent"
    /\ job' = "open"
    /\ UNCHANGED <<runner, files, stat, dirs, receipt, rows, summary, reader, original>>

TrialStarts(t) ==
    /\ runner.pc = "job" /\ job = "open" /\ stat[t] = "pending"
    /\ Cardinality(Running) < Concurrency
    /\ stat' = [stat EXCEPT ![t] = "running"]
    /\ dirs' = [dirs EXCEPT ![t].config = TRUE]
    /\ UNCHANGED <<runner, files, job, receipt, rows, summary, reader, original>>

(* what the runtime leaves: a journal that stops anywhere, the line of a   *)
(* call's end perhaps cut, or a closed one with its record                 *)
OpenJournals ==
    {<<>>, <<"run.started">>, <<"run.started", "requested">>}
        \cup {<<"run.started", "requested", e>> : e \in Ends}

Recorded(d, j, s) ==
    [d EXCEPT !.entry = "started", !.journal = j,
              !.record = [state |-> "written", status |-> s, journal |-> j, totals |-> PrefixTotals(j)]]

OpenLeaves(d) ==
    {[d EXCEPT !.entry = e] : e \in {"none", "not_started"}}
        \cup {[d EXCEPT !.entry = "started", !.journal = j] : j \in OpenJournals}
        \cup {[d EXCEPT !.entry = "started", !.journal = <<"run.started", "requested">>, !.torn = TRUE]}

ClosedLeaves(d) ==
    {Recorded(d, <<"run.started", "requested", e, IF s = "success" THEN "run.completed" ELSE "run.failed">>, s) :
        e \in Ends, s \in Finals}

RuntimeLeaves(d) == OpenLeaves(d) \cup ClosedLeaves(d)

(* the adapter publishes the trajectory and the receipts, the marker last  *)
Kind(d) ==
    CASE d.record.state = "absent" -> "emergency_atif"
      [] d.record.state # "absent" /\ d.record.status = "success" -> "success_atif"
      [] OTHER -> "failure_atif"

Unmarked(d, w) ==
    [d EXCEPT !.workspace = w, !.trajectory = Kind(d), !.usage = PrefixTotals(d.journal)]

Marked(d, w) ==
    [Unmarked(d, w) EXCEPT !.marker =
        [kind |-> Kind(d), status |-> IF d.record.state = "absent" THEN "runtime_failure" ELSE d.record.status,
         journal |-> d.journal, torn |-> d.torn, trajectory |-> Kind(d), usage |-> PrefixTotals(d.journal),
         workspace |-> w]]

(* a trial that is not detailed ends its one call always in the same way   *)
Steady(d) == d.journal[3] = CHOOSE e \in Ends : TRUE

AgentPhase(t) ==
    /\ runner.pc = "job" /\ stat[t] = "running" /\ dirs[t] = [EmptyDir EXCEPT !.config = TRUE]
    /\ \E d \in RuntimeLeaves(dirs[t]), w \in Snapshots \cup {"none"} :
          \E left \in {d, Unmarked(d, w), Marked(d, w)} :
             /\ t \notin Detailed => left = Marked(d, w) /\ d.record.status = "success" /\ w # "none" /\ Steady(d)
             /\ dirs' = [dirs EXCEPT ![t] = left]
    /\ UNCHANGED <<runner, files, job, stat, receipt, rows, summary, reader, original>>

TrialEnds(t) ==
    /\ runner.pc = "job" /\ stat[t] = "running" /\ dirs[t].result \in {"none", "unfinished"}
    /\ \E r \in Results :
          /\ t \notin Detailed => r = "rewarded"
          /\ dirs' = [dirs EXCEPT ![t].result = r]
    /\ UNCHANGED <<runner, files, job, stat, receipt, rows, summary, reader, original>>

(* the job's statistics follow the trial's result: an exception counts as  *)
(* an error, whatever the reward beside it                                 *)
JobNotes(t) ==
    /\ runner.pc = "job" /\ stat[t] = "running" /\ dirs[t].result \notin {"none", "unfinished"}
    /\ stat' = [stat EXCEPT ![t] = IF dirs[t].result \in {"rewarded", "zero"} THEN "completed" ELSE "errored"]
    /\ UNCHANGED <<runner, files, job, dirs, receipt, rows, summary, reader, original>>

JobFinishes ==
    /\ runner.pc = "job" /\ job = "open"
    /\ \A t \in Trials : stat[t] \in {"completed", "errored"}
    /\ job' = "finished"
    /\ UNCHANGED <<runner, files, stat, dirs, receipt, rows, summary, reader, original>>

JobReturns ==
    /\ runner.pc = "job" /\ job = "finished"
    /\ runner' = [runner EXCEPT !.pc = "collect", !.outcome = "finished"]
    /\ UNCHANGED <<files, job, stat, dirs, receipt, rows, summary, reader, original>>

(* an interruption or an error of Harbor, at any moment of the job         *)
JobRaises ==
    /\ runner.pc = "job"
    /\ \E e \in {"operator_interrupted", "runner_exception"} : runner' = [runner EXCEPT !.pc = "seal", !.error = e]
    /\ UNCHANGED <<files, job, stat, dirs, receipt, rows, summary, reader, original>>

(***************************************************************************)
(* The receipt of an interrupted job.                                      *)
(***************************************************************************)
(* the files under the evidence manifest: all but the runtime entry        *)
Evidence(d) == [d EXCEPT !.entry = "none"]

Ended(d) == Bound(d.result) /\ d.result # "unfinished"

TrialState(d) ==
    CASE Ended(d) -> "terminal"
      [] ~Ended(d) /\ Evidence(d) # EmptyDir -> "incomplete"
      [] OTHER -> "not_started"

(* the price of another model is left out here, not an error               *)
TrialValue(d, pricing) ==
    [state |-> TrialState(d), evidence |-> Evidence(d),
     cost |-> Cost(IF pricing = "other" THEN "none" ELSE pricing, Usage(d).totals)]

InterruptionValue(reason, pricing) ==
    [state |-> "sealed", reason |-> reason, pricing |-> pricing, stat |-> stat,
     trials |-> [t \in Trials |-> TrialValue(dirs[t], pricing)]]

(* a receipt for any job with statistics, a finished one too               *)
SealableAny == job # "absent" /\ "dispatch" \in files

Sealable == job = "open" /\ "dispatch" \in files

(* a receipt that has the right shape                                      *)
ValidateShape(pricing) == receipt.state = "sealed" /\ Sealable

(* derived again from what the directory holds now                         *)
Validate(pricing) == Sealable /\ receipt = InterruptionValue(receipt.reason, pricing)

(* _terminalize_interruption; a receipt that is there is only validated    *)
Seal ==
    /\ runner.pc = "seal"
    /\ LET fresh == receipt.state = "absent"
           ok == IF fresh THEN Sealable ELSE Validate(runner.pricing)
       IN /\ Over(IF ok THEN "interrupted" ELSE "unsealed")
          /\ receipt' = IF ok /\ fresh THEN InterruptionValue(runner.error, runner.pricing) ELSE receipt
    /\ UNCHANGED <<files, job, stat, dirs, rows, summary, reader, original>>

(***************************************************************************)
(* collect_job, by the runner or by an operator.                           *)
(***************************************************************************)
(* _require_job_terminal                                                   *)
Termination(pricing) ==
    CASE job = "finished" /\ receipt.state = "absent" -> "finished"
      [] job = "finished" /\ receipt.state # "absent" -> "job_terminalization_invalid"
      [] job = "open" /\ receipt.state = "sealed" ->
            IF Validate(pricing) THEN "interrupted" ELSE "job_terminalization_invalid"
      [] OTHER -> "job_not_terminal"

RowOf(t, pricing, end) ==
    IF end = "interrupted" THEN Row(dirs, t, pricing, receipt.trials[t].state, receipt.reason)
    ELSE Row(dirs, t, pricing, "none", "none")

(* the price of another model is an error here                             *)
RowCost(t, pricing) == Cost(pricing, Usage(dirs[t]).totals)

(* the classification behind the accuracy wants an end as well             *)
OfficialResult(t) == IF dirs[t].result = "unfinished" THEN "invalid" ELSE Official(dirs, t)

CollectError(pricing) ==
    LET end == Termination(pricing)
    IN IF "dispatch" \notin files THEN "required_input_unavailable"
       ELSE IF end \notin {"finished", "interrupted"} THEN end
       ELSE IF \E t \in Trials : RowCost(t, pricing) = "pricing_model_mismatch" THEN "pricing_model_mismatch"
       ELSE "none"

(* the accuracy over the results that are valid, however many              *)
AccuracyOfSome(end) == end = "finished"

(* an accuracy only when every official result is valid                    *)
Accuracy(end) == end = "finished" /\ \A t \in Trials : OfficialResult(t) # "invalid"

SummaryOf(rs, end) ==
    [status |-> IF end = "finished" THEN "complete" ELSE "interrupted", rows |-> rs,
     available |-> Accuracy(end),
     official |-> Cardinality({t \in Trials : OfficialResult(t) = "rewarded"}),
     passed |-> Cardinality({t \in Trials : rs[t].strict_pass}),
     exact |-> \A t \in Trials : Candidates(dirs, t) = {t} /\ rs[t].bucket \notin {"missing", "duplicate"}]

(* everything is read before the first file is written                     *)
Collect(who, pricing) ==
    LET end == Termination(pricing)
        rs == [t \in Trials |-> RowOf(t, pricing, end)]
    IN reader' = [by |-> who, at |-> "rows", rows |-> rs, summary |-> SummaryOf(rs, end)]

RunnerCollects ==
    /\ runner.pc = "collect" /\ reader = Idle
    /\ IF CollectError(runner.pricing) = "none"
       THEN runner' = [runner EXCEPT !.pc = "publish"] /\ Collect("runner", runner.pricing)
       ELSE runner' = [runner EXCEPT !.pc = "over"] /\ UNCHANGED reader
    /\ UNCHANGED <<files, job, stat, dirs, receipt, rows, summary, original>>

OperatorCollects ==
    /\ reader = Idle
    /\ \E p \in Pricings : CollectError(p) = "none" /\ Collect("operator", p)
    /\ UNCHANGED <<runner, files, job, stat, dirs, receipt, rows, summary, original>>

PublishRows ==
    /\ reader.at = "rows"
    /\ rows' = reader.rows
    /\ reader' = [reader EXCEPT !.at = "summary"]
    /\ UNCHANGED <<runner, files, job, stat, dirs, receipt, summary, original>>

PublishSummary ==
    /\ reader.at = "summary"
    /\ summary' = reader.summary
    /\ reader' = Idle
    /\ runner' = IF reader.by = "runner" THEN [runner EXCEPT !.pc = "over"] ELSE runner
    /\ UNCHANGED <<files, job, stat, dirs, receipt, rows, original>>

(***************************************************************************)
(* What may go wrong around it.                                            *)
(***************************************************************************)
(* the runner's process dies; its collection dies with it                  *)
Kill ==
    /\ runner.pc \notin {"main", "over"}
    /\ runner' = [runner EXCEPT !.pc = "over", !.outcome = IF @ = "finished" THEN @ ELSE "killed"]
    /\ reader' = IF reader.by = "runner" THEN Idle ELSE reader
    /\ UNCHANGED <<files, job, stat, dirs, receipt, rows, summary, original>>

OperatorStops ==
    /\ reader.by = "operator"
    /\ reader' = Idle
    /\ UNCHANGED <<runner, files, job, stat, dirs, receipt, rows, summary, original>>

(* one file of one trial changes after the run                             *)
Alter(t) ==
    /\ runner.pc = "over" /\ reader = Idle /\ original = <<>> /\ t \in Detailed /\ dirs[t].config
    /\ original' = dirs
    /\ \E d \in {[dirs[t] EXCEPT !.result = r] : r \in Edits}
                \cup {[dirs[t] EXCEPT !.entry = "none"], [dirs[t] EXCEPT !.torn = TRUE],
                      [dirs[t] EXCEPT !.workspace = "none"], [dirs[t] EXCEPT !.marker = NoMarker]} :
          d # dirs[t] /\ dirs' = [dirs EXCEPT ![t] = d]
    /\ UNCHANGED <<runner, files, job, stat, receipt, rows, summary, reader>>

Next ==
    \/ Preflight \/ Bind \/ WriteCohort
    \/ JobOpens \/ JobFinishes \/ JobReturns \/ JobRaises \/ Seal
    \/ \E t \in Trials : TrialStarts(t) \/ AgentPhase(t) \/ TrialEnds(t) \/ JobNotes(t) \/ Alter(t)
    \/ RunnerCollects \/ OperatorCollects \/ PublishRows \/ PublishSummary
    \/ Kill \/ OperatorStops

Spec == Init /\ [][Next]_vars

(***************************************************************************)
(* Properties.                                                             *)
(***************************************************************************)
AsLeft == IF original = <<>> THEN dirs ELSE original

(* collect_job and _validate_terminalization: a summary without a run      *)
(* outcome is only ever of a job that Harbor finished, and the summary of  *)
(* an interrupted job takes no file that changed after the receipt: it     *)
(* counts as passed only a trial that ended with a reward before the       *)
(* interruption, and its rows tell the trials that never started, were     *)
(* under way and had ended as the interruption left them.                  *)
InterruptionHonest ==
    /\ summary.status = "complete" => job = "finished" /\ receipt = NoReceipt
    /\ summary.status = "interrupted" =>
          /\ ~summary.available /\ job = "open"
          /\ \A t \in Trials :
                /\ summary.rows[t].state = TrialState(AsLeft[t])
                /\ summary.rows[t].collector_pass => AsLeft[t].result \in {"rewarded", "rewarded_late"}

(* _official_result_classification and _row derive the score of a trial    *)
(* twice, from the official results alone and from the row.  When the      *)
(* summary gives an accuracy, both agree on every trial and none is        *)
(* missing or counted twice.  A strict pass is a reward for a runtime that *)
(* is not known never to have been entered and whose own journal, record   *)
(* and trajectory say success.  Neither score looks at an exception beside *)
(* the reward: such a row may be a strict pass with the exception's bucket *)
(* as its failure, and is then never reliable; without one the row names   *)
(* no failure but of its artifacts, and is reliable when it names none.    *)
ScoreAgrees ==
    /\ summary.available =>
          /\ summary.exact
          /\ summary.official = Cardinality({t \in Trials : summary.rows[t].collector_pass})
          /\ summary.passed <= summary.official
    /\ \A t \in DOMAIN summary.rows :
          summary.rows[t].strict_pass =>
              /\ summary.rows[t].collector_pass /\ summary.rows[t].entry # "not_started"
              /\ summary.rows[t].usage = "run_record_v2"
              /\ IF summary.rows[t].exception
                 THEN summary.rows[t].bucket = "action_deadline" /\ ~summary.rows[t].reliable
                 ELSE /\ summary.rows[t].bucket \in {"none", "artifact"}
                      /\ summary.rows[t].reliable <=> summary.rows[t].bucket = "none"

(* run_baseline, _terminalize_interruption and _require_job_terminal: a    *)
(* run that ended in order, finished or with its receipt, can be collected *)
(* with the pricing it ran with as long as nobody changed the directory,   *)
(* unless that pricing is of another model; a run that was killed while it *)
(* was open never can.                                                     *)
Collectable ==
    runner.pc = "over" /\ original = <<>> =>
        /\ runner.outcome \in {"finished", "interrupted"} /\ runner.pricing # "other" =>
              CollectError(runner.pricing) = "none"
        /\ runner.outcome = "killed" /\ job # "finished" => \A p \in Pricings : CollectError(p) # "none"
=============================================================================
