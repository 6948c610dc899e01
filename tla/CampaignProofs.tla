--------------------------- MODULE CampaignProofs ---------------------------
(***************************************************************************)
(* The invariants of a campaign, proved for every set of trials, every     *)
(* concurrency and every choice of what a runtime and Harbor may leave.    *)
(* One inductive invariant carries them: what the files are at each step   *)
(* of the runner, that a receipt is the seal of the directories as the run *)
(* left them, and that a summary, written or about to be written, was      *)
(* derived from such directories.                                          *)
(***************************************************************************)
EXTENDS Campaign, FiniteSetTheorems, TLAPS

(***************************************************************************)
(* The shapes the updates rely on.                                         *)
(***************************************************************************)
Steps == {"main", "bind", "cohort", "job", "seal", "collect", "publish", "over"}
Errors == {"none", "operator_interrupted", "runner_exception"}
Outcomes == {"none", "refused", "unbound", "finished", "interrupted", "unsealed", "killed"}

RunnerTypes == [pc : Steps, pricing : Pricings, error : Errors, outcome : Outcomes]

Fields == {"config", "entry", "journal", "torn", "record", "trajectory", "usage", "workspace", "marker", "result"}

(* a marker of a success carries the status of one                         *)
MarkerTrue(d) == d.marker.kind = "success_atif" => d.marker.status = "success"

TrialDir(d) == DOMAIN d = Fields /\ MarkerTrue(d)

Directories(ds) == DOMAIN ds = Trials /\ \A t \in Trials : TrialDir(ds[t])

Shapes ==
    /\ runner \in RunnerTypes
    /\ job \in {"absent", "open", "finished"}
    /\ Directories(dirs)
    /\ original = <<>> \/ Directories(original)
    /\ DOMAIN reader = {"by", "at", "rows", "summary"}

(***************************************************************************)
(* What the runner has done.                                               *)
(***************************************************************************)
(* the receipt the interruption wrote, of the directories it left          *)
SealOf ==
    [state |-> "sealed", reason |-> receipt.reason, pricing |-> runner.pricing, stat |-> stat,
     trials |-> [t \in Trials |-> TrialValue(AsLeft[t], runner.pricing)]]

Progress ==
    /\ runner.pc # "over" => original = <<>> /\ runner.outcome \in {"none", "finished"}
    /\ runner.pc \in {"cohort", "job", "seal", "collect", "publish"} => "dispatch" \in files
    /\ runner.pc \in {"collect", "publish"} => runner.outcome = "finished"
    /\ runner.outcome = "finished" => job = "finished" /\ "dispatch" \in files
    /\ runner.outcome = "interrupted" <=> receipt # NoReceipt
    /\ receipt # NoReceipt => job = "open" /\ "dispatch" \in files /\ receipt = SealOf

(***************************************************************************)
(* What a summary says.                                                    *)
(***************************************************************************)
(* a strict pass is a reward behind a runtime's own success; what else the *)
(* row says of it hangs on the exception beside the reward                 *)
StrictRow(r) ==
    r.strict_pass =>
        /\ r.collector_pass /\ r.entry # "not_started"
        /\ r.usage = "run_record_v2"
        /\ IF r.exception
           THEN r.bucket = "action_deadline" /\ ~r.reliable
           ELSE /\ r.bucket \in {"none", "artifact"}
                /\ r.reliable <=> r.bucket = "none"

Scored(s) ==
    /\ s.available =>
          /\ s.exact
          /\ s.official = Cardinality({t \in Trials : s.rows[t].collector_pass})
          /\ s.passed <= s.official
    /\ \A t \in DOMAIN s.rows : StrictRow(s.rows[t])

(* the row of a trial of an interrupted job                                *)
RowAsLeft(r, d) == r.state = TrialState(d) /\ (r.collector_pass => d.result \in {"rewarded", "rewarded_late"})

HonestTo(s, j, r, left) ==
    /\ s.status = "complete" => j = "finished" /\ r = NoReceipt
    /\ s.status = "interrupted" =>
          /\ ~s.available /\ r # NoReceipt
          /\ \A t \in Trials : RowAsLeft(s.rows[t], left[t])

Sound(s) == Scored(s) /\ HonestTo(s, job, receipt, AsLeft)

CampaignInv == Shapes /\ Progress /\ Sound(summary) /\ Sound(reader.summary)

(***************************************************************************)
(* The directories.                                                        *)
(***************************************************************************)
(* The receipt and the collector read an end, which an entry does not      *)
(* change: equal evidence is an equal result.                              *)
LEMMA EvidenceKeepsResult ==
    ASSUME NEW d, NEW e, TrialDir(d), TrialDir(e), Evidence(d) = Evidence(e)
    PROVE  d.result = e.result
  <1>1. Evidence(d).result = d.result /\ Evidence(e).result = e.result
    BY DEF Evidence, TrialDir, Fields
  <1> QED BY <1>1

(* Equal evidence is an equal state of the trial.                          *)
LEMMA EvidenceKeepsState ==
    ASSUME NEW d, NEW e, TrialDir(d), TrialDir(e), Evidence(d) = Evidence(e)
    PROVE  TrialState(d) = TrialState(e)
  <1>1. d.result = e.result
    BY EvidenceKeepsResult
  <1> QED BY <1>1 DEF TrialState, Ended

(* A run that finished without a trial of its own left no directory: an    *)
(* empty sequence is no function on the trials.                            *)
LEMMA DirectoriesAreThere ==
    ASSUME NEW ds, Directories(ds)
    PROVE  ds # <<>>
  BY TrialsAssumption DEF Directories

(* A runtime leaves its entry alone, an open journal, a cut one, or a      *)
(* journal that its record closes; it writes no marker.                    *)
LEMMA LeavesNoMarker ==
    ASSUME NEW e, DOMAIN e = Fields, e.marker = NoMarker, NEW d \in RuntimeLeaves(e)
    PROVE  DOMAIN d = Fields /\ d.marker = NoMarker
  <1>1. CASE d \in OpenLeaves(e)
    <2>1. CASE d \in {[e EXCEPT !.entry = x] : x \in {"none", "not_started"}}
      BY <2>1 DEF Fields
    <2>2. CASE d \in {[e EXCEPT !.entry = "started", !.journal = j] : j \in OpenJournals}
      BY <2>2 DEF Fields
    <2>3. CASE d \in {[e EXCEPT !.entry = "started", !.journal = <<"run.started", "requested">>, !.torn = TRUE]}
      BY <2>3 DEF Fields
    <2> QED BY <1>1, <2>1, <2>2, <2>3 DEF OpenLeaves
  <1>2. CASE d \in ClosedLeaves(e)
    <2> DEFINE closed(x, s) ==
                  <<"run.started", "requested", x, IF s = "success" THEN "run.completed" ELSE "run.failed">>
    <2>1. PICK j, s : d = Recorded(e, j, s)
      <3>1. d \in {Recorded(e, closed(x, s), s) : x \in Ends, s \in Finals}
        BY <1>2 DEF ClosedLeaves
      <3> HIDE DEF closed
      <3> QED BY <3>1
    <2> QED BY <2>1 DEF Recorded, Fields
  <1> QED BY <1>1, <1>2 DEF RuntimeLeaves

(* The marker of a success is chosen behind the record of one.             *)
LEMMA KindOfSuccess ==
    ASSUME NEW d, Kind(d) = "success_atif"
    PROVE  d.record.state # "absent" /\ d.record.status = "success"
  BY DEF Kind

(* What a runtime and its adapter leave is the directory of a trial: the   *)
(* marker of a success is only written behind a record of one.             *)
LEMMA LeavesTrialDir ==
    ASSUME NEW e, e = [EmptyDir EXCEPT !.config = TRUE],
           NEW d \in RuntimeLeaves(e), NEW w,
           NEW left \in {d, Unmarked(d, w), Marked(d, w)}
    PROVE  TrialDir(left)
  <1>1. DOMAIN e = Fields /\ e.marker = NoMarker
    BY DEF EmptyDir, Fields
  <1>2. DOMAIN d = Fields /\ d.marker = NoMarker
    BY <1>1, LeavesNoMarker
  <1>3. CASE left = d
    BY <1>2, <1>3 DEF TrialDir, MarkerTrue, NoMarker
  <1>4. DOMAIN Unmarked(d, w) = Fields /\ Unmarked(d, w).marker = NoMarker
    BY <1>2 DEF Unmarked, Fields
  <1>5. CASE left = Unmarked(d, w)
    BY <1>4, <1>5 DEF TrialDir, MarkerTrue, NoMarker
  <1>6. CASE left = Marked(d, w)
    <2>1. DOMAIN left = Fields
      BY <1>4, <1>6 DEF Marked
    <2>2. /\ left.marker.kind = Kind(d)
          /\ left.marker.status = IF d.record.state = "absent" THEN "runtime_failure" ELSE d.record.status
      BY <1>4, <1>6 DEF Marked, Fields
    <2> QED BY <2>1, <2>2, KindOfSuccess DEF TrialDir, MarkerTrue
  <1> QED BY <1>3, <1>5, <1>6

(***************************************************************************)
(* The rows.                                                               *)
(***************************************************************************)
(* A row that passes is a row of the one readable result of its trial,     *)
(* with a reward.                                                          *)
LEMMA PassIsReward ==
    ASSUME NEW ds, NEW t, NEW pricing, NEW state, NEW reason
    PROVE  LET r == Row(ds, t, pricing, state, reason)
           IN /\ r.state = state
              /\ r.collector_pass <=>
                    /\ state \notin {"not_started", "incomplete"}
                    /\ Readable(ds, t) /\ ds[t].result \in {"rewarded", "unfinished", "rewarded_late"}
              /\ r.strict_pass <=>
                    /\ r.collector_pass
                    /\ ~Contradicts(ds[t], Official(ds, t)) /\ ArtifactEvidence(ds[t]).direct
  <1>1. Official(ds, t) = "rewarded" <=>
           Readable(ds, t) /\ ds[t].result \in {"rewarded", "unfinished", "rewarded_late"}
    BY DEF Official
  <1> QED BY <1>1 DEF Row

(* A strict pass is the success of the runtime's own record; an exception  *)
(* beside its reward is its bucket and makes it unreliable.                *)
LEMMA StrictRowHolds ==
    ASSUME NEW ds, NEW t, NEW pricing, NEW state, NEW reason, TrialDir(ds[t])
    PROVE  StrictRow(Row(ds, t, pricing, state, reason))
  <1> DEFINE r == Row(ds, t, pricing, state, reason)
             d == ds[t]
  <1> SUFFICES ASSUME r.strict_pass
               PROVE  /\ r.collector_pass /\ r.entry # "not_started"
                      /\ r.usage = "run_record_v2"
                      /\ IF r.exception
                         THEN r.bucket = "action_deadline" /\ ~r.reliable
                         ELSE /\ r.bucket \in {"none", "artifact"}
                              /\ r.reliable <=> r.bucket = "none"
    BY DEF StrictRow
  <1>1. /\ r.collector_pass /\ state \notin {"not_started", "incomplete"}
        /\ Readable(ds, t) /\ d.result \in {"rewarded", "unfinished", "rewarded_late"}
        /\ ~Contradicts(d, Official(ds, t)) /\ ArtifactEvidence(d).direct
    BY PassIsReward
  <1>2. Official(ds, t) = "rewarded"
    BY <1>1 DEF Official
  <1>3. r.entry # "not_started"
    BY <1>1, <1>2 DEF Row, Contradicts
  <1>4. d.marker.kind = "success_atif" /\ Parsed(d) /\ d.record.status = "success"
    <2>1. d.marker.kind = "success_atif" /\ RecordFits(d)
      BY <1>1 DEF ArtifactEvidence, NoArtifacts
    <2> QED BY <2>1 DEF RecordFits, TrialDir, MarkerTrue
  <1>5. r.usage = "run_record_v2"
    BY <1>4 DEF Row, Usage
  <1>6. Runtime(d) = "success"
    BY <1>4 DEF Runtime
  <1>7. Excepted(ds, t) <=> d.result = "rewarded_late"
    BY <1>1 DEF Excepted, ExceptionBucket
  <1>8. Candidates(ds, t) = {t}
    BY <1>1 DEF Readable
  <1>a. Cardinality({t}) = 1
    BY FS_Singleton
  <1>9. r.exception <=> Excepted(ds, t)
    BY DEF Row
  <1>b. r.bucket = Classify(ds, t)
    BY <1>1 DEF Row
  <1>c. CASE Excepted(ds, t)
    <2>1. Classify(ds, t) = "action_deadline"
      BY <1>1, <1>6, <1>7, <1>8, <1>a, <1>c DEF Classify, RuntimeBucket, ExceptionBucket
    <2>2. ~r.reliable
      BY <1>c DEF Row
    <2> QED BY <1>1, <1>3, <1>5, <1>9, <1>b, <1>c, <2>1, <2>2
  <1>d. CASE ~Excepted(ds, t)
    <2>1. Classify(ds, t) = IF ArtifactEvidence(d).success THEN "none" ELSE "artifact"
      BY <1>1, <1>2, <1>6, <1>8, <1>a, <1>d DEF Classify, RuntimeBucket
    <2>2. r.reliable <=> ArtifactEvidence(d).success
      BY <1>1, <1>2, <1>d DEF Row
    <2> QED BY <1>1, <1>3, <1>5, <1>9, <1>b, <1>d, <2>1, <2>2
  <1> QED BY <1>c, <1>d

(* With one readable result the bucket is neither missing nor duplicate.   *)
LEMMA ReadableIsCounted ==
    ASSUME NEW ds, NEW t, NEW pricing, Readable(ds, t)
    PROVE  Row(ds, t, pricing, "none", "none").bucket \notin {"missing", "duplicate"}
  <1>1. Candidates(ds, t) = {t} /\ Cardinality({t}) = 1
    BY FS_Singleton DEF Readable
  <1>2. Classify(ds, t) \notin {"missing", "duplicate"}
    BY <1>1 DEF Classify, RuntimeBucket, Excepted, ExceptionBucket
  <1> QED BY <1>2 DEF Row

(* Only the prices of another model stop a row.                            *)
LEMMA OwnPricesFit ==
    ASSUME NEW t, NEW pricing, pricing # "other"
    PROVE  RowCost(t, pricing) # "pricing_model_mismatch"
  <1>1. \A u : Cost(pricing, u) # "pricing_model_mismatch"
    BY DEF Cost
  <1> QED BY <1>1 DEF RowCost

(***************************************************************************)
(* The summary of a collection.                                            *)
(***************************************************************************)
(* A pass of either kind is counted once, and never a strict one without   *)
(* the official: the counts of a subset of the trials are in order.        *)
LEMMA CountsAreOrdered ==
    ASSUME NEW A, NEW B, A \subseteq B, B \subseteq Trials
    PROVE  Cardinality(A) <= Cardinality(B)
  BY TrialsAssumption, FS_Subset

(* With an accuracy every trial has one readable result that ended, and    *)
(* the official classification and the row agree on it.                    *)
LEMMA AccuracyAgrees ==
    ASSUME NEW end, Accuracy(end), NEW pricing, NEW t \in Trials
    PROVE  /\ Candidates(dirs, t) = {t}
           /\ RowOf(t, pricing, end).bucket \notin {"missing", "duplicate"}
           /\ OfficialResult(t) = "rewarded" <=> RowOf(t, pricing, end).collector_pass
  <1>1. end = "finished" /\ OfficialResult(t) # "invalid"
    BY DEF Accuracy
  <1>2. dirs[t].result # "unfinished" /\ OfficialResult(t) = Official(dirs, t)
    BY <1>1 DEF OfficialResult
  <1>3. Readable(dirs, t)
    BY <1>1, <1>2 DEF Official
  <1>4. RowOf(t, pricing, end) = Row(dirs, t, pricing, "none", "none")
    BY <1>1 DEF RowOf
  <1>5. RowOf(t, pricing, end).collector_pass <=> dirs[t].result \in {"rewarded", "rewarded_late"}
    BY <1>2, <1>3, <1>4, PassIsReward
  <1>6. Official(dirs, t) = "rewarded" <=> dirs[t].result \in {"rewarded", "rewarded_late"}
    BY <1>2, <1>3 DEF Official
  <1> QED BY <1>2, <1>3, <1>4, <1>5, <1>6, ReadableIsCounted DEF Readable

(* Whatever it collects, the summary's scores hold.                        *)
LEMMA SummaryIsScored ==
    ASSUME Directories(dirs), NEW pricing, NEW end
    PROVE  Scored(SummaryOf([t \in Trials |-> RowOf(t, pricing, end)], end))
  <1> DEFINE rs == [t \in Trials |-> RowOf(t, pricing, end)]
             s == SummaryOf(rs, end)
  <1>1. /\ s.rows = rs
        /\ s.available <=> Accuracy(end)
        /\ s.official = Cardinality({t \in Trials : OfficialResult(t) = "rewarded"})
        /\ s.passed = Cardinality({t \in Trials : rs[t].strict_pass})
        /\ s.exact <=> \A t \in Trials : Candidates(dirs, t) = {t} /\ rs[t].bucket \notin {"missing", "duplicate"}
    BY DEF SummaryOf
  <1>2. \A t \in Trials : StrictRow(rs[t])
    <2> TAKE t \in Trials
    <2>1. TrialDir(dirs[t])
      BY DEF Directories
    <2>2. rs[t] = RowOf(t, pricing, end)
      OBVIOUS
    <2> QED BY <2>1, <2>2, StrictRowHolds DEF RowOf
  <1>3. ASSUME Accuracy(end)
        PROVE  /\ s.exact
               /\ s.official = Cardinality({t \in Trials : s.rows[t].collector_pass})
               /\ s.passed <= s.official
    <2>1. \A t \in Trials :
              /\ Candidates(dirs, t) = {t}
              /\ rs[t].bucket \notin {"missing", "duplicate"}
              /\ OfficialResult(t) = "rewarded" <=> rs[t].collector_pass
      BY <1>3, AccuracyAgrees
    <2>2. {t \in Trials : OfficialResult(t) = "rewarded"} = {t \in Trials : rs[t].collector_pass}
      BY <2>1
    <2>3. {t \in Trials : rs[t].strict_pass} \subseteq {t \in Trials : rs[t].collector_pass}
      BY <1>2 DEF StrictRow
    <2>4. s.passed <= s.official
      <3> HIDE DEF rs
      <3> QED BY <1>1, <2>2, <2>3, CountsAreOrdered
    <2> HIDE DEF rs
    <2> QED BY <1>1, <2>1, <2>2, <2>4
  <1>4. \A t \in DOMAIN rs : StrictRow(rs[t])
    BY <1>2
  <1>5. Scored(s)
    <2> HIDE DEF rs, s
    <2> QED BY <1>1, <1>3, <1>4 DEF Scored
  <1> QED BY <1>5

(* The summary of a finished job is without a receipt; that of an          *)
(* interrupted one reads directories whose evidence is still the receipt's.*)
LEMMA SummaryIsHonest ==
    ASSUME CampaignInv, NEW pricing, CollectError(pricing) = "none"
    PROVE  LET end == Termination(pricing)
           IN HonestTo(SummaryOf([t \in Trials |-> RowOf(t, pricing, end)], end), job, receipt, AsLeft)
  <1> DEFINE end == Termination(pricing)
             rs == [t \in Trials |-> RowOf(t, pricing, end)]
             s == SummaryOf(rs, end)
  <1>1. end \in {"finished", "interrupted"}
    <2>1. Termination(pricing) # "none"
      BY DEF Termination
    <2>2. Termination(pricing) \notin {"finished", "interrupted"} => CollectError(pricing) # "none"
      BY <2>1 DEF CollectError
    <2> QED BY <2>2
  <1>2. CASE end = "finished"
    <2>1. job = "finished" /\ receipt.state = "absent"
      BY <1>2 DEF Termination
    <2>2. receipt = NoReceipt
      BY <2>1 DEF CampaignInv, Progress, SealOf
    <2>3. s.status = "complete"
      BY <1>2 DEF SummaryOf
    <2> QED BY <2>1, <2>2, <2>3 DEF HonestTo
  <1>3. CASE end = "interrupted"
    <2>1. receipt.state = "sealed" /\ receipt = InterruptionValue(receipt.reason, pricing)
      BY <1>3 DEF Termination, Validate
    <2>2. receipt # NoReceipt /\ receipt = SealOf
      BY <2>1 DEF CampaignInv, Progress, NoReceipt
    <2>3. s.status = "interrupted" /\ s.rows = rs /\ s.available = FALSE
      BY <1>3 DEF SummaryOf, Accuracy
    <2>4. ASSUME NEW t \in Trials
          PROVE  RowAsLeft(rs[t], AsLeft[t])
      <3>1. receipt.trials[t] = TrialValue(dirs[t], pricing)
        BY <2>1 DEF InterruptionValue
      <3>2. receipt.trials[t] = TrialValue(AsLeft[t], runner.pricing)
        BY <2>2 DEF SealOf
      <3>3. Evidence(dirs[t]) = Evidence(AsLeft[t]) /\ receipt.trials[t].state = TrialState(AsLeft[t])
        BY <3>1, <3>2 DEF TrialValue
      <3>4. TrialDir(dirs[t]) /\ TrialDir(AsLeft[t])
        BY DEF CampaignInv, Shapes, Directories, AsLeft
      <3>5. dirs[t].result = AsLeft[t].result
        BY <3>3, <3>4, EvidenceKeepsResult
      <3>6. rs[t] = Row(dirs, t, pricing, TrialState(AsLeft[t]), receipt.reason)
        BY <1>3, <3>3 DEF RowOf
      <3>7. TrialState(AsLeft[t]) \notin {"not_started", "incomplete"} => AsLeft[t].result # "unfinished"
        BY DEF TrialState, Ended
      <3> HIDE DEF rs
      <3> QED BY <3>5, <3>6, <3>7, PassIsReward DEF RowAsLeft
    <2>5. HonestTo(s, job, receipt, AsLeft)
      <3> HIDE DEF rs, s
      <3> QED BY <2>2, <2>3, <2>4 DEF HonestTo
    <2> QED BY <2>5
  <1> QED BY <1>1, <1>2, <1>3

(* What a summary says of a job stays true as long as a finished job stays *)
(* without a receipt and a receipt stays with the directories it seals.    *)
LEMMA HonestStays ==
    ASSUME NEW s, NEW j, NEW k, NEW r, NEW q, NEW left, NEW later,
           HonestTo(s, j, r, left),
           j = "finished" /\ r = NoReceipt => k = j /\ q = r,
           r # NoReceipt => q = r /\ later = left
    PROVE  HonestTo(s, k, q, later)
  BY DEF HonestTo

(***************************************************************************)
(* The steps.                                                              *)
(***************************************************************************)
(* Before the runner is over nothing is sealed and nothing was changed.    *)
LEMMA NothingSealedYet ==
    ASSUME Progress, runner.pc # "over"
    PROVE  receipt = NoReceipt /\ original = <<>>
  BY DEF Progress

(* A step that publishes or drops a summary, or leaves it, keeps what it   *)
(* says, if it leaves a finished job and a sealed one as they are.         *)
LEMMA SoundStays ==
    ASSUME CampaignInv,
           summary' \in {summary, reader.summary},
           (reader.summary)' \in {reader.summary, NoSummary},
           job = "finished" /\ receipt = NoReceipt => job' = job /\ receipt' = receipt,
           receipt # NoReceipt => receipt' = receipt /\ AsLeft' = AsLeft
    PROVE  Sound(summary)' /\ Sound(reader.summary)'
  <1>1. ASSUME NEW s, Scored(s) /\ HonestTo(s, job, receipt, AsLeft)
        PROVE  HonestTo(s, job', receipt', AsLeft')
    BY <1>1, HonestStays
  <1>2. Scored(NoSummary) /\ HonestTo(NoSummary, job', receipt', AsLeft')
    BY DEF Scored, HonestTo, NoSummary
  <1>3. Scored(summary) /\ Scored(reader.summary)
    BY DEF CampaignInv, Sound
  <1>4. HonestTo(summary, job', receipt', AsLeft') /\ HonestTo(reader.summary, job', receipt', AsLeft')
    BY <1>1 DEF CampaignInv, Sound
  <1>5. Scored(summary') /\ Scored((reader.summary)')
    BY <1>2, <1>3
  <1>6. HonestTo(summary', job', receipt', AsLeft') /\ HonestTo((reader.summary)', job', receipt', AsLeft')
    BY <1>2, <1>4
  <1> QED BY <1>5, <1>6 DEF Sound, Scored

(* The initial state.                                                      *)
LEMMA CampaignStarts ==
    Init => CampaignInv
  <1> SUFFICES ASSUME Init PROVE CampaignInv
    OBVIOUS
  <1>1. TrialDir(EmptyDir)
    BY DEF TrialDir, EmptyDir, Fields, MarkerTrue, NoMarker
  <1>2. Shapes
    BY <1>1 DEF Init, Shapes, RunnerTypes, Steps, Errors, Outcomes, Directories, Idle
  <1>3. Progress
    BY DEF Init, Progress
  <1>4. summary = NoSummary /\ reader.summary = NoSummary
    BY DEF Init, Idle
  <1>5. Sound(NoSummary)
    BY DEF Sound, Scored, HonestTo, NoSummary
  <1> QED BY <1>2, <1>3, <1>4, <1>5 DEF CampaignInv

(* The phase of the agent leaves the directory of a trial behind.          *)
LEMMA AgentLeavesTrialDir ==
    ASSUME NEW t \in Trials, AgentPhase(t)
    PROVE  \E d : TrialDir(d) /\ dirs' = [dirs EXCEPT ![t] = d]
  <1>1. dirs[t] = [EmptyDir EXCEPT !.config = TRUE]
    BY DEF AgentPhase
  <1>2. PICK d \in RuntimeLeaves(dirs[t]), w \in Snapshots \cup {"none"} :
           \E left \in {d, Unmarked(d, w), Marked(d, w)} :
              /\ t \notin Detailed => left = Marked(d, w) /\ d.record.status = "success" /\ w # "none" /\ Steady(d)
              /\ dirs' = [dirs EXCEPT ![t] = left]
    BY DEF AgentPhase
  <1>3. PICK left \in {d, Unmarked(d, w), Marked(d, w)} : dirs' = [dirs EXCEPT ![t] = left]
    BY <1>2
  <1>4. TrialDir(left)
    BY <1>1, LeavesTrialDir
  <1> QED BY <1>3, <1>4

(* A step of the runner, of Harbor or of a publication keeps the shapes.   *)
LEMMA ShapesStay ==
    ASSUME CampaignInv, Next
    PROVE  Shapes'
  <1> USE DEF CampaignInv, Shapes, RunnerTypes, Steps, Errors, Outcomes
  <1>1. CASE Preflight \/ Bind \/ WriteCohort
    BY <1>1 DEF Preflight, Bind, WriteCohort, Over, Directories
  <1>2. CASE JobOpens \/ JobFinishes \/ JobReturns \/ JobRaises \/ Seal
    BY <1>2 DEF JobOpens, JobFinishes, JobReturns, JobRaises, Seal, Over, Directories
  <1>3. ASSUME NEW t \in Trials, NEW d, TrialDir(d), dirs' = [dirs EXCEPT ![t] = d]
        PROVE  Directories(dirs)'
    BY <1>3 DEF Directories
  <1>4. ASSUME NEW t \in Trials, TrialStarts(t) \/ TrialEnds(t) \/ JobNotes(t) \/ AgentPhase(t) \/ Alter(t)
        PROVE  Directories(dirs)'
    <2>0. TrialDir(dirs[t])
      BY DEF Directories
    <2>1. CASE TrialStarts(t)
      <3>1. TrialDir([dirs[t] EXCEPT !.config = TRUE])
        BY <2>0 DEF TrialDir, MarkerTrue, Fields
      <3>2. dirs' = [dirs EXCEPT ![t] = [dirs[t] EXCEPT !.config = TRUE]]
        BY <2>1 DEF TrialStarts, Directories
      <3> QED BY <1>3, <3>1, <3>2
    <2>2. CASE TrialEnds(t)
      <3>1. PICK r \in Results : dirs' = [dirs EXCEPT ![t].result = r]
        BY <2>2 DEF TrialEnds
      <3>2. TrialDir([dirs[t] EXCEPT !.result = r])
        BY <2>0 DEF TrialDir, MarkerTrue, Fields
      <3>3. dirs' = [dirs EXCEPT ![t] = [dirs[t] EXCEPT !.result = r]]
        BY <3>1 DEF Directories
      <3> QED BY <1>3, <3>2, <3>3
    <2>3. CASE JobNotes(t)
      BY <2>3 DEF JobNotes, Directories
    <2>4. CASE AgentPhase(t)
      BY <1>3, <2>4, AgentLeavesTrialDir
    <2>5. CASE Alter(t)
      <3>1. PICK d \in {[dirs[t] EXCEPT !.result = r] : r \in Edits}
                \cup {[dirs[t] EXCEPT !.entry = "none"], [dirs[t] EXCEPT !.torn = TRUE],
                      [dirs[t] EXCEPT !.workspace = "none"], [dirs[t] EXCEPT !.marker = NoMarker]} :
               dirs' = [dirs EXCEPT ![t] = d]
        BY <2>5 DEF Alter
      <3>2. TrialDir(d)
        <4>1. CASE d \in {[dirs[t] EXCEPT !.result = r] : r \in Edits}
          BY <2>0, <4>1 DEF TrialDir, MarkerTrue, Fields
        <4>2. CASE d \in {[dirs[t] EXCEPT !.entry = "none"], [dirs[t] EXCEPT !.torn = TRUE],
                          [dirs[t] EXCEPT !.workspace = "none"]}
          BY <2>0, <4>2 DEF TrialDir, MarkerTrue, Fields
        <4>3. CASE d = [dirs[t] EXCEPT !.marker = NoMarker]
          BY <2>0, <4>3 DEF TrialDir, MarkerTrue, Fields, NoMarker
        <4> QED BY <3>1, <4>1, <4>2, <4>3
      <3> QED BY <1>3, <3>1, <3>2
    <2> QED BY <1>4, <2>1, <2>2, <2>3, <2>4, <2>5
  <1>5. CASE \E t \in Trials : TrialStarts(t) \/ AgentPhase(t) \/ TrialEnds(t) \/ JobNotes(t)
    <2>1. UNCHANGED <<runner, job, original, reader>>
      BY <1>5 DEF TrialStarts, AgentPhase, TrialEnds, JobNotes
    <2>2. Directories(dirs)'
      BY <1>4, <1>5
    <2> QED BY <2>1, <2>2 DEF Directories
  <1>6. CASE \E t \in Trials : Alter(t)
    <2>1. UNCHANGED <<runner, job, reader>> /\ original' = dirs
      BY <1>6 DEF Alter
    <2>2. Directories(dirs)'
      BY <1>4, <1>6
    <2>3. Directories(original)'
      BY <2>1 DEF Directories
    <2> QED BY <2>1, <2>2, <2>3
  <1>7. CASE RunnerCollects \/ OperatorCollects
    BY <1>7 DEF RunnerCollects, OperatorCollects, Collect, Directories
  <1>8. CASE PublishRows \/ PublishSummary \/ Kill \/ OperatorStops
    BY <1>8 DEF PublishRows, PublishSummary, Kill, OperatorStops, Idle, Directories
  <1> QED BY <1>1, <1>2, <1>5, <1>6, <1>7, <1>8 DEF Next

(* What an operator changes in a directory the run has left is kept apart  *)
(* from what the run left.                                                 *)
LEMMA AlterKeepsTheOriginal ==
    ASSUME Directories(dirs), NEW t \in Trials, Alter(t)
    PROVE  AsLeft' = AsLeft
  <1>1. original = <<>> /\ original' = dirs
    BY DEF Alter
  <1>2. dirs # <<>>
    BY DirectoriesAreThere
  <1> QED BY <1>1, <1>2 DEF AsLeft

(* Outside the job, the seal and an alteration everything the receipt was  *)
(* derived from stays as it is.                                            *)
LEMMA SealStays ==
    ASSUME Progress, UNCHANGED <<receipt, stat, job, files>>, AsLeft' = AsLeft,
           runner'.pricing = runner.pricing, runner'.outcome = runner.outcome
    PROVE  /\ runner'.outcome = "finished" => job' = "finished" /\ "dispatch" \in files'
           /\ runner'.outcome = "interrupted" <=> receipt' # NoReceipt
           /\ receipt' # NoReceipt => job' = "open" /\ "dispatch" \in files' /\ receipt' = SealOf'
  <1>1. SealOf' = SealOf
    BY DEF SealOf
  <1> QED BY <1>1 DEF Progress

(* A step keeps the files that go with each step of the runner.            *)
LEMMA ProgressStays ==
    ASSUME CampaignInv, Next
    PROVE  Progress'
  <1>0. Shapes /\ Progress
    BY DEF CampaignInv
  <1>a. runner \in [pc : Steps, pricing : Pricings, error : Errors, outcome : Outcomes]
    BY <1>0 DEF Shapes, RunnerTypes
  <1>1. CASE Preflight \/ Bind \/ WriteCohort
    <2>1. receipt = NoReceipt /\ original = <<>>
      BY <1>0, <1>1, NothingSealedYet DEF Preflight, Bind, WriteCohort
    <2> QED BY <1>0, <1>a, <1>1, <2>1 DEF Preflight, Bind, WriteCohort, Over, Progress
  <1>2. CASE JobOpens \/ JobFinishes \/ JobReturns \/ JobRaises
    <2>1. receipt = NoReceipt /\ original = <<>>
      BY <1>0, <1>2, NothingSealedYet DEF JobOpens, JobFinishes, JobReturns, JobRaises
    <2> QED BY <1>0, <1>a, <1>2, <2>1 DEF JobOpens, JobFinishes, JobReturns, JobRaises, Progress
  <1>3. CASE Seal
    <2>1. receipt = NoReceipt /\ original = <<>> /\ receipt.state = "absent"
      BY <1>0, <1>3, NothingSealedYet DEF Seal, NoReceipt
    <2>2. /\ runner'.pc = "over" /\ runner'.pricing = runner.pricing
          /\ runner'.outcome = (IF Sealable THEN "interrupted" ELSE "unsealed")
          /\ UNCHANGED <<files, job, stat, dirs, original>>
      BY <1>a, <1>3, <2>1 DEF Seal, Over
    <2>3. receipt' = IF Sealable THEN InterruptionValue(runner.error, runner.pricing) ELSE receipt
      BY <1>3, <2>1 DEF Seal
    <2>4. CASE Sealable
      <3>1. receipt'.state = "sealed" /\ receipt'.reason = runner.error
        BY <2>3, <2>4 DEF InterruptionValue
      <3>2. receipt' # NoReceipt
        BY <3>1 DEF NoReceipt
      <3>3. AsLeft' = dirs
        BY <2>1, <2>2 DEF AsLeft
      <3>4. receipt' = SealOf'
        BY <2>2, <2>3, <2>4, <3>1, <3>3 DEF InterruptionValue, SealOf
      <3> QED BY <2>2, <2>4, <3>2, <3>4 DEF Progress, Sealable
    <2>5. CASE ~Sealable
      BY <2>1, <2>2, <2>3, <2>5 DEF Progress
    <2> QED BY <2>4, <2>5
  <1>4. CASE \E t \in Trials : TrialStarts(t) \/ AgentPhase(t) \/ TrialEnds(t) \/ JobNotes(t)
    <2>1. UNCHANGED <<runner, files, job, receipt, original>> /\ runner.pc = "job"
      BY <1>4 DEF TrialStarts, AgentPhase, TrialEnds, JobNotes
    <2>2. receipt = NoReceipt /\ original = <<>>
      BY <1>0, <2>1, NothingSealedYet
    <2> QED BY <1>0, <2>1, <2>2 DEF Progress
  <1>5. CASE \E t \in Trials : Alter(t)
    <2>1. UNCHANGED <<runner, files, job, stat, receipt>> /\ runner.pc = "over"
      BY <1>5 DEF Alter
    <2>2. AsLeft' = AsLeft
      BY <1>0, <1>5, AlterKeepsTheOriginal DEF Shapes
    <2> QED BY <1>0, <2>1, <2>2, SealStays DEF Progress
  <1>6. CASE RunnerCollects \/ OperatorCollects
    <2>1. UNCHANGED <<files, job, stat, dirs, receipt, original>>
      BY <1>6 DEF RunnerCollects, OperatorCollects
    <2>2. \/ runner' = runner
          \/ runner.pc = "collect" /\ runner' \in {[runner EXCEPT !.pc = x] : x \in {"publish", "over"}}
      BY <1>6 DEF RunnerCollects, OperatorCollects
    <2>3. runner'.pricing = runner.pricing /\ runner'.outcome = runner.outcome
      BY <1>a, <2>2
    <2>4. AsLeft' = AsLeft
      BY <2>1 DEF AsLeft
    <2> QED BY <1>0, <1>a, <2>1, <2>2, <2>3, <2>4, SealStays DEF Progress
  <1>7. CASE PublishRows \/ PublishSummary \/ OperatorStops
    <2>1. UNCHANGED <<files, job, stat, dirs, receipt, original>>
      BY <1>7 DEF PublishRows, PublishSummary, OperatorStops
    <2>2. runner' = runner \/ runner' = [runner EXCEPT !.pc = "over"]
      BY <1>7 DEF PublishRows, PublishSummary, OperatorStops
    <2>3. runner'.pricing = runner.pricing /\ runner'.outcome = runner.outcome
      BY <1>a, <2>2
    <2>4. AsLeft' = AsLeft
      BY <2>1 DEF AsLeft
    <2> QED BY <1>0, <1>a, <2>1, <2>2, <2>3, <2>4, SealStays DEF Progress
  <1>8. CASE Kill
    <2>1. receipt = NoReceipt /\ original = <<>>
      BY <1>0, <1>8, NothingSealedYet DEF Kill
    <2> QED BY <1>0, <1>a, <1>8, <2>1 DEF Kill, Progress
  <1> QED BY <1>1, <1>2, <1>3, <1>4, <1>5, <1>6, <1>7, <1>8 DEF Next

(* A step keeps what the summaries say.                                    *)
LEMMA SummariesStay ==
    ASSUME CampaignInv, Next
    PROVE  Sound(summary)' /\ Sound(reader.summary)'
  <1>0. Shapes /\ Progress
    BY DEF CampaignInv
  <1>1. CASE \/ Preflight \/ Bind \/ WriteCohort \/ JobOpens \/ JobFinishes \/ JobReturns \/ JobRaises
             \/ \E t \in Trials : TrialStarts(t) \/ AgentPhase(t) \/ TrialEnds(t) \/ JobNotes(t)
    <2>1. UNCHANGED <<receipt, summary, reader>> /\ runner.pc # "over" /\ (job = "finished" => job' = job)
      BY <1>1 DEF Preflight, Bind, WriteCohort, JobOpens, JobFinishes, JobReturns, JobRaises,
                  TrialStarts, AgentPhase, TrialEnds, JobNotes
    <2>2. receipt = NoReceipt
      BY <1>0, <2>1, NothingSealedYet
    <2> QED BY <2>1, <2>2, SoundStays
  <1>2. CASE Seal
    <2>1. UNCHANGED <<job, summary, reader>> /\ runner.pc # "over"
      BY <1>2 DEF Seal
    <2>2. receipt = NoReceipt
      BY <1>0, <2>1, NothingSealedYet
    <2>3. receipt.state = "absent"
      BY <2>2 DEF NoReceipt
    <2>4. job = "finished" => receipt' = receipt
      BY <1>2, <2>3 DEF Seal, Sealable
    <2> QED BY <2>1, <2>2, <2>4, SoundStays
  <1>3. CASE \E t \in Trials : Alter(t)
    <2>1. UNCHANGED <<job, receipt, summary, reader>>
      BY <1>3 DEF Alter
    <2>2. AsLeft' = AsLeft
      BY <1>0, <1>3, AlterKeepsTheOriginal DEF Shapes
    <2> QED BY <2>1, <2>2, SoundStays
  <1>4. CASE PublishRows \/ PublishSummary \/ Kill \/ OperatorStops
    <2>1. UNCHANGED <<job, receipt, dirs, original>>
      BY <1>4 DEF PublishRows, PublishSummary, Kill, OperatorStops
    <2>2. summary' \in {summary, reader.summary} /\ (reader.summary)' \in {reader.summary, NoSummary}
      BY <1>0, <1>4 DEF PublishRows, PublishSummary, Kill, OperatorStops, Idle, Shapes
    <2>3. AsLeft' = AsLeft
      BY <2>1 DEF AsLeft
    <2> QED BY <2>1, <2>2, <2>3, SoundStays
  <1>5. ASSUME NEW p, CollectError(p) = "none", NEW who, Collect(who, p),
               UNCHANGED <<job, receipt, dirs, original, summary>>
        PROVE  Sound(summary)' /\ Sound(reader.summary)'
    <2> DEFINE s == SummaryOf([t \in Trials |-> RowOf(t, p, Termination(p))], Termination(p))
    <2>1. (reader.summary)' = s
      BY <1>5 DEF Collect
    <2>2. Scored(s)
      BY <1>0, SummaryIsScored DEF Shapes
    <2>3. HonestTo(s, job, receipt, AsLeft)
      BY <1>5, SummaryIsHonest
    <2>4. AsLeft' = AsLeft
      BY <1>5 DEF AsLeft
    <2>5. Sound(summary)
      BY DEF CampaignInv
    <2> HIDE DEF s
    <2> QED BY <1>5, <2>1, <2>2, <2>3, <2>4, <2>5 DEF Sound, Scored, HonestTo
  <1>6. CASE RunnerCollects
    <2>1. CASE CollectError(runner.pricing) = "none"
      BY <1>5, <1>6, <2>1 DEF RunnerCollects
    <2>2. CASE CollectError(runner.pricing) # "none"
      <3>1. UNCHANGED <<job, receipt, dirs, original, summary, reader>>
        BY <1>6, <2>2 DEF RunnerCollects
      <3>2. AsLeft' = AsLeft
        BY <3>1 DEF AsLeft
      <3> QED BY <3>1, <3>2, SoundStays
    <2> QED BY <2>1, <2>2
  <1>7. CASE OperatorCollects
    <2>1. PICK p \in Pricings : CollectError(p) = "none" /\ Collect("operator", p)
      BY <1>7 DEF OperatorCollects
    <2>2. UNCHANGED <<job, receipt, dirs, original, summary>>
      BY <1>7 DEF OperatorCollects
    <2> QED BY <1>5, <2>1, <2>2
  <1> QED BY <1>1, <1>2, <1>3, <1>4, <1>6, <1>7 DEF Next

(***************************************************************************)
(* The theorems.                                                           *)
(***************************************************************************)
(* The inductive invariant: shapes, the files at each step, the receipt as *)
(* the seal of what the run left, and sound summaries.                     *)
THEOREM CampaignInvariant ==
    Spec => []CampaignInv
  <1>1. Init => CampaignInv
    BY CampaignStarts
  <1>2. CampaignInv /\ [Next]_vars => CampaignInv'
    <2> SUFFICES ASSUME CampaignInv, [Next]_vars PROVE CampaignInv'
      OBVIOUS
    <2>1. CASE Next
      BY <2>1, ShapesStay, ProgressStays, SummariesStay DEF CampaignInv
    <2>2. CASE UNCHANGED vars
      BY <2>2 DEF vars, CampaignInv, Shapes, Directories, Progress, SealOf, AsLeft, Sound, Scored, HonestTo
    <2> QED BY <2>1, <2>2
  <1> QED BY <1>1, <1>2, PTL DEF Spec

(* A summary of an interrupted job counts nothing that changed after the   *)
(* receipt: a summary is only ever derived from directories whose evidence *)
(* is the receipt's, and the receipt stays the seal of what the run left.  *)
THEOREM InterruptionsAreHonest ==
    Spec => []InterruptionHonest
  <1>1. CampaignInv => InterruptionHonest
    BY DEF CampaignInv, Sound, HonestTo, RowAsLeft, Progress, InterruptionHonest
  <1> QED BY <1>1, CampaignInvariant, PTL

(* The two derivations of a score, from the official result and from the   *)
(* row, agree whenever the summary gives an accuracy, for every set of     *)
(* trials; a strict pass is the success of the runtime's own record, and   *)
(* with an exception beside its reward it is never a reliable row.         *)
THEOREM ScoresAgree ==
    Spec => []ScoreAgrees
  <1>1. CampaignInv => ScoreAgrees
    BY DEF CampaignInv, Sound, Scored, StrictRow, ScoreAgrees
  <1> QED BY <1>1, CampaignInvariant, PTL

(* A run that ended in order can be collected with its own prices, and one *)
(* that was killed while it was open never can.                            *)
THEOREM OrderlyRunsAreCollectable ==
    Spec => []Collectable
  <1>1. ASSUME CampaignInv, runner.pc = "over", original = <<>>,
               runner.outcome \in {"finished", "interrupted"}, runner.pricing # "other"
        PROVE  CollectError(runner.pricing) = "none"
    <2>1. Progress
      BY <1>1 DEF CampaignInv
    <2>2. "dispatch" \in files
      BY <1>1, <2>1 DEF Progress
    <2>3. Termination(runner.pricing) \in {"finished", "interrupted"}
      <3>1. CASE runner.outcome = "finished"
        <4>1. job = "finished" /\ receipt = NoReceipt
          BY <2>1, <3>1 DEF Progress
        <4> QED BY <4>1 DEF Termination, NoReceipt
      <3>2. CASE runner.outcome = "interrupted"
        <4>1. job = "open" /\ receipt = SealOf
          BY <2>1, <3>2 DEF Progress
        <4>2. receipt.state = "sealed"
          BY <4>1 DEF SealOf
        <4>3. SealOf = InterruptionValue(receipt.reason, runner.pricing)
          BY <1>1 DEF SealOf, InterruptionValue, AsLeft
        <4>4. Validate(runner.pricing)
          BY <2>2, <4>1, <4>3 DEF Validate, Sealable
        <4> QED BY <4>1, <4>2, <4>4 DEF Termination
      <3> QED BY <1>1, <3>1, <3>2
    <2>4. \A t \in Trials : RowCost(t, runner.pricing) # "pricing_model_mismatch"
      BY <1>1, OwnPricesFit
    <2> QED BY <2>2, <2>3, <2>4 DEF CollectError
  <1>2. ASSUME CampaignInv, runner.outcome = "killed", job # "finished", NEW p \in Pricings
        PROVE  CollectError(p) # "none"
    <2>1. receipt = NoReceipt
      BY <1>2 DEF CampaignInv, Progress
    <2>2. Termination(p) = "job_not_terminal"
      BY <1>2, <2>1 DEF Termination, NoReceipt
    <2> QED BY <2>2 DEF CollectError
  <1>3. CampaignInv => Collectable
    BY <1>1, <1>2 DEF Collectable
  <1> QED BY <1>3, CampaignInvariant, PTL
=============================================================================
