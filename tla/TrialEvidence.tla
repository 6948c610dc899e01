---------------------------- MODULE TrialEvidence ---------------------------
(***************************************************************************)
(* How the collector of the campaign reads the directory of one trial: the *)
(* journal, the run record, the published marker and what it binds, the    *)
(* official result, and the row they make.  A directory is a record with a *)
(* field per file; a digest that binds a file is the file's content.       *)
(***************************************************************************)
EXTENDS Naturals, Sequences, FiniteSets

CONSTANTS
    Ends,        \* bound: how a provider call may end in the journal
    Finals,      \* bound: the terminal statuses of a runtime
    Snapshots    \* bound: the workspace receipts a capture may leave

ASSUME EndsAssumption == Ends \subseteq {"priced", "plain", "bare", "garbled", "failed"}
ASSUME FinalsAssumption == Finals \subseteq {"success", "provider_failure", "tool_failure"}
ASSUME SnapshotsAssumption == Snapshots \subseteq {"complete", "truncated", "failed"}

NoTotals == [requested |-> 0, open |-> 0, covered |-> 0, priced |-> 0, valid |-> TRUE]
Garbled == [NoTotals EXCEPT !.valid = FALSE]
NoRecord == [state |-> "absent", status |-> "none", journal |-> <<>>, totals |-> NoTotals]
NoMarker == [kind |-> "none", status |-> "none", journal |-> <<>>, torn |-> FALSE, trajectory |-> "none",
             usage |-> NoTotals, workspace |-> "none"]
EmptyDir == [config |-> FALSE, entry |-> "none", journal |-> <<>>, torn |-> FALSE, record |-> NoRecord,
             trajectory |-> "none", usage |-> NoTotals, workspace |-> "none", marker |-> NoMarker,
             result |-> "none"]

(***************************************************************************)
(* The journal: its provider calls, and whether its prefix is well formed. *)
(***************************************************************************)
Settled == {"priced", "plain", "bare", "garbled", "failed"}
Terminal == {"run.completed", "run.failed"}
Count(j, S) == Cardinality({i \in DOMAIN j : j[i] \in S})

(* no file, a line that is cut, or events in an order no run produces      *)
EventsState(d) ==
    IF d.journal = <<>> THEN IF d.torn THEN "invalid" ELSE "absent"
    ELSE LET j == d.journal
             upto(i, S) == Cardinality({k \in 1..i : j[k] \in S})
         IN IF /\ ~d.torn
               /\ j[1] = "run.started"
               /\ \A i \in DOMAIN j : upto(i, Settled) <= upto(i, {"requested"})
               /\ \A i \in DOMAIN j : j[i] \in Terminal => i = Len(j)
            THEN "valid" ELSE "invalid"

PrefixTotals(j) ==
    [requested |-> Count(j, {"requested"}), open |-> Count(j, {"requested"}) - Count(j, Settled),
     covered |-> Count(j, {"priced", "plain"}), priced |-> Count(j, {"priced"}),
     valid |-> Count(j, {"garbled"}) = 0]

(***************************************************************************)
(* The run record counts only with the journal that it was written for.    *)
(***************************************************************************)
Parsed(d) ==
    /\ d.record.state = "written" /\ EventsState(d) = "valid"
    /\ d.record.journal = d.journal
    /\ d.record.totals = PrefixTotals(d.journal)
    /\ d.journal[Len(d.journal)] = (IF d.record.status = "success" THEN "run.completed" ELSE "run.failed")

RecordState(d) ==
    CASE d.record.state = "absent" -> "absent"
      [] d.record.state # "absent" /\ Parsed(d) -> "valid"
      [] OTHER -> "invalid"

(***************************************************************************)
(* The marker and everything that it binds.                                *)
(***************************************************************************)
NoArtifacts == [success |-> FALSE, direct |-> FALSE, diagnostic |-> FALSE, publication |-> FALSE,
                trajectory |-> FALSE, complete |-> FALSE, usage |-> FALSE]

(* an emergency publication is one without a run record                    *)
RecordFits(d) ==
    IF d.marker.kind = "emergency_atif" THEN RecordState(d) = "absent"
    ELSE Parsed(d) /\ d.marker.status = d.record.status

UsageFits(d) ==
    /\ d.usage = d.marker.usage
    /\ Parsed(d) => d.usage = d.record.totals

(* the bytes of the journal, well formed or not                            *)
JournalFits(d) == d.journal = d.marker.journal /\ d.torn = d.marker.torn

WorkspaceFits(d) == d.marker.workspace = "none" \/ d.marker.workspace = d.workspace

ArtifactEvidence(d) ==
    IF d.marker.kind = "none" \/ ~(JournalFits(d) /\ RecordFits(d)) THEN NoArtifacts
    ELSE LET bound == d.marker.workspace # "none" /\ WorkspaceFits(d)
             trajectory == d.trajectory = d.marker.trajectory
             package == trajectory /\ UsageFits(d) /\ WorkspaceFits(d)
         IN IF d.marker.kind = "success_atif"
            THEN [success |-> package /\ bound /\ d.workspace \in {"complete", "truncated"},
                  direct |-> package, diagnostic |-> package, publication |-> TRUE,
                  trajectory |-> trajectory, complete |-> bound /\ d.workspace = "complete",
                  usage |-> UsageFits(d)]
            ELSE IF ~package THEN NoArtifacts
            ELSE [NoArtifacts EXCEPT !.diagnostic = TRUE, !.publication = TRUE, !.trajectory = TRUE,
                                     !.complete = bound /\ d.workspace = "complete", !.usage = TRUE]

(* _runtime_evidence: the record, else the status of a valid package       *)
Runtime(d) ==
    CASE Parsed(d) -> d.record.status
      [] ~Parsed(d) /\ ArtifactEvidence(d).diagnostic -> d.marker.status
      [] OTHER -> "none"

(* the record, the bound receipt, the journal, in this order               *)
Usage(d) ==
    IF Parsed(d) THEN [totals |-> d.record.totals, source |-> "run_record_v2"]
    ELSE IF ArtifactEvidence(d).usage THEN [totals |-> d.usage, source |-> "usage_receipt_v2"]
    ELSE IF EventsState(d) = "valid" THEN [totals |-> PrefixTotals(d.journal), source |-> "event_prefix"]
    ELSE IF EventsState(d) = "invalid" THEN [totals |-> Garbled, source |-> "event_prefix"]
    ELSE IF RecordState(d) = "invalid" THEN [totals |-> Garbled, source |-> "run_record"]
    ELSE [totals |-> NoTotals, source |-> "unavailable"]

(* the runtime entry is read from its own file; none counts as invalid     *)
EntryState(d) == IF d.entry \in {"started", "not_started"} THEN d.entry ELSE "invalid"

(***************************************************************************)
(* The cost of a row.  Prices of another model are an error of the whole   *)
(* collection, but only where a price is needed.                           *)
(***************************************************************************)
Cost(pricing, t) ==
    CASE ~t.valid -> "invalid_provider_ticks"
      [] t.valid /\ t.requested > 0 /\ t.priced = t.requested -> "provider_ticks"
      [] t.valid /\ t.priced > 0 /\ t.priced # t.requested -> "partial_provider_ticks"
      [] t.valid /\ t.priced = 0 /\ (pricing = "none" \/ t.requested = 0 \/ t.covered = 0) -> "unavailable"
      [] OTHER -> IF pricing = "other" THEN "pricing_model_mismatch" ELSE "dated_pricing_fallback"

(***************************************************************************)
(* The official results.  A result belongs to the trial that it names; a   *)
(* result in another trial's directory is a candidate with an error.  An   *)
(* unfinished result has a reward and no end.  A result may carry Harbor's *)
(* exception: alone, of a verifier that timed out, or of an agent that     *)
(* timed out beside the reward of the verifier that ran after it.          *)
(***************************************************************************)
ExceptionBucket ==
    [errored |-> "uncertain", timed_out |-> "verifier_timeout",
     rewarded_late |-> "action_deadline", zero_late |-> "action_deadline"]

Bound(r) == r \in {"rewarded", "unfinished", "zero"} \cup DOMAIN ExceptionBucket

(* the directories whose result names t                                    *)
Candidates(ds, t) ==
    {u \in DOMAIN ds : IF u = t THEN ds[u].result \notin {"none", "misnamed"} ELSE ds[u].result = "misnamed"}

Readable(ds, t) == Candidates(ds, t) = {t} /\ Bound(ds[t].result)

Official(ds, t) ==
    IF ~Readable(ds, t) THEN "invalid"
    ELSE CASE ds[t].result \in {"rewarded", "unfinished", "rewarded_late"} -> "rewarded"
           [] ds[t].result \in {"zero", "zero_late"} -> "zero"
           [] OTHER -> "errored"

(* the exception of a result, which the score never looks at               *)
Excepted(ds, t) == Readable(ds, t) /\ ds[t].result \in DOMAIN ExceptionBucket

(***************************************************************************)
(* The bucket of a row: the inventory, then what the runtime says, then    *)
(* the exception of the result says, then its reward, then the artifacts.  *)
(***************************************************************************)
RuntimeBucket ==
    [provider_failure |-> "provider", tool_failure |-> "tool_transport", runtime_failure |-> "environment_infra"]

Classify(ds, t) ==
    LET held == Candidates(ds, t)
        runtime == Runtime(ds[t])
    IN IF held = {} THEN "missing"
       ELSE IF Cardinality(held) > 1 THEN "duplicate"
       ELSE IF ~Readable(ds, t) THEN "environment_infra"
       ELSE IF runtime \in DOMAIN RuntimeBucket THEN RuntimeBucket[runtime]
       ELSE IF Excepted(ds, t) THEN ExceptionBucket[ds[t].result]
       ELSE IF Official(ds, t) = "zero" THEN "agent_semantic"
       ELSE IF ArtifactEvidence(ds[t]).success THEN "none" ELSE "artifact"

InterruptionBucket == [operator_interrupted |-> "cancelled", runner_exception |-> "environment_infra"]

(* a reward for a runtime that was never entered                           *)
Contradicts(d, official) == EntryState(d) = "not_started" /\ official = "rewarded"

(* the row of trial t; state and reason are what an interruption's receipt *)
(* says of it, "none" when the job finished                                *)
Row(ds, t, pricing, state, reason) ==
    LET d == ds[t]
        art == ArtifactEvidence(d)
        official == Official(ds, t)
        before == state \in {"not_started", "incomplete"}
        sound == ~before /\ Readable(ds, t)
        pass == sound /\ official = "rewarded"
    IN [entry |-> EntryState(d), state |-> state,
        bucket |-> IF before THEN InterruptionBucket[reason]
                   ELSE IF Contradicts(d, official) THEN "environment_infra"
                   ELSE Classify(ds, t),
        collector_pass |-> pass,
        strict_pass |-> pass /\ ~Contradicts(d, official) /\ art.direct,
        exception |-> Excepted(ds, t),
        reliable |-> /\ sound /\ ~Excepted(ds, t) /\ official \in {"rewarded", "zero"}
                     /\ art.success /\ ~Contradicts(d, official),
        measured |-> sound /\ art.diagnostic /\ art.complete /\ art.usage /\ Runtime(d) # "none",
        publication |-> art.publication, usage |-> Usage(d).source,
        cost |-> Cost(pricing, Usage(d).totals)]
=============================================================================
