-------------------------- MODULE SnapshotFailure ---------------------------
(***************************************************************************)
(* How a failed workspace capture is classified.  A failure carries the    *)
(* boundary it happened at and the proofs gathered about the remote side:  *)
(* the staging directory was named, the scan terminated, the staging       *)
(* directory was removed, no process of the scan is left.  A closed        *)
(* allowlist of tuples decides whether the trial may go on without a       *)
(* snapshot and whether the capture is tried a second time.                *)
(***************************************************************************)

NoProof == [stage |-> FALSE, term |-> FALSE, clean |-> FALSE, zero |-> FALSE]

AllProved(p) == p.stage /\ p.term /\ p.clean /\ p.zero

(* at, category, subtype and timeout origin name the boundary; bound: the  *)
(* reply's outer frame was wrong and the execution binding was verified    *)
Failure(at, category, subtype, origin, bound) ==
    [at |-> at, category |-> category, subtype |-> subtype, origin |-> origin, bound |-> bound]

(* what exec_snapshot_owned raises                                         *)
LostTransport == Failure("remote-exec", "connection", "wait_transport_failed", "not_a_timeout", FALSE)
TimedOut(origin) == Failure("remote-exec", "timeout", "wait_transport_failed", origin, FALSE)
BadResponse(bound) == Failure("remote-exec", "internal", "wait_response_invalid", "not_a_timeout", bound)
BadTerminal == Failure("remote-exec", "internal", "terminal_record_invalid", "not_a_timeout", FALSE)

ExecFailures ==
    {LostTransport, BadTerminal, BadResponse(TRUE), BadResponse(FALSE),
     TimedOut("semantic"), TimedOut("recovered")}

(* the host's own boundaries, after _typed_failure chose their subtype     *)
SetupFailed == Failure("remote-exec", "internal", "owned_stage_setup_failed", "not_a_timeout", FALSE)
ScanFailed == Failure("remote-command", "command", "unknown_internal", "not_a_timeout", FALSE)
DownloadLost == Failure("download", "connection", "output_download_failed", "not_a_timeout", FALSE)
DownloadSlow == Failure("download", "timeout", "output_download_failed", "unrecovered", FALSE)
ParseFailed == Failure("parse", "parse", "host_evidence_parse_failed", "not_a_timeout", FALSE)
OutOfTime == Failure("parse", "timeout", "host_evidence_parse_failed", "unrecovered", FALSE)
Unverified == Failure("remote-exec", "internal", "recovery_unverified", "not_a_timeout", FALSE)
StageKept == Failure("cleanup", "internal", "stage_cleanup_failed", "not_a_timeout", FALSE)
Evidence == Failure("host-evidence", "evidence", "host_evidence_materialization_failed", "not_a_timeout", FALSE)
NotPublished == Failure("publish", "os_error", "unknown_internal", "not_a_timeout", FALSE)
CleanupLate == Failure("publish", "timeout", "unknown_internal", "unrecovered", FALSE)
Stopped == Failure("remote-exec", "cancelled", "wait_transport_failed", "not_a_timeout", FALSE)

(* workspace_failure_disposition for the capture codes of phase            *)
Allowed(phase) ==
    {"wait_transport_failed", "wait_response_invalid"}
        \cup IF phase = "after" THEN {"host_evidence_parse_failed", "host_evidence_materialization_failed"} ELSE {}

Disposition(phase, f, p) ==
    IF /\ f.category # "cancelled"
       /\ AllProved(p) /\ f.subtype \in Allowed(phase)
       /\ CASE f.subtype = "wait_transport_failed" ->
                 f.at = "remote-exec" /\ f.category = "timeout" /\ f.origin \in {"semantic", "recovered"}
            [] f.subtype = "wait_response_invalid" ->
                 f.at = "remote-exec" /\ f.category = "internal" /\ f.origin = "not_a_timeout" /\ f.bound
            [] f.subtype = "host_evidence_parse_failed" ->
                 f.at = "parse" /\ f.category = "parse" /\ f.origin = "not_a_timeout"
            [] OTHER ->
                 f.at = "host-evidence" /\ f.category = "evidence" /\ f.origin = "not_a_timeout"
    THEN "continue" ELSE "fatal"

(* _snapshot_failure_retryable and the flag transient                      *)
Retryable(f) ==
    /\ f.category = "connection" /\ f.origin = "not_a_timeout"
    /\ \/ f.subtype = "wait_transport_failed" /\ f.at = "remote-exec"
       \/ f.subtype = "output_download_failed" /\ f.at = "download"
=============================================================================
