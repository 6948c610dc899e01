-------------------------- MODULE SettledArtifacts --------------------------
(***************************************************************************)
(* What the artifact directory of a run promises to its readers (the       *)
(* artifactizer, the benchmark runner): run.json is the last file to       *)
(* appear, it appears once, never over another file, and from then on the  *)
(* journal is the complete one that run.json binds.  EventWriter is the    *)
(* detailed specification that implements this one.                        *)
(***************************************************************************)
EXTENDS Sequences, Naturals

VARIABLES
    log,     \* events.jsonl: [state, data]
    marker   \* run.json: [state, data], data being the journal it binds

Absent == marker.state = "none"
Published == marker.state = "own"

\* The journal ends with the newline of a terminal event.
Complete(data) ==
    /\ data # << >>
    /\ data[Len(data)].kind = "terminal"
    /\ data[Len(data)].at = "end"

Init == ~Published

\* Until it is published, the journal may change in any way.
Work == ~Published /\ marker' = marker

\* The marker appears, over no other file, when the journal is complete.
Publish ==
    /\ Absent
    /\ log.state = "own" /\ Complete(log.data)
    /\ marker' = [state |-> "own", data |-> log.data]
    /\ log' = log

\* A run.json that is not this run's forestalls the publication for good.
Forestall ==
    /\ Absent
    /\ marker'.state = "foreign"
    /\ log' = log

Next == Work \/ Publish \/ Forestall

Spec == Init /\ [][Next]_<<log, marker>>
=============================================================================
