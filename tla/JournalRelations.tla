-------------------------- MODULE JournalRelations --------------------------
(***************************************************************************)
(* What the reader of a settled run demands of its events:                 *)
(* _validate_v2_event_relations of adapter/artifactizer.py as a monitor    *)
(* that follows the journal event by event, the final checks against the   *)
(* run record, and the extra demands of project_trajectory (adapter/       *)
(* atif.py) on a successful run.                                           *)
(*                                                                         *)
(* A turn's provider events carry its turn index, a tool event its call    *)
(* id.  Identity, hash and schema checks on a single event are left out:   *)
(* the writer and the reader share them.  Receipts are advisory to the     *)
(* reader and are left out too.                                            *)
(***************************************************************************)
EXTENDS Integers, FiniteSets

CONSTANTS
    TurnIds,    \* provider turn indexes
    CallIds     \* tool call ids

\* States of a call: "none", "inFlight", "dispatched", "completed", "failed".

EmptyJournal == [seen |-> {}, inFlight |-> {}, completed |-> 0, failed |-> 0,
                 tools |-> [c \in CallIds |-> "none"],
                 checkpoint |-> "none", finals |-> 0, broken |-> FALSE]

Registered(j) == {c \in CallIds : j.tools[c] # "none"}

\* An ArtifactError raised in the loop; the first one is final.
Reject(j) == [j EXCEPT !.broken = TRUE]

\* While a checkpoint awaits its request no other event may come.
Guarded(j, ok, next) == IF ok /\ j.checkpoint # "awaited" THEN next ELSE Reject(j)

-----------------------------------------------------------------------------
\* exact: the request's history is the three-item checkpoint history.
ProviderRequested(j, turn, exact) ==
    IF turn \notin j.seen /\ (j.checkpoint = "awaited" => exact)
    THEN [j EXCEPT !.seen = @ \cup {turn}, !.inFlight = @ \cup {turn},
                   !.checkpoint = IF @ = "awaited" THEN "bound" ELSE @]
    ELSE Reject(j)

ProviderCompleted(j, turn) ==
    Guarded(j, turn \in j.inFlight,
            [j EXCEPT !.inFlight = @ \ {turn}, !.completed = @ + 1])

ProviderFailed(j, turn) ==
    Guarded(j, turn \in j.inFlight,
            [j EXCEPT !.inFlight = @ \ {turn}, !.failed = @ + 1])

ContextCheckpointed(j, turnCount, callCount) ==
    Guarded(j, /\ j.checkpoint = "none"
               /\ j.inFlight = {}
               /\ turnCount = Cardinality(j.seen)
               /\ callCount = Cardinality(Registered(j)),
            [j EXCEPT !.checkpoint = "awaited"])

ToolRegistered(j, call) ==
    Guarded(j, j.tools[call] = "none", [j EXCEPT !.tools[call] = "inFlight"])

ToolDispatched(j, call) ==
    Guarded(j, j.tools[call] = "inFlight", [j EXCEPT !.tools[call] = "dispatched"])

Unsettled(j, call) == j.tools[call] \in {"inFlight", "dispatched"}

ToolFailed(j, call) ==
    Guarded(j, Unsettled(j, call), [j EXCEPT !.tools[call] = "failed"])

\* The tool.completed events of one committed batch.
ToolsCompleted(j, batch) ==
    Guarded(j, \A c \in batch : Unsettled(j, c),
            [j EXCEPT !.tools = [c \in CallIds |-> IF c \in batch THEN "completed" ELSE @[c]]])

AssistantFinal(j) ==
    Guarded(j, j.finals = 0, [j EXCEPT !.finals = @ + 1])

-----------------------------------------------------------------------------
(* The checks against run.json: a record                                   *)
(*   [status, phase, turns, calls, completed, failed].                     *)

\* Settlements and registrations the record counts and the journal lacks.
Missing(j, record) ==
    \/ j.completed < record.completed
    \/ j.failed < record.failed
    \/ Cardinality(Registered(j)) < record.calls

Accepted(j, record) ==
    /\ ~j.broken
    /\ j.checkpoint # "awaited"
    /\ Cardinality(j.seen) = record.turns
    /\ j.completed <= record.completed
    /\ j.failed <= record.failed
    /\ Cardinality(Registered(j)) <= record.calls
    /\ Missing(j, record) => record.status = "RuntimeFailure" /\ record.phase = "Artifact"
    /\ record.status = "Success" =>
          /\ j.finals = 1
          /\ \A c \in Registered(j) : j.tools[c] = "completed"

\* project_trajectory: a successful run has no failed and no open turn.
Projectable(j, record) ==
    record.status = "Success" => j.inFlight = {} /\ j.failed = 0
=============================================================================
