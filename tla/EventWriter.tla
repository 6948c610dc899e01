---------------------------- MODULE EventWriter ----------------------------
(***************************************************************************)
(* The run's append-only journal events.jsonl and its settled marker       *)
(* run.json: nano-runtime/src/event_writer.rs, driven by RunState in       *)
(* agent_loop.rs (staged receipts, finalize_once).                         *)
(*                                                                         *)
(* The journal is a sequence of bytes.  A byte is known by the event line  *)
(* it belongs to, so the SHA-256 of a prefix is that prefix itself.  Sizes *)
(* are counted in abstract bytes.  Faults are short writes and failed      *)
(* syncs, a failed truncation, a process crash inside any call, a restart  *)
(* on the same directory, and another process that creates run.json or     *)
(* .run.json.tmp first.                                                    *)
(***************************************************************************)
EXTENDS Integers, Sequences, FiniteSets

CONSTANTS
    MaxEvents,      \* EventWriterLimits.max_events
    MaxLineBytes,   \* EventWriterLimits.max_line_bytes
    MaxLogBytes,    \* EventWriterLimits.max_log_bytes
    Reserve,        \* terminal line with the longest code and no omission count
    OmissionField,  \* bytes the serialised omission count adds when it is not 0
    LineSizes,      \* serialised sizes of the non-terminal events
    MaxStaged,      \* MAX_STAGED_TOOL_RECEIPT_SAMPLES
    MaxOffered,     \* bound: receipts the run offers
    MaxRestarts,    \* bound: processes started on the directory after the first
    FaultyAppends   \* kinds of append whose write or sync may fail

ASSUME EventWriterAssumption ==
    /\ MaxEvents \in Nat
    /\ MaxLineBytes \in Nat
    /\ MaxLogBytes \in Nat
    /\ Reserve \in Nat \ {0}
    /\ OmissionField \in Nat \ {0}
    /\ LineSizes \subseteq Nat \ {0}
    /\ MaxStaged \in Nat
    /\ MaxOffered \in Nat
    /\ MaxRestarts \in Nat
    /\ FaultyAppends \subseteq {"operational", "receipt", "terminal"}

VARIABLES
    phase,      \* where the process is (see Phases)
    restarts,   \* processes started after the first
    nextSeq,    \* EventWriter.next_seq
    bytes,      \* EventWriter.bytes_written
    terminal,   \* EventWriter.terminal_written
    poisoned,   \* EventWriter.event_log_poisoned
    omitted,    \* EventWriter.omitted_tool_receipt_samples
    hashed,     \* what EventWriter.hasher has absorbed
    staged,     \* length of RunState.staged_tool_receipts
    offered,    \* receipts the run has offered for the journal so far
    written,    \* receipts the writer reported as appended
    reported,   \* the omission count of the terminal event, once written
    log,        \* contents of events.jsonl, or NoFile
    tmp,        \* .run.json.tmp: "none", "own" or "foreign"
    marker      \* run.json: NoFile, Foreign, or the digest it binds

journal == <<nextSeq, bytes, terminal, poisoned, omitted, hashed>>
receipts == <<staged, offered, written, reported>>
files == <<log, tmp, marker>>
vars == <<phase, restarts, journal, receipts, files>>

-----------------------------------------------------------------------------
Kinds == {"operational", "receipt", "terminal", "leftover"}
Byte == [seq : Nat, kind : Kinds, at : {"body", "end"}]

\* The bytes of one serialised event; the last one is its newline.
Line(seq, kind, size) ==
    [i \in 1..size |-> [seq |-> seq, kind |-> kind, at |-> IF i = size THEN "end" ELSE "body"]]

\* File states are records, so that the states of one file compare.
NoFile == [state |-> "none", data |-> << >>]
Foreign == [state |-> "foreign", data |-> << >>]
Own(data) == [state |-> "own", data |-> data]
FileStates == [state : {"none", "foreign", "own"}, data : Seq(Byte)]

Phases == {"absent",      \* process up, EventWriter::create not called yet
           "running",     \* the agent loop may append
           "flushing",    \* finalize_once: flush_staged_tool_receipts
           "terminal",    \* terminal event synced, run record not yet begun
           "temp",        \* .run.json.tmp created
           "synced",      \* .run.json.tmp written and synced
           "renamed",     \* run.json visible
           "settled",     \* finalize_once returned
           "incomplete",  \* the run returned AgentRunError::Incomplete
           "crashed"}

Ended == {"settled", "incomplete", "crashed"}

-----------------------------------------------------------------------------
\* A new process; whatever an earlier one left in the directory is there.
Init ==
    /\ phase = "absent"
    /\ restarts = 0
    /\ nextSeq = 0 /\ bytes = 0
    /\ terminal = FALSE /\ poisoned = FALSE
    /\ omitted = 0 /\ hashed = << >>
    /\ staged = 0 /\ offered = 0 /\ written = 0 /\ reported = 0
    /\ log \in {NoFile, Own(Line(0, "leftover", 1))}
    /\ tmp \in {"none", "foreign"}
    /\ marker \in {NoFile, Foreign}

\* Mutant: a journal of an earlier run does not refuse the directory.
CreateOverJournal ==
    /\ MaxEvents >= 2
    /\ Reserve <= MaxLineBytes
    /\ Reserve <= MaxLogBytes
    /\ marker = NoFile
    /\ tmp = "none"

\* EventWriter::create: limits that cannot hold a terminal event, or any file
\* of an earlier run, refuse the directory.
CreateAdmitted ==
    /\ MaxEvents >= 2
    /\ Reserve <= MaxLineBytes
    /\ Reserve <= MaxLogBytes
    /\ marker = NoFile
    /\ tmp = "none"
    /\ log = NoFile

Create ==
    /\ phase = "absent"
    /\ IF CreateAdmitted
       THEN /\ phase' = "running"
            /\ log' = Own(<< >>)
            /\ nextSeq' = 0 /\ bytes' = 0
            /\ terminal' = FALSE /\ poisoned' = FALSE
            /\ omitted' = 0 /\ hashed' = << >>
            /\ staged' = 0 /\ offered' = 0 /\ written' = 0 /\ reported' = 0
       ELSE /\ phase' = "incomplete"
            /\ UNCHANGED <<log, journal, receipts>>
    /\ UNCHANGED <<restarts, tmp, marker>>

-----------------------------------------------------------------------------
(* append_inner: its limits, in the order the code tests them. *)

EventLimit(isTerminal) == IF isTerminal THEN MaxEvents ELSE MaxEvents - 1
\* Mutant: operational appends may use the terminal reserve.
LogLimitWithoutReserve(isTerminal) == MaxLogBytes

LogLimit(isTerminal) == IF isTerminal THEN MaxLogBytes ELSE MaxLogBytes - Reserve

Closed == poisoned \/ terminal
LineTooLong(size) == size > MaxLineBytes
LogTooLong(size, isTerminal) == bytes + size > LogLimit(isTerminal)

\* No check of append_inner turns the line away.
Fits(size, isTerminal) ==
    /\ ~Closed
    /\ nextSeq < EventLimit(isTerminal)
    /\ ~LineTooLong(size)
    /\ ~LogTooLong(size, isTerminal)

\* The tail of append_inner after event_append_sync succeeded.
Advance(kind, size) ==
    /\ log' = Own(log.data \o Line(nextSeq, kind, size))
    /\ hashed' = hashed \o Line(nextSeq, kind, size)
    /\ bytes' = bytes + size
    /\ nextSeq' = nextSeq + 1
    /\ terminal' = (kind = "terminal")

\* event_append_sync failed: some prefix of the line, perhaps all of it, is in
\* the file, and no field of the writer has moved.
ShortWrite(kind, size) ==
    \E n \in 0..size :
        log' = Own(log.data \o SubSeq(Line(nextSeq, kind, size), 1, n))

\* append_operational / append_diagnostic_failure.
AppendOperational(size) ==
    /\ phase = "running"
    /\ Fits(size, FALSE)
    /\ Advance("operational", size)
    /\ UNCHANGED <<phase, restarts, poisoned, omitted, receipts, tmp, marker>>

\* What the loop does about a failed append: finalize the run as a runtime
\* failure, or give it up, as it must when run.started itself failed.
AfterAppendError ==
    IF nextSeq = 0 THEN {"incomplete"} ELSE {"flushing", "incomplete"}

\* An operational append that a limit turns away.
AppendRejected(size) ==
    /\ phase = "running"
    /\ ~Fits(size, FALSE)
    /\ phase' \in AfterAppendError
    /\ UNCHANGED <<restarts, journal, receipts, files>>

\* An operational append whose write or sync failed.  The bytes stay.
AppendFailed(size) ==
    /\ phase = "running"
    /\ "operational" \in FaultyAppends
    /\ Fits(size, FALSE)
    /\ ShortWrite("operational", size)
    /\ phase' \in AfterAppendError
    /\ UNCHANGED <<restarts, journal, receipts, tmp, marker>>

\* RunState::stage_tool_receipt.  A receipt that cannot be encoded, or is one
\* too many or too long for the staging area, is counted as omitted.
StageReceipt ==
    /\ phase = "running" /\ nextSeq > 0
    /\ offered < MaxOffered
    /\ offered' = offered + 1
    /\ \/ staged < MaxStaged /\ staged' = staged + 1 /\ UNCHANGED omitted
       \/ omitted' = omitted + 1 /\ UNCHANGED staged
    /\ UNCHANGED <<phase, restarts, nextSeq, bytes, terminal, poisoned, hashed,
                   written, reported, files>>

-----------------------------------------------------------------------------
(* RunState::finalize_once *)

BeginFinalize ==
    /\ phase = "running" /\ nextSeq > 0
    /\ phase' = "flushing"
    /\ UNCHANGED <<restarts, journal, receipts, files>>

\* append_tool_receipt succeeded.
FlushReceipt(size) ==
    /\ phase = "flushing" /\ staged > 0
    /\ Fits(size, FALSE)
    /\ Advance("receipt", size)
    /\ staged' = staged - 1
    /\ written' = written + 1
    /\ UNCHANGED <<phase, restarts, poisoned, omitted, offered, reported, tmp, marker>>

\* Mutant: a receipt that hits a limit is dropped uncounted.
OmitReceiptUncounted(size) ==
    /\ phase = "flushing" /\ staged > 0
    /\ ~Closed
    /\ ~Fits(size, FALSE)
    /\ staged' = staged - 1
    /\ UNCHANGED <<phase, restarts, journal, offered, written, reported, files>>

\* append_tool_receipt hit a limit: the receipt is counted as omitted.
OmitReceipt(size) ==
    /\ phase = "flushing" /\ staged > 0
    /\ ~Closed
    /\ ~Fits(size, FALSE)
    /\ staged' = staged - 1
    /\ omitted' = omitted + 1
    /\ UNCHANGED <<phase, restarts, nextSeq, bytes, terminal, poisoned, hashed,
                   offered, written, reported, files>>

\* Mutant: the torn line of an advisory receipt stays in the file.
RestoreWithoutTruncation(size) ==
    /\ phase = "flushing" /\ staged > 0
    /\ "receipt" \in FaultyAppends
    /\ Fits(size, FALSE)
    /\ ShortWrite("receipt", size)
    /\ staged' = staged - 1
    /\ omitted' = omitted + 1
    /\ UNCHANGED <<phase, restarts, nextSeq, bytes, terminal, poisoned, hashed,
                   offered, written, reported, tmp, marker>>

\* The write failed and set_len(bytes_written) took the file back.
RestoreReceipt(size) ==
    /\ phase = "flushing" /\ staged > 0
    /\ "receipt" \in FaultyAppends
    /\ Fits(size, FALSE)
    /\ \E n \in 0..size :
          LET dirty == log.data \o SubSeq(Line(nextSeq, "receipt", size), 1, n)
          IN  log' = Own(SubSeq(dirty, 1, bytes))
    /\ staged' = staged - 1
    /\ omitted' = omitted + 1
    /\ UNCHANGED <<phase, restarts, nextSeq, bytes, terminal, poisoned, hashed,
                   offered, written, reported, tmp, marker>>

\* Truncation failed too: event_log_restore_failed.  The staged receipts are gone.
PoisonLog(size) ==
    /\ phase = "flushing" /\ staged > 0
    /\ "receipt" \in FaultyAppends
    /\ Fits(size, FALSE)
    /\ ShortWrite("receipt", size)
    /\ poisoned' = TRUE
    /\ staged' = 0
    /\ phase' = "incomplete"
    /\ UNCHANGED <<restarts, nextSeq, bytes, terminal, omitted, hashed,
                   offered, written, reported, tmp, marker>>

\* append_terminal: the omission count is dropped when its field does not fit.
OmissionBytes == IF omitted = 0 THEN 0 ELSE OmissionField

TerminalSize(base) ==
    IF LineTooLong(base + OmissionBytes) \/ LogTooLong(base + OmissionBytes, TRUE)
    THEN base
    ELSE base + OmissionBytes

TerminalCount(base) == IF TerminalSize(base) = base THEN 0 ELSE omitted

\* The code keeps an error return for a terminal line that no longer fits.
AppendTerminal(base) ==
    /\ phase = "flushing" /\ staged = 0
    /\ IF Fits(TerminalSize(base), TRUE)
       THEN /\ Advance("terminal", TerminalSize(base))
            /\ reported' = TerminalCount(base)
            /\ phase' = "terminal"
       ELSE /\ phase' = "incomplete"
            /\ UNCHANGED <<log, hashed, bytes, nextSeq, terminal, reported>>
    /\ UNCHANGED <<restarts, poisoned, omitted, staged, offered, written, tmp, marker>>

TerminalFailed(base) ==
    /\ phase = "flushing" /\ staged = 0
    /\ "terminal" \in FaultyAppends
    /\ Fits(TerminalSize(base), TRUE)
    /\ ShortWrite("terminal", TerminalSize(base))
    /\ phase' = "incomplete"
    /\ UNCHANGED <<restarts, journal, receipts, tmp, marker>>

-----------------------------------------------------------------------------
(* commit_run_record: one file operation per action. *)

\* The record is invalid or longer than max_run_record_bytes.
RecordRejected ==
    /\ phase = "terminal"
    /\ phase' = "incomplete"
    /\ UNCHANGED <<restarts, journal, receipts, files>>

CreateTemp ==
    /\ phase = "terminal"
    /\ IF tmp = "none"
       THEN phase' = "temp" /\ tmp' = "own"
       ELSE phase' = "incomplete" /\ UNCHANGED tmp
    /\ UNCHANGED <<restarts, journal, receipts, log, marker>>

WriteTemp ==
    /\ phase = "temp"
    /\ phase' = "synced"
    /\ UNCHANGED <<restarts, journal, receipts, files>>

\* Mutant: a failed write of the temporary record is retried without bound.
RetryWriteTemp ==
    /\ phase = "temp"
    /\ phase' = "terminal"
    /\ tmp' = "none"
    /\ UNCHANGED <<restarts, journal, receipts, log, marker>>

\* write_all, flush or sync_all failed; remove_file may fail as well.
WriteTempFailed ==
    /\ phase = "temp"
    /\ phase' = "incomplete"
    /\ tmp' \in {"none", "own"}
    /\ UNCHANGED <<restarts, journal, receipts, log, marker>>

\* Mutant: a plain rename replaces a run.json that is already there.
PublishOverMarker ==
    /\ phase = "synced"
    /\ marker' = Own(hashed)
    /\ tmp' = "none"
    /\ phase' = "renamed"
    /\ UNCHANGED <<restarts, journal, receipts, log>>

\* renameat2(RENAME_NOREPLACE): the publication point.
PublishMarker ==
    /\ phase = "synced"
    /\ marker = NoFile
    /\ marker' = Own(hashed)
    /\ tmp' = "none"
    /\ phase' = "renamed"
    /\ UNCHANGED <<restarts, journal, receipts, log>>

PublishFailed ==
    /\ phase = "synced"
    /\ phase' = "incomplete"
    /\ tmp' \in {"none", "own"}
    /\ UNCHANGED <<restarts, journal, receipts, log, marker>>

\* directory_sync: its failure is only a warning.
SyncDirectory ==
    /\ phase = "renamed"
    /\ phase' = "settled"
    /\ UNCHANGED <<restarts, journal, receipts, files>>

-----------------------------------------------------------------------------
(* The environment. *)

\* The process dies; if it was inside an append, part of the line is written.
Crash ==
    /\ phase \notin Ended \cup {"absent"}
    /\ phase' = "crashed"
    /\ \/ UNCHANGED log
       \/ /\ phase = "running"
          /\ \E size \in LineSizes :
                Fits(size, FALSE) /\ ShortWrite("operational", size)
       \/ /\ phase = "flushing" /\ staged > 0
          /\ \E size \in LineSizes :
                Fits(size, FALSE) /\ ShortWrite("receipt", size)
       \/ /\ phase = "flushing" /\ staged = 0
          /\ \E base \in 1..Reserve :
                Fits(TerminalSize(base), TRUE)
                /\ ShortWrite("terminal", TerminalSize(base))
    /\ UNCHANGED <<restarts, journal, receipts, tmp, marker>>

\* A further process is started on the same artifact directory.
Restart ==
    /\ phase \in Ended
    /\ restarts < MaxRestarts
    /\ restarts' = restarts + 1
    /\ phase' = "absent"
    /\ UNCHANGED <<journal, receipts, files>>

\* Another process creates run.json or .run.json.tmp where there is none.
Intrude ==
    /\ phase \notin Ended
    /\ \/ marker = NoFile /\ marker' = Foreign /\ UNCHANGED tmp
       \/ tmp = "none" /\ tmp' = "foreign" /\ UNCHANGED marker
    /\ UNCHANGED <<phase, restarts, journal, receipts, log>>

Operational ==
    \E size \in LineSizes :
        AppendOperational(size) \/ AppendRejected(size) \/ AppendFailed(size)

Flush ==
    \E size \in LineSizes :
        FlushReceipt(size) \/ OmitReceipt(size) \/ RestoreReceipt(size) \/ PoisonLog(size)

Terminate ==
    \E base \in 1..Reserve :
        AppendTerminal(base) \/ TerminalFailed(base)

Commit ==
    \/ RecordRejected \/ CreateTemp
    \/ WriteTemp \/ WriteTempFailed
    \/ PublishMarker \/ PublishFailed
    \/ SyncDirectory

Finalize == Flush \/ Terminate \/ Commit

Next ==
    \/ Create
    \/ Operational
    \/ StageReceipt
    \/ BeginFinalize
    \/ Finalize
    \/ Crash \/ Restart \/ Intrude

\* finalize_once runs to its end without giving up the thread.
Spec == Init /\ [][Next]_vars /\ WF_vars(Finalize)

-----------------------------------------------------------------------------
(* Properties. *)

\* Every variable has its type; a run.json of this run binds a byte sequence.
TypeOK ==
    /\ phase \in Phases
    /\ restarts \in 0..MaxRestarts
    /\ nextSeq \in Nat /\ bytes \in Nat /\ omitted \in Nat
    /\ terminal \in BOOLEAN /\ poisoned \in BOOLEAN
    /\ hashed \in Seq(Byte)
    /\ staged \in Nat /\ offered \in Nat /\ written \in Nat /\ reported \in Nat
    /\ log \in FileStates
    /\ tmp \in {"none", "own", "foreign"}
    /\ marker \in FileStates

\* The promise of the terminal reserve (append_operational's comment): whatever
\* the run appended, staged, omitted or had to roll back, a terminal event of
\* any legal code passes every limit when finalize_once gets to it.
TerminalAlwaysFits ==
    phase = "flushing" /\ staged = 0 =>
        \A base \in 1..Reserve : Fits(TerminalSize(base), TRUE)

\* The bytes are a whole number of events and the last one is a terminal event.
EndsWithTerminal(data) ==
    /\ data # << >>
    /\ data[Len(data)].kind = "terminal"
    /\ data[Len(data)].at = "end"

\* A run.json that this program published binds exactly the bytes that are in
\* events.jsonl, which end with the terminal event: what artifactizer.py
\* re-hashes, and what the writer's own tests assert of events_sha256.
MarkerBindsLog ==
    marker.state = "own" =>
        /\ log = Own(marker.data)
        /\ EndsWithTerminal(marker.data)

\* A process that is started on a used directory changes nothing of the journal
\* it finds there, whether that journal is settled, torn or foreign.
EarlierRunUntouched ==
    [][(phase \in Ended \cup {"absent"} /\ log # NoFile) => (log' = log)]_vars

\* The receipts a settled journal lacks are the ones the writer counted, and the
\* terminal event reports that number or, when the field did not fit, none.
OmissionsAccounted ==
    marker.state = "own" =>
        /\ offered = omitted + Cardinality({i \in DOMAIN log.data :
                        log.data[i].kind = "receipt" /\ log.data[i].at = "end"})
        /\ reported \in {0, omitted}

\* finalize_once comes to an end: with a marker, or as an incomplete run.
FinalizationEnds == phase = "flushing" ~> phase \in Ended

Settled == INSTANCE SettledArtifacts

\* The writer implements the abstract contract of the artifact directory:
\* nothing changes once run.json is there, and run.json never replaces a file.
ImplementsSettled == Settled!Spec
=============================================================================
