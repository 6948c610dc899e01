------------------------- MODULE EventWriterProofs -------------------------
(***************************************************************************)
(* Theorems about EventWriter, for every value of its limits.              *)
(***************************************************************************)
EXTENDS EventWriter, FiniteSetTheorems, SequenceTheorems, TLAPS

-----------------------------------------------------------------------------
(* Facts about the bytes of one line. *)

\* A line is a sequence of as many bytes as its size, its newline last.
LEMMA LineBytes ==
    ASSUME NEW seq \in Nat, NEW kind \in Kinds, NEW size \in Nat
    PROVE  /\ Line(seq, kind, size) \in Seq(Byte)
           /\ Len(Line(seq, kind, size)) = size
           /\ \A i \in 1..size : Line(seq, kind, size)[i] =
                    [seq |-> seq, kind |-> kind, at |-> IF i = size THEN "end" ELSE "body"]
<1> DEFINE byte(i) == [seq |-> seq, kind |-> kind, at |-> IF i = size THEN "end" ELSE "body"]
<1>1. \A i \in 1..size : byte(i) \in Byte
  BY DEF Byte
<1>2. Line(seq, kind, size) = [i \in 1..size |-> byte(i)]
  BY DEF Line
<1> HIDE DEF byte
<1>3. Line(seq, kind, size) \in [1..size -> Byte]
  BY <1>1, <1>2
<1>4. Line(seq, kind, size) \in Seq(Byte) /\ Len(Line(seq, kind, size)) = size
  BY <1>3, IsASeq, LenProperties
<1>5. \A i \in 1..size : Line(seq, kind, size)[i] = byte(i)
  BY <1>2
<1> QED
  BY <1>4, <1>5 DEF byte

\* A short write puts a prefix of a line into the file.
LEMMA LinePrefix ==
    ASSUME NEW seq \in Nat, NEW kind \in Kinds, NEW size \in Nat,
           NEW n \in 0..size
    PROVE  SubSeq(Line(seq, kind, size), 1, n) \in Seq(Byte)
<1>1. \A i \in 1..n : Line(seq, kind, size)[i] \in Byte
  <2>1. \A i \in 1..n : i \in 1..Len(Line(seq, kind, size))
    BY LineBytes
  <2> QED
    BY <2>1, LineBytes, ElementOfSeq
<1> QED
  BY <1>1, SubSeqProperties

\* Appending to a file does not shorten it.
LEMMA AppendGrows ==
    ASSUME NEW data \in Seq(Byte), NEW tail \in Seq(Byte)
    PROVE  /\ data \o tail \in Seq(Byte)
           /\ Len(data \o tail) \in Nat
           /\ Len(data \o tail) >= Len(data)
<1>1. Len(data) \in Nat /\ Len(tail) \in Nat
  BY LenProperties
<1>2. data \o tail \in Seq(Byte) /\ Len(data \o tail) = Len(data) + Len(tail)
  BY ConcatProperties
<1> QED
  BY <1>1, <1>2

\* Truncating the file to the length of its authoritative prefix removes
\* exactly what a failed append left behind.
LEMMA TruncateToPrefix ==
    ASSUME NEW prefix \in Seq(Byte), NEW tail \in Seq(Byte)
    PROVE  SubSeq(prefix \o tail, 1, Len(prefix)) = prefix
<1>1. prefix \o tail \in Seq(Byte) /\ Len(prefix \o tail) = Len(prefix) + Len(tail)
      /\ \A i \in 1..Len(prefix) : (prefix \o tail)[i] = prefix[i]
  BY ConcatProperties, LenProperties
<1>2. Len(prefix) \in Nat /\ Len(tail) \in Nat
  BY LenProperties
<1>3. \A i \in 1..Len(prefix) : (prefix \o tail)[i] \in Byte
  BY <1>1, ElementOfSeq
<1> DEFINE cut == SubSeq(prefix \o tail, 1, Len(prefix))
<1>4. cut \in Seq(Byte) /\ Len(cut) = Len(prefix)
      /\ \A i \in 1..Len(prefix) : cut[i] = (prefix \o tail)[i]
  BY <1>2, <1>3, SubSeqProperties
<1>5. \A i \in 1..Len(prefix) : cut[i] = prefix[i]
  BY <1>1, <1>4
<1> HIDE DEF cut
<1>6. cut = prefix
  BY <1>4, <1>5, SeqEqual
<1> QED
  BY <1>6 DEF cut

\* A journal that ends with a whole terminal line ends with a terminal event.
LEMMA TerminalLineEnds ==
    ASSUME NEW prefix \in Seq(Byte), NEW seq \in Nat, NEW size \in Nat \ {0}
    PROVE  EndsWithTerminal(prefix \o Line(seq, "terminal", size))
<1> DEFINE line == Line(seq, "terminal", size)
           whole == prefix \o line
<1>0. "terminal" \in Kinds /\ size \in Nat /\ size \in 1..size
  BY DEF Kinds
<1>1. line \in Seq(Byte) /\ Len(line) = size
  BY <1>0, LineBytes
<1>2. line[size] = [seq |-> seq, kind |-> "terminal", at |-> "end"]
  BY <1>0, LineBytes
<1> HIDE DEF line
<1>3. Len(prefix) \in Nat
  BY LenProperties
<1>4. whole \in Seq(Byte) /\ Len(whole) = Len(prefix) + size
  BY <1>1, ConcatProperties
<1>5. whole[Len(prefix) + size] = line[size]
  BY <1>0, <1>1, <1>3, ConcatProperties
<1> HIDE DEF whole
<1>6. whole[Len(whole)] = line[size]
  BY <1>4, <1>5
<1>7. whole # << >>
  BY <1>0, <1>3, <1>4, EmptySeq
<1> QED
  BY <1>2, <1>6, <1>7 DEF EndsWithTerminal, whole, line

-----------------------------------------------------------------------------
(* Type correctness. *)

\* A file of this run is a file state that holds the bytes put into it.
LEMMA OwnFile ==
    ASSUME NEW data \in Seq(Byte)
    PROVE  Own(data) \in FileStates /\ Own(data).data = data /\ Own(data).state = "own"
BY DEF Own, FileStates

\* The two other file states.
LEMMA OtherFiles ==
    /\ NoFile \in FileStates /\ Foreign \in FileStates
    /\ NoFile.state = "none" /\ Foreign.state = "foreign"
<1>1. << >> \in Seq(Byte)
  BY EmptySeq
<1> QED
  BY <1>1 DEF NoFile, Foreign, FileStates

\* A successful append keeps the types of what it moves.
LEMMA AdvanceTypes ==
    ASSUME TypeOK, NEW kind \in Kinds, NEW size \in Nat, Advance(kind, size)
    PROVE  /\ log' \in FileStates /\ hashed' \in Seq(Byte)
           /\ bytes' \in Nat /\ nextSeq' \in Nat /\ terminal' \in BOOLEAN
<1>1. log.data \in Seq(Byte) /\ hashed \in Seq(Byte) /\ nextSeq \in Nat /\ bytes \in Nat
  BY DEF TypeOK, FileStates
<1>2. Line(nextSeq, kind, size) \in Seq(Byte)
  BY <1>1, LineBytes
<1>3. /\ log.data \o Line(nextSeq, kind, size) \in Seq(Byte)
      /\ hashed \o Line(nextSeq, kind, size) \in Seq(Byte)
  BY <1>1, <1>2, ConcatProperties
<1>4. terminal' \in BOOLEAN
  BY Zenon DEF Advance
<1>5. /\ log' = Own(log.data \o Line(nextSeq, kind, size))
      /\ hashed' = hashed \o Line(nextSeq, kind, size)
      /\ bytes' = bytes + size
      /\ nextSeq' = nextSeq + 1
  BY Zenon DEF Advance
<1>6. bytes' \in Nat /\ nextSeq' \in Nat
  BY <1>1, <1>5
<1> QED
  BY <1>3, <1>4, <1>5, <1>6, OwnFile

\* So does a failed one.
LEMMA ShortWriteTypes ==
    ASSUME TypeOK, NEW kind \in Kinds, NEW size \in Nat, ShortWrite(kind, size)
    PROVE  log' \in FileStates
<1>1. log.data \in Seq(Byte) /\ nextSeq \in Nat
  BY DEF TypeOK, FileStates
<1>2. PICK n \in 0..size :
        log' = Own(log.data \o SubSeq(Line(nextSeq, kind, size), 1, n))
  BY DEF ShortWrite
<1>3. SubSeq(Line(nextSeq, kind, size), 1, n) \in Seq(Byte)
  BY <1>1, LinePrefix
<1>4. log.data \o SubSeq(Line(nextSeq, kind, size), 1, n) \in Seq(Byte)
  BY <1>1, <1>3, ConcatProperties
<1> QED
  BY <1>2, <1>4, OwnFile

\* A rollback leaves the first bytes_written bytes of the file.
LEMMA RestoreTypes ==
    ASSUME TypeOK, bytes <= Len(log.data), NEW size \in Nat, RestoreReceipt(size)
    PROVE  log' \in FileStates /\ Len(log'.data) = bytes
<1>1. log.data \in Seq(Byte) /\ Len(log.data) \in Nat /\ nextSeq \in Nat /\ bytes \in Nat
  BY LenProperties DEF TypeOK, FileStates
<1>2. PICK n \in 0..size :
        log' = Own(SubSeq(log.data \o SubSeq(Line(nextSeq, "receipt", size), 1, n), 1, bytes))
  BY DEF RestoreReceipt
<1> DEFINE dirty == log.data \o SubSeq(Line(nextSeq, "receipt", size), 1, n)
<1>3. SubSeq(Line(nextSeq, "receipt", size), 1, n) \in Seq(Byte)
  BY <1>1, LinePrefix DEF Kinds
<1>4. dirty \in Seq(Byte) /\ Len(dirty) >= Len(log.data) /\ Len(dirty) \in Nat
  BY <1>1, <1>3, AppendGrows
<1> HIDE DEF dirty
<1>5. \A i \in 1..bytes : dirty[i] \in Byte
  BY <1>1, <1>4, ElementOfSeq
<1>6. SubSeq(dirty, 1, bytes) \in Seq(Byte) /\ Len(SubSeq(dirty, 1, bytes)) = bytes
  BY <1>1, <1>5, SubSeqProperties
<1>7. log' = Own(SubSeq(dirty, 1, bytes))
  BY <1>2 DEF dirty
<1> QED
  BY <1>6, <1>7, OwnFile

\* The size of a terminal line is positive and not more than the code's length
\* and the omission count ask for.
LEMMA TerminalSizes ==
    ASSUME TypeOK, NEW base \in 1..Reserve
    PROVE  /\ base \in Nat \ {0} /\ base <= Reserve
           /\ TerminalSize(base) \in Nat \ {0}
           /\ TerminalCount(base) \in Nat
<1>1. base \in Nat \ {0} /\ base <= Reserve /\ omitted \in Nat
  BY EventWriterAssumption DEF TypeOK
<1>2. OmissionBytes \in Nat
  BY EventWriterAssumption DEF OmissionBytes
<1>3. TerminalSize(base) = base \/ TerminalSize(base) = base + OmissionBytes
  BY Zenon DEF TerminalSize
<1>4. TerminalCount(base) = 0 \/ TerminalCount(base) = omitted
  BY Zenon DEF TerminalCount
<1> QED
  BY <1>1, <1>2, <1>3, <1>4

\* What makes the types inductive: while the journal grows, the file is never
\* shorter than the writer believes, so that a rollback always truncates.
LogCovered == phase \in {"running", "flushing"} => bytes <= Len(log.data)

\* The initial states are well typed.
LEMMA TypeInit == Init => TypeOK /\ LogCovered
<1> SUFFICES ASSUME Init PROVE TypeOK
  BY DEF Init, LogCovered
<1>1. << >> \in Seq(Byte)
  BY EmptySeq
<1>2. Line(0, "leftover", 1) \in Seq(Byte)
  BY LineBytes DEF Kinds
<1>3. log \in FileStates /\ marker \in FileStates
  BY <1>2, OwnFile, OtherFiles DEF Init
<1>4. terminal \in BOOLEAN /\ poisoned \in BOOLEAN
  BY Zenon DEF Init
<1> QED
  BY <1>1, <1>3, <1>4, EventWriterAssumption DEF Init, TypeOK, Phases

\* Every step keeps the types.
LEMMA TypeStep == TypeOK /\ LogCovered /\ [Next]_vars => TypeOK'
<1> SUFFICES ASSUME TypeOK, LogCovered, [Next]_vars PROVE TypeOK'
  OBVIOUS
<1> USE EventWriterAssumption
<1>k. {"operational", "receipt", "terminal"} \subseteq Kinds
  BY DEF Kinds
<1>s. \A size \in LineSizes : size \in Nat
  OBVIOUS
<1>1. CASE Create
  <2>1. << >> \in Seq(Byte) /\ Own(<< >>) \in FileStates
    BY EmptySeq, OwnFile
  <2>2. CASE CreateAdmitted
    <3>1. terminal' \in BOOLEAN /\ poisoned' \in BOOLEAN
      BY <1>1, <2>2, Zenon DEF Create
    <3> QED
      BY <1>1, <2>1, <2>2, <3>1 DEF Create, TypeOK, Phases
  <2>3. CASE ~CreateAdmitted
    BY <1>1, <2>3 DEF Create, TypeOK, Phases, journal, receipts
  <2> QED
    BY <2>2, <2>3
<1>2. CASE Operational
  <2>1. PICK size \in LineSizes : AppendOperational(size) \/ AppendRejected(size)
                                 \/ AppendFailed(size)
    BY <1>2 DEF Operational
  <2>2. CASE AppendOperational(size)
    <3>1. log' \in FileStates /\ hashed' \in Seq(Byte) /\ bytes' \in Nat
          /\ nextSeq' \in Nat /\ terminal' \in BOOLEAN
      BY <1>k, <1>s, <2>2, AdvanceTypes DEF AppendOperational
    <3> QED
      BY <3>1, <2>2 DEF AppendOperational, TypeOK, receipts
  <2>3. CASE AppendRejected(size)
    BY <2>3 DEF AppendRejected, AfterAppendError, TypeOK, Phases, journal, receipts, files
  <2>4. CASE AppendFailed(size)
    <3>1. log' \in FileStates
      BY <1>k, <1>s, <2>4, ShortWriteTypes DEF AppendFailed
    <3> QED
      BY <3>1, <2>4 DEF AppendFailed, AfterAppendError, TypeOK, Phases, journal, receipts
  <2> QED
    BY <2>1, <2>2, <2>3, <2>4
<1>3. CASE StageReceipt
  BY <1>3 DEF StageReceipt, TypeOK, files
<1>4. CASE BeginFinalize
  BY <1>4 DEF BeginFinalize, TypeOK, Phases, journal, receipts, files
<1>5. CASE Flush
  <2>1. PICK size \in LineSizes : FlushReceipt(size) \/ OmitReceipt(size)
                                 \/ RestoreReceipt(size) \/ PoisonLog(size)
    BY <1>5 DEF Flush
  <2>2. CASE FlushReceipt(size)
    <3>1. log' \in FileStates /\ hashed' \in Seq(Byte) /\ bytes' \in Nat
          /\ nextSeq' \in Nat /\ terminal' \in BOOLEAN
      BY <1>k, <1>s, <2>2, AdvanceTypes DEF FlushReceipt
    <3> QED
      BY <3>1, <2>2 DEF FlushReceipt, TypeOK
  <2>3. CASE OmitReceipt(size)
    BY <2>3 DEF OmitReceipt, TypeOK, files
  <2>4. CASE RestoreReceipt(size)
    <3>1. log' \in FileStates
      BY <1>s, <2>4, RestoreTypes DEF RestoreReceipt, LogCovered
    <3> QED
      BY <3>1, <2>4 DEF RestoreReceipt, TypeOK
  <2>5. CASE PoisonLog(size)
    <3>1. log' \in FileStates
      BY <1>k, <1>s, <2>5, ShortWriteTypes DEF PoisonLog
    <3> QED
      BY <3>1, <2>5 DEF PoisonLog, TypeOK, Phases
  <2> QED
    BY <2>1, <2>2, <2>3, <2>4, <2>5
<1>6. CASE Terminate
  <2>1. PICK base \in 1..Reserve : AppendTerminal(base) \/ TerminalFailed(base)
    BY <1>6 DEF Terminate
  <2>t. TerminalSize(base) \in Nat /\ TerminalCount(base) \in Nat
    BY TerminalSizes
  <2>2. CASE AppendTerminal(base) /\ Fits(TerminalSize(base), TRUE)
    <3>1. log' \in FileStates /\ hashed' \in Seq(Byte) /\ bytes' \in Nat
          /\ nextSeq' \in Nat /\ terminal' \in BOOLEAN
      BY <1>k, <2>t, <2>2, AdvanceTypes DEF AppendTerminal
    <3> QED
      BY <3>1, <2>2, <2>t DEF AppendTerminal, TypeOK, Phases
  <2>3. CASE AppendTerminal(base) /\ ~Fits(TerminalSize(base), TRUE)
    BY <2>3 DEF AppendTerminal, TypeOK, Phases
  <2>4. CASE TerminalFailed(base)
    <3>1. log' \in FileStates
      BY <1>k, <2>t, <2>4, ShortWriteTypes DEF TerminalFailed
    <3> QED
      BY <3>1, <2>4 DEF TerminalFailed, TypeOK, Phases, journal, receipts
  <2> QED
    BY <2>1, <2>2, <2>3, <2>4
<1>7. CASE Commit
  <2>1. Own(hashed) \in FileStates
    BY OwnFile DEF TypeOK
  <2> QED
    BY <1>7, <2>1 DEF Commit, RecordRejected, CreateTemp, WriteTemp, WriteTempFailed,
        PublishMarker, PublishFailed, SyncDirectory, TypeOK, Phases, journal, receipts, files
<1>8. CASE Crash
  <2>1. log' \in FileStates
    <3>1. CASE UNCHANGED log
      BY <3>1 DEF TypeOK
    <3>2. ASSUME NEW size \in LineSizes, ShortWrite("operational", size)
          PROVE  log' \in FileStates
      BY <1>k, <1>s, <3>2, ShortWriteTypes
    <3>3. ASSUME NEW size \in LineSizes, ShortWrite("receipt", size)
          PROVE  log' \in FileStates
      BY <1>k, <1>s, <3>3, ShortWriteTypes
    <3>4. ASSUME NEW base \in 1..Reserve, ShortWrite("terminal", TerminalSize(base))
          PROVE  log' \in FileStates
      BY <1>k, <3>4, TerminalSizes, ShortWriteTypes
    <3> QED
      BY <1>8, <3>1, <3>2, <3>3, <3>4 DEF Crash
  <2> QED
    BY <1>8, <2>1 DEF Crash, TypeOK, Phases, journal, receipts
<1>9. CASE Restart
  BY <1>9 DEF Restart, TypeOK, Phases, journal, receipts, files
<1>10. CASE Intrude
  BY <1>10, OtherFiles DEF Intrude, TypeOK, journal, receipts
<1>11. CASE UNCHANGED vars
  BY <1>11 DEF vars, TypeOK, journal, receipts, files
<1> QED
  BY <1>1, <1>2, <1>3, <1>4, <1>5, <1>6, <1>7, <1>8, <1>9, <1>10, <1>11 DEF Next, Finalize

\* Every step keeps the file at least as long as the writer believes.
LEMMA CoveredStep == TypeOK /\ LogCovered /\ [Next]_vars => LogCovered'
<1> SUFFICES ASSUME TypeOK, LogCovered, [Next]_vars,
                    phase' \in {"running", "flushing"}
             PROVE  bytes' <= Len(log'.data)
  BY DEF LogCovered
<1> USE EventWriterAssumption
<1>t. log.data \in Seq(Byte) /\ Len(log.data) \in Nat /\ nextSeq \in Nat /\ bytes \in Nat
  BY LenProperties DEF TypeOK, FileStates
<1>a. ASSUME NEW kind \in Kinds, NEW size \in Nat, Advance(kind, size),
             bytes <= Len(log.data)
      PROVE  bytes' <= Len(log'.data)
  <2>1. log' = Own(log.data \o Line(nextSeq, kind, size)) /\ bytes' = bytes + size
    BY <1>a, Zenon DEF Advance
  <2>2. Line(nextSeq, kind, size) \in Seq(Byte) /\ Len(Line(nextSeq, kind, size)) = size
    BY <1>t, LineBytes
  <2>3. /\ log.data \o Line(nextSeq, kind, size) \in Seq(Byte)
        /\ Len(log.data \o Line(nextSeq, kind, size)) = Len(log.data) + size
    BY <1>t, <2>2, ConcatProperties, ZenonT(60)
  <2>4. Len(log'.data) = Len(log.data) + size
    BY <2>1, <2>3, OwnFile
  <2> QED
    BY <1>a, <1>t, <2>1, <2>4
<1>b. ASSUME NEW kind \in Kinds, NEW size \in Nat, ShortWrite(kind, size),
             bytes <= Len(log.data)
      PROVE  bytes <= Len(log'.data)
  <2>1. PICK n \in 0..size :
          log' = Own(log.data \o SubSeq(Line(nextSeq, kind, size), 1, n))
    BY <1>b DEF ShortWrite
  <2>2. SubSeq(Line(nextSeq, kind, size), 1, n) \in Seq(Byte)
    BY <1>t, LinePrefix
  <2>3. /\ log.data \o SubSeq(Line(nextSeq, kind, size), 1, n) \in Seq(Byte)
        /\ Len(log.data \o SubSeq(Line(nextSeq, kind, size), 1, n)) >= Len(log.data)
        /\ Len(log.data \o SubSeq(Line(nextSeq, kind, size), 1, n)) \in Nat
    BY <1>t, <2>2, AppendGrows
  <2>4. Len(log'.data) >= Len(log.data) /\ Len(log'.data) \in Nat
    BY <2>1, <2>3, OwnFile
  <2> QED
    BY <1>b, <1>t, <2>4
<1>k. {"operational", "receipt", "terminal"} \subseteq Kinds
  BY DEF Kinds
<1>s. \A size \in LineSizes : size \in Nat
  OBVIOUS
<1>l. phase \in {"running", "flushing"} => bytes <= Len(log.data)
  BY DEF LogCovered
<1>1. CASE Create
  <2>1. log' = Own(<< >>) /\ bytes' = 0
    BY <1>1 DEF Create
  <2> QED
    BY <2>1, EmptySeq, OwnFile
<1>2. CASE Operational
  <2>1. PICK size \in LineSizes : AppendOperational(size) \/ AppendRejected(size)
                                 \/ AppendFailed(size)
    BY <1>2 DEF Operational
  <2>2. CASE AppendOperational(size)
    BY <1>a, <1>k, <1>l, <1>s, <2>2 DEF AppendOperational
  <2>3. CASE AppendRejected(size)
    BY <1>l, <2>3 DEF AppendRejected, journal, files
  <2>4. CASE AppendFailed(size)
    BY <1>b, <1>k, <1>l, <1>s, <2>4 DEF AppendFailed, journal
  <2> QED
    BY <2>1, <2>2, <2>3, <2>4
<1>3. CASE StageReceipt \/ BeginFinalize
  BY <1>3, <1>l DEF StageReceipt, BeginFinalize, journal, files
<1>5. CASE Flush
  <2>1. PICK size \in LineSizes : FlushReceipt(size) \/ OmitReceipt(size)
                                 \/ RestoreReceipt(size) \/ PoisonLog(size)
    BY <1>5 DEF Flush
  <2>2. CASE FlushReceipt(size)
    BY <1>a, <1>k, <1>l, <1>s, <2>2 DEF FlushReceipt
  <2>3. CASE OmitReceipt(size)
    BY <1>l, <2>3 DEF OmitReceipt, files
  <2>4. CASE RestoreReceipt(size)
    <3>1. Len(log'.data) = bytes /\ bytes' = bytes
      BY <1>l, <1>s, <2>4, RestoreTypes DEF RestoreReceipt
    <3> QED
      BY <1>t, <3>1
  <2>5. CASE PoisonLog(size)
    BY <2>5 DEF PoisonLog
  <2> QED
    BY <2>1, <2>2, <2>3, <2>4, <2>5
<1>6. CASE Terminate
  BY <1>6 DEF Terminate, AppendTerminal, TerminalFailed
<1>7. CASE Commit
  BY <1>7 DEF Commit, RecordRejected, CreateTemp, WriteTemp, WriteTempFailed,
      PublishMarker, PublishFailed, SyncDirectory
<1>8. CASE Crash \/ Restart
  BY <1>8 DEF Crash, Restart
<1>10. CASE Intrude
  BY <1>10, <1>l DEF Intrude, journal
<1>11. CASE UNCHANGED vars
  BY <1>11, <1>l DEF vars, journal, files
<1> QED
  BY <1>1, <1>2, <1>3, <1>5, <1>6, <1>7, <1>8, <1>10, <1>11 DEF Next, Finalize

\* The writer's fields, the staged receipts and the files keep their types in
\* every run, whatever fails: in particular no counter becomes negative.
THEOREM TypeCorrect == Spec => []TypeOK
BY TypeInit, TypeStep, CoveredStep, PTL DEF Spec

-----------------------------------------------------------------------------
(* The terminal reserve. *)

Growing == {"running", "flushing"}

\* The inductive form of TerminalAlwaysFits: while the journal grows, one event
\* slot and the bytes of the longest terminal line are free.
ReserveHeld ==
    phase \in Growing =>
        /\ ~Closed
        /\ nextSeq < MaxEvents
        /\ bytes + Reserve <= MaxLogBytes
        /\ Reserve <= MaxLineBytes

\* A non-terminal append leaves the reserve alone.
LEMMA AdvanceKeepsReserve ==
    ASSUME TypeOK, ReserveHeld, phase \in Growing, poisoned' = poisoned,
           NEW kind \in {"operational", "receipt"}, NEW size \in Nat,
           Fits(size, FALSE), Advance(kind, size)
    PROVE  ReserveHeld'
<1>1. nextSeq < MaxEvents - 1 /\ bytes + size <= MaxLogBytes - Reserve
  BY EventWriterAssumption DEF Fits, EventLimit, LogTooLong, LogLimit, TypeOK
<1>2. bytes' = bytes + size /\ nextSeq' = nextSeq + 1
  BY Zenon DEF Advance
<1>3. ~Closed'
  <2>1. kind # "terminal"
    OBVIOUS
  <2> QED
    BY <2>1, Zenon DEF ReserveHeld, Closed, Advance
<1>4. Reserve <= MaxLineBytes /\ nextSeq \in Nat /\ bytes \in Nat
  BY DEF ReserveHeld, TypeOK
<1>5. nextSeq' < MaxEvents /\ bytes' + Reserve <= MaxLogBytes
  BY <1>1, <1>2, <1>4, EventWriterAssumption
<1> QED
  BY <1>3, <1>4, <1>5, Zenon DEF ReserveHeld

\* Every step keeps the reserve.
LEMMA ReserveStep == TypeOK /\ ReserveHeld /\ [Next]_vars => ReserveHeld'
<1> SUFFICES ASSUME TypeOK, ReserveHeld, [Next]_vars, phase' \in Growing
             PROVE  ReserveHeld'
  BY Zenon DEF ReserveHeld
<1>u. ASSUME UNCHANGED <<nextSeq, bytes, terminal, poisoned>>, phase \in Growing
      PROVE  ReserveHeld'
  BY <1>u DEF ReserveHeld, Closed
<1>s. \A size \in LineSizes : size \in Nat
  BY EventWriterAssumption
<1>1. CASE Create
  <2>1. CreateAdmitted /\ nextSeq' = 0 /\ bytes' = 0 /\ ~terminal' /\ ~poisoned'
    BY <1>1, Zenon DEF Create, Growing
  <2>2. /\ 0 < MaxEvents /\ 0 + Reserve <= MaxLogBytes /\ Reserve <= MaxLineBytes
    BY <2>1, EventWriterAssumption DEF CreateAdmitted
  <2> QED
    BY <2>1, <2>2, Zenon DEF ReserveHeld, Closed
<1>2. CASE Operational
  <2>1. PICK size \in LineSizes : AppendOperational(size) \/ AppendRejected(size)
                                 \/ AppendFailed(size)
    BY <1>2 DEF Operational
  <2>2. CASE AppendOperational(size)
    BY <1>s, <2>2, AdvanceKeepsReserve DEF AppendOperational, Growing
  <2>3. CASE AppendRejected(size) \/ AppendFailed(size)
    BY <1>u, <2>3 DEF AppendRejected, AppendFailed, journal, Growing
  <2> QED
    BY <2>1, <2>2, <2>3
<1>3. CASE StageReceipt \/ BeginFinalize
  BY <1>3, <1>u DEF StageReceipt, BeginFinalize, journal, Growing
<1>5. CASE Flush
  <2>1. PICK size \in LineSizes : FlushReceipt(size) \/ OmitReceipt(size)
                                 \/ RestoreReceipt(size) \/ PoisonLog(size)
    BY <1>5 DEF Flush
  <2>2. CASE FlushReceipt(size)
    BY <1>s, <2>2, AdvanceKeepsReserve DEF FlushReceipt, Growing
  <2>3. CASE OmitReceipt(size) \/ RestoreReceipt(size)
    BY <1>u, <2>3 DEF OmitReceipt, RestoreReceipt, Growing
  <2>4. CASE PoisonLog(size)
    BY <2>4 DEF PoisonLog, Growing
  <2> QED
    BY <2>1, <2>2, <2>3, <2>4
<1>6. CASE Terminate
  BY <1>6 DEF Terminate, AppendTerminal, TerminalFailed, Growing
<1>7. CASE Commit
  BY <1>7 DEF Commit, RecordRejected, CreateTemp, WriteTemp, WriteTempFailed,
      PublishMarker, PublishFailed, SyncDirectory, Growing
<1>8. CASE Crash \/ Restart
  BY <1>8 DEF Crash, Restart, Growing
<1>9. CASE Intrude
  BY <1>9, <1>u DEF Intrude, journal
<1>10. CASE UNCHANGED vars
  BY <1>10, <1>u DEF vars, journal
<1> QED
  BY <1>1, <1>2, <1>3, <1>5, <1>6, <1>7, <1>8, <1>9, <1>10 DEF Next, Finalize

\* With the reserve held, a terminal line of any legal code passes the limits:
\* with its omission count where that fits, without it otherwise.
LEMMA ReserveSuffices == TypeOK /\ ReserveHeld => TerminalAlwaysFits
<1> SUFFICES ASSUME TypeOK, ReserveHeld, phase = "flushing", NEW base \in 1..Reserve
             PROVE  Fits(TerminalSize(base), TRUE)
  BY DEF TerminalAlwaysFits
<1>1. /\ ~Closed /\ nextSeq < MaxEvents
      /\ bytes + Reserve <= MaxLogBytes /\ Reserve <= MaxLineBytes
  BY DEF ReserveHeld, Growing
<1>2. base \in Nat /\ base <= Reserve /\ bytes \in Nat
  BY TerminalSizes DEF TypeOK
<1>3. nextSeq < EventLimit(TRUE)
  BY <1>1 DEF EventLimit
<1>4. ~LineTooLong(base) /\ ~LogTooLong(base, TRUE)
  BY <1>1, <1>2, EventWriterAssumption DEF LineTooLong, LogTooLong, LogLimit
<1>5. ~LineTooLong(TerminalSize(base)) /\ ~LogTooLong(TerminalSize(base), TRUE)
  BY <1>4, Zenon DEF TerminalSize
<1> QED
  BY <1>1, <1>3, <1>5 DEF Fits

\* For every choice of the limits that create accepts, and whatever writes and
\* rollbacks fail, finalize_once finds room for the terminal event.
THEOREM TerminalReserve == Spec => []TerminalAlwaysFits
<1>1. Init => ReserveHeld
  BY DEF Init, ReserveHeld, Growing
<1> QED
  BY <1>1, TypeInit, TypeStep, CoveredStep, ReserveStep, ReserveSuffices, PTL DEF Spec

-----------------------------------------------------------------------------
(* The marker binds the journal. *)

\* No fault strikes an append that the writer does not roll back.
OperationalAppendsReliable == "operational" \notin FaultyAppends

Sealed == {"terminal", "temp", "synced"}

\* The inductive form of MarkerBindsLog: the hasher has absorbed what the file
\* holds, until the run is over.
JournalHashed ==
    /\ phase \in Growing => log = Own(hashed) /\ bytes = Len(hashed)
    /\ phase \in Sealed => log = Own(hashed) /\ EndsWithTerminal(hashed)
    /\ phase \in Growing \cup Sealed => marker.state # "own"
    /\ MarkerBindsLog

\* A successful append moves the file and the hasher alike.
LEMMA AdvanceHashes ==
    ASSUME TypeOK, JournalHashed, phase \in Growing,
           NEW kind \in Kinds, NEW size \in Nat, Advance(kind, size)
    PROVE  /\ log' = Own(hashed') /\ bytes' = Len(hashed')
           /\ hashed' = hashed \o Line(nextSeq, kind, size)
<1>1. log = Own(hashed) /\ bytes = Len(hashed) /\ hashed \in Seq(Byte) /\ nextSeq \in Nat
  BY DEF JournalHashed, TypeOK
<1>2. log.data = hashed
  BY <1>1, OwnFile
<1>3. /\ log' = Own(log.data \o Line(nextSeq, kind, size))
      /\ hashed' = hashed \o Line(nextSeq, kind, size)
      /\ bytes' = bytes + size
  BY Zenon DEF Advance
<1>4. Line(nextSeq, kind, size) \in Seq(Byte) /\ Len(Line(nextSeq, kind, size)) = size
  BY <1>1, LineBytes
<1>5. Len(hashed \o Line(nextSeq, kind, size)) = Len(hashed) + size
  BY <1>1, <1>4, ConcatProperties
<1> QED
  BY <1>1, <1>2, <1>3, <1>5

\* A rollback undoes the failed receipt and nothing else.
LEMMA RestoreRestores ==
    ASSUME TypeOK, JournalHashed, NEW size \in Nat, RestoreReceipt(size)
    PROVE  log' = log
<1>1. log = Own(hashed) /\ bytes = Len(hashed) /\ hashed \in Seq(Byte) /\ nextSeq \in Nat
  BY DEF JournalHashed, TypeOK, RestoreReceipt, Growing
<1>2. log.data = hashed
  BY <1>1, OwnFile
<1>3. PICK n \in 0..size :
        log' = Own(SubSeq(log.data \o SubSeq(Line(nextSeq, "receipt", size), 1, n), 1, bytes))
  BY DEF RestoreReceipt
<1>4. SubSeq(Line(nextSeq, "receipt", size), 1, n) \in Seq(Byte)
  BY <1>1, LinePrefix DEF Kinds
<1>5. SubSeq(hashed \o SubSeq(Line(nextSeq, "receipt", size), 1, n), 1, Len(hashed)) = hashed
  BY <1>1, <1>4, TruncateToPrefix
<1> QED
  BY <1>1, <1>2, <1>3, <1>5

\* Every step keeps the journal hashed.
LEMMA HashedStep ==
    ASSUME OperationalAppendsReliable
    PROVE  TypeOK /\ JournalHashed /\ [Next]_vars => JournalHashed'
<1> SUFFICES ASSUME TypeOK, JournalHashed, [Next]_vars PROVE JournalHashed'
  OBVIOUS
<1> USE DEF Growing, Sealed
<1>s. \A size \in LineSizes : size \in Nat
  BY EventWriterAssumption
<1>m. phase \in Growing \cup Sealed => marker.state # "own"
  BY DEF JournalHashed
<1>h. ASSUME UNCHANGED <<log, hashed, bytes, marker>>,
             phase' = phase \/ (phase \in Growing /\ phase' \in Growing)
                            \/ (phase \in Sealed /\ phase' \in Sealed)
                            \/ phase' \notin Growing \cup Sealed
      PROVE  JournalHashed'
  BY <1>h DEF JournalHashed, MarkerBindsLog
\* Once the process is outside the loop, only the marker matters.
<1>e. ASSUME phase \in Growing \cup Sealed, marker' = marker,
             phase' \notin Growing \cup Sealed
      PROVE  JournalHashed'
  BY <1>e, <1>m DEF JournalHashed, MarkerBindsLog
<1>1. CASE Create
  <2>1. CASE CreateAdmitted
    <3>1. log' = Own(<< >>) /\ hashed' = << >> /\ bytes' = 0 /\ marker' = NoFile
          /\ phase' = "running"
      BY <1>1, <2>1 DEF Create, CreateAdmitted
    <3> QED
      BY <3>1, EmptySeq, OtherFiles DEF JournalHashed, MarkerBindsLog
  <2>2. CASE ~CreateAdmitted
    BY <1>1, <2>2, <1>h DEF Create, journal
  <2> QED
    BY <2>1, <2>2
<1>2. CASE Operational
  <2>1. PICK size \in LineSizes : AppendOperational(size) \/ AppendRejected(size)
                                 \/ AppendFailed(size)
    BY <1>2 DEF Operational
  <2>2. CASE AppendOperational(size)
    <3>1. log' = Own(hashed') /\ bytes' = Len(hashed')
      BY <1>s, <2>2, AdvanceHashes DEF AppendOperational, Kinds
    <3> QED
      BY <3>1, <2>2, <1>m DEF AppendOperational, JournalHashed, MarkerBindsLog
  <2>3. CASE AppendRejected(size)
    BY <1>h, <2>3 DEF AppendRejected, AfterAppendError, journal, files
  <2>4. CASE AppendFailed(size)
    BY <2>4 DEF AppendFailed, OperationalAppendsReliable
  <2> QED
    BY <2>1, <2>2, <2>3, <2>4
<1>3. CASE StageReceipt \/ BeginFinalize
  BY <1>3, <1>h DEF StageReceipt, BeginFinalize, journal, files
<1>5. CASE Flush
  <2>1. PICK size \in LineSizes : FlushReceipt(size) \/ OmitReceipt(size)
                                 \/ RestoreReceipt(size) \/ PoisonLog(size)
    BY <1>5 DEF Flush
  <2>2. CASE FlushReceipt(size)
    <3>1. log' = Own(hashed') /\ bytes' = Len(hashed')
      BY <1>s, <2>2, AdvanceHashes DEF FlushReceipt, Kinds
    <3> QED
      BY <3>1, <2>2, <1>m DEF FlushReceipt, JournalHashed, MarkerBindsLog
  <2>3. CASE OmitReceipt(size)
    BY <1>h, <2>3 DEF OmitReceipt, files
  <2>4. CASE RestoreReceipt(size)
    BY <1>h, <1>s, <2>4, RestoreRestores DEF RestoreReceipt
  <2>5. CASE PoisonLog(size)
    BY <1>e, <2>5 DEF PoisonLog
  <2> QED
    BY <2>1, <2>2, <2>3, <2>4, <2>5
<1>6. CASE Terminate
  <2>1. PICK base \in 1..Reserve : AppendTerminal(base) \/ TerminalFailed(base)
    BY <1>6 DEF Terminate
  <2>t. TerminalSize(base) \in Nat \ {0} /\ hashed \in Seq(Byte) /\ nextSeq \in Nat
    BY TerminalSizes DEF TypeOK
  <2>2. CASE AppendTerminal(base) /\ Fits(TerminalSize(base), TRUE)
    <3>1. phase = "flushing" /\ Advance("terminal", TerminalSize(base))
          /\ phase' = "terminal" /\ marker' = marker
      BY <2>2 DEF AppendTerminal
    <3>2. log' = Own(hashed') /\ hashed' = hashed \o Line(nextSeq, "terminal", TerminalSize(base))
      BY <2>t, <3>1, AdvanceHashes DEF Kinds
    <3>3. EndsWithTerminal(hashed')
      BY <2>t, <3>2, TerminalLineEnds
    <3> QED
      BY <1>m, <3>1, <3>2, <3>3 DEF JournalHashed, MarkerBindsLog
  <2>3. CASE AppendTerminal(base) /\ ~Fits(TerminalSize(base), TRUE)
    BY <1>e, <2>3 DEF AppendTerminal
  <2>4. CASE TerminalFailed(base)
    BY <1>e, <2>4 DEF TerminalFailed
  <2> QED
    BY <2>1, <2>2, <2>3, <2>4
<1>7. CASE Commit
  <2>1. CASE PublishMarker
    <3>1. /\ phase = "synced" /\ phase' = "renamed"
          /\ marker' = Own(hashed) /\ log' = log
      BY <2>1 DEF PublishMarker
    <3>2. log = Own(hashed) /\ EndsWithTerminal(hashed)
      BY <3>1 DEF JournalHashed
    <3>3. marker'.data = hashed
      BY <3>1, OwnFile DEF TypeOK
    <3> QED
      BY <3>1, <3>2, <3>3 DEF JournalHashed, MarkerBindsLog
  <2>2. CASE RecordRejected \/ CreateTemp \/ WriteTemp \/ WriteTempFailed
             \/ PublishFailed \/ SyncDirectory
    BY <2>2, <1>h DEF RecordRejected, CreateTemp, WriteTemp, WriteTempFailed,
        PublishFailed, SyncDirectory, journal, files
  <2> QED
    BY <1>7, <2>1, <2>2 DEF Commit
<1>8. CASE Crash
  <2>1. CASE phase \in Growing \cup Sealed
    BY <1>8, <1>e, <2>1 DEF Crash
  <2>2. CASE phase \notin Growing \cup Sealed
    BY <1>8, <1>h, <2>2 DEF Crash, journal
  <2> QED
    BY <2>1, <2>2
<1>9. CASE Restart
  BY <1>9, <1>h DEF Restart, journal, files
<1>10. CASE Intrude
  <2>1. UNCHANGED <<phase, log, hashed, bytes>>
    BY <1>10 DEF Intrude, journal
  <2>2. CASE marker' = marker
    BY <1>h, <2>1, <2>2
  <2>3. CASE marker = NoFile /\ marker' = Foreign
    BY <2>1, <2>3, OtherFiles DEF JournalHashed, MarkerBindsLog
  <2> QED
    BY <1>10, <2>2, <2>3 DEF Intrude
<1>11. CASE UNCHANGED vars
  BY <1>11, <1>h DEF vars, journal, files
<1> QED
  BY <1>1, <1>2, <1>3, <1>5, <1>6, <1>7, <1>8, <1>9, <1>10, <1>11 DEF Next, Finalize

\* The initial states have no marker of this run.
LEMMA HashedInit == Init => JournalHashed
BY OtherFiles DEF Init, JournalHashed, MarkerBindsLog, Growing, Sealed

\* When the operating system fails no append but receipts and the terminal
\* event, a published run.json binds the very bytes of events.jsonl.
THEOREM MarkerBinding ==
    ASSUME OperationalAppendsReliable
    PROVE  Spec => []MarkerBindsLog
<1>1. JournalHashed => MarkerBindsLog
  BY DEF JournalHashed
<1>2. TypeOK /\ JournalHashed /\ [Next]_vars => JournalHashed'
  BY HashedStep
<1> QED
  BY <1>1, <1>2, TypeInit, TypeStep, CoveredStep, HashedInit, PTL DEF Spec

-----------------------------------------------------------------------------
(* EventWriter implements SettledArtifacts. *)

\* After the publication no step touches the journal or the marker.
LEMMA SettledIsFinal ==
    ASSUME TypeOK, JournalHashed, [Next]_vars, marker.state = "own"
    PROVE  log' = log /\ marker' = marker
<1> USE DEF Growing, Sealed
<1>1. phase \notin Growing \cup Sealed /\ marker # NoFile
  BY OtherFiles DEF JournalHashed
<1>2. ~CreateAdmitted
  BY <1>1 DEF CreateAdmitted
<1>3. CASE Create
  BY <1>2, <1>3 DEF Create
<1>4. CASE Operational \/ StageReceipt \/ BeginFinalize
  BY <1>1, <1>4 DEF Operational, AppendOperational, AppendRejected, AppendFailed,
      StageReceipt, BeginFinalize
<1>5. CASE Flush \/ Terminate
  BY <1>1, <1>5 DEF Flush, FlushReceipt, OmitReceipt, RestoreReceipt, PoisonLog,
      Terminate, AppendTerminal, TerminalFailed
<1>6. CASE Commit
  BY <1>1, <1>6 DEF Commit, RecordRejected, CreateTemp, WriteTemp, WriteTempFailed,
      PublishMarker, PublishFailed, SyncDirectory, files
<1>7. CASE Crash \/ Restart
  BY <1>1, <1>7 DEF Crash, Restart, files
<1>8. CASE Intrude
  BY <1>1, <1>8 DEF Intrude
<1>9. CASE UNCHANGED vars
  BY <1>9 DEF vars, files
<1> QED
  BY <1>3, <1>4, <1>5, <1>6, <1>7, <1>8, <1>9 DEF Next, Finalize

\* Every step of the writer is a step of the contract, or leaves the journal and
\* the marker as they are.
LEMMA SettledStep ==
    TypeOK /\ JournalHashed /\ [Next]_vars => [Settled!Next]_<<log, marker>>
<1> SUFFICES ASSUME TypeOK, JournalHashed, [Next]_vars
             PROVE  [Settled!Next]_<<log, marker>>
  OBVIOUS
<1>1. CASE marker.state = "own"
  BY <1>1, SettledIsFinal
<1>2. CASE marker.state # "own" /\ marker' = marker
  BY <1>2 DEF Settled!Next, Settled!Work, Settled!Published
<1>3. CASE marker.state # "own" /\ PublishMarker
  <2>1. log = Own(hashed) /\ EndsWithTerminal(hashed) /\ marker = NoFile
        /\ marker' = Own(hashed) /\ log' = log
    BY <1>3 DEF PublishMarker, JournalHashed, Sealed
  <2>2. log.state = "own" /\ log.data = hashed
    BY <2>1, OwnFile DEF TypeOK
  <2>3. Settled!Complete(hashed)
    BY <2>1 DEF EndsWithTerminal, Settled!Complete
  <2> QED
    BY <2>1, <2>2, <2>3, OtherFiles DEF Settled!Next, Settled!Publish, Settled!Absent, Own
<1>4. CASE marker.state # "own" /\ Intrude /\ marker = NoFile /\ marker' = Foreign
  BY <1>4, OtherFiles DEF Intrude, Settled!Next, Settled!Forestall, Settled!Absent
<1>5. \/ marker' = marker \/ PublishMarker
      \/ Intrude /\ marker = NoFile /\ marker' = Foreign
  BY DEF Next, Finalize, Create, Operational, AppendOperational, AppendRejected,
      AppendFailed, StageReceipt, BeginFinalize, Flush, FlushReceipt, OmitReceipt,
      RestoreReceipt, PoisonLog, Terminate, AppendTerminal, TerminalFailed, Commit,
      RecordRejected, CreateTemp, WriteTemp, WriteTempFailed, PublishFailed,
      SyncDirectory, Crash, Restart, Intrude, vars, files
<1> QED
  BY <1>1, <1>2, <1>3, <1>4, <1>5

\* The writer, with all its limits, faults and crashes, implements the contract
\* of the artifact directory: run.json last, once, over nothing, binding a
\* complete journal that no later step or process changes.
THEOREM WriterImplementsSettled ==
    ASSUME OperationalAppendsReliable
    PROVE  Spec => ImplementsSettled
<1>1. Init => Settled!Init
  BY OtherFiles DEF Init, Settled!Init, Settled!Published
<1>2. TypeOK /\ JournalHashed /\ [Next]_vars => JournalHashed'
  BY HashedStep
<1> QED
  BY <1>1, <1>2, TypeInit, TypeStep, CoveredStep, HashedInit, SettledStep, PTL
      DEF Spec, ImplementsSettled, Settled!Spec

-----------------------------------------------------------------------------
(* A journal that a new process finds. *)

\* Whoever starts on a used directory, and whatever happens before, leaves the
\* journal that is there as it is: create wants none, and an ended process
\* touches nothing.
THEOREM EarlierRunsUntouched == Spec => EarlierRunUntouched
<1>1. ASSUME [Next]_vars, phase \in Ended \cup {"absent"}, log # NoFile
      PROVE  log' = log
  <2> USE <1>1 DEF Ended
  <2>1. CASE Create
    BY <2>1 DEF Create, CreateAdmitted
  <2>2. CASE Operational \/ StageReceipt \/ BeginFinalize
    BY <2>2 DEF Operational, AppendOperational, AppendRejected, AppendFailed,
        StageReceipt, BeginFinalize
  <2>3. CASE Flush \/ Terminate
    BY <2>3 DEF Flush, FlushReceipt, OmitReceipt, RestoreReceipt, PoisonLog,
        Terminate, AppendTerminal, TerminalFailed
  <2>4. CASE Commit
    BY <2>4 DEF Commit, RecordRejected, CreateTemp, WriteTemp, WriteTempFailed,
        PublishMarker, PublishFailed, SyncDirectory
  <2>5. CASE Crash \/ Restart \/ Intrude
    BY <2>5 DEF Crash, Restart, Intrude, files
  <2>6. CASE UNCHANGED vars
    BY <2>6 DEF vars, files
  <2> QED
    BY <2>1, <2>2, <2>3, <2>4, <2>5, <2>6 DEF Next, Finalize
<1>2. [Next]_vars => [(phase \in Ended \cup {"absent"} /\ log # NoFile) => (log' = log)]_vars
  BY <1>1
<1> QED
  BY <1>2, PTL DEF Spec, EarlierRunUntouched

-----------------------------------------------------------------------------
(* The receipts of a journal. *)

\* Where the receipt lines of a journal end.
ReceiptEnds(data) == {i \in DOMAIN data : data[i].kind = "receipt" /\ data[i].at = "end"}

\* A journal has finitely many bytes, and so finitely many receipts.
LEMMA ReceiptsAreFinite ==
    ASSUME NEW data \in Seq(Byte)
    PROVE  /\ ReceiptEnds(data) \subseteq 1..Len(data)
           /\ IsFiniteSet(ReceiptEnds(data))
           /\ Cardinality(ReceiptEnds(data)) \in Nat
<1>1. DOMAIN data = 1..Len(data) /\ Len(data) \in Nat
  BY LenProperties
<1>2. ReceiptEnds(data) \subseteq 1..Len(data)
  BY <1>1 DEF ReceiptEnds
<1>3. IsFiniteSet(1..Len(data))
  BY <1>1, FS_Interval
<1> QED
  BY <1>2, <1>3, FS_Subset, FS_CardinalityType

\* A whole line adds its own end to the ends of the journal, and only a receipt
\* adds one that counts.
LEMMA LineEndsOnce ==
    ASSUME NEW data \in Seq(Byte), NEW seq \in Nat, NEW kind \in Kinds, NEW size \in Nat \ {0}
    PROVE  ReceiptEnds(data \o Line(seq, kind, size)) =
              ReceiptEnds(data) \cup (IF kind = "receipt" THEN {Len(data) + size} ELSE {})
<1> DEFINE line == Line(seq, kind, size)
           whole == data \o line
<1>1. line \in Seq(Byte) /\ Len(line) = size
  BY LineBytes
<1>2. \A i \in 1..size : line[i] = [seq |-> seq, kind |-> kind, at |-> IF i = size THEN "end" ELSE "body"]
  BY LineBytes
<1> HIDE DEF line
<1>3. ASSUME NEW i \in 1..size
      PROVE  line[i].kind = kind /\ (line[i].at = "end" <=> i = size)
  <2> DEFINE at == IF i = size THEN "end" ELSE "body"
  <2>1. line[i] = [seq |-> seq, kind |-> kind, at |-> at]
    BY <1>2
  <2>2. at = "end" <=> i = size
    OBVIOUS
  <2> HIDE DEF at
  <2> QED
    BY <2>1, <2>2
<1>4. Len(data) \in Nat /\ DOMAIN data = 1..Len(data)
  BY LenProperties
<1>5. whole \in Seq(Byte) /\ Len(whole) = Len(data) + size
  BY <1>1, ConcatProperties
<1>6. /\ \A i \in 1..Len(data) : whole[i] = data[i]
      /\ \A i \in 1..size : whole[Len(data) + i] = line[i]
  BY <1>1, <1>4, ConcatProperties
<1> HIDE DEF whole
<1>7. DOMAIN whole = 1..(Len(data) + size)
  BY <1>5, LenProperties
<1>8. ASSUME NEW i \in (Len(data) + 1)..(Len(data) + size)
      PROVE  whole[i].kind = kind /\ (whole[i].at = "end" <=> i = Len(data) + size)
  <2>1. i - Len(data) \in 1..size /\ i = Len(data) + (i - Len(data))
    BY <1>4, <1>8
  <2>2. whole[i] = line[i - Len(data)]
    BY <1>6, <2>1
  <2> QED
    BY <1>3, <1>4, <2>1, <2>2
<1>9. \A i \in DOMAIN whole : i \in DOMAIN data \/ i \in (Len(data) + 1)..(Len(data) + size)
  BY <1>4, <1>7
<1>10. DOMAIN data \subseteq DOMAIN whole /\ Len(data) + size \in DOMAIN whole
       /\ Len(data) + size \in (Len(data) + 1)..(Len(data) + size)
  BY <1>4, <1>7
<1>11. \A i \in DOMAIN data : whole[i] = data[i]
  BY <1>4, <1>6
<1>12. ReceiptEnds(whole) = ReceiptEnds(data) \cup (IF kind = "receipt" THEN {Len(data) + size} ELSE {})
  <2>1. CASE kind = "receipt"
    <3>1. ReceiptEnds(whole) \subseteq ReceiptEnds(data) \cup {Len(data) + size}
      BY <1>8, <1>9, <1>11, <2>1 DEF ReceiptEnds
    <3>2. ReceiptEnds(data) \cup {Len(data) + size} \subseteq ReceiptEnds(whole)
      BY <1>8, <1>10, <1>11, <2>1 DEF ReceiptEnds
    <3> QED
      BY <2>1, <3>1, <3>2
  <2>2. CASE kind # "receipt"
    <3>1. ReceiptEnds(whole) \subseteq ReceiptEnds(data)
      BY <1>8, <1>9, <1>11, <2>2 DEF ReceiptEnds
    <3>2. ReceiptEnds(data) \subseteq ReceiptEnds(whole)
      BY <1>10, <1>11 DEF ReceiptEnds
    <3> QED
      BY <2>2, <3>1, <3>2
  <2> QED
    BY <2>1, <2>2
<1> QED
  BY <1>12 DEF whole, line

\* So the number of receipts grows by one with a receipt line, else not at all.
LEMMA LineCountsOnce ==
    ASSUME NEW data \in Seq(Byte), NEW seq \in Nat, NEW kind \in Kinds, NEW size \in Nat \ {0}
    PROVE  Cardinality(ReceiptEnds(data \o Line(seq, kind, size))) =
              Cardinality(ReceiptEnds(data)) + (IF kind = "receipt" THEN 1 ELSE 0)
<1>1. IsFiniteSet(ReceiptEnds(data)) /\ Cardinality(ReceiptEnds(data)) \in Nat
      /\ ReceiptEnds(data) \subseteq 1..Len(data)
  BY ReceiptsAreFinite
<1>2. Len(data) + size \notin ReceiptEnds(data)
  BY <1>1, LenProperties
<1>3. CASE kind = "receipt"
  <2>1. ReceiptEnds(data \o Line(seq, kind, size)) = ReceiptEnds(data) \cup {Len(data) + size}
    BY <1>3, LineEndsOnce
  <2>2. Cardinality(ReceiptEnds(data) \cup {Len(data) + size}) = Cardinality(ReceiptEnds(data)) + 1
    BY <1>1, <1>2, FS_AddElement
  <2> QED
    BY <1>3, <2>1, <2>2
<1>4. CASE kind # "receipt"
  <2>1. ReceiptEnds(data \o Line(seq, kind, size)) = ReceiptEnds(data) \cup {}
    BY <1>4, LineEndsOnce
  <2>2. ReceiptEnds(data) \cup {} = ReceiptEnds(data)
    OBVIOUS
  <2> QED
    BY <1>1, <1>4, <2>1, <2>2
<1> QED
  BY <1>3, <1>4

\* Every receipt that was offered is staged, counted as omitted or in the journal,
\* from create to the rename; a marker freezes the three.
Accounted ==
    /\ phase \in Growing => offered = omitted + staged + Cardinality(ReceiptEnds(hashed))
    /\ phase \in Sealed =>
          offered = omitted + Cardinality(ReceiptEnds(hashed)) /\ reported \in {0, omitted}
    /\ OmissionsAccounted

\* An append adds one receipt to the journal if it is one.
LEMMA AdvanceCounts ==
    ASSUME TypeOK, NEW kind \in Kinds, NEW size \in Nat \ {0}, Advance(kind, size)
    PROVE  Cardinality(ReceiptEnds(hashed')) =
              Cardinality(ReceiptEnds(hashed)) + (IF kind = "receipt" THEN 1 ELSE 0)
<1>1. hashed \in Seq(Byte) /\ nextSeq \in Nat
  BY DEF TypeOK
<1>2. hashed' = hashed \o Line(nextSeq, kind, size)
  BY Zenon DEF Advance
<1> QED
  BY <1>1, <1>2, LineCountsOnce

\* After the publication no step changes what the marker accounts for.
LEMMA SettledKeepsAccounts ==
    ASSUME TypeOK, JournalHashed, [Next]_vars, marker.state = "own"
    PROVE  /\ phase' \notin Growing \cup Sealed
           /\ UNCHANGED <<offered, omitted, reported>>
<1> USE DEF Growing, Sealed
<1>1. phase \notin Growing \cup Sealed /\ marker # NoFile
  BY OtherFiles DEF JournalHashed
<1>2. ~CreateAdmitted
  BY <1>1 DEF CreateAdmitted
<1>3. CASE Create
  BY <1>2, <1>3 DEF Create, journal, receipts
<1>4. CASE Operational \/ StageReceipt \/ BeginFinalize
  BY <1>1, <1>4 DEF Operational, AppendOperational, AppendRejected, AppendFailed,
      StageReceipt, BeginFinalize
<1>5. CASE Flush \/ Terminate
  BY <1>1, <1>5 DEF Flush, FlushReceipt, OmitReceipt, RestoreReceipt, PoisonLog,
      Terminate, AppendTerminal, TerminalFailed
<1>6. CASE Commit
  BY <1>1, <1>6 DEF Commit, RecordRejected, CreateTemp, WriteTemp, WriteTempFailed,
      PublishMarker, PublishFailed, SyncDirectory, journal, receipts
<1>7. CASE Crash \/ Restart
  BY <1>1, <1>7 DEF Crash, Restart, journal, receipts
<1>8. CASE Intrude
  BY <1>1, <1>8 DEF Intrude, journal, receipts
<1>9. CASE UNCHANGED vars
  BY <1>1, <1>9 DEF vars, journal, receipts
<1> QED
  BY <1>3, <1>4, <1>5, <1>6, <1>7, <1>8, <1>9 DEF Next, Finalize

\* Every step keeps the receipts accounted for.
LEMMA AccountedStep ==
    ASSUME OperationalAppendsReliable
    PROVE  TypeOK /\ JournalHashed /\ Accounted /\ [Next]_vars => Accounted'
<1> SUFFICES ASSUME TypeOK, JournalHashed, Accounted, [Next]_vars PROVE Accounted'
  OBVIOUS
<1> USE DEF Growing, Sealed
<1> DEFINE count == Cardinality(ReceiptEnds(hashed))
<1>t. /\ offered \in Nat /\ omitted \in Nat /\ staged \in Nat /\ hashed \in Seq(Byte)
      /\ count \in Nat
  BY ReceiptsAreFinite DEF TypeOK
<1>s. \A size \in LineSizes : size \in Nat \ {0}
  BY EventWriterAssumption
<1>k. {"operational", "receipt", "terminal"} \subseteq Kinds
  BY DEF Kinds
<1>0. CASE marker.state = "own"
  <2>1. log' = log /\ marker' = marker
    BY <1>0, SettledIsFinal
  <2>2. phase' \notin Growing \cup Sealed /\ UNCHANGED <<offered, omitted, reported>>
    BY <1>0, SettledKeepsAccounts
  <2> QED
    BY <2>1, <2>2 DEF Accounted, OmissionsAccounted
<1>n. ASSUME marker'.state # "own",
             phase' \in Growing => offered' = omitted' + staged' + Cardinality(ReceiptEnds(hashed')),
             phase' \in Sealed => /\ offered' = omitted' + Cardinality(ReceiptEnds(hashed'))
                                  /\ reported' \in {0, omitted'}
      PROVE  Accounted'
  BY <1>n DEF Accounted, OmissionsAccounted
<1> SUFFICES ASSUME marker.state # "own" PROVE Accounted'
  BY <1>0
<1>g. phase \in Growing => offered = omitted + staged + count
  BY DEF Accounted
<1>d. phase \in Sealed => offered = omitted + count /\ reported \in {0, omitted}
  BY DEF Accounted
<1> HIDE DEF count
\* A step that moves nothing of the account.
<1>h. ASSUME UNCHANGED <<hashed, offered, omitted, staged, reported>>, marker'.state # "own",
             phase' = phase \/ (phase \in Growing /\ phase' \in Growing)
                            \/ (phase \in Sealed /\ phase' \in Sealed)
                            \/ phase' \notin Growing \cup Sealed
      PROVE  Accounted'
  BY <1>h, <1>g, <1>d, <1>n DEF count
<1>1. CASE Create
  <2>1. CASE CreateAdmitted
    <3>1. /\ hashed' = << >> /\ omitted' = 0 /\ staged' = 0 /\ offered' = 0
          /\ marker' = marker /\ phase' = "running"
      BY <1>1, <2>1 DEF Create
    <3>2. Cardinality(ReceiptEnds(<< >>)) = 0
      <4>1. ReceiptEnds(<< >>) = {}
        BY DEF ReceiptEnds
      <4> QED
        BY <4>1, FS_EmptySet
    <3> QED
      BY <1>n, <3>1, <3>2
  <2>2. CASE ~CreateAdmitted
    BY <1>1, <1>h, <2>2 DEF Create, journal, receipts
  <2> QED
    BY <2>1, <2>2
<1>2. CASE Operational
  <2>1. PICK size \in LineSizes : AppendOperational(size) \/ AppendRejected(size)
                                 \/ AppendFailed(size)
    BY <1>2 DEF Operational
  <2>2. CASE AppendOperational(size)
    <3>1. /\ phase = "running" /\ Advance("operational", size)
          /\ UNCHANGED <<phase, omitted, staged, offered, reported, marker>>
      BY <2>2 DEF AppendOperational, receipts
    <3>2. Cardinality(ReceiptEnds(hashed')) = count
      BY <1>k, <1>s, <1>t, <3>1, AdvanceCounts DEF count
    <3> QED
      BY <1>g, <1>n, <3>1, <3>2
  <2>3. CASE AppendRejected(size)
    BY <1>h, <2>3 DEF AppendRejected, AfterAppendError, journal, receipts, files
  <2>4. CASE AppendFailed(size)
    BY <2>4 DEF AppendFailed, OperationalAppendsReliable
  <2> QED
    BY <2>1, <2>2, <2>3, <2>4
<1>3. CASE StageReceipt
  <2>1. /\ phase = "running" /\ UNCHANGED <<phase, hashed, reported, marker>>
        /\ offered' = offered + 1
        /\ \/ staged' = staged + 1 /\ omitted' = omitted
           \/ omitted' = omitted + 1 /\ staged' = staged
    BY <1>3 DEF StageReceipt, files
  <2>2. offered' = omitted' + staged' + Cardinality(ReceiptEnds(hashed'))
    BY <1>g, <1>t, <2>1 DEF count
  <2> QED
    BY <1>n, <2>1, <2>2
<1>4. CASE BeginFinalize
  BY <1>4, <1>h DEF BeginFinalize, journal, receipts, files
<1>5. CASE Flush
  <2>1. PICK size \in LineSizes : FlushReceipt(size) \/ OmitReceipt(size)
                                 \/ RestoreReceipt(size) \/ PoisonLog(size)
    BY <1>5 DEF Flush
  <2>2. CASE FlushReceipt(size)
    <3>1. /\ phase = "flushing" /\ Advance("receipt", size) /\ staged' = staged - 1
          /\ UNCHANGED <<phase, omitted, offered, reported, marker>>
      BY <2>2 DEF FlushReceipt
    <3>2. Cardinality(ReceiptEnds(hashed')) = count + 1
      BY <1>k, <1>s, <3>1, AdvanceCounts DEF count
    <3>3. offered' = omitted' + staged' + Cardinality(ReceiptEnds(hashed'))
      BY <1>g, <1>t, <3>1, <3>2
    <3> QED
      BY <1>n, <3>1, <3>3
  <2>3. CASE OmitReceipt(size) \/ RestoreReceipt(size)
    <3>1. /\ phase = "flushing" /\ staged' = staged - 1 /\ omitted' = omitted + 1
          /\ UNCHANGED <<phase, hashed, offered, reported, marker>>
      BY <2>3 DEF OmitReceipt, RestoreReceipt, files
    <3>2. offered' = omitted' + staged' + Cardinality(ReceiptEnds(hashed'))
      BY <1>g, <1>t, <3>1 DEF count
    <3> QED
      BY <1>n, <3>1, <3>2
  <2>4. CASE PoisonLog(size)
    BY <1>n, <2>4 DEF PoisonLog
  <2> QED
    BY <2>1, <2>2, <2>3, <2>4
<1>6. CASE Terminate
  <2>1. PICK base \in 1..Reserve : AppendTerminal(base) \/ TerminalFailed(base)
    BY <1>6 DEF Terminate
  <2>2. CASE AppendTerminal(base) /\ Fits(TerminalSize(base), TRUE)
    <3>1. /\ phase = "flushing" /\ staged = 0 /\ phase' = "terminal"
          /\ Advance("terminal", TerminalSize(base)) /\ reported' = TerminalCount(base)
          /\ UNCHANGED <<omitted, offered, marker>>
      BY <2>2 DEF AppendTerminal
    <3>2. TerminalSize(base) \in Nat \ {0}
      BY TerminalSizes
    <3>3. Cardinality(ReceiptEnds(hashed')) = count
      BY <1>k, <1>t, <3>1, <3>2, AdvanceCounts DEF count
    <3>4. reported' \in {0, omitted'}
      BY <3>1 DEF TerminalCount
    <3>5. offered' = omitted' + Cardinality(ReceiptEnds(hashed'))
      BY <1>g, <1>t, <3>1, <3>3
    <3> QED
      BY <1>n, <3>1, <3>4, <3>5
  <2>3. CASE AppendTerminal(base) /\ ~Fits(TerminalSize(base), TRUE)
    BY <1>n, <2>3 DEF AppendTerminal
  <2>4. CASE TerminalFailed(base)
    BY <1>n, <2>4 DEF TerminalFailed
  <2> QED
    BY <2>1, <2>2, <2>3, <2>4
<1>7. CASE Commit
  <2>1. CASE PublishMarker
    <3>1. /\ phase = "synced" /\ phase' = "renamed" /\ log' = log
          /\ UNCHANGED <<omitted, offered, reported>>
      BY <2>1 DEF PublishMarker, journal, receipts
    <3>2. log = Own(hashed)
      BY <3>1 DEF JournalHashed
    <3>3. log.data = hashed
      BY <1>t, <3>2, OwnFile
    <3>4. offered = omitted + Cardinality(ReceiptEnds(log.data)) /\ reported \in {0, omitted}
      BY <1>d, <3>1, <3>3 DEF count
    <3> QED
      BY <3>1, <3>4 DEF Accounted, OmissionsAccounted, ReceiptEnds
  <2>2. CASE RecordRejected \/ CreateTemp \/ WriteTemp \/ WriteTempFailed
             \/ PublishFailed \/ SyncDirectory
    BY <2>2, <1>h DEF RecordRejected, CreateTemp, WriteTemp, WriteTempFailed,
        PublishFailed, SyncDirectory, journal, receipts, files
  <2> QED
    BY <1>7, <2>1, <2>2 DEF Commit
<1>8. CASE Crash \/ Restart
  BY <1>8, <1>n DEF Crash, Restart, files
<1>9. CASE Intrude
  <2>1. marker'.state # "own"
    BY <1>9, OtherFiles DEF Intrude
  <2> QED
    BY <1>9, <1>h, <2>1 DEF Intrude, journal, receipts
<1>10. CASE UNCHANGED vars
  BY <1>10, <1>h DEF vars, journal, receipts, files
<1> QED
  BY <1>1, <1>2, <1>3, <1>4, <1>5, <1>6, <1>7, <1>8, <1>9, <1>10 DEF Next, Finalize

\* The receipts that a published journal lacks are exactly the ones the writer
\* counted as omitted: at staging, at a limit and after a rolled-back write.
THEOREM OmissionsAreAccounted ==
    ASSUME OperationalAppendsReliable
    PROVE  Spec => []OmissionsAccounted
<1>1. Init => Accounted
  BY OtherFiles DEF Init, Accounted, OmissionsAccounted, Growing, Sealed
<1>2. TypeOK /\ JournalHashed /\ [Next]_vars => JournalHashed'
  BY HashedStep
<1>3. TypeOK /\ JournalHashed /\ Accounted /\ [Next]_vars => Accounted'
  BY AccountedStep
<1>4. Accounted => OmissionsAccounted
  BY DEF Accounted
<1> QED
  BY <1>1, <1>2, <1>3, <1>4, TypeInit, TypeStep, CoveredStep, HashedInit, PTL DEF Spec

=============================================================================
