-------------------------- MODULE AgentLoopProofs --------------------------
(***************************************************************************)
(* Proofs about the agent loop, for every choice of its limits, cutoffs,   *)
(* clock, policies and refused appends: no finish is followed by another   *)
(* request, every dispatch is in its window, the provisional answer of a   *)
(* review is delivered when it may be and only then, and the journal of a  *)
(* settled run is one its reader accepts.                                  *)
(***************************************************************************)
EXTENDS AgentLoop, FiniteSetTheorems, SequenceTheorems, TLAPS

(***************************************************************************)
(* Types.                                                                  *)
(***************************************************************************)
Outside == {"top", "checkpoint", "request", "await", "criticRequest", "criticAwait", "admit"}
InBatch == {"register", "dispatch", "tool", "commit"}
Ending == {"final", "finalize", "ended"}

Phases == {"ActionOpen", "FinalOnly", "SettlingAccepted", "TerminalCommit"}

Controllers ==
    [state : {"ActionOpen", "SoftFinish", "FinalOnly"}, pending : BOOLEAN, emitted : BOOLEAN, softAdmitted : BOOLEAN]

Challenges ==
    [phase : {"NotIssued", "Validation", "Decision", "Correction", "Revalidation"},
     fallback : BOOLEAN, mutated : BOOLEAN]

FlagTypes ==
    [trigger : BOOLEAN, notice : BOOLEAN, finalSent : BOOLEAN, critic : BOOLEAN, checkpoint : BOOLEAN,
     recovery : BOOLEAN]

(* named, so that a proof about a record need not look into them         *)
Count == Nat
Instant == Int
Calls == Seq(Effects)

JournalTypes ==
    [seen : SUBSET Count, inFlight : SUBSET Count, completed : Count, failed : Count,
     tools : [Call -> {"none", "inFlight", "dispatched", "completed", "failed"}],
     checkpoint : {"none", "awaited", "bound"}, finals : Count, broken : BOOLEAN]

(* the records with numbers and texts in them: their shape, then the fields *)
IsUsage(u) == u = [completed |-> u.completed, failed |-> u.failed] /\ u.completed \in Nat /\ u.failed \in Nat

IsRequest(r) ==
    /\ r = [mode |-> r.mode, deadline |-> r.deadline] /\ r.mode \in {"none", "action", "final", "critic"}
    /\ r.deadline \in Int

IsOutcome(o) == o = [status |-> o.status, phase |-> o.phase, code |-> o.code, text |-> o.text]

IsBatch(b) ==
    b \in [effects : Calls, repeat : BOOLEAN, first : Count, next : Count,
           stage : {"none", "Validation", "Correction", "Revalidation"},
           admitted : BOOLEAN, cutoff : Instant, dispatched : BOOLEAN, mutated : BOOLEAN]

ControlTypes ==
    /\ mode \in Modes /\ now \in ClockPoints /\ cancelled \in BOOLEAN
    /\ pc \in Outside \cup InBatch \cup Ending /\ hist \in {"grown", "checkpoint"}
    /\ IsOutcome(outcome) /\ published \in BOOLEAN /\ dirty \in BOOLEAN

PolicyTypes == phase \in Phases /\ finish \in Controllers /\ review \in Challenges /\ flags \in FlagTypes

CountTypes == turns \in Nat /\ calls \in Nat /\ IsUsage(usage) /\ IsRequest(req)

LoopTypes == ControlTypes /\ PolicyTypes /\ CountTypes /\ IsBatch(batch) /\ journal \in JournalTypes

(***************************************************************************)
(* The inductive invariants.                                               *)
(***************************************************************************)
(* a controller without a signed deadline never leaves ActionOpen; behind  *)
(* the final-only request there is only the end; the batch of soft finish  *)
(* leads to the final-only request                                         *)
FinishInv ==
    /\ ~mode.split => finish.state = "ActionOpen"
    /\ flags.finalSent => pc \in Ending \/ (pc = "await" /\ req.mode = "final")
    /\ finish.softAdmitted =>
          \/ pc \in InBatch /\ finish.state = "SoftFinish"
          \/ pc \in {"top", "checkpoint", "request"} /\ phase = "FinalOnly"
          \/ pc = "await" /\ req.mode = "final"
          \/ pc \in Ending

(* what was admitted stays within the window it was admitted for           *)
BatchInv ==
    /\ pc = "admit" => batch.next = 1 /\ batch.effects # << >> /\ ~batch.dispatched /\ ~batch.mutated
    /\ pc \in InBatch \ {"commit"} => batch.next \in 1..Len(batch.effects)
    /\ pc \in {"dispatch", "tool"} => batch.admitted
    /\ pc \in InBatch => batch.stage = ToolStage(review, batch.effects)
    /\ pc \in InBatch /\ batch.admitted =>
          /\ batch.cutoff <= ActorCutoff
          /\ finish.state # "FinalOnly"
          /\ finish.state = "SoftFinish" => batch.cutoff <= SoftActionCutoff
          /\ Active(review) => batch.stage # "none"
    /\ batch.mutated => batch.dispatched
    /\ batch.dispatched => batch.stage # "none"

(* the candidate of a review is safe exactly as long as nothing changed    *)
(* behind it, and a final-only request is sent only without one            *)
CandidateInv ==
    /\ pc \notin Ending => outcome = Undecided
    /\ pc = "final" => outcome.status = "none" /\ outcome.code = "none"
    /\ review.fallback \/ review.mutated => Active(review)
    /\ pc \in Outside /\ Active(review) => (SafeFallback(review) <=> ~dirty)
    /\ pc \in InBatch /\ Active(review) =>
          (SafeFallback(review) /\ ~batch.mutated /\ ~(pc = "tool" /\ Effect = "mutating") <=> ~dirty)
    /\ pc \in {"criticRequest", "criticAwait"} => Active(review) /\ ~dirty
    /\ pc = "await" /\ req.mode = "final" => ~SafeFallback(review)
    /\ pc = "final" /\ outcome.text = "candidate" => ~dirty
    /\ NoStaleFallback /\ CandidateSurvives

(* the turns of the journal are those of the loop, one in flight while it   *)
(* waits; a settlement is missing only if its append was refused           *)
Artifact == outcome.status = "RuntimeFailure" /\ outcome.phase = "Artifact"

TurnsInv ==
    /\ ~journal.broken /\ journal.seen = 0..(turns - 1)
    /\ pc \notin {"finalize", "ended"} =>
          /\ journal.inFlight = IF pc \in {"await", "criticAwait"} THEN {turns - 1} ELSE {}
          /\ journal.finals = 0
    /\ journal.completed <= usage.completed /\ (journal.completed = usage.completed \/ Artifact)
    /\ journal.failed <= usage.failed /\ (journal.failed = usage.failed \/ Artifact)
    /\ outcome.status = "Success" => journal.finals = 1

(* so are its calls: the ones of earlier batches completed, the ones of the *)
(* batch under way open                                                    *)
UpTo(n) == n \in 0..MaxCalls /\ \A c \in Call : journal.tools[c] = "none" <=> c > n

CallsInv ==
    /\ UpTo(calls) \/ (Artifact /\ UpTo(calls - 1))
    /\ pc \in Outside \cup {"final"} \/ outcome.status = "Success" =>
          \A c \in 1..calls : journal.tools[c] = "completed"
    /\ pc \in InBatch \cup {"admit"} =>
          /\ ~batch.repeat /\ batch.first >= 1
          /\ calls = batch.first + batch.next - (IF pc \in {"dispatch", "tool"} THEN 1 ELSE 2)
          /\ batch.first + Len(batch.effects) - 1 <= MaxCalls
          /\ pc = "commit" => batch.next = Len(batch.effects) + 1
          /\ \A c \in 1..(batch.first - 1) : journal.tools[c] = "completed"
          /\ \A c \in batch.first..calls : journal.tools[c] \in {"inFlight", "dispatched"}
    /\ pc = "dispatch" => journal.tools[calls] = "inFlight"

(* a checkpoint waits for its request only at the very request it announces *)
CheckpointInv ==
    /\ flags.checkpoint <=> journal.checkpoint # "none"
    /\ journal.checkpoint = "awaited" =>
          /\ pc = "request" /\ hist = "checkpoint" /\ mode.policy = "CheckpointV4" /\ phase = "ActionOpen"
          /\ flags.trigger
    /\ ~flags.trigger => now >= SoftFinishCutoff

JournalInv == TurnsInv /\ CallsInv /\ CheckpointInv /\ (published => pc = "ended")

(* what the reader's guarantee needs of the environment: call ids do not    *)
(* come back, and the request behind a checkpoint is not refused           *)
SoundAppends == ~RepeatIds /\ "provider.requested" \notin FaultyEvents["CheckpointV4"]

-----------------------------------------------------------------------------
(* What the operators return. *)

\* Min of two integers.
LEMMA MinTwo ==
    ASSUME NEW a \in Int, NEW b \in Int
    PROVE  Min({a, b}) \in Int /\ Min({a, b}) <= a /\ Min({a, b}) <= b
<1>1. \E x \in {a, b} : \A y \in {a, b} : x =< y
  <2>1. CASE a <= b
    BY <2>1
  <2>2. CASE b <= a
    BY <2>2
  <2> QED BY <2>1, <2>2
<1>2. Min({a, b}) \in {a, b} /\ \A y \in {a, b} : Min({a, b}) =< y
  BY <1>1, Zenon DEF Min
<1> QED BY <1>2

\* The clock and the cutoffs are integers.
LEMMA Cutoffs ==
    /\ ClockPoints \subseteq Nat /\ LastSend \in Nat /\ ActorDone \in Nat /\ ToolSettled \in Nat
    /\ FinalReserve \in Nat /\ ToolReserve \in Nat /\ MinSendWindow \in Nat
    /\ MaxTurns \in Nat /\ MaxCalls \in Nat /\ MaxPerResponse \in Nat
    /\ ActorCutoff \in Nat /\ ToolCutoff \in Nat /\ SoftActionCutoff \in Int /\ SoftFinishCutoff \in Int
  BY FinishAssumption, ReviewAssumption, LoopAssumption
     DEF ActorCutoff, ToolCutoff, SoftActionCutoff, SoftFinishCutoff

\* The deadlines of a review are integers.
LEMMA ReviewDeadlines ==
    ASSUME NEW t \in Nat
    PROVE  ReviewProviderDeadline(t) \in Int /\ ReviewToolDeadline(t) \in Int
<1>1. t + FinalReserve \in Int /\ t + ToolReserve \in Int /\ ActorDone \in Int /\ ToolSettled \in Int
  BY Cutoffs
<1>2. Min({t + FinalReserve, ActorDone}) \in Int /\ Min({t + ToolReserve, ToolSettled}) \in Int
  BY <1>1, MinTwo, Zenon
<1> QED BY <1>2 DEF ReviewProviderDeadline, ReviewToolDeadline

\* Time and turns move the controller, and touch no admission.
LEMMA ObserveTypes ==
    ASSUME NEW f \in Controllers, NEW t, NEW n
    PROVE  /\ Observe(f, t, n) \in Controllers /\ Observe(f, t, n).softAdmitted = f.softAdmitted
           /\ CloseActions(f) \in Controllers /\ CloseActions(f).softAdmitted = f.softAdmitted
           /\ TakeNotice(f) \in Controllers /\ TakeNotice(f).softAdmitted = f.softAdmitted
           /\ TakeNotice(f).state = f.state
           /\ SettleBatch(f) \in Controllers /\ SettleBatch(f).softAdmitted = f.softAdmitted
  BY DEF Controllers, Observe, CloseActions, TakeNotice, NoticeDue, SettleBatch

\* What a batch is admitted with: a deadline no later than the one asked for
\* and, in soft finish, than the end of soft actions; an open controller.
LEMMA AdmitTypes ==
    ASSUME NEW f \in Controllers, NEW t \in Nat, NEW d \in Int
    PROVE  LET r == AdmitBatch(f, t, d)
           IN  /\ r.controller \in Controllers /\ r.admitted \in BOOLEAN /\ r.deadline \in Int
               /\ f.state = "ActionOpen" => r.controller.state = "ActionOpen"
               /\ r.controller.softAdmitted => f.softAdmitted \/ r.controller.state = "SoftFinish"
               /\ r.admitted => /\ r.deadline <= d /\ r.controller.state # "FinalOnly"
                                /\ r.controller.state = "SoftFinish" => r.deadline <= SoftActionCutoff
<1>1. /\ Min({d, SoftActionCutoff}) \in Int /\ Min({d, SoftActionCutoff}) <= d
      /\ Min({d, SoftActionCutoff}) <= SoftActionCutoff /\ SoftActionCutoff \in Int
  BY MinTwo, Cutoffs
<1> DEFINE late == [f EXCEPT !.state = "FinalOnly"]
           soft == [f EXCEPT !.softAdmitted = @ \/ (f.state = "SoftFinish")]
           r == AdmitBatch(f, t, d)
<1>2. /\ late \in Controllers /\ late.state = "FinalOnly" /\ late.softAdmitted = f.softAdmitted
      /\ soft \in Controllers /\ soft.state = f.state
      /\ soft.softAdmitted = (f.softAdmitted \/ f.state = "SoftFinish")
      /\ f.state \in {"ActionOpen", "SoftFinish", "FinalOnly"}
  BY DEF Controllers
<1>3. CASE f.state = "SoftFinish" /\ ~f.softAdmitted /\ t >= Min({d, SoftActionCutoff})
  <2>1. r.controller = late /\ r.admitted = FALSE /\ r.deadline = d
    BY <1>3 DEF AdmitBatch
  <2> HIDE DEF late
  <2> QED BY <1>1, <1>2, <1>3, <2>1
<1>4. CASE f.state = "SoftFinish" /\ ~f.softAdmitted /\ ~(t >= Min({d, SoftActionCutoff}))
  <2>1. r.controller = soft /\ r.admitted = TRUE /\ r.deadline = Min({d, SoftActionCutoff})
    BY <1>4 DEF AdmitBatch
  <2> HIDE DEF soft
  <2> QED BY <1>1, <1>2, <1>4, <2>1
<1>5. CASE f.state = "ActionOpen"
  <2>1. r.controller = soft /\ r.admitted = TRUE /\ r.deadline = d
    BY <1>5 DEF AdmitBatch
  <2>2. soft.softAdmitted => f.softAdmitted
    BY <1>5 DEF Controllers
  <2>3. d <= d
    OBVIOUS
  <2>4. r.deadline <= d /\ soft.state # "FinalOnly" /\ soft.state # "SoftFinish"
    BY <1>5, <2>1, <2>3 DEF Controllers
  <2> HIDE DEF soft
  <2> QED BY <1>2, <1>5, <2>1, <2>2, <2>4, Zenon
<1>6. CASE f.state = "FinalOnly" \/ (f.state = "SoftFinish" /\ f.softAdmitted)
  <2>1. r.controller = soft /\ r.admitted = FALSE /\ r.deadline = d
    BY <1>6 DEF AdmitBatch
  <2> HIDE DEF soft
  <2> QED BY <1>1, <1>2, <1>6, <2>1
<1> QED BY <1>2, <1>3, <1>4, <1>5, <1>6, Zenon

\* The steps of a review keep its shape.
LEMMA ReviewTypes ==
    ASSUME NEW r \in Challenges
    PROVE  /\ Issue(r) \in Challenges /\ DropFallback(r) \in Challenges /\ CloseReview(r) \in Challenges
           /\ \A e : ToolStage(r, e) \in {"none", "Validation", "Correction", "Revalidation"}
           /\ \A s \in {"Validation", "Correction", "Revalidation"}, m \in BOOLEAN :
                 CommitStage(r, s, TRUE, m) \in Challenges
<1>1. Issue(r) \in Challenges /\ DropFallback(r) \in Challenges /\ CloseReview(r) \in Challenges
  BY DEF Challenges, Issue, DropFallback, CloseReview, Active
<1>2. \A e : ToolStage(r, e) \in {"none", "Validation", "Correction", "Revalidation"}
  BY DEF ToolStage
<1>3. NextPhase["Validation"] = "Decision" /\ NextPhase["Correction"] = "Correction"
      /\ NextPhase["Revalidation"] = "Revalidation"
  BY DEF NextPhase
<1>4. ASSUME NEW s \in {"Validation", "Correction", "Revalidation"}, NEW m \in BOOLEAN
      PROVE  CommitStage(r, s, TRUE, m) \in Challenges
  <2>1. NextPhase[s] \in {"Decision", "Correction", "Revalidation"}
    BY <1>3
  <2>2. \A p \in {"Decision", "Correction", "Revalidation"}, a \in BOOLEAN, b \in BOOLEAN :
           [phase |-> p, fallback |-> a, mutated |-> b] \in Challenges
    BY DEF Challenges
  <2>3. (r.fallback /\ ~m) \in BOOLEAN /\ (r.mutated \/ m) \in BOOLEAN
    BY Zenon
  <2> QED BY <2>1, <2>2, <2>3, Zenon DEF CommitStage
<1> QED BY <1>1, <1>2, <1>4

\* A batch of calls is a non-empty sequence.
LEMMA BatchesAreSequences ==
    ASSUME NEW e \in Batches
    PROVE  e \in Seq(Effects) /\ Len(e) \in Nat \ {0} /\ e # << >>
<1>1. PICK n \in 1..MaxPerResponse : e \in [1..n -> Effects]
  BY DEF Batches
<1>2. n \in Nat /\ n > 0
  BY <1>1, Cutoffs
<1>3. e \in Seq(Effects)
  BY <1>1, <1>2, SeqDef, Zenon
<1>4. Len(e) = n
  BY <1>1, <1>2, <1>3, LenProperties
<1> QED BY <1>2, <1>3, <1>4

\* The reader's monitor keeps its shape.
LEMMA JournalTypesKept ==
    ASSUME NEW j \in JournalTypes, NEW n, NEW x, NEW y
    PROVE  /\ n \in Count => J!ProviderRequested(j, n, x) \in JournalTypes
           /\ J!ProviderCompleted(j, n) \in JournalTypes /\ J!ProviderFailed(j, n) \in JournalTypes
           /\ J!ContextCheckpointed(j, x, y) \in JournalTypes
           /\ J!ToolRegistered(j, x) \in JournalTypes /\ J!ToolDispatched(j, x) \in JournalTypes
           /\ J!ToolFailed(j, x) \in JournalTypes /\ J!ToolsCompleted(j, x) \in JournalTypes
           /\ J!AssistantFinal(j) \in JournalTypes
<1> USE DEF JournalTypes, J!Guarded, J!Reject
<1>1. n \in Count => J!ProviderRequested(j, n, x) \in JournalTypes
  BY DEF J!ProviderRequested
<1>2. J!ProviderCompleted(j, n) \in JournalTypes
  <2>1. j.completed + 1 \in Count
    BY DEF Count
  <2>2. ASSUME NEW k \in Count
        PROVE  [j EXCEPT !.inFlight = @ \ {n}, !.completed = k] \in JournalTypes
    OBVIOUS
  <2>3. [j EXCEPT !.inFlight = @ \ {n}, !.completed = j.completed + 1] \in JournalTypes
    BY <2>1, <2>2, Zenon
  <2>4. [j EXCEPT !.broken = TRUE] \in JournalTypes
    OBVIOUS
  <2> QED BY <2>3, <2>4, Zenon DEF J!ProviderCompleted
<1>3. J!ProviderFailed(j, n) \in JournalTypes
  <2>1. j.failed + 1 \in Count
    BY DEF Count
  <2>2. ASSUME NEW k \in Count
        PROVE  [j EXCEPT !.inFlight = @ \ {n}, !.failed = k] \in JournalTypes
    OBVIOUS
  <2>3. [j EXCEPT !.inFlight = @ \ {n}, !.failed = j.failed + 1] \in JournalTypes
    BY <2>1, <2>2, Zenon
  <2>4. [j EXCEPT !.broken = TRUE] \in JournalTypes
    OBVIOUS
  <2> QED BY <2>3, <2>4, Zenon DEF J!ProviderFailed
<1>4. J!ContextCheckpointed(j, x, y) \in JournalTypes
  BY DEF J!ContextCheckpointed
<1>5. J!ToolRegistered(j, x) \in JournalTypes
  BY DEF J!ToolRegistered
<1>6. J!ToolDispatched(j, x) \in JournalTypes
  BY DEF J!ToolDispatched
<1>7. J!ToolFailed(j, x) \in JournalTypes
  BY DEF J!ToolFailed
<1>8. J!ToolsCompleted(j, x) \in JournalTypes
  BY DEF J!ToolsCompleted
<1>9. J!AssistantFinal(j) \in JournalTypes
  <2>1. j.finals + 1 \in Count
    BY DEF Count
  <2>2. ASSUME NEW k \in Count
        PROVE  [j EXCEPT !.finals = k] \in JournalTypes
    OBVIOUS
  <2>3. [j EXCEPT !.finals = j.finals + 1] \in JournalTypes
    BY <2>1, <2>2, Zenon
  <2>4. [j EXCEPT !.broken = TRUE] \in JournalTypes
    OBVIOUS
  <2> QED BY <2>3, <2>4, Zenon DEF J!AssistantFinal
<1> QED BY <1>1, <1>2, <1>3, <1>4, <1>5, <1>6, <1>7, <1>8, <1>9

\* The steps the actions share, on the outcome.
LEMMA FailMoves ==
    ASSUME NEW s, NEW w, NEW c, IsOutcome(outcome), Fail(s, w, c)
    PROVE  pc' = "finalize" /\ outcome' = [status |-> s, phase |-> w, code |-> c, text |-> outcome.text]
  BY DEF IsOutcome, Fail, Goto

\* What delivering a text does to the outcome.
LEMMA FinalizeMoves ==
    ASSUME NEW x, IsOutcome(outcome), FinalizeWith(x)
    PROVE  /\ pc' = "final"
           /\ outcome' = [status |-> outcome.status, phase |-> outcome.phase, code |-> outcome.code, text |-> x]
  BY DEF IsOutcome, FinalizeWith, Goto

\* The deadline a batch is admitted with: what it asks for is no later than
\* the actor cutoff.
Asked ==
    IF ToolStage(review, batch.effects) # "none" \/ finish.state = "SoftFinish"
    THEN Min({ReviewToolDeadline(now), ActorCutoff}) ELSE ActorCutoff

\* What is asked for is an instant no later than the actor cutoff.
LEMMA AskedTypes ==
    ASSUME ControlTypes
    PROVE  Asked \in Int /\ Asked <= ActorCutoff
<1>1. now \in Nat /\ ActorCutoff \in Int /\ ReviewToolDeadline(now) \in Int
  BY Cutoffs, ReviewDeadlines DEF ControlTypes
<1>2. Min({ReviewToolDeadline(now), ActorCutoff}) \in Int /\ Min({ReviewToolDeadline(now), ActorCutoff}) <= ActorCutoff
  BY <1>1, MinTwo
<1> QED BY <1>1, <1>2 DEF Asked

\* What Admit does to the batch and the controller.
LEMMA AdmitMoves ==
    ASSUME ControlTypes, finish \in Controllers, Admit
    PROVE  LET r == AdmitBatch(finish, now, Asked)
           IN  /\ finish' = r.controller
               /\ batch' = [batch EXCEPT !.stage = ToolStage(review, batch.effects), !.cutoff = r.deadline,
                              !.admitted = r.admitted /\ (Active(review) => ToolStage(review, batch.effects) # "none")]
               /\ pc = "admit" /\ pc' = "register"
               /\ r.deadline \in Int /\ r.admitted \in BOOLEAN /\ r.controller \in Controllers
<1>1. now \in Nat /\ Asked \in Int
  BY Cutoffs, AskedTypes DEF ControlTypes
<1>2. /\ AdmitBatch(finish, now, Asked).deadline \in Int /\ AdmitBatch(finish, now, Asked).admitted \in BOOLEAN
      /\ AdmitBatch(finish, now, Asked).controller \in Controllers
  BY <1>1, AdmitTypes
<1> QED BY <1>2 DEF Admit, Asked, Goto

\* The fields of a batch.
LEMMA BatchFields ==
    ASSUME NEW b, IsBatch(b)
    PROVE  /\ b.effects \in Seq(Effects) /\ Len(b.effects) \in Nat /\ b.first \in Nat /\ b.next \in Nat /\ b.cutoff \in Int
           /\ b.stage \in {"none", "Validation", "Correction", "Revalidation"}
           /\ b.repeat \in BOOLEAN /\ b.admitted \in BOOLEAN /\ b.dispatched \in BOOLEAN /\ b.mutated \in BOOLEAN
<1>1. /\ b.effects \in Calls /\ b.first \in Count /\ b.next \in Count /\ b.cutoff \in Instant
      /\ b.stage \in {"none", "Validation", "Correction", "Revalidation"}
      /\ b.repeat \in BOOLEAN /\ b.admitted \in BOOLEAN /\ b.dispatched \in BOOLEAN /\ b.mutated \in BOOLEAN
  BY DEF IsBatch
<1> QED BY <1>1, LenProperties DEF Calls, Count, Instant

\* No batch is a batch.
LEMMA EmptyBatch == IsBatch(NoBatch)
<1>1. << >> \in Calls /\ 0 \in Count /\ 1 \in Count /\ 0 \in Instant
  BY SMTT(30) DEF Calls, Count, Instant
<1> QED BY <1>1 DEF NoBatch, IsBatch

(* Which actions touch the batch, the policies and the counters. *)
Framed ==
    /\ UNCHANGED mode /\ (UNCHANGED now \/ Tick) /\ (UNCHANGED published \/ Finalize)
    /\ UNCHANGED batch \/ ToolResponse \/ Admit \/ Register \/ Dispatch \/ ToolResult \/ Commit
    /\ UNCHANGED finish \/ Top \/ Admit \/ Commit
    /\ UNCHANGED phase \/ Top \/ FinalResponse \/ ToolResponse \/ Commit
    /\ UNCHANGED flags \/ Top \/ Checkpoint \/ SendRequest \/ RequestRefused \/ ResponseCallLimit \/ RunCallLimit
       \/ TextResponse
    /\ UNCHANGED review \/ review' = DropFallback(review) \/ TextResponse \/ Commit
    /\ UNCHANGED req \/ SendRequest \/ CriticSend
    /\ UNCHANGED turns \/ (turns' = turns + 1 /\ (SendRequest \/ CriticSend))
    /\ UNCHANGED calls \/ calls' = calls + 1
    /\ UNCHANGED usage \/ usage' = [usage EXCEPT !.completed = @ + 1] \/ usage' = [usage EXCEPT !.failed = @ + 1]
    /\ \/ UNCHANGED journal
       \/ \E exact \in BOOLEAN : journal' = J!ProviderRequested(journal, turns, exact)
       \/ journal' = J!ProviderCompleted(journal, turns - 1) \/ journal' = J!ProviderFailed(journal, turns - 1)
       \/ (Checkpoint /\ journal' = J!ContextCheckpointed(journal, turns, calls))
       \/ journal' = J!ToolRegistered(journal, CallId) \/ (Dispatch /\ journal' = J!ToolDispatched(journal, CallId))
       \/ journal' = J!ToolFailed(journal, CallId)
       \/ journal' = J!ToolsCompleted(journal, BatchIds) \/ journal' = J!AssistantFinal(journal)

\* Every step is framed.
LEMMA FramesHold ==
    [Next]_vars => Framed
<1> SUFFICES ASSUME [Next]_vars PROVE Framed
  OBVIOUS
<1> USE DEF clock, policy, counts, ending, Framed
<1>1. CASE Tick
  BY <1>1 DEF Tick
<1>2. CASE RequestCancel
  BY <1>2 DEF RequestCancel
<1>3. CASE TopCancelled
  BY <1>3 DEF TopCancelled, Cancel
<1>4. CASE TopTurnsSpent
  BY <1>4 DEF TopTurnsSpent, FallbackOr
<1>5. CASE Top
  BY <1>5 DEF Top, TopSplit, HistoryRefused
<1>6. CASE Checkpoint
  BY <1>6 DEF Checkpoint, HistoryRefused, Refused, ArtifactFailure
<1>7. CASE RequestClosed
  BY <1>7 DEF RequestClosed, FallbackOr
<1>8. CASE SendRequest
  BY <1>8 DEF SendRequest, Refused, ArtifactFailure
<1>9. CASE RequestRefused
  BY <1>9 DEF RequestRefused, FallbackOr
<1>10. CASE BudgetNoticeRefused
  BY <1>10 DEF BudgetNoticeRefused, HistoryRefused
<1>11. CASE AwaitCancelled
  BY <1>11 DEF AwaitCancelled, Cancel
<1>12. CASE ProviderError
  BY <1>12 DEF ProviderError, EndOnFailedTurn, FailedTurn, Refused, ArtifactFailure, FallbackOr,
     FinalizeWith
<1>13. CASE ProviderTimeout
  BY <1>13 DEF ProviderTimeout, EndOnFailedTurn, FailedTurn, Refused, ArtifactFailure, FallbackOr,
     FinalizeWith
<1>14. CASE ResponseCallLimit
  BY <1>14 DEF ResponseCallLimit, CallLimit, RecoveryOpen, HistoryRefused, EndOnFailedTurn, FailedTurn,
     Refused, ArtifactFailure, FallbackOr
<1>15. CASE RunCallLimit
  BY <1>15 DEF RunCallLimit, CallLimit, RecoveryOpen, HistoryRefused, EndOnFailedTurn, FailedTurn, Refused,
     ArtifactFailure, FallbackOr
<1>16. CASE FinalResponse
  BY <1>16 DEF FinalResponse, CompletedTurn, Refused, ArtifactFailure
<1>17. CASE TextResponse
  BY <1>17 DEF TextResponse, CompletedTurn, OpenReview, Refused, ArtifactFailure
<1>18. CASE EmptyResponse
  BY <1>18 DEF EmptyResponse, CompletedTurn, Refused, ArtifactFailure, FallbackOr
<1>19. CASE ToolResponse
  BY <1>19 DEF ToolResponse, CompletedTurn, Refused, ArtifactFailure
<1>20. CASE CriticSend
  BY <1>20 DEF CriticSend, Refused, ArtifactFailure
<1>21. CASE CriticError
  BY <1>21 DEF CriticError, CriticFailed, FailedTurn, Refused, ArtifactFailure
<1>22. CASE CriticTimeout
  BY <1>22 DEF CriticTimeout, CriticFailed, FailedTurn, Refused, ArtifactFailure
<1>23. CASE CriticResponse
  BY <1>23 DEF CriticResponse, CompletedTurn, Refused, ArtifactFailure
<1>24. CASE Admit
  BY <1>24 DEF Admit
<1>25. CASE Register
  BY <1>25 DEF Register, Stage, Refused, ArtifactFailure
<1>26. CASE Dispatch
  BY <1>26 DEF Dispatch, Stage, Refused, ArtifactFailure
<1>27. CASE ToolCancelled
  BY <1>27 DEF ToolCancelled, ToolFailure, Refused, ArtifactFailure
<1>28. CASE ToolTimeout
  BY <1>28 DEF ToolTimeout, ToolFailure, Refused, ArtifactFailure
<1>29. CASE ToolError
  BY <1>29 DEF ToolError, ToolFailure, Refused, ArtifactFailure
<1>30. CASE ToolResult
  BY <1>30 DEF ToolResult, Stage
<1>31. CASE BatchRefused
  BY <1>31 DEF BatchRefused
<1>32. CASE CommitLate
  BY <1>32 DEF CommitLate
<1>33. CASE CommitRefused
  BY <1>33 DEF CommitRefused, Refused
<1>34. CASE Commit
  BY <1>34 DEF Commit, HistoryRefused
<1>35. CASE WriteFinal
  BY <1>35 DEF WriteFinal, Refused, ArtifactFailure
<1>36. CASE Finalize
  BY <1>36 DEF Finalize
<1>37. CASE Done
  BY <1>37 DEF Done, vars
<1>38. CASE UNCHANGED vars
  BY <1>38 DEF vars
<1> QED
  BY <1>1, <1>2, <1>3, <1>4, <1>5, <1>6, <1>7, <1>8, <1>9, <1>10, <1>11, <1>12, <1>13, <1>14, <1>15, <1>16,
     <1>17, <1>18, <1>19, <1>20, <1>21, <1>22, <1>23, <1>24, <1>25, <1>26, <1>27, <1>28, <1>29, <1>30, <1>31,
     <1>32, <1>33, <1>34, <1>35, <1>36, <1>37, <1>38 DEF Next, Answer, Step


\* Control, outcome and history keep their types.
LEMMA ControlNext ==
    LoopTypes /\ [Next]_vars => ControlTypes'
<1> SUFFICES ASSUME LoopTypes, [Next]_vars PROVE ControlTypes'
  OBVIOUS
<1> USE DEF clock, policy, counts, ending, LoopTypes, ControlTypes, Outside, InBatch, Ending
<1>0. IsOutcome(outcome) => \A s, w, c, x : IsOutcome([status |-> s, phase |-> w, code |-> c, text |-> x])
  BY DEF IsOutcome
<1>1. CASE Tick
  BY <1>1, <1>0, FailMoves, FinalizeMoves DEF Tick
<1>2. CASE RequestCancel
  BY <1>2, <1>0, FailMoves, FinalizeMoves DEF RequestCancel
<1>3. CASE TopCancelled
  BY <1>3, <1>0, FailMoves, FinalizeMoves DEF TopCancelled, Cancel, Goto
<1>4. CASE TopTurnsSpent
  BY <1>4, <1>0, FailMoves, FinalizeMoves DEF TopTurnsSpent, FallbackOr, Goto
<1>5. CASE Top
  BY <1>5, <1>0, FailMoves, FinalizeMoves DEF Top, TopSplit, HistoryRefused, Goto
<1>6. CASE Checkpoint
  BY <1>6, <1>0, FailMoves, FinalizeMoves DEF Checkpoint, HistoryRefused, Refused, ArtifactFailure, Goto
<1>7. CASE RequestClosed
  BY <1>7, <1>0, FailMoves, FinalizeMoves DEF RequestClosed, FallbackOr, Goto
<1>8. CASE SendRequest
  BY <1>8, <1>0, FailMoves, FinalizeMoves DEF SendRequest, Refused, ArtifactFailure, Goto
<1>9. CASE RequestRefused
  BY <1>9, <1>0, FailMoves, FinalizeMoves DEF RequestRefused, FallbackOr, Goto
<1>10. CASE BudgetNoticeRefused
  BY <1>10, <1>0, FailMoves, FinalizeMoves DEF BudgetNoticeRefused, HistoryRefused, Goto
<1>11. CASE AwaitCancelled
  BY <1>11, <1>0, FailMoves, FinalizeMoves DEF AwaitCancelled, Cancel, Goto
<1>12. CASE ProviderError
  BY <1>12, <1>0, FailMoves, FinalizeMoves DEF ProviderError, EndOnFailedTurn, FailedTurn, Refused, ArtifactFailure,
     FallbackOr, Goto
<1>13. CASE ProviderTimeout
  BY <1>13, <1>0, FailMoves, FinalizeMoves DEF ProviderTimeout, EndOnFailedTurn, FailedTurn, Refused,
     ArtifactFailure, FallbackOr, Goto
<1>14. CASE ResponseCallLimit
  BY <1>14, <1>0, FailMoves, FinalizeMoves DEF ResponseCallLimit, CallLimit, RecoveryOpen, HistoryRefused,
     EndOnFailedTurn, FailedTurn, Refused, ArtifactFailure, FallbackOr, Goto
<1>15. CASE RunCallLimit
  BY <1>15, <1>0, FailMoves, FinalizeMoves DEF RunCallLimit, CallLimit, RecoveryOpen, HistoryRefused,
     EndOnFailedTurn, FailedTurn, Refused, ArtifactFailure, FallbackOr, Goto
<1>16. CASE FinalResponse
  <2>1. \/ ArtifactFailure \/ FinalizeWith("answer") \/ Fail("ProviderFailure", "Provider", "provider_final_only_tool_call")
        \/ Fail("ProviderFailure", "Provider", "provider_final_output_missing")
    BY <1>16 DEF FinalResponse, CompletedTurn
  <2>2. UNCHANGED <<mode, now, cancelled, published, hist, dirty>>
    BY <1>16 DEF FinalResponse, CompletedTurn
  <2> QED BY <1>0, <2>1, <2>2, <1>0, FailMoves, FinalizeMoves DEF ArtifactFailure
<1>17. CASE TextResponse
  <2>1. \/ ArtifactFailure \/ FinalizeWith("answer") \/ FinalizeWith("candidate")
        \/ UNCHANGED outcome /\ pc' \in {"top", "criticRequest"}
    BY <1>17 DEF TextResponse, CompletedTurn, OpenReview, Goto
  <2>2. UNCHANGED <<mode, now, cancelled, published>> /\ hist' \in {"grown", "checkpoint"} /\ dirty' \in BOOLEAN
    BY <1>17 DEF TextResponse, CompletedTurn, OpenReview
  <2> QED BY <1>0, <2>1, <2>2, <1>0, FailMoves, FinalizeMoves DEF ArtifactFailure
<1>18. CASE EmptyResponse
  <2>1. \/ ArtifactFailure \/ FinalizeWith("candidate")
        \/ Fail("ProviderFailure", "Provider", "provider_output_without_action")
    BY <1>18 DEF EmptyResponse, CompletedTurn, FallbackOr
  <2>2. UNCHANGED <<mode, now, cancelled, published, hist, dirty>>
    BY <1>18 DEF EmptyResponse, CompletedTurn
  <2> QED BY <1>0, <2>1, <2>2, <1>0, FailMoves, FinalizeMoves DEF ArtifactFailure
<1>19. CASE ToolResponse
  BY <1>19, <1>0, FailMoves, FinalizeMoves DEF ToolResponse, CompletedTurn, Refused, ArtifactFailure, Goto
<1>20. CASE CriticSend
  BY <1>20, <1>0, FailMoves, FinalizeMoves DEF CriticSend, Refused, ArtifactFailure, Goto
<1>21. CASE CriticError
  BY <1>21, <1>0, FailMoves, FinalizeMoves DEF CriticError, CriticFailed, FailedTurn, Refused,
     ArtifactFailure, Goto
<1>22. CASE CriticTimeout
  BY <1>22, <1>0, FailMoves, FinalizeMoves DEF CriticTimeout, CriticFailed, FailedTurn, Refused,
     ArtifactFailure, Goto
<1>23. CASE CriticResponse
  BY <1>23, <1>0, FailMoves, FinalizeMoves DEF CriticResponse, CompletedTurn, Refused,
     ArtifactFailure, Goto
<1>24. CASE Admit
  BY <1>24, <1>0, FailMoves, FinalizeMoves DEF Admit, Goto
<1>25. CASE Register
  BY <1>25, <1>0, FailMoves, FinalizeMoves DEF Register, Stage, Refused, ArtifactFailure, Goto
<1>26. CASE Dispatch
  BY <1>26, <1>0, FailMoves, FinalizeMoves DEF Dispatch, Stage, Refused, ArtifactFailure, Goto
<1>27. CASE ToolCancelled
  BY <1>27, <1>0, FailMoves, FinalizeMoves DEF ToolCancelled, ToolFailure, Refused, ArtifactFailure, Goto
<1>28. CASE ToolTimeout
  BY <1>28, <1>0, FailMoves, FinalizeMoves DEF ToolTimeout, ToolFailure, Refused, ArtifactFailure, Goto
<1>29. CASE ToolError
  BY <1>29, <1>0, FailMoves, FinalizeMoves DEF ToolError, ToolFailure, Refused, ArtifactFailure, Goto
<1>30. CASE ToolResult
  BY <1>30, <1>0, FailMoves, FinalizeMoves DEF ToolResult, Stage, Goto
<1>31. CASE BatchRefused
  BY <1>31, <1>0, FailMoves, FinalizeMoves DEF BatchRefused, Goto
<1>32. CASE CommitLate
  BY <1>32, <1>0, FailMoves, FinalizeMoves DEF CommitLate, Goto
<1>33. CASE CommitRefused
  BY <1>33, <1>0, FailMoves, FinalizeMoves DEF CommitRefused, Refused, Goto
<1>34. CASE Commit
  BY <1>34, <1>0, FailMoves, FinalizeMoves DEF Commit, HistoryRefused, Goto
<1>35. CASE WriteFinal
  <2>1. ArtifactFailure \/ (pc' = "finalize" /\ outcome' = [outcome EXCEPT !.status = "Success", !.code = "completed"])
    BY <1>35 DEF WriteFinal, Goto
  <2>2. IsOutcome(outcome')
    <3>1. CASE ArtifactFailure
      BY <1>0, <3>1, FailMoves DEF ArtifactFailure
    <3>2. CASE outcome' = [outcome EXCEPT !.status = "Success", !.code = "completed"]
      <4>1. outcome' = [status |-> "Success", phase |-> outcome.phase, code |-> "completed", text |-> outcome.text]
        BY <3>2 DEF IsOutcome
      <4> QED BY <1>0, <4>1
    <3> QED BY <2>1, <3>1, <3>2
  <2> QED BY <1>35, <2>1, <2>2, FailMoves DEF WriteFinal, ArtifactFailure
<1>36. CASE Finalize
  BY <1>36, <1>0, FailMoves, FinalizeMoves DEF Finalize, Goto
<1>37. CASE Done
  BY <1>37, <1>0, FailMoves, FinalizeMoves DEF Done, vars
<1>38. CASE UNCHANGED vars
  BY <1>38, <1>0, FailMoves, FinalizeMoves DEF vars
<1> QED
  BY <1>1, <1>2, <1>3, <1>4, <1>5, <1>6, <1>7, <1>8, <1>9, <1>10, <1>11, <1>12, <1>13, <1>14, <1>15, <1>16,
     <1>17, <1>18, <1>19, <1>20, <1>21, <1>22, <1>23, <1>24, <1>25, <1>26, <1>27, <1>28, <1>29, <1>30, <1>31,
     <1>32, <1>33, <1>34, <1>35, <1>36, <1>37, <1>38 DEF Next, Answer, Step


\* The policies keep their types.
LEMMA PolicyNext ==
    LoopTypes /\ [Next]_vars => PolicyTypes'
<1> SUFFICES ASSUME LoopTypes, [Next]_vars PROVE PolicyTypes'
  OBVIOUS
<1> USE DEF LoopTypes, PolicyTypes
<1>1. Framed
  BY FramesHold
<1>2. finish' \in Controllers
  <2>1. CASE Top
    <3>1. Observe(finish, now, turns) \in Controllers
      BY ObserveTypes
    <3>2. (IF phase = "ActionOpen" THEN Observed ELSE finish) \in Controllers
      BY <3>1 DEF Observed
    <3> QED BY <2>1, <3>2, ObserveTypes DEF Top, TopSplit
  <2>2. CASE Admit
    BY <2>2, AdmitMoves
  <2>3. CASE Commit
    BY <2>3, ObserveTypes DEF Commit
  <2> QED BY <1>1, <2>1, <2>2, <2>3 DEF Framed
<1>3. phase' \in Phases
  <2>1. CASE Top
    BY <2>1 DEF Top, TopSplit, PhaseAfter, InitialPhaseAt, ProviderPhaseAt, Phases
  <2>2. CASE FinalResponse \/ ToolResponse
    BY <2>2 DEF FinalResponse, ToolResponse, CompletedTurn, Phases
  <2>3. CASE Commit
    BY <2>3 DEF Commit, ProviderPhaseAt, Phases
  <2> QED BY <1>1, <2>1, <2>2, <2>3 DEF Framed
<1>4. review' \in Challenges
  <2>1. CASE TextResponse
    BY <2>1, ReviewTypes DEF TextResponse, CompletedTurn, OpenReview
  <2>2. CASE Commit
    <3>1. batch.stage \in {"none", "Validation", "Correction", "Revalidation"} /\ batch.mutated \in BOOLEAN
      BY BatchFields
    <3>2. ReviewAfterBatch \in Challenges
      BY <3>1, ReviewTypes DEF ReviewAfterBatch
    <3> QED BY <2>2, <3>2 DEF Commit
  <2> QED BY <1>1, <2>1, <2>2, ReviewTypes DEF Framed
<1>5. flags' \in FlagTypes
  <2> USE DEF FlagTypes
  <2>1. CASE Top \/ Checkpoint
    BY <2>1 DEF Top, TopSplit, Checkpoint
  <2>2. CASE SendRequest \/ RequestRefused
    BY <2>2 DEF SendRequest, RequestRefused
  <2>3. CASE ResponseCallLimit \/ RunCallLimit
    BY <2>3 DEF ResponseCallLimit, RunCallLimit, CallLimit, FailedTurn, EndOnFailedTurn
  <2>4. CASE TextResponse
    BY <2>4 DEF TextResponse, CompletedTurn, OpenReview
  <2> QED BY <1>1, <2>1, <2>2, <2>3, <2>4 DEF Framed
<1> QED BY <1>2, <1>3, <1>4, <1>5

\* The counters and the request keep their types.
LEMMA CountNext ==
    LoopTypes /\ [Next]_vars => CountTypes'
<1> SUFFICES ASSUME LoopTypes, [Next]_vars PROVE CountTypes'
  OBVIOUS
<1> USE DEF LoopTypes, CountTypes
<1>1. Framed
  BY FramesHold
<1>2. turns' \in Nat /\ calls' \in Nat
  BY <1>1 DEF Framed
<1>3. IsUsage(usage')
  <2>1. CASE usage' = [usage EXCEPT !.completed = @ + 1]
    <3>1. usage' = [completed |-> usage.completed + 1, failed |-> usage.failed]
      BY <2>1 DEF IsUsage
    <3> QED BY <3>1 DEF IsUsage
  <2>2. CASE usage' = [usage EXCEPT !.failed = @ + 1]
    <3>1. usage' = [completed |-> usage.completed, failed |-> usage.failed + 1]
      BY <2>2 DEF IsUsage
    <3> QED BY <3>1 DEF IsUsage
  <2> QED BY <1>1, <2>1, <2>2 DEF Framed
<1>4. IsRequest(req')
  <2>1. now \in Nat /\ LastSend \in Int /\ ActorCutoff \in Int /\ ReviewProviderDeadline(now) \in Int
    BY Cutoffs, ReviewDeadlines DEF ControlTypes
  <2>2. \A m \in {"action", "final", "critic"}, d \in Int : IsRequest([mode |-> m, deadline |-> d])
    BY DEF IsRequest
  <2>3. CASE SendRequest
    BY <2>1, <2>2, <2>3 DEF SendRequest, ActionDeadline
  <2>4. CASE CriticSend
    BY <2>1, <2>2, <2>4 DEF CriticSend
  <2> QED BY <1>1, <2>3, <2>4 DEF Framed
<1> QED BY <1>2, <1>3, <1>4

\* The batch keeps its type.
LEMMA BatchNext ==
    LoopTypes /\ [Next]_vars => IsBatch(batch')
<1> SUFFICES ASSUME LoopTypes, [Next]_vars PROVE IsBatch(batch')
  OBVIOUS
<1> USE DEF LoopTypes
<1>1. Framed
  BY FramesHold
<1>2. CASE ToolResponse
  <2>1. UNCHANGED batch \/ \E e \in Batches, p \in BOOLEAN :
           batch' = [effects |-> e, repeat |-> p, first |-> calls + 1, next |-> 1, stage |-> "none",
                     admitted |-> FALSE, cutoff |-> 0, dispatched |-> FALSE, mutated |-> FALSE]
    BY <1>2, ZenonT(60) DEF ToolResponse, CompletedTurn, NoBatch
  <2>2. calls + 1 \in Count /\ 1 \in Count /\ 0 \in Instant
    BY DEF CountTypes, Count, Instant
  <2>3. \A e \in Calls, p \in BOOLEAN, n \in Count, m \in Count, i \in Instant :
           IsBatch([effects |-> e, repeat |-> p, first |-> n, next |-> m, stage |-> "none",
                    admitted |-> FALSE, cutoff |-> i, dispatched |-> FALSE, mutated |-> FALSE])
    BY DEF IsBatch
  <2>4. \A e \in Batches : e \in Calls
    BY BatchesAreSequences DEF Calls
  <2> QED BY <2>1, <2>2, <2>3, <2>4, Zenon
<1>3. CASE Admit
  <2>1. ToolStage(review, batch.effects) \in {"none", "Validation", "Correction", "Revalidation"}
    BY ReviewTypes DEF PolicyTypes
  <2>2. \A x, y : (x /\ y) \in BOOLEAN
    BY Zenon
  <2>3. PICK d \in Instant, a \in BOOLEAN :
           batch' = [batch EXCEPT !.stage = ToolStage(review, batch.effects), !.cutoff = d, !.admitted = a]
    BY <1>3, <2>2, AdmitMoves, Zenon DEF PolicyTypes, Instant
  <2> QED BY <2>1, <2>3 DEF IsBatch
<1>4. CASE Register \/ Dispatch \/ ToolResult
  <2>1. UNCHANGED batch \/ \E ran \in BOOLEAN : Stage(ran)
    BY <1>4 DEF Register, Dispatch, ToolResult
  <2>2. ASSUME NEW ran \in BOOLEAN, Stage(ran) PROVE IsBatch(batch')
    <3>1. (batch.dispatched \/ (ran /\ batch.stage # "none")) \in BOOLEAN
          /\ (batch.mutated \/ (ran /\ batch.stage # "none" /\ Effect = "mutating")) \in BOOLEAN
      BY DEF IsBatch
    <3>2. PICK d \in BOOLEAN, m \in BOOLEAN :
             batch' = [batch EXCEPT !.next = @ + 1, !.dispatched = d, !.mutated = m]
      BY <2>2, <3>1, Zenon DEF Stage
    <3>3. batch.next + 1 \in Count
      BY BatchFields DEF Count
    <3>4. ASSUME NEW n \in Count PROVE IsBatch([batch EXCEPT !.next = n, !.dispatched = d, !.mutated = m])
      BY DEF IsBatch
    <3> QED BY <3>2, <3>3, <3>4, Zenon
  <2> QED BY <2>1, <2>2
<1>5. CASE Commit
  BY <1>5, EmptyBatch DEF Commit
<1> QED BY <1>1, <1>2, <1>3, <1>4, <1>5 DEF Framed


\* The journal keeps its type.
LEMMA JournalNext ==
    LoopTypes /\ [Next]_vars => journal' \in JournalTypes
<1> SUFFICES ASSUME LoopTypes, [Next]_vars PROVE journal' \in JournalTypes
  OBVIOUS
<1>1. Framed
  BY FramesHold
<1>2. CASE Dispatch
  BY <1>2, JournalTypesKept DEF LoopTypes, Dispatch, Refused
<1> QED BY <1>1, <1>2, JournalTypesKept DEF Framed, LoopTypes, CountTypes, Count

\* Every action keeps the types.
LEMMA TypesNext == LoopTypes /\ [Next]_vars => LoopTypes'
  BY ControlNext, PolicyNext, CountNext, BatchNext, JournalNext DEF LoopTypes


\* Behind the final-only request and behind the batch of soft finish no action opens again.
LEMMA FinishNext ==
    LoopTypes /\ FinishInv /\ [Next]_vars => FinishInv'
<1> SUFFICES ASSUME LoopTypes, FinishInv, [Next]_vars PROVE FinishInv'
  OBVIOUS
<1> USE DEF clock, policy, counts, ending, FinishInv, Outside, InBatch, Ending
<1>0. IsOutcome(outcome) /\ finish \in Controllers /\ flags \in FlagTypes
  BY DEF LoopTypes, ControlTypes, PolicyTypes
<1>1. CASE Tick
  BY <1>1, <1>0, FailMoves, FinalizeMoves DEF Tick
<1>2. CASE RequestCancel
  BY <1>2, <1>0, FailMoves, FinalizeMoves DEF RequestCancel
<1>3. CASE TopCancelled
  BY <1>3, <1>0, FailMoves, FinalizeMoves DEF TopCancelled, Cancel, Goto
<1>4. CASE TopTurnsSpent
  BY <1>4, <1>0, FailMoves, FinalizeMoves DEF TopTurnsSpent, FallbackOr, Goto
<1>5. CASE Top
  <2>1. /\ finish'.softAdmitted = finish.softAdmitted /\ (~mode.split => UNCHANGED finish)
        /\ phase = "FinalOnly" => phase' = "FinalOnly"
    <3>1. /\ Observe(finish, now, turns) \in Controllers
          /\ Observe(finish, now, turns).softAdmitted = finish.softAdmitted
      BY <1>0, ObserveTypes
    <3>2. /\ (IF phase = "ActionOpen" THEN Observed ELSE finish) \in Controllers
          /\ (IF phase = "ActionOpen" THEN Observed ELSE finish).softAdmitted = finish.softAdmitted
      BY <1>0, <3>1 DEF Observed
    <3> QED BY <1>5, <3>2, ObserveTypes DEF Top, TopSplit
  <2>2. flags'.finalSent = flags.finalSent /\ pc = "top" /\ pc' \in {"checkpoint", "finalize"} /\ UNCHANGED mode
    BY <1>5, <1>0, FailMoves DEF Top, TopSplit, HistoryRefused, Goto, FlagTypes
  <2> QED BY <2>1, <2>2
<1>6. CASE Checkpoint
  BY <1>6, <1>0, FailMoves, FinalizeMoves DEF Checkpoint, HistoryRefused, Refused, ArtifactFailure,
     Goto, FlagTypes
<1>7. CASE RequestClosed
  BY <1>7, <1>0, FailMoves, FinalizeMoves DEF RequestClosed, FallbackOr, Goto
<1>8. CASE SendRequest
  BY <1>8, <1>0, FailMoves, FinalizeMoves DEF SendRequest, Refused, ArtifactFailure, Goto, FlagTypes
<1>9. CASE RequestRefused
  BY <1>9, <1>0, FailMoves, FinalizeMoves DEF RequestRefused, FallbackOr, Goto, FlagTypes
<1>10. CASE BudgetNoticeRefused
  BY <1>10, <1>0, FailMoves, FinalizeMoves DEF BudgetNoticeRefused, HistoryRefused, Goto
<1>11. CASE AwaitCancelled
  BY <1>11, <1>0, FailMoves, FinalizeMoves DEF AwaitCancelled, Cancel, Goto
<1>12. CASE ProviderError
  BY <1>12, <1>0, FailMoves, FinalizeMoves DEF ProviderError, EndOnFailedTurn, FailedTurn, Refused,
     ArtifactFailure, FallbackOr, Goto
<1>13. CASE ProviderTimeout
  BY <1>13, <1>0, FailMoves, FinalizeMoves DEF ProviderTimeout, EndOnFailedTurn, FailedTurn, Refused,
     ArtifactFailure, FallbackOr, Goto
<1>14. CASE ResponseCallLimit
  BY <1>14, <1>0, FailMoves, FinalizeMoves DEF ResponseCallLimit, CallLimit, RecoveryOpen, HistoryRefused,
     EndOnFailedTurn, FailedTurn, Refused, ArtifactFailure, FallbackOr, Goto, FlagTypes
<1>15. CASE RunCallLimit
  BY <1>15, <1>0, FailMoves, FinalizeMoves DEF RunCallLimit, CallLimit, RecoveryOpen, HistoryRefused,
     EndOnFailedTurn, FailedTurn, Refused, ArtifactFailure, FallbackOr, Goto, FlagTypes
<1>16. CASE FinalResponse
  BY <1>16, <1>0, FailMoves, FinalizeMoves DEF FinalResponse, CompletedTurn, Refused,
     ArtifactFailure, Goto
<1>17. CASE TextResponse
  BY <1>17, <1>0, FailMoves, FinalizeMoves DEF TextResponse, CompletedTurn, OpenReview, Refused,
     ArtifactFailure, Goto, FlagTypes
<1>18. CASE EmptyResponse
  BY <1>18, <1>0, FailMoves, FinalizeMoves DEF EmptyResponse, CompletedTurn, Refused, ArtifactFailure,
     FallbackOr, Goto
<1>19. CASE ToolResponse
  BY <1>19, <1>0, FailMoves, FinalizeMoves DEF ToolResponse, CompletedTurn, Refused, ArtifactFailure,
     Goto
<1>20. CASE CriticSend
  BY <1>20, <1>0, FailMoves, FinalizeMoves DEF CriticSend, Refused, ArtifactFailure, Goto
<1>21. CASE CriticError
  BY <1>21, <1>0, FailMoves, FinalizeMoves DEF CriticError, CriticFailed, FailedTurn, Refused,
     ArtifactFailure, Goto
<1>22. CASE CriticTimeout
  BY <1>22, <1>0, FailMoves, FinalizeMoves DEF CriticTimeout, CriticFailed, FailedTurn, Refused,
     ArtifactFailure, Goto
<1>23. CASE CriticResponse
  BY <1>23, <1>0, FailMoves, FinalizeMoves DEF CriticResponse, CompletedTurn, Refused,
     ArtifactFailure, Goto
<1>24. CASE Admit
  <2>1. ControlTypes /\ now \in Nat /\ Asked \in Int
    BY Cutoffs, AskedTypes DEF LoopTypes, ControlTypes
  <2>2. /\ finish.state = "ActionOpen" => finish'.state = "ActionOpen"
        /\ finish'.softAdmitted => finish.softAdmitted \/ finish'.state = "SoftFinish"
    BY <1>24, <1>0, <2>1, AdmitMoves, AdmitTypes
  <2> QED BY <1>24, <2>2 DEF Admit, Goto
<1>25. CASE Register
  BY <1>25, <1>0, FailMoves, FinalizeMoves DEF Register, Stage, Refused, ArtifactFailure, Goto
<1>26. CASE Dispatch
  BY <1>26, <1>0, FailMoves, FinalizeMoves DEF Dispatch, Stage, Refused, ArtifactFailure, Goto
<1>27. CASE ToolCancelled
  BY <1>27, <1>0, FailMoves, FinalizeMoves DEF ToolCancelled, ToolFailure, Refused, ArtifactFailure,
     Goto
<1>28. CASE ToolTimeout
  BY <1>28, <1>0, FailMoves, FinalizeMoves DEF ToolTimeout, ToolFailure, Refused, ArtifactFailure, Goto
<1>29. CASE ToolError
  BY <1>29, <1>0, FailMoves, FinalizeMoves DEF ToolError, ToolFailure, Refused, ArtifactFailure, Goto
<1>30. CASE ToolResult
  BY <1>30, <1>0, FailMoves, FinalizeMoves DEF ToolResult, Stage, Goto
<1>31. CASE BatchRefused
  BY <1>31, <1>0, FailMoves, FinalizeMoves DEF BatchRefused, Goto
<1>32. CASE CommitLate
  BY <1>32, <1>0, FailMoves, FinalizeMoves DEF CommitLate, Goto
<1>33. CASE CommitRefused
  BY <1>33, <1>0, FailMoves, FinalizeMoves DEF CommitRefused, Refused, Goto
<1>34. CASE Commit
  <2>1. /\ SettleBatch(finish).softAdmitted = finish.softAdmitted
        /\ finish.state = "ActionOpen" => SettleBatch(finish).state = "ActionOpen"
        /\ finish.state = "SoftFinish" /\ finish.softAdmitted => SettleBatch(finish).state = "FinalOnly"
    BY <1>0 DEF Controllers, SettleBatch
  <2>2. pc' \in {"top", "finalize"} /\ UNCHANGED <<mode, flags, req>> /\ pc = "commit"
    BY <1>34, <1>0, FailMoves DEF Commit, HistoryRefused, Goto, CommitOpen, BatchPrepared
  <2>3. CASE pc' = "finalize"
    <3>1. finish' \in {finish, SettleBatch(finish)}
      BY <1>34 DEF Commit
    <3> QED BY <2>1, <2>2, <2>3, <3>1
  <2>4. CASE pc' = "top"
    <3>1. finish' = SettleBatch(finish)
      BY <1>34, <1>0, <2>4, FailMoves DEF Commit, HistoryRefused
    <3>2. SettleBatch(finish).state = "FinalOnly" => phase' = "FinalOnly"
      BY <1>34, <1>0, <2>4, FailMoves DEF Commit, HistoryRefused
    <3> QED BY <2>1, <2>2, <2>4, <3>1, <3>2
  <2> QED BY <2>2, <2>3, <2>4
<1>35. CASE WriteFinal
  BY <1>35, <1>0, FailMoves, FinalizeMoves DEF WriteFinal, Refused, ArtifactFailure, Goto
<1>36. CASE Finalize
  BY <1>36, <1>0, FailMoves, FinalizeMoves DEF Finalize, Goto
<1>37. CASE Done
  BY <1>37, <1>0, FailMoves, FinalizeMoves DEF Done, vars
<1>38. CASE UNCHANGED vars
  BY <1>38, <1>0, FailMoves, FinalizeMoves DEF vars
<1> QED
  BY <1>1, <1>2, <1>3, <1>4, <1>5, <1>6, <1>7, <1>8, <1>9, <1>10, <1>11, <1>12, <1>13, <1>14, <1>15, <1>16,
     <1>17, <1>18, <1>19, <1>20, <1>21, <1>22, <1>23, <1>24, <1>25, <1>26, <1>27, <1>28, <1>29, <1>30, <1>31,
     <1>32, <1>33, <1>34, <1>35, <1>36, <1>37, <1>38 DEF Next, Answer, Step


\* What staging a call does to the batch.
LEMMA StageMoves ==
    ASSUME NEW ran \in BOOLEAN, IsBatch(batch), Stage(ran)
    PROVE  /\ batch'.next = batch.next + 1 /\ batch'.effects = batch.effects /\ batch'.stage = batch.stage
           /\ batch'.admitted = batch.admitted /\ batch'.cutoff = batch.cutoff
           /\ batch'.first = batch.first /\ batch'.repeat = batch.repeat
           /\ batch'.dispatched <=> batch.dispatched \/ (ran /\ batch.stage # "none")
           /\ batch'.mutated <=> batch.mutated \/ (ran /\ batch.stage # "none" /\ Effect = "mutating")
           /\ \/ pc' = "commit" /\ batch.next = Len(batch.effects)
              \/ pc' = "register" /\ batch.next # Len(batch.effects)
<1>1. /\ batch'.next = batch.next + 1 /\ batch'.effects = batch.effects /\ batch'.stage = batch.stage
      /\ batch'.admitted = batch.admitted /\ batch'.cutoff = batch.cutoff
      /\ batch'.first = batch.first /\ batch'.repeat = batch.repeat
  BY DEF Stage, IsBatch
<1>2. /\ batch'.dispatched <=> batch.dispatched \/ (ran /\ batch.stage # "none")
      /\ batch'.mutated <=> batch.mutated \/ (ran /\ batch.stage # "none" /\ Effect = "mutating")
  BY DEF Stage, IsBatch
<1>3. \/ pc' = "commit" /\ batch.next = Len(batch.effects)
      \/ pc' = "register" /\ batch.next # Len(batch.effects)
  BY SMTT(30) DEF Stage, Goto, Last
<1> QED BY <1>1, <1>2, <1>3

\* A batch stays within the window it was admitted for.
LEMMA BatchInvNext ==
    LoopTypes /\ BatchInv /\ [Next]_vars => BatchInv'
<1> SUFFICES ASSUME LoopTypes, BatchInv, [Next]_vars PROVE BatchInv'
  OBVIOUS
<1> USE DEF clock, policy, counts, ending, BatchInv, Outside, InBatch, Ending
<1>0. IsOutcome(outcome) /\ IsBatch(batch) /\ finish \in Controllers /\ review \in Challenges
  BY DEF LoopTypes, ControlTypes, PolicyTypes
<1>00. ActorCutoff' = ActorCutoff
  BY FramesHold DEF Framed, ActorCutoff
<1>1. CASE Tick
  BY <1>1, <1>0, <1>00, FailMoves, FinalizeMoves DEF Tick
<1>2. CASE RequestCancel
  BY <1>2, <1>0, <1>00, FailMoves, FinalizeMoves DEF RequestCancel
<1>3. CASE TopCancelled
  BY <1>3, <1>0, <1>00, FailMoves, FinalizeMoves DEF TopCancelled, Cancel, Goto
<1>4. CASE TopTurnsSpent
  BY <1>4, <1>0, <1>00, FailMoves, FinalizeMoves DEF TopTurnsSpent, FallbackOr, Goto
<1>5. CASE Top
  BY <1>5, <1>0, <1>00, FailMoves, FinalizeMoves DEF Top, TopSplit, HistoryRefused, Goto
<1>6. CASE Checkpoint
  BY <1>6, <1>0, <1>00, FailMoves, FinalizeMoves DEF Checkpoint, HistoryRefused, Refused, ArtifactFailure,
     Fail, Goto
<1>7. CASE RequestClosed
  BY <1>7, <1>0, <1>00, FailMoves, FinalizeMoves DEF RequestClosed, FallbackOr, Goto
<1>8. CASE SendRequest
  BY <1>8, <1>0, <1>00, FailMoves, FinalizeMoves DEF SendRequest, Refused, ArtifactFailure, Goto
<1>9. CASE RequestRefused
  BY <1>9, <1>0, <1>00, FailMoves, FinalizeMoves DEF RequestRefused, FallbackOr, Goto
<1>10. CASE BudgetNoticeRefused
  BY <1>10, <1>0, <1>00, FailMoves, FinalizeMoves DEF BudgetNoticeRefused, HistoryRefused, Goto
<1>11. CASE AwaitCancelled
  BY <1>11, <1>0, <1>00, FailMoves, FinalizeMoves DEF AwaitCancelled, Cancel, Goto
<1>12. CASE ProviderError
  BY <1>12, <1>0, <1>00, FailMoves, FinalizeMoves DEF ProviderError, EndOnFailedTurn, FailedTurn, Refused,
     ArtifactFailure, FallbackOr, Goto
<1>13. CASE ProviderTimeout
  BY <1>13, <1>0, <1>00, FailMoves, FinalizeMoves DEF ProviderTimeout, EndOnFailedTurn, FailedTurn, Refused,
     ArtifactFailure, FallbackOr, Goto
<1>14. CASE ResponseCallLimit
  BY <1>14, <1>0, <1>00, FailMoves, FinalizeMoves DEF ResponseCallLimit, CallLimit, RecoveryOpen,
     HistoryRefused, EndOnFailedTurn, FailedTurn, Refused, ArtifactFailure, FallbackOr,
     Goto
<1>15. CASE RunCallLimit
  BY <1>15, <1>0, <1>00, FailMoves, FinalizeMoves DEF RunCallLimit, CallLimit, RecoveryOpen, HistoryRefused,
     EndOnFailedTurn, FailedTurn, Refused, ArtifactFailure, FallbackOr, Goto
<1>16. CASE FinalResponse
  BY <1>16, <1>0, <1>00, FailMoves, FinalizeMoves DEF FinalResponse, CompletedTurn, Refused,
     ArtifactFailure, Goto
<1>17. CASE TextResponse
  BY <1>17, <1>0, <1>00, FailMoves, FinalizeMoves DEF TextResponse, CompletedTurn, OpenReview,
     Refused, ArtifactFailure, Goto
<1>18. CASE EmptyResponse
  BY <1>18, <1>0, <1>00, FailMoves, FinalizeMoves DEF EmptyResponse, CompletedTurn, Refused, ArtifactFailure,
     FallbackOr, Goto
<1>19. CASE ToolResponse
  <2>1. \/ UNCHANGED batch /\ ArtifactFailure
        \/ \E e \in Batches, p \in BOOLEAN :
              /\ batch' = [effects |-> e, repeat |-> p, first |-> calls + 1, next |-> 1, stage |-> "none",
                           admitted |-> FALSE, cutoff |-> 0, dispatched |-> FALSE, mutated |-> FALSE]
              /\ pc' = "admit"
    BY <1>19, ZenonT(60) DEF ToolResponse, CompletedTurn, NoBatch, Goto
  <2>2. \A e \in Batches : e # << >>
    BY BatchesAreSequences
  <2>3. UNCHANGED <<review, finish>> \/ ArtifactFailure
    BY <1>19 DEF ToolResponse, CompletedTurn
  <2>4. CASE UNCHANGED batch /\ ArtifactFailure
    BY <1>0, <2>4, FailMoves DEF ArtifactFailure
  <2> QED BY <2>1, <2>2, <2>4
<1>20. CASE CriticSend
  BY <1>20, <1>0, <1>00, FailMoves, FinalizeMoves DEF CriticSend, Refused, ArtifactFailure,
     Fail, Goto
<1>21. CASE CriticError
  BY <1>21, <1>0, <1>00, FailMoves, FinalizeMoves DEF CriticError, CriticFailed, FailedTurn,
     Refused, ArtifactFailure, Goto
<1>22. CASE CriticTimeout
  BY <1>22, <1>0, <1>00, FailMoves, FinalizeMoves DEF CriticTimeout, CriticFailed, FailedTurn,
     Refused, ArtifactFailure, Goto
<1>23. CASE CriticResponse
  BY <1>23, <1>0, <1>00, FailMoves, FinalizeMoves DEF CriticResponse, CompletedTurn, Refused,
     ArtifactFailure, Goto
<1>24. CASE Admit
  <2> DEFINE r == AdmitBatch(finish, now, Asked)
             stage == ToolStage(review, batch.effects)
  <2>1. ControlTypes /\ now \in Nat /\ Asked \in Int /\ Asked <= ActorCutoff /\ ActorCutoff \in Int
        /\ SoftActionCutoff \in Int
    BY Cutoffs, AskedTypes DEF LoopTypes, ControlTypes
  <2>2. /\ r.deadline \in Int /\ r.admitted \in BOOLEAN
        /\ r.admitted => r.deadline <= Asked /\ finish'.state # "FinalOnly"
                         /\ (finish'.state = "SoftFinish" => r.deadline <= SoftActionCutoff)
    BY <1>24, <1>0, <2>1, AdmitMoves, AdmitTypes
  <2>3. /\ batch'.stage = stage /\ batch'.cutoff = r.deadline /\ batch'.next = batch.next
        /\ batch'.effects = batch.effects /\ batch'.dispatched = batch.dispatched /\ batch'.mutated = batch.mutated
        /\ batch'.admitted => r.admitted /\ (Active(review) => stage # "none")
    BY <1>24, <1>0, <2>1, AdmitMoves, ZenonT(60) DEF IsBatch
  <2>4. pc = "admit" /\ pc' = "register" /\ UNCHANGED review
    BY <1>24 DEF Admit, Goto
  <2>5. 1 \in 1..Len(batch.effects)
    BY <1>0, <2>4, BatchFields, EmptySeq
  <2> HIDE DEF r, stage
  <2>6. batch'.admitted => batch'.cutoff <= ActorCutoff
    BY <2>1, <2>2, <2>3
  <2> QED BY <1>00, <2>2, <2>3, <2>4, <2>5, <2>6 DEF stage
<1>25. CASE Register
  <2>1. UNCHANGED <<review, finish>>
    BY <1>25 DEF Register
  <2>2. CASE Stage(FALSE)
    <3>1. pc = "register" /\ Len(batch.effects) \in Nat /\ batch.next \in Nat
      BY <1>25, <1>0, BatchFields DEF Register
    <3>2. /\ batch'.next = batch.next + 1 /\ batch'.effects = batch.effects /\ batch'.stage = batch.stage
          /\ batch'.admitted = batch.admitted /\ batch'.cutoff = batch.cutoff
          /\ batch'.dispatched => batch.dispatched \/ batch.stage # "none"
          /\ batch'.mutated => batch'.dispatched
          /\ \/ pc' = "commit" /\ batch.next = Len(batch.effects)
             \/ pc' = "register" /\ batch.next # Len(batch.effects)
      BY <1>0, <2>2, StageMoves, Zenon
    <3> QED BY <1>00, <2>1, <3>1, <3>2
  <2>3. CASE ~Stage(FALSE)
    BY <1>25, <1>0, <1>00, <2>1, <2>3, FailMoves DEF Register, Goto, ArtifactFailure, Refused
  <2> QED BY <2>2, <2>3
<1>26. CASE Dispatch
  <2>1. UNCHANGED <<review, finish>>
    BY <1>26 DEF Dispatch
  <2>2. CASE Stage(FALSE)
    <3>1. pc = "dispatch" /\ Len(batch.effects) \in Nat /\ batch.next \in Nat
      BY <1>26, <1>0, BatchFields DEF Dispatch
    <3>2. /\ batch'.next = batch.next + 1 /\ batch'.effects = batch.effects /\ batch'.stage = batch.stage
          /\ batch'.admitted = batch.admitted /\ batch'.cutoff = batch.cutoff
          /\ batch'.dispatched => batch.dispatched \/ batch.stage # "none"
          /\ batch'.mutated => batch'.dispatched
          /\ \/ pc' = "commit" /\ batch.next = Len(batch.effects)
             \/ pc' = "register" /\ batch.next # Len(batch.effects)
      BY <1>0, <2>2, StageMoves, Zenon
    <3> QED BY <1>00, <2>1, <3>1, <3>2
  <2>3. CASE ~Stage(FALSE)
    BY <1>26, <1>0, <1>00, <2>1, <2>3, FailMoves DEF Dispatch, Goto, ArtifactFailure, Refused
  <2> QED BY <2>2, <2>3
<1>27. CASE ToolCancelled
  BY <1>27, <1>0, <1>00, FailMoves, FinalizeMoves DEF ToolCancelled, ToolFailure, Refused, ArtifactFailure,
     Fail, Goto
<1>28. CASE ToolTimeout
  BY <1>28, <1>0, <1>00, FailMoves, FinalizeMoves DEF ToolTimeout, ToolFailure, Refused, ArtifactFailure,
     Fail, Goto
<1>29. CASE ToolError
  BY <1>29, <1>0, <1>00, FailMoves, FinalizeMoves DEF ToolError, ToolFailure, Refused, ArtifactFailure,
     Goto
<1>30. CASE ToolResult
  <2>1. UNCHANGED <<review, finish>>
    BY <1>30 DEF ToolResult
  <2>2. CASE Stage(TRUE)
    <3>1. pc = "tool" /\ Len(batch.effects) \in Nat /\ batch.next \in Nat
      BY <1>30, <1>0, BatchFields DEF ToolResult
    <3>2. /\ batch'.next = batch.next + 1 /\ batch'.effects = batch.effects /\ batch'.stage = batch.stage
          /\ batch'.admitted = batch.admitted /\ batch'.cutoff = batch.cutoff
          /\ batch'.dispatched => batch.dispatched \/ batch.stage # "none"
          /\ batch'.mutated => batch'.dispatched
          /\ \/ pc' = "commit" /\ batch.next = Len(batch.effects)
             \/ pc' = "register" /\ batch.next # Len(batch.effects)
      BY <1>0, <2>2, StageMoves, Zenon
    <3> QED BY <1>00, <2>1, <3>1, <3>2
  <2>3. CASE ~Stage(TRUE)
    BY <1>30, <1>0, <1>00, <2>1, <2>3, FailMoves DEF ToolResult, Goto, ArtifactFailure, Refused
  <2> QED BY <2>2, <2>3
<1>31. CASE BatchRefused
  BY <1>31, <1>0, <1>00, FailMoves, FinalizeMoves DEF BatchRefused, Goto
<1>32. CASE CommitLate
  BY <1>32, <1>0, <1>00, FailMoves, FinalizeMoves DEF CommitLate, Goto
<1>33. CASE CommitRefused
  BY <1>33, <1>0, <1>00, FailMoves, FinalizeMoves DEF CommitRefused, Refused, Goto
<1>34. CASE Commit
  <2>1. batch' = NoBatch /\ pc' \in {"top", "finalize"}
    BY <1>34, <1>0, FailMoves DEF Commit, HistoryRefused, Goto
  <2> QED BY <2>1 DEF NoBatch
<1>35. CASE WriteFinal
  BY <1>35, <1>0, <1>00, FailMoves, FinalizeMoves DEF WriteFinal, Refused, ArtifactFailure, Goto
<1>36. CASE Finalize
  BY <1>36, <1>0, <1>00, FailMoves, FinalizeMoves DEF Finalize, Goto
<1>37. CASE Done
  BY <1>37, <1>0, <1>00, FailMoves, FinalizeMoves DEF Done, vars
<1>38. CASE UNCHANGED vars
  BY <1>38, <1>0, <1>00, FailMoves, FinalizeMoves, SMTT(30) DEF vars
<1> QED
  BY <1>1, <1>2, <1>3, <1>4, <1>5, <1>6, <1>7, <1>8, <1>9, <1>10, <1>11, <1>12, <1>13, <1>14, <1>15, <1>16,
     <1>17, <1>18, <1>19, <1>20, <1>21, <1>22, <1>23, <1>24, <1>25, <1>26, <1>27, <1>28, <1>29, <1>30, <1>31,
     <1>32, <1>33, <1>34, <1>35, <1>36, <1>37, <1>38 DEF Next, Answer, Step


\* The candidate is kept and given up with the changes behind it.
LEMMA CandidateNext ==
    LoopTypes /\ BatchInv /\ CandidateInv /\ [Next]_vars => CandidateInv'
<1> SUFFICES ASSUME LoopTypes, BatchInv, CandidateInv, [Next]_vars PROVE CandidateInv'
  OBVIOUS
<1> USE DEF clock, policy, counts, ending, CandidateInv, NoStaleFallback, CandidateSurvives, ReviewCallCodes,
    Undecided, Active, SafeFallback, Outside, InBatch, Ending
<1>0. IsOutcome(outcome) /\ IsBatch(batch) /\ IsRequest(req) /\ review \in Challenges
  BY DEF LoopTypes, ControlTypes, CountTypes, PolicyTypes
<1>00. /\ UNCHANGED batch => UNCHANGED Effect
       /\ DropFallback(review).phase = review.phase /\ DropFallback(review).fallback = FALSE
       /\ DropFallback(review).mutated = review.mutated
       /\ Issue(review) = [phase |-> "Validation", fallback |-> TRUE, mutated |-> FALSE]
  BY <1>0 DEF Effect, DropFallback, Issue, Challenges
<1>1. CASE Tick
  BY <1>1, <1>0, <1>00, FailMoves, FinalizeMoves DEF Tick
<1>2. CASE RequestCancel
  BY <1>2, <1>0, <1>00, FailMoves, FinalizeMoves DEF RequestCancel
<1>3. CASE TopCancelled
  BY <1>3, <1>0, <1>00, FailMoves, FinalizeMoves DEF TopCancelled, Cancel, Goto
<1>4. CASE TopTurnsSpent
  BY <1>4, <1>0, <1>00, FailMoves, FinalizeMoves DEF TopTurnsSpent, FallbackOr, Goto
<1>5. CASE Top
  BY <1>5, <1>0, <1>00, FailMoves, FinalizeMoves DEF Top, TopSplit, HistoryRefused, Goto
<1>6. CASE Checkpoint
  BY <1>6, <1>0, <1>00, FailMoves, FinalizeMoves DEF Checkpoint, HistoryRefused, Refused, ArtifactFailure,
     Fail, Goto
<1>7. CASE RequestClosed
  BY <1>7, <1>0, <1>00, FailMoves, FinalizeMoves DEF RequestClosed, FallbackOr, Goto
<1>8. CASE SendRequest
  <2>1. pc = "request" /\ UNCHANGED <<review, dirty>> /\ (ArtifactFailure \/ (pc' = "await" /\ UNCHANGED outcome))
    BY <1>8 DEF SendRequest, Goto, Refused
  <2>2. req'.mode = "final" => ~SafeFallback(review)
    BY <1>8 DEF SendRequest, RequestOpen
  <2> QED BY <1>0, <2>1, <2>2, FailMoves DEF ArtifactFailure
<1>9. CASE RequestRefused
  BY <1>9, <1>0, <1>00, FailMoves, FinalizeMoves DEF RequestRefused, FallbackOr, Goto
<1>10. CASE BudgetNoticeRefused
  BY <1>10, <1>0, <1>00, FailMoves, FinalizeMoves DEF BudgetNoticeRefused, HistoryRefused, Goto
<1>11. CASE AwaitCancelled
  BY <1>11, <1>0, <1>00, FailMoves, FinalizeMoves DEF AwaitCancelled, Cancel, Goto
<1>12. CASE ProviderError
  BY <1>12, <1>0, <1>00, FailMoves, FinalizeMoves DEF ProviderError, EndOnFailedTurn, FailedTurn, Refused,
     ArtifactFailure, FallbackOr, Goto
<1>13. CASE ProviderTimeout
  BY <1>13, <1>0, <1>00, FailMoves, FinalizeMoves DEF ProviderTimeout, EndOnFailedTurn, FailedTurn, Refused,
     ArtifactFailure, FallbackOr, Goto
<1>14. CASE ResponseCallLimit
  BY <1>14, <1>0, <1>00, FailMoves, FinalizeMoves DEF ResponseCallLimit, CallLimit, RecoveryOpen,
     HistoryRefused, EndOnFailedTurn, FailedTurn, Refused, ArtifactFailure, FallbackOr,
     Goto
<1>15. CASE RunCallLimit
  BY <1>15, <1>0, <1>00, FailMoves, FinalizeMoves DEF RunCallLimit, CallLimit, RecoveryOpen, HistoryRefused,
     EndOnFailedTurn, FailedTurn, Refused, ArtifactFailure, FallbackOr, Goto
<1>16. CASE FinalResponse
  BY <1>16, <1>0, <1>00, FailMoves, FinalizeMoves DEF FinalResponse, CompletedTurn, Refused,
     ArtifactFailure, Goto
<1>17. CASE TextResponse
  BY <1>17, <1>0, <1>00, FailMoves, FinalizeMoves DEF TextResponse, CompletedTurn, OpenReview,
     Refused, ArtifactFailure, Goto
<1>18. CASE EmptyResponse
  BY <1>18, <1>0, <1>00, FailMoves, FinalizeMoves DEF EmptyResponse, CompletedTurn, Refused, ArtifactFailure,
     FallbackOr, Goto
<1>19. CASE ToolResponse
  <2>1. pc = "await" /\ UNCHANGED <<review, dirty, req>> /\ (ArtifactFailure \/ (pc' = "admit" /\ UNCHANGED outcome))
    BY <1>19 DEF ToolResponse, CompletedTurn, Goto
  <2> QED BY <1>0, <2>1, FailMoves DEF ArtifactFailure
<1>20. CASE CriticSend
  <2>1. /\ pc = "criticRequest" /\ UNCHANGED <<review, dirty>>
        /\ ArtifactFailure \/ FinalizeWith("candidate") \/ (pc' = "criticAwait" /\ UNCHANGED outcome)
    BY <1>20 DEF CriticSend, Goto
  <2> QED BY <1>0, <2>1, FailMoves, FinalizeMoves DEF ArtifactFailure
<1>21. CASE CriticError
  BY <1>21, <1>0, <1>00, FailMoves, FinalizeMoves DEF CriticError, CriticFailed, FailedTurn,
     Refused, ArtifactFailure, Goto
<1>22. CASE CriticTimeout
  BY <1>22, <1>0, <1>00, FailMoves, FinalizeMoves DEF CriticTimeout, CriticFailed, FailedTurn,
     Refused, ArtifactFailure, Goto
<1>23. CASE CriticResponse
  BY <1>23, <1>0, <1>00, FailMoves, FinalizeMoves DEF CriticResponse, CompletedTurn, Refused,
     ArtifactFailure, Goto
<1>24. CASE Admit
  <2>1. pc = "admit" /\ pc' = "register" /\ UNCHANGED <<review, dirty, req, outcome>>
    BY <1>24 DEF Admit, Goto
  <2>2. batch'.mutated = batch.mutated /\ ~batch.mutated
    BY <1>24, <1>0, <2>1, AdmitMoves DEF IsBatch, BatchInv, LoopTypes, PolicyTypes
  <2> QED BY <2>1, <2>2
<1>25. CASE Register
  <2>1. UNCHANGED <<review, outcome, dirty>> \/ ArtifactFailure
    BY <1>25 DEF Register
  <2>2. pc = "register" /\ UNCHANGED <<review, dirty, req>>
    BY <1>25 DEF Register
  <2>3. CASE Stage(FALSE)
    <3>1. (batch'.mutated <=> batch.mutated) /\ pc' \in {"commit", "register"}
      BY <1>0, <2>3, StageMoves, Zenon
    <3> QED BY <1>0, <2>1, <2>2, <3>1, FailMoves DEF ArtifactFailure
  <2>4. CASE ~Stage(FALSE)
    <3>1. UNCHANGED batch /\ (ArtifactFailure \/ (pc' = "dispatch" /\ UNCHANGED outcome))
      BY <1>25, <2>4 DEF Register, Goto
    <3> QED BY <1>0, <1>00, <2>2, <3>1, FailMoves DEF ArtifactFailure
  <2> QED BY <2>3, <2>4
<1>26. CASE Dispatch
  <2>1. pc = "dispatch" /\ UNCHANGED <<review, req>>
    BY <1>26 DEF Dispatch
  <2>2. CASE ArtifactFailure
    BY <1>26, <1>0, <2>1, <2>2, FailMoves DEF ArtifactFailure
  <2>3. CASE ~ArtifactFailure /\ now < batch.cutoff
    <3>1. dirty' = (dirty \/ Effect = "mutating") /\ pc' = "tool" /\ UNCHANGED <<batch, outcome>>
      BY <1>26, <2>3 DEF Dispatch, Goto
    <3>2. Effect' = Effect
      BY <3>1 DEF Effect
    <3>3. ~dirty' <=> ~dirty /\ ~(Effect = "mutating")
      BY <3>1, Zenon
    <3> QED BY <2>1, <3>1, <3>2, <3>3
  <2>4. CASE ~ArtifactFailure /\ ~(now < batch.cutoff)
    <3>1. Stage(FALSE) /\ UNCHANGED <<outcome, dirty>>
      BY <1>26, <2>4 DEF Dispatch
    <3>2. (batch'.mutated <=> batch.mutated) /\ pc' \in {"commit", "register"}
      BY <1>0, <3>1, StageMoves, Zenon
    <3> QED BY <2>1, <3>1, <3>2
  <2> QED BY <2>2, <2>3, <2>4
<1>27. CASE ToolCancelled
  BY <1>27, <1>0, <1>00, FailMoves, FinalizeMoves DEF ToolCancelled, ToolFailure, Refused, ArtifactFailure,
     Fail, Goto
<1>28. CASE ToolTimeout
  BY <1>28, <1>0, <1>00, FailMoves, FinalizeMoves DEF ToolTimeout, ToolFailure, Refused, ArtifactFailure,
     Fail, Goto
<1>29. CASE ToolError
  BY <1>29, <1>0, <1>00, FailMoves, FinalizeMoves DEF ToolError, ToolFailure, Refused, ArtifactFailure,
     Goto
<1>30. CASE ToolResult
  <2>1. pc = "tool" /\ UNCHANGED <<review, dirty, req>>
    BY <1>30 DEF ToolResult
  <2>2. CASE Stage(TRUE) /\ UNCHANGED outcome
    <3>1. (batch'.mutated <=> batch.mutated \/ (batch.stage # "none" /\ Effect = "mutating"))
          /\ pc' \in {"commit", "register"}
      BY <1>0, <2>2, StageMoves, Zenon
    <3>2. Active(review) => batch.stage # "none"
      BY <2>1 DEF BatchInv
    <3> QED BY <2>1, <2>2, <3>1, <3>2
  <2>3. CASE Fail("RuntimeFailure", "Runtime", "runtime_media_attachment_invalid")
    BY <1>30, <1>0, <2>1, <2>3, FailMoves
  <2> QED BY <1>30, <2>2, <2>3 DEF ToolResult
<1>31. CASE BatchRefused
  BY <1>31, <1>0, <1>00, FailMoves, FinalizeMoves DEF BatchRefused, Goto
<1>32. CASE CommitLate
  BY <1>32, <1>0, <1>00, FailMoves, FinalizeMoves DEF CommitLate, Goto
<1>33. CASE CommitRefused
  BY <1>33, <1>0, <1>00, FailMoves, FinalizeMoves DEF CommitRefused, Refused, Goto
<1>34. CASE Commit
  <2>1. pc = "commit" /\ UNCHANGED <<dirty, req>> /\ review' = ReviewAfterBatch
    BY <1>34 DEF Commit, CommitOpen, BatchPrepared
  <2>2. /\ review.phase \in {"NotIssued", "Validation", "Decision", "Correction", "Revalidation"}
        /\ batch.stage = ToolStage(review, batch.effects) /\ (batch.mutated => batch.dispatched)
        /\ batch.dispatched => batch.stage # "none"
    BY <1>0, <2>1 DEF BatchInv, Challenges
  <2>3. batch.stage # "none" => Active(review) /\ NextPhase[batch.stage] # "NotIssued"
    <3>1. NextPhase["Validation"] = "Decision" /\ NextPhase["Correction"] = "Correction"
          /\ NextPhase["Revalidation"] = "Revalidation"
      BY DEF NextPhase
    <3> QED BY <2>2, <3>1 DEF ToolStage
  <2>4. /\ Active(review') <=> Active(review)
        /\ SafeFallback(review') <=> SafeFallback(review) /\ ~batch.mutated
        /\ review'.fallback \/ review'.mutated => Active(review')
    <3>1. CASE batch.dispatched
      <4>1. review' = [phase |-> NextPhase[batch.stage], fallback |-> review.fallback /\ ~batch.mutated,
                       mutated |-> review.mutated \/ batch.mutated]
        BY <2>1, <2>2, <3>1 DEF ReviewAfterBatch, CommitStage
      <4> QED BY <2>2, <2>3, <3>1, <4>1
    <3>2. CASE ~batch.dispatched
      <4>1. review' = CloseReview(review)
        BY <2>1, <3>2 DEF ReviewAfterBatch
      <4> QED BY <1>0, <2>2, <3>2, <4>1 DEF CloseReview, Challenges
    <3> QED BY <3>1, <3>2
  <2>5. \/ pc' = "top" /\ UNCHANGED outcome
        \/ Fail("RuntimeFailure", "Runtime", "completion_review_decision_history_failed")
    BY <1>34 DEF Commit, HistoryRefused, Goto
  <2>6. CASE pc' = "top" /\ UNCHANGED outcome
    BY <2>1, <2>4, <2>6
  <2>7. CASE Fail("RuntimeFailure", "Runtime", "completion_review_decision_history_failed")
    BY <1>0, <2>1, <2>4, <2>7, FailMoves
  <2> QED BY <2>5, <2>6, <2>7
<1>35. CASE WriteFinal
  <2>1. \/ ArtifactFailure
        \/ pc' = "finalize" /\ outcome' = [outcome EXCEPT !.status = "Success", !.code = "completed"]
    BY <1>35 DEF WriteFinal, Goto
  <2>2. pc = "final" /\ UNCHANGED <<review, dirty>>
    BY <1>35 DEF WriteFinal
  <2>3. CASE ArtifactFailure
    BY <1>0, <2>2, <2>3, FailMoves DEF ArtifactFailure
  <2>4. CASE pc' = "finalize" /\ outcome' = [outcome EXCEPT !.status = "Success", !.code = "completed"]
    <3>1. outcome' = [status |-> "Success", phase |-> outcome.phase, code |-> "completed", text |-> outcome.text]
      BY <1>0, <2>4 DEF IsOutcome
    <3> QED BY <2>2, <2>4, <3>1
  <2> QED BY <2>1, <2>3, <2>4
<1>36. CASE Finalize
  BY <1>36, <1>0, <1>00, FailMoves, FinalizeMoves DEF Finalize, Goto
<1>37. CASE Done
  BY <1>37, <1>0, <1>00, FailMoves, FinalizeMoves DEF Done, vars
<1>38. CASE UNCHANGED vars
  BY <1>38, <1>0, <1>00, FailMoves, FinalizeMoves DEF vars
<1> QED
  BY <1>1, <1>2, <1>3, <1>4, <1>5, <1>6, <1>7, <1>8, <1>9, <1>10, <1>11, <1>12, <1>13, <1>14, <1>15, <1>16,
     <1>17, <1>18, <1>19, <1>20, <1>21, <1>22, <1>23, <1>24, <1>25, <1>26, <1>27, <1>28, <1>29, <1>30, <1>31,
     <1>32, <1>33, <1>34, <1>35, <1>36, <1>37, <1>38 DEF Next, Answer, Step


\* Only a dispatch makes a call dispatched, before its cutoff.
LEMMA DispatchMoves ==
    ASSUME LoopTypes, [Next]_vars, NEW c \in Call, Dispatched(c)
    PROVE  Dispatch /\ pc = "dispatch" /\ now < batch.cutoff
<1>1. ASSUME NEW j \in JournalTypes, NEW n, NEW x, NEW y, j.tools[c] # "dispatched"
      PROVE  /\ J!ProviderRequested(j, n, x).tools[c] # "dispatched"
             /\ J!ProviderCompleted(j, n).tools[c] # "dispatched"
             /\ J!ProviderFailed(j, n).tools[c] # "dispatched"
             /\ J!ContextCheckpointed(j, x, y).tools[c] # "dispatched"
             /\ J!ToolRegistered(j, x).tools[c] # "dispatched"
             /\ J!ToolFailed(j, x).tools[c] # "dispatched"
             /\ J!ToolsCompleted(j, x).tools[c] # "dispatched"
             /\ J!AssistantFinal(j).tools[c] # "dispatched"
  <2> USE <1>1 DEF JournalTypes, J!Guarded, J!Reject
  <2>1. J!ProviderRequested(j, n, x).tools[c] # "dispatched"
    BY DEF J!ProviderRequested
  <2>2. J!ProviderCompleted(j, n).tools[c] # "dispatched"
    BY DEF J!ProviderCompleted
  <2>3. J!ProviderFailed(j, n).tools[c] # "dispatched"
    BY DEF J!ProviderFailed
  <2>4. J!ContextCheckpointed(j, x, y).tools[c] # "dispatched"
    BY DEF J!ContextCheckpointed
  <2>5. J!ToolRegistered(j, x).tools[c] # "dispatched"
    BY DEF J!ToolRegistered
  <2>6. J!ToolFailed(j, x).tools[c] # "dispatched"
    BY DEF J!ToolFailed
  <2>7. J!ToolsCompleted(j, x).tools[c] # "dispatched"
    BY DEF J!ToolsCompleted
  <2>8. J!AssistantFinal(j).tools[c] # "dispatched"
    BY DEF J!AssistantFinal
  <2> QED BY <2>1, <2>2, <2>3, <2>4, <2>5, <2>6, <2>7, <2>8
<1>2. journal \in JournalTypes /\ journal.tools[c] # "dispatched" /\ journal'.tools[c] = "dispatched"
  BY DEF LoopTypes, Dispatched
<1>3. Framed
  BY FramesHold
<1>4. Dispatch
  <2>1. CASE \E exact \in BOOLEAN : journal' = J!ProviderRequested(journal, turns, exact)
    BY <1>1, <1>2, <2>1
  <2>2. CASE journal' = J!ContextCheckpointed(journal, turns, calls)
    BY <1>1, <1>2, <2>2
  <2>3. CASE journal' = J!ProviderCompleted(journal, turns - 1) \/ journal' = J!ProviderFailed(journal, turns - 1)
    BY <1>1, <1>2, <2>3
  <2>4. CASE \/ journal' = J!ToolRegistered(journal, CallId) \/ journal' = J!ToolFailed(journal, CallId)
             \/ journal' = J!ToolsCompleted(journal, BatchIds) \/ journal' = J!AssistantFinal(journal)
    BY <1>1, <1>2, <2>4
  <2>5. CASE UNCHANGED journal
    BY <1>2, <2>5
  <2> QED BY <1>3, <2>1, <2>2, <2>3, <2>4, <2>5 DEF Framed
<1> QED BY <1>2, <1>4 DEF Dispatch

\* The reader counts as the loop does.
LEMMA SameCardinality == \A S : J!Cardinality(S) = Cardinality(S)
  BY DEF J!Cardinality, Cardinality

\* The settlement of the turn in flight.
LEMMA CompletedFields ==
    ASSUME NEW j \in JournalTypes, NEW n, ~j.broken, n \in j.inFlight, j.checkpoint # "awaited"
    PROVE  LET k == J!ProviderCompleted(j, n)
           IN  /\ ~k.broken
               /\ k.inFlight = j.inFlight \ {n}
               /\ k.completed = j.completed + 1
               /\ k.seen = j.seen /\ k.failed = j.failed /\ k.tools = j.tools
               /\ k.checkpoint = j.checkpoint /\ k.finals = j.finals
  BY DEF JournalTypes, J!ProviderCompleted, J!Guarded, J!Reject

\* The failure of the turn in flight.
LEMMA FailedFields ==
    ASSUME NEW j \in JournalTypes, NEW n, ~j.broken, n \in j.inFlight, j.checkpoint # "awaited"
    PROVE  LET k == J!ProviderFailed(j, n)
           IN  /\ ~k.broken
               /\ k.inFlight = j.inFlight \ {n}
               /\ k.failed = j.failed + 1
               /\ k.seen = j.seen /\ k.completed = j.completed /\ k.tools = j.tools
               /\ k.checkpoint = j.checkpoint /\ k.finals = j.finals
  BY DEF JournalTypes, J!ProviderFailed, J!Guarded, J!Reject

\* A checkpoint that counts the turns and calls of the journal.
LEMMA CheckpointedFields ==
    ASSUME NEW j \in JournalTypes, NEW n, NEW m, ~j.broken, j.checkpoint = "none", j.inFlight = {},
           n = Cardinality(j.seen), m = Cardinality(J!Registered(j))
    PROVE  LET k == J!ContextCheckpointed(j, n, m)
           IN  /\ ~k.broken
               /\ k.checkpoint = "awaited"
               /\ k.seen = j.seen /\ k.inFlight = j.inFlight /\ k.completed = j.completed
               /\ k.failed = j.failed /\ k.tools = j.tools /\ k.finals = j.finals
<1>1. j.checkpoint # "awaited"
  OBVIOUS
<1>2. J!ContextCheckpointed(j, n, m) = [j EXCEPT !.checkpoint = "awaited"]
  BY <1>1, SameCardinality DEF J!ContextCheckpointed, J!Guarded
<1> QED BY <1>2 DEF JournalTypes

\* A new call.
LEMMA RegisteredFields ==
    ASSUME NEW j \in JournalTypes, NEW c \in Call, ~j.broken, j.tools[c] = "none", j.checkpoint # "awaited"
    PROVE  LET k == J!ToolRegistered(j, c)
           IN  /\ ~k.broken
               /\ k.tools = [j.tools EXCEPT ![c] = "inFlight"]
               /\ k.seen = j.seen /\ k.inFlight = j.inFlight /\ k.completed = j.completed
               /\ k.failed = j.failed /\ k.checkpoint = j.checkpoint /\ k.finals = j.finals
  BY DEF JournalTypes, J!ToolRegistered, J!Guarded, J!Reject

\* A call goes to the executor.
LEMMA DispatchedFields ==
    ASSUME NEW j \in JournalTypes, NEW c \in Call, ~j.broken, j.tools[c] = "inFlight", j.checkpoint # "awaited"
    PROVE  LET k == J!ToolDispatched(j, c)
           IN  /\ ~k.broken
               /\ k.tools = [j.tools EXCEPT ![c] = "dispatched"]
               /\ k.seen = j.seen /\ k.inFlight = j.inFlight /\ k.completed = j.completed
               /\ k.failed = j.failed /\ k.checkpoint = j.checkpoint /\ k.finals = j.finals
  BY DEF JournalTypes, J!ToolDispatched, J!Guarded, J!Reject

\* An open call fails.
LEMMA ToolFailedFields ==
    ASSUME NEW j \in JournalTypes, NEW c \in Call, ~j.broken, j.tools[c] \in {"inFlight", "dispatched"},
           j.checkpoint # "awaited"
    PROVE  LET k == J!ToolFailed(j, c)
           IN  /\ ~k.broken
               /\ k.tools = [j.tools EXCEPT ![c] = "failed"]
               /\ k.seen = j.seen /\ k.inFlight = j.inFlight /\ k.completed = j.completed
               /\ k.failed = j.failed /\ k.checkpoint = j.checkpoint /\ k.finals = j.finals
  BY DEF JournalTypes, J!ToolFailed, J!Guarded, J!Reject, J!Unsettled

\* The open calls of a batch complete.
LEMMA ToolsCompletedFields ==
    ASSUME NEW j \in JournalTypes, NEW B, ~j.broken, \A c \in B : j.tools[c] \in {"inFlight", "dispatched"},
           j.checkpoint # "awaited"
    PROVE  LET k == J!ToolsCompleted(j, B)
           IN  /\ ~k.broken
               /\ k.tools = [c \in Call |-> IF c \in B THEN "completed" ELSE j.tools[c]]
               /\ k.seen = j.seen /\ k.inFlight = j.inFlight /\ k.completed = j.completed
               /\ k.failed = j.failed /\ k.checkpoint = j.checkpoint /\ k.finals = j.finals
  BY DEF JournalTypes, J!ToolsCompleted, J!Guarded, J!Reject, J!Unsettled

\* The final text.
LEMMA FinalFields ==
    ASSUME NEW j \in JournalTypes, ~j.broken, j.finals = 0, j.checkpoint # "awaited"
    PROVE  LET k == J!AssistantFinal(j)
           IN  /\ ~k.broken
               /\ k.finals = 1
               /\ k.seen = j.seen /\ k.inFlight = j.inFlight /\ k.completed = j.completed
               /\ k.failed = j.failed /\ k.tools = j.tools /\ k.checkpoint = j.checkpoint
  BY DEF JournalTypes, J!AssistantFinal, J!Guarded, J!Reject

\* The journal counts the turns and the calls of the loop.
LEMMA JournalCounts ==
    ASSUME journal \in JournalTypes, turns \in Nat, journal.seen = 0..(turns - 1)
    PROVE  /\ Cardinality(journal.seen) = turns
           /\ \A n : UpTo(n) => Cardinality(J!Registered(journal)) = n
<1>1. Cardinality(journal.seen) = turns
  BY FS_Interval
<1>2. ASSUME NEW n, UpTo(n) PROVE Cardinality(J!Registered(journal)) = n
  <2>1. n \in Nat /\ n <= MaxCalls
    BY <1>2, Cutoffs DEF UpTo
  <2>2. J!Registered(journal) = 1..n
    BY <1>2, <2>1, Cutoffs DEF UpTo, J!Registered, Call
  <2>3. Cardinality(1..n) = n
    BY <2>1, FS_Interval
  <2> QED BY <2>2, <2>3
<1> QED BY <1>1, <1>2

\* While the loop waits for an answer: the journal takes the settlement.
LEMMA SettlesTurn ==
    ASSUME LoopTypes, JournalInv, pc \in {"await", "criticAwait"}
    PROVE  LET k == J!ProviderCompleted(journal, turns - 1)
               f == J!ProviderFailed(journal, turns - 1)
           IN  /\ ~k.broken /\ k.seen = journal.seen /\ k.inFlight = {} /\ k.completed = journal.completed + 1
               /\ k.failed = journal.failed /\ k.tools = journal.tools /\ k.checkpoint = journal.checkpoint
               /\ k.finals = journal.finals
               /\ ~f.broken /\ f.seen = journal.seen /\ f.inFlight = {} /\ f.failed = journal.failed + 1
               /\ f.completed = journal.completed /\ f.tools = journal.tools /\ f.checkpoint = journal.checkpoint
               /\ f.finals = journal.finals
<1>1. journal \in JournalTypes /\ ~journal.broken /\ journal.inFlight = {turns - 1} /\ journal.checkpoint # "awaited"
  BY DEF LoopTypes, JournalInv, TurnsInv, CheckpointInv
<1>2. (turns - 1) \in journal.inFlight /\ journal.inFlight \ {turns - 1} = {}
  BY <1>1
<1> QED BY <1>1, <1>2, CompletedFields, FailedFields

\* At a request: the journal takes it, and binds the checkpoint that waits.
LEMMA TakesRequest ==
    ASSUME LoopTypes, JournalInv, pc \in {"request", "criticRequest"}, NEW x, journal.checkpoint = "awaited" => x
    PROVE  LET k == J!ProviderRequested(journal, turns, x)
           IN  /\ ~k.broken /\ k.seen = 0..turns /\ k.inFlight = {turns}
               /\ k.checkpoint = IF journal.checkpoint = "awaited" THEN "bound" ELSE journal.checkpoint
               /\ k.completed = journal.completed /\ k.failed = journal.failed /\ k.tools = journal.tools
               /\ k.finals = journal.finals
<1>1. journal \in JournalTypes /\ ~journal.broken /\ journal.inFlight = {} /\ journal.seen = 0..(turns - 1)
      /\ turns \in Nat
  BY DEF LoopTypes, CountTypes, JournalInv, TurnsInv
<1>2. turns \notin journal.seen /\ journal.seen \cup {turns} = 0..turns /\ journal.inFlight \cup {turns} = {turns}
  BY <1>1
<1> DEFINE k == J!ProviderRequested(journal, turns, x)
<1>3. /\ ~k.broken /\ k.seen = journal.seen \cup {turns} /\ k.inFlight = journal.inFlight \cup {turns}
      /\ k.checkpoint = IF journal.checkpoint = "awaited" THEN "bound" ELSE journal.checkpoint
      /\ k.completed = journal.completed /\ k.failed = journal.failed /\ k.tools = journal.tools
      /\ k.finals = journal.finals
  BY <1>1, <1>2 DEF JournalTypes, J!ProviderRequested, J!Reject
<1> QED BY <1>2, <1>3, Zenon

\* At a checkpoint: its counts are those of the journal.
LEMMA TakesCheckpoint ==
    ASSUME LoopTypes, CandidateInv, JournalInv, pc = "checkpoint", ~flags.checkpoint
    PROVE  LET k == J!ContextCheckpointed(journal, turns, calls)
           IN  /\ ~k.broken /\ k.seen = journal.seen /\ k.inFlight = {} /\ k.checkpoint = "awaited"
               /\ k.completed = journal.completed /\ k.failed = journal.failed /\ k.tools = journal.tools
               /\ k.finals = journal.finals
<1>1. journal \in JournalTypes /\ ~journal.broken /\ journal.inFlight = {} /\ journal.seen = 0..(turns - 1)
      /\ turns \in Nat /\ journal.checkpoint = "none"
  BY DEF LoopTypes, CountTypes, JournalInv, TurnsInv, CheckpointInv
<1>2. UpTo(calls)
  BY DEF JournalInv, CallsInv, Artifact, CandidateInv, Undecided, Ending
<1>3. turns = Cardinality(journal.seen) /\ calls = Cardinality(J!Registered(journal))
  BY <1>1, <1>2, JournalCounts
<1> QED BY <1>1, <1>3, CheckpointedFields

\* During a batch: the call under way is the next one of the journal.
LEMMA TakesCall ==
    ASSUME LoopTypes, BatchInv, CandidateInv, JournalInv, pc \in {"register", "dispatch", "tool"}
    PROVE  /\ CallId = IF pc = "register" THEN calls + 1 ELSE calls
           /\ CallId \in Call /\ journal \in JournalTypes /\ ~journal.broken /\ journal.checkpoint # "awaited"
           /\ UpTo(calls) /\ calls \in Nat
           /\ pc = "register" => journal.tools[CallId] = "none"
           /\ pc = "dispatch" => journal.tools[CallId] = "inFlight"
           /\ pc = "tool" => journal.tools[CallId] \in {"inFlight", "dispatched"}
<1>1. journal \in JournalTypes /\ ~journal.broken /\ journal.checkpoint # "awaited"
  BY DEF LoopTypes, JournalInv, TurnsInv, CheckpointInv
<1>2. UpTo(calls)
  BY DEF JournalInv, CallsInv, Artifact, CandidateInv, Undecided, Ending
<1>3. batch.first \in Nat /\ batch.next \in Nat /\ Len(batch.effects) \in Nat /\ calls \in Nat /\ MaxCalls \in Nat
  BY BatchFields, Cutoffs DEF LoopTypes, CountTypes
<1>4. batch.next \in 1..Len(batch.effects)
  BY DEF BatchInv, InBatch
<1>5. /\ ~batch.repeat /\ batch.first >= 1 /\ batch.first + Len(batch.effects) - 1 <= MaxCalls
      /\ calls = batch.first + batch.next - (IF pc \in {"dispatch", "tool"} THEN 1 ELSE 2)
      /\ \A c \in batch.first..calls : journal.tools[c] \in {"inFlight", "dispatched"}
      /\ pc = "dispatch" => journal.tools[calls] = "inFlight"
  BY DEF JournalInv, CallsInv, InBatch
<1>6. CallId = batch.first + batch.next - 1
  BY <1>5 DEF CallId, IdOf
<1>7. CallId = (IF pc = "register" THEN calls + 1 ELSE calls) /\ CallId \in Call
  BY <1>3, <1>4, <1>5, <1>6, SMTT(30) DEF Call
<1>8. pc = "register" => journal.tools[CallId] = "none"
  BY <1>2, <1>3, <1>7 DEF UpTo
<1>9. pc = "tool" => journal.tools[CallId] \in {"inFlight", "dispatched"}
  <2>1. pc = "tool" => calls \in batch.first..calls
    BY <1>3, <1>4, <1>5
  <2> QED BY <1>5, <1>7, <2>1
<1> QED BY <1>1, <1>2, <1>3, <1>5, <1>7, <1>8, <1>9

\* At the commit: the open calls are exactly those of the batch.
LEMMA TakesCommit ==
    ASSUME LoopTypes, CandidateInv, JournalInv, pc = "commit"
    PROVE  LET k == J!ToolsCompleted(journal, BatchIds)
           IN  /\ ~k.broken /\ k.seen = journal.seen /\ k.inFlight = journal.inFlight
               /\ k.completed = journal.completed /\ k.failed = journal.failed
               /\ k.checkpoint = journal.checkpoint /\ k.finals = journal.finals
               /\ UpTo(calls) /\ calls \in Nat
               /\ \A c \in Call : k.tools[c] = "none" <=> c > calls
               /\ \A c \in 1..calls : k.tools[c] = "completed"
<1>1. journal \in JournalTypes /\ ~journal.broken /\ journal.checkpoint # "awaited"
  BY DEF LoopTypes, JournalInv, TurnsInv, CheckpointInv
<1>2. UpTo(calls)
  BY DEF JournalInv, CallsInv, Artifact, CandidateInv, Undecided, Ending
<1>3. batch.first \in Nat /\ batch.next \in Nat /\ Len(batch.effects) \in Nat /\ calls \in Nat /\ MaxCalls \in Nat
      /\ batch.effects \in Seq(Effects)
  BY BatchFields, Cutoffs DEF LoopTypes, CountTypes
<1>4. /\ ~batch.repeat /\ batch.first >= 1 /\ batch.next = Len(batch.effects) + 1
      /\ calls = batch.first + batch.next - 2
      /\ \A c \in 1..(batch.first - 1) : journal.tools[c] = "completed"
      /\ \A c \in batch.first..calls : journal.tools[c] \in {"inFlight", "dispatched"}
  BY DEF JournalInv, CallsInv, InBatch
<1>5. BatchIds = batch.first..calls
  <2>1. DOMAIN batch.effects = 1..Len(batch.effects)
    BY <1>3, LenProperties
  <2>2. \A k \in DOMAIN batch.effects : IdOf(k) = batch.first + k - 1
    BY <1>4 DEF IdOf
  <2>3. BatchIds = {batch.first + k - 1 : k \in 1..Len(batch.effects)}
    BY <2>1, <2>2 DEF BatchIds
  <2>4. \A c \in batch.first..calls : \E k \in 1..Len(batch.effects) : c = batch.first + k - 1
    <3>1. ASSUME NEW c \in batch.first..calls PROVE \E k \in 1..Len(batch.effects) : c = batch.first + k - 1
      <4>1. (c - batch.first + 1) \in 1..Len(batch.effects)
        BY <1>3, <1>4
      <4>2. c = batch.first + (c - batch.first + 1) - 1
        BY <1>3
      <4> QED BY <4>1, <4>2
    <3> QED BY <3>1
  <2>5. \A k \in 1..Len(batch.effects) : batch.first + k - 1 \in batch.first..calls
    BY <1>3, <1>4
  <2> QED BY <2>3, <2>4, <2>5
<1>6. \A c \in BatchIds : journal.tools[c] \in {"inFlight", "dispatched"}
  BY <1>4, <1>5
<1> DEFINE k == J!ToolsCompleted(journal, BatchIds)
<1>7. /\ ~k.broken /\ k.seen = journal.seen /\ k.inFlight = journal.inFlight
      /\ k.completed = journal.completed /\ k.failed = journal.failed
      /\ k.checkpoint = journal.checkpoint /\ k.finals = journal.finals
      /\ k.tools = [c \in Call |-> IF c \in BatchIds THEN "completed" ELSE journal.tools[c]]
  BY <1>1, <1>6, ToolsCompletedFields
<1> HIDE DEF k
<1>8. \A c \in Call : k.tools[c] = IF c \in batch.first..calls THEN "completed" ELSE journal.tools[c]
  BY <1>5, <1>7
<1>9. \A c \in Call : k.tools[c] = "none" <=> c > calls
  BY <1>2, <1>3, <1>4, <1>8 DEF UpTo, Call
<1>10. \A c \in 1..calls : k.tools[c] = "completed"
  <2>1. \A c \in 1..calls : c \in Call /\ (c \in 1..(batch.first - 1) \/ c \in batch.first..calls)
    BY <1>2, <1>3, <1>4 DEF UpTo, Call
  <2> QED BY <1>4, <1>8, <2>1
<1> QED BY <1>2, <1>3, <1>7, <1>9, <1>10 DEF k

\* What an answer does to the journal: the turn in flight is settled with its
\* usage, or the run ends without the settlement.
Answered ==
    \/ UNCHANGED <<journal, usage>> /\ pc' = "finalize" /\ outcome'.status # "Success"
    \/ /\ UNCHANGED journal /\ pc' = "finalize"
       /\ outcome'.status = "RuntimeFailure" /\ outcome'.phase = "Artifact"
       /\ usage' \in {[usage EXCEPT !.completed = @ + 1], [usage EXCEPT !.failed = @ + 1]}
    \/ /\ journal' = J!ProviderCompleted(journal, turns - 1) /\ usage' = [usage EXCEPT !.completed = @ + 1]
       /\ pc' \in {"final", "finalize", "top", "criticRequest", "admit"} /\ outcome'.status # "Success"
    \/ /\ journal' = J!ProviderFailed(journal, turns - 1) /\ usage' = [usage EXCEPT !.failed = @ + 1]
       /\ pc' \in {"final", "finalize", "top"} /\ outcome'.status # "Success"

\* Every answer, timeout and provider error is one of these.
LEMMA AnswersSettle ==
    ASSUME IsOutcome(outcome), outcome.status = "none",
           \/ ProviderError \/ ProviderTimeout \/ ResponseCallLimit \/ RunCallLimit \/ FinalResponse \/ TextResponse
           \/ EmptyResponse \/ ToolResponse \/ CriticError \/ CriticTimeout \/ CriticResponse
    PROVE  Answered /\ pc \in {"await", "criticAwait"} /\ UNCHANGED <<turns, calls>>
<1>1. CASE ProviderError
  <2>1. pc \in {"await", "criticAwait"} /\ UNCHANGED <<turns, calls>>
    BY <1>1 DEF ProviderError
  <2>2. Answered
    BY <1>1, FailMoves, FinalizeMoves DEF Answered, ProviderError, EndOnFailedTurn, FailedTurn, Refused,
     ArtifactFailure, FallbackOr, Goto
  <2> QED BY <2>1, <2>2
<1>2. CASE ProviderTimeout
  <2>1. pc \in {"await", "criticAwait"} /\ UNCHANGED <<turns, calls>>
    BY <1>2 DEF ProviderTimeout
  <2>2. Answered
    BY <1>2, FailMoves, FinalizeMoves DEF Answered, ProviderTimeout, EndOnFailedTurn, FailedTurn, Refused,
     ArtifactFailure, FallbackOr, Goto
  <2> QED BY <2>1, <2>2
<1>3. CASE ResponseCallLimit
  <2>1. pc \in {"await", "criticAwait"} /\ UNCHANGED <<turns, calls>>
    BY <1>3 DEF ResponseCallLimit, CallLimit
  <2>2. Answered
    BY <1>3, FailMoves, FinalizeMoves DEF Answered, ResponseCallLimit, CallLimit, RecoveryOpen,
     HistoryRefused, EndOnFailedTurn, FailedTurn, Refused, ArtifactFailure, FallbackOr, Goto
  <2> QED BY <2>1, <2>2
<1>4. CASE RunCallLimit
  <2>1. pc \in {"await", "criticAwait"} /\ UNCHANGED <<turns, calls>>
    BY <1>4 DEF RunCallLimit, CallLimit
  <2>2. Answered
    BY <1>4, FailMoves, FinalizeMoves DEF Answered, RunCallLimit, CallLimit, RecoveryOpen, HistoryRefused,
     EndOnFailedTurn, FailedTurn, Refused, ArtifactFailure, FallbackOr, Goto
  <2> QED BY <2>1, <2>2
<1>5. CASE FinalResponse
  <2>1. pc \in {"await", "criticAwait"} /\ UNCHANGED <<turns, calls>>
    BY <1>5 DEF FinalResponse
  <2>2. Answered
    BY <1>5, FailMoves, FinalizeMoves DEF Answered, FinalResponse, CompletedTurn, Refused, ArtifactFailure,
     Goto
  <2> QED BY <2>1, <2>2
<1>6. CASE TextResponse
  <2>1. pc \in {"await", "criticAwait"} /\ UNCHANGED <<turns, calls>>
    BY <1>6 DEF TextResponse
  <2>2. Answered
    BY <1>6, FailMoves, FinalizeMoves DEF Answered, TextResponse, CompletedTurn, OpenReview, Refused,
     ArtifactFailure, Goto
  <2> QED BY <2>1, <2>2
<1>7. CASE EmptyResponse
  <2>1. pc \in {"await", "criticAwait"} /\ UNCHANGED <<turns, calls>>
    BY <1>7 DEF EmptyResponse
  <2>2. Answered
    BY <1>7, FailMoves, FinalizeMoves DEF Answered, EmptyResponse, CompletedTurn, Refused, ArtifactFailure,
     FallbackOr, Goto
  <2> QED BY <2>1, <2>2
<1>8. CASE ToolResponse
  <2>1. pc \in {"await", "criticAwait"} /\ UNCHANGED <<turns, calls>>
    BY <1>8 DEF ToolResponse
  <2>2. Answered
    <3>1. /\ usage' = [usage EXCEPT !.completed = @ + 1]
          /\ \/ journal' = J!ProviderCompleted(journal, turns - 1) /\ pc' = "admit" /\ UNCHANGED outcome
             \/ UNCHANGED journal /\ ArtifactFailure
      BY <1>8 DEF ToolResponse, CompletedTurn, Refused, Goto
    <3> QED BY <3>1, FailMoves DEF Answered, ArtifactFailure
  <2> QED BY <2>1, <2>2
<1>9. CASE CriticError
  <2>1. pc \in {"await", "criticAwait"} /\ UNCHANGED <<turns, calls>>
    BY <1>9 DEF CriticError, CriticFailed
  <2>2. Answered
    BY <1>9, FailMoves, FinalizeMoves DEF Answered, CriticError, CriticFailed, FailedTurn, Refused,
     ArtifactFailure, Goto
  <2> QED BY <2>1, <2>2
<1>10. CASE CriticTimeout
  <2>1. pc \in {"await", "criticAwait"} /\ UNCHANGED <<turns, calls>>
    BY <1>10 DEF CriticTimeout, CriticFailed
  <2>2. Answered
    BY <1>10, FailMoves, FinalizeMoves DEF Answered, CriticTimeout, CriticFailed, FailedTurn, Refused,
     ArtifactFailure, Goto
  <2> QED BY <2>1, <2>2
<1>11. CASE CriticResponse
  <2>1. pc \in {"await", "criticAwait"} /\ UNCHANGED <<turns, calls>>
    BY <1>11 DEF CriticResponse
  <2>2. Answered
    BY <1>11, FailMoves, FinalizeMoves DEF Answered, CriticResponse, CompletedTurn, Refused, ArtifactFailure,
     Goto
  <2> QED BY <2>1, <2>2
<1> QED BY <1>1, <1>2, <1>3, <1>4, <1>5, <1>6, <1>7, <1>8, <1>9, <1>10, <1>11

\* A step that leaves the turns as they are: it keeps where the loop waits, or
\* ends the run without success.
Waiting == {"await", "criticAwait"}

SameTurns ==
    /\ ~journal'.broken /\ journal'.seen = journal.seen /\ journal'.inFlight = journal.inFlight
    /\ journal'.completed = journal.completed /\ journal'.failed = journal.failed
    /\ journal'.finals = journal.finals /\ UNCHANGED <<turns, usage>>

QuietTurn ==
    /\ SameTurns
    /\ \/ UNCHANGED outcome /\ (UNCHANGED pc \/ pc' = "ended")
       \/ /\ pc \notin {"finalize", "ended"} /\ outcome'.status # "Success"
          /\ pc' = "finalize" \/ (pc \notin Waiting /\ pc' \notin Waiting)

\* Such a step keeps the invariant of the turns.
LEMMA QuietTurns ==
    ASSUME CandidateInv, TurnsInv, QuietTurn
    PROVE  TurnsInv'
<1>1. pc \notin {"finalize", "ended"} => outcome.status = "none"
  BY DEF CandidateInv, Undecided, Ending
<1>2. ~journal'.broken /\ journal'.seen = 0..(turns' - 1)
  BY DEF QuietTurn, SameTurns, TurnsInv
<1>3. pc' \notin {"finalize", "ended"} =>
          /\ journal'.inFlight = IF pc' \in {"await", "criticAwait"} THEN {turns' - 1} ELSE {}
          /\ journal'.finals = 0
  <2> SUFFICES ASSUME pc' \notin {"finalize", "ended"}
               PROVE  /\ journal'.inFlight = IF pc' \in {"await", "criticAwait"} THEN {turns' - 1} ELSE {}
                      /\ journal'.finals = 0
    OBVIOUS
  <2>1. pc \notin {"finalize", "ended"} /\ (pc' \in Waiting <=> pc \in Waiting)
    BY DEF QuietTurn, Waiting
  <2>2. turns' = turns /\ journal'.inFlight = journal.inFlight /\ journal'.finals = journal.finals
    BY DEF QuietTurn, SameTurns
  <2>3. /\ journal.inFlight = IF pc \in {"await", "criticAwait"} THEN {turns - 1} ELSE {}
        /\ journal.finals = 0
    BY <2>1 DEF TurnsInv
  <2> QED BY <2>1, <2>2, <2>3 DEF Waiting
<1>4. Artifact => Artifact' /\ outcome' = outcome
  BY <1>1 DEF Artifact, QuietTurn
<1>5. /\ journal'.completed <= usage'.completed /\ (journal'.completed = usage'.completed \/ Artifact')
      /\ journal'.failed <= usage'.failed /\ (journal'.failed = usage'.failed \/ Artifact')
  BY <1>4 DEF QuietTurn, SameTurns, TurnsInv
<1>6. outcome'.status = "Success" => journal'.finals = 1
  BY DEF QuietTurn, SameTurns, TurnsInv
<1> HIDE DEF Artifact
<1> QED BY <1>2, <1>3, <1>5, <1>6 DEF TurnsInv, Artifact

\* A settled turn, and a new one.
LEMMA SettledTurns ==
    ASSUME LoopTypes, CandidateInv, JournalInv, Answered, pc \in {"await", "criticAwait"}, UNCHANGED turns
    PROVE  TurnsInv'
<1>0. /\ turns \in Nat /\ journal.completed \in Nat /\ journal.failed \in Nat
      /\ usage.completed \in Nat /\ usage.failed \in Nat /\ TurnsInv
  BY DEF LoopTypes, CountTypes, IsUsage, JournalTypes, Count, JournalInv
<1>1. outcome.status = "none"
  BY DEF CandidateInv, Undecided, Ending
<1>2. /\ [usage EXCEPT !.completed = @ + 1].completed = usage.completed + 1
      /\ [usage EXCEPT !.completed = @ + 1].failed = usage.failed
      /\ [usage EXCEPT !.failed = @ + 1].failed = usage.failed + 1
      /\ [usage EXCEPT !.failed = @ + 1].completed = usage.completed
  BY DEF LoopTypes, CountTypes, IsUsage
<1>3. journal.completed = usage.completed /\ journal.failed = usage.failed /\ journal.finals = 0
      /\ ~journal.broken /\ journal.seen = 0..(turns - 1)
  BY <1>0, <1>1 DEF TurnsInv, Artifact
<1>4. CASE UNCHANGED <<journal, usage>> /\ pc' = "finalize" /\ outcome'.status # "Success"
  <2>1. QuietTurn
    BY <1>3, <1>4 DEF QuietTurn, SameTurns
  <2> QED BY <1>0, <2>1, QuietTurns
<1>5. CASE /\ UNCHANGED journal /\ pc' = "finalize"
           /\ outcome'.status = "RuntimeFailure" /\ outcome'.phase = "Artifact"
           /\ usage' \in {[usage EXCEPT !.completed = @ + 1], [usage EXCEPT !.failed = @ + 1]}
  <2>1. \A n \in Nat : n <= n /\ n <= n + 1
    OBVIOUS
  <2>2. journal'.completed <= usage'.completed /\ journal'.failed <= usage'.failed
    BY <1>0, <1>2, <1>3, <1>5, <2>1
  <2> QED BY <1>3, <1>5, <2>2 DEF TurnsInv, Artifact
<1>6. CASE /\ journal' = J!ProviderCompleted(journal, turns - 1) /\ usage' = [usage EXCEPT !.completed = @ + 1]
           /\ pc' \in {"final", "finalize", "top", "criticRequest", "admit"} /\ outcome'.status # "Success"
  <2>1. /\ ~journal'.broken /\ journal'.seen = journal.seen /\ journal'.inFlight = {} /\ journal'.finals = 0
        /\ journal'.completed = usage'.completed /\ journal'.failed = usage'.failed
    BY <1>2, <1>3, <1>6, SettlesTurn
  <2>2. journal'.completed <= usage'.completed /\ journal'.failed <= usage'.failed
    <3>1. \A n \in Nat : n <= n /\ n + 1 <= n + 1
      OBVIOUS
    <3> QED BY <1>0, <1>2, <1>6, <2>1, <3>1
  <2>3. pc' \notin {"await", "criticAwait"} /\ turns' = turns
    BY <1>6
  <2> QED BY <1>3, <1>6, <2>1, <2>2, <2>3 DEF TurnsInv
<1>7. CASE /\ journal' = J!ProviderFailed(journal, turns - 1) /\ usage' = [usage EXCEPT !.failed = @ + 1]
           /\ pc' \in {"final", "finalize", "top"} /\ outcome'.status # "Success"
  <2>1. /\ ~journal'.broken /\ journal'.seen = journal.seen /\ journal'.inFlight = {} /\ journal'.finals = 0
        /\ journal'.completed = usage'.completed /\ journal'.failed = usage'.failed
    BY <1>2, <1>3, <1>7, SettlesTurn
  <2>2. journal'.completed <= usage'.completed /\ journal'.failed <= usage'.failed
    <3>1. \A n \in Nat : n <= n /\ n + 1 <= n + 1
      OBVIOUS
    <3> QED BY <1>0, <1>2, <1>7, <2>1, <3>1
  <2>3. pc' \notin {"await", "criticAwait"} /\ turns' = turns
    BY <1>7
  <2> QED BY <1>3, <1>7, <2>1, <2>2, <2>3 DEF TurnsInv
<1> QED BY <1>4, <1>5, <1>6, <1>7 DEF Answered

Requested ==
    /\ pc \in {"request", "criticRequest"} /\ pc' \in {"await", "criticAwait"}
    /\ turns' = turns + 1 /\ UNCHANGED <<usage, outcome>>
    /\ \E x \in BOOLEAN : /\ journal.checkpoint = "awaited" => x
                          /\ journal' = J!ProviderRequested(journal, turns, x)

\* What sending a request does: it is appended and awaited, or the run ends.
LEMMA SendMoves ==
    ASSUME JournalInv, SendRequest
    PROVE  UNCHANGED usage /\ ((UNCHANGED <<journal, turns>> /\ ArtifactFailure) \/ Requested)
<1>1. pc = "request" /\ UNCHANGED usage
  BY DEF SendRequest
<1>2. journal.checkpoint = "awaited" => ~BudgetNoticeDue /\ hist = "checkpoint"
  BY DEF JournalInv, CheckpointInv, BudgetNoticeDue
<1>3. (hist = "checkpoint") \in BOOLEAN /\ ("grown" = "checkpoint") \in BOOLEAN
  OBVIOUS
<1> QED BY <1>1, <1>2, <1>3 DEF SendRequest, Refused, Goto, Requested

\* The same for the request of the critic.
LEMMA CriticMoves ==
    ASSUME JournalInv, CriticSend
    PROVE  /\ UNCHANGED usage
           /\ \/ UNCHANGED <<journal, turns>> /\ (ArtifactFailure \/ FinalizeWith("candidate"))
              \/ Requested
<1>1. pc = "criticRequest" /\ UNCHANGED usage /\ journal.checkpoint # "awaited"
  BY DEF CriticSend, JournalInv, CheckpointInv
<1> QED BY <1>1 DEF CriticSend, Refused, Goto, Requested

\* A request touches no call.
LEMMA RequestKeepsCalls ==
    ASSUME LoopTypes, JournalInv, Requested \/ UNCHANGED journal
    PROVE  journal'.tools = journal.tools
<1>1. CASE Requested
  <2>1. PICK x \in BOOLEAN : (journal.checkpoint = "awaited" => x) /\ journal' = J!ProviderRequested(journal, turns, x)
    BY <1>1 DEF Requested
  <2>2. J!ProviderRequested(journal, turns, x).tools = journal.tools
    BY <1>1, <2>1, TakesRequest, Zenon DEF Requested
  <2> QED BY <2>1, <2>2
<1> QED BY <1>1

\* A request is a new turn in flight.
LEMMA RequestedTurns ==
    ASSUME LoopTypes, JournalInv, Requested
    PROVE  TurnsInv'
<1>1. PICK x \in BOOLEAN : (journal.checkpoint = "awaited" => x) /\ journal' = J!ProviderRequested(journal, turns, x)
  BY DEF Requested
<1>2. /\ ~journal'.broken /\ journal'.seen = 0..turns /\ journal'.inFlight = {turns}
      /\ journal'.completed = journal.completed /\ journal'.failed = journal.failed
      /\ journal'.finals = journal.finals
  <2> DEFINE k == J!ProviderRequested(journal, turns, x)
  <2>1. /\ ~k.broken /\ k.seen = 0..turns /\ k.inFlight = {turns}
        /\ k.completed = journal.completed /\ k.failed = journal.failed
        /\ k.finals = journal.finals
    BY <1>1, TakesRequest, Zenon DEF Requested
  <2> HIDE DEF k
  <2> QED BY <1>1, <2>1 DEF k
<1>3. turns \in Nat /\ turns' = turns + 1 /\ turns' - 1 = turns /\ TurnsInv
  BY DEF LoopTypes, CountTypes, Requested, JournalInv
<1>4. journal.finals = 0
  BY <1>3 DEF TurnsInv, Requested
<1>5. outcome' = outcome /\ usage' = usage /\ pc' \in {"await", "criticAwait"}
  BY DEF Requested
<1>6. /\ journal'.completed <= usage'.completed /\ (journal'.completed = usage'.completed \/ Artifact')
      /\ journal'.failed <= usage'.failed /\ (journal'.failed = usage'.failed \/ Artifact')
  BY <1>2, <1>3, <1>5 DEF TurnsInv, Artifact
<1>7. outcome'.status = "Success" => journal'.finals = 1
  BY <1>2, <1>3, <1>5 DEF TurnsInv
<1> QED BY <1>2, <1>3, <1>4, <1>5, <1>6, <1>7 DEF TurnsInv

\* The turns of the journal follow those of the loop.
LEMMA TurnsNext ==
    SoundAppends /\ LoopTypes /\ BatchInv /\ CandidateInv /\ JournalInv /\ [Next]_vars => TurnsInv'
<1> SUFFICES ASSUME SoundAppends, LoopTypes, BatchInv, CandidateInv, JournalInv, [Next]_vars PROVE TurnsInv'
  OBVIOUS
<1> USE DEF clock, policy, counts, ending
<1>0. /\ IsOutcome(outcome) /\ turns \in Nat /\ journal.completed \in Nat /\ journal.failed \in Nat
      /\ usage.completed \in Nat /\ usage.failed \in Nat /\ TurnsInv /\ ~journal.broken
  BY DEF LoopTypes, ControlTypes, CountTypes, IsUsage, JournalTypes, Count, JournalInv, TurnsInv
<1>a. pc \notin {"finalize", "ended"} => outcome.status = "none"
  BY DEF CandidateInv, Undecided, Ending
<1>1. CASE Tick
  <2>1. QuietTurn
    BY <1>1, <1>0, <1>a, FailMoves, FinalizeMoves DEF QuietTurn, SameTurns, Waiting, Tick
  <2> QED BY <1>0, <2>1, QuietTurns
<1>2. CASE RequestCancel
  <2>1. QuietTurn
    BY <1>2, <1>0, <1>a, FailMoves, FinalizeMoves DEF QuietTurn, SameTurns, Waiting, RequestCancel
  <2> QED BY <1>0, <2>1, QuietTurns
<1>3. CASE TopCancelled
  <2>1. QuietTurn
    BY <1>3, <1>0, <1>a, FailMoves, FinalizeMoves DEF QuietTurn, SameTurns, Waiting, TopCancelled, Cancel, Goto
  <2> QED BY <1>0, <2>1, QuietTurns
<1>4. CASE TopTurnsSpent
  <2>1. QuietTurn
    BY <1>4, <1>0, <1>a, FailMoves, FinalizeMoves DEF QuietTurn, SameTurns, Waiting, TopTurnsSpent, FallbackOr,
     Goto
  <2> QED BY <1>0, <2>1, QuietTurns
<1>5. CASE Top
  <2>1. QuietTurn
    BY <1>5, <1>0, <1>a, FailMoves, FinalizeMoves DEF QuietTurn, SameTurns, Waiting, Top, TopSplit,
     HistoryRefused, Goto
  <2> QED BY <1>0, <2>1, QuietTurns
<1>6. CASE Checkpoint
  <2>1. pc = "checkpoint" /\ UNCHANGED <<turns, usage>>
    BY <1>6 DEF Checkpoint
  <2>2. \/ UNCHANGED journal /\ pc' \in {"request", "finalize"} /\ outcome'.status # "Success"
        \/ /\ ~flags.checkpoint /\ journal' = J!ContextCheckpointed(journal, turns, calls)
           /\ pc' = "request" /\ UNCHANGED outcome
    BY <1>6, <1>0, <1>a, FailMoves DEF Checkpoint, HistoryRefused, Refused, ArtifactFailure, Goto, ShouldCheckpoint
  <2>3. QuietTurn
    BY <1>0, <1>a, <2>1, <2>2, TakesCheckpoint DEF QuietTurn, SameTurns, Waiting, TurnsInv
  <2> QED BY <1>0, <2>3, QuietTurns
<1>7. CASE RequestClosed
  <2>1. QuietTurn
    BY <1>7, <1>0, <1>a, FailMoves, FinalizeMoves DEF QuietTurn, SameTurns, Waiting, RequestClosed, FallbackOr,
     Goto
  <2> QED BY <1>0, <2>1, QuietTurns
<1>8. CASE SendRequest
  <2>1. pc = "request" /\ UNCHANGED usage
    BY <1>8 DEF SendRequest
  <2>2. (UNCHANGED <<journal, turns>> /\ ArtifactFailure) \/ Requested
    BY <1>8, SendMoves
  <2>3. CASE UNCHANGED <<journal, turns>> /\ ArtifactFailure
    <3>1. QuietTurn
      BY <1>0, <1>a, <2>1, <2>3, FailMoves DEF QuietTurn, SameTurns, Waiting, ArtifactFailure
    <3> QED BY <1>0, <3>1, QuietTurns
  <2> QED BY <2>2, <2>3, RequestedTurns
<1>9. CASE RequestRefused
  <2>1. QuietTurn
    BY <1>9, <1>0, <1>a, FailMoves, FinalizeMoves DEF QuietTurn, SameTurns, Waiting, RequestRefused, FallbackOr,
     Goto
  <2> QED BY <1>0, <2>1, QuietTurns
<1>10. CASE BudgetNoticeRefused
  <2>1. QuietTurn
    BY <1>10, <1>0, <1>a, FailMoves, FinalizeMoves DEF QuietTurn, SameTurns, Waiting, BudgetNoticeRefused,
     HistoryRefused, Goto
  <2> QED BY <1>0, <2>1, QuietTurns
<1>11. CASE AwaitCancelled
  <2>1. QuietTurn
    BY <1>11, <1>0, <1>a, FailMoves, FinalizeMoves DEF QuietTurn, SameTurns, Waiting, AwaitCancelled, Cancel,
     Goto
  <2> QED BY <1>0, <2>1, QuietTurns
<1>12. CASE ProviderError \/ ProviderTimeout \/ ResponseCallLimit \/ RunCallLimit \/ FinalResponse
            \/ TextResponse \/ EmptyResponse \/ ToolResponse \/ CriticError \/ CriticTimeout \/ CriticResponse
  <2>1. Answered /\ pc \in {"await", "criticAwait"} /\ UNCHANGED <<turns, calls>>
    <3>1. outcome.status = "none"
      BY <1>12, <1>a DEF ProviderError, ProviderTimeout, ResponseCallLimit, RunCallLimit, FinalResponse,
          TextResponse, EmptyResponse,
         ToolResponse, CriticError, CriticTimeout, CriticResponse
    <3> QED BY <1>12, <1>0, <3>1, AnswersSettle
  <2> QED BY <2>1, SettledTurns
<1>13. CASE CriticSend
  <2>1. pc = "criticRequest" /\ UNCHANGED usage /\ journal.checkpoint # "awaited"
    BY <1>13 DEF CriticSend, JournalInv, CheckpointInv
  <2>2. \/ UNCHANGED <<journal, turns>> /\ (ArtifactFailure \/ FinalizeWith("candidate"))
        \/ Requested
    BY <1>13, CriticMoves
  <2>3. CASE UNCHANGED <<journal, turns>> /\ (ArtifactFailure \/ FinalizeWith("candidate"))
    <3>1. QuietTurn
      BY <1>0, <1>a, <2>1, <2>3, FailMoves, FinalizeMoves DEF QuietTurn, SameTurns, Waiting, ArtifactFailure
    <3> QED BY <1>0, <3>1, QuietTurns
  <2> QED BY <2>2, <2>3, RequestedTurns
<1>14. CASE Admit
  <2>1. QuietTurn
    BY <1>14, <1>0, <1>a, FailMoves, FinalizeMoves DEF QuietTurn, SameTurns, Waiting, Admit, Goto
  <2> QED BY <1>0, <2>1, QuietTurns
<1>15. CASE Register
  <2>1. pc = "register" /\ UNCHANGED <<turns, usage>>
    BY <1>15 DEF Register
  <2>2. /\ journal' = journal \/ journal' = J!ToolRegistered(journal, CallId)
        /\ pc' \in {"commit", "register", "dispatch", "finalize"} /\ outcome'.status # "Success"
    BY <1>15, <1>0, <1>a, <2>1, FailMoves DEF Register, Refused, Stage, Goto, ArtifactFailure
  <2>3. /\ CallId \in Call /\ journal \in JournalTypes /\ ~journal.broken /\ journal.checkpoint # "awaited"
        /\ journal.tools[CallId] = "none"
    BY <2>1, TakesCall
  <2>4. SameTurns
    <3> DEFINE k == J!ToolRegistered(journal, CallId)
    <3>1. /\ ~k.broken /\ k.seen = journal.seen /\ k.inFlight = journal.inFlight
          /\ k.completed = journal.completed /\ k.failed = journal.failed /\ k.finals = journal.finals
      BY <2>3, RegisteredFields, Zenon
    <3>2. journal' = journal \/ journal' = k
      BY <2>2
    <3> HIDE DEF k
    <3> QED BY <2>1, <2>3, <3>1, <3>2 DEF SameTurns
  <2>5. QuietTurn
    BY <1>a, <2>1, <2>2, <2>4 DEF QuietTurn, Waiting
  <2> QED BY <1>0, <2>5, QuietTurns
<1>16. CASE Dispatch
  <2>1. pc = "dispatch" /\ UNCHANGED <<turns, usage>>
    BY <1>16 DEF Dispatch
  <2>2. /\ journal' = journal \/ journal' = J!ToolDispatched(journal, CallId)
        /\ pc' \in {"commit", "register", "tool", "finalize"} /\ outcome'.status # "Success"
    BY <1>16, <1>0, <1>a, <2>1, FailMoves DEF Dispatch, Refused, Stage, Goto, ArtifactFailure
  <2>3. /\ CallId \in Call /\ journal \in JournalTypes /\ ~journal.broken /\ journal.checkpoint # "awaited"
        /\ journal.tools[CallId] = "inFlight"
    BY <2>1, TakesCall
  <2>4. SameTurns
    <3> DEFINE k == J!ToolDispatched(journal, CallId)
    <3>1. /\ ~k.broken /\ k.seen = journal.seen /\ k.inFlight = journal.inFlight
          /\ k.completed = journal.completed /\ k.failed = journal.failed /\ k.finals = journal.finals
      BY <2>3, DispatchedFields, Zenon
    <3>2. journal' = journal \/ journal' = k
      BY <2>2
    <3> HIDE DEF k
    <3> QED BY <2>1, <2>3, <3>1, <3>2 DEF SameTurns
  <2>5. QuietTurn
    BY <1>a, <2>1, <2>2, <2>4 DEF QuietTurn, Waiting
  <2> QED BY <1>0, <2>5, QuietTurns
<1>17. CASE ToolCancelled \/ ToolTimeout \/ ToolError
  <2>1. pc = "tool" /\ UNCHANGED <<turns, usage>>
    BY <1>17 DEF ToolCancelled, ToolTimeout, ToolError, ToolFailure
  <2>2. (journal' = journal \/ journal' = J!ToolFailed(journal, CallId)) /\ pc' = "finalize" /\ outcome'.status # "Success"
    BY <1>17, <1>0, FailMoves DEF ToolCancelled, ToolTimeout, ToolError, ToolFailure, Refused, ArtifactFailure
  <2>3. /\ CallId \in Call /\ journal \in JournalTypes /\ ~journal.broken /\ journal.checkpoint # "awaited"
        /\ journal.tools[CallId] \in {"inFlight", "dispatched"}
    BY <2>1, TakesCall
  <2>4. SameTurns
    <3> DEFINE k == J!ToolFailed(journal, CallId)
    <3>1. /\ ~k.broken /\ k.seen = journal.seen /\ k.inFlight = journal.inFlight
          /\ k.completed = journal.completed /\ k.failed = journal.failed /\ k.finals = journal.finals
      BY <2>3, ToolFailedFields, Zenon
    <3>2. journal' = journal \/ journal' = k
      BY <2>2
    <3> HIDE DEF k
    <3> QED BY <2>1, <2>3, <3>1, <3>2 DEF SameTurns
  <2>5. QuietTurn
    BY <1>a, <2>1, <2>2, <2>4 DEF QuietTurn, Waiting
  <2> QED BY <1>0, <2>5, QuietTurns
<1>18. CASE ToolResult
  <2>1. QuietTurn
    BY <1>18, <1>0, <1>a, FailMoves, FinalizeMoves DEF QuietTurn, SameTurns, Waiting, ToolResult, Stage, Goto
  <2> QED BY <1>0, <2>1, QuietTurns
<1>19. CASE BatchRefused
  <2>1. QuietTurn
    BY <1>19, <1>0, <1>a, FailMoves, FinalizeMoves DEF QuietTurn, SameTurns, Waiting, BatchRefused, Goto
  <2> QED BY <1>0, <2>1, QuietTurns
<1>20. CASE CommitLate
  <2>1. QuietTurn
    BY <1>20, <1>0, <1>a, FailMoves, FinalizeMoves DEF QuietTurn, SameTurns, Waiting, CommitLate, Goto,
     BatchPrepared
  <2> QED BY <1>0, <2>1, QuietTurns
<1>21. CASE CommitRefused
  <2>1. QuietTurn
    BY <1>21, <1>0, <1>a, FailMoves, FinalizeMoves DEF QuietTurn, SameTurns, Waiting, CommitRefused, Refused,
     Goto, CommitOpen, BatchPrepared
  <2> QED BY <1>0, <2>1, QuietTurns
<1>22. CASE Commit
  <2>1. pc = "commit" /\ UNCHANGED <<turns, usage>> /\ journal' = J!ToolsCompleted(journal, BatchIds)
    BY <1>22 DEF Commit, CommitOpen, BatchPrepared
  <2>2. pc' \in {"top", "finalize"} /\ outcome'.status # "Success"
    BY <1>22, <1>0, <1>a, <2>1, FailMoves DEF Commit, HistoryRefused, Goto
  <2>3. QuietTurn
    BY <1>0, <1>a, <2>1, <2>2, TakesCommit DEF QuietTurn, SameTurns, Waiting
  <2> QED BY <1>0, <2>3, QuietTurns
<1>23. CASE WriteFinal
  <2>1. pc = "final" /\ UNCHANGED <<turns, usage>>
    BY <1>23 DEF WriteFinal
  <2>2. \/ UNCHANGED journal /\ pc' = "finalize" /\ outcome'.status # "Success"
        \/ journal' = J!AssistantFinal(journal) /\ pc' = "finalize"
    BY <1>23, <1>0, FailMoves DEF WriteFinal, Refused, ArtifactFailure, Goto
  <2>3. journal \in JournalTypes /\ journal.finals = 0 /\ journal.checkpoint # "awaited" /\ outcome.status = "none"
    BY <1>0, <1>a, <2>1 DEF LoopTypes, JournalInv, CheckpointInv, TurnsInv
  <2>4. CASE UNCHANGED journal /\ pc' = "finalize" /\ outcome'.status # "Success"
    <3>1. QuietTurn
      BY <1>0, <2>1, <2>4 DEF QuietTurn, SameTurns, Waiting
    <3> QED BY <1>0, <3>1, QuietTurns
  <2>5. CASE journal' = J!AssistantFinal(journal) /\ pc' = "finalize"
    <3>1. /\ ~journal'.broken /\ journal'.seen = journal.seen /\ journal'.inFlight = journal.inFlight
          /\ journal'.completed = journal.completed /\ journal'.failed = journal.failed /\ journal'.finals = 1
      BY <1>0, <2>3, <2>5, FinalFields
    <3>2. journal.completed = usage.completed /\ journal.failed = usage.failed /\ journal.seen = 0..(turns - 1)
      BY <1>0, <2>3 DEF TurnsInv, Artifact
    <3>3. /\ journal'.completed <= usage'.completed /\ journal'.completed = usage'.completed
          /\ journal'.failed <= usage'.failed /\ journal'.failed = usage'.failed
      BY <1>0, <2>1, <3>1, <3>2
    <3> QED BY <2>1, <2>5, <3>1, <3>2, <3>3 DEF TurnsInv
  <2> QED BY <2>2, <2>4, <2>5
<1>24. CASE Finalize
  <2>1. QuietTurn
    BY <1>24, <1>0, <1>a, FailMoves, FinalizeMoves DEF QuietTurn, SameTurns, Waiting, Finalize, Goto
  <2> QED BY <1>0, <2>1, QuietTurns
<1>25. CASE Done
  <2>1. QuietTurn
    BY <1>25, <1>0, <1>a, FailMoves, FinalizeMoves DEF QuietTurn, SameTurns, Waiting, Done, vars
  <2> QED BY <1>0, <2>1, QuietTurns
<1>26. CASE UNCHANGED vars
  <2>1. QuietTurn
    BY <1>0, <1>26 DEF vars, QuietTurn, SameTurns
  <2> QED BY <1>0, <2>1, QuietTurns
<1> QED
  BY <1>1, <1>2, <1>3, <1>4, <1>5, <1>6, <1>7, <1>8, <1>9, <1>10, <1>11, <1>12, <1>13, <1>14, <1>15, <1>16,
     <1>17, <1>18, <1>19, <1>20, <1>21, <1>22, <1>23, <1>24, <1>25, <1>26 DEF Next, Answer, Step


\* Where the loop is decides what it may do: at a request, send it, close or
\* refuse it; at the end, nothing.
AtRequest == Tick \/ RequestCancel \/ RequestClosed \/ SendRequest \/ RequestRefused \/ BudgetNoticeRefused \/ UNCHANGED vars

\* What the loop may do at a request and at the end.
LEMMA StepsAt ==
    ASSUME [Next]_vars
    PROVE  /\ pc = "request" => AtRequest
           /\ pc = "ended" => UNCHANGED vars
<1> USE DEF AtRequest
<1>1. CASE Tick \/ RequestCancel \/ UNCHANGED vars \/ Done
  BY <1>1 DEF Tick, RequestCancel, Done
<1>2. CASE TopCancelled \/ TopTurnsSpent \/ Top \/ Checkpoint \/ RequestClosed \/ SendRequest \/ RequestRefused
           \/ BudgetNoticeRefused
  BY <1>2 DEF TopCancelled, TopTurnsSpent, Top, Checkpoint, RequestClosed, SendRequest, RequestRefused,
      BudgetNoticeRefused
<1>3. CASE AwaitCancelled \/ ProviderError \/ ProviderTimeout \/ ResponseCallLimit \/ RunCallLimit \/ FinalResponse
           \/ TextResponse \/ EmptyResponse
  BY <1>3 DEF AwaitCancelled, ProviderError, ProviderTimeout, ResponseCallLimit, RunCallLimit, FinalResponse,
     TextResponse, EmptyResponse
<1>4. CASE ToolResponse \/ CriticSend \/ CriticError \/ CriticTimeout \/ CriticResponse \/ Admit \/ Register
           \/ Dispatch
  BY <1>4 DEF ToolResponse, CriticSend, CriticError, CriticTimeout, CriticResponse, Admit, Register, Dispatch
<1>5. CASE ToolCancelled \/ ToolTimeout \/ ToolError \/ ToolResult \/ BatchRefused \/ CommitLate \/ CommitRefused
           \/ Commit \/ WriteFinal \/ Finalize
  BY <1>5 DEF ToolCancelled, ToolTimeout, ToolError, ToolResult, BatchRefused, CommitLate, CommitRefused, CommitOpen,
     BatchPrepared, Commit, WriteFinal, Finalize
<1> QED BY <1>1, <1>2, <1>3, <1>4, <1>5 DEF Next, Answer, Step

\* The clock does not run backwards, and the two flags of the checkpoint are
\* set by nothing else.
LEMMA ClockAndFlags ==
    ASSUME LoopTypes, [Next]_vars
    PROVE  /\ now \in Nat /\ now' \in Nat /\ now' >= now
           /\ flags'.trigger = flags.trigger
           /\ Checkpoint \/ flags'.checkpoint = flags.checkpoint
<1>1. Framed /\ flags \in FlagTypes /\ now \in Nat
  BY FramesHold, Cutoffs DEF LoopTypes, PolicyTypes, ControlTypes
<1>2. now' \in Nat /\ now' >= now
  <2>1. CASE Tick
    BY <1>1, <2>1, Cutoffs DEF Tick
  <2> QED BY <1>1, <2>1 DEF Framed
<1>3. flags'.trigger = flags.trigger /\ (Checkpoint \/ flags'.checkpoint = flags.checkpoint)
  <2>1. CASE Top \/ SendRequest \/ RequestRefused
    BY <1>1, <2>1 DEF Top, TopSplit, SendRequest, RequestRefused, FlagTypes
  <2>2. CASE ResponseCallLimit \/ RunCallLimit
    BY <1>1, <2>2 DEF ResponseCallLimit, RunCallLimit, CallLimit, FailedTurn, EndOnFailedTurn, FlagTypes
  <2>3. CASE TextResponse
    BY <1>1, <2>3 DEF TextResponse, CompletedTurn, OpenReview, FlagTypes
  <2>4. CASE Checkpoint
    BY <1>1, <2>4 DEF Checkpoint, FlagTypes
  <2>5. CASE UNCHANGED flags
    BY <2>5
  <2> QED BY <1>1, <2>1, <2>2, <2>3, <2>4, <2>5 DEF Framed
<1> QED BY <1>1, <1>2, <1>3

\* Without a checkpoint that waits only a checkpoint changes the mark.
LEMMA MarkKept ==
    ASSUME LoopTypes, [Next]_vars, journal.checkpoint # "awaited", ~Checkpoint
    PROVE  journal'.checkpoint = journal.checkpoint
<1>1. ASSUME NEW j \in JournalTypes, NEW n, NEW x, NEW y, j.checkpoint # "awaited"
      PROVE  /\ J!ProviderRequested(j, n, x).checkpoint = j.checkpoint
             /\ J!ProviderCompleted(j, n).checkpoint = j.checkpoint
             /\ J!ProviderFailed(j, n).checkpoint = j.checkpoint
             /\ J!ToolRegistered(j, x).checkpoint = j.checkpoint
             /\ J!ToolDispatched(j, x).checkpoint = j.checkpoint
             /\ J!ToolFailed(j, x).checkpoint = j.checkpoint
             /\ J!ToolsCompleted(j, x).checkpoint = j.checkpoint
             /\ J!AssistantFinal(j).checkpoint = j.checkpoint
  <2> USE <1>1 DEF JournalTypes, J!Guarded, J!Reject
  <2>1. J!ProviderRequested(j, n, x).checkpoint = j.checkpoint
    BY DEF J!ProviderRequested
  <2>2. J!ProviderCompleted(j, n).checkpoint = j.checkpoint
    BY DEF J!ProviderCompleted
  <2>3. J!ProviderFailed(j, n).checkpoint = j.checkpoint
    BY DEF J!ProviderFailed
  <2>4. J!ToolRegistered(j, x).checkpoint = j.checkpoint
    BY DEF J!ToolRegistered
  <2>5. J!ToolDispatched(j, x).checkpoint = j.checkpoint
    BY DEF J!ToolDispatched
  <2>6. J!ToolFailed(j, x).checkpoint = j.checkpoint
    BY DEF J!ToolFailed
  <2>7. J!ToolsCompleted(j, x).checkpoint = j.checkpoint
    BY DEF J!ToolsCompleted
  <2>8. J!AssistantFinal(j).checkpoint = j.checkpoint
    BY DEF J!AssistantFinal
  <2> QED BY <2>1, <2>2, <2>3, <2>4, <2>5, <2>6, <2>7, <2>8
<1>2. journal \in JournalTypes /\ journal.checkpoint # "awaited"
  BY DEF LoopTypes
<1>3. Framed
  BY FramesHold
<1>4. CASE \E exact \in BOOLEAN : journal' = J!ProviderRequested(journal, turns, exact)
  BY <1>1, <1>2, <1>4
<1>5. CASE journal' = J!ProviderCompleted(journal, turns - 1) \/ journal' = J!ProviderFailed(journal, turns - 1)
  BY <1>1, <1>2, <1>5
<1>6. CASE \/ journal' = J!ToolRegistered(journal, CallId) \/ journal' = J!ToolDispatched(journal, CallId)
           \/ journal' = J!ToolFailed(journal, CallId) \/ journal' = J!ToolsCompleted(journal, BatchIds)
           \/ journal' = J!AssistantFinal(journal)
  BY <1>1, <1>2, <1>6
<1>7. CASE UNCHANGED journal
  BY <1>7
<1> QED BY <1>3, <1>4, <1>5, <1>6, <1>7 DEF Framed

\* A checkpoint is written only with time left for a whole review, so before
\* the soft finish, and the next event is its request.
LEMMA CheckpointNext ==
    SoundAppends /\ LoopTypes /\ CandidateInv /\ JournalInv /\ [Next]_vars => CheckpointInv'
<1> SUFFICES ASSUME SoundAppends, LoopTypes, CandidateInv, JournalInv, [Next]_vars PROVE CheckpointInv'
  OBVIOUS
<1>0. CheckpointInv /\ SoftFinishCutoff \in Int /\ mode \in Modes /\ mode' = mode /\ journal \in JournalTypes
      /\ IsOutcome(outcome) /\ flags \in FlagTypes
  BY Cutoffs, FramesHold DEF JournalInv, LoopTypes, ControlTypes, PolicyTypes, Framed
<1>1. ~flags'.trigger => now' >= SoftFinishCutoff
  BY <1>0, ClockAndFlags DEF CheckpointInv
<1>2. CASE journal.checkpoint # "awaited" /\ ~Checkpoint
  <2>1. journal'.checkpoint = journal.checkpoint /\ flags'.checkpoint = flags.checkpoint
    BY <1>2, MarkKept, ClockAndFlags
  <2> QED BY <1>0, <1>1, <1>2, <2>1 DEF CheckpointInv
<1>3. CASE Checkpoint
  <2>1. pc = "checkpoint" /\ journal.checkpoint # "awaited" /\ phase' = phase
    BY <1>0, <1>3 DEF Checkpoint, CheckpointInv
  <2>2. \/ UNCHANGED <<journal, flags>>
        \/ /\ CheckpointOpen /\ ShouldCheckpoint(mode.policy, now, turns, flags.checkpoint, TRUE)
           /\ journal' = J!ContextCheckpointed(journal, turns, calls)
           /\ hist' = "checkpoint" /\ flags' = [flags EXCEPT !.checkpoint = TRUE] /\ pc' = "request"
    BY <1>3 DEF Checkpoint, Goto, Refused, ShouldCheckpoint
  <2>3. CASE UNCHANGED <<journal, flags>>
    BY <1>0, <1>1, <2>1, <2>3 DEF CheckpointInv
  <2>4. CASE /\ CheckpointOpen /\ ShouldCheckpoint(mode.policy, now, turns, flags.checkpoint, TRUE)
             /\ journal' = J!ContextCheckpointed(journal, turns, calls)
             /\ hist' = "checkpoint" /\ flags' = [flags EXCEPT !.checkpoint = TRUE] /\ pc' = "request"
    <3>1. phase = "ActionOpen" /\ mode.policy = "CheckpointV4" /\ ~flags.checkpoint
          /\ EnoughTime(now, ReviewReserve(mode.policy) + CheckpointReserve)
      BY <2>4 DEF CheckpointOpen, ShouldCheckpoint
    <3>2. journal'.checkpoint = "awaited"
      BY <2>1, <2>4, <3>1, TakesCheckpoint
    <3>3. flags'.checkpoint /\ flags'.trigger = flags.trigger
      BY <1>0, <2>4 DEF FlagTypes
    <3>4. flags.trigger
      <4>1. LastSend - now > 3 * FinalReserve + 2 * ToolReserve + FinalReserve + CheckpointReserve
        BY <3>1 DEF EnoughTime, ReviewReserve, UsesFreshContext
      <4>2. now \in Nat /\ CheckpointReserve \in Nat
        BY ClockAndFlags, ReviewAssumption
      <4>3. now < SoftFinishCutoff
        BY <4>1, <4>2, Cutoffs DEF SoftFinishCutoff
      <4> QED BY <1>0, <4>2, <4>3 DEF CheckpointInv
    <3> QED BY <1>0, <1>1, <2>1, <2>4, <3>1, <3>2, <3>3, <3>4 DEF CheckpointInv
  <2> QED BY <2>2, <2>3, <2>4
<1>4. CASE journal.checkpoint = "awaited"
  <2>1. /\ pc = "request" /\ hist = "checkpoint" /\ mode.policy = "CheckpointV4" /\ phase = "ActionOpen"
        /\ flags.trigger /\ flags.checkpoint
    BY <1>0, <1>4 DEF CheckpointInv
  <2>2. mode.split
    BY <1>0, <2>1, LoopAssumption
  <2>3. AtRequest
    BY <2>1, StepsAt
  <2>4. ~RequestClosed /\ ~RequestRefused /\ ~BudgetNoticeRefused
    BY <2>1, <2>2 DEF RequestClosed, RequestRefused, BudgetNoticeRefused, BudgetNoticeDue
  <2>5. CASE Tick \/ RequestCancel \/ UNCHANGED vars
    <3>1. UNCHANGED <<pc, hist, phase, journal, flags>>
      BY <2>5 DEF Tick, RequestCancel, vars, policy, counts, ending
    <3> QED BY <1>0, <1>1, <2>1, <3>1 DEF CheckpointInv
  <2>6. CASE SendRequest
    <3>1. ~Refused("provider.requested") /\ ~BudgetNoticeDue
      BY <2>1 DEF Refused, SoundAppends, BudgetNoticeDue
    <3>2. journal' = J!ProviderRequested(journal, turns, hist = "checkpoint")
      BY <2>6, <3>1 DEF SendRequest
    <3>3. journal' = J!ProviderRequested(journal, turns, TRUE)
      BY <2>1, <3>2
    <3>4. J!ProviderRequested(journal, turns, TRUE).checkpoint = "bound"
      BY <1>4, <2>1, TakesRequest
    <3>5. journal'.checkpoint = "bound"
      BY <3>3, <3>4
    <3>6. flags'.checkpoint
      BY <2>1, <2>6, ClockAndFlags DEF SendRequest, Checkpoint
    <3> QED BY <1>1, <3>5, <3>6 DEF CheckpointInv
  <2> QED BY <2>3, <2>4, <2>5, <2>6 DEF AtRequest
<1> QED BY <1>2, <1>3, <1>4

\* A step that leaves the calls as they are.
Elsewhere == Outside \ {"admit"}

QuietCalls ==
    /\ journal'.tools = journal.tools /\ UNCHANGED calls
    /\ \/ UNCHANGED <<outcome, batch>> /\ UNCHANGED pc
       \/ UNCHANGED outcome /\ pc' = "ended"
       \/ pc \notin {"finalize", "ended"} /\ pc' = "finalize" /\ outcome'.status # "Success"
       \/ pc \in Elsewhere /\ pc' \in Elsewhere \cup {"final"} /\ outcome'.status # "Success"

\* Such a step keeps the invariant of the calls.
LEMMA CallsQuiet ==
    ASSUME CandidateInv, CallsInv, QuietCalls
    PROVE  CallsInv'
<1>1. pc \notin {"finalize", "ended"} => outcome.status = "none"
  BY DEF CandidateInv, Undecided, Ending
<1>2. journal'.tools = journal.tools /\ calls' = calls
  BY DEF QuietCalls
<1>3. UpTo(calls)' <=> UpTo(calls)
  BY <1>2 DEF UpTo
<1>4. UpTo(calls - 1)' <=> UpTo(calls - 1)
  BY <1>2 DEF UpTo
<1>5. Artifact => Artifact'
  BY <1>1 DEF Artifact, QuietCalls, Elsewhere, Outside
<1>6. CASE UNCHANGED <<outcome, batch>> /\ UNCHANGED pc
  BY <1>2, <1>3, <1>4, <1>5, <1>6 DEF CallsInv, UpTo
<1>7. CASE \/ UNCHANGED outcome /\ pc' = "ended"
           \/ pc \notin {"finalize", "ended"} /\ pc' = "finalize" /\ outcome'.status # "Success"
  <2>1. pc' \notin Outside \cup {"final"} /\ pc' \notin InBatch \cup {"admit"} /\ pc' # "dispatch"
    BY <1>7 DEF Outside, InBatch
  <2>2. outcome'.status = "Success" => outcome.status = "Success"
    BY <1>7
  <2> QED BY <1>2, <1>3, <1>4, <1>5, <2>1, <2>2 DEF CallsInv
<1>8. CASE pc \in Elsewhere /\ pc' \in Elsewhere \cup {"final"} /\ outcome'.status # "Success"
  <2>1. pc \in Outside /\ pc' \notin InBatch \cup {"admit"} /\ pc' # "dispatch"
    BY <1>8 DEF Elsewhere, Outside, InBatch
  <2> QED BY <1>2, <1>3, <1>4, <1>5, <1>8, <2>1 DEF CallsInv
<1> QED BY <1>6, <1>7, <1>8 DEF QuietCalls

\* With the run undecided the journal has exactly the calls of the loop.
LEMMA OpenCalls ==
    ASSUME LoopTypes, CandidateInv, CallsInv, pc \notin {"finalize", "ended"}
    PROVE  UpTo(calls) /\ calls \in Nat /\ calls <= MaxCalls /\ MaxCalls \in Nat
<1>1. UpTo(calls)
  BY DEF CandidateInv, Undecided, Ending, CallsInv, Artifact
<1> QED BY <1>1, Cutoffs DEF UpTo, LoopTypes, CountTypes

\* A call of the batch under way changes its state.
LEMMA CallMoved ==
    ASSUME LoopTypes, CandidateInv, JournalInv, UNCHANGED calls, pc \in {"dispatch", "tool"},
           calls \in Call, NEW s \in {"dispatched", "failed"}, journal'.tools = [journal.tools EXCEPT ![calls] = s]
    PROVE  /\ UpTo(calls)'
           /\ \A c \in Call : c # calls => journal'.tools[c] = journal.tools[c]
           /\ journal'.tools[calls] = s
<1>1. CallsInv /\ journal.tools \in [Call -> {"none", "inFlight", "dispatched", "completed", "failed"}]
  BY DEF JournalInv, LoopTypes, JournalTypes
<1>2. UpTo(calls) /\ calls \in Nat /\ calls <= MaxCalls /\ MaxCalls \in Nat
  BY <1>1, OpenCalls
<1>3. /\ \A c \in Call : c # calls => journal'.tools[c] = journal.tools[c]
      /\ journal'.tools[calls] = s
  BY <1>1
<1>4. \A c \in Call : journal'.tools[c] = "none" <=> c > calls
  <2> SUFFICES ASSUME NEW c \in Call PROVE journal'.tools[c] = "none" <=> c > calls
    OBVIOUS
  <2>1. CASE c = calls
    <3>1. ~(c > calls)
      BY <1>2, <2>1
    <3> QED BY <1>3, <2>1, <3>1
  <2>2. CASE c # calls
    BY <1>2, <1>3, <2>2 DEF UpTo
  <2> QED BY <2>1, <2>2
<1>5. UpTo(calls)'
  BY <1>2, <1>4 DEF UpTo
<1> QED BY <1>3, <1>5

\* Once a call of the batch is staged the next one is due.
LEMMA CallStaged ==
    ASSUME LoopTypes, BatchInv, CandidateInv, JournalInv, UNCHANGED <<calls, journal>>, pc \in {"dispatch", "tool"},
           NEW ran \in BOOLEAN, Stage(ran), outcome'.status # "Success"
    PROVE  CallsInv'
<1>1. CallsInv /\ IsBatch(batch)
  BY DEF JournalInv, LoopTypes
<1>2. UpTo(calls) /\ calls \in Nat /\ MaxCalls \in Nat
  BY <1>1, OpenCalls
<1>3. /\ batch'.next = batch.next + 1 /\ batch'.effects = batch.effects
      /\ batch'.first = batch.first /\ batch'.repeat = batch.repeat
      /\ \/ pc' = "commit" /\ batch.next = Len(batch.effects)
         \/ pc' = "register" /\ batch.next # Len(batch.effects)
  BY <1>1, StageMoves
<1>4. batch.first \in Nat /\ batch.next \in Nat /\ Len(batch.effects) \in Nat
  BY <1>1, BatchFields
<1>5. /\ ~batch.repeat /\ batch.first >= 1 /\ calls = batch.first + batch.next - 1
      /\ batch.first + Len(batch.effects) - 1 <= MaxCalls
      /\ \A c \in 1..(batch.first - 1) : journal.tools[c] = "completed"
      /\ \A c \in batch.first..calls : journal.tools[c] \in {"inFlight", "dispatched"}
  BY <1>1 DEF CallsInv, InBatch
<1>6. calls = batch'.first + batch'.next - 2 /\ (pc' = "commit" => batch'.next = Len(batch'.effects) + 1)
  BY <1>3, <1>4, <1>5, SMTT(30)
<1>7. UpTo(calls)'
  BY <1>2 DEF UpTo
<1>8. pc' \notin Outside \cup {"final"} /\ pc' \notin {"dispatch", "tool"}
  BY <1>3 DEF Outside
<1> QED BY <1>3, <1>5, <1>6, <1>7, <1>8 DEF CallsInv

\* A registration takes the next call id.
LEMMA CallRegistered ==
    ASSUME LoopTypes, BatchInv, CandidateInv, JournalInv, pc = "register", calls' = calls + 1,
           journal' = J!ToolRegistered(journal, CallId), outcome'.status # "Success",
           Stage(FALSE) \/ (pc' = "dispatch" /\ UNCHANGED batch)
    PROVE  CallsInv'
<1>1. /\ CallsInv /\ IsBatch(batch)
      /\ journal.tools \in [Call -> {"none", "inFlight", "dispatched", "completed", "failed"}]
  BY DEF JournalInv, LoopTypes, JournalTypes
<1>2. UpTo(calls) /\ calls \in Nat /\ MaxCalls \in Nat
  BY <1>1, OpenCalls
<1>3. CallId = calls + 1 /\ CallId \in Call
  BY TakesCall
<1>4. journal'.tools = [journal.tools EXCEPT ![calls + 1] = "inFlight"]
  <2>1. /\ journal \in JournalTypes /\ ~journal.broken /\ journal.checkpoint # "awaited"
        /\ journal.tools[CallId] = "none"
    BY TakesCall
  <2>2. J!ToolRegistered(journal, CallId).tools = [journal.tools EXCEPT ![CallId] = "inFlight"]
    BY <1>3, <2>1, RegisteredFields, Zenon
  <2> QED BY <1>3, <2>2
<1>5. /\ \A c \in Call : c # calls + 1 => journal'.tools[c] = journal.tools[c]
      /\ journal'.tools[calls + 1] = "inFlight"
  BY <1>1, <1>3, <1>4
<1>6. UpTo(calls)'
  <2>1. \A c \in Call : journal'.tools[c] = "none" <=> c > calls + 1
    <3> SUFFICES ASSUME NEW c \in Call PROVE journal'.tools[c] = "none" <=> c > calls + 1
      OBVIOUS
    <3>1. CASE c = calls + 1
      <4>1. ~(c > calls + 1)
        BY <1>2, <3>1
      <4> QED BY <1>5, <3>1, <4>1
    <3>2. CASE c # calls + 1
      <4>1. journal'.tools[c] = "none" <=> c > calls
        BY <1>2, <1>5, <3>2 DEF UpTo
      <4>2. c > calls <=> c > calls + 1
        BY <1>2, <3>2 DEF Call
      <4> QED BY <4>1, <4>2
    <3> QED BY <3>1, <3>2
  <2>2. calls + 1 \in 0..MaxCalls
    BY <1>2, <1>3 DEF Call
  <2> QED BY <2>1, <2>2 DEF UpTo
<1>7. batch.first \in Nat /\ batch.next \in Nat /\ Len(batch.effects) \in Nat
  BY <1>1, BatchFields
<1>8. /\ ~batch.repeat /\ batch.first >= 1 /\ calls = batch.first + batch.next - 2
      /\ batch.first + Len(batch.effects) - 1 <= MaxCalls
      /\ \A c \in 1..(batch.first - 1) : journal.tools[c] = "completed"
      /\ \A c \in batch.first..calls : journal.tools[c] \in {"inFlight", "dispatched"}
  BY <1>1 DEF CallsInv, InBatch
<1>9. batch.next \in 1..Len(batch.effects)
  BY DEF BatchInv, InBatch
<1>10. \A c \in 1..(batch.first - 1) : journal'.tools[c] = "completed"
  <2>1. \A c \in 1..(batch.first - 1) : c \in Call /\ c # calls + 1
    BY <1>2, <1>7, <1>8, <1>9, SMTT(30) DEF Call
  <2> QED BY <1>5, <1>8, <2>1
<1>11. \A c \in batch.first..(calls + 1) : journal'.tools[c] \in {"inFlight", "dispatched"}
  <2> SUFFICES ASSUME NEW c \in batch.first..(calls + 1) PROVE journal'.tools[c] \in {"inFlight", "dispatched"}
    OBVIOUS
  <2>1. CASE c = calls + 1
    BY <1>5, <2>1
  <2>2. CASE c # calls + 1
    <3>1. c \in batch.first..calls /\ c \in Call
      BY <1>2, <1>3, <1>7, <1>8, <2>2 DEF Call
    <3> QED BY <1>5, <1>8, <2>2, <3>1
  <2> QED BY <2>1, <2>2
<1>12. CASE Stage(FALSE)
  <2>1. /\ batch'.next = batch.next + 1 /\ batch'.effects = batch.effects
        /\ batch'.first = batch.first /\ batch'.repeat = batch.repeat
        /\ \/ pc' = "commit" /\ batch.next = Len(batch.effects)
           \/ pc' = "register" /\ batch.next # Len(batch.effects)
    BY <1>1, <1>12, StageMoves
  <2>2. calls' = batch'.first + batch'.next - 2 /\ (pc' = "commit" => batch'.next = Len(batch'.effects) + 1)
    BY <1>2, <1>7, <1>8, <2>1, SMTT(30)
  <2>3. pc' \notin Outside \cup {"final"} /\ pc' \notin {"dispatch", "tool"}
    BY <2>1 DEF Outside
  <2> QED BY <1>6, <1>8, <1>10, <1>11, <2>1, <2>2, <2>3 DEF CallsInv
<1>13. CASE pc' = "dispatch" /\ UNCHANGED batch
  <2>1. calls' = batch'.first + batch'.next - 1
    BY <1>2, <1>7, <1>8, <1>13, SMTT(30)
  <2>2. pc' \notin Outside \cup {"final"}
    BY <1>13 DEF Outside
  <2> QED BY <1>5, <1>6, <1>8, <1>10, <1>11, <1>13, <2>1, <2>2 DEF CallsInv
<1> QED BY <1>12, <1>13

\* The calls of the journal follow those of the loop.
LEMMA CallsNext ==
    SoundAppends /\ LoopTypes /\ BatchInv /\ CandidateInv /\ JournalInv /\ [Next]_vars => CallsInv'
<1> SUFFICES ASSUME SoundAppends, LoopTypes, BatchInv, CandidateInv, JournalInv, [Next]_vars PROVE CallsInv'
  OBVIOUS
<1> USE DEF clock, policy, counts, ending
<1>0. IsOutcome(outcome) /\ CallsInv
  BY DEF LoopTypes, ControlTypes, JournalInv
<1>a. pc \notin {"finalize", "ended"} => outcome.status = "none"
  BY DEF CandidateInv, Undecided, Ending
<1>1. CASE Tick
  <2>1. QuietCalls
    BY <1>1, <1>0, <1>a, FailMoves, FinalizeMoves DEF QuietCalls, Elsewhere, Outside, Tick
  <2> QED BY <1>0, <2>1, CallsQuiet
<1>2. CASE RequestCancel
  <2>1. QuietCalls
    BY <1>2, <1>0, <1>a, FailMoves, FinalizeMoves DEF QuietCalls, Elsewhere, Outside, RequestCancel
  <2> QED BY <1>0, <2>1, CallsQuiet
<1>3. CASE TopCancelled
  <2>1. QuietCalls
    BY <1>3, <1>0, <1>a, FailMoves, FinalizeMoves DEF QuietCalls, Elsewhere, Outside, TopCancelled, Cancel, Goto
  <2> QED BY <1>0, <2>1, CallsQuiet
<1>4. CASE TopTurnsSpent
  <2>1. QuietCalls
    BY <1>4, <1>0, <1>a, FailMoves, FinalizeMoves DEF QuietCalls, Elsewhere, Outside, TopTurnsSpent, FallbackOr,
     Goto
  <2> QED BY <1>0, <2>1, CallsQuiet
<1>5. CASE Top
  <2>1. QuietCalls
    BY <1>5, <1>0, <1>a, FailMoves, FinalizeMoves DEF QuietCalls, Elsewhere, Outside, Top, TopSplit,
     HistoryRefused, Goto
  <2> QED BY <1>0, <2>1, CallsQuiet
<1>6. CASE Checkpoint
  <2>1. pc = "checkpoint" /\ UNCHANGED calls
    BY <1>6 DEF Checkpoint
  <2>2. \/ UNCHANGED journal /\ pc' \in {"request", "finalize"} /\ outcome'.status # "Success"
        \/ /\ ~flags.checkpoint /\ journal' = J!ContextCheckpointed(journal, turns, calls)
           /\ pc' = "request" /\ UNCHANGED outcome
    BY <1>6, <1>0, <1>a, FailMoves DEF Checkpoint, HistoryRefused, Refused, ArtifactFailure, Goto, ShouldCheckpoint
  <2>3. QuietCalls
    BY <1>0, <1>a, <2>1, <2>2, TakesCheckpoint DEF QuietCalls, Elsewhere, Outside
  <2> QED BY <1>0, <2>3, CallsQuiet
<1>7. CASE RequestClosed
  <2>1. QuietCalls
    BY <1>7, <1>0, <1>a, FailMoves, FinalizeMoves DEF QuietCalls, Elsewhere, Outside, RequestClosed, FallbackOr,
     Goto
  <2> QED BY <1>0, <2>1, CallsQuiet
<1>8. CASE SendRequest
  <2>1. pc = "request" /\ UNCHANGED calls /\ outcome.status = "none"
    BY <1>8, <1>a DEF SendRequest
  <2>2. \/ UNCHANGED journal /\ ArtifactFailure
        \/ Requested
    BY <1>8, SendMoves
  <2>3. journal'.tools = journal.tools
    BY <2>2, RequestKeepsCalls
  <2>4. outcome'.status # "Success" /\ pc' \in {"await", "criticAwait", "finalize"}
    BY <1>0, <2>1, <2>2, FailMoves DEF Requested, ArtifactFailure
  <2>5. QuietCalls
    BY <2>1, <2>3, <2>4 DEF QuietCalls, Elsewhere, Outside
  <2> QED BY <1>0, <2>5, CallsQuiet
<1>9. CASE RequestRefused
  <2>1. QuietCalls
    BY <1>9, <1>0, <1>a, FailMoves, FinalizeMoves DEF QuietCalls, Elsewhere, Outside, RequestRefused,
     FallbackOr, Goto
  <2> QED BY <1>0, <2>1, CallsQuiet
<1>10. CASE BudgetNoticeRefused
  <2>1. QuietCalls
    BY <1>10, <1>0, <1>a, FailMoves, FinalizeMoves DEF QuietCalls, Elsewhere, Outside, BudgetNoticeRefused,
     HistoryRefused, Goto
  <2> QED BY <1>0, <2>1, CallsQuiet
<1>11. CASE AwaitCancelled
  <2>1. QuietCalls
    BY <1>11, <1>0, <1>a, FailMoves, FinalizeMoves DEF QuietCalls, Elsewhere, Outside, AwaitCancelled, Cancel,
     Goto
  <2> QED BY <1>0, <2>1, CallsQuiet
<1>12. CASE ProviderError \/ ProviderTimeout \/ ResponseCallLimit \/ RunCallLimit \/ FinalResponse
            \/ TextResponse \/ EmptyResponse \/ CriticError \/ CriticTimeout \/ CriticResponse
  <2>1. Answered /\ pc \in {"await", "criticAwait"} /\ UNCHANGED <<turns, calls>> /\ outcome.status = "none"
    <3>1. outcome.status = "none"
      BY <1>12, <1>a DEF ProviderError, ProviderTimeout, ResponseCallLimit, RunCallLimit, FinalResponse, TextResponse,
         EmptyResponse, CriticError, CriticTimeout, CriticResponse
    <3> QED BY <1>12, <1>0, <3>1, AnswersSettle
  <2>2. journal'.tools = journal.tools
    <3> DEFINE k == J!ProviderCompleted(journal, turns - 1)
               f == J!ProviderFailed(journal, turns - 1)
    <3>1. k.tools = journal.tools /\ f.tools = journal.tools
      BY <2>1, SettlesTurn, Zenon
    <3>2. journal' \in {journal, k, f}
      BY <2>1 DEF Answered
    <3> HIDE DEF k, f
    <3> QED BY <3>1, <3>2
  <2>3. outcome'.status # "Success" /\ pc' \in {"final", "finalize", "top", "criticRequest", "admit"}
    BY <2>1 DEF Answered
  <2>4. pc' # "admit"
    BY <1>12, <1>0, <2>1, FailMoves, FinalizeMoves
       DEF ProviderError, ProviderTimeout, ResponseCallLimit, RunCallLimit, CallLimit, FinalResponse, TextResponse,
         EmptyResponse, CriticError, CriticTimeout, CriticResponse, CriticFailed, EndOnFailedTurn, FailedTurn,
         CompletedTurn, FallbackOr, OpenReview, HistoryRefused, Refused, ArtifactFailure, Goto
  <2>5. QuietCalls
    BY <2>1, <2>2, <2>3, <2>4 DEF QuietCalls, Elsewhere, Outside
  <2> QED BY <1>0, <2>5, CallsQuiet
<1>13. CASE ToolResponse
  <2>1. pc = "await" /\ UNCHANGED calls /\ outcome.status = "none"
    BY <1>13, <1>a DEF ToolResponse
  <2>2. PICK e \in Batches, r \in BOOLEAN :
            /\ calls + Len(e) <= MaxCalls /\ ~r
            /\ \/ /\ journal' = J!ProviderCompleted(journal, turns - 1)
                  /\ batch' = [NoBatch EXCEPT !.effects = e, !.repeat = r, !.first = calls + 1]
                  /\ pc' = "admit" /\ UNCHANGED outcome
               \/ UNCHANGED journal /\ ArtifactFailure
    BY <1>13 DEF ToolResponse, CompletedTurn, Refused, Goto, SoundAppends
  <2>3. CASE UNCHANGED journal /\ ArtifactFailure
    <3>1. QuietCalls
      BY <1>0, <2>1, <2>3, FailMoves DEF QuietCalls, ArtifactFailure
    <3> QED BY <1>0, <3>1, CallsQuiet
  <2>4. CASE /\ journal' = J!ProviderCompleted(journal, turns - 1)
             /\ batch' = [NoBatch EXCEPT !.effects = e, !.repeat = r, !.first = calls + 1]
             /\ pc' = "admit" /\ UNCHANGED outcome
    <3>1. journal'.tools = journal.tools
      BY <2>1, <2>4, SettlesTurn
    <3>2. batch'.effects = e /\ batch'.repeat = r /\ batch'.first = calls + 1 /\ batch'.next = 1
      BY <2>4 DEF NoBatch
    <3>3. UpTo(calls) /\ calls \in Nat /\ MaxCalls \in Nat /\ Len(e) \in Nat
      BY <1>0, <2>1, OpenCalls, BatchesAreSequences
    <3>4. UpTo(calls)'
      BY <2>1, <3>1, <3>3 DEF UpTo
    <3>5. \A c \in 1..calls : journal.tools[c] = "completed"
      BY <1>0, <2>1 DEF CallsInv, Outside
    <3>6. /\ batch'.first >= 1 /\ calls' = batch'.first + batch'.next - 2
          /\ batch'.first + Len(batch'.effects) - 1 <= MaxCalls
          /\ 1..(batch'.first - 1) = 1..calls /\ batch'.first..calls' = {}
      BY <2>1, <2>2, <3>2, <3>3
    <3>7. pc' \in Outside /\ outcome'.status = "none" /\ pc' \notin {"dispatch", "tool", "commit"}
      BY <2>1, <2>4 DEF Outside
    <3> QED BY <2>1, <2>2, <3>1, <3>2, <3>4, <3>5, <3>6, <3>7 DEF CallsInv
  <2> QED BY <2>2, <2>3, <2>4
<1>14. CASE CriticSend
  <2>1. pc = "criticRequest" /\ UNCHANGED calls /\ outcome.status = "none"
    BY <1>14, <1>a DEF CriticSend
  <2>2. \/ UNCHANGED journal /\ (ArtifactFailure \/ FinalizeWith("candidate"))
        \/ Requested
    BY <1>14, CriticMoves
  <2>3. journal'.tools = journal.tools
    BY <2>2, RequestKeepsCalls
  <2>4. outcome'.status # "Success" /\ pc' \in {"await", "criticAwait", "finalize", "final"}
    BY <1>0, <2>1, <2>2, FailMoves, FinalizeMoves DEF Requested, ArtifactFailure
  <2>5. QuietCalls
    BY <2>1, <2>3, <2>4 DEF QuietCalls, Elsewhere, Outside
  <2> QED BY <1>0, <2>5, CallsQuiet
<1>15. CASE Admit
  <2>1. pc = "admit" /\ pc' = "register" /\ UNCHANGED <<calls, journal, outcome>> /\ outcome.status = "none"
    BY <1>15, <1>a DEF Admit, Goto
  <2>2. /\ batch'.next = batch.next /\ batch'.effects = batch.effects
        /\ batch'.first = batch.first /\ batch'.repeat = batch.repeat
    BY <1>15, AdmitMoves DEF LoopTypes, PolicyTypes, IsBatch
  <2>3. UpTo(calls)' <=> UpTo(calls)
    BY <2>1 DEF UpTo
  <2>4. UpTo(calls)
    BY <1>0, <2>1, OpenCalls
  <2>5. /\ pc \in InBatch \cup {"admit"} /\ pc' \notin Outside \cup {"final"}
        /\ pc' \notin {"dispatch", "tool", "commit"}
        /\ pc \notin {"dispatch", "tool", "commit"}
    BY <2>1 DEF Outside
  <2> QED BY <1>0, <2>1, <2>2, <2>3, <2>4, <2>5 DEF CallsInv
<1>16. CASE Register
  <2>1. pc = "register" /\ calls' = calls + 1 /\ outcome.status = "none"
    BY <1>16, <1>a DEF Register
  <2>2. \/ UNCHANGED journal /\ ArtifactFailure
        \/ /\ journal' = J!ToolRegistered(journal, CallId) /\ UNCHANGED outcome
           /\ Stage(FALSE) \/ (pc' = "dispatch" /\ UNCHANGED batch)
    BY <1>16 DEF Register, Refused, Goto
  <2>3. CASE UNCHANGED journal /\ ArtifactFailure
    <3>1. pc' = "finalize" /\ outcome'.status = "RuntimeFailure" /\ outcome'.phase = "Artifact"
      BY <1>0, <2>3, FailMoves DEF ArtifactFailure
    <3>2. UpTo(calls) /\ calls \in Nat
      BY <1>0, <2>1, OpenCalls
    <3>3. calls' - 1 = calls
      BY <2>1, <3>2
    <3>4. UpTo(calls - 1)'
      BY <2>3, <3>2, <3>3 DEF UpTo
    <3>5. pc' \notin Outside \cup {"final"} /\ pc' \notin InBatch \cup {"admit"} /\ pc' # "dispatch"
      BY <3>1 DEF Outside, InBatch
    <3> QED BY <3>1, <3>4, <3>5 DEF CallsInv, Artifact
  <2>4. CASE /\ journal' = J!ToolRegistered(journal, CallId) /\ UNCHANGED outcome
             /\ Stage(FALSE) \/ (pc' = "dispatch" /\ UNCHANGED batch)
    BY <2>1, <2>4, CallRegistered
  <2> QED BY <2>2, <2>3, <2>4
<1>17. CASE Dispatch
  <2>1. pc = "dispatch" /\ UNCHANGED calls /\ outcome.status = "none"
    BY <1>17, <1>a DEF Dispatch
  <2>2. \/ UNCHANGED journal /\ ArtifactFailure
        \/ UNCHANGED <<journal, outcome>> /\ Stage(FALSE)
        \/ journal' = J!ToolDispatched(journal, CallId) /\ pc' = "tool" /\ UNCHANGED <<batch, outcome>>
    BY <1>17 DEF Dispatch, Refused, Goto
  <2>3. CASE UNCHANGED journal /\ ArtifactFailure
    <3>1. QuietCalls
      BY <1>0, <2>1, <2>3, FailMoves DEF QuietCalls, ArtifactFailure
    <3> QED BY <1>0, <3>1, CallsQuiet
  <2>4. CASE UNCHANGED <<journal, outcome>> /\ Stage(FALSE)
    BY <2>1, <2>4, CallStaged
  <2>5. CASE journal' = J!ToolDispatched(journal, CallId) /\ pc' = "tool" /\ UNCHANGED <<batch, outcome>>
    <3>1. /\ CallId = calls /\ CallId \in Call /\ journal \in JournalTypes /\ ~journal.broken
          /\ journal.checkpoint # "awaited" /\ journal.tools[CallId] = "inFlight"
      BY <2>1, TakesCall
    <3>2. J!ToolDispatched(journal, CallId).tools = [journal.tools EXCEPT ![CallId] = "dispatched"]
      BY <3>1, DispatchedFields, Zenon
    <3>3. journal'.tools = [journal.tools EXCEPT ![calls] = "dispatched"] /\ calls \in Call
      BY <2>5, <3>1, <3>2
    <3>4. /\ UpTo(calls)' /\ journal'.tools[calls] = "dispatched"
          /\ \A c \in Call : c # calls => journal'.tools[c] = journal.tools[c]
      BY <2>1, <3>3, CallMoved
    <3>5. /\ ~batch.repeat /\ batch.first >= 1 /\ calls = batch.first + batch.next - 1
          /\ batch.first + Len(batch.effects) - 1 <= MaxCalls
          /\ \A c \in 1..(batch.first - 1) : journal.tools[c] = "completed"
          /\ \A c \in batch.first..calls : journal.tools[c] \in {"inFlight", "dispatched"}
      BY <1>0, <2>1 DEF CallsInv, InBatch
    <3>6. batch.first \in Nat /\ batch.next \in Nat /\ calls \in Nat /\ MaxCalls \in Nat /\ calls <= MaxCalls
          /\ batch.next >= 1
      <4>1. batch.next \in 1..Len(batch.effects)
        BY <2>1 DEF BatchInv, InBatch
      <4> QED BY <1>0, <2>1, <4>1, BatchFields, OpenCalls DEF LoopTypes
    <3>7. /\ \A c \in 1..(batch.first - 1) : c \in Call /\ c # calls
          /\ \A c \in batch.first..calls : c \in Call
      BY <3>5, <3>6 DEF Call
    <3>8. /\ \A c \in 1..(batch.first - 1) : journal'.tools[c] = "completed"
          /\ \A c \in batch.first..calls : journal'.tools[c] \in {"inFlight", "dispatched"}
      BY <3>4, <3>5, <3>7
    <3>9. pc' \notin Outside \cup {"final"} /\ pc' \notin {"commit", "dispatch"}
      BY <2>5 DEF Outside
    <3> QED BY <2>1, <2>5, <3>4, <3>5, <3>8, <3>9 DEF CallsInv
  <2> QED BY <2>2, <2>3, <2>4, <2>5
<1>18. CASE ToolCancelled \/ ToolTimeout \/ ToolError
  <2>1. pc = "tool" /\ UNCHANGED calls
    BY <1>18 DEF ToolCancelled, ToolTimeout, ToolError, ToolFailure
  <2>2. (journal' = journal \/ journal' = J!ToolFailed(journal, CallId)) /\ pc' = "finalize" /\ outcome'.status # "Success"
    BY <1>18, <1>0, FailMoves DEF ToolCancelled, ToolTimeout, ToolError, ToolFailure, Refused, ArtifactFailure
  <2>3. CASE UNCHANGED journal
    <3>1. QuietCalls
      BY <2>1, <2>2, <2>3 DEF QuietCalls
    <3> QED BY <1>0, <3>1, CallsQuiet
  <2>4. CASE journal' = J!ToolFailed(journal, CallId)
    <3>1. /\ CallId = calls /\ CallId \in Call /\ journal \in JournalTypes /\ ~journal.broken
          /\ journal.checkpoint # "awaited" /\ journal.tools[CallId] \in {"inFlight", "dispatched"}
      BY <2>1, TakesCall
    <3>2. J!ToolFailed(journal, CallId).tools = [journal.tools EXCEPT ![CallId] = "failed"]
      BY <3>1, ToolFailedFields, Zenon
    <3>3. journal'.tools = [journal.tools EXCEPT ![calls] = "failed"] /\ calls \in Call
      BY <2>4, <3>1, <3>2
    <3>4. UpTo(calls)'
      BY <2>1, <3>3, CallMoved
    <3>5. pc' \notin Outside \cup {"final"} /\ pc' \notin InBatch \cup {"admit"} /\ pc' # "dispatch"
      BY <2>2 DEF Outside, InBatch
    <3> QED BY <2>2, <3>4, <3>5 DEF CallsInv
  <2> QED BY <2>2, <2>3, <2>4
<1>19. CASE ToolResult
  <2>1. pc = "tool" /\ UNCHANGED <<calls, journal>> /\ outcome.status = "none"
    BY <1>19, <1>a DEF ToolResult
  <2>2. \/ Stage(TRUE) /\ UNCHANGED outcome
        \/ Fail("RuntimeFailure", "Runtime", "runtime_media_attachment_invalid")
    BY <1>19 DEF ToolResult
  <2>3. CASE Stage(TRUE) /\ UNCHANGED outcome
    BY <2>1, <2>3, CallStaged
  <2>4. CASE Fail("RuntimeFailure", "Runtime", "runtime_media_attachment_invalid")
    <3>1. QuietCalls
      BY <1>0, <2>1, <2>4, FailMoves DEF QuietCalls
    <3> QED BY <1>0, <3>1, CallsQuiet
  <2> QED BY <2>2, <2>3, <2>4
<1>20. CASE BatchRefused
  <2>1. QuietCalls
    BY <1>20, <1>0, <1>a, FailMoves, FinalizeMoves DEF QuietCalls, Elsewhere, Outside, BatchRefused, Goto
  <2> QED BY <1>0, <2>1, CallsQuiet
<1>21. CASE CommitLate
  <2>1. QuietCalls
    BY <1>21, <1>0, <1>a, FailMoves, FinalizeMoves DEF QuietCalls, Elsewhere, Outside, CommitLate, Goto,
     BatchPrepared
  <2> QED BY <1>0, <2>1, CallsQuiet
<1>22. CASE CommitRefused
  <2>1. QuietCalls
    BY <1>22, <1>0, <1>a, FailMoves, FinalizeMoves DEF QuietCalls, Elsewhere, Outside, CommitRefused, Refused,
     Goto, CommitOpen, BatchPrepared
  <2> QED BY <1>0, <2>1, CallsQuiet
<1>23. CASE Commit
  <2>1. pc = "commit" /\ UNCHANGED calls /\ journal' = J!ToolsCompleted(journal, BatchIds)
    BY <1>23 DEF Commit, CommitOpen, BatchPrepared
  <2>2. pc' \in {"top", "finalize"} /\ outcome'.status # "Success"
    BY <1>23, <1>0, <1>a, <2>1, FailMoves DEF Commit, HistoryRefused, Goto
  <2> DEFINE k == J!ToolsCompleted(journal, BatchIds)
  <2>3. /\ UpTo(calls) /\ calls \in Nat
        /\ \A c \in Call : k.tools[c] = "none" <=> c > calls
        /\ \A c \in 1..calls : k.tools[c] = "completed"
    BY <2>1, TakesCommit, Zenon
  <2>4. journal' = k
    BY <2>1
  <2> HIDE DEF k
  <2>5. UpTo(calls)'
    BY <2>1, <2>3, <2>4 DEF UpTo
  <2>6. pc' \notin InBatch \cup {"admit"} /\ pc' # "dispatch"
    BY <2>2 DEF InBatch
  <2> QED BY <2>1, <2>3, <2>4, <2>5, <2>6 DEF CallsInv
<1>24. CASE WriteFinal
  <2>1. pc = "final" /\ UNCHANGED calls /\ outcome.status = "none"
    BY <1>24, <1>a DEF WriteFinal
  <2>2. \/ UNCHANGED journal /\ pc' = "finalize"
        \/ journal' = J!AssistantFinal(journal) /\ pc' = "finalize"
    BY <1>24, <1>0, FailMoves DEF WriteFinal, Refused, ArtifactFailure, Goto
  <2>3. journal'.tools = journal.tools
    <3>1. journal \in JournalTypes /\ ~journal.broken /\ journal.finals = 0 /\ journal.checkpoint # "awaited"
      BY <2>1 DEF LoopTypes, JournalInv, CheckpointInv, TurnsInv
    <3> QED BY <2>2, <3>1, FinalFields
  <2>4. UpTo(calls) /\ \A c \in 1..calls : journal.tools[c] = "completed"
    BY <1>0, <2>1, OpenCalls DEF CallsInv
  <2>5. UpTo(calls)'
    BY <2>1, <2>3, <2>4 DEF UpTo
  <2>6. pc' \notin InBatch \cup {"admit"} /\ pc' # "dispatch"
    BY <2>2 DEF InBatch
  <2> QED BY <2>1, <2>3, <2>4, <2>5, <2>6 DEF CallsInv
<1>25. CASE Finalize
  <2>1. QuietCalls
    BY <1>25, <1>0, <1>a, FailMoves, FinalizeMoves DEF QuietCalls, Elsewhere, Outside, Finalize, Goto
  <2> QED BY <1>0, <2>1, CallsQuiet
<1>26. CASE Done
  <2>1. QuietCalls
    BY <1>26, <1>0, <1>a, FailMoves, FinalizeMoves DEF QuietCalls, Elsewhere, Outside, Done, vars
  <2> QED BY <1>0, <2>1, CallsQuiet
<1>27. CASE UNCHANGED vars
  <2>1. QuietCalls
    BY <1>0, <1>27 DEF vars, QuietCalls
  <2> QED BY <1>0, <2>1, CallsQuiet
<1> QED
  BY <1>1, <1>2, <1>3, <1>4, <1>5, <1>6, <1>7, <1>8, <1>9, <1>10, <1>11, <1>12, <1>13, <1>14, <1>15, <1>16,
     <1>17, <1>18, <1>19, <1>20, <1>21, <1>22, <1>23, <1>24, <1>25, <1>26, <1>27 DEF Next, Answer, Step


-----------------------------------------------------------------------------
(* The theorems. *)

\* A run starts with all of this.
LEMMA InitTypes == Init => LoopTypes
<1> SUFFICES ASSUME Init PROVE LoopTypes
  OBVIOUS
<1>1. ControlTypes
  BY LoopAssumption DEF Init, ControlTypes, Outside, IsOutcome, Undecided
<1>2. PolicyTypes
  <2>1. phase \in Phases
    BY DEF Init, Phases, InitialPhaseAt, ProviderPhaseAt
  <2>2. finish \in Controllers /\ review \in Challenges
    BY DEF Init, Controllers, NewController, Challenges, NewChallenge
  <2>3. flags \in FlagTypes
    <3>1. (now < SoftFinishCutoff) \in BOOLEAN
      OBVIOUS
    <3>2. \A b \in BOOLEAN : [trigger |-> b, notice |-> FALSE, finalSent |-> FALSE,
                critic |-> FALSE, checkpoint |-> FALSE, recovery |-> FALSE] \in FlagTypes
      BY DEF FlagTypes
    <3> QED BY <3>1, <3>2, Zenon DEF Init
  <2> QED BY <2>1, <2>2, <2>3 DEF PolicyTypes
<1>3. CountTypes
  BY DEF Init, CountTypes, IsUsage, IsRequest, NoRequest
<1>4. IsBatch(batch)
  BY EmptyBatch DEF Init
<1>5. journal \in JournalTypes
  <2>1. 0 \in Count
    BY DEF Count
  <2> QED BY <2>1 DEF Init, J!EmptyJournal, JournalTypes
<1> QED BY <1>1, <1>2, <1>3, <1>4, <1>5 DEF LoopTypes

\* The invariants hold when a run starts.
LEMMA InitInvs == Init => FinishInv /\ BatchInv /\ CandidateInv
<1> SUFFICES ASSUME Init PROVE FinishInv /\ BatchInv /\ CandidateInv
  OBVIOUS
<1>1. FinishInv
  BY DEF Init, FinishInv, NewController
<1>2. BatchInv
  BY DEF Init, BatchInv, InBatch, NoBatch
<1>3. CandidateInv
  BY DEF Init, CandidateInv, Undecided, Outside, InBatch, Ending, NewChallenge, Active, NoStaleFallback,
      CandidateSurvives
<1> QED BY <1>1, <1>2, <1>3

\* Every variable of the loop keeps its type, whatever the provider, the
\* executor, the clock and the refused appends do.
THEOREM LoopTypesHold == Spec => []LoopTypes
<1>1. Init => LoopTypes
  BY InitTypes
<1>2. LoopTypes /\ [Next]_vars => LoopTypes'
  BY TypesNext
<1> QED BY <1>1, <1>2, PTL DEF Spec

\* The three inductive invariants.
THEOREM LoopInvariants == Spec => [](FinishInv /\ BatchInv /\ CandidateInv)
<1>1. Init => LoopTypes /\ FinishInv /\ BatchInv /\ CandidateInv
  BY InitTypes, InitInvs
<1>2. LoopTypes /\ FinishInv /\ BatchInv /\ CandidateInv /\ [Next]_vars
        => LoopTypes' /\ FinishInv' /\ BatchInv' /\ CandidateInv'
  BY TypesNext, FinishNext, BatchInvNext, CandidateNext
<1> QED BY <1>1, <1>2, PTL DEF Spec

\* No stale answer: the provisional answer of a review is delivered only if no
\* mutating call was dispatched behind it (take_safe_fallback).
THEOREM FallbackIsFresh == Spec => []NoStaleFallback
<1>1. CandidateInv => NoStaleFallback
  BY DEF CandidateInv
<1> QED BY <1>1, LoopInvariants, PTL

\* A review takes the answer from a run, as long as nothing changed behind the
\* candidate, only by a cancellation, a refused append or history, or a call of its
\* own that fails or settles too late: no failure of the provider and no exhausted
\* budget does.
THEOREM CandidateIsKept == Spec => []CandidateSurvives
<1>1. CandidateInv => CandidateSurvives
  BY DEF CandidateInv
<1> QED BY <1>1, LoopInvariants, PTL

\* Nothing follows the finish: after the final-only request no request is sent,
\* and behind the batch of soft finish only the final-only one.
THEOREM NothingAfterFinish == Spec => FinishIsFinal
<1> DEFINE A == turns' # turns => ~flags.finalSent /\ (finish.softAdmitted => req'.mode = "final")
<1>1. LoopTypes /\ FinishInv /\ CandidateInv /\ [Next]_vars => [A]_vars
  <2> SUFFICES ASSUME LoopTypes, FinishInv, CandidateInv, [Next]_vars, turns' # turns
               PROVE  ~flags.finalSent /\ (finish.softAdmitted => req'.mode = "final")
    OBVIOUS
  <2>1. SendRequest \/ CriticSend
    BY FramesHold DEF Framed
  <2>2. CASE SendRequest
    <3>1. pc = "request" /\ phase \in {"ActionOpen", "FinalOnly"}
      BY <2>2 DEF SendRequest, RequestOpen
    <3>2. phase = "FinalOnly" => req'.mode = "final"
      BY <2>2 DEF SendRequest
    <3> QED BY <3>1, <3>2 DEF FinishInv, Ending, InBatch
  <2>3. CASE CriticSend
    <3>1. pc = "criticRequest"
      BY <2>3 DEF CriticSend
    <3> QED BY <3>1 DEF FinishInv, Ending, InBatch
  <2> QED BY <2>1, <2>2, <2>3
<1> QED BY <1>1, LoopTypesHold, LoopInvariants, PTL DEF Spec, FinishIsFinal

\* Every dispatch is in its window: before the actor cutoff, not after actions
\* closed, in soft finish with the final reserve intact, and in a review only
\* as its phase allows.
THEOREM DispatchesInWindow == Spec => DispatchInWindow
<1> DEFINE W == /\ now < ActorCutoff
                /\ ~flags.finalSent /\ finish.state # "FinalOnly"
                /\ finish.state = "SoftFinish" => now < SoftActionCutoff
                /\ review.phase # "Revalidation"
                /\ review.phase = "Correction" => Effect = "readOnly"
<1>1. LoopTypes /\ FinishInv /\ BatchInv /\ [Next]_vars => [(\E c \in Call : Dispatched(c)) => W]_vars
  <2> SUFFICES ASSUME LoopTypes, FinishInv, BatchInv, [Next]_vars, NEW c \in Call, Dispatched(c)
               PROVE  W
    OBVIOUS
  <2>1. Dispatch /\ pc = "dispatch" /\ now < batch.cutoff
    BY DispatchMoves
  <2>2. /\ batch.cutoff <= ActorCutoff /\ finish.state # "FinalOnly"
        /\ finish.state = "SoftFinish" => batch.cutoff <= SoftActionCutoff
        /\ Active(review) => batch.stage # "none"
        /\ batch.stage = ToolStage(review, batch.effects)
        /\ batch.next \in 1..Len(batch.effects)
    BY <2>1 DEF BatchInv, InBatch
  <2>3. now \in Int /\ batch.cutoff \in Int /\ ActorCutoff \in Int /\ SoftActionCutoff \in Int
    BY BatchFields, Cutoffs DEF LoopTypes, ControlTypes
  <2>4. now < ActorCutoff /\ (finish.state = "SoftFinish" => now < SoftActionCutoff)
    BY <2>1, <2>2, <2>3
  <2>5. ~flags.finalSent
    BY <2>1 DEF FinishInv, Ending
  <2>6. review.phase # "Revalidation"
    BY <2>2 DEF ToolStage, Active
  <2>7. ASSUME review.phase = "Correction" PROVE Effect = "readOnly"
    <3>1. ToolStage(review, batch.effects) # "none"
      BY <2>2, <2>7 DEF Active
    <3>2. ~\E i \in DOMAIN batch.effects : batch.effects[i] = "mutating"
      BY <2>7, <3>1 DEF ToolStage
    <3>3. batch.effects \in Seq(Effects)
      BY BatchFields DEF LoopTypes
    <3>4. batch.next \in DOMAIN batch.effects /\ Effect \in Effects
      BY <2>2, <3>3, LenProperties, ElementOfSeq DEF Effect
    <3> QED BY <3>2, <3>4 DEF Effect, Effects
  <2> QED BY <2>2, <2>4, <2>5, <2>6, <2>7
<1> QED BY <1>1, LoopTypesHold, LoopInvariants, PTL DEF Spec, DispatchInWindow

\* The journal invariant: at the start, by every step, and what it means to the
\* reader of a run that was published.
LEMMA InitJournal == Init => JournalInv
<1> SUFFICES ASSUME Init PROVE JournalInv
  OBVIOUS
<1>1. TurnsInv
  <2>1. 0..(0 - 1) = {} /\ 0 <= 0
    OBVIOUS
  <2> QED BY <2>1 DEF Init, J!EmptyJournal, TurnsInv, Undecided
<1>2. CallsInv
  <2>1. journal.tools = [c \in Call |-> "none"] /\ calls = 0 /\ MaxCalls \in Nat
    BY Cutoffs DEF Init, J!EmptyJournal
  <2>2. 0 \in 0..MaxCalls /\ \A c \in Call : c > 0
    BY <2>1 DEF Call
  <2>3. UpTo(calls)
    BY <2>1, <2>2 DEF UpTo
  <2>4. 1..0 = {}
    OBVIOUS
  <2>5. pc \notin InBatch \cup {"admit"} /\ pc # "dispatch" /\ \A c \in 1..calls : journal.tools[c] = "completed"
    BY <2>1, <2>4 DEF Init, InBatch
  <2> QED BY <2>3, <2>5 DEF CallsInv
<1>3. CheckpointInv
  <2>1. now \in Nat /\ SoftFinishCutoff \in Int
    BY Cutoffs, LoopAssumption DEF Init
  <2>2. flags.trigger = (now < SoftFinishCutoff) /\ flags.checkpoint = FALSE
    BY DEF Init
  <2>3. flags.trigger <=> now < SoftFinishCutoff
    BY <2>2, Zenon
  <2>4. journal.checkpoint = "none"
    BY DEF Init, J!EmptyJournal
  <2> QED BY <2>1, <2>2, <2>3, <2>4 DEF CheckpointInv
<1> QED BY <1>1, <1>2, <1>3 DEF Init, JournalInv

\* Every step keeps the journal invariant.
LEMMA JournalInvNext ==
    SoundAppends /\ LoopTypes /\ BatchInv /\ CandidateInv /\ JournalInv /\ [Next]_vars => JournalInv'
<1> SUFFICES ASSUME SoundAppends, LoopTypes, BatchInv, CandidateInv, JournalInv, [Next]_vars PROVE JournalInv'
  OBVIOUS
<1>1. TurnsInv' /\ CallsInv' /\ CheckpointInv'
  BY TurnsNext, CallsNext, CheckpointNext
<1>2. published' => pc' = "ended"
  <2>1. CASE Finalize
    BY <2>1 DEF Finalize, Goto
  <2>2. CASE UNCHANGED published /\ pc = "ended"
    BY <2>2, StepsAt DEF vars
  <2> QED BY <2>1, <2>2, FramesHold DEF Framed, JournalInv
<1> QED BY <1>1, <1>2 DEF JournalInv

\* The invariant is all that the reader asks for.
LEMMA ReaderAccepts == LoopTypes /\ JournalInv => JournalAccepted
<1> SUFFICES ASSUME LoopTypes, JournalInv, published PROVE J!Accepted(journal, RunRecord)
  BY DEF JournalAccepted
<1>1. /\ journal \in JournalTypes /\ turns \in Nat /\ calls \in Nat
      /\ journal.completed \in Nat /\ journal.failed \in Nat /\ usage.completed \in Nat /\ usage.failed \in Nat
  BY DEF LoopTypes, CountTypes, IsUsage, JournalTypes, Count
<1>2. /\ RunRecord.status = outcome.status /\ RunRecord.phase = outcome.phase /\ RunRecord.turns = turns
      /\ RunRecord.calls = calls /\ RunRecord.completed = usage.completed /\ RunRecord.failed = usage.failed
  BY DEF RunRecord
<1>3. TurnsInv /\ CallsInv /\ journal.checkpoint # "awaited"
  BY DEF JournalInv, CheckpointInv
<1>4. J!Cardinality(journal.seen) = turns
  BY <1>1, <1>3, JournalCounts, SameCardinality DEF TurnsInv
<1> DEFINE registered == J!Cardinality(J!Registered(journal))
<1>5. registered = calls \/ (Artifact /\ registered = calls - 1)
  <2>1. \A n : UpTo(n) => J!Cardinality(J!Registered(journal)) = n
    BY <1>1, <1>3, JournalCounts, SameCardinality DEF TurnsInv
  <2> QED BY <1>3, <2>1 DEF CallsInv
<1> HIDE DEF registered
<1>6. registered <= calls /\ (registered < calls => Artifact)
  BY <1>1, <1>5
<1>7. /\ journal.completed <= usage.completed /\ (journal.completed < usage.completed => Artifact)
      /\ journal.failed <= usage.failed /\ (journal.failed < usage.failed => Artifact)
  BY <1>1, <1>3 DEF TurnsInv
<1>8. ASSUME outcome.status = "Success"
      PROVE  journal.finals = 1 /\ \A c \in J!Registered(journal) : journal.tools[c] = "completed"
  <2>1. journal.finals = 1 /\ UpTo(calls) /\ \A c \in 1..calls : journal.tools[c] = "completed"
    BY <1>3, <1>8 DEF TurnsInv, CallsInv, Artifact
  <2>2. \A c \in J!Registered(journal) : c \in 1..calls
    <3>1. \A c \in Call : journal.tools[c] # "none" => ~(c > calls)
      BY <2>1 DEF UpTo
    <3> QED BY <1>1, <3>1, Cutoffs DEF J!Registered, Call
  <2> QED BY <2>1, <2>2
<1>9. Artifact => outcome.status = "RuntimeFailure" /\ outcome.phase = "Artifact"
  BY DEF Artifact
<1>10. J!Missing(journal, RunRecord) => Artifact
  BY <1>2, <1>6, <1>7 DEF J!Missing, registered
<1>11. ~journal.broken
  BY <1>3 DEF TurnsInv
<1> HIDE DEF Artifact
<1> QED BY <1>2, <1>3, <1>4, <1>6, <1>7, <1>8, <1>9, <1>10, <1>11 DEF J!Accepted, registered

\* Every published run is one the artifactizer accepts, as long as call ids do
\* not come back and the request behind a checkpoint is not refused: with the
\* first a call is registered twice, with the second the checkpoint announces
\* a request that never comes, and the reader rejects either journal.
THEOREM PublishedRunsAreAccepted ==
    ASSUME SoundAppends
    PROVE  Spec => []JournalAccepted
<1>1. Init => LoopTypes /\ BatchInv /\ CandidateInv /\ JournalInv
  BY InitTypes, InitInvs, InitJournal
<1>2. LoopTypes /\ BatchInv /\ CandidateInv /\ JournalInv /\ [Next]_vars
        => LoopTypes' /\ BatchInv' /\ CandidateInv' /\ JournalInv'
  BY SoundAppends, TypesNext, BatchInvNext, CandidateNext, JournalInvNext
<1>3. LoopTypes /\ JournalInv => JournalAccepted
  BY ReaderAccepts
<1> QED BY <1>1, <1>2, <1>3, PTL DEF Spec

=============================================================================
