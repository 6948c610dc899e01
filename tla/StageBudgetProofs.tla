------------------------- MODULE StageBudgetProofs -------------------------
(***************************************************************************)
(* The settlement stages for every word size, every unit and every minimum *)
(* stage: both sides derive the same cutoffs, and no stage is shorter than *)
(* the minimum.                                                            *)
(***************************************************************************)
EXTENDS StageBudget, TLAPS

\* Splitting a span into quotient and remainder changes no stage: the formula of
\* the runtime is the formula of the bridge.
LEMMA QuotientRemainder ==
  ASSUME NEW span \in Nat, NEW i \in Stages
  PROVE  /\ (span \div 6) * i + ((span % 6) * i) \div 6 = (span * i) \div 6
         /\ (span \div 6) \in Nat /\ (span % 6) \in 0..5
         /\ (span \div 6) * i <= span
         /\ (span * i) \div 6 <= span
         /\ (span % 6) * i <= span * i
<1>1. i \in {1, 2, 3, 4, 5, 6}
  BY DEF Stages, StageCount
<1>2. PICK q \in Nat, r \in 0..5 : span = 6 * q + r
  <2>1. span = 6 * (span \div 6) + (span % 6) /\ span \div 6 \in Nat /\ span % 6 \in 0..5
    BY SMT
  <2> QED BY <2>1
<1>3. span \div 6 = q /\ span % 6 = r
  BY <1>2
<1> QED
  BY <1>1, <1>2, <1>3

\* A product with the unit fits below a limit exactly when the factor fits below
\* the divided limit: checked_mul and the host's division draw the same line.
LEMMA SameOverflow ==
  ASSUME NEW ms \in Nat, NEW max \in Nat, StageAssumption
  PROVE  ms <= max \div NsPerMs <=> ms * NsPerMs <= max
<1> DEFINE q == max \div NsPerMs
           r == max % NsPerMs
<1>0. NsPerMs \in Nat /\ NsPerMs > 0
  BY DEF StageAssumption
<1>1. max = NsPerMs * q + r /\ q \in Nat /\ r \in Nat /\ r < NsPerMs
  BY <1>0, SMTT(30)
<1> HIDE DEF q, r
<1>2. ASSUME ms <= q PROVE ms * NsPerMs <= max
  <2>1. PICK d \in Nat : q = ms + d
    BY <1>1, <1>2
  <2>2. NsPerMs * q = ms * NsPerMs + NsPerMs * d
    BY <2>1, <1>0, SMTT(30)
  <2>3. NsPerMs * d \in Nat /\ ms * NsPerMs \in Nat
    BY <1>0, SMTT(30)
  <2> QED BY <1>1, <2>2, <2>3
<1>3. ASSUME ms > q PROVE ms * NsPerMs > max
  <2>1. PICK d \in Nat : ms = q + 1 + d
    BY <1>1, <1>3
  <2>2. ms * NsPerMs = NsPerMs * q + NsPerMs + NsPerMs * d
    BY <2>1, <1>0, <1>1, SMTT(30)
  <2>3. NsPerMs * d \in Nat /\ NsPerMs * q \in Nat
    BY <1>0, <1>1, SMTT(30)
  <2> QED BY <1>0, <1>1, <2>2, <2>3
<1>4. ms * NsPerMs \in Nat
  BY <1>0, SMTT(30)
<1>5. ms <= q <=> ms * NsPerMs <= max
  BY <1>1, <1>2, <1>3, <1>4
<1> QED BY <1>5 DEF q

\* On a window inside the word no step of the runtime's formula saturates.
LEMMA RawIsBridge ==
  ASSUME NEW a \in Nat, NEW t \in Nat, a <= t, t <= U64Max, StageAssumption
  PROVE  RawCut(a, t) = BridgeCut(a, t)
<1> DEFINE span == t - a
<1>0. span \in Nat /\ a + span = t /\ U64Max \in Nat /\ U64Max >= 30
  BY DEF StageAssumption
<1> SUFFICES ASSUME NEW i \in Stages
             PROVE  Saturate(Saturate(a + Saturate((span \div 6) * i))
                             + Saturate((span % 6) * i) \div 6) = a + (span * i) \div 6
  BY DEF RawCut, BridgeCut, StageCount
<1> HIDE DEF span
<1>1. /\ (span \div 6) * i + ((span % 6) * i) \div 6 = (span * i) \div 6
      /\ (span \div 6) * i <= span
      /\ (span * i) \div 6 <= span
      /\ (span \div 6) \in Nat /\ (span % 6) \in 0..5
  BY <1>0, QuotientRemainder
<1> DEFINE x == (span \div 6) * i
           y == (span % 6) * i
           z == (span * i) \div 6
<1>2. i \in {1, 2, 3, 4, 5, 6}
  BY DEF Stages, StageCount
<1>3. x \in Nat /\ y \in 0..30 /\ z \in Nat
  BY <1>0, <1>1, <1>2
<1>4. x <= span /\ z <= span /\ x + y \div 6 = z
  BY <1>1
<1> HIDE DEF x, y, z
<1>5. Saturate(x) = x /\ Saturate(y) = y
  BY <1>0, <1>3, <1>4 DEF Saturate
<1>6. Saturate(a + x) = a + x
  BY <1>0, <1>3, <1>4 DEF Saturate
<1>7. y \div 6 \in Nat
  BY <1>3
<1>8. Saturate((a + x) + y \div 6) = a + z
  BY <1>0, <1>3, <1>4, <1>7 DEF Saturate
<1> QED
  BY <1>5, <1>6, <1>8 DEF x, y, z

\* The six stages of a window, and what the acceptance tests see of them.
LEMMA BridgeCutFacts ==
  ASSUME NEW a \in Nat, NEW span \in Nat
  PROVE  /\ BridgeCut(a, a + span)[6] = a + span
         /\ BridgeCut(a, a + span)[1] - a >= span \div 6
         /\ \A i \in 1..5 :
               BridgeCut(a, a + span)[i + 1] - BridgeCut(a, a + span)[i] >= span \div 6
         /\ BridgeCut(a, a + span) = [i \in Stages |-> a + (span * i) \div 6]
<1>1. BridgeCut(a, a + span) = [i \in Stages |-> a + (span * i) \div 6]
  <2>1. (a + span) - a = span
    OBVIOUS
  <2> QED BY <2>1 DEF BridgeCut, StageCount
<1>2. Stages = {1, 2, 3, 4, 5, 6}
  BY DEF Stages, StageCount
<1>3. \A i \in {1, 2, 3, 4, 5, 6} : BridgeCut(a, a + span)[i] = a + (span * i) \div 6
  BY <1>1, <1>2
<1>4. (span * 6) \div 6 = span /\ (span * 1) \div 6 = span \div 6
  OBVIOUS
<1>5. \A i \in {1, 2, 3, 4, 5} :
         (span * (i + 1)) \div 6 - (span * i) \div 6 >= span \div 6
  <2>1. PICK q \in Nat, r \in 0..5 : span = 6 * q + r
    <3>1. span = 6 * (span \div 6) + (span % 6) /\ span \div 6 \in Nat /\ span % 6 \in 0..5
      BY SMT
    <3> QED BY <3>1
  <2> QED BY <2>1
<1>6. \A i \in 1..5 : i \in {1, 2, 3, 4, 5} /\ i + 1 \in {1, 2, 3, 4, 5, 6} /\ i \in {1, 2, 3, 4, 5, 6}
  OBVIOUS
<1>7. \A i \in {1, 2, 3, 4, 5, 6} : (span * i) \div 6 \in Nat
  OBVIOUS
<1> QED
  BY <1>1, <1>3, <1>4, <1>5, <1>6, <1>7
-----------------------------------------------------------------------------
\* What the three acceptance tests have in common: the reserve is the length of
\* the window and has room for six minimal stages.
Sound(a, t, ms) ==
    /\ t - a = ms * NsPerMs
    /\ ms >= 6 * MinStageMs

\* A sound budget has increasing stages of at least the minimum.
LEMMA SoundStages ==
  ASSUME NEW a \in Nat, NEW t \in Nat, NEW ms \in Nat, Sound(a, t, ms), StageAssumption
  PROVE  /\ a <= t /\ ms > 0
         /\ t - a >= ms
         /\ Increasing(BridgeCut(a, t))
         /\ BridgeCut(a, t)[6] = t
         /\ BridgeCut(a, t)[1] - a >= MinStageMs * NsPerMs
         /\ \A i \in 1..5 : BridgeCut(a, t)[i + 1] - BridgeCut(a, t)[i] >= MinStageMs * NsPerMs
<1> DEFINE span == t - a
<1>1. NsPerMs \in Nat /\ NsPerMs >= 1 /\ MinStageMs \in Nat /\ MinStageMs >= 1
  BY DEF StageAssumption
<1>2. PICK d \in Nat : ms = 6 * MinStageMs + d
  BY <1>1 DEF Sound
<1>3. ms * NsPerMs = 6 * (MinStageMs * NsPerMs) + d * NsPerMs
  BY <1>1, <1>2, SMTT(30)
<1>4. MinStageMs * NsPerMs \in Nat /\ d * NsPerMs \in Nat
  BY <1>1, SMTT(30)
<1>5. MinStageMs * NsPerMs >= 1 /\ ms * NsPerMs >= ms
  BY <1>1, SMTT(30)
<1>6. span \in Nat /\ span = ms * NsPerMs /\ t = a + span
  BY <1>3, <1>4 DEF Sound
<1> HIDE DEF span
<1>7. span \div 6 >= MinStageMs * NsPerMs
  BY <1>3, <1>4, <1>6
<1>8. /\ BridgeCut(a, t)[6] = t
      /\ BridgeCut(a, t)[1] - a >= span \div 6
      /\ \A i \in 1..5 : BridgeCut(a, t)[i + 1] - BridgeCut(a, t)[i] >= span \div 6
      /\ BridgeCut(a, t) = [i \in Stages |-> a + (span * i) \div 6]
  BY <1>6, BridgeCutFacts, ZenonT(60)
<1>9. \A i \in Stages : BridgeCut(a, t)[i] \in Int
  BY <1>6, <1>8 DEF Stages, StageCount
<1>10. \A i \in 1..5 : i \in Stages /\ i + 1 \in Stages
  BY DEF Stages, StageCount
<1>11. 1 \in Stages /\ StageCount - 1 = 5
  BY DEF Stages, StageCount
<1>12. span \div 6 \in Int
  BY <1>6
<1>13. \A i \in 1..5 : BridgeCut(a, t)[i + 1] - BridgeCut(a, t)[i] >= MinStageMs * NsPerMs
  BY <1>4, <1>7, <1>8, <1>9, <1>10, <1>12
<1>14. BridgeCut(a, t)[1] - a >= MinStageMs * NsPerMs
  BY <1>4, <1>7, <1>8, <1>9, <1>11, <1>12
<1>15. Increasing(BridgeCut(a, t))
  BY <1>4, <1>5, <1>9, <1>10, <1>11, <1>13 DEF Increasing
<1>16. a <= t /\ ms > 0 /\ t - a >= ms
  BY <1>1, <1>2, <1>5, <1>6
<1> QED
  BY <1>8, <1>13, <1>14, <1>15, <1>16

\* The bridge accepts exactly the sound budgets.
LEMMA BridgeAccepts ==
  ASSUME NEW a \in Word, NEW t \in Word, NEW ms \in Word, a > 0, StageAssumption
  PROVE  DeriveBridge(a, t, ms).ok <=> Sound(a, t, ms)
<1>1. U64Max \in Nat /\ a \in Nat /\ t \in Nat /\ ms \in Nat /\ a <= U64Max /\ t <= U64Max
      /\ MinStageMs \in Nat
  BY DEF Word, StageAssumption
<1>2. ASSUME DeriveBridge(a, t, ms).ok PROVE Sound(a, t, ms)
  BY <1>2 DEF DeriveBridge, Sound, StageCount
<1>3. ASSUME Sound(a, t, ms) PROVE DeriveBridge(a, t, ms).ok
  <2>1. a <= t /\ ms > 0 /\ Increasing(BridgeCut(a, t)) /\ BridgeCut(a, t)[6] = t
    BY <1>1, <1>3, SoundStages
  <2>2. t - a = ms * NsPerMs /\ ms >= 6 * MinStageMs
    BY <1>3 DEF Sound
  <2>3. ms * NsPerMs <= U64Max
    BY <1>1, <2>1, <2>2
  <2>4. ms <= U64Max \div NsPerMs
    BY <1>1, <2>3, SameOverflow
  <2> QED
    BY <1>1, <2>1, <2>2, <2>4 DEF DeriveBridge, StageCount
<1> QED BY <1>2, <1>3 DEF DeriveBridge, Sound, Increasing

\* So does the runtime, and with the same cutoffs.
LEMMA RawAccepts ==
  ASSUME NEW a \in Word, NEW t \in Word, NEW ms \in Word, a > 0, StageAssumption
  PROVE  /\ DeriveRaw(a, t, ms).ok <=> Sound(a, t, ms)
         /\ Sound(a, t, ms) => DeriveRaw(a, t, ms).cut = BridgeCut(a, t)
<1>1. U64Max \in Nat /\ a \in Nat /\ t \in Nat /\ ms \in Nat /\ a <= U64Max /\ t <= U64Max
      /\ MinStageMs \in Nat /\ NsPerMs \in Nat /\ NsPerMs >= 1
  BY DEF Word, StageAssumption
<1>2. ASSUME DeriveRaw(a, t, ms).ok PROVE Sound(a, t, ms)
  <2>1. t >= a /\ t - a = ms * NsPerMs /\ ms >= Saturate(6 * MinStageMs)
    BY <1>2 DEF DeriveRaw, StageCount
  <2>2. ms * NsPerMs >= ms
    BY <1>1, SMTT(30)
  <2>3. ms * NsPerMs \in Nat
    BY <1>1, SMTT(30)
  <2>4. ms < U64Max
    BY <1>1, <2>1, <2>2, <2>3
  <2>5. ms >= 6 * MinStageMs
    BY <1>1, <2>1, <2>4 DEF Saturate
  <2> QED BY <2>1, <2>5 DEF Sound
<1>3. ASSUME Sound(a, t, ms)
      PROVE  DeriveRaw(a, t, ms).ok /\ DeriveRaw(a, t, ms).cut = BridgeCut(a, t)
  <2>1. a <= t /\ ms > 0 /\ Increasing(BridgeCut(a, t)) /\ BridgeCut(a, t)[6] = t
    BY <1>1, <1>3, SoundStages
  <2>2. t - a = ms * NsPerMs /\ ms >= 6 * MinStageMs
    BY <1>3 DEF Sound
  <2>3. ms * NsPerMs <= U64Max
    BY <1>1, <2>1, <2>2
  <2>4. RawCut(a, t) = BridgeCut(a, t)
    BY <1>1, <2>1, RawIsBridge
  <2>5. ms >= Saturate(6 * MinStageMs)
    BY <1>1, <2>2 DEF Saturate
  <2> QED
    BY <2>1, <2>2, <2>3, <2>4, <2>5 DEF DeriveRaw, StageCount
<1> QED BY <1>2, <1>3 DEF DeriveRaw, Sound, Increasing

\* And so does the derivation on the process's own instants.
LEMMA InstantsAccept ==
  ASSUME NEW a \in Word, NEW t \in Word, NEW ms \in Word, a > 0, StageAssumption
  PROVE  /\ DeriveInstants(a, t, ms).ok <=> Sound(a, t, ms)
         /\ Sound(a, t, ms) => DeriveInstants(a, t, ms).cut = BridgeCut(a, t)
<1>1. U64Max \in Nat /\ a \in Nat /\ t \in Nat /\ ms \in Nat /\ a <= U64Max /\ t <= U64Max
      /\ NsPerMs \in Nat /\ NsPerMs >= 1 /\ U64Max >= 30
  BY DEF Word, StageAssumption
<1> DEFINE u == 1 + (t - a)
<1>2. ASSUME DeriveInstants(a, t, ms).ok PROVE Sound(a, t, ms)
  <2>1. t >= a /\ u <= U64Max /\ DeriveRaw(1, u, ms).ok
    BY <1>2 DEF DeriveInstants
  <2>2. u \in Word /\ 1 \in Word /\ 1 > 0
    BY <1>1, <2>1 DEF Word
  <2> HIDE DEF u
  <2>3. Sound(1, u, ms)
    BY <2>1, <2>2, RawAccepts
  <2> QED BY <1>1, <2>3 DEF Sound, u
<1>3. ASSUME Sound(a, t, ms)
      PROVE  DeriveInstants(a, t, ms).ok /\ DeriveInstants(a, t, ms).cut = BridgeCut(a, t)
  <2>1. a <= t
    BY <1>1, <1>3, SoundStages
  <2>2. u \in Word /\ 1 \in Word /\ 1 > 0 /\ u \in Nat
    BY <1>1, <2>1 DEF Word
  <2>3. Sound(1, u, ms)
    BY <1>1, <1>3 DEF Sound
  <2>4. DeriveRaw(1, u, ms).ok /\ DeriveRaw(1, u, ms).cut = BridgeCut(1, u)
    <3> HIDE DEF u
    <3> QED BY <2>2, <2>3, RawAccepts
  <2>5. BridgeCut(1, u) = [i \in Stages |-> 1 + ((t - a) * i) \div 6]
    <3>1. t - a \in Nat /\ u = 1 + (t - a)
      BY <1>1, <2>1
    <3> HIDE DEF u
    <3> QED BY <3>1, BridgeCutFacts
  <2>6. BridgeCut(a, t) = [i \in Stages |-> a + ((t - a) * i) \div 6]
    BY DEF BridgeCut, StageCount
  <2>7. \A i \in Stages : ((t - a) * i) \div 6 \in Int
    BY <1>1, <2>1 DEF Stages, StageCount
  <2>8. DeriveInstants(a, t, ms).cut = [i \in Stages |-> a + (BridgeCut(1, u)[i] - 1)]
    BY <2>4 DEF DeriveInstants
  <2>9. \A i \in Stages : a + (BridgeCut(1, u)[i] - 1) = BridgeCut(a, t)[i]
    BY <1>1, <2>5, <2>6, <2>7
  <2>10. DeriveInstants(a, t, ms).cut = BridgeCut(a, t)
    <3> HIDE DEF u
    <3> QED BY <2>6, <2>8, <2>9
  <2>11. BridgeCut(a, t)[6] = t
    BY <1>1, <1>3, SoundStages
  <2>12. DeriveInstants(a, t, ms).cut[StageCount] = t
    BY <2>10, <2>11 DEF StageCount
  <2> QED
    BY <1>1, <2>1, <2>2, <2>4, <2>10, <2>12 DEF DeriveInstants, Word
<1> QED BY <1>2, <1>3 DEF DeriveInstants, DeriveRaw, Sound, Increasing

-----------------------------------------------------------------------------
\* The four reserves of a receipt in nanoseconds: a millisecond is at least a
\* nanosecond.
LEMMA ReserveSpans ==
  ASSUME NEW c \in Nat, NEW t \in Nat, NEW p \in Nat, NEW s \in Nat, StageAssumption
  PROVE  /\ c * NsPerMs \in Nat /\ t * NsPerMs \in Nat /\ p * NsPerMs \in Nat /\ s * NsPerMs \in Nat
         /\ c <= c * NsPerMs /\ t <= t * NsPerMs /\ p <= p * NsPerMs /\ s <= s * NsPerMs
<1>0. NsPerMs \in Nat /\ NsPerMs >= 1
  BY DEF StageAssumption
<1>1. \A m \in Nat : m * NsPerMs \in Nat /\ m <= m * NsPerMs
  BY <1>0, SMTT(30)
<1> QED BY <1>1

\* The fields of a receipt are words.
LEMMA ReceiptWords ==
  ASSUME NEW d \in Receipts, StageAssumption, ReserveAssumption
  PROVE  /\ d.hard \in Nat /\ d.hard <= U64Max /\ d.timeout \in Nat /\ U64Max \in Nat
         /\ d.reserves.cleanup \in Nat /\ d.reserves.terminalization \in Nat
         /\ d.reserves.providerSend \in Nat /\ d.reserves.settlement \in Word
         /\ d.reserves.settlement \in Nat
<1>1. U64Max \in Nat
  BY DEF StageAssumption
<1>2. d.hard \in Word /\ d.timeout \in Word /\ d.reserves \in Reserves \cup {Frozen}
  BY DEF Receipts
<1>3. /\ d.reserves.cleanup \in Word /\ d.reserves.terminalization \in Word
      /\ d.reserves.providerSend \in Word /\ d.reserves.settlement \in Word
  <2>1. CASE d.reserves \in Reserves
    BY <2>1 DEF Reserves, ReserveAssumption
  <2>2. CASE d.reserves = Frozen
    BY <2>2 DEF Frozen, ReserveAssumption
  <2> QED BY <1>2, <2>1, <2>2
<1> QED BY <1>1, <1>2, <1>3 DEF Word

\* Every subtraction succeeds exactly when the sum of the reserves ends before
\* the hard deadline.
LEMMA SubtractionChain ==
  ASSUME NEW d \in Receipts, StageAssumption, ReserveAssumption
  PROVE  LET c == Cutoffs(d.hard, d.reserves)
             ns == TotalMs(d.reserves) * NsPerMs
         IN  /\ TotalMs(d.reserves) \in Nat /\ ns \in Nat /\ TotalMs(d.reserves) <= ns
             /\ c.actorDone = d.hard - ns
             /\ Subtracts(c) <=> ns < d.hard
             /\ c.toolSettled = c.actorDone + d.reserves.settlement * NsPerMs
             /\ c.runtimeFinal = c.toolSettled + d.reserves.providerSend * NsPerMs
             /\ c.cleanupStart = c.runtimeFinal + d.reserves.terminalization * NsPerMs
             /\ c.hard = c.cleanupStart + d.reserves.cleanup * NsPerMs
             /\ c.hard = d.hard
<1> DEFINE a == d.reserves.cleanup
           b == d.reserves.terminalization
           p == d.reserves.providerSend
           s == d.reserves.settlement
<1>1. d.hard \in Nat /\ a \in Nat /\ b \in Nat /\ p \in Nat /\ s \in Nat
  BY ReceiptWords
<1>2. TotalMs(d.reserves) = a + b + p + s
  BY DEF TotalMs
<1> HIDE DEF a, b, p, s
<1>3. /\ a * NsPerMs \in Nat /\ b * NsPerMs \in Nat /\ p * NsPerMs \in Nat /\ s * NsPerMs \in Nat
      /\ (a + b + p + s) * NsPerMs = a * NsPerMs + b * NsPerMs + p * NsPerMs + s * NsPerMs
      /\ a <= a * NsPerMs /\ b <= b * NsPerMs /\ p <= p * NsPerMs /\ s <= s * NsPerMs
  <2>1. NsPerMs \in Nat /\ NsPerMs >= 1
    BY StageAssumption DEF StageAssumption
  <2>2. (a + b + p + s) * NsPerMs = a * NsPerMs + b * NsPerMs + p * NsPerMs + s * NsPerMs
    BY <1>1, <2>1, SMTT(30)
  <2>3. \A m \in Nat : m * NsPerMs \in Nat /\ m <= m * NsPerMs
    BY <2>1, SMTT(30)
  <2> QED BY <1>1, <2>2, <2>3
<1> DEFINE an == a * NsPerMs
           bn == b * NsPerMs
           pn == p * NsPerMs
           sn == s * NsPerMs
<1>4. Cutoffs(d.hard, d.reserves) =
        [actorDone |-> d.hard - an - bn - pn - sn, toolSettled |-> d.hard - an - bn - pn,
         runtimeFinal |-> d.hard - an - bn, cleanupStart |-> d.hard - an, hard |-> d.hard]
  BY DEF Cutoffs, a, b, p, s
<1>5. an \in Nat /\ bn \in Nat /\ pn \in Nat /\ sn \in Nat
  BY <1>3
<1>6. TotalMs(d.reserves) * NsPerMs = an + bn + pn + sn /\ TotalMs(d.reserves) \in Nat
      /\ TotalMs(d.reserves) <= an + bn + pn + sn
  BY <1>1, <1>2, <1>3
<1> HIDE DEF an, bn, pn, sn
<1>7. d.reserves.settlement * NsPerMs = sn /\ d.reserves.providerSend * NsPerMs = pn
      /\ d.reserves.terminalization * NsPerMs = bn /\ d.reserves.cleanup * NsPerMs = an
  BY DEF a, b, p, s, an, bn, pn, sn
<1> QED BY <1>1, <1>4, <1>5, <1>6, <1>7 DEF Subtracts

\* With positive reserves the host and the runtime accept the same receipts.
LEMMA SameReceipts ==
  ASSUME NEW d \in Receipts, StageAssumption, ReserveAssumption, Positive(d.reserves)
  PROVE  Derive(d) <=> DeriveCutoffs(d)
<1> DEFINE c == Cutoffs(d.hard, d.reserves)
           total == TotalMs(d.reserves)
           ns == total * NsPerMs
           r == d.reserves
<1>1. /\ total \in Nat /\ ns \in Nat /\ total <= ns
      /\ c.actorDone = d.hard - ns
      /\ Subtracts(c) <=> ns < d.hard
      /\ c.toolSettled = c.actorDone + r.settlement * NsPerMs
      /\ c.runtimeFinal = c.toolSettled + r.providerSend * NsPerMs
      /\ c.cleanupStart = c.runtimeFinal + r.terminalization * NsPerMs
      /\ c.hard = c.cleanupStart + r.cleanup * NsPerMs
      /\ c.hard = d.hard
  BY SubtractionChain
<1>2. /\ d.hard \in Nat /\ d.hard <= U64Max /\ d.timeout \in Nat /\ U64Max \in Nat
      /\ r.cleanup \in Nat /\ r.terminalization \in Nat /\ r.providerSend \in Nat /\ r.settlement \in Nat
  BY ReceiptWords
<1>3. /\ r.cleanup * NsPerMs \in Nat /\ r.terminalization * NsPerMs \in Nat
      /\ r.providerSend * NsPerMs \in Nat /\ r.settlement * NsPerMs \in Nat
      /\ ns = r.cleanup * NsPerMs + r.terminalization * NsPerMs + r.providerSend * NsPerMs + r.settlement * NsPerMs
  <2>1. total = r.cleanup + r.terminalization + r.providerSend + r.settlement
    BY DEF TotalMs
  <2> HIDE DEF r
  <2>2. /\ r.cleanup * NsPerMs \in Nat /\ r.terminalization * NsPerMs \in Nat
        /\ r.providerSend * NsPerMs \in Nat /\ r.settlement * NsPerMs \in Nat
        /\ (r.cleanup + r.terminalization + r.providerSend + r.settlement) * NsPerMs
              = r.cleanup * NsPerMs + r.terminalization * NsPerMs + r.providerSend * NsPerMs + r.settlement * NsPerMs
    <3>1. NsPerMs \in Nat /\ NsPerMs >= 1
      BY StageAssumption DEF StageAssumption
    <3>2. (r.cleanup + r.terminalization + r.providerSend + r.settlement) * NsPerMs
              = r.cleanup * NsPerMs + r.terminalization * NsPerMs + r.providerSend * NsPerMs + r.settlement * NsPerMs
      BY <1>2, <3>1, SMTT(30)
    <3>3. \A m \in Nat : m * NsPerMs \in Nat
      BY <3>1, SMTT(30)
    <3> QED BY <1>2, <3>2, <3>3
  <2> QED BY <2>1, <2>2, Zenon
<1>4. total <= U64Max \div NsPerMs <=> ns <= U64Max
  BY <1>1, <1>2, SameOverflow
<1>5. Derive(d) <=> /\ total <= U64Max \div NsPerMs /\ d.hard > 0 /\ d.timeout > total /\ Subtracts(c)
                    /\ c.actorDone <= c.toolSettled /\ c.toolSettled <= c.runtimeFinal
                    /\ c.runtimeFinal <= c.cleanupStart /\ c.cleanupStart <= c.hard
  BY DEF Derive, ReservesValid
<1>6. DeriveCutoffs(d) <=> /\ total <= U64Max /\ d.timeout > total /\ Subtracts(c)
                           /\ r.cleanup * NsPerMs <= U64Max /\ r.terminalization * NsPerMs <= U64Max
                           /\ r.providerSend * NsPerMs <= U64Max /\ r.settlement * NsPerMs <= U64Max
  BY DEF DeriveCutoffs
<1> HIDE DEF c, total, ns
<1>7. Derive(d) <=> ns < d.hard /\ d.timeout > total
  BY <1>1, <1>2, <1>3, <1>4, <1>5, SMTT(30)
<1>8. DeriveCutoffs(d) <=> ns < d.hard /\ d.timeout > total
  BY <1>1, <1>2, <1>3, <1>6, SMTT(30)
<1> QED BY <1>7, <1>8

\* The budget a run's requests carry is three words.
LEMMA CarriedWords ==
  ASSUME NEW d \in Receipts, StageAssumption, ReserveAssumption
  PROVE  Carried(d) \in Budgets
<1> DEFINE c == Cutoffs(d.hard, d.reserves)
<1>1. U64Max \in Nat /\ d.hard \in Nat /\ d.hard <= U64Max /\ d.reserves.settlement \in Word
      /\ d.reserves.settlement \in Nat /\ d.reserves.providerSend \in Nat
      /\ d.reserves.cleanup \in Nat /\ d.reserves.terminalization \in Nat
  BY ReceiptWords
<1>2. CASE Derive(d)
  <2>1. /\ c.actorDone > 0 /\ c.actorDone <= c.toolSettled /\ c.toolSettled <= c.runtimeFinal
        /\ c.runtimeFinal <= c.cleanupStart /\ c.cleanupStart <= c.hard
    BY <1>2 DEF Derive, Subtracts
  <2>2. /\ c.actorDone = d.hard - TotalMs(d.reserves) * NsPerMs /\ TotalMs(d.reserves) * NsPerMs \in Nat
        /\ c.toolSettled = c.actorDone + d.reserves.settlement * NsPerMs
        /\ c.runtimeFinal = c.toolSettled + d.reserves.providerSend * NsPerMs
        /\ c.cleanupStart = c.runtimeFinal + d.reserves.terminalization * NsPerMs
        /\ c.hard = d.hard
    BY SubtractionChain
  <2>3. d.reserves.settlement * NsPerMs \in Nat /\ d.reserves.providerSend * NsPerMs \in Nat
        /\ d.reserves.terminalization * NsPerMs \in Nat
    BY <1>1, ReserveSpans
  <2>4. Carried(d) = [actorDone |-> c.actorDone, toolSettled |-> c.toolSettled, reserveMs |-> d.reserves.settlement]
    BY <1>2 DEF Carried
  <2> HIDE DEF c
  <2>5. c.actorDone \in Word /\ c.toolSettled \in Word
    BY <1>1, <2>1, <2>2, <2>3 DEF Word
  <2> QED BY <1>1, <2>4, <2>5 DEF Budgets
<1>3. CASE ~Derive(d)
  BY <1>1, <1>3 DEF Carried, Silent, Budgets, Word
<1> QED BY <1>2, <1>3

-----------------------------------------------------------------------------
WireWords ==
    /\ budget \in Budgets /\ receipt \in Receipts
    /\ receipt.hard > 0 => budget = Carried(receipt)

\* A request's budget is three words, those of the receipt once there is one.
LEMMA BudgetInv == Spec => []WireWords
<1>1. Init => WireWords
  <2> SUFFICES ASSUME Init PROVE WireWords
    OBVIOUS
  <2>1. 0 \in Word
    BY StageAssumption DEF StageAssumption, Word
  <2>2. receipt \in Receipts /\ receipt.hard = 0
    BY <2>1 DEF Init, NoReceipt, Receipts
  <2> QED BY <2>2 DEF Init, WireWords
<1>2. WireWords /\ [Next]_vars => WireWords'
  <2> SUFFICES ASSUME WireWords, [Next]_vars PROVE WireWords'
    OBVIOUS
  <2>1. CASE Request
    <3>1. PICK ms \in Word : budget' = [budget EXCEPT !.reserveMs = ms]
      BY <2>1 DEF Request
    <3>2. receipt' = receipt /\ receipt.hard = 0
      BY <2>1 DEF Request
    <3>3. budget' \in Budgets
      BY <3>1 DEF Budgets, WireWords
    <3> QED BY <3>2, <3>3 DEF WireWords
  <2>2. CASE Launch
    <3>1. receipt' \in Receipts /\ budget' = Carried(receipt')
      BY <2>2 DEF Launch
    <3>2. budget' \in Budgets
      BY <3>1, StageAssumption, ReserveAssumption, CarriedWords
    <3> QED BY <3>1, <3>2 DEF WireWords
  <2>3. CASE UNCHANGED vars
    BY <2>3 DEF vars, WireWords
  <2> QED BY <2>1, <2>2, <2>3 DEF Next
<1> QED BY <1>1, <1>2, PTL DEF Spec

\* For every word size and unit, runtime and bridge derive the same stages.
THEOREM SidesAgree == Spec => []StagesAgree
<1>1. WireWords => StagesAgree
  <2> SUFFICES ASSUME budget \in Budgets, budget.actorDone > 0
               PROVE  /\ Bridge.ok <=> Raw.ok
                      /\ Bridge.ok <=> Instants.ok
                      /\ Bridge.ok => Bridge.cut = Raw.cut /\ Bridge.cut = Instants.cut
    BY DEF StagesAgree, WireWords
  <2> DEFINE a == budget.actorDone
             t == budget.toolSettled
             ms == budget.reserveMs
  <2>1. a \in Word /\ t \in Word /\ ms \in Word /\ a > 0
    BY DEF Budgets
  <2>2. Bridge = DeriveBridge(a, t, ms) /\ Raw = DeriveRaw(a, t, ms)
        /\ Instants = DeriveInstants(a, t, ms)
    BY DEF Bridge, Raw, Instants
  <2>3. DeriveBridge(a, t, ms).cut = BridgeCut(a, t)
    BY DEF DeriveBridge
  <2> HIDE DEF a, t, ms
  <2>4. DeriveBridge(a, t, ms).ok <=> Sound(a, t, ms)
    BY <2>1, StageAssumption, BridgeAccepts
  <2>5. /\ DeriveRaw(a, t, ms).ok <=> Sound(a, t, ms)
        /\ Sound(a, t, ms) => DeriveRaw(a, t, ms).cut = BridgeCut(a, t)
    BY <2>1, StageAssumption, RawAccepts
  <2>6. /\ DeriveInstants(a, t, ms).ok <=> Sound(a, t, ms)
        /\ Sound(a, t, ms) => DeriveInstants(a, t, ms).cut = BridgeCut(a, t)
    BY <2>1, StageAssumption, InstantsAccept
  <2> QED BY <2>2, <2>3, <2>4, <2>5, <2>6
<1> QED BY <1>1, BudgetInv, PTL

\* For every word size and unit, no stage of an accepted budget is shorter than
\* the minimum and the last one ends with the reserve.
THEOREM StagesLast == Spec => []StageMinimum
<1>1. WireWords => StageMinimum
  <2> SUFFICES ASSUME budget \in Budgets, Bridge.ok
               PROVE  /\ Bridge.cut[1] - budget.actorDone >= MinStageMs * NsPerMs
                      /\ \A i \in 1..(StageCount - 1) :
                            Bridge.cut[i + 1] - Bridge.cut[i] >= MinStageMs * NsPerMs
                      /\ Bridge.cut[StageCount] = budget.toolSettled
    BY DEF StageMinimum, WireWords
  <2> DEFINE a == budget.actorDone
             t == budget.toolSettled
             ms == budget.reserveMs
  <2>1. a \in Word /\ t \in Word /\ ms \in Word
    BY DEF Budgets
  <2>2. DeriveBridge(a, t, ms).ok /\ Bridge.cut = BridgeCut(a, t)
    BY DEF Bridge, DeriveBridge
  <2> HIDE DEF a, t, ms
  <2>3. a > 0
    BY <2>2 DEF DeriveBridge
  <2>4. Sound(a, t, ms)
    BY <2>1, <2>2, <2>3, StageAssumption, BridgeAccepts
  <2>5. a \in Nat /\ t \in Nat /\ ms \in Nat
    BY <2>1, StageAssumption DEF Word, StageAssumption
  <2>6. /\ BridgeCut(a, t)[6] = t
        /\ BridgeCut(a, t)[1] - a >= MinStageMs * NsPerMs
        /\ \A i \in 1..5 : BridgeCut(a, t)[i + 1] - BridgeCut(a, t)[i] >= MinStageMs * NsPerMs
    BY <2>4, <2>5, StageAssumption, SoundStages
  <2>7. StageCount = 6 /\ StageCount - 1 = 5
    BY DEF StageCount
  <2> QED BY <2>2, <2>6, <2>7 DEF a, t
<1> QED BY <1>1, BudgetInv, PTL

\* For every word size, unit and frozen reserve, host and runtime accept the same
\* receipts, and a minted one has its cutoffs in order and its stages in reach.
THEOREM DeadlineSound == Spec => []DeadlineAgrees
<1> DEFINE c == Cutoffs(receipt.hard, receipt.reserves)
           now == receipt.hard - receipt.timeout * NsPerMs
           r == receipt.reserves
           ns == TotalMs(r) * NsPerMs
<1>1. WireWords => DeadlineAgrees
  <2> SUFFICES ASSUME WireWords PROVE DeadlineAgrees
    OBVIOUS
  <2>1. receipt \in Receipts /\ budget \in Budgets /\ StageAssumption /\ ReserveAssumption
    BY StageAssumption, ReserveAssumption DEF WireWords
  <2>2. Positive(r) => (Derive(receipt) <=> DeriveCutoffs(receipt))
    BY <2>1, SameReceipts
  <2>3. ASSUME Mint(now, receipt)
        PROVE  /\ Derive(receipt) /\ (r = Frozen => ValidateReceipt(receipt))
               /\ now < c.actorDone /\ c.actorDone < c.toolSettled /\ c.toolSettled < c.runtimeFinal
               /\ c.runtimeFinal < c.cleanupStart /\ c.cleanupStart < c.hard
               /\ Bridge.ok <=> r.settlement >= StageCount * MinStageMs
    <3>1. /\ TotalMs(r) \in Nat /\ ns \in Nat
          /\ c.actorDone = receipt.hard - ns
          /\ Subtracts(c) <=> ns < receipt.hard
          /\ c.toolSettled = c.actorDone + r.settlement * NsPerMs
          /\ c.runtimeFinal = c.toolSettled + r.providerSend * NsPerMs
          /\ c.cleanupStart = c.runtimeFinal + r.terminalization * NsPerMs
          /\ c.hard = c.cleanupStart + r.cleanup * NsPerMs
          /\ c.hard = receipt.hard
      BY <2>1, SubtractionChain
    <3>2. /\ receipt.hard \in Nat /\ receipt.timeout \in Nat /\ r.settlement \in Word
          /\ r.cleanup \in Nat /\ r.terminalization \in Nat /\ r.providerSend \in Nat /\ r.settlement \in Nat
      BY <2>1, ReceiptWords
    <3>3. /\ r.cleanup * NsPerMs \in Nat /\ r.terminalization * NsPerMs \in Nat
          /\ r.providerSend * NsPerMs \in Nat /\ r.settlement * NsPerMs \in Nat
          /\ r.cleanup <= r.cleanup * NsPerMs /\ r.terminalization <= r.terminalization * NsPerMs
          /\ r.providerSend <= r.providerSend * NsPerMs /\ r.settlement <= r.settlement * NsPerMs
      BY <2>1, <3>2, ReserveSpans
    <3>4. /\ now > 0 /\ receipt.timeout > TotalMs(r) /\ Positive(r) /\ ReservesValid(r)
      BY <2>3 DEF Mint, ReservesValid
    <3>5. r.cleanup > 0 /\ r.terminalization > 0 /\ r.providerSend > 0 /\ r.settlement > 0
      BY <3>4 DEF Positive
    <3>6. receipt.timeout * NsPerMs > ns /\ receipt.timeout * NsPerMs \in Nat
      <4>1. NsPerMs \in Nat /\ NsPerMs >= 1
        BY <2>1 DEF StageAssumption
      <4>2. PICK e \in Nat : receipt.timeout = TotalMs(r) + 1 + e
        <5> DEFINE tm == TotalMs(r)
                   to == receipt.timeout
        <5>1. tm \in Nat /\ to \in Nat /\ to > tm
          BY <3>1, <3>2, <3>4
        <5> HIDE DEF tm, to
        <5>2. to - tm - 1 \in Nat /\ to = tm + 1 + (to - tm - 1)
          BY <5>1
        <5>3. \E e \in Nat : to = tm + 1 + e
          BY <5>2, Zenon
        <5> QED BY <5>3 DEF tm, to
      <4>3. receipt.timeout * NsPerMs = ns + NsPerMs + e * NsPerMs
        BY <3>1, <4>1, <4>2, SMTT(30)
      <4>4. e * NsPerMs \in Nat
        BY <4>1, SMTT(30)
      <4> QED BY <3>1, <4>1, <4>3, <4>4
    <3> HIDE DEF ns
    <3>7. ns < receipt.hard /\ now < c.actorDone /\ now \in Int /\ receipt.hard > 0
      BY <3>1, <3>2, <3>4, <3>6
    <3>8. /\ c.actorDone < c.toolSettled /\ c.toolSettled < c.runtimeFinal
          /\ c.runtimeFinal < c.cleanupStart /\ c.cleanupStart < c.hard /\ c.actorDone > 0
          /\ c.actorDone \in Int /\ c.toolSettled \in Int /\ c.runtimeFinal \in Int /\ c.cleanupStart \in Int
      <4> HIDE DEF c, now
      <4> QED BY <3>1, <3>2, <3>3, <3>4, <3>5, <3>7
    <3>9. Derive(receipt)
      <4>1. Subtracts(c)
        BY <3>1, <3>7
      <4>2. c.actorDone <= c.toolSettled /\ c.toolSettled <= c.runtimeFinal
            /\ c.runtimeFinal <= c.cleanupStart /\ c.cleanupStart <= c.hard
        <5> HIDE DEF c
        <5> QED BY <3>1, <3>2, <3>8
      <4> QED BY <3>4, <3>7, <4>1, <4>2 DEF Derive
    <3>10. r = Frozen => ValidateReceipt(receipt)
      BY <2>2, <3>4, <3>9 DEF ValidateReceipt
    <3>11. budget = [actorDone |-> c.actorDone, toolSettled |-> c.toolSettled, reserveMs |-> r.settlement]
      BY <3>7, <3>9 DEF WireWords, Carried
    <3>12. c.actorDone \in Word /\ c.toolSettled \in Word
      BY <2>1, <3>11 DEF Budgets
    <3>13. Bridge = DeriveBridge(c.actorDone, c.toolSettled, r.settlement)
      BY <3>11 DEF Bridge
    <3>14. Bridge.ok <=> Sound(c.actorDone, c.toolSettled, r.settlement)
      <4> HIDE DEF c
      <4> QED BY <2>1, <3>2, <3>8, <3>12, <3>13, BridgeAccepts
    <3>15. c.toolSettled - c.actorDone = r.settlement * NsPerMs
      <4> HIDE DEF c
      <4> QED BY <3>1, <3>3, <3>8
    <3>16. Bridge.ok <=> r.settlement >= StageCount * MinStageMs
      BY <3>14, <3>15 DEF Sound, StageCount
    <3> QED BY <3>7, <3>8, <3>9, <3>10, <3>16
  <2> QED BY <2>2, <2>3 DEF DeadlineAgrees
<1> QED BY <1>1, BudgetInv, PTL
=============================================================================
