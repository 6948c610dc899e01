---------------------------- MODULE StageBudget ----------------------------
(***************************************************************************)
(* The derivations of DeadlineCutoffs and SettlementStages side by side:   *)
(* on any receipt of a deadline, and on the budget a tool request carries  *)
(* on the wire, which is any three 64-bit words before there is a receipt  *)
(* and the receipt's own afterwards.                                       *)
(***************************************************************************)
EXTENDS DeadlineCutoffs

VARIABLES
    budget,     \* [actorDone, toolSettled, reserveMs] of the current request
    receipt     \* the deadline of the run; its hard deadline is 0 before there is one

vars == <<budget, receipt>>

Budgets == [actorDone : Word, toolSettled : Word, reserveMs : Word]

Bridge == DeriveBridge(budget.actorDone, budget.toolSettled, budget.reserveMs)
Raw == DeriveRaw(budget.actorDone, budget.toolSettled, budget.reserveMs)
Instants == DeriveInstants(budget.actorDone, budget.toolSettled, budget.reserveMs)

NoReceipt == [hard |-> 0, timeout |-> 0, reserves |-> Frozen]
Silent == [actorDone |-> 0, toolSettled |-> 0, reserveMs |-> 0]

\* The budget of every request of a run with this receipt.
Carried(d) ==
    LET c == Cutoffs(d.hard, d.reserves)
    IN  IF Derive(d)
        THEN [actorDone |-> c.actorDone, toolSettled |-> c.toolSettled, reserveMs |-> d.reserves.settlement]
        ELSE Silent

Init == budget \in Budgets /\ receipt = NoReceipt

\* Another request, with another reserve.
Request ==
    /\ receipt.hard = 0
    /\ \E ms \in Word : budget' = [budget EXCEPT !.reserveMs = ms]
    /\ UNCHANGED receipt

Launch ==
    /\ receipt.hard = 0 /\ budget = Silent
    /\ receipt' \in Receipts /\ receipt'.hard > 0
    /\ budget' = Carried(receipt')

Next == Request \/ Launch

Spec == Init /\ [][Next]_vars

\* Runtime and bridge, which derive the cutoffs apart and by different formulas,
\* accept the same budgets and then mean the same six instants, up to the last
\* value of the word.  (The wire's own validation excludes actor_done = 0.)
StagesAgree ==
    budget.actorDone > 0 =>
        /\ Bridge.ok <=> Raw.ok
        /\ Bridge.ok <=> Instants.ok
        /\ Bridge.ok => Bridge.cut = Raw.cut /\ Bridge.cut = Instants.cut

\* "Non-borrowable subdivisions": in an accepted budget every stage, the first
\* one after actor_done included, lasts at least the minimum, and the last one
\* ends with the reserve.
StageMinimum ==
    Bridge.ok =>
        /\ Bridge.cut[1] - budget.actorDone >= MinStageMs * NsPerMs
        /\ \A i \in 1..(StageCount - 1) :
              Bridge.cut[i + 1] - Bridge.cut[i] >= MinStageMs * NsPerMs
        /\ Bridge.cut[StageCount] = budget.toolSettled

\* deadline.py and deadline.rs guard their arithmetic differently, by division
\* and by checked products, and accept the same receipts all the same, whatever
\* the positive reserves.  A receipt that was minted is always accepted: its
\* cutoffs follow one another between the instant of the mint and the hard
\* deadline, and the requests of its run get their stages exactly when the
\* settlement reserve has room for them.
DeadlineAgrees ==
    LET c == Cutoffs(receipt.hard, receipt.reserves)
        now == receipt.hard - receipt.timeout * NsPerMs
    IN  /\ Positive(receipt.reserves) => (Derive(receipt) <=> DeriveCutoffs(receipt))
        /\ Mint(now, receipt) =>
              /\ Derive(receipt) /\ (receipt.reserves = Frozen => ValidateReceipt(receipt))
              /\ now < c.actorDone /\ c.actorDone < c.toolSettled /\ c.toolSettled < c.runtimeFinal
              /\ c.runtimeFinal < c.cleanupStart /\ c.cleanupStart < c.hard
              /\ Bridge.ok <=> receipt.reserves.settlement >= StageCount * MinStageMs
=============================================================================
