----------------------- MODULE ProcessOwnershipProofs ------------------------
(***************************************************************************)
(* What ProcessOwnership promises, and with it every specification that    *)
(* implements it.  The books and the processes agree in every state; the   *)
(* invariant adds what makes that inductive: an owner that may still be    *)
(* admitted is not held, and readiness is claimed with everything that is  *)
(* held reported empty.                                                    *)
(***************************************************************************)
EXTENDS ProcessOwnership, TLAPS

BooksInv ==
    /\ fresh \subseteq Owners /\ held \subseteq Owners
    /\ fresh \cap held = {}
    /\ ready => held \subseteq vouched
    /\ BooksAgree

LEMMA BooksInit == Init => BooksInv
  BY DEF Init, BooksInv, BooksAgree

LEMMA BooksNext ==
    ASSUME BooksInv, [Next]_vars
    PROVE  BooksInv'
<1>1. ASSUME NEW o \in Owners, Admit(o)
      PROVE  BooksInv'
  BY <1>1 DEF BooksInv, BooksAgree, Admit, StrikesOnlyEmpty
<1>2. ASSUME NEW o \in Owners, Run(o)
      PROVE  BooksInv'
  BY <1>2 DEF BooksInv, BooksAgree, Run, books
<1>3. ASSUME NEW o \in Owners, End(o)
      PROVE  BooksInv'
  BY <1>3 DEF BooksInv, BooksAgree, End, books
<1>4. CASE Settle
  BY <1>4 DEF BooksInv, BooksAgree, Settle, StrikesOnlyEmpty
<1>5. CASE Claim
  BY <1>5 DEF BooksInv, BooksAgree, Claim, books
<1>6. CASE UNCHANGED vars
  BY <1>6 DEF BooksInv, BooksAgree, vars
<1> QED BY <1>1, <1>2, <1>3, <1>4, <1>5, <1>6 DEF Next

LEMMA BooksHold == Spec => []BooksInv
<1>1. BooksInv /\ [Next]_vars => BooksInv'
  BY BooksNext
<1> QED BY BooksInit, <1>1, PTL DEF Spec

(* A live process belongs to an owner the actor answers for and never to   *)
(* one that was reported empty; none is left behind the claim of readiness *)
(* (docs/ARCHITECTURE.md: processes remain owned until they terminate).    *)
THEOREM BooksAndProcessesAgree == Spec => []BooksAgree
<1>1. BooksInv => BooksAgree
  BY DEF BooksInv
<1> QED BY BooksHold, <1>1, PTL

(* An owner that was refused or struck off the books never comes back:     *)
(* nothing admits it again and no process of it ever starts.               *)
THEOREM OwnersAreGivenUpForGood == Spec => GivenUpForGood
<1>1. ASSUME BooksInv, [Next]_vars
      PROVE  [GivenUp \subseteq GivenUp' /\ GivenUp \cap live' = {}]_vars
  <2>1. fresh' \subseteq fresh /\ held' \subseteq held \cup fresh
    BY <1>1 DEF Next, Admit, Run, End, Settle, Claim, books, vars
  <2>2. live' \subseteq held
    BY <1>1 DEF Next, Admit, Run, End, Settle, Claim, books, vars, BooksInv, BooksAgree
  <2> QED BY <2>1, <2>2 DEF GivenUp
<1> QED BY BooksHold, <1>1, PTL DEF Spec, GivenUpForGood

(* The report that an owner is empty (verified results, a verified census, *)
(* a clean closed lease) is never taken back and never becomes false.      *)
THEOREM ReportsOfEmptinessStand == Spec => ReportsStand
<1>1. ASSUME BooksInv, [Next]_vars
      PROVE  [vouched \subseteq vouched' /\ vouched \cap live' = {}]_vars
  BY <1>1 DEF Next, Admit, Run, End, Settle, Claim, books, vars, BooksInv, BooksAgree
<1> QED BY BooksHold, <1>1, PTL DEF Spec, ReportsStand
=============================================================================
