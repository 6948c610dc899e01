-------------------------- MODULE ProcessOwnership --------------------------
(***************************************************************************)
(* What the terminal actor promises of the processes it starts, whatever   *)
(* its calls, its cleanup and its transport do: docs/ARCHITECTURE.md, the  *)
(* processes of a request remain owned until they terminate.               *)
(*                                                                         *)
(* Every request owns one set of processes, here one owner.  An owner is   *)
(* admitted once, has processes only while it is held and nobody has been  *)
(* told that it is empty, and is given up for good once it is empty.       *)
(***************************************************************************)
CONSTANT Owners

VARIABLES
    fresh,      \* the owners whose request has not been admitted
    held,       \* the owners the actor answers for
    live,       \* the owners with a live process
    vouched,    \* the owners a caller was told are empty
    ready       \* the workspace was declared free of owned processes

books == <<fresh, held, vouched>>
vars == <<fresh, held, live, vouched, ready>>

Init ==
    /\ fresh = Owners
    /\ held = {} /\ live = {} /\ vouched = {}
    /\ ready = FALSE

(* owners the step strikes off the books have no process                   *)
StrikesOnlyEmpty == (held \ held') \cap live = {}

(* a request is admitted; an owner is never admitted a second time, and    *)
(* none behind the claim of readiness                                      *)
Admit(o) ==
    /\ o \in fresh /\ ~ready
    /\ fresh' = fresh \ {o}
    /\ o \in held' /\ held' \subseteq held \cup {o} /\ StrikesOnlyEmpty
    /\ UNCHANGED <<live, vouched, ready>>

Run(o) ==
    /\ o \in held \ vouched
    /\ live' = live \cup {o}
    /\ UNCHANGED <<books, ready>>

End(o) ==
    /\ o \in live
    /\ live' = live \ {o}
    /\ UNCHANGED <<books, ready>>

(* an answer: requests are refused, owners given up, and empty ones        *)
(* reported as empty                                                       *)
Settle ==
    /\ fresh' \subseteq fresh
    /\ held' \subseteq held /\ StrikesOnlyEmpty
    /\ vouched \subseteq vouched' /\ (vouched' \ vouched) \cap live = {}
    /\ UNCHANGED <<live, ready>>

Claim ==
    /\ ~ready /\ held \subseteq vouched
    /\ ready' = TRUE
    /\ UNCHANGED <<books, live>>

Next ==
    \/ \E o \in Owners : Admit(o) \/ Run(o) \/ End(o)
    \/ Settle
    \/ Claim

Spec == Init /\ [][Next]_vars

(***************************************************************************)
(* What follows from it.                                                   *)
(***************************************************************************)
(* The books and the processes agree: what lives is held, nobody was told  *)
(* that it is empty, and nothing lives once readiness was claimed.         *)
BooksAgree ==
    /\ live \subseteq held
    /\ live \cap vouched = {}
    /\ ready => live = {}

(* Neither fresh nor held: an owner that was refused or given up.          *)
GivenUp == Owners \ (fresh \cup held)

(* What was given up stays given up, and no process of it ever starts.     *)
GivenUpForGood == [][GivenUp \subseteq GivenUp' /\ GivenUp \cap live' = {}]_vars

(* A report that an owner is empty is never taken back.                    *)
ReportsStand == [][vouched \subseteq vouched' /\ vouched \cap live' = {}]_vars
=============================================================================
