--------------------------- MODULE OwnedProcesses ---------------------------
(***************************************************************************)
(* The processes of one owned set, as the actor script sees them in /proc. *)
(* Every process the actor starts carries the owner token of its request   *)
(* in its environment and starts in the process group of its leader.       *)
(*                                                                         *)
(*   leader   the command's shell: in the group, with the token            *)
(*   child    a descendant that stayed in the group and lost the token     *)
(*   daemon   a descendant that kept the token, in the group or out of it  *)
(*   monitor  the background monitor: its own group, with the token        *)
(*                                                                         *)
(* A walk over /proc is one step of the model.  A process that neither is  *)
(* in the group nor carries the token is not owned in the code's sense.    *)
(***************************************************************************)
EXTENDS FiniteSets

VARIABLE procs       \* the live processes of every owned set

Members == {"leader", "child", "daemon", "monitor"}

GroupOf(p) == p \cap {"leader", "child"}

TokensOf(p) == p \cap {"leader", "daemon", "monitor"}

(* group_alive and owner_alive: some process that is not a zombie          *)
GroupAlive(p) == GroupOf(p) # {}

OwnerAlive(p) == TokensOf(p) # {}

OwnedAlive(p) == GroupAlive(p) \/ OwnerAlive(p)

(* TERM may be ignored by any of the processes it reaches                  *)
AfterTerm(p, hit) == {p \ gone : gone \in SUBSET (p \cap hit)}

(* KILL may not, but signal_owned walks a list of pids: a daemon that forks *)
(* during the walk leaves one that was not on the list                     *)
AfterKill(p, hit) ==
    {p \ hit} \cup {(p \ hit) \cup ({"daemon"} \cap p)}

(* what the processes do on their own: end, or fork what keeps the token   *)
(* and what does not; a token that was lost is not found again             *)
Forks(p) == IF p \cap {"leader", "daemon"} = {} THEN {} ELSE {"child", "daemon"}

Behaviours(p) == {p \ {x} : x \in p \ {"monitor"}} \cup {p \cup {x} : x \in Forks(p)}
=============================================================================
