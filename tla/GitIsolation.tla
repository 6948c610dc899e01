---------------------------- MODULE GitIsolation ----------------------------
(***************************************************************************)
(* isolate_preexisting_git_history: a script in the sandbox builds a new   *)
(* repository directory that holds the current tree only, moves .git aside, *)
(* moves the new one in, deletes the old one and compares the status.  Its *)
(* trap runs when it exits and when a signal reaches it; after a signal    *)
(* the shell goes on with the next command.                                *)
(***************************************************************************)
VARIABLE git         \* the script and the directories it moves

GitResting == [pc |-> "idle", repo |-> "old", aside |-> FALSE, fresh |-> FALSE, trapped |-> FALSE]

InitGit == git = GitResting

(* the trap without the move back                                          *)
TrapForgets(g) == [g EXCEPT !.aside = FALSE, !.fresh = FALSE]

Trap(g) ==
    [g EXCEPT !.repo = IF @ = "none" /\ g.aside THEN "old" ELSE @, !.aside = FALSE, !.fresh = FALSE]

GitExit == git' = [Trap(git) EXCEPT !.pc = "failed"]

GitStart(preserve) == git.pc = "idle" /\ git' = [git EXCEPT !.pc = IF preserve THEN "ok" ELSE "build"]

GitBuild ==
    /\ git.pc = "build"
    /\ (~git.trapped /\ git' = [git EXCEPT !.fresh = TRUE, !.pc = "aside"]) \/ GitExit

GitAside ==
    /\ git.pc = "aside"
    /\ git' = [git EXCEPT !.aside = TRUE, !.repo = "none", !.pc = "swap"] \/ GitExit

GitSwap ==
    /\ git.pc = "swap"
    /\ (git.fresh /\ git' = [git EXCEPT !.fresh = FALSE, !.repo = "new", !.pc = "drop"]) \/ GitExit

GitDrop ==
    /\ git.pc = "drop"
    /\ (git.aside /\ git' = [git EXCEPT !.aside = FALSE, !.pc = "compare"]) \/ GitExit

GitCompare ==
    /\ git.pc = "compare"
    /\ (~git.trapped /\ git' = [git EXCEPT !.pc = "ok"]) \/ GitExit

GitRunning == git.pc \in {"build", "aside", "swap", "drop", "compare"}

(* HUP, INT or TERM, at most once                                          *)
GitSignal == GitRunning /\ ~git.trapped /\ git' = [Trap(git) EXCEPT !.trapped = TRUE]

GitKill == GitRunning /\ git' = [git EXCEPT !.pc = "killed"]

GitScript == GitBuild \/ GitAside \/ GitSwap \/ GitDrop \/ GitCompare

(* the next command cannot succeed                                         *)
GitForced ==
    \/ git.pc \in {"build", "compare"} /\ git.trapped
    \/ git.pc = "swap" /\ ~git.fresh
    \/ git.pc = "drop" /\ ~git.aside
=============================================================================
