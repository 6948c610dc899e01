---------------------------- MODULE CallContract ----------------------------
(***************************************************************************)
(* What the agent loop may rely on when it has tool calls executed across  *)
(* a process boundary: calls go out one at a time, each is started at most *)
(* once and only if it was sent, a result is accepted only for a call      *)
(* whose own execution completed, and the first call that is not accepted  *)
(* is the last one sent.  A call that was given up may still be started by *)
(* the other side.  StdioBridge implements this contract.                  *)
(***************************************************************************)
EXTENDS Integers

CONSTANT MaxCalls   \* bound: tool calls of one run

VARIABLES
    verdict,    \* the runtime's view of each call
    runs        \* the handler's execution of each call

CallIds == 0..(MaxCalls - 1)
Runs == {"none", "started", "completed", "failed"}

Init ==
    /\ verdict = [c \in CallIds |-> "none"]
    /\ runs = [c \in CallIds |-> "none"]

SendCall(c) ==
    /\ verdict[c] = "none"
    /\ \A d \in CallIds : d < c => verdict[d] = "accepted"
    /\ verdict' = [verdict EXCEPT ![c] = "sent"]
    /\ UNCHANGED runs

Start(c) ==
    /\ runs[c] = "none" /\ verdict[c] \in {"sent", "lost"}
    /\ \A d \in CallIds : d < c => runs[d] = "completed"
    /\ runs' = [runs EXCEPT ![c] = "started"]
    /\ UNCHANGED verdict

End(c) ==
    /\ runs[c] = "started"
    /\ \E r \in {"completed", "failed"} : runs' = [runs EXCEPT ![c] = r]
    /\ UNCHANGED verdict

AcceptResult(c) ==
    /\ verdict[c] = "sent" /\ runs[c] = "completed"
    /\ verdict' = [verdict EXCEPT ![c] = "accepted"]
    /\ UNCHANGED runs

\* A call that never left, or whose answer is not coming.
Lose(c) ==
    /\ verdict[c] \in {"none", "sent"}
    /\ \A d \in CallIds : d < c => verdict[d] = "accepted"
    /\ verdict' = [verdict EXCEPT ![c] = "lost"]
    /\ UNCHANGED runs

Next == \E c \in CallIds : SendCall(c) \/ Start(c) \/ End(c) \/ AcceptResult(c) \/ Lose(c)

Spec == Init /\ [][Next]_<<verdict, runs>>
=============================================================================
