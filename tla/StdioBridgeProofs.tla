-------------------------- MODULE StdioBridgeProofs --------------------------
(***************************************************************************)
(* StdioBridge, for every placement of the signed cutoffs, every number of *)
(* calls and every interleaving of runtime, handler, clock and caller: the *)
(* types, the publication window, what a return of the bridge means, and   *)
(* that the two sides hold the conversation CallContract describes.        *)
(***************************************************************************)
EXTENDS StdioBridge, SequenceTheorems, TLAPS

\* What the types of the next state rest on: a sequence number is left for the
\* call under way, and only a settlement is encoded and written.
Settling ==
    /\ rt = "sending" => nextSeq \in CallIds
    /\ task = "running" => b \in {"execute", "abort"}
    /\ b = "execute" => task \in {"running", "done"}
    /\ b = "execute" /\ task = "done" => result \in {"completed", "fatal", "cancelled"}
    /\ b \in {"encode", "encoded", "write"} => result \in {"completed", "fatal"}

TypeInv == TypeOK /\ Settling

\* Where the stop of the child is, against the clock.
WindowInv ==
    /\ now \in Nat
    /\ stop = "term" => now >= CleanupStart
    /\ PublicationWindowKept

\* The handler task is accounted for wherever the bridge is.
TaskInv ==
    /\ task = "running" => b \in {"execute", "abort"}
    /\ b = "read" => task = "none"
    /\ b \in {"encode", "encoded", "write", "buffered", "drain"} /\ ~control => task = "none"
    /\ executionCompleted => task \notin {"running", "cancelling"}
    /\ executionCompleted => b \in {"joint", "boundJoint", "drainStderr", "reapStderr", "drainBare", "returned"}

\* The child is gone before the stop reports so, and published before it exits 0.
ChildInv ==
    /\ stop = "done" =>
          /\ rt = "exited"
          /\ b \in {"joint", "boundJoint", "drainStderr", "reapStderr", "drainBare", "returned"}
    /\ rt = "exiting" => published
    /\ exitCode = "zero" => published
    /\ b = "returned" <=> outcome # "none"

ReturnInv ==
    /\ outcome \in {"none", "ok", "error", "unverified", "cancelled"}
    /\ outcome = "ok" => published /\ rt = "exited" /\ task = "none"
    /\ outcome = "error" => executionCompleted /\ stop = "done"

\* What may be left when a cancellation escapes: the hard bound is reached only by a
\* task that outlived its budget, or past the hard deadline.
Outlived == ~executionCompleted \/ now >= HardDeadline

BareInv ==
    /\ now \in Nat
    /\ b \in {"awaitTask", "boundTask", "drainBare"} => Outlived
    /\ b = "boundJoint" => now >= HardDeadline
    /\ b \in {"drainStderr", "reapStderr"} => stop = "done" \/ now >= HardDeadline
    /\ outcome = "cancelled" => stop = "done" \/ Outlived

CleanInv ==
    /\ published \in BOOLEAN /\ control \in BOOLEAN
    /\ TaskInv /\ ChildInv /\ ReturnInv /\ BareInv

-----------------------------------------------------------------------------
\* The bounds and cutoffs are natural numbers.
LEMMA BridgeBounds ==
    /\ MaxCalls \in Nat /\ MaxTime \in Nat /\ CleanupStart \in Nat /\ HardDeadline \in Nat
    /\ \A c \in CallIds : c \in Nat /\ c + 1 \in 0..MaxCalls
BY BridgeAssumption DEF CallIds

\* An update keeps the type of a table of calls, whatever call it is about.
LEMMA ExceptType ==
    ASSUME NEW S, NEW T, NEW f \in [S -> T], NEW x, NEW v \in T
    PROVE  [f EXCEPT ![x] = v] \in [S -> T]
OBVIOUS

\* Both processes start with well-typed states and empty pipes.
LEMMA TypeInit == Init => TypeInv
<1> SUFFICES ASSUME Init PROVE TypeInv
    OBVIOUS
<1>1. RuntimeType
  <2>1. 0 \in 0..MaxCalls
        BY BridgeBounds
  <2>2. NoMessage \in Messages
        BY DEF NoMessage, Messages
  <2>. QED  BY <2>1, <2>2 DEF Init, RuntimeType, Ops
<1>2. PipeType
      BY EmptySeq DEF Init, PipeType
<1>3. BridgeType
      BY DEF Init, BridgeType, Messages, Errors, NoMessage
<1>4. CleanupType
      BY DEF Init, CleanupType
<1>5. Settling
      BY DEF Init, Settling
<1>. QED  BY <1>1, <1>2, <1>3, <1>4, <1>5 DEF TypeInv, TypeOK

\* The runtime keeps its types; the bridge can only kill it.
LEMMA RuntimeTypeStep == TypeInv /\ [Next]_vars => RuntimeType'
<1> SUFFICES ASSUME TypeInv, [Next]_vars
             PROVE  RuntimeType'
    OBVIOUS
<1> USE DEF TypeInv, TypeOK
<1>1. CASE Tick
     BY <1>1 DEF Tick, runtime, pipes, serving, handling, verified, RuntimeType
<1>2. CASE Call
     BY <1>2 DEF Call, AsRuntime, serving, handling, verified, pipes, RuntimeType
<1>3. CASE Send
     BY <1>3, ExceptType, BridgeBounds DEF Send, AsRuntime, serving, handling,
         verified, RuntimeType, Settling
<1>4. CASE SendFails
     BY <1>4, ExceptType DEF SendFails, AsRuntime, GiveUpCall, serving, handling,
         verified, RuntimeType
<1>5. CASE Receive
     BY <1>5, HeadTailProperties DEF Receive, AsRuntime, serving, handling, verified,
         RuntimeType, PipeType
<1>6. CASE ReceiveFails
     BY <1>6, ExceptType DEF ReceiveFails, AsRuntime, GiveUpCall, serving, handling,
         verified, pipes, RuntimeType
<1>7. CASE Accept
     BY <1>7, ExceptType DEF Accept, AsRuntime, serving, handling, verified, pipes,
         RuntimeType
<1>8. CASE Refuse
     BY <1>8, ExceptType DEF Refuse, AsRuntime, GiveUpCall, serving, handling,
         verified, pipes, RuntimeType
<1>9. CASE Abandon
     BY <1>9, ExceptType DEF Abandon, AsRuntime, GiveUpCall, serving, handling,
         verified, pipes, RuntimeType
<1>10. CASE FinishRun
     BY <1>10 DEF FinishRun, AsRuntime, serving, handling, verified, pipes,
         RuntimeType
<1>11. CASE Publish
     BY <1>11 DEF Publish, AsRuntime, serving, handling, verified, pipes, RuntimeType
<1>12. CASE Exit
     BY <1>12 DEF Exit, AsRuntime, serving, handling, verified, pipes, RuntimeType
<1>13. CASE KillChild
     BY <1>13 DEF KillChild, runtime, pipes, serving, handling, verified, RuntimeType
<1>14. CASE UNCHANGED <<now, runtime>>
     BY <1>14 DEF RuntimeType, runtime
<1>15. CASE Handler
     BY <1>14, <1>15 DEF Handler, TaskEnds, AsHandler, runtime, pipes, serving,
         handling, verified, CleanupEnds
<1>16. CASE ReadRequest \/ ReadEof \/ ReadTimeout \/ TakeResult \/ ExecuteTimeout \/
                 EncodeResponse \/ Encoded \/ WriteResponse \/ StartDrain \/ Drained \/
                 DrainFails \/ CancelTask \/ AwaitTask \/ LeaveTask \/ ChildGone \/ TerminateChild \/
                 JointDone \/ JointGivenUp \/ LeaveJoint \/ DrainStderr \/ ReturnError \/ ReturnBare
     BY <1>14, <1>16 DEF ReadRequest, AsBridge, runtime, pipes, serving, handling,
         verified, Raise, LineReady, LineError, Errors, ReadEof, ReadTimeout, TakeResult,
         ExecuteTimeout, EncodeResponse, Encoded, WriteResponse, StartDrain, Drained,
         FatalNow, DrainFails, CancelTask, Join, AwaitTask, LeaveTask, ChildGone, TerminateChild,
         JointDone, JointGivenUp, LeaveJoint, DrainStderr, ReturnError, ReturnBare, CleanupOk
<1>17. CASE CallerCancel
     BY <1>14, <1>17 DEF CallerCancel, runtime, pipes, serving, handling, verified,
         Raise
<1>18. CASE UNCHANGED vars
     BY <1>14, <1>18 DEF vars, runtime, pipes, serving, handling, verified
<1>. QED
     BY <1>1, <1>2, <1>3, <1>4, <1>5, <1>6, <1>7, <1>8, <1>9, <1>10, <1>11, <1>12,
        <1>13, <1>14, <1>15, <1>16, <1>17, <1>18 DEF Next, Runtime, Handler, Bridge, Done

\* Only whole messages and torn lines enter the pipes.
LEMMA PipeTypeStep == TypeInv /\ [Next]_vars => PipeType'
<1> SUFFICES ASSUME TypeInv, [Next]_vars
             PROVE  PipeType'
    OBVIOUS
<1> USE DEF TypeInv, TypeOK
<1>1. CASE Send
     BY <1>1, BridgeBounds DEF Send, AsRuntime, serving, handling, verified, PipeType,
         RuntimeType, Settling, Messages, Ops
<1>2. CASE SendFails
  <2>1. \A kind \in {"torn", op} : [seq |-> nextSeq, kind |-> kind] \in Messages
        BY <1>2, BridgeBounds DEF SendFails, Settling, RuntimeType, Ops, Messages
  <2>. QED
       BY <1>2, <2>1, AppendProperties, ZenonT(60) DEF SendFails, AsRuntime, PipeType
<1>3. CASE Receive
     BY <1>3, HeadTailProperties DEF Receive, AsRuntime, serving, handling, verified,
         PipeType
<1>4. CASE ReadRequest
     BY <1>4, HeadTailProperties DEF ReadRequest, AsBridge, runtime, pipes, serving,
         handling, verified, Raise, LineReady, LineError, Errors, PipeType
<1>5. CASE ReadEof
     BY <1>5 DEF ReadEof, AsBridge, runtime, pipes, serving, handling, verified,
         Raise, PipeType
<1>6. CASE ReadTimeout
     BY <1>6 DEF ReadTimeout, AsBridge, runtime, pipes, serving, handling, verified,
         Raise, PipeType
<1>7. CASE TakeResult
     BY <1>7 DEF TakeResult, AsBridge, runtime, pipes, serving, handling, verified,
         Raise, PipeType
<1>8. CASE EncodeResponse
     BY <1>8 DEF EncodeResponse, AsBridge, runtime, pipes, serving, handling,
         verified, Raise, PipeType
<1>9. CASE Encoded
     BY <1>9 DEF Encoded, AsBridge, runtime, pipes, serving, handling, verified,
         Raise, PipeType
<1>10. CASE WriteResponse
  <2>1. [seq |-> request.seq, kind |-> result] \in Messages
        BY <1>10 DEF WriteResponse, Settling, BridgeType, Messages
  <2>. QED
       BY <1>10, <2>1, AppendProperties, ZenonT(60) DEF WriteResponse, AsBridge, Raise, PipeType
<1>11. CASE StartDrain
     BY <1>11 DEF StartDrain, AsBridge, runtime, pipes, serving, handling, verified,
         Raise, PipeType
<1>12. CASE Drained
     BY <1>12 DEF Drained, AsBridge, runtime, pipes, serving, handling, verified,
         Raise, FatalNow, PipeType
<1>13. CASE DrainFails
     BY <1>13 DEF DrainFails, AsBridge, runtime, pipes, serving, handling, verified,
         Raise, PipeType
<1>14. CASE CallerCancel
     BY <1>14 DEF CallerCancel, runtime, pipes, serving, handling, verified, Raise,
         PipeType
<1>15. CASE UNCHANGED <<pipes>>
     BY <1>15 DEF PipeType, pipes
<1>16. CASE Call \/ ReceiveFails \/ Accept \/ Refuse \/ Abandon \/ FinishRun \/
                 Publish \/ Exit
     BY <1>15, <1>16 DEF Call, AsRuntime, serving, handling, verified, pipes,
         ReceiveFails, GiveUpCall, Accept, Refuse, Abandon, FinishRun, Publish, Exit
<1>17. CASE Handler
     BY <1>15, <1>17 DEF Handler, TaskEnds, AsHandler, runtime, pipes, serving,
         handling, verified, CleanupEnds
<1>18. CASE ExecuteTimeout \/ CancelTask \/ AwaitTask \/ LeaveTask \/ ChildGone \/ TerminateChild
                 \/ KillChild \/ JointDone \/ JointGivenUp \/ LeaveJoint \/ DrainStderr \/ ReturnError \/ ReturnBare
     BY <1>15, <1>18 DEF ExecuteTimeout, AsBridge, runtime, pipes, serving, handling,
         verified, CancelTask, Join, AwaitTask, LeaveTask, ChildGone, TerminateChild, KillChild,
         JointDone, JointGivenUp, LeaveJoint, DrainStderr, ReturnError, ReturnBare, CleanupOk
<1>19. CASE Tick
     BY <1>15, <1>19 DEF Tick, runtime, pipes, serving, handling, verified
<1>20. CASE UNCHANGED vars
     BY <1>15, <1>20 DEF vars, runtime, pipes, serving, handling, verified
<1>. QED
     BY <1>1, <1>2, <1>3, <1>4, <1>5, <1>6, <1>7, <1>8, <1>9, <1>10, <1>11, <1>12,
        <1>13, <1>14, <1>15, <1>16, <1>17, <1>18, <1>19, <1>20 DEF Next, Runtime, Handler,
        Bridge, Done

\* The bridge keeps its types.
LEMMA BridgeTypeStep == TypeInv /\ [Next]_vars => BridgeType'
<1> SUFFICES ASSUME TypeInv, [Next]_vars
             PROVE  BridgeType'
    OBVIOUS
<1> USE DEF TypeInv, TypeOK
<1>1. CASE TaskEnds
     BY <1>1 DEF TaskEnds, AsHandler, runtime, pipes, serving, handling, verified,
         BridgeType
<1>2. CASE ReadRequest
     BY <1>2, HeadTailProperties DEF ReadRequest, AsBridge, runtime, pipes, serving,
         handling, verified, Raise, LineReady, LineError, Errors, BridgeType, PipeType
<1>3. CASE ReadEof
     BY <1>3 DEF ReadEof, AsBridge, runtime, pipes, serving, handling, verified,
         Raise, BridgeType, Errors
<1>4. CASE ReadTimeout
     BY <1>4 DEF ReadTimeout, AsBridge, runtime, pipes, serving, handling, verified,
         Raise, BridgeType, Errors
<1>5. CASE TakeResult
     BY <1>5 DEF TakeResult, AsBridge, runtime, pipes, serving, handling, verified,
         Raise, BridgeType, Errors
<1>6. CASE ExecuteTimeout
     BY <1>6 DEF ExecuteTimeout, AsBridge, runtime, pipes, serving, handling,
         verified, BridgeType
<1>7. CASE EncodeResponse
     BY <1>7 DEF EncodeResponse, AsBridge, runtime, pipes, serving, handling,
         verified, Raise, BridgeType, Errors
<1>8. CASE Encoded
     BY <1>8 DEF Encoded, AsBridge, runtime, pipes, serving, handling, verified,
         Raise, BridgeType, Errors
<1>9. CASE WriteResponse
     BY <1>9 DEF WriteResponse, AsBridge, runtime, pipes, serving, handling, verified,
         Raise, BridgeType, Errors
<1>10. CASE StartDrain
     BY <1>10 DEF StartDrain, AsBridge, runtime, pipes, serving, handling, verified,
         Raise, BridgeType, Errors
<1>11. CASE Drained
     BY <1>11 DEF Drained, AsBridge, runtime, pipes, serving, handling, verified,
         Raise, FatalNow, BridgeType, Errors
<1>12. CASE DrainFails
     BY <1>12 DEF DrainFails, AsBridge, runtime, pipes, serving, handling, verified,
         Raise, BridgeType, Errors
<1>13. CASE CancelTask
     BY <1>13 DEF CancelTask, AsBridge, runtime, pipes, serving, handling, verified,
         Join, BridgeType
<1>14. CASE AwaitTask \/ LeaveTask
     BY <1>14 DEF AwaitTask, LeaveTask, AsBridge, runtime, pipes, serving, handling, verified,
         Join, BridgeType
<1>15. CASE JointDone
     BY <1>15 DEF JointDone, AsBridge, runtime, pipes, serving, handling, verified,
         BridgeType
<1>16. CASE JointGivenUp \/ LeaveJoint \/ DrainStderr
     BY <1>16 DEF JointGivenUp, LeaveJoint, DrainStderr, AsBridge, runtime, pipes, serving, handling, verified,
         BridgeType
<1>17. CASE ReturnError \/ ReturnBare
     BY <1>17 DEF ReturnError, ReturnBare, AsBridge, runtime, pipes, serving, handling, verified,
         CleanupOk, BridgeType
<1>18. CASE CallerCancel
     BY <1>18 DEF CallerCancel, runtime, pipes, serving, handling, verified, Raise,
         BridgeType, Errors
<1>19. CASE UNCHANGED <<b, serving, error, outcome>>
     BY <1>19 DEF BridgeType, serving
<1>20. CASE Runtime
     BY <1>19, <1>20 DEF Runtime, Call, AsRuntime, serving, handling, verified, pipes,
         Send, SendFails, GiveUpCall, Receive, ReceiveFails, Accept, Refuse, Abandon,
         FinishRun, Publish, Exit
<1>21. CASE CleanupEnds
     BY <1>19, <1>21 DEF CleanupEnds, AsHandler, runtime, pipes, serving, handling,
         verified
<1>22. CASE ChildGone \/ TerminateChild \/ KillChild
     BY <1>19, <1>22 DEF ChildGone, AsBridge, runtime, pipes, serving, handling,
         verified, TerminateChild, KillChild
<1>23. CASE Tick
     BY <1>19, <1>23 DEF Tick, runtime, pipes, serving, handling, verified
<1>24. CASE UNCHANGED vars
     BY <1>19, <1>24 DEF vars, runtime, pipes, serving, handling, verified
<1>. QED
     BY <1>1, <1>2, <1>3, <1>4, <1>5, <1>6, <1>7, <1>8, <1>9, <1>10, <1>11, <1>12,
        <1>13, <1>14, <1>15, <1>16, <1>17, <1>18, <1>19, <1>20, <1>21, <1>22, <1>23, <1>24
        DEF Next, Runtime, Handler, Bridge, Done

\* So do the handler task and the cleanup.
LEMMA CleanupTypeStep == TypeInv /\ [Next]_vars => CleanupType'
<1> SUFFICES ASSUME TypeInv, [Next]_vars
             PROVE  CleanupType'
    OBVIOUS
<1> USE DEF TypeInv, TypeOK
<1>1. CASE TaskEnds
     BY <1>1, ExceptType DEF TaskEnds, AsHandler, runtime, pipes, serving, handling,
         verified, CleanupType
<1>2. CASE CleanupEnds
     BY <1>2 DEF CleanupEnds, AsHandler, runtime, pipes, serving, handling, verified,
         CleanupType
<1>3. CASE ReadRequest
     BY <1>3, ExceptType DEF ReadRequest, AsBridge, runtime, pipes, serving, handling,
         verified, Raise, LineReady, LineError, Errors, CleanupType
<1>4. CASE TakeResult
     BY <1>4 DEF TakeResult, AsBridge, runtime, pipes, serving, handling, verified,
         Raise, CleanupType
<1>5. CASE ExecuteTimeout
     BY <1>5 DEF ExecuteTimeout, AsBridge, runtime, pipes, serving, handling,
         verified, CleanupType
<1>6. CASE CancelTask
     BY <1>6 DEF CancelTask, AsBridge, runtime, pipes, serving, handling, verified,
         Join, CleanupType
<1>7. CASE AwaitTask \/ LeaveTask
     BY <1>7 DEF AwaitTask, LeaveTask, AsBridge, runtime, pipes, serving, handling, verified,
         Join, CleanupType
<1>8. CASE ChildGone
     BY <1>8 DEF ChildGone, AsBridge, runtime, pipes, serving, handling, verified,
         CleanupType
<1>9. CASE TerminateChild
     BY <1>9 DEF TerminateChild, AsBridge, runtime, pipes, serving, handling,
         verified, CleanupType
<1>10. CASE KillChild
     BY <1>10 DEF KillChild, runtime, pipes, serving, handling, verified, CleanupType
<1>11. CASE JointDone
     BY <1>11 DEF JointDone, AsBridge, runtime, pipes, serving, handling, verified,
         CleanupType
<1>12. CASE JointGivenUp \/ LeaveJoint \/ DrainStderr
     BY <1>12 DEF JointGivenUp, LeaveJoint, DrainStderr, AsBridge, runtime, pipes, serving, handling, verified,
         CleanupType
<1>13. CASE UNCHANGED <<verified, task, cleanup, stop, runs>>
     BY <1>13 DEF CleanupType, verified
<1>14. CASE Runtime
     BY <1>13, <1>14 DEF Runtime, Call, AsRuntime, serving, handling, verified, pipes,
         Send, SendFails, GiveUpCall, Receive, ReceiveFails, Accept, Refuse, Abandon,
         FinishRun, Publish, Exit
<1>15. CASE ReadEof \/ ReadTimeout \/ EncodeResponse \/ Encoded \/ WriteResponse \/
                 StartDrain \/ Drained \/ DrainFails \/ ReturnError \/ ReturnBare
     BY <1>13, <1>15 DEF ReadEof, AsBridge, runtime, pipes, serving, handling,
         verified, Raise, ReadTimeout, EncodeResponse, Encoded, WriteResponse, StartDrain,
         Drained, FatalNow, DrainFails, ReturnError, ReturnBare, CleanupOk
<1>16. CASE Tick
     BY <1>13, <1>16 DEF Tick, runtime, pipes, serving, handling, verified
<1>17. CASE CallerCancel
     BY <1>13, <1>17 DEF CallerCancel, runtime, pipes, serving, handling, verified,
         Raise
<1>18. CASE UNCHANGED vars
     BY <1>13, <1>18 DEF vars, runtime, pipes, serving, handling, verified
<1>. QED
     BY <1>1, <1>2, <1>3, <1>4, <1>5, <1>6, <1>7, <1>8, <1>9, <1>10, <1>11, <1>12,
        <1>13, <1>14, <1>15, <1>16, <1>17, <1>18 DEF Next, Runtime, Handler, Bridge, Done

\* A number is left for each call, and only settlements are written.
LEMMA SettlingStep == TypeInv /\ [Next]_vars => Settling'
<1> SUFFICES ASSUME TypeInv, [Next]_vars
             PROVE  Settling'
    OBVIOUS
<1> USE DEF TypeInv, TypeOK
<1>1. CASE Call
     BY <1>1 DEF Call, AsRuntime, serving, handling, verified, pipes, Settling,
         CleanupType, BridgeType
<1>2. CASE Send
     BY <1>2 DEF Send, AsRuntime, serving, handling, verified, Settling, CleanupType,
         BridgeType
<1>3. CASE SendFails
     BY <1>3 DEF SendFails, AsRuntime, GiveUpCall, serving, handling, verified,
         Settling, CleanupType, BridgeType
<1>4. CASE Receive
     BY <1>4 DEF Receive, AsRuntime, serving, handling, verified, Settling,
         CleanupType, BridgeType
<1>5. CASE ReceiveFails
     BY <1>5 DEF ReceiveFails, AsRuntime, GiveUpCall, serving, handling, verified,
         pipes, Settling, CleanupType, BridgeType
<1>6. CASE Accept
     BY <1>6 DEF Accept, AsRuntime, serving, handling, verified, pipes, Settling,
         CleanupType, BridgeType
<1>7. CASE Refuse
     BY <1>7 DEF Refuse, AsRuntime, GiveUpCall, serving, handling, verified, pipes,
         Settling, CleanupType, BridgeType
<1>8. CASE Abandon
     BY <1>8 DEF Abandon, AsRuntime, GiveUpCall, serving, handling, verified, pipes,
         Settling, CleanupType, BridgeType
<1>9. CASE FinishRun
     BY <1>9 DEF FinishRun, AsRuntime, serving, handling, verified, pipes, Settling,
         CleanupType, BridgeType
<1>10. CASE Publish
     BY <1>10 DEF Publish, AsRuntime, serving, handling, verified, pipes, Settling,
         CleanupType, BridgeType
<1>11. CASE Exit
     BY <1>11 DEF Exit, AsRuntime, serving, handling, verified, pipes, Settling,
         CleanupType, BridgeType
<1>12. CASE TaskEnds
     BY <1>12 DEF TaskEnds, AsHandler, runtime, pipes, serving, handling, verified,
         Settling, CleanupType, BridgeType
<1>13. CASE ReadRequest
     BY <1>13 DEF ReadRequest, AsBridge, runtime, pipes, serving, handling, verified,
         Raise, LineReady, LineError, Errors, Settling, CleanupType, BridgeType
<1>14. CASE ReadEof
     BY <1>14 DEF ReadEof, AsBridge, runtime, pipes, serving, handling, verified,
         Raise, Settling, CleanupType, BridgeType
<1>15. CASE ReadTimeout
     BY <1>15 DEF ReadTimeout, AsBridge, runtime, pipes, serving, handling, verified,
         Raise, Settling, CleanupType, BridgeType
<1>16. CASE TakeResult
     BY <1>16 DEF TakeResult, AsBridge, runtime, pipes, serving, handling, verified,
         Raise, Settling, CleanupType, BridgeType
<1>17. CASE ExecuteTimeout
     BY <1>17 DEF ExecuteTimeout, AsBridge, runtime, pipes, serving, handling,
         verified, Settling, CleanupType, BridgeType
<1>18. CASE EncodeResponse
     BY <1>18 DEF EncodeResponse, AsBridge, runtime, pipes, serving, handling,
         verified, Raise, Settling, CleanupType, BridgeType
<1>19. CASE Encoded
     BY <1>19 DEF Encoded, AsBridge, runtime, pipes, serving, handling, verified,
         Raise, Settling, CleanupType, BridgeType
<1>20. CASE WriteResponse
     BY <1>20 DEF WriteResponse, AsBridge, runtime, pipes, serving, handling,
         verified, Raise, Settling, CleanupType, BridgeType
<1>21. CASE StartDrain
     BY <1>21 DEF StartDrain, AsBridge, runtime, pipes, serving, handling, verified,
         Raise, Settling, CleanupType, BridgeType
<1>22. CASE Drained
     BY <1>22 DEF Drained, AsBridge, runtime, pipes, serving, handling, verified,
         Raise, FatalNow, Settling, CleanupType, BridgeType
<1>23. CASE DrainFails
     BY <1>23 DEF DrainFails, AsBridge, runtime, pipes, serving, handling, verified,
         Raise, Settling, CleanupType, BridgeType
<1>24. CASE CancelTask
     BY <1>24 DEF CancelTask, AsBridge, runtime, pipes, serving, handling, verified,
         Join, Settling, CleanupType, BridgeType
<1>25. CASE AwaitTask \/ LeaveTask
     BY <1>25 DEF AwaitTask, LeaveTask, AsBridge, runtime, pipes, serving, handling, verified,
         Join, Settling, CleanupType, BridgeType
<1>26. CASE KillChild
     BY <1>26 DEF KillChild, runtime, pipes, serving, handling, verified, Settling,
         CleanupType, BridgeType
<1>27. CASE JointDone
     BY <1>27 DEF JointDone, AsBridge, runtime, pipes, serving, handling, verified,
         Settling, CleanupType, BridgeType
<1>28. CASE JointGivenUp \/ LeaveJoint \/ DrainStderr
     BY <1>28 DEF JointGivenUp, LeaveJoint, DrainStderr, AsBridge, runtime, pipes, serving, handling, verified,
         Settling, CleanupType, BridgeType
<1>29. CASE ReturnError \/ ReturnBare
     BY <1>29 DEF ReturnError, ReturnBare, AsBridge, runtime, pipes, serving, handling, verified,
         CleanupOk, Settling, CleanupType, BridgeType
<1>30. CASE CallerCancel
     BY <1>30 DEF CallerCancel, runtime, pipes, serving, handling, verified, Raise,
         Settling, CleanupType, BridgeType
<1>31. CASE UNCHANGED <<rt, nextSeq, task, b, result>>
     BY <1>31 DEF Settling, CleanupType, BridgeType
<1>32. CASE CleanupEnds
     BY <1>31, <1>32 DEF CleanupEnds, AsHandler, runtime, pipes, serving, handling,
         verified
<1>33. CASE ChildGone \/ TerminateChild
     BY <1>31, <1>33 DEF ChildGone, AsBridge, runtime, pipes, serving, handling,
         verified, TerminateChild
<1>34. CASE Tick
     BY <1>31, <1>34 DEF Tick, runtime, pipes, serving, handling, verified
<1>35. CASE UNCHANGED vars
     BY <1>31, <1>35 DEF vars, runtime, pipes, serving, handling, verified
<1>. QED
     BY <1>1, <1>2, <1>3, <1>4, <1>5, <1>6, <1>7, <1>8, <1>9, <1>10, <1>11, <1>12,
        <1>13, <1>14, <1>15, <1>16, <1>17, <1>18, <1>19, <1>20, <1>21, <1>22, <1>23,
        <1>24, <1>25, <1>26, <1>27, <1>28, <1>29, <1>30, <1>31, <1>32, <1>33, <1>34, <1>35
        DEF Next, Runtime, Handler, Bridge, Done

\* Every step of runtime, handler, bridge, caller and clock keeps the types.
LEMMA TypeStep == TypeInv /\ [Next]_vars => TypeInv'
BY RuntimeTypeStep, PipeTypeStep, BridgeTypeStep, CleanupTypeStep, SettlingStep
   DEF TypeInv, TypeOK

\* The types hold in every state the three processes reach.
THEOREM BridgeTypes == Spec => []TypeOK
<1>1. TypeInv => TypeOK
      BY DEF TypeInv
<1>. QED
     BY <1>1, TypeInit, TypeStep, PTL DEF Spec

-----------------------------------------------------------------------------
\* The stop of the child follows the clock.
LEMMA WindowStep == WindowInv /\ [Next]_vars => WindowInv'
<1> SUFFICES ASSUME WindowInv, [Next]_vars
             PROVE  WindowInv'
    OBVIOUS
<1> USE BridgeBounds
<1>1. CASE Tick
     BY <1>1 DEF Tick, runtime, pipes, serving, handling, verified, WindowInv,
         PublicationWindowKept
<1>2. CASE Exit
     BY <1>2 DEF Exit, AsRuntime, serving, handling, verified, pipes, WindowInv,
         PublicationWindowKept
<1>3. CASE CancelTask
     BY <1>3 DEF CancelTask, AsBridge, runtime, pipes, serving, handling, verified,
         Join, WindowInv, PublicationWindowKept
<1>4. CASE AwaitTask \/ LeaveTask
     BY <1>4 DEF AwaitTask, LeaveTask, AsBridge, runtime, pipes, serving, handling, verified,
         Join, WindowInv, PublicationWindowKept
<1>5. CASE ChildGone
     BY <1>5 DEF ChildGone, AsBridge, runtime, pipes, serving, handling, verified,
         WindowInv, PublicationWindowKept
<1>6. CASE TerminateChild
     BY <1>6 DEF TerminateChild, AsBridge, runtime, pipes, serving, handling,
         verified, WindowInv, PublicationWindowKept
<1>7. CASE KillChild
     BY <1>7 DEF KillChild, runtime, pipes, serving, handling, verified, WindowInv,
         PublicationWindowKept
<1>8. CASE JointGivenUp \/ LeaveJoint \/ DrainStderr
     BY <1>8 DEF JointGivenUp, LeaveJoint, DrainStderr, AsBridge, runtime, pipes, serving, handling, verified,
         WindowInv, PublicationWindowKept
<1>9. CASE UNCHANGED <<now, exitCode, stop>>
     BY <1>9 DEF WindowInv, PublicationWindowKept
<1>10. CASE Call \/ Send \/ SendFails \/ Receive \/ ReceiveFails \/ Accept \/ Refuse
                 \/ Abandon \/ FinishRun \/ Publish
     BY <1>9, <1>10 DEF Call, AsRuntime, serving, handling, verified, pipes, Send,
         SendFails, GiveUpCall, Receive, ReceiveFails, Accept, Refuse, Abandon, FinishRun,
         Publish
<1>11. CASE Handler
     BY <1>9, <1>11 DEF Handler, TaskEnds, AsHandler, runtime, pipes, serving,
         handling, verified, CleanupEnds
<1>12. CASE ReadRequest \/ ReadEof \/ ReadTimeout \/ TakeResult \/ ExecuteTimeout \/
                 EncodeResponse \/ Encoded \/ WriteResponse \/ StartDrain \/ Drained \/
                 DrainFails \/ JointDone \/ ReturnError \/ ReturnBare
     BY <1>9, <1>12 DEF ReadRequest, AsBridge, runtime, pipes, serving, handling,
         verified, Raise, LineReady, LineError, Errors, ReadEof, ReadTimeout, TakeResult,
         ExecuteTimeout, EncodeResponse, Encoded, WriteResponse, StartDrain, Drained,
         FatalNow, DrainFails, JointDone, ReturnError, ReturnBare, CleanupOk
<1>13. CASE CallerCancel
     BY <1>9, <1>13 DEF CallerCancel, runtime, pipes, serving, handling, verified,
         Raise
<1>14. CASE UNCHANGED vars
     BY <1>9, <1>14 DEF vars, runtime, pipes, serving, handling, verified
<1>. QED
     BY <1>1, <1>2, <1>3, <1>4, <1>5, <1>6, <1>7, <1>8, <1>9, <1>10, <1>11, <1>12,
        <1>13, <1>14 DEF Next, Runtime, Handler, Bridge, Done

\* The runtime is killed only after its publication window, whatever made the
\* bridge fail and wherever the cutoffs lie.
THEOREM WindowKept == Spec => []PublicationWindowKept
<1>1. Init => WindowInv
      BY DEF Init, WindowInv, PublicationWindowKept
<1>2. WindowInv => PublicationWindowKept
      BY DEF WindowInv
<1>. QED
     BY <1>1, <1>2, WindowStep, PTL DEF Spec

-----------------------------------------------------------------------------
\* Task, child and outcome are accounted for at the start.
LEMMA CleanInit == Init => CleanInv
<1> SUFFICES ASSUME Init PROVE CleanInv
    OBVIOUS
<1>1. TaskInv /\ ChildInv /\ ReturnInv
      BY DEF Init, TaskInv, ChildInv, ReturnInv
<1>2. now \in Nat
      BY DEF Init
<1>3. BareInv
      BY <1>2 DEF Init, BareInv, Outlived
<1>. QED  BY <1>1, <1>3 DEF Init, CleanInv

\* And they stay so.
LEMMA CleanStep == CleanInv /\ [Next]_vars => CleanInv'
<1> SUFFICES ASSUME CleanInv, [Next]_vars
             PROVE  CleanInv'
    OBVIOUS
<1> USE BridgeBounds DEF CleanInv, TaskInv, ChildInv, ReturnInv, BareInv, Outlived
<1>1. CASE Tick
     BY <1>1 DEF Tick, runtime, pipes, serving, handling, verified
<1>2. CASE Call
     BY <1>2 DEF Call, AsRuntime, serving, handling, verified, pipes
<1>3. CASE Send
     BY <1>3 DEF Send, AsRuntime, serving, handling, verified
<1>4. CASE SendFails
     BY <1>4 DEF SendFails, AsRuntime, GiveUpCall, serving, handling, verified
<1>5. CASE Receive
     BY <1>5 DEF Receive, AsRuntime, serving, handling, verified
<1>6. CASE ReceiveFails
     BY <1>6 DEF ReceiveFails, AsRuntime, GiveUpCall, serving, handling, verified,
         pipes
<1>7. CASE Accept
     BY <1>7 DEF Accept, AsRuntime, serving, handling, verified, pipes
<1>8. CASE Refuse
     BY <1>8 DEF Refuse, AsRuntime, GiveUpCall, serving, handling, verified, pipes
<1>9. CASE Abandon
     BY <1>9 DEF Abandon, AsRuntime, GiveUpCall, serving, handling, verified, pipes
<1>10. CASE FinishRun
     BY <1>10 DEF FinishRun, AsRuntime, serving, handling, verified, pipes
<1>11. CASE Publish
     BY <1>11 DEF Publish, AsRuntime, serving, handling, verified, pipes
<1>12. CASE Exit
     BY <1>12 DEF Exit, AsRuntime, serving, handling, verified, pipes
<1>13. CASE TaskEnds
     BY <1>13 DEF TaskEnds, AsHandler, runtime, pipes, serving, handling, verified
<1>14. CASE CleanupEnds
     BY <1>14 DEF CleanupEnds, AsHandler, runtime, pipes, serving, handling, verified
<1>15. CASE ReadRequest
     BY <1>15 DEF ReadRequest, AsBridge, runtime, pipes, serving, handling, verified,
         Raise, LineReady, LineError, Errors
<1>16. CASE ReadEof
     BY <1>16 DEF ReadEof, AsBridge, runtime, pipes, serving, handling, verified,
         Raise
<1>17. CASE ReadTimeout
     BY <1>17 DEF ReadTimeout, AsBridge, runtime, pipes, serving, handling, verified,
         Raise
<1>18. CASE TakeResult
     BY <1>18 DEF TakeResult, AsBridge, runtime, pipes, serving, handling, verified,
         Raise
<1>19. CASE ExecuteTimeout
     BY <1>19 DEF ExecuteTimeout, AsBridge, runtime, pipes, serving, handling,
         verified
<1>20. CASE EncodeResponse
     BY <1>20 DEF EncodeResponse, AsBridge, runtime, pipes, serving, handling,
         verified, Raise
<1>21. CASE Encoded
     BY <1>21 DEF Encoded, AsBridge, runtime, pipes, serving, handling, verified,
         Raise
<1>22. CASE WriteResponse
     BY <1>22 DEF WriteResponse, AsBridge, runtime, pipes, serving, handling,
         verified, Raise
<1>23. CASE StartDrain
     BY <1>23 DEF StartDrain, AsBridge, runtime, pipes, serving, handling, verified,
         Raise
<1>24. CASE Drained
     BY <1>24 DEF Drained, AsBridge, runtime, pipes, serving, handling, verified,
         Raise, FatalNow
<1>25. CASE DrainFails
     BY <1>25 DEF DrainFails, AsBridge, runtime, pipes, serving, handling, verified,
         Raise
<1>26. CASE CancelTask
     BY <1>26 DEF CancelTask, AsBridge, runtime, pipes, serving, handling, verified,
         Join
<1>27. CASE AwaitTask \/ LeaveTask
     BY <1>27 DEF AwaitTask, LeaveTask, AsBridge, runtime, pipes, serving, handling, verified,
         Join
<1>28. CASE ChildGone
     BY <1>28 DEF ChildGone, AsBridge, runtime, pipes, serving, handling, verified
<1>29. CASE TerminateChild
     BY <1>29 DEF TerminateChild, AsBridge, runtime, pipes, serving, handling,
         verified
<1>30. CASE KillChild
     BY <1>30 DEF KillChild, runtime, pipes, serving, handling, verified
<1>31. CASE JointDone
     BY <1>31 DEF JointDone, AsBridge, runtime, pipes, serving, handling, verified
<1>32. CASE JointGivenUp \/ LeaveJoint \/ DrainStderr
     BY <1>32 DEF JointGivenUp, LeaveJoint, DrainStderr, AsBridge, runtime, pipes, serving, handling, verified
<1>33. CASE ReturnError \/ ReturnBare
     BY <1>33 DEF ReturnError, ReturnBare, AsBridge, runtime, pipes, serving, handling, verified,
         CleanupOk
<1>34. CASE CallerCancel
     BY <1>34 DEF CallerCancel, runtime, pipes, serving, handling, verified, Raise
<1>35. CASE UNCHANGED vars
     BY <1>35 DEF vars, runtime, pipes, serving, handling, verified
<1>. QED
     BY <1>1, <1>2, <1>3, <1>4, <1>5, <1>6, <1>7, <1>8, <1>9, <1>10, <1>11, <1>12, <1>13,
        <1>14, <1>15, <1>16, <1>17, <1>18, <1>19, <1>20, <1>21, <1>22, <1>23, <1>24,
        <1>25, <1>26, <1>27, <1>28, <1>29, <1>30, <1>31, <1>32, <1>33, <1>34, <1>35 DEF
        Next, Runtime, Handler, Bridge, Done

\* A result, or the error that was being handled, comes from a bridge that left
\* neither the child nor a handler task behind; a bare cancellation leaves one only
\* after a task that outlived its budget or past the hard deadline; and a success
\* leaves the published run.
THEOREM ReturnIsClean == Spec => []CleanReturn
<1>1. Init => CleanInv
      BY CleanInit
<1>2. CleanInv => CleanReturn
      BY BridgeBounds DEF CleanInv, TaskInv, ChildInv, ReturnInv, BareInv, Outlived, CleanReturn, NothingLeft
<1>. QED
     BY <1>1, <1>2, CleanStep, PTL DEF Spec
-----------------------------------------------------------------------------
\* The conversation.  The bridge reads, serves and answers one request, and the
\* runtime sends the next one only after the answer: so each pipe holds at most
\* one line, of the call that both sides count.

Executing == {"execute", "encode", "encoded", "write"}
Answered == {"buffered", "drain"}
Loop == {"read"} \cup Executing \cup Answered

\* The number of requests the bridge has answered, while it is in its loop.
Written == expected + (IF b \in Answered THEN 1 ELSE 0)

\* The last answer, if there was one, lets the runtime go on.
GoOn ==
    /\ b \in {"read"} \cup Answered
    /\ b = "read" => ~fatalSent
    /\ b \in Answered => result = "completed"

\* What the runtime knows of its calls: all accepted but the one under way.
VerdictInv ==
    /\ rt \in {"idle", "sending"} =>
          \A c \in CallIds : verdict[c] = IF c < nextSeq THEN "accepted" ELSE "none"
    /\ rt \in {"reading", "parsing"} =>
          /\ nextSeq >= 1
          /\ \A c \in CallIds : verdict[c] = IF c < nextSeq - 1 THEN "accepted"
                                             ELSE IF c = nextSeq - 1 THEN "sent" ELSE "none"

\* What the bridge and the handler make of them.
ServeInv ==
    /\ task \in {"running", "cancelling"} => request.seq \in CallIds /\ runs[request.seq] = "started"
    /\ b \in Executing \cup Answered => request.seq = expected /\ expected \in CallIds
    /\ b \in Loop => \A c \in CallIds : c >= expected /\ (b = "read" \/ c # expected) => runs[c] = "none"
    /\ b \in Loop /\ (b = "read" => ~fatalSent) => \A c \in CallIds : c < expected => runs[c] = "completed"
    /\ (b = "execute" /\ task = "done") \/ b \in Loop \ {"read", "execute"} =>
          /\ result = "completed" => runs[request.seq] = "completed" /\ task \notin {"running", "cancelling"}
          /\ control => result = "fatal"
    /\ b \in {"read", "execute"} => ~control
    /\ b \in Loop \ {"read", "execute"} => result \in {"completed", "fatal"}
    /\ b = "execute" => task \in {"running", "done"}
    /\ b = "read" => task = "none"

\* A line on its way to the bridge is the next request, and the bridge expects it.
WireInv ==
    \/ toBridge = << >>
    \/ \E m \in Messages :
          /\ toBridge = <<m>> /\ m.seq = Written /\ m.seq \in CallIds /\ GoOn
          /\ verdict[m.seq] \in {"sent", "lost"}

\* Where the two sides are, while the runtime talks.
TurnInv ==
    /\ rt \in {"idle", "sending"} => toBridge = << >> /\ nextSeq = Written /\ GoOn
    /\ rt = "reading" =>
          \/ toBridge # << >> /\ toRuntime = << >> /\ nextSeq = Written + 1
          \/ toBridge = << >> /\ toRuntime = << >> /\ b \in Executing /\ nextSeq = expected + 1
          \/ /\ toBridge = << >> /\ toRuntime # << >> /\ b \in {"read"} \cup Answered /\ nextSeq = Written
             /\ b \in Answered => Head(toRuntime).kind = result
             /\ b = "read" => (fatalSent <=> Head(toRuntime).kind = "fatal")
    /\ rt = "parsing" =>
          /\ toBridge = << >> /\ b \in {"read"} \cup Answered /\ nextSeq = Written
          /\ b \in Answered => answer.kind = result
          /\ b = "read" => (fatalSent <=> answer.kind = "fatal")

\* An answer is the one the runtime waits for, and tells the truth.
Answers(m) == m.seq = nextSeq - 1 /\ (m.kind = "completed" => runs[m.seq] = "completed")

AnswerInv ==
    /\ rt \in {"idle", "sending", "parsing"} => toRuntime = << >>
    /\ rt = "reading" => toRuntime = << >> \/ \E m \in Messages : toRuntime = <<m>> /\ Answers(m)
    /\ rt = "parsing" => Answers(answer)

\* A missed cutoff is settled before it is raised.
DeadlineInv ==
    error = "tool_settlement_deadline_exceeded" =>
       /\ rt \notin {"idle", "sending"}
       /\ rt = "reading" => toRuntime # << >> /\ Head(toRuntime).kind = "fatal"
       /\ rt = "parsing" => answer.kind = "fatal"

ConvInv ==
    /\ VerdictInv /\ ServeInv
    /\ b \in Loop => WireInv /\ TurnInv /\ error = "none"
    /\ AnswerInv /\ DeadlineInv /\ NeverBlamed

-----------------------------------------------------------------------------
\* A pipe with one line.
LEMMA OneLine ==
    ASSUME NEW m
    PROVE  /\ Append(<< >>, m) = <<m>> /\ <<m>> # << >>
           /\ Head(<<m>>) = m /\ Tail(<<m>>) = << >>
  OBVIOUS

\* At the start there is no call, and the bridge waits for the first.
LEMMA ConvInit == Init => ConvInv
<1> SUFFICES ASSUME Init PROVE ConvInv
    OBVIOUS
<1>1. VerdictInv
      BY DEF Init, VerdictInv, CallIds
<1>2. ServeInv /\ error = "none" /\ NeverBlamed
      BY DEF Init, ServeInv, CallIds, Loop, Executing, Answered, NeverBlamed
<1>3. WireInv /\ TurnInv
      BY DEF Init, WireInv, TurnInv, GoOn, Written, Answered
<1>4. AnswerInv /\ DeadlineInv
      BY DEF Init, AnswerInv, DeadlineInv
<1>. QED  BY <1>1, <1>2, <1>3, <1>4 DEF ConvInv

\* What a step of the runtime leaves to the bridge.
LEMMA RuntimeFrame ==
    ASSUME AsRuntime, ServeInv, NeverBlamed
    PROVE  /\ ServeInv' /\ NeverBlamed' /\ Written' = Written /\ (GoOn' <=> GoOn)
           /\ UNCHANGED <<b, error, runs, expected, fatalSent, result, request, task, control, stdinClosed>>
<1>1. UNCHANGED <<b, error, runs, expected, fatalSent, result, request, task, control, stdinClosed>>
      BY DEF AsRuntime, serving, handling
<1>. QED  BY <1>1 DEF ServeInv, NeverBlamed, Written, GoOn, Loop, Executing, Answered

\* What a runtime that talks, and one that has given up, must keep.
LEMMA TalkKeeps ==
    ASSUME ConvInv, AsRuntime, VerdictInv', AnswerInv', DeadlineInv', b \in Loop => WireInv' /\ TurnInv'
    PROVE  ConvInv'
<1>1. ServeInv' /\ NeverBlamed' /\ b' = b /\ error' = error
      BY RuntimeFrame DEF ConvInv
<1>. QED  BY <1>1 DEF ConvInv

LEMMA SilenceKeeps ==
    ASSUME ConvInv, AsRuntime, rt' \in {"publishing", "exiting", "exited"}, UNCHANGED toBridge,
           \A c \in CallIds : verdict'[c] = verdict[c] \/ verdict'[c] = "lost"
    PROVE  ConvInv'
<1>1. VerdictInv' /\ AnswerInv' /\ DeadlineInv' /\ TurnInv'
      BY DEF VerdictInv, AnswerInv, DeadlineInv, TurnInv
<1>2. ASSUME b \in Loop PROVE WireInv'
  <2>1. WireInv /\ Written' = Written /\ (GoOn' <=> GoOn)
        BY <1>2, RuntimeFrame DEF ConvInv
  <2>. QED  BY <2>1 DEF WireInv
<1>. QED  BY <1>1, <1>2, TalkKeeps

\* The runtime sends only to a bridge that waits for it, and accepts only the
\* answer to its own request.
LEMMA RuntimeConv ==
    ASSUME TypeInv, ConvInv, Runtime
    PROVE  ConvInv'
<1>a. nextSeq \in Nat /\ verdict \in [CallIds -> {"none", "sent", "accepted", "lost"}] /\ op \in Ops
      BY BridgeBounds DEF TypeInv, TypeOK, RuntimeType
<1>b. rt = "sending" => nextSeq \in CallIds
      BY DEF TypeInv, Settling
<1>c. nextSeq \in 0..MaxCalls /\ MaxCalls \in Nat
      BY BridgeBounds DEF TypeInv, TypeOK, RuntimeType
<1>d. expected \in Nat
      BY DEF TypeInv, TypeOK, BridgeType
<1>1. CASE Call
  <2>1. AsRuntime /\ rt = "idle" /\ rt' = "sending" /\ UNCHANGED <<nextSeq, verdict, toBridge, toRuntime, answer>>
        BY <1>1 DEF Call
  <2>2. Written' = Written /\ (GoOn' <=> GoOn) /\ b' = b /\ error' = error /\ runs' = runs
        BY <2>1, RuntimeFrame DEF ConvInv
  <2>3. VerdictInv' /\ AnswerInv' /\ DeadlineInv'
        BY <2>1, <2>2 DEF ConvInv, VerdictInv, AnswerInv, DeadlineInv
  <2>4. ASSUME b \in Loop PROVE WireInv' /\ TurnInv'
        BY <2>1, <2>2, <2>4 DEF ConvInv, WireInv, TurnInv
  <2>. QED  BY <2>1, <2>3, <2>4, TalkKeeps
<1>2. CASE Send
  <2>. DEFINE m == [seq |-> nextSeq, kind |-> op]
  <2>1. /\ AsRuntime /\ rt = "sending" /\ rt' = "reading" /\ nextSeq' = nextSeq + 1 /\ UNCHANGED <<toRuntime, answer>>
        /\ toBridge' = Append(toBridge, m) /\ verdict' = [verdict EXCEPT ![nextSeq] = "sent"]
        BY <1>2 DEF Send
  <2>2. Written' = Written /\ (GoOn' <=> GoOn) /\ b' = b /\ error' = error /\ runs' = runs
        BY <2>1, RuntimeFrame DEF ConvInv
  <2>3. m \in Messages /\ m.seq = nextSeq
        BY <1>a DEF Messages, Ops
  <2>4. nextSeq \in CallIds /\ verdict'[nextSeq] = "sent" /\ \A c \in CallIds \ {nextSeq} : verdict'[c] = verdict[c]
        BY <1>a, <1>b, <2>1
  <2>5. VerdictInv'
    <3>1. \A c \in CallIds : verdict[c] = IF c < nextSeq THEN "accepted" ELSE "none"
          BY <2>1 DEF ConvInv, VerdictInv
    <3>2. nextSeq' >= 1 /\ nextSeq' - 1 = nextSeq
          BY <1>a, <2>1
    <3>. QED  BY <1>a, <2>1, <2>4, <3>1, <3>2 DEF VerdictInv, CallIds
  <2>6. AnswerInv' /\ DeadlineInv'
        BY <2>1, <2>2 DEF ConvInv, AnswerInv, DeadlineInv
  <2>. HIDE DEF m
  <2>7. ASSUME b \in Loop PROVE WireInv' /\ TurnInv'
    <3>1. toBridge = << >> /\ nextSeq = Written /\ GoOn /\ toRuntime = << >>
          BY <2>1, <2>7 DEF ConvInv, TurnInv, AnswerInv
    <3>2. toBridge' = <<m>> /\ toBridge' # << >>
          BY <2>1, <3>1, OneLine
    <3>3. WireInv'
          BY <2>2, <2>3, <2>4, <3>1, <3>2 DEF WireInv
    <3>. QED  BY <2>1, <2>2, <3>1, <3>2, <3>3 DEF TurnInv
  <2>. QED  BY <2>1, <2>5, <2>6, <2>7, TalkKeeps
<1>3. CASE SendFails
  <2>1. /\ AsRuntime /\ rt = "sending" /\ rt' = "publishing" /\ UNCHANGED <<nextSeq, toRuntime, answer>>
        /\ verdict' = [verdict EXCEPT ![nextSeq] = "lost"]
        /\ \/ UNCHANGED toBridge
           \/ \E kind \in {"torn", op} : toBridge' = Append(toBridge, [seq |-> nextSeq, kind |-> kind])
        BY <1>3, <1>b DEF SendFails, GiveUpCall
  <2>2. nextSeq \in CallIds /\ verdict'[nextSeq] = "lost" /\ \A c \in CallIds \ {nextSeq} : verdict'[c] = verdict[c]
        BY <1>a, <1>b, <2>1
  <2>3. CASE UNCHANGED toBridge
        BY <2>1, <2>2, <2>3, SilenceKeeps
  <2>4. ASSUME NEW kind \in {"torn", op}, toBridge' = Append(toBridge, [seq |-> nextSeq, kind |-> kind])
        PROVE  ConvInv'
    <3>. DEFINE m == [seq |-> nextSeq, kind |-> kind]
    <3>1. m \in Messages /\ m.seq = nextSeq
          BY <1>a DEF Messages, Ops
    <3>2. toBridge' = Append(toBridge, m)
          BY <2>4
    <3>. HIDE DEF m
    <3>3. VerdictInv' /\ AnswerInv' /\ DeadlineInv' /\ TurnInv'
          BY <2>1 DEF VerdictInv, AnswerInv, DeadlineInv, TurnInv
    <3>4. ASSUME b \in Loop PROVE WireInv'
      <4>1. Written' = Written /\ (GoOn' <=> GoOn)
            BY <2>1, RuntimeFrame DEF ConvInv
      <4>2. toBridge = << >> /\ nextSeq = Written /\ GoOn
            BY <2>1, <3>4 DEF ConvInv, TurnInv
      <4>3. toBridge' = <<m>>
            BY <3>2, <4>2, OneLine
      <4>. QED  BY <2>2, <3>1, <4>1, <4>2, <4>3 DEF WireInv
    <3>. QED  BY <2>1, <3>3, <3>4, TalkKeeps
  <2>. QED  BY <2>1, <2>3, <2>4
<1>4. CASE Receive
  <2>1. /\ AsRuntime /\ rt = "reading" /\ rt' = "parsing" /\ UNCHANGED <<nextSeq, verdict, toBridge>>
        /\ toRuntime # << >> /\ answer' = Head(toRuntime) /\ toRuntime' = Tail(toRuntime)
        BY <1>4 DEF Receive
  <2>2. /\ Written' = Written /\ (GoOn' <=> GoOn)
        /\ UNCHANGED <<b, error, runs, fatalSent, result>>
        BY <2>1, RuntimeFrame DEF ConvInv
  <2>3. PICK m \in Messages : toRuntime = <<m>> /\ Answers(m)
        BY <2>1 DEF ConvInv, AnswerInv
  <2>4. answer' = m /\ toRuntime' = << >> /\ Head(toRuntime) = m
        BY <2>1, <2>3, OneLine
  <2>5. Answers(m)'
        BY <2>1, <2>2, <2>3 DEF Answers
  <2>6. AnswerInv'
        BY <2>1, <2>4, <2>5 DEF AnswerInv, Answers
  <2>7. VerdictInv' /\ DeadlineInv'
        BY <2>1, <2>2, <2>4 DEF ConvInv, VerdictInv, DeadlineInv
  <2>8. ASSUME b \in Loop PROVE WireInv' /\ TurnInv'
    <3>1. WireInv'
          BY <2>1, <2>2, <2>8 DEF ConvInv, WireInv
    <3>2. /\ toBridge = << >> /\ b \in {"read"} \cup Answered /\ nextSeq = Written
          /\ b \in Answered => Head(toRuntime).kind = result
          /\ b = "read" => (fatalSent <=> Head(toRuntime).kind = "fatal")
          BY <2>1, <2>8 DEF ConvInv, TurnInv
    <3>. QED  BY <2>1, <2>2, <2>4, <3>1, <3>2 DEF TurnInv
  <2>. QED  BY <2>1, <2>6, <2>7, <2>8, TalkKeeps
<1>5. CASE ReceiveFails \/ Refuse \/ Abandon
  <2>1. AsRuntime /\ rt \in {"reading", "parsing"} /\ rt' = "publishing" /\ UNCHANGED <<nextSeq, toBridge>>
        /\ verdict' = [verdict EXCEPT ![nextSeq - 1] = "lost"]
        BY <1>5 DEF ReceiveFails, Refuse, Abandon, GiveUpCall
  <2>2. \A c \in CallIds : verdict'[c] = verdict[c] \/ verdict'[c] = "lost"
        BY <1>a, <2>1
  <2>. QED  BY <2>1, <2>2, SilenceKeeps
<1>6. CASE Accept
  <2>1. /\ AsRuntime /\ rt = "parsing" /\ rt' = "idle" /\ UNCHANGED <<nextSeq, toBridge, toRuntime, answer>>
        /\ answer.kind = "completed" /\ verdict' = [verdict EXCEPT ![nextSeq - 1] = "accepted"]
        BY <1>6 DEF Accept, Acceptable
  <2>2. /\ Written' = Written /\ (GoOn' <=> GoOn)
        /\ UNCHANGED <<b, error, runs, fatalSent, result>>
        BY <2>1, RuntimeFrame DEF ConvInv
  <2>3. VerdictInv'
    <3>1. nextSeq >= 1 /\ \A c \in CallIds : verdict[c] = IF c < nextSeq - 1 THEN "accepted"
                                                         ELSE IF c = nextSeq - 1 THEN "sent" ELSE "none"
          BY <2>1 DEF ConvInv, VerdictInv
    <3>2. \A c \in CallIds : verdict'[c] = IF c < nextSeq THEN "accepted" ELSE "none"
          BY <1>a, <2>1, <3>1 DEF CallIds
    <3>. QED  BY <2>1, <3>2 DEF VerdictInv
  <2>4. AnswerInv' /\ DeadlineInv'
        BY <2>1, <2>2 DEF ConvInv, AnswerInv, DeadlineInv
  <2>5. ASSUME b \in Loop PROVE WireInv' /\ TurnInv'
    <3>1. /\ toBridge = << >> /\ b \in {"read"} \cup Answered /\ nextSeq = Written
          /\ b \in Answered => answer.kind = result
          /\ b = "read" => (fatalSent <=> answer.kind = "fatal")
          BY <2>1, <2>5 DEF ConvInv, TurnInv
    <3>2. fatalSent \in BOOLEAN
          BY DEF TypeInv, TypeOK, BridgeType
    <3>3. GoOn
          BY <2>1, <3>1, <3>2 DEF GoOn, Answered
    <3>. QED  BY <2>1, <2>2, <3>1, <3>3 DEF WireInv, TurnInv
  <2>. QED  BY <2>1, <2>3, <2>4, <2>5, TalkKeeps
<1>7. CASE FinishRun \/ Publish \/ Exit
  <2>1. AsRuntime /\ rt' \in {"publishing", "exiting", "exited"} /\ UNCHANGED <<toBridge, verdict>>
        BY <1>7 DEF FinishRun, Publish, Exit
  <2>. QED  BY <2>1, SilenceKeeps
<1>. QED  BY <1>1, <1>2, <1>3, <1>4, <1>5, <1>6, <1>7 DEF Runtime

\* The handler ends the one task there is.
LEMMA HandlerConv ==
    ASSUME TypeInv, ConvInv, Handler
    PROVE  ConvInv'
<1>a. /\ expected \in Nat /\ runs \in [CallIds -> {"none", "started", "completed", "failed"}]
      /\ \A c \in CallIds : c \in Nat
      BY BridgeBounds DEF TypeInv, TypeOK, BridgeType, CleanupType
<1>b. UNCHANGED <<rt, nextSeq, answer, verdict, toBridge, toRuntime, b, expected, fatalSent, request, control, error>>
      BY DEF Handler, TaskEnds, CleanupEnds, AsHandler, runtime, pipes, handling
<1>c. VerdictInv' /\ DeadlineInv' /\ NeverBlamed' /\ Written' = Written
      BY <1>b DEF ConvInv, VerdictInv, DeadlineInv, NeverBlamed, Written
<1>1. CASE TaskEnds
  <2>1. PICK how \in {"completed", "fatal", "cancelled"} :
            /\ task \in {"running", "cancelling"} /\ task' = "done"
            /\ result' = IF task = "running" THEN how ELSE result
            /\ runs' = [runs EXCEPT ![request.seq] = IF how = "completed" THEN how ELSE "failed"]
        BY <1>1 DEF TaskEnds
  <2>2. request.seq \in CallIds /\ runs[request.seq] = "started"
        BY <2>1 DEF ConvInv, ServeInv
  <2>3. /\ runs'[request.seq] = IF how = "completed" THEN how ELSE "failed"
        /\ \A c \in CallIds \ {request.seq} : runs'[c] = runs[c]
        BY <1>a, <2>1, <2>2
  <2>4. task = "running" => b \in {"execute", "abort"}
        BY DEF TypeInv, Settling
  <2>5. b \in Answered => result' = result
        BY <2>1, <2>4 DEF Answered
  <2>6. GoOn' <=> GoOn
        BY <1>b, <2>5 DEF GoOn
  <2>7. ServeInv'
    <3>1. b # "read" /\ (b \in Loop => request.seq = expected)
          BY <2>1 DEF ConvInv, ServeInv, Loop
    <3>2. b \in Loop => \A c \in CallIds : c >= expected /\ c # expected => runs'[c] = "none"
          BY <2>3, <3>1 DEF ConvInv, ServeInv
    <3>3. b \in Loop => \A c \in CallIds : c < expected => runs'[c] = "completed"
          BY <1>a, <2>3, <3>1 DEF ConvInv, ServeInv
    <3>4. b = "execute" => task = "running"
          BY <2>1 DEF ConvInv, ServeInv
    <3>5. b \in Loop \ {"read", "execute"} => result' = result /\ result # "completed"
          BY <2>1, <2>4 DEF ConvInv, ServeInv, Loop, Executing, Answered
    <3>6. /\ (b = "execute" \/ b \in Loop \ {"read", "execute"}) /\ result' = "completed"
              => runs'[request.seq] = "completed"
          BY <2>1, <2>3, <3>4, <3>5
    <3>7. /\ (b = "execute" \/ b \in Loop \ {"read", "execute"}) /\ control => result' = "fatal"
          BY <3>5 DEF ConvInv, ServeInv
    <3>. QED  BY <1>b, <2>1, <3>1, <3>2, <3>3, <3>5, <3>6, <3>7 DEF ConvInv, ServeInv
  <2>8. AnswerInv'
    <3>1. rt \in {"reading", "parsing"} => nextSeq - 1 \in CallIds
          BY BridgeBounds DEF TypeInv, TypeOK, RuntimeType, ConvInv, VerdictInv, CallIds
    <3>2. ASSUME NEW m, Answers(m), rt \in {"reading", "parsing"}
          PROVE  Answers(m)'
          BY <1>a, <1>b, <2>2, <2>3, <3>1, <3>2 DEF Answers
    <3>. QED  BY <1>b, <3>2 DEF ConvInv, AnswerInv, Answers
  <2>9. ASSUME b \in Loop PROVE WireInv' /\ TurnInv'
        BY <1>b, <1>c, <2>5, <2>6, <2>9 DEF ConvInv, WireInv, TurnInv
  <2>. QED  BY <1>b, <1>c, <2>7, <2>8, <2>9 DEF ConvInv
<1>2. CASE CleanupEnds
  <2>1. UNCHANGED <<task, result, runs>>
        BY <1>2 DEF CleanupEnds
  <2>2. ServeInv' /\ AnswerInv' /\ (GoOn' <=> GoOn)
        BY <1>b, <2>1 DEF ConvInv, ServeInv, AnswerInv, Answers, GoOn
  <2>3. ASSUME b \in Loop PROVE WireInv' /\ TurnInv'
        BY <1>b, <1>c, <2>1, <2>2, <2>3 DEF ConvInv, WireInv, TurnInv
  <2>. QED  BY <1>b, <1>c, <2>2, <2>3 DEF ConvInv
<1>. QED  BY <1>1, <1>2 DEF Handler

\* Out of its loop the bridge reads and writes no more.
LEMMA LeftKeeps ==
    ASSUME ConvInv, b' \notin Loop, NeverBlamed', DeadlineInv',
           UNCHANGED <<nextSeq, verdict, answer, toRuntime, request, runs>>, rt' = rt \/ rt' = "exited",
           task' \in {"running", "cancelling"} => task \in {"running", "cancelling"}
    PROVE  ConvInv'
<1>1. VerdictInv'
      BY DEF ConvInv, VerdictInv
<1>2. ServeInv'
      BY DEF ConvInv, ServeInv, Loop, Executing, Answered
<1>3. AnswerInv'
      BY DEF ConvInv, AnswerInv, Answers
<1>. QED  BY <1>1, <1>2, <1>3 DEF ConvInv

\* An exception other than a missed cutoff or a request out of turn.
LEMMA RaiseKeeps ==
    ASSUME ConvInv, b \in Loop, b' \notin Loop,
           error' \notin {"external_request_after_fatal", "external_request_sequence_mismatch",
                          "tool_settlement_deadline_exceeded"},
           UNCHANGED <<nextSeq, verdict, answer, toRuntime, request, runs, rt>>,
           task' \in {"running", "cancelling"} => task \in {"running", "cancelling"}
    PROVE  ConvInv'
<1>1. NeverBlamed' /\ DeadlineInv'
      BY DEF NeverBlamed, DeadlineInv
<1>. QED  BY <1>1, LeftKeeps

\* A step of the loop in which neither pipe nor count moves.
LEMMA StayKeeps ==
    ASSUME ConvInv, ServeInv',
           \/ b \in Executing /\ b' \in Executing
           \/ b \in Answered /\ b' \in Answered /\ result' = result,
           UNCHANGED <<rt, nextSeq, verdict, answer, toBridge, toRuntime, expected, runs, error>>
    PROVE  ConvInv'
<1>1. VerdictInv' /\ AnswerInv' /\ DeadlineInv' /\ NeverBlamed'
      BY DEF ConvInv, VerdictInv, AnswerInv, Answers, DeadlineInv, NeverBlamed
<1>2. Written' = Written /\ (GoOn' <=> GoOn) /\ b \in Loop
      BY DEF Written, GoOn, Loop, Executing, Answered
<1>3. WireInv'
      BY <1>2 DEF ConvInv, WireInv
<1>4. TurnInv'
      BY <1>2 DEF ConvInv, TurnInv, Executing, Answered
<1>. QED  BY <1>1, <1>2, <1>3, <1>4 DEF ConvInv

\* The line the bridge reads is the request it expects.
LEMMA ReadConv ==
    ASSUME TypeInv, ConvInv, ReadRequest
    PROVE  ConvInv'
<1>. DEFINE line == Head(toBridge)
<1>a. /\ expected \in Nat /\ nextSeq \in Nat /\ runs \in [CallIds -> {"none", "started", "completed", "failed"}]
      /\ \A c \in CallIds : c \in Nat
      BY BridgeBounds DEF TypeInv, TypeOK, BridgeType, CleanupType, RuntimeType
<1>1. /\ b = "read" /\ toBridge # << >> /\ toBridge' = Tail(toBridge)
      /\ IF LineError(line) # "none"
         THEN Raise(LineError(line)) /\ UNCHANGED <<request, task, runs>>
         ELSE /\ request' = line /\ task' = "running" /\ b' = "execute" /\ UNCHANGED error
              /\ runs' = [runs EXCEPT ![line.seq] = "started"]
      /\ UNCHANGED <<toRuntime, expected, fatalSent, result, control, rt, nextSeq, answer, verdict>>
      BY DEF ReadRequest, LineReady, AsBridge, runtime
<1>2. b \in Loop
      BY <1>1 DEF Loop
<1>3. PICK m \in Messages : /\ toBridge = <<m>> /\ m.seq = Written /\ m.seq \in CallIds /\ GoOn
                            /\ verdict[m.seq] \in {"sent", "lost"}
      BY <1>1, <1>2 DEF ConvInv, WireInv
<1>4. line = m /\ toBridge' = << >>
      BY <1>1, <1>3, OneLine
<1>5. m.seq = expected /\ expected \in CallIds /\ ~fatalSent
      BY <1>1, <1>3, <1>a DEF Written, GoOn, Answered
<1>6. LineError(line) \in {"none", "external_request_framing_invalid", "deadline_before_dispatch"}
      BY <1>4, <1>5 DEF LineError
<1>. HIDE DEF line
<1>7. CASE LineError(line) # "none"
  <2>1. b' = "abort" /\ error' = LineError(line) /\ UNCHANGED <<request, task, runs>>
        BY <1>1, <1>7 DEF Raise
  <2>2. b' \notin Loop
        BY <2>1 DEF Loop, Executing, Answered
  <2>. QED  BY <1>1, <1>2, <1>6, <2>1, <2>2, RaiseKeeps
<1>8. CASE LineError(line) = "none"
  <2>1. /\ request' = m /\ task' = "running" /\ b' = "execute" /\ UNCHANGED error
        /\ runs' = [runs EXCEPT ![expected] = "started"]
        BY <1>1, <1>4, <1>5, <1>8
  <2>2. runs'[expected] = "started" /\ \A c \in CallIds \ {expected} : runs'[c] = runs[c]
        BY <1>a, <1>5, <2>1
  <2>3. /\ \A c \in CallIds : c >= expected => runs[c] = "none"
        /\ \A c \in CallIds : c < expected => runs[c] = "completed"
        /\ ~control
        BY <1>1, <1>2, <1>5 DEF ConvInv, ServeInv
  <2>4. ServeInv'
    <3>1. \A c \in CallIds : c >= expected /\ c # expected => runs'[c] = "none"
          BY <2>2, <2>3
    <3>2. \A c \in CallIds : c < expected => runs'[c] = "completed"
          BY <1>a, <2>2, <2>3
    <3>. QED  BY <1>1, <1>3, <1>5, <2>1, <2>2, <2>3, <3>1, <3>2 DEF ServeInv, Loop, Executing, Answered
  <2>5. rt \notin {"idle", "sending", "parsing"}
        /\ (rt = "reading" => toRuntime = << >> /\ nextSeq = expected + 1)
    <3>1. TurnInv /\ Written = expected
          BY <1>1, <1>2, <1>a DEF ConvInv, Written, Answered
    <3>. QED  BY <1>1, <3>1 DEF TurnInv
  <2>6. WireInv'
        BY <1>4 DEF WireInv
  <2>7. TurnInv'
        BY <1>1, <1>4, <2>1, <2>5 DEF TurnInv, Executing
  <2>8. AnswerInv'
        BY <1>1, <2>5 DEF AnswerInv
  <2>9. VerdictInv' /\ DeadlineInv' /\ NeverBlamed' /\ error' = "none"
        BY <1>1, <1>2, <2>1 DEF ConvInv, VerdictInv, DeadlineInv, NeverBlamed
  <2>. QED  BY <2>4, <2>6, <2>7, <2>8, <2>9 DEF ConvInv
<1>. QED  BY <1>7, <1>8

\* An answer goes to a runtime that waits for it, or to one that has given up.
LEMMA WriteConv ==
    ASSUME TypeInv, ConvInv, WriteResponse
    PROVE  ConvInv'
<1>0. PICK m : m = [seq |-> request.seq, kind |-> result]
      OBVIOUS
<1>a. /\ expected \in Nat /\ nextSeq \in Nat /\ request.seq \in Nat
      BY DEF TypeInv, TypeOK, BridgeType, RuntimeType, Messages
<1>1. /\ b = "write"
      /\ UNCHANGED <<toBridge, expected, fatalSent, request, result, control, task, runs, rt, nextSeq, answer, verdict>>
      BY DEF WriteResponse, serving, AsBridge, runtime
<1>2. b \in Loop /\ b \in Executing /\ b \notin Answered
      BY <1>1 DEF Loop, Executing, Answered
<1>3. CASE now >= BridgeStage(Drain)
  <2>1. b' = "abort" /\ error' = "response_serialization_deadline_exceeded" /\ UNCHANGED toRuntime
        BY <1>3 DEF WriteResponse, Raise
  <2>2. b' \notin Loop
        BY <2>1 DEF Loop, Executing, Answered
  <2>. QED  BY <1>1, <1>2, <2>1, <2>2, RaiseKeeps
<1>4. CASE ~(now >= BridgeStage(Drain))
  <2>1. toRuntime' = Append(toRuntime, m) /\ b' = "buffered" /\ UNCHANGED error
        BY <1>0, <1>4 DEF WriteResponse
  <2>2. /\ request.seq = expected /\ expected \in CallIds /\ result \in {"completed", "fatal"}
        /\ result = "completed" => runs[request.seq] = "completed"
        BY <1>1, <1>2 DEF ConvInv, ServeInv
  <2>3. m \in Messages /\ m.seq = expected /\ m.kind = result
        BY <1>0, <1>a, <2>2 DEF Messages
  <2>4. ServeInv'
        BY <1>1, <2>1 DEF ConvInv, ServeInv, Loop, Executing, Answered
  <2>5. toBridge = << >> /\ ~GoOn
        BY <1>1, <1>2 DEF ConvInv, WireInv, GoOn
  <2>6. rt \notin {"idle", "sending", "parsing"}
        /\ (rt = "reading" => toRuntime = << >> /\ nextSeq = expected + 1)
    <3>1. TurnInv
          BY <1>2 DEF ConvInv
    <3>. QED  BY <1>1, <2>5, <3>1 DEF TurnInv, Answered
  <2>7. rt = "reading" => toRuntime' = <<m>> /\ toRuntime' # << >> /\ Head(toRuntime') = m
        BY <2>1, <2>6, OneLine
  <2>8. rt = "reading" => Answers(m)'
        BY <1>1, <1>a, <2>2, <2>3, <2>6 DEF Answers
  <2>9. AnswerInv'
        BY <1>1, <2>3, <2>6, <2>7, <2>8 DEF AnswerInv
  <2>10. Written' = expected + 1
        BY <1>1, <1>a, <2>1 DEF Written, Answered
  <2>11. TurnInv'
        BY <1>1, <2>1, <2>3, <2>5, <2>6, <2>7, <2>10 DEF TurnInv, Answered
  <2>12. WireInv'
        BY <1>1, <2>5 DEF WireInv
  <2>13. VerdictInv' /\ DeadlineInv' /\ NeverBlamed' /\ error' = "none"
        BY <1>1, <1>2, <2>1 DEF ConvInv, VerdictInv, DeadlineInv, NeverBlamed
  <2>. QED  BY <2>4, <2>9, <2>11, <2>12, <2>13 DEF ConvInv
<1>. QED  BY <1>3, <1>4

\* The count moves on with the answer; a missed cutoff is raised behind it.
LEMMA DrainedConv ==
    ASSUME TypeInv, CleanInv, ConvInv, Drained
    PROVE  ConvInv'
<1>a. expected \in Nat /\ nextSeq \in Nat /\ (\A c \in CallIds : c \in Nat) /\ control \in BOOLEAN
      BY BridgeBounds DEF TypeInv, TypeOK, BridgeType, RuntimeType
<1>1. /\ b = "drain" /\ expected' = expected + 1 /\ fatalSent' = (result = "fatal")
      /\ UNCHANGED <<toBridge, toRuntime, request, result, control, task, runs, rt, nextSeq, answer, verdict>>
      BY DEF Drained, FatalNow, AsBridge, runtime
<1>2. b \in Loop /\ b \in Answered /\ b \notin Executing
      BY <1>1 DEF Loop, Executing, Answered
<1>3. result \in {"completed", "fatal"}
      BY <1>1, <1>2 DEF ConvInv, ServeInv
<1>4. TurnInv /\ WireInv /\ Written = expected + 1
      BY <1>2 DEF ConvInv, Written
<1>5. CASE control
  <2>1. b' = "abort" /\ error' = "tool_settlement_deadline_exceeded"
        BY <1>5 DEF Drained, Raise
  <2>2. b' \notin Loop
        BY <2>1 DEF Loop, Executing, Answered
  <2>3. result = "fatal"
        BY <1>1, <1>2, <1>5 DEF ConvInv, ServeInv
  <2>4. ~GoOn /\ toBridge = << >>
        BY <1>2, <1>4, <2>3 DEF GoOn, WireInv
  <2>5. DeadlineInv'
        BY <1>1, <1>2, <1>4, <2>3, <2>4 DEF TurnInv, DeadlineInv
  <2>6. NeverBlamed'
        BY <2>1 DEF NeverBlamed
  <2>. QED  BY <1>1, <2>2, <2>5, <2>6, LeftKeeps
<1>6. CASE ~control
  <2>1. b' = "read" /\ UNCHANGED error
        BY <1>6 DEF Drained
  <2>2. task = "none"
        BY <1>1, <1>6 DEF CleanInv, TaskInv
  <2>3. Written' = Written
        BY <1>1, <1>4, <2>1 DEF Written, Answered
  <2>4. GoOn' <=> GoOn
        BY <1>1, <1>2, <1>3, <2>1 DEF GoOn, Answered
  <2>5. ServeInv'
    <3>1. \A c \in CallIds : c >= expected /\ c # expected => runs[c] = "none"
          BY <1>1, <1>2 DEF ConvInv, ServeInv
    <3>2. \A c \in CallIds : c < expected => runs[c] = "completed"
          BY <1>1, <1>2 DEF ConvInv, ServeInv
    <3>3. result = "completed" => runs[expected] = "completed"
          BY <1>1, <1>2 DEF ConvInv, ServeInv
    <3>4. \A c \in CallIds : c >= expected' => runs'[c] = "none"
          BY <1>1, <1>a, <3>1
    <3>5. ~fatalSent' => \A c \in CallIds : c < expected' => runs'[c] = "completed"
      <4>1. ~fatalSent' => result = "completed"
            BY <1>1, <1>3
      <4>. QED  BY <1>1, <1>a, <3>2, <3>3, <4>1
    <3>. QED  BY <1>1, <1>6, <2>1, <2>2, <3>4, <3>5 DEF ServeInv, Loop, Executing, Answered
  <2>6. WireInv'
        BY <1>1, <1>4, <2>3, <2>4 DEF WireInv
  <2>7. TurnInv'
        BY <1>1, <1>2, <1>4, <2>1, <2>3, <2>4 DEF TurnInv
  <2>8. VerdictInv' /\ AnswerInv' /\ DeadlineInv' /\ NeverBlamed' /\ error' = "none"
        BY <1>1, <1>2, <2>1 DEF ConvInv, VerdictInv, AnswerInv, Answers, DeadlineInv, NeverBlamed
  <2>. QED  BY <2>5, <2>6, <2>7, <2>8 DEF ConvInv
<1>. QED  BY <1>5, <1>6, <1>a

\* Every step of the bridge.
LEMMA BridgeConv ==
    ASSUME TypeInv, CleanInv, ConvInv, Bridge \/ CallerCancel
    PROVE  ConvInv'
<1>. USE DEF Loop, Executing, Answered
<1>1. CASE ReadRequest
      BY <1>1, ReadConv
<1>2. CASE WriteResponse
      BY <1>2, WriteConv
<1>3. CASE Drained
      BY <1>3, DrainedConv
<1>4. CASE ReadEof \/ ReadTimeout \/ DrainFails
  <2>1. /\ b \in Loop /\ b' \notin Loop
        /\ error' \in {error, "external_runtime_nonzero", "runtime_publication_deadline_exceeded",
                       "response_serialization_deadline_exceeded", "pipe_broken"}
        /\ UNCHANGED <<nextSeq, verdict, answer, toRuntime, request, runs, rt, task>>
        BY <1>4 DEF ReadEof, ReadTimeout, DrainFails, Raise, AsBridge, runtime, serving
  <2>2. error = "none"
        BY <2>1 DEF ConvInv
  <2>. QED  BY <2>1, <2>2, RaiseKeeps
<1>5. CASE TakeResult
  <2>1. /\ b = "execute" /\ task = "done"
        /\ UNCHANGED <<nextSeq, verdict, answer, toBridge, toRuntime, expected, fatalSent, request, result,
                       control, runs, rt>>
        /\ \/ b' = "abort" /\ error' = "cancelled" /\ UNCHANGED task
           \/ result # "cancelled" /\ b' = "encode" /\ task' = "none" /\ UNCHANGED error
        BY <1>5 DEF TakeResult, Raise, AsBridge, runtime, serving
  <2>2. CASE b' = "abort" /\ error' = "cancelled" /\ UNCHANGED task
        BY <2>1, <2>2, RaiseKeeps
  <2>3. CASE result # "cancelled" /\ b' = "encode" /\ task' = "none" /\ UNCHANGED error
    <3>1. result \in {"completed", "fatal"}
          BY <2>1, <2>3 DEF TypeInv, Settling
    <3>2. ServeInv'
          BY <2>1, <2>3, <3>1 DEF ConvInv, ServeInv
    <3>. QED  BY <2>1, <2>3, <3>2, StayKeeps
  <2>. QED  BY <2>1, <2>2, <2>3
<1>6. CASE ExecuteTimeout
  <2>1. /\ b = "execute" /\ task = "running" /\ task' = "cancelling" /\ result' = "fatal" /\ control' = TRUE
        /\ b' = "encode"
        /\ UNCHANGED <<nextSeq, verdict, answer, toBridge, toRuntime, expected, fatalSent, request, error, runs, rt>>
        BY <1>6 DEF ExecuteTimeout, AsBridge, runtime, pipes
  <2>2. ServeInv'
        BY <2>1 DEF ConvInv, ServeInv
  <2>. QED  BY <2>1, <2>2, StayKeeps
<1>7. CASE EncodeResponse
  <2>1. /\ b = "encode"
        /\ UNCHANGED <<nextSeq, verdict, answer, toBridge, toRuntime, expected, fatalSent, request, control, task,
                       runs, rt>>
        /\ \/ b' = "abort" /\ error' = "response_serialization_deadline_exceeded"
           \/ b' = "encoded" /\ result' \in {result, "fatal"} /\ UNCHANGED error
        BY <1>7 DEF EncodeResponse, Raise, AsBridge, runtime
  <2>2. CASE b' = "abort" /\ error' = "response_serialization_deadline_exceeded"
        BY <2>1, <2>2, RaiseKeeps
  <2>3. CASE b' = "encoded" /\ result' \in {result, "fatal"} /\ UNCHANGED error
    <3>1. ServeInv'
          BY <2>1, <2>3 DEF ConvInv, ServeInv
    <3>. QED  BY <2>1, <2>3, <3>1, StayKeeps
  <2>. QED  BY <2>1, <2>2, <2>3
<1>8. CASE Encoded \/ StartDrain
  <2>1. /\ UNCHANGED <<nextSeq, verdict, answer, toBridge, toRuntime, expected, fatalSent, request, result, control,
                       task, runs, rt>>
        /\ b \in {"encoded", "buffered"}
        /\ \/ b' = "abort" /\ error' = "response_serialization_deadline_exceeded"
           \/ UNCHANGED error /\ <<b, b'>> \in {<<"encoded", "write">>, <<"buffered", "drain">>}
        BY <1>8 DEF Encoded, StartDrain, Raise, AsBridge, runtime, serving
  <2>2. CASE b' = "abort" /\ error' = "response_serialization_deadline_exceeded"
        BY <2>1, <2>2, RaiseKeeps
  <2>3. CASE UNCHANGED error /\ <<b, b'>> \in {<<"encoded", "write">>, <<"buffered", "drain">>}
    <3>1. ServeInv'
          BY <2>1, <2>3 DEF ConvInv, ServeInv
    <3>. QED  BY <2>1, <2>3, <3>1, StayKeeps
  <2>. QED  BY <2>1, <2>2, <2>3
<1>9. CASE CancelTask \/ AwaitTask \/ LeaveTask \/ ChildGone \/ TerminateChild \/ KillChild \/ JointDone
           \/ JointGivenUp \/ LeaveJoint \/ DrainStderr \/ ReturnError \/ ReturnBare
  <2>1. /\ b' \notin Loop /\ UNCHANGED <<error, nextSeq, verdict, answer, toRuntime, request, runs>>
        /\ rt' = rt \/ rt' = "exited"
        /\ task' \in {"running", "cancelling"} => task \in {"running", "cancelling"}
        BY <1>9 DEF CancelTask, AwaitTask, LeaveTask, Join, ChildGone, TerminateChild, KillChild, JointDone, JointGivenUp, LeaveJoint, DrainStderr,
            ReturnError, ReturnBare, AsBridge, runtime, pipes, serving, handling
  <2>2. NeverBlamed' /\ DeadlineInv'
        BY <2>1 DEF ConvInv, NeverBlamed, DeadlineInv
  <2>. QED  BY <2>1, <2>2, LeftKeeps
<1>10. CASE CallerCancel
  <2>1. /\ UNCHANGED <<nextSeq, verdict, answer, toRuntime, request, runs, rt, task>>
        /\ \/ b \in Loop /\ b' = "abort" /\ error' = "cancelled"
           \/ b \notin Loop /\ b' \notin Loop /\ UNCHANGED error
        BY <1>10 DEF CallerCancel, Raise, runtime, serving
  <2>2. CASE b \in Loop /\ b' = "abort" /\ error' = "cancelled"
        BY <2>1, <2>2, RaiseKeeps
  <2>3. CASE b \notin Loop /\ b' \notin Loop /\ UNCHANGED error
    <3>1. NeverBlamed' /\ DeadlineInv'
          BY <2>1, <2>3 DEF ConvInv, NeverBlamed, DeadlineInv
    <3>. QED  BY <2>1, <2>3, <3>1, LeftKeeps
  <2>. QED  BY <2>1, <2>2, <2>3
<1>. QED  BY <1>1, <1>2, <1>3, <1>4, <1>5, <1>6, <1>7, <1>8, <1>9, <1>10 DEF Bridge

\* The conversation is kept by every step.
LEMMA ConvStep ==
    ASSUME TypeInv, CleanInv, ConvInv, [Next]_vars
    PROVE  ConvInv'
<1>1. CASE Tick \/ UNCHANGED vars
  <2>1. UNCHANGED <<runtime, pipes, b, serving, task, handling, runs>>
        BY <1>1 DEF Tick, vars
  <2>. QED  BY <2>1 DEF runtime, pipes, serving, handling, ConvInv, VerdictInv, ServeInv, WireInv, TurnInv, AnswerInv,
                Answers, DeadlineInv, NeverBlamed, Written, GoOn
<1>2. CASE Runtime
      BY <1>2, RuntimeConv
<1>3. CASE Handler
      BY <1>3, HandlerConv
<1>4. CASE Bridge \/ CallerCancel
      BY <1>4, BridgeConv
<1>. QED  BY <1>1, <1>2, <1>3, <1>4 DEF Next, Done

\* Types, cleanup and conversation, in every state.
LEMMA ConvHolds == Spec => [](TypeInv /\ CleanInv /\ ConvInv)
<1>1. Init => TypeInv /\ CleanInv /\ ConvInv
      BY TypeInit, CleanInit, ConvInit
<1>2. (TypeInv /\ CleanInv /\ ConvInv) /\ [Next]_vars => (TypeInv /\ CleanInv /\ ConvInv)'
      BY TypeStep, CleanStep, ConvStep
<1>. QED  BY <1>1, <1>2, PTL DEF Spec

\* However answers, missed cutoffs and cancellations interleave, and wherever the
\* cutoffs lie, no request of the runtime reaches the bridge out of sequence or
\* behind a fatal settlement.
THEOREM RuntimeNeverBlamed == Spec => []NeverBlamed
<1>1. ConvInv => NeverBlamed
      BY DEF ConvInv
<1>. QED  BY <1>1, ConvHolds, PTL

\* A runtime that still waits when the bridge fails on a handler's missed cutoff
\* has the typed failure in its pipe, in front of the end of the stream.
THEOREM DeadlineComesFirst == Spec => []DeadlineBeforeEof
<1>1. ConvInv => DeadlineBeforeEof
      BY DEF ConvInv, DeadlineInv, DeadlineBeforeEof
<1>. QED  BY <1>1, ConvHolds, PTL

-----------------------------------------------------------------------------
\* Runtime, handler and bridge take the steps of the contract, one at a time.
LEMMA ContractStep ==
    ASSUME TypeInv, CleanInv, ConvInv, [Next]_vars
    PROVE  Contract!Next \/ UNCHANGED <<verdict, runs>>
<1>a. /\ nextSeq \in Nat /\ expected \in Nat /\ \A c \in CallIds : c \in Nat
      /\ verdict \in [CallIds -> {"none", "sent", "accepted", "lost"}]
      /\ runs \in [CallIds -> {"none", "started", "completed", "failed"}]
      BY BridgeBounds DEF TypeInv, TypeOK, RuntimeType, BridgeType, CleanupType
<1>b. CallIds = Contract!CallIds
      BY DEF CallIds, Contract!CallIds
<1>c. rt = "sending" => nextSeq \in CallIds /\ \A c \in CallIds : verdict[c] = IF c < nextSeq THEN "accepted" ELSE "none"
      BY DEF TypeInv, Settling, ConvInv, VerdictInv
<1>d. rt \in {"reading", "parsing"} =>
          /\ nextSeq - 1 \in CallIds /\ verdict[nextSeq - 1] = "sent"
          /\ \A c \in CallIds : c < nextSeq - 1 => verdict[c] = "accepted"
  <2>1. nextSeq \in 0..MaxCalls
        BY DEF TypeInv, TypeOK, RuntimeType
  <2>2. rt \in {"reading", "parsing"} => nextSeq - 1 \in CallIds
        BY <2>1, BridgeBounds DEF CallIds, ConvInv, VerdictInv
  <2>. QED  BY <1>a, <2>2 DEF ConvInv, VerdictInv
<1>1. CASE Send
  <2>1. rt = "sending" /\ verdict' = [verdict EXCEPT ![nextSeq] = "sent"] /\ UNCHANGED runs
        BY <1>1 DEF Send, AsRuntime
  <2>2. Contract!SendCall(nextSeq)
        BY <1>a, <1>b, <1>c, <2>1 DEF Contract!SendCall
  <2>. QED  BY <1>b, <1>c, <2>1, <2>2 DEF Contract!Next
<1>2. CASE SendFails
  <2>1. rt = "sending" /\ verdict' = [verdict EXCEPT ![nextSeq] = "lost"] /\ UNCHANGED runs
        BY <1>2, <1>c DEF SendFails, GiveUpCall, AsRuntime
  <2>2. Contract!Lose(nextSeq)
        BY <1>a, <1>b, <1>c, <2>1 DEF Contract!Lose
  <2>. QED  BY <1>b, <1>c, <2>1, <2>2 DEF Contract!Next
<1>3. CASE ReceiveFails \/ Refuse \/ Abandon
  <2>1. rt \in {"reading", "parsing"} /\ verdict' = [verdict EXCEPT ![nextSeq - 1] = "lost"] /\ UNCHANGED runs
        BY <1>3 DEF ReceiveFails, Refuse, Abandon, GiveUpCall, AsRuntime
  <2>2. Contract!Lose(nextSeq - 1)
        BY <1>a, <1>b, <1>d, <2>1 DEF Contract!Lose
  <2>. QED  BY <1>b, <1>d, <2>1, <2>2 DEF Contract!Next
<1>4. CASE Accept
  <2>1. /\ rt = "parsing" /\ answer.seq = nextSeq - 1 /\ answer.kind = "completed"
        /\ verdict' = [verdict EXCEPT ![nextSeq - 1] = "accepted"] /\ UNCHANGED runs
        BY <1>4 DEF Accept, Acceptable, AsRuntime
  <2>2. runs[nextSeq - 1] = "completed"
        BY <2>1 DEF ConvInv, AnswerInv, Answers
  <2>3. Contract!AcceptResult(nextSeq - 1)
        BY <1>d, <2>1, <2>2 DEF Contract!AcceptResult
  <2>. QED  BY <1>b, <1>d, <2>1, <2>3 DEF Contract!Next
<1>5. CASE Call \/ Receive \/ FinishRun \/ Publish \/ Exit
      BY <1>5 DEF Call, Receive, FinishRun, Publish, Exit, AsRuntime
<1>6. CASE TaskEnds
  <2>1. task \in {"running", "cancelling"} /\ UNCHANGED verdict
        /\ \E r \in {"completed", "failed"} : runs' = [runs EXCEPT ![request.seq] = r]
        BY <1>6 DEF TaskEnds, AsHandler, runtime
  <2>2. request.seq \in CallIds /\ runs[request.seq] = "started"
        BY <2>1 DEF ConvInv, ServeInv
  <2>3. Contract!End(request.seq)
        BY <2>1, <2>2 DEF Contract!End
  <2>. QED  BY <1>b, <2>2, <2>3 DEF Contract!Next
<1>7. CASE ReadRequest
  <2>. DEFINE line == Head(toBridge)
  <2>1. /\ b = "read" /\ toBridge # << >> /\ UNCHANGED verdict
        /\ UNCHANGED runs \/ runs' = [runs EXCEPT ![line.seq] = "started"]
        BY <1>7 DEF ReadRequest, LineReady, AsBridge, runtime
  <2>2. PICK m \in Messages : /\ toBridge = <<m>> /\ m.seq = Written /\ m.seq \in CallIds /\ GoOn
                              /\ verdict[m.seq] \in {"sent", "lost"}
        BY <2>1 DEF ConvInv, WireInv, Loop
  <2>3. line = m /\ m.seq = expected /\ ~fatalSent
        BY <1>a, <2>1, <2>2, OneLine DEF Written, GoOn, Answered
  <2>. HIDE DEF line
  <2>4. CASE UNCHANGED runs
        BY <2>1, <2>4
  <2>5. CASE runs' = [runs EXCEPT ![line.seq] = "started"]
    <3>1. runs[expected] = "none" /\ \A c \in CallIds : c < expected => runs[c] = "completed"
          BY <1>a, <2>1, <2>2, <2>3 DEF ConvInv, ServeInv, Loop
    <3>2. Contract!Start(expected)
          BY <1>b, <2>1, <2>2, <2>3, <2>5, <3>1 DEF Contract!Start
    <3>. QED  BY <1>b, <2>2, <2>3, <3>2 DEF Contract!Next
  <2>. QED  BY <2>1, <2>4, <2>5
<1>8. CASE CleanupEnds \/ Tick \/ CallerCancel \/ UNCHANGED vars
      BY <1>8 DEF CleanupEnds, AsHandler, Tick, CallerCancel, runtime, vars
<1>9. CASE \/ ReadEof \/ ReadTimeout \/ TakeResult \/ ExecuteTimeout \/ EncodeResponse \/ Encoded \/ WriteResponse
           \/ StartDrain \/ Drained \/ DrainFails \/ CancelTask \/ AwaitTask \/ LeaveTask \/ ChildGone \/ TerminateChild
           \/ KillChild \/ JointDone \/ JointGivenUp \/ LeaveJoint \/ DrainStderr \/ ReturnError \/ ReturnBare
      BY <1>9 DEF ReadEof, ReadTimeout, TakeResult, ExecuteTimeout, EncodeResponse, Encoded, WriteResponse, StartDrain,
          Drained, DrainFails, CancelTask, AwaitTask, LeaveTask, ChildGone, TerminateChild, KillChild, JointDone, JointGivenUp, LeaveJoint, DrainStderr,
          ReturnError, ReturnBare, AsBridge, runtime
<1>. QED  BY <1>1, <1>2, <1>3, <1>4, <1>5, <1>6, <1>7, <1>8, <1>9 DEF Next, Runtime, Handler, Bridge, Done

\* Runtime, pipes, bridge and handler together implement the contract of a tool
\* call: for every number of calls, one is out at a time, each is executed at most
\* once and in order, a result is accepted only for its own completed execution,
\* and nothing follows the first call that is not accepted.
THEOREM BridgeKeepsContract == Spec => KeepsContract
<1>1. Init => Contract!Init
      BY DEF Init, Contract!Init, CallIds, Contract!CallIds
<1>2. (TypeInv /\ CleanInv /\ ConvInv) /\ [Next]_vars => [Contract!Next]_<<verdict, runs>>
      BY ContractStep
<1>. QED  BY <1>1, <1>2, ConvHolds, PTL DEF Spec, KeepsContract, Contract!Spec
=============================================================================
