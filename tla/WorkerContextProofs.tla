------------------------- MODULE WorkerContextProofs -------------------------
(***************************************************************************)
(* Proofs, for any number of works, calling threads and calls, that        *)
(* CMXWorkerContext keeps the safety properties of WorkerContext and       *)
(* implements SerialExecutor.                                              *)
(***************************************************************************)
EXTENDS WorkerContext, TLAPS

\* Labels at which a thread holds _queueLock.
QueueLocked == {"put", "drain", "cancel", "askWorking", "answerNo"}

\* _queueLock is held by the thread whose program counter says so, and the
\* worker thread is inside a method of the context only while it runs a work.
LockInv ==
  /\ \A t \in Threads : tpc[t] \in QueueLocked => owner = t
  /\ wpc = "owning" => owner = Worker
  /\ tpc[Worker] \in {"idle", "push", "put"}
  /\ tpc[Worker] # "idle" => wpc = "run"

\* push: is entered with a work; the dummy task is one.
ArgInv ==
  \A t \in Threads : tpc[t] \in {"push", "put"} => arg[t] \in Items

\* The condition and the queue disagree only between the drain of removeAll:
\* and its unlock, and then the queue is empty.
QueueInv ==
  /\ (\A t \in Threads : tpc[t] # "cancel")
       => (condition = "HasWork" <=> queue # <<>>)
  /\ \A t \in Threads : tpc[t] = "cancel" => queue = <<>>
  /\ wpc = "owning" => condition = "HasWork"

\* The published work is the local one of -start:, nil outside of a turn.
WorkInv ==
  /\ work = cur
  /\ wpc \in {"taken", "run", "sync", "clear"} <=> cur # NoWork

\* _workingLock is held by the worker thread while a work runs, or by a caller
\* inside the tryLock of isInProgress, which has seen an empty queue.
WorkingInv ==
  /\ wpc \in {"run", "sync"} => working = Worker
  /\ \A t \in Threads : tpc[t] = "askWorking" => working = t /\ queue = <<>>

Inv ==
  /\ TypeOK
  /\ LockInv
  /\ ArgInv
  /\ QueueInv
  /\ WorkInv
  /\ WorkingInv
  /\ RemoveAllReachesCurrent

-----------------------------------------------------------------------------
USE DEF Threads, Items, QueueLocked

\* The invariant holds when the context has been initialised.
LEMMA InitInv == Init => Inv
<1> SUFFICES ASSUME Init PROVE Inv
  OBVIOUS
<1>1. TypeOK
  <2>1. queue \in Seq(Items) /\ calls \in 0..MaxCalls
    BY ConstantsAssumption DEF Init
  <2>2. toBeContinued \in BOOLEAN /\ asked \in BOOLEAN
    BY DEF Init
  <2> QED
    BY <2>1, <2>2 DEF Init, TypeOK
<1>2. LockInv /\ ArgInv /\ WorkInv /\ WorkingInv /\ RemoveAllReachesCurrent
  BY ConstantsAssumption
  DEF Init, LockInv, ArgInv, WorkInv, WorkingInv, RemoveAllReachesCurrent
<1>3. QueueInv
  BY DEF Init, QueueInv
<1> QED
  BY <1>1, <1>2, <1>3 DEF Inv

\* push: keeps the invariant.
LEMMA PushInv ==
  ASSUME Inv, NEW t \in Threads,
         (\E w \in Works : PushBegin(t, w)) \/ PushLock(t) \/ PushPut(t)
  PROVE  Inv'
<1>1. ASSUME NEW w \in Works, PushBegin(t, w) PROVE Inv'
  <2>1. /\ TypeOK' /\ LockInv' /\ QueueInv' /\ WorkInv'
        /\ WorkingInv' /\ RemoveAllReachesCurrent'
    BY <1>1
    DEF PushBegin, MayCall, Goto, Inv, TypeOK, LockInv, QueueInv, WorkInv,
        WorkingInv, RemoveAllReachesCurrent
  <2>2. ArgInv'
    BY <1>1
    DEF PushBegin, MayCall, Goto, Inv, TypeOK, ArgInv
  <2> QED
    BY <2>1, <2>2 DEF Inv
<1>2. CASE PushLock(t)
  <2>1. /\ TypeOK' /\ ArgInv' /\ QueueInv' /\ WorkInv'
        /\ WorkingInv' /\ RemoveAllReachesCurrent'
    BY <1>2
    DEF PushLock, LockQueue, Goto, Inv, TypeOK, ArgInv, QueueInv, WorkInv,
        WorkingInv, RemoveAllReachesCurrent
  <2>2. LockInv'
    BY <1>2, ConstantsAssumption
    DEF PushLock, LockQueue, Goto, Inv, LockInv
  <2> QED
    BY <2>1, <2>2 DEF Inv
<1>3. CASE PushPut(t)
  <2>1. WorkInv'
    BY <1>3
    DEF PushPut, Goto, ConditionAfterPush, Inv, WorkInv
  <2>2. TypeOK'
    BY <1>3
    DEF PushPut, Goto, ConditionAfterPush, Inv, TypeOK, ArgInv
  <2>3. LockInv'
    BY <1>3
    DEF PushPut, Goto, ConditionAfterPush, Inv, TypeOK, LockInv
  <2>4. ArgInv'
    BY <1>3
    DEF PushPut, Goto, ConditionAfterPush, Inv, TypeOK, ArgInv
  <2>5. QueueInv'
    BY <1>3
    DEF PushPut, Goto, ConditionAfterPush, Inv, LockInv, QueueInv
  <2>6. WorkingInv'
    BY <1>3
    DEF PushPut, Goto, ConditionAfterPush, Inv, LockInv, WorkingInv
  <2>7. RemoveAllReachesCurrent'
    BY <1>3
    DEF PushPut, Goto, ConditionAfterPush, Inv, LockInv,
        RemoveAllReachesCurrent
  <2> QED
    BY <2>1, <2>2, <2>3, <2>4, <2>5, <2>6, <2>7 DEF Inv
<1> QED
  BY <1>1, <1>2, <1>3

\* removeAll: and shutdown: keep the invariant.
LEMMA RemoveInv ==
  ASSUME Inv, NEW t \in Threads,
         \/ RemoveBegin(t) \/ RemoveLock(t) \/ RemoveDrain(t)
         \/ RemoveCancel(t) \/ ShutdownBegin(t) \/ ShutdownReturn(t)
  PROVE  Inv'
<1>1. CASE RemoveBegin(t)
  <2>1. /\ ArgInv' /\ QueueInv' /\ WorkInv'
        /\ WorkingInv' /\ RemoveAllReachesCurrent'
    BY <1>1
    DEF RemoveBegin, MayCall, SpendCall, Goto, Inv, ArgInv, QueueInv, WorkInv,
        WorkingInv, RemoveAllReachesCurrent
  <2>2. TypeOK'
    BY <1>1, ConstantsAssumption
    DEF RemoveBegin, MayCall, SpendCall, Goto, Inv, TypeOK
  <2>3. LockInv'
    BY <1>1, ConstantsAssumption
    DEF RemoveBegin, MayCall, SpendCall, Goto, Inv, LockInv
  <2> QED
    BY <2>1, <2>2, <2>3 DEF Inv
<1>2. CASE RemoveLock(t)
  <2>1. /\ TypeOK' /\ ArgInv' /\ QueueInv' /\ WorkInv'
        /\ WorkingInv' /\ RemoveAllReachesCurrent'
    BY <1>2
    DEF RemoveLock, LockQueue, Goto, Inv, TypeOK, ArgInv, QueueInv, WorkInv,
        WorkingInv, RemoveAllReachesCurrent
  <2>2. LockInv'
    BY <1>2, ConstantsAssumption
    DEF RemoveLock, LockQueue, Goto, Inv, LockInv
  <2> QED
    BY <2>1, <2>2 DEF Inv
<1>3. CASE RemoveDrain(t)
  <2>1. TypeOK' /\ LockInv' /\ ArgInv' /\ WorkInv' /\ WorkingInv'
    BY <1>3
    DEF RemoveDrain, Goto, CancelTarget, Inv, TypeOK, LockInv, ArgInv,
        WorkInv, WorkingInv
  <2>2. QueueInv'
    BY <1>3
    DEF RemoveDrain, Goto, CancelTarget, Inv, TypeOK, QueueInv
  <2>3. RemoveAllReachesCurrent'
    BY <1>3
    DEF RemoveDrain, Goto, CancelTarget, Inv, TypeOK, LockInv, WorkInv,
        RemoveAllReachesCurrent
  <2> QED
    BY <2>1, <2>2, <2>3 DEF Inv
<1>4. CASE RemoveCancel(t)
  <2>1. TypeOK' /\ WorkInv' /\ WorkingInv'
    BY <1>4
    DEF RemoveCancel, Goto, AfterRemove, CancelReturns, Inv, TypeOK, WorkInv,
        WorkingInv
  <2>2. LockInv'
    BY <1>4
    DEF RemoveCancel, Goto, AfterRemove, CancelReturns, Inv, TypeOK, LockInv
  <2>3. ArgInv'
    BY <1>4
    DEF RemoveCancel, Goto, AfterRemove, CancelReturns, Inv, TypeOK, ArgInv
  <2>4. QueueInv'
    BY <1>4
    DEF RemoveCancel, Goto, AfterRemove, CancelReturns, Inv, LockInv, QueueInv
  <2>5. RemoveAllReachesCurrent'
    BY <1>4
    DEF RemoveCancel, Goto, AfterRemove, CancelReturns, Inv, TypeOK,
        RemoveAllReachesCurrent
  <2> QED
    BY <2>1, <2>2, <2>3, <2>4, <2>5 DEF Inv
<1>5. CASE ShutdownBegin(t)
  <2>1. /\ ArgInv' /\ QueueInv' /\ WorkInv'
        /\ WorkingInv' /\ RemoveAllReachesCurrent'
    BY <1>5
    DEF ShutdownBegin, MayCall, SpendCall, Goto, Inv, ArgInv, QueueInv,
        WorkInv, WorkingInv, RemoveAllReachesCurrent
  <2>2. TypeOK'
    <3>1. calls' \in 0..MaxCalls
      BY <1>5, ConstantsAssumption DEF ShutdownBegin, SpendCall, Inv, TypeOK
    <3>2. toBeContinued' \in BOOLEAN
      BY <1>5 DEF ShutdownBegin
    <3> QED
      BY <1>5, <3>1, <3>2 DEF ShutdownBegin, Goto, Inv, TypeOK
  <2>3. LockInv'
    BY <1>5, ConstantsAssumption
    DEF ShutdownBegin, MayCall, SpendCall, Goto, Inv, LockInv
  <2> QED
    BY <2>1, <2>2, <2>3 DEF Inv
<1>6. CASE ShutdownReturn(t)
  <2>1. /\ LockInv' /\ ArgInv' /\ QueueInv' /\ WorkInv'
        /\ WorkingInv' /\ RemoveAllReachesCurrent'
    BY <1>6
    DEF ShutdownReturn, MayCall, SpendCall, Inv, LockInv, ArgInv, QueueInv,
        WorkInv, WorkingInv, RemoveAllReachesCurrent
  <2>2. TypeOK'
    BY <1>6, ConstantsAssumption
    DEF ShutdownReturn, MayCall, SpendCall, Inv, TypeOK
  <2> QED
    BY <2>1, <2>2 DEF Inv
<1> QED
  BY <1>1, <1>2, <1>3, <1>4, <1>5, <1>6

\* isInProgress keeps the invariant.
LEMMA AskInv ==
  ASSUME Inv, NEW t \in Threads,
         AskQueue(t) \/ AskLock(t) \/ AskUnlockWorking(t) \/ AskReturn(t)
  PROVE  Inv'
<1>1. CASE AskQueue(t)
  <2>1. /\ ArgInv' /\ QueueInv' /\ WorkInv'
        /\ WorkingInv' /\ RemoveAllReachesCurrent'
    BY <1>1
    DEF AskQueue, MayCall, SpendCall, Goto, Inv, ArgInv, QueueInv, WorkInv,
        WorkingInv, RemoveAllReachesCurrent
  <2>2. TypeOK'
    BY <1>1, ConstantsAssumption
    DEF AskQueue, MayCall, SpendCall, Goto, Inv, TypeOK
  <2>3. LockInv'
    BY <1>1, ConstantsAssumption
    DEF AskQueue, MayCall, SpendCall, Goto, Inv, LockInv
  <2> QED
    BY <2>1, <2>2, <2>3 DEF Inv
<1>2. CASE AskLock(t)
  <2>1. TypeOK' /\ WorkInv'
    BY <1>2
    DEF AskLock, LockQueue, Goto, WorkingLockIsFree, Inv, TypeOK, WorkInv
  <2>2. LockInv'
    BY <1>2, ConstantsAssumption
    DEF AskLock, LockQueue, Goto, WorkingLockIsFree, Inv, TypeOK, LockInv
  <2>3. ArgInv'
    BY <1>2
    DEF AskLock, LockQueue, Goto, WorkingLockIsFree, Inv, TypeOK, ArgInv
  <2>4. QueueInv'
    BY <1>2
    DEF AskLock, LockQueue, Goto, WorkingLockIsFree, Inv, TypeOK, QueueInv
  <2>5. WorkingInv'
    BY <1>2, ConstantsAssumption
    DEF AskLock, LockQueue, Goto, WorkingLockIsFree, Inv, TypeOK, WorkingInv
  <2>6. RemoveAllReachesCurrent'
    BY <1>2
    DEF AskLock, LockQueue, Goto, WorkingLockIsFree, Inv, TypeOK,
        RemoveAllReachesCurrent
  <2> QED
    BY <2>1, <2>2, <2>3, <2>4, <2>5, <2>6 DEF Inv
<1>3. CASE AskUnlockWorking(t)
  <2>1. /\ TypeOK' /\ LockInv' /\ ArgInv' /\ QueueInv'
        /\ WorkInv' /\ RemoveAllReachesCurrent'
    BY <1>3
    DEF AskUnlockWorking, Goto, Inv, TypeOK, LockInv, ArgInv, QueueInv,
        WorkInv, RemoveAllReachesCurrent
  <2>2. WorkingInv'
    BY <1>3
    DEF AskUnlockWorking, Goto, Inv, TypeOK, LockInv, WorkingInv
  <2> QED
    BY <2>1, <2>2 DEF Inv
<1>4. CASE AskReturn(t)
  <2>1. /\ TypeOK' /\ ArgInv' /\ QueueInv' /\ WorkInv'
        /\ WorkingInv' /\ RemoveAllReachesCurrent'
    BY <1>4
    DEF AskReturn, Goto, Inv, TypeOK, ArgInv, QueueInv, WorkInv, WorkingInv,
        RemoveAllReachesCurrent
  <2>2. LockInv'
    BY <1>4
    DEF AskReturn, Goto, Inv, TypeOK, LockInv
  <2> QED
    BY <2>1, <2>2 DEF Inv
<1> QED
  BY <1>1, <1>2, <1>3, <1>4

\* -run and the worker thread's loop keep the invariant.
LEMMA WorkerInv ==
  ASSUME Inv, Run \/ SyncBegin \/ WorkerStep
  PROVE  Inv'
<1>1. CASE Run
  <2>1. /\ TypeOK' /\ LockInv' /\ ArgInv' /\ QueueInv'
        /\ WorkInv' /\ WorkingInv' /\ RemoveAllReachesCurrent'
    BY <1>1
    DEF Run, callerVars, Inv, TypeOK, LockInv, ArgInv, QueueInv, WorkInv,
        WorkingInv, RemoveAllReachesCurrent
  <2> QED
    BY <2>1 DEF Inv
<1>2. CASE Start
  <2>1. TypeOK' /\ LockInv' /\ ArgInv' /\ QueueInv' /\ WorkInv' /\ WorkingInv'
    BY <1>2
    DEF Start, callerVars, Inv, TypeOK, LockInv, ArgInv, QueueInv, WorkInv,
        WorkingInv
  <2>2. RemoveAllReachesCurrent'
    BY <1>2
    DEF Start, callerVars, Inv, TypeOK, LockInv, QueueInv,
        RemoveAllReachesCurrent
  <2> QED
    BY <2>1, <2>2 DEF Inv
<1>3. CASE LoopTest
  <2>1. /\ TypeOK' /\ LockInv' /\ ArgInv' /\ QueueInv'
        /\ WorkInv' /\ WorkingInv' /\ RemoveAllReachesCurrent'
    BY <1>3
    DEF LoopTest, callerVars, Inv, TypeOK, LockInv, ArgInv, QueueInv, WorkInv,
        WorkingInv, RemoveAllReachesCurrent
  <2> QED
    BY <2>1 DEF Inv
<1>4. CASE NextWorkLock
  <2>1. /\ TypeOK' /\ ArgInv' /\ QueueInv' /\ WorkInv'
        /\ WorkingInv' /\ RemoveAllReachesCurrent'
    BY <1>4
    DEF NextWorkLock, callerVars, LockQueue, Inv, TypeOK, ArgInv, QueueInv,
        WorkInv, WorkingInv, RemoveAllReachesCurrent
  <2>2. LockInv'
    BY <1>4, ConstantsAssumption
    DEF NextWorkLock, callerVars, LockQueue, Inv, LockInv
  <2> QED
    BY <2>1, <2>2 DEF Inv
<1>5. CASE NextWork
  <2>1. /\ LockInv' /\ ArgInv' /\ QueueInv'
        /\ WorkingInv' /\ RemoveAllReachesCurrent'
    BY <1>5
    DEF NextWork, callerVars, TakenItem, ConditionAfterTake, Inv, LockInv,
        ArgInv, QueueInv, WorkingInv, RemoveAllReachesCurrent
  <2>2. TypeOK'
    <3>1. CASE queue = <<>>
      BY <1>5, <3>1 DEF NextWork, callerVars, Inv, TypeOK
    <3>2. CASE queue # <<>>
      <4>1. Head(queue) \in Items /\ Tail(queue) \in Seq(Items)
        BY <3>2 DEF Inv, TypeOK
      <4> QED
        BY <1>5, <3>2, <4>1
        DEF NextWork, callerVars, TakenItem, ConditionAfterTake, Inv, TypeOK
    <3> QED
      BY <3>1, <3>2
  <2>3. WorkInv'
    BY <1>5, ConstantsAssumption
    DEF NextWork, callerVars, TakenItem, ConditionAfterTake, Inv, TypeOK,
        WorkInv
  <2> QED
    BY <2>1, <2>2, <2>3 DEF Inv
<1>6. CASE BeginRun
  <2>1. /\ TypeOK' /\ LockInv' /\ ArgInv' /\ QueueInv'
        /\ WorkInv' /\ RemoveAllReachesCurrent'
    BY <1>6
    DEF BeginRun, callerVars, Inv, TypeOK, LockInv, ArgInv, QueueInv, WorkInv,
        RemoveAllReachesCurrent
  <2>2. WorkingInv'
    BY <1>6, ConstantsAssumption
    DEF BeginRun, callerVars, Inv, WorkingInv
  <2> QED
    BY <2>1, <2>2 DEF Inv
<1>7. CASE SyncBegin
  <2>1. /\ TypeOK' /\ LockInv' /\ ArgInv' /\ QueueInv'
        /\ WorkInv' /\ WorkingInv' /\ RemoveAllReachesCurrent'
    BY <1>7
    DEF SyncBegin, callerVars, Inv, TypeOK, LockInv, ArgInv, QueueInv,
        WorkInv, WorkingInv, RemoveAllReachesCurrent
  <2> QED
    BY <2>1 DEF Inv
<1>8. CASE SyncServe
  <2>1. /\ TypeOK' /\ LockInv' /\ ArgInv' /\ QueueInv'
        /\ WorkInv' /\ WorkingInv' /\ RemoveAllReachesCurrent'
    BY <1>8
    DEF SyncServe, callerVars, Inv, TypeOK, LockInv, ArgInv, QueueInv,
        WorkInv, WorkingInv, RemoveAllReachesCurrent
  <2> QED
    BY <2>1 DEF Inv
<1>9. CASE EndRun
  <2>1. /\ TypeOK' /\ LockInv' /\ ArgInv' /\ QueueInv'
        /\ WorkInv' /\ WorkingInv' /\ RemoveAllReachesCurrent'
    BY <1>9
    DEF EndRun, callerVars, Inv, TypeOK, LockInv, ArgInv, QueueInv, WorkInv,
        WorkingInv, RemoveAllReachesCurrent
  <2> QED
    BY <2>1 DEF Inv
<1>10. CASE ClearWork
  <2>1. /\ TypeOK' /\ LockInv' /\ ArgInv' /\ QueueInv'
        /\ WorkInv' /\ WorkingInv' /\ RemoveAllReachesCurrent'
    BY <1>10
    DEF ClearWork, callerVars, WorkAfterRun, Inv, TypeOK, LockInv, ArgInv,
        QueueInv, WorkInv, WorkingInv, RemoveAllReachesCurrent
  <2> QED
    BY <2>1 DEF Inv
<1> QED
  BY <1>1, <1>2, <1>3, <1>4, <1>5, <1>6, <1>7, <1>8, <1>9, <1>10 DEF WorkerStep

\* A stuttering step keeps the invariant.
LEMMA StutterInv ==
  ASSUME Inv, UNCHANGED vars
  PROVE  Inv'
BY DEF vars, Inv, TypeOK, LockInv, ArgInv, QueueInv, WorkInv, WorkingInv,
       RemoveAllReachesCurrent

\* The invariant is inductive, so it holds of every state of the context.
THEOREM Invariance == Spec => []Inv
<1>1. ASSUME Inv, [Next]_vars PROVE Inv'
  <2>1. CASE \E t \in Threads : CallBegin(t) \/ CallStep(t)
    <3> PICK t \in Threads : CallBegin(t) \/ CallStep(t)
      BY <2>1
    <3> QED
      BY <1>1, PushInv, RemoveInv, AskInv DEF CallBegin, CallStep
  <2>2. CASE Run \/ SyncBegin \/ WorkerStep
    BY <1>1, <2>2, WorkerInv
  <2>3. CASE UNCHANGED vars
    BY <1>1, <2>3, StutterInv
  <2> QED
    BY <1>1, <2>1, <2>2, <2>3 DEF Next
<1> QED
  BY <1>1, InitInv, PTL DEF Spec

\* The variables of the context keep their types.
THEOREM TypeCorrect == Spec => []TypeOK
<1>1. Inv => TypeOK
  BY DEF Inv
<1> QED
  BY <1>1, Invariance, PTL

\* No push: is slept through: while _queueLock is free its condition says
\* whether the queue has a work.
THEOREM NoLostWakeup == Spec => []ConditionMatchesQueue
<1>1. ASSUME Inv PROVE ConditionMatchesQueue
  <2> SUFFICES ASSUME owner = NoThread
               PROVE  \A t \in Threads : tpc[t] # "cancel"
    BY <1>1 DEF ConditionMatchesQueue, Inv, QueueInv
  <2> QED
    BY <1>1, ConstantsAssumption DEF Inv, LockInv
<1> QED
  BY <1>1, Invariance, PTL

\* A worker thread that got the lock with kWorkQueueHasWork finds a work: the
\* loop of nextWork never goes back to sleep.
THEOREM WokenThreadHasWork == Spec => []WokenWithWork
<1>1. ASSUME Inv PROVE WokenWithWork
  <2> SUFFICES ASSUME wpc = "owning"
               PROVE  \A t \in Threads : tpc[t] # "cancel"
    BY <1>1 DEF WokenWithWork, Inv, QueueInv
  <2> QED
    BY <1>1, ConstantsAssumption DEF Inv, LockInv
<1> QED
  BY <1>1, Invariance, PTL

\* The assertion of -start: holds from the take to the end of the turn.
THEOREM AssertionHolds == Spec => []CurrentWorkIsPublished
<1>1. Inv => CurrentWorkIsPublished
  BY DEF Inv, WorkInv, CurrentWorkIsPublished
<1> QED
  BY <1>1, Invariance, PTL

\* removeAll: sends cancel: to the work the worker thread has in hand.
THEOREM CancelReachesWork == Spec => []RemoveAllReachesCurrent
<1>1. Inv => RemoveAllReachesCurrent
  BY DEF Inv
<1> QED
  BY <1>1, Invariance, PTL

\* isInProgress answers NO only when no work is queued or running.
THEOREM IdleAnswer == Spec => []NoAnswerWhileRunning
<1>1. Inv => NoAnswerWhileRunning
  BY ConstantsAssumption DEF Inv, WorkingInv, NoAnswerWhileRunning
<1> QED
  BY <1>1, Invariance, PTL

\* CMXWorkerContext implements the serial executor: works begin in the order
\* of push:, one at a time, and a removed one never begins.
THEOREM Refinement == Spec => ExecutorSpec
<1>1. Init => Executor!Init
  BY DEF Init, Executor!Init
<1>2. ASSUME Inv, [Next]_vars PROVE [Executor!Next]_<<queue, cur>>
  <2> USE <1>2 DEF Executor!Next
  <2>1. ASSUME NEW t \in Threads, PushPut(t) PROVE Executor!Next
    BY <2>1 DEF PushPut, Executor!Submit, Inv, ArgInv
  <2>2. ASSUME NEW t \in Threads, RemoveDrain(t) PROVE Executor!Next
    BY <2>2 DEF RemoveDrain, Executor!Discard
  <2>3. ASSUME NEW t \in Threads,
               CallBegin(t) \/ CallStep(t), ~PushPut(t), ~RemoveDrain(t)
        PROVE  UNCHANGED <<queue, cur>>
    BY <2>3 DEF CallBegin, CallStep, PushBegin, PushLock, RemoveBegin,
                RemoveLock, RemoveCancel, ShutdownBegin, ShutdownReturn,
                AskQueue, AskLock, AskUnlockWorking, AskReturn
  <2>4. CASE NextWork
    BY <2>4 DEF NextWork, TakenItem, Executor!Begin, Inv, WorkInv
  <2>5. CASE ClearWork
    BY <2>5 DEF ClearWork, Executor!Finish, Inv, WorkInv
  <2>6. CASE \/ Run \/ SyncBegin \/ Start \/ LoopTest \/ NextWorkLock
             \/ BeginRun \/ SyncServe \/ EndRun \/ UNCHANGED vars
    BY <2>6 DEF Run, SyncBegin, Start, LoopTest, NextWorkLock, BeginRun,
                SyncServe, EndRun, vars
  <2> QED
    BY <2>1, <2>2, <2>3, <2>4, <2>5, <2>6 DEF Next, CallStep, WorkerStep
<1> QED
  BY <1>1, <1>2, Invariance, PTL
  DEF Spec, ExecutorSpec, Executor!Spec, Executor!vars
=============================================================================
