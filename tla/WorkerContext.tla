---------------------------- MODULE WorkerContext ----------------------------
(***************************************************************************)
(* CMXWorkerContext (application/source/messaging/CMXWorkerContext.m): one *)
(* worker thread that runs the CMXRunnable works pushed on its queue, one  *)
(* after the other, and the threads that call push:, removeAll:,           *)
(* shutdown: and isInProgress on it.                                       *)
(*                                                                         *)
(* A step is what happens between two lock operations.  The queue is only  *)
(* written under _queueLock, so a step that holds it reads and writes the  *)
(* queue at once; _work, _workingLock and _toBeContinued are touched       *)
(* outside of that lock and have steps of their own.                       *)
(***************************************************************************)
EXTENDS Naturals, Sequences

CONSTANTS
  Works,        \* the works the program allocates; each is pushed once
  Callers,      \* threads that call the context's methods
  Main,         \* the main thread, one of the callers
  Worker,       \* the worker thread itself (a work may push)
  Dummy,        \* +[CMRDummyTask dummy], pushed by shutdown:
  NoWork,       \* nil, as a work
  NoThread,     \* nobody, as a lock's owner
  MaxCalls      \* bound: calls of removeAll:, shutdown: and isInProgress

ASSUME ConstantsAssumption ==
  /\ Main \in Callers
  /\ Worker \notin Callers
  /\ NoThread \notin Callers \cup {Worker}
  /\ Dummy \notin Works
  /\ NoWork \notin Works \cup {Dummy}
  /\ MaxCalls \in Nat

VARIABLES
  queue,          \* _workQueue
  owner,          \* the thread that holds _queueLock
  condition,      \* _queueLock's condition
  work,           \* _work, the current work as other threads see it
  working,        \* the thread that holds _workingLock
  toBeContinued,  \* _toBeContinued
  wpc,            \* where the worker thread is in -start:
  cur,            \* -start:'s local work_
  tpc,            \* where each thread is in a method of the context
  arg,            \* push:'s argument, per thread
  snap,           \* the work that cancel: has read, per thread
  stopping,       \* threads whose removeAll: was called by shutdown:
  cancelled,      \* works that got cancel:
  fresh,          \* works not pushed yet
  calls,          \* calls left
  asked           \* history: shutdown: has been called and has returned

vars == <<queue, owner, condition, work, working, toBeContinued, wpc, cur,
          tpc, arg, snap, stopping, cancelled, fresh, calls, asked>>

Threads == Callers \cup {Worker}
Items   == Works \cup {Dummy}

TypeOK ==
  /\ queue \in Seq(Items)
  /\ owner \in Threads \cup {NoThread}
  /\ condition \in {"Empty", "HasWork"}
  /\ work \in Items \cup {NoWork}
  /\ working \in Threads \cup {NoThread}
  /\ toBeContinued \in BOOLEAN
  /\ wpc \in {"new", "detached", "loop", "waiting", "owning", "taken",
              "run", "sync", "clear", "exited"}
  /\ cur \in Items \cup {NoWork}
  /\ tpc \in [Threads -> {"idle", "push", "put", "remove", "drain", "cancel",
                          "askQueue", "askWorking", "answerNo", "answerYes"}]
  /\ arg \in [Threads -> Items \cup {NoWork}]
  /\ snap \in [Threads -> Items \cup {NoWork}]
  /\ stopping \subseteq Threads
  /\ cancelled \subseteq Items
  /\ fresh \subseteq Works
  /\ calls \in 0..MaxCalls
  /\ asked \in BOOLEAN

\* -init: an empty queue, the three locks free.
Init ==
  /\ queue = <<>>
  /\ owner = NoThread
  /\ condition = "Empty"
  /\ work = NoWork
  /\ working = NoThread
  /\ toBeContinued = FALSE
  /\ wpc = "new"
  /\ cur = NoWork
  /\ tpc = [t \in Threads |-> "idle"]
  /\ arg = [t \in Threads |-> NoWork]
  /\ snap = [t \in Threads |-> NoWork]
  /\ stopping = {}
  /\ cancelled = {}
  /\ fresh = Works
  /\ calls = MaxCalls
  /\ asked = FALSE

Goto(t, label) == tpc' = [tpc EXCEPT ![t] = label]

\* A thread may enter a method of the context: a caller when it is in none,
\* the worker thread from inside the work it runs.
MayCall(t) ==
  /\ tpc[t] = "idle"
  /\ t = Worker => wpc = "run"

SpendCall ==
  /\ calls > 0
  /\ calls' = calls - 1

LockQueue(t) ==
  /\ owner = NoThread
  /\ owner' = t

-----------------------------------------------------------------------------
(* The small decisions of the methods.  A definition without a comment is a  *)
(* faulty variant of the next commented one, which some property catches.    *)

NoWakeup == condition

\* push: always leaves the lock with kWorkQueueHasWork.
ConditionAfterPush == "HasWork"

AlwaysHasWork == "HasWork"

\* nextWork sets the condition from what is left on the queue.
ConditionAfterTake == IF Tail(queue) = <<>> THEN "Empty" ELSE "HasWork"

LastItem == queue[Len(queue)]

\* -[SGBaseQueue take] returns the object at index 0.
TakenItem == Head(queue)

WorkKept == work

\* [self setWork : nil] at the end of a turn of the loop.
WorkAfterRun == NoWork

RunningWork == IF toBeContinued /\ working = Worker THEN work ELSE NoWork

\* cancel: does nothing once _toBeContinued is NO, else it cancels [self work].
CancelTarget == IF toBeContinued THEN work ELSE NoWork

WaitForWork == working = NoThread

\* cancel: does not wait for the work: the lock of _workingLock is compiled out.
CancelReturns == TRUE

NoDummy(t) == "idle"

\* removeAll: returns to its caller, which for shutdown: goes on with push:.
AfterRemove(t) == IF t \in stopping THEN "push" ELSE "idle"

AssumeFree == TRUE

\* The tryLock of isInProgress.
WorkingLockIsFree == working = NoThread

-----------------------------------------------------------------------------
(* push: *)

PushBegin(t, w) ==
  /\ MayCall(t)
  /\ w \in fresh
  /\ fresh' = fresh \ {w}
  /\ arg' = [arg EXCEPT ![t] = w]
  /\ Goto(t, "push")
  /\ UNCHANGED <<queue, owner, condition, work, working, toBeContinued, wpc,
                 cur, snap, stopping, cancelled, calls, asked>>

PushLock(t) ==
  /\ tpc[t] = "push"
  /\ LockQueue(t)
  /\ Goto(t, "put")
  /\ UNCHANGED <<queue, condition, work, working, toBeContinued, wpc, cur,
                 arg, snap, stopping, cancelled, fresh, calls, asked>>

\* The last step of push: is also the last one of shutdown:, when the work is
\* the dummy task.
PushPut(t) ==
  /\ tpc[t] = "put"
  /\ queue' = Append(queue, arg[t])
  /\ condition' = ConditionAfterPush
  /\ owner' = NoThread
  /\ asked' = (asked \/ arg[t] = Dummy)
  /\ arg' = [arg EXCEPT ![t] = NoWork]
  /\ Goto(t, "idle")
  /\ UNCHANGED <<work, working, toBeContinued, wpc, cur, snap, stopping,
                 cancelled, fresh, calls>>

-----------------------------------------------------------------------------
(* removeAll:, with the cancel: it makes under the lock *)

\* CMRThreadLayout clears its context until it disposes of it, never after: by
\* then the viewer has left the notification center.
RemoveBegin(t) ==
  /\ t \in Callers
  /\ MayCall(t)
  /\ toBeContinued \/ wpc \in {"new", "detached"}
  /\ SpendCall
  /\ Goto(t, "remove")
  /\ UNCHANGED <<queue, owner, condition, work, working, toBeContinued, wpc,
                 cur, arg, snap, stopping, cancelled, fresh, asked>>

RemoveLock(t) ==
  /\ tpc[t] = "remove"
  /\ LockQueue(t)
  /\ Goto(t, "drain")
  /\ UNCHANGED <<queue, condition, work, working, toBeContinued, wpc, cur,
                 arg, snap, stopping, cancelled, fresh, calls, asked>>

\* Takes every work off the queue; cancel: returns at once when the context is
\* shutting down, else it reads the current work.
RemoveDrain(t) ==
  /\ tpc[t] = "drain"
  /\ queue' = <<>>
  /\ snap' = [snap EXCEPT ![t] = CancelTarget]
  /\ Goto(t, "cancel")
  /\ UNCHANGED <<owner, condition, work, working, toBeContinued, wpc, cur,
                 arg, stopping, cancelled, fresh, calls, asked>>

\* Sends cancel: to the work read and gives the lock back; inside shutdown:
\* the thread goes on with push: of the dummy task.
RemoveCancel(t) ==
  /\ tpc[t] = "cancel"
  /\ CancelReturns
  /\ cancelled' = cancelled \cup ({snap[t]} \ {NoWork})
  /\ snap' = [snap EXCEPT ![t] = NoWork]
  /\ condition' = "Empty"
  /\ owner' = NoThread
  /\ stopping' = stopping \ {t}
  /\ arg' = [arg EXCEPT ![t] = IF t \in stopping THEN Dummy ELSE NoWork]
  /\ Goto(t, AfterRemove(t))
  /\ UNCHANGED <<queue, work, working, toBeContinued, wpc, cur, fresh, calls,
                 asked>>

-----------------------------------------------------------------------------
(* shutdown: *)

ShutdownBegin(t) ==
  /\ t \in Callers
  /\ MayCall(t)
  /\ SpendCall
  /\ toBeContinued
  /\ toBeContinued' = FALSE
  /\ stopping' = stopping \cup {t}
  /\ Goto(t, "remove")
  /\ UNCHANGED <<queue, owner, condition, work, working, wpc, cur, arg, snap,
                 cancelled, fresh, asked>>

\* The early return: nothing is stopped.  The layout has sent -run before.
ShutdownReturn(t) ==
  /\ t \in Callers
  /\ wpc # "new"
  /\ MayCall(t)
  /\ SpendCall
  /\ ~toBeContinued
  /\ asked' = TRUE
  /\ UNCHANGED <<queue, owner, condition, work, working, toBeContinued, wpc,
                 cur, tpc, arg, snap, stopping, cancelled, fresh>>

-----------------------------------------------------------------------------
(* isInProgress; an answer is a label the caller passes through *)

\* The first isEmpty is read without the lock.
AskQueue(t) ==
  /\ t \in Callers
  /\ MayCall(t)
  /\ SpendCall
  /\ Goto(t, IF queue = <<>> THEN "askQueue" ELSE "answerYes")
  /\ UNCHANGED <<queue, owner, condition, work, working, toBeContinued, wpc,
                 cur, arg, snap, stopping, cancelled, fresh, asked>>

\* The second isEmpty, under the lock, and the tryLock of _workingLock.
AskLock(t) ==
  /\ tpc[t] = "askQueue"
  /\ LockQueue(t)
  /\ \/ /\ queue = <<>> /\ WorkingLockIsFree
        /\ working' = t
        /\ Goto(t, "askWorking")
     \/ /\ queue # <<>> \/ ~WorkingLockIsFree
        /\ Goto(t, "answerYes")
        /\ UNCHANGED working
  /\ UNCHANGED <<queue, condition, work, toBeContinued, wpc, cur, arg, snap,
                 stopping, cancelled, fresh, calls, asked>>

AskUnlockWorking(t) ==
  /\ tpc[t] = "askWorking"
  /\ working' = NoThread
  /\ Goto(t, "answerNo")
  /\ UNCHANGED <<queue, owner, condition, work, toBeContinued, wpc, cur, arg,
                 snap, stopping, cancelled, fresh, calls, asked>>

\* Gives _queueLock back, its condition kept, when it was taken; returns.
AskReturn(t) ==
  /\ tpc[t] \in {"answerNo", "answerYes"}
  /\ owner' = IF owner = t THEN NoThread ELSE owner
  /\ Goto(t, "idle")
  /\ UNCHANGED <<queue, condition, work, working, toBeContinued, wpc, cur,
                 arg, snap, stopping, cancelled, fresh, calls, asked>>

-----------------------------------------------------------------------------
(* -run and the worker thread's -start: *)

callerVars == <<tpc, arg, snap, stopping, cancelled, fresh, calls, asked>>

\* -run detaches the thread; the thread starts some time later.
Run ==
  /\ wpc = "new"
  /\ tpc[Main] = "idle"
  /\ wpc' = "detached"
  /\ UNCHANGED <<queue, owner, condition, work, working, toBeContinued, cur>>
  /\ UNCHANGED callerVars

Start ==
  /\ wpc = "detached"
  /\ toBeContinued' = TRUE
  /\ wpc' = "loop"
  /\ UNCHANGED <<queue, owner, condition, work, working, cur>>
  /\ UNCHANGED callerVars

\* while (_toBeContinued)
LoopTest ==
  /\ wpc = "loop"
  /\ wpc' = IF toBeContinued THEN "waiting" ELSE "exited"
  /\ UNCHANGED <<queue, owner, condition, work, working, toBeContinued, cur>>
  /\ UNCHANGED callerVars

\* nextWork: lockWhenCondition: kWorkQueueHasWork
NextWorkLock ==
  /\ wpc = "waiting"
  /\ condition = "HasWork"
  /\ LockQueue(Worker)
  /\ wpc' = "owning"
  /\ UNCHANGED <<queue, condition, work, working, toBeContinued, cur>>
  /\ UNCHANGED callerVars

\* nextWork under the lock: back to waiting on an empty queue, else take the
\* first work, publish it with setWork: and set the condition.
NextWork ==
  /\ wpc = "owning"
  /\ owner' = NoThread
  /\ IF queue = <<>>
       THEN /\ wpc' = "waiting"
            /\ condition' = "Empty"
            /\ UNCHANGED <<queue, work, cur>>
       ELSE /\ wpc' = "taken"
            /\ cur' = TakenItem
            /\ work' = TakenItem
            /\ queue' = Tail(queue)
            /\ condition' = ConditionAfterTake
  /\ UNCHANGED <<working, toBeContinued>>
  /\ UNCHANGED callerVars

BeginRun ==
  /\ wpc = "taken"
  /\ working = NoThread
  /\ working' = Worker
  /\ wpc' = "run"
  /\ UNCHANGED <<queue, owner, condition, work, toBeContinued, cur>>
  /\ UNCHANGED callerVars

\* The work sends a message to the main thread and waits for it to be done.
SyncBegin ==
  /\ wpc = "run"
  /\ tpc[Worker] = "idle"
  /\ cur # Dummy
  /\ wpc' = "sync"
  /\ UNCHANGED <<queue, owner, condition, work, working, toBeContinued, cur>>
  /\ UNCHANGED callerVars

\* The main thread's run loop serves it when the thread is in no other call.
SyncServe ==
  /\ wpc = "sync"
  /\ tpc[Main] = "idle"
  /\ wpc' = "run"
  /\ UNCHANGED <<queue, owner, condition, work, working, toBeContinued, cur>>
  /\ UNCHANGED callerVars

\* -run of the work returns, or raises, and -start: catches.
EndRun ==
  /\ wpc = "run"
  /\ tpc[Worker] = "idle"
  /\ working' = NoThread
  /\ wpc' = "clear"
  /\ UNCHANGED <<queue, owner, condition, work, toBeContinued, cur>>
  /\ UNCHANGED callerVars

\* [self setWork : nil]
ClearWork ==
  /\ wpc = "clear"
  /\ work' = WorkAfterRun
  /\ cur' = NoWork
  /\ wpc' = "loop"
  /\ UNCHANGED <<queue, owner, condition, working, toBeContinued>>
  /\ UNCHANGED callerVars

-----------------------------------------------------------------------------
CallBegin(t) ==
  \/ \E w \in Works : PushBegin(t, w)
  \/ RemoveBegin(t)
  \/ ShutdownBegin(t)
  \/ ShutdownReturn(t)
  \/ AskQueue(t)

CallStep(t) ==
  \/ PushLock(t)
  \/ PushPut(t)
  \/ RemoveLock(t)
  \/ RemoveDrain(t)
  \/ RemoveCancel(t)
  \/ AskLock(t)
  \/ AskUnlockWorking(t)
  \/ AskReturn(t)

WorkerStep ==
  \/ Start
  \/ LoopTest
  \/ NextWorkLock
  \/ NextWork
  \/ BeginRun
  \/ SyncServe
  \/ EndRun
  \/ ClearWork

Next ==
  \/ \E t \in Threads : CallBegin(t) \/ CallStep(t)
  \/ Run
  \/ SyncBegin
  \/ WorkerStep

Spec == Init /\ [][Next]_vars

\* A thread inside a method goes on, the worker thread is scheduled and a work
\* ends.  Nobody has to call anything, and a work need not call the main thread.
Fairness ==
  /\ \A t \in Threads : WF_vars(CallStep(t))
  /\ WF_vars(Start \/ LoopTest \/ NextWorkLock \/ NextWork \/ BeginRun
               \/ ClearWork)
  /\ WF_vars(SyncServe)
  /\ SF_vars(EndRun)

FairSpec == Spec /\ Fairness

-----------------------------------------------------------------------------
(* Properties *)

\* Nobody sleeps through a push: whenever _queueLock is free its condition
\* says whether the queue has a work, so a worker thread that waits for
\* kWorkQueueHasWork is woken exactly when there is one.
ConditionMatchesQueue ==
  owner = NoThread => (condition = "HasWork" <=> queue # <<>>)

\* nextWork never has to go back to sleep: a thread that got the lock with
\* kWorkQueueHasWork finds a work (the loop at line 324 guards against the
\* opposite, which no sequence of push:, removeAll: and isInProgress causes).
WokenWithWork ==
  wpc = "owning" => queue # <<>>

\* The assertion of -start: after nextWork, kept until the work is finished:
\* the work other threads see as current is the one the worker thread has.
CurrentWorkIsPublished ==
  /\ wpc \in {"taken", "run", "sync", "clear"} => work # NoWork /\ work = cur
  /\ wpc \in {"loop", "waiting", "owning", "exited"} => work = NoWork

\* removeAll: leaves nothing behind: when it is about to give the lock back,
\* the queue is empty and a work the worker thread already has in hand is the
\* one it sends cancel: to, even if the thread took it a step ago and has not
\* begun to run it.
RemoveAllReachesCurrent ==
  \A t \in Callers :
    tpc[t] = "cancel" /\ t \notin stopping /\ toBeContinued
      => /\ queue = <<>>
         /\ wpc \in {"taken", "run", "sync"} => snap[t] = cur

\* isInProgress answers NO only when the queue is empty and no work is inside
\* its -run (a work taken and not yet running is missed, see the README).
NoAnswerWhileRunning ==
  \A t \in Callers :
    tpc[t] = "askWorking" => queue = <<>> /\ wpc \notin {"run", "sync"}

\* WorkerContext is a serial executor: works are begun in order, one at a
\* time, and a work that removeAll: took off is never begun.
Executor == INSTANCE SerialExecutor WITH
  Item    <- Items,
  None    <- NoWork,
  pending <- queue,
  current <- cur

ExecutorSpec == Executor!Spec

\* No call blocks for good, whatever the current work does: a thread that is
\* inside push:, removeAll:, shutdown: or isInProgress returns.  The comment in
\* cancel: explains the deadlock this rules out: the work waits for the main
\* thread, so the main thread must not wait for the work.
CallsReturn ==
  \A t \in Callers : tpc[t] # "idle" ~> tpc[t] = "idle"

\* A pushed work is begun, or taken off by removeAll:, unless the thread has
\* not been started or has been shut down.
PushedWorkIsServed ==
  \A w \in Works :
    (\E i \in DOMAIN queue : queue[i] = w)
      ~> \/ \A i \in DOMAIN queue : queue[i] # w
         \/ wpc \in {"new", "exited"}

\* A shutdown: that finds the context running ends the worker thread, also when
\* the thread sleeps in nextWork, unless another thread is inside removeAll:
\* until then: that call may take off the dummy task that wakes the worker.
ShutdownOfRunningEnds ==
  /\ stopping # {}
  /\ \A t \in Callers : tpc[t] \in {"remove", "drain", "cancel"} => t \in stopping
  ~> wpc = "exited"

\* What the comment "termination of the worker thread" above the call of
\* shutdown: in CMRThreadLayout's dealloc says: after shutdown: the thread ends.
ShutdownEndsThread ==
  asked ~> wpc = "exited"
=============================================================================
