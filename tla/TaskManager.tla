------------------------------ MODULE TaskManager ------------------------------
(***************************************************************************)
(* CMRTaskManager, which lists the tasks in progress, and the tasks that   *)
(* register with it: downloaders (CMRDownloader), which live on the main   *)
(* thread and are guarded by CMRNetGrobalLock, and composing tasks, which  *)
(* the worker thread runs one at a time.  Both kinds carry the identifier  *)
(* of a thread, and the manager finds the row of a task by its identifier. *)
(*                                                                         *)
(* A definition without a comment is a faulty variant of the next          *)
(* commented one.                                                          *)
(***************************************************************************)
EXTENDS Naturals, Sequences

CONSTANTS
  Downloads,   \* the downloaders the program creates; each loads once
  Composings,  \* the composing tasks; each runs once
  Identifiers, \* -identifier of a task; also stands for its URL
  NoTask       \* nil

Tasks == Downloads \cup Composings

ASSUME TasksAssumption ==
  /\ Downloads \cap Composings = {}
  /\ NoTask \notin Tasks

VARIABLES
  ident,       \* the identifier of each task
  phase,       \* what has become of each task
  rows,        \* taskItemControllers, as the tasks they stand for
  mapping,     \* controllerMapping
  inProgress,  \* tasksInProgress
  observed,    \* tasks whose notifications the manager gets
  currentTask, \* m_currentTask, not retained
  urls,        \* CMRNetGrobalLock: URLs being loaded
  runLoop      \* notifications on their way to the main thread

vars == <<ident, phase, rows, mapping, inProgress, observed, currentTask, urls,
          runLoop>>

TypeOK ==
  /\ ident \in [Tasks -> Identifiers]
  /\ phase \in [Tasks -> {"new", "refused", "running", "done"}]
  /\ rows \subseteq Tasks
  /\ mapping \in [Identifiers -> Tasks \cup {NoTask}]
  /\ inProgress \subseteq Tasks
  /\ observed \subseteq Tasks
  /\ currentTask \in Tasks \cup {NoTask}
  /\ urls \subseteq Identifiers
  /\ runLoop \in Seq({"start", "finish"} \X Composings)

Init ==
  /\ ident \in [Tasks -> Identifiers]
  /\ phase = [t \in Tasks |-> "new"]
  /\ rows = {} /\ inProgress = {} /\ observed = {}
  /\ mapping = [i \in Identifiers |-> NoTask]
  /\ currentTask = NoTask
  /\ urls = {} /\ runLoop = <<>>

-----------------------------------------------------------------------------
\* addTask:, addTaskItemController: and registerNotificationWithTask:
AddTask(t) ==
  /\ rows' = rows \cup {t}
  /\ mapping' = [mapping EXCEPT ![ident[t]] = t]

\* addTaskInProgress: needs the row of the task's identifier.
InProgressWith(t, map) ==
  IF map[ident[t]] = NoTask THEN inProgress ELSE inProgress \cup {t}

CurrentIfListed(t) ==
  IF mapping[ident[t]] = NoTask THEN currentTask ELSE NoTask

\* taskDidFinishProcessing: forgets the current task, listed or not.
CurrentAfterFinish(t) == NoTask

\* removeTask: removes the row found by the task's identifier.
RowsAfterFinish(t) == rows \ {mapping[ident[t]]}

\* taskDidFinishProcessing: and removeTask:
Finish(t) ==
  /\ observed' = observed \ {t}
  /\ currentTask' = CurrentAfterFinish(t)
  /\ IF mapping[ident[t]] = NoTask THEN UNCHANGED <<inProgress, mapping, rows>>
     ELSE /\ inProgress' = inProgress \ {t}
          /\ rows' = RowsAfterFinish(t)
          /\ mapping' = [mapping EXCEPT ![ident[t]] = NoTask]

-----------------------------------------------------------------------------
NeverBusy(d) == FALSE

\* loadInBackground looks its URL up in CMRNetGrobalLock.
Busy(d) == ident[d] \in urls

\* downloadThread:title:nextIndex: registers the downloader; loadInBackground
\* gives up if the URL is being loaded, else posts its start at once.
StartDownload(d) ==
  /\ phase[d] = "new"
  /\ AddTask(d)
  /\ observed' = observed \cup {d}
  /\ IF Busy(d)
     THEN /\ phase' = [phase EXCEPT ![d] = "refused"]
          /\ UNCHANGED <<urls, inProgress, currentTask>>
     ELSE /\ phase' = [phase EXCEPT ![d] = "running"]
          /\ urls' = urls \cup {ident[d]}
          /\ inProgress' = InProgressWith(d, mapping')
          /\ currentTask' = d
  /\ UNCHANGED <<ident, runLoop>>

\* didFinishLoading: after the data, an error, or cancelDownload.
EndDownload(d) ==
  /\ d \in Downloads /\ phase[d] = "running"
  /\ phase' = [phase EXCEPT ![d] = "done"]
  /\ urls' = urls \ {ident[d]}
  /\ Finish(d)
  /\ UNCHANGED <<ident, runLoop>>

\* executeWithLayout: on the worker thread: addTask: is waited for, the start
\* is only posted.
StartComposing(c) ==
  /\ phase[c] = "new"
  /\ \A o \in Composings : phase[o] # "running"
  /\ AddTask(c)
  /\ observed' = observed \cup {c}
  /\ phase' = [phase EXCEPT ![c] = "running"]
  /\ runLoop' = Append(runLoop, <<"start", c>>)
  /\ UNCHANGED <<ident, inProgress, currentTask, urls>>

FinishFirst(c) == <<<<"finish", c>>>> \o runLoop

\* The finish is posted behind the start.
WithFinish(c) == Append(runLoop, <<"finish", c>>)

\* The @finally block of executeWithLayout:.
EndComposing(c) ==
  /\ c \in Composings /\ phase[c] = "running"
  /\ phase' = [phase EXCEPT ![c] = "done"]
  /\ runLoop' = WithFinish(c)
  /\ UNCHANGED <<ident, rows, mapping, inProgress, observed, currentTask, urls>>

\* taskWillStartProcessing:
Started(t) ==
  /\ inProgress' = InProgressWith(t, mapping)
  /\ currentTask' = t
  /\ UNCHANGED <<rows, mapping, observed>>

\* The main run loop serves a notification of a composing task, which the
\* manager observes from addTask: to the finish.
Serve ==
  /\ runLoop # <<>> /\ runLoop' = Tail(runLoop)
  /\ LET kind == Head(runLoop)[1]
         t    == Head(runLoop)[2]
     IN  \/ kind = "start" /\ Started(t)
         \/ kind = "finish" /\ Finish(t)
  /\ UNCHANGED <<ident, phase, urls>>

Ended == /\ runLoop = <<>>
         /\ \A t \in Tasks : phase[t] # "running"

Next == \/ \E d \in Downloads : StartDownload(d) \/ EndDownload(d)
        \/ \E c \in Composings : StartComposing(c) \/ EndComposing(c)
        \/ Serve
        \/ Ended /\ UNCHANGED vars

Spec == Init /\ [][Next]_vars

-----------------------------------------------------------------------------
(* Properties *)

\* While a task is observed its notifications reach the manager: every task
\* with a notification on its way is.
ServedIsObserved ==
  \A i \in DOMAIN runLoop : runLoop[i][2] \in observed

\* A URL is loaded by one downloader at a time: the check and the entry into
\* CMRNetGrobalLock are on the main thread, and didFinishLoading removes it.
OneLoadPerURL ==
  \A d, e \in Downloads :
    phase[d] = "running" /\ phase[e] = "running" /\ ident[d] = ident[e] => d = e

\* m_currentTask is not retained, so it must never outlive its task's finish,
\* although the start of a composing task is only posted.
CurrentIsLive ==
  currentTask # NoTask =>
    \/ phase[currentTask] = "running"
    \/ \E i \in DOMAIN runLoop : runLoop[i] = <<"finish", currentTask>>

\* "Recorded here and removed as soon as the task ends" (the comment in
\* addTaskItemController:): no row is left and no task is listed as in progress
\* when all tasks have ended.
RowsAreRemoved == Ended => rows = {} /\ inProgress = {}
=============================================================================
