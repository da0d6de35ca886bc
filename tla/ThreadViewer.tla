----------------------------- MODULE ThreadViewer -----------------------------
(***************************************************************************)
(* CMRThreadViewer with what it shares with others: the message buffer of  *)
(* its layout, filled by tasks on the worker thread; the downloaders;      *)
(* CMRNetGrobalLock; and the log file of each thread, which a downloader   *)
(* extends, a loading task reads and the viewer writes back when it leaves *)
(* a thread with edited messages.                                          *)
(*                                                                         *)
(* What a task does to text and ranges is the subject of ThreadLayout.     *)
(* Here a message is its thread, its number on the server and a flag the   *)
(* user may set.  A definition without a comment is a faulty variant of    *)
(* the next commented one.                                                 *)
(***************************************************************************)
EXTENDS Naturals, Sequences, FiniteSets

CONSTANTS
  Threads,      \* the threads the user reads
  MaxServer,    \* bound: messages of a thread on the server
  MaxSwitches,  \* bound: times the user opens a thread
  MaxReloads,   \* bound: times the user reloads the open thread
  MaxMarks,     \* bound: times the user flags a message
  MaxCancels,   \* bound: times the user cancels the worker's task
  Impatient     \* what the user does also while a task or download is pending

NoThread == "none"
NoFile   == [length |-> 0, messages |-> <<>>]

ASSUME ViewerAssumption ==
  /\ NoThread \notin Threads
  /\ {MaxServer, MaxSwitches, MaxReloads, MaxMarks, MaxCancels} \subseteq Nat
  /\ Impatient \subseteq {"open", "reload", "mark"}

VARIABLES
  server,      \* messages of each thread on the server
  log,         \* the log file of each thread: bytes fetched, as a number of
               \* messages ("length"), and messages
  download,    \* the running download of each thread
  netLock,     \* CMRNetGrobalLock: threads that a viewer works on
  current,     \* the viewer's threadIdentifier
  buffer,      \* the layout's message buffer
  start,       \* index of its first message, counted from 0
  edited,      \* isMessagesEdited
  invalidate,  \* isInvalidate
  works,       \* the worker's queue
  task,        \* the task the worker runs
  wpc,         \* where the worker is in it
  interrupted, \* that task's isInterrupted
  runLoop,     \* threadComposingDidFinish: messages to the main thread
  left,        \* what the user may still do, and (history) whether a thread was
               \* opened or reloaded while something was pending
  unexpected   \* history: willCompleteMessages: met another thread

vars == <<server, log, download, netLock, current, buffer, start, edited,
          invalidate, works, task, wpc, interrupted, runLoop, left, unexpected>>
workerVars == <<works, task, wpc, interrupted>>
netVars    == <<server, download, netLock>>
content    == <<buffer, start, edited>>

Message == [thread : Threads, no : 1..MaxServer, mark : BOOLEAN]
File    == [length : 0..MaxServer, messages : Seq(Message)]
Task    == [kind : {"none", "clear", "load", "dat", "download"},
            thread : Threads \cup {NoThread},
            first : Nat \ {0}, messages : Seq(Message)]
Download == [running : BOOLEAN, behind : BOOLEAN, nextIndex : Nat,
             local : File]

Idle == [running |-> FALSE, behind |-> FALSE, nextIndex |-> 0,
         local |-> NoFile]
Simple(kind, t) == [kind |-> kind, thread |-> t, first |-> 1,
                    messages |-> <<>>]
NoTask == Simple("none", NoThread)

TypeOK ==
  /\ server \in [Threads -> 0..MaxServer]
  /\ log \in [Threads -> File]
  /\ download \in [Threads -> Download]
  /\ netLock \subseteq Threads
  /\ current \in Threads \cup {NoThread}
  /\ buffer \in Seq(Message)
  /\ start \in Nat
  /\ {edited, invalidate, interrupted, unexpected} \subseteq BOOLEAN
  /\ works \in Seq(Task)
  /\ task \in Task
  /\ wpc \in {"idle", "begin", "loaded", "complete", "added"}
  /\ runLoop \in Seq(Task)
  /\ left \in [switches : 0..MaxSwitches, reloads : 0..MaxReloads,
               marks : 0..MaxMarks, cancels : 0..MaxCancels,
               hurried : BOOLEAN]

Init ==
  /\ server \in [Threads -> 1..MaxServer]
  /\ log = [t \in Threads |-> NoFile]
  /\ download = [t \in Threads |-> Idle]
  /\ netLock = {}
  /\ current = NoThread
  /\ buffer = <<>> /\ start = 0
  /\ edited = FALSE /\ invalidate = FALSE
  /\ works = <<>> /\ task = NoTask /\ wpc = "idle" /\ interrupted = FALSE
  /\ runLoop = <<>>
  /\ left = [switches |-> MaxSwitches, reloads |-> MaxReloads,
             marks |-> MaxMarks, cancels |-> MaxCancels,
             hurried |-> FALSE]
  /\ unexpected = FALSE

Quiet == /\ works = <<>> /\ wpc = "idle" /\ runLoop = <<>>
         /\ \A t \in Threads : ~download[t].running

May(op) == op \in Impatient \/ Quiet

-----------------------------------------------------------------------------
(* The viewer, on the main thread *)

\* synchronize, before the viewer leaves its thread: edited messages replace
\* those of the log file, whose other entries, the length among them, stay.
Synchronized ==
  IF current # NoThread /\ ~invalidate /\ edited /\ log[current] # NoFile
  THEN [log EXCEPT ![current].messages = buffer]
  ELSE log

\* The flag after synchronize: it survives if the file could not be read.
EditedAfterSync ==
  edited /\ (current = NoThread \/ invalidate \/ log[current] = NoFile)

\* loadFromContentsOfFile: on the worker's queue.  clear cancels what runs and
\* drains the queue; a thread without a log is downloaded by a task.
LoadFromContents(t) ==
  /\ works' = <<Simple("clear", t),
                Simple(IF log[t] = NoFile THEN "download" ELSE "load", t)>>
  /\ interrupted' = (wpc # "idle")

\* setThreadContentWithThreadIdentifier:noteHistoryList: to another thread:
\* the old one is synchronized, the new one loaded.
OpenThread(t) ==
  /\ May("open")
  /\ left.switches > 0
  /\ left' = [left EXCEPT !.switches = @ - 1, !.hurried = @ \/ ~Quiet]
  /\ t # current
  /\ log' = Synchronized
  /\ edited' = EditedAfterSync
  /\ current' = t
  /\ LoadFromContents(t)
  /\ UNCHANGED <<netVars, buffer, start, invalidate, task, wpc, runLoop,
                 unexpected>>

EditUnnoted == edited

\* updateMessageAtIndex: notes the edit for synchronize.
EditNoted == TRUE

\* The user flags a message.
Mark(i) ==
  /\ May("mark")
  /\ left.marks > 0 /\ left' = [left EXCEPT !.marks = @ - 1]
  /\ i \in DOMAIN buffer /\ ~buffer[i].mark
  /\ buffer' = [buffer EXCEPT ![i].mark = TRUE]
  /\ edited' = EditNoted
  /\ UNCHANGED <<netVars, log, current, start, invalidate, workerVars, runLoop,
                 unexpected>>

\* reloadThread, loadInBackground: nothing if the URL is being loaded.  The
\* request's headers read the log, which the downloader then keeps.  A request
\* made behind a message in the run loop is answered after that message.
StartDownload ==
  download' = IF current = NoThread \/ download[current].running THEN download
              ELSE [download EXCEPT ![current] =
                      [running |-> TRUE, behind |-> runLoop # <<>>,
                       nextIndex |-> Len(buffer), local |-> log[current]]]

\* reloadThread:, by the user.  An invalid thread is loaded again instead, as
\* the alert proposes.
Reload ==
  /\ May("reload")
  /\ left.reloads > 0
  /\ left' = [left EXCEPT !.reloads = @ - 1, !.hurried = @ \/ ~Quiet]
  /\ current # NoThread
  /\ \/ /\ ~invalidate /\ StartDownload
        /\ UNCHANGED <<works, interrupted>>
     \/ /\ invalidate /\ LoadFromContents(current)
        /\ UNCHANGED download
  /\ UNCHANGED <<server, netLock, log, current, content, invalidate, task, wpc,
                 runLoop, unexpected>>

\* cancel: of the task manager, on the worker's composing task.
Cancel ==
  /\ left.cancels > 0 /\ left' = [left EXCEPT !.cancels = @ - 1]
  /\ task.kind \in {"load", "dat"}
  /\ interrupted' = TRUE
  /\ UNCHANGED <<netVars, log, current, content, invalidate, works, task, wpc,
                 runLoop, unexpected>>

LockKept == netLock

\* threadComposingDidFinish: unlocks the thread shown now.
LockReleased == netLock \ {current}

\* threadComposingDidFinish:.  A file loading task is followed by a download.
DidFinish ==
  /\ runLoop # <<>>
  /\ runLoop' = Tail(runLoop)
  /\ invalidate' = FALSE
  /\ works' = IF Head(runLoop).kind = "load"
              THEN Append(works, Simple("download", current)) ELSE works
  /\ netLock' = LockReleased
  /\ download' = [t \in Threads |-> [download[t] EXCEPT !.behind = FALSE]]
  /\ UNCHANGED <<server, log, current, content, task, wpc,
                 interrupted, left, unexpected>>

-----------------------------------------------------------------------------
(* The downloader, on the main thread *)

\* Somebody posts to a thread.
Post(t) ==
  /\ server[t] < MaxServer
  /\ server' = [server EXCEPT ![t] = @ + 1]
  /\ UNCHANGED <<download, netLock, log, current, content, invalidate,
                 workerVars, runLoop, left, unexpected>>

\* The answer to a request cannot overtake a message queued before it.
Answerable(t) == download[t].running /\ ~download[t].behind

FetchedAgain(t) ==
  [k \in 1..server[t] |-> [thread |-> t, no |-> k, mark |-> FALSE]]

\* The messages a download brings: those behind the length it asked from.
Fetched(t) ==
  LET from == download[t].local.length
  IN  [k \in 1..(server[t] - from) |->
         [thread |-> t, no |-> from + k, mark |-> FALSE]]

\* composeDATContents:threadSignature:nextIndex:
Compose(t) ==
  IF current # t THEN UNCHANGED <<netLock, works, edited>>
  ELSE /\ netLock' = netLock \cup {t}
       /\ IF download[t].nextIndex # Len(buffer)
          THEN UNCHANGED <<works, edited>>
          ELSE /\ works' = Append(works,
                    [kind |-> "dat", thread |-> t, first |-> Len(buffer) + 1,
                     messages |-> Fetched(t)])
               /\ edited' = TRUE

OnlyNew(t) == [length |-> server[t], messages |-> Fetched(t)]

Unmarked(t) ==
  LET old == download[t].local.messages
  IN  [length |-> server[t],
       messages |-> [i \in DOMAIN old |-> [old[i] EXCEPT !.mark = FALSE]]
                    \o Fetched(t)]

\* dictionaryByAppendingContents:dataLength:
Extended(t) == [length |-> server[t],
                messages |-> download[t].local.messages \o Fetched(t)]

\* synchronizeLocalDataWithContents:dataLength: does nothing then.
Held(t) == t \in netLock

\* connectionDidFinishLoading: with new messages.  While the viewer works on
\* the thread they are dropped; else they extend the log as the request saw
\* it, and the viewer is told.
Receive(t) ==
  /\ Answerable(t) /\ Fetched(t) # <<>>
  /\ download' = [download EXCEPT ![t] = Idle]
  /\ IF Held(t)
     THEN UNCHANGED <<log, netLock, works, edited>>
     ELSE /\ log' = [log EXCEPT ![t] = Extended(t)]
          /\ Compose(t)
  /\ UNCHANGED <<server, current, buffer, start, invalidate, task, wpc,
                 interrupted, runLoop, left, unexpected>>

\* Not modified, an error, or a response that is not usable.
Fail(t) ==
  /\ Answerable(t)
  /\ download' = [download EXCEPT ![t] = Idle]
  /\ UNCHANGED <<server, netLock, log, current, content, invalidate,
                 workerVars, runLoop, left, unexpected>>

-----------------------------------------------------------------------------
(* The worker thread *)

\* executeWithLayout:
StartTask ==
  /\ wpc = "idle" /\ works # <<>>
  /\ task' = Head(works) /\ works' = Tail(works)
  /\ wpc' = "begin"
  /\ interrupted' = FALSE
  /\ UNCHANGED <<netVars, log, current, content, invalidate, runLoop,
                 left, unexpected>>

EndTask == wpc' = "idle" /\ task' = NoTask

\* executeWithLayout: first waits until the main thread has run addTask:.  The
\* main thread serves messages in the order they were sent, so what a task does
\* comes after the finish that the task before it has sent.
MainServes == runLoop = <<>>

NotCleared == buffer

\* doDeleteAllMessages empties the buffer.
Cleared == <<>>

\* The clear task: doDeleteAllMessages.
RunClear ==
  /\ wpc = "begin" /\ task.kind = "clear" /\ MainServes
  /\ buffer' = Cleared /\ start' = 0 /\ edited' = FALSE
  /\ EndTask
  /\ UNCHANGED <<netVars, log, current, invalidate, works, interrupted,
                 runLoop, left, unexpected>>

\* The download task: reloadThread on the main thread.
RunDownload ==
  /\ wpc = "begin" /\ task.kind = "download" /\ MainServes
  /\ StartDownload
  /\ EndTask
  /\ UNCHANGED <<server, netLock, log, current, content, invalidate,
                 works, interrupted, runLoop, left, unexpected>>

\* threadTaskDidInterrupt:
Interrupted ==
  /\ invalidate' = (invalidate \/ (task.kind = "load" /\ task.thread = current))
  /\ EndTask

\* A loading task reads the log file and sends its attributes to the main
\* thread, for which it waits.
ReadFile ==
  /\ wpc = "begin" /\ task.kind = "load" /\ MainServes
  /\ IF interrupted THEN Interrupted
     ELSE /\ wpc' = "loaded"
          /\ task' = [task EXCEPT !.messages = log[task.thread].messages]
          /\ UNCHANGED invalidate
  /\ UNCHANGED <<netVars, log, current, content, works, interrupted,
                 runLoop, left, unexpected>>

\* threadFileLoadingTaskDidLoadFile:, on the main thread: the attributes of the
\* file, board and identifier among them, go into those of the viewer, whatever
\* thread it shows by now.
DidLoadFile ==
  /\ wpc = "loaded"
  /\ current' = task.thread
  /\ wpc' = "complete"
  /\ UNCHANGED <<netVars, log, content, invalidate, works, task, interrupted,
                 runLoop, left, unexpected>>

\* A task of arrived messages has them, and composes.
BeginDat ==
  /\ wpc = "begin" /\ task.kind = "dat" /\ MainServes
  /\ wpc' = "complete"
  /\ UNCHANGED <<netVars, log, current, content, invalidate, works, task,
                 interrupted, runLoop, left, unexpected>>

AppendOffByOne == \/ buffer = <<>> \/ task.messages = <<>>
                  \/ start + Len(buffer) = task.first

\* canAppend:
CanAppend == \/ buffer = <<>> \/ task.messages = <<>>
             \/ start + Len(buffer) + 1 = task.first

ThreadDies == UNCHANGED <<wpc, task>>

\* The assertion's exception ends the task; -start: catches and logs it.
Caught == EndTask

\* willCompleteMessages: asserts that the task is for the thread shown.
\* Then addMessagesFromBuffer:
AddMessages ==
  /\ wpc = "complete"
  /\ IF task.kind = "dat" /\ task.thread # current
     THEN unexpected' = TRUE /\ Caught /\ UNCHANGED <<buffer, start>>
     ELSE /\ buffer' = IF CanAppend THEN buffer \o task.messages ELSE buffer
          /\ start' = IF buffer = <<>> THEN task.first - 1 ELSE start
          /\ wpc' = "added" /\ UNCHANGED <<task, unexpected>>
  /\ UNCHANGED <<netVars, log, current, edited, invalidate, works, interrupted,
                 runLoop, left>>

\* The text is laid out; the task finishes unless it was interrupted.
FinishTask ==
  /\ wpc = "added"
  /\ IF interrupted THEN Interrupted /\ UNCHANGED runLoop
     ELSE /\ runLoop' = Append(runLoop, task)
          /\ EndTask /\ UNCHANGED invalidate
  /\ UNCHANGED <<netVars, log, current, content, works, interrupted,
                 left, unexpected>>

-----------------------------------------------------------------------------
WorkerStep == StartTask \/ RunClear \/ RunDownload \/ ReadFile \/ BeginDat
              \/ AddMessages \/ FinishTask

Next == \/ WorkerStep \/ DidLoadFile \/ DidFinish \/ Reload \/ Cancel
        \/ \E t \in Threads : \/ OpenThread(t) \/ Post(t)
                              \/ Receive(t) \/ Fail(t)
        \/ \E i \in 1..MaxServer : Mark(i)
        \/ Quiet /\ UNCHANGED vars

Spec == Init /\ [][Next]_vars

\* The worker thread runs, the run loop serves its messages, and a request
\* ends (its timeout interval is 30 s).  The user need not do anything.
FairSpec ==
  /\ Spec
  /\ WF_vars(WorkerStep) /\ WF_vars(DidLoadFile) /\ WF_vars(DidFinish)
  /\ \A t \in Threads : WF_vars(Receive(t) \/ Fail(t))

-----------------------------------------------------------------------------
(* Properties *)

\* A log file holds messages of its own thread only, although one buffer serves
\* all threads and synchronize writes it to the path of the thread shown.
LogKeepsThread ==
  \A t \in Threads : \A i \in DOMAIN log[t].messages :
    log[t].messages[i].thread = t

\* The user has waited before opening and reloading threads.
Calm == ~left.hurried

\* The user has cancelled no task.
NoCancel == left.cancels = MaxCancels

\* For a user who waits, a log holds every message up to the length from which
\* the next download is requested, in order: what synchronize leaves out would
\* never be fetched again.
LogComplete ==
  Calm =>
    \A t \in Threads :
      /\ Len(log[t].messages) = log[t].length
      /\ \A i \in DOMAIN log[t].messages : log[t].messages[i].no = i

\* For a user who waits, what the viewer shows as message i is the server's
\* message i: the DAT reader numbers an arrival by the buffer, the request asked
\* for it by the log.
BufferNumbered ==
  Calm => \A i \in DOMAIN buffer : buffer[i].no = start + i

ShownIsCurrent ==
  Quiet => \A i \in DOMAIN buffer : buffer[i].thread = current

\* When everything has come to rest, the messages shown are of the thread that
\* the window names, however fast the user changed threads, as long as no log
\* got messages of another thread, which a load would show.
ShowsCurrentThread == []LogKeepsThread => []ShownIsCurrent

\* For a user who waits: when, at rest, a message is in the log but not in the
\* viewer, or flagged in only one of them, isMessagesEdited says that the log is
\* out of date.
EditsNoted ==
  Calm /\ Quiet /\ current # NoThread /\ ~invalidate /\ ~edited
    => buffer = log[current].messages

\* For a user who waits the viewer shows, at rest, as many messages as the log
\* has.
ShowsWholeLog ==
  Calm /\ Quiet /\ current # NoThread /\ ~invalidate
    => Len(buffer) = Len(log[current].messages)

\* For a user who waits no thread is locked at rest, unless a task was cancelled:
\* a lock that composeDATContents: leaves behind makes every later download of
\* that thread come to nothing.
LocksReleased ==
  Calm /\ Quiet /\ NoCancel => netLock = {}

\* A flag that was saved stays saved, for a user who waits or who has cancelled
\* nothing: neither a download, which extends the log as it was when requested,
\* nor synchronize drops it.
MarkKept ==
  [][Calm \/ NoCancel =>
       \A t \in Threads : \A i \in DOMAIN log[t].messages :
         log[t].messages[i].mark =>
           i \in DOMAIN log'[t].messages /\ log'[t].messages[i].mark]_vars

\* willCompleteMessages: asserts that the composing task belongs to the thread
\* shown: "implementation error. unexpected delegation."
ExpectedDelegation == ~unexpected

\* "can't process by downloader while viewer execute.": a download that ends
\* while arrived messages of its thread are being composed leaves the log alone.
DownloaderWaits ==
  [][\A t \in Threads :
       /\ download[t].running /\ ~download'[t].running
       /\ \/ task.kind = "dat" /\ task.thread = t
          \/ \E i \in DOMAIN works : works[i].kind = "dat" /\ works[i].thread = t
       => log'[t] = log[t]]_vars

\* Downloads, tasks and their messages lead to one another, and an assertion
\* may fail on the way, but the viewer always comes to rest again.
RestsAgain == []<>Quiet
=============================================================================
