------------------------- MODULE ThreadViewerProofs -------------------------
(***************************************************************************)
(* What the viewer guarantees to every user, for any threads and bounds.   *)
(***************************************************************************)
EXTENDS ThreadViewer, TLAPS

USE DEF NoThread, NoFile

\* The records that are tasks and downloads.
LEMMA TaskTypes ==
  /\ \A kind \in {"none", "clear", "load", "download"}, t \in Threads \cup {NoThread} :
       Simple(kind, t) \in Task
  /\ NoTask \in Task /\ Idle \in Download /\ NoFile \in File
BY ViewerAssumption DEF Simple, NoTask, Task, Idle, Download, File

\* The numbers above `from' up to `s'.
LEMMA Above ==
  ASSUME NEW s \in Nat, NEW from \in Nat
  PROVE  LET n == IF from <= s THEN s - from ELSE 0
         IN  n \in Nat /\ 1..(s - from) = 1..n /\ \A k \in 1..n : from + k \in 1..s
<1>1. CASE from <= s
  BY <1>1
<1>2. CASE ~(from <= s)
  <2>1. \A k : k \notin 1..(s - from)
    BY <1>2
  <2>2. 1..(s - from) = {} /\ 1..0 = {}
    BY <2>1
  <2> QED BY <1>2, <2>2
<1> QED BY <1>1, <1>2

\* A download brings messages of its thread, in the order of the server.
LEMMA FetchedFacts ==
  ASSUME TypeOK, NEW t \in Threads
  PROVE  LET from == download[t].local.length
             n    == IF from <= server[t] THEN server[t] - from ELSE 0
         IN  /\ Fetched(t) \in Seq(Message)
             /\ n \in Nat /\ Len(Fetched(t)) = n
             /\ \A k \in 1..n : Fetched(t)[k] = [thread |-> t, no |-> from + k, mark |-> FALSE]
<1> DEFINE from == download[t].local.length
           n == IF from <= server[t] THEN server[t] - from ELSE 0
<1>1. from \in Nat /\ server[t] \in 0..MaxServer /\ MaxServer \in Nat
  BY ViewerAssumption, SMTT(30) DEF TypeOK, Download, File
<1>2. n \in Nat /\ 1..(server[t] - from) = 1..n /\ \A k \in 1..n : from + k \in 1..MaxServer
  <2>1. server[t] \in Nat /\ \A k \in 1..server[t] : k \in 1..MaxServer
    BY <1>1
  <2> QED BY <1>1, <2>1, Above
<1>3. Fetched(t) = [k \in 1..n |-> [thread |-> t, no |-> from + k, mark |-> FALSE]]
  BY <1>2 DEF Fetched
<1> HIDE DEF n, from
<1>4. \A k \in 1..n : [thread |-> t, no |-> from + k, mark |-> FALSE] \in Message
  BY <1>2 DEF Message
<1>5. Fetched(t) \in [1..n -> Message]
  BY <1>3, <1>4
<1>6. Fetched(t) \in Seq(Message) /\ Len(Fetched(t)) = n
  BY <1>2, <1>5
<1> QED BY <1>2, <1>3, <1>6 DEF n, from

-----------------------------------------------------------------------------
(* Types *)

\* A loading task knows its thread.
LoadsNamed ==
  /\ task.kind = "load" => task.thread \in Threads
  /\ \A i \in DOMAIN works : works[i].kind = "load" => works[i].thread \in Threads

Typed == TypeOK /\ LoadsNamed

Allowance == [switches : 0..MaxSwitches, reloads : 0..MaxReloads,
              marks : 0..MaxMarks, cancels : 0..MaxCancels, hurried : BOOLEAN]

\* A bounded counter that is not zero may be decreased.
LEMMA LeftTypes ==
  ASSUME NEW l \in Allowance
  PROVE  /\ \A h \in BOOLEAN : l.switches > 0 =>
              [l EXCEPT !.switches = @ - 1, !.hurried = h] \in Allowance
         /\ \A h \in BOOLEAN : l.reloads > 0 =>
              [l EXCEPT !.reloads = @ - 1, !.hurried = h] \in Allowance
         /\ l.marks > 0 => [l EXCEPT !.marks = @ - 1] \in Allowance
         /\ l.cancels > 0 => [l EXCEPT !.cancels = @ - 1] \in Allowance
<1>1. \A n \in Nat : \A k \in 0..n : k > 0 => k - 1 \in 0..n
  OBVIOUS
<1>2. {MaxSwitches, MaxReloads, MaxMarks, MaxCancels} \subseteq Nat
  BY ViewerAssumption
<1>3. /\ l.switches > 0 => l.switches - 1 \in 0..MaxSwitches
      /\ l.reloads > 0 => l.reloads - 1 \in 0..MaxReloads
      /\ l.marks > 0 => l.marks - 1 \in 0..MaxMarks
      /\ l.cancels > 0 => l.cancels - 1 \in 0..MaxCancels
  BY <1>1, <1>2 DEF Allowance
<1> QED BY <1>3, ZenonT(30) DEF Allowance

\* What synchronize leaves in the log.
LEMMA SynchronizedType ==
  ASSUME TypeOK PROVE Synchronized \in [Threads -> File] /\ EditedAfterSync \in BOOLEAN
<1>1. CASE current \in Threads
  <2>1. [log[current] EXCEPT !.messages = buffer] \in File
    BY <1>1 DEF TypeOK, File
  <2> QED BY <2>1 DEF TypeOK, Synchronized, EditedAfterSync
<1>2. CASE current = NoThread
  BY <1>2 DEF TypeOK, Synchronized, EditedAfterSync
<1> QED BY <1>1, <1>2 DEF TypeOK

\* The queue after loadFromContentsOfFile:.
LEMMA LoadType ==
  ASSUME TypeOK, NEW t \in Threads, LoadFromContents(t)
  PROVE  works' \in Seq(Task) /\ interrupted' \in BOOLEAN
<1>1. Simple("clear", t) \in Task /\ Simple("download", t) \in Task /\ Simple("load", t) \in Task
  BY TaskTypes
<1> QED BY <1>1 DEF LoadFromContents

\* A request keeps the log it has read.
LEMMA RequestType ==
  ASSUME TypeOK, StartDownload PROVE download' \in [Threads -> Download]
<1>1. CASE current = NoThread \/ download[current].running
  BY <1>1 DEF StartDownload, TypeOK
<1>2. CASE ~(current = NoThread \/ download[current].running)
  <2>1. [running |-> TRUE, behind |-> runLoop # <<>>,
         nextIndex |-> Len(buffer), local |-> log[current]] \in Download
    BY <1>2 DEF TypeOK, Download
  <2> QED BY <1>2, <2>1 DEF StartDownload, TypeOK
<1> QED BY <1>1, <1>2

\* The user's steps.
LEMMA UserTypes ==
  ASSUME TypeOK,
         \/ \E t \in Threads : OpenThread(t)
         \/ \E i \in 1..MaxServer : Mark(i)
         \/ Reload \/ Cancel
  PROVE  TypeOK'
<1>1. ASSUME NEW t \in Threads, OpenThread(t) PROVE TypeOK'
  <2>1. log' \in [Threads -> File] /\ edited' \in BOOLEAN
    BY <1>1, SynchronizedType DEF OpenThread
  <2>2. works' \in Seq(Task) /\ interrupted' \in BOOLEAN
    BY <1>1, LoadType DEF OpenThread
  <2>3. left' \in Allowance
    <3>1. left \in Allowance /\ (left.hurried \/ ~Quiet) \in BOOLEAN
      BY DEF TypeOK, Allowance
    <3>2. left' = [left EXCEPT !.switches = @ - 1, !.hurried = (left.hurried \/ ~Quiet)]
      BY <1>1 DEF OpenThread
    <3> QED BY <1>1, <3>1, <3>2, LeftTypes, Zenon DEF OpenThread
  <2> QED BY <1>1, <2>1, <2>2, <2>3 DEF OpenThread, TypeOK, Allowance, netVars
<1>2. ASSUME NEW i \in 1..MaxServer, Mark(i) PROVE TypeOK'
  <2>1. [buffer[i] EXCEPT !.mark = TRUE] \in Message
    <3>1. \A m \in Message : [m EXCEPT !.mark = TRUE] \in Message
      BY DEF Message
    <3> QED BY <1>2, <3>1 DEF Mark, TypeOK, Allowance
  <2>2. buffer' \in Seq(Message)
    BY <1>2, <2>1 DEF Mark, TypeOK, Allowance
  <2>3. edited' \in BOOLEAN
    BY <1>2 DEF Mark, EditNoted
  <2>4. left' \in Allowance
    <3>1. left \in Allowance
      BY DEF TypeOK, Allowance
    <3> QED BY <1>2, <3>1, LeftTypes DEF Mark
  <2> QED BY <1>2, <2>2, <2>3, <2>4 DEF Mark, TypeOK, Allowance, netVars, workerVars
<1>3. CASE Reload
  <2>1. left' \in Allowance
    <3>1. left \in Allowance /\ (left.hurried \/ ~Quiet) \in BOOLEAN
      BY DEF TypeOK, Allowance
    <3>2. left' = [left EXCEPT !.reloads = @ - 1, !.hurried = (left.hurried \/ ~Quiet)]
      BY <1>3 DEF Reload
    <3> QED BY <1>3, <3>1, <3>2, LeftTypes, Zenon DEF Reload
  <2>2. CASE StartDownload /\ UNCHANGED <<works, interrupted>>
    BY <1>3, <2>1, <2>2, RequestType DEF Reload, TypeOK, Allowance, content
  <2>3. CASE LoadFromContents(current) /\ UNCHANGED download
    <3>1. current \in Threads
      BY <1>3 DEF Reload, TypeOK, Allowance
    <3>2. works' \in Seq(Task) /\ interrupted' \in BOOLEAN
      BY <2>3, <3>1, LoadType
    <3> QED BY <1>3, <2>1, <2>3, <3>2 DEF Reload, TypeOK, Allowance, content
  <2> QED BY <1>3, <2>2, <2>3 DEF Reload
<1>4. CASE Cancel
  <2>1. left' \in Allowance
    <3>1. left \in Allowance
      BY DEF TypeOK, Allowance
    <3> QED BY <1>4, <3>1, LeftTypes DEF Cancel
  <2> QED BY <1>4, <2>1 DEF Cancel, TypeOK, Allowance, netVars, content
<1> QED BY <1>1, <1>2, <1>3, <1>4

\* The run loop's and the downloader's steps.
LEMMA NetTypes ==
  ASSUME TypeOK,
         DidLoadFile \/ DidFinish \/ \E t \in Threads : Post(t) \/ Receive(t) \/ Fail(t)
  PROVE  TypeOK'
<1>1. CASE DidFinish
  <2>1. works' \in Seq(Task)
    BY <1>1, TaskTypes DEF DidFinish, TypeOK
  <2>2. runLoop' \in Seq(Task)
    BY <1>1 DEF DidFinish, TypeOK
  <2>3. download' \in [Threads -> Download]
    <3>1. \A d \in Download : [d EXCEPT !.behind = FALSE] \in Download
      BY DEF Download
    <3> QED BY <1>1, <3>1 DEF DidFinish, TypeOK
  <2>4. netLock' \subseteq Threads
    BY <1>1 DEF DidFinish, LockReleased, TypeOK
  <2> QED BY <1>1, <2>1, <2>2, <2>3, <2>4 DEF DidFinish, TypeOK, content
<1>2. ASSUME NEW t \in Threads, Post(t) PROVE TypeOK'
  <2>1. server' \in [Threads -> 0..MaxServer]
    <3>1. server[t] + 1 \in 0..MaxServer
      BY <1>2, ViewerAssumption, SMTT(30) DEF Post, TypeOK
    <3> QED BY <1>2, <3>1 DEF Post, TypeOK
  <2> QED BY <1>2, <2>1 DEF Post, TypeOK, content, workerVars
<1>3. ASSUME NEW t \in Threads, Receive(t) PROVE TypeOK'
  <2>1. download' \in [Threads -> Download]
    BY <1>3, TaskTypes DEF Receive, TypeOK
  <2>2. Fetched(t) \in Seq(Message)
    BY FetchedFacts
  <2>3. log' \in [Threads -> File]
    <3>1. download[t].local \in File
      BY DEF TypeOK, Download
    <3>2. download[t].local.messages \o Fetched(t) \in Seq(Message)
      BY <2>2, <3>1 DEF File
    <3>3. Extended(t) \in File
      BY <3>2 DEF Extended, File, TypeOK
    <3> QED BY <1>3, <3>3 DEF Receive, TypeOK
  <2>4. netLock' \subseteq Threads /\ works' \in Seq(Task) /\ edited' \in BOOLEAN
    <3>1. [kind |-> "dat", thread |-> t, first |-> Len(buffer) + 1,
           messages |-> Fetched(t)] \in Task
      BY <2>2 DEF Task, TypeOK
    <3>2. CASE Held(t) \/ current # t \/ download[t].nextIndex # Len(buffer)
      BY <1>3, <3>2 DEF Receive, Compose, TypeOK
    <3>3. CASE ~(Held(t) \/ current # t \/ download[t].nextIndex # Len(buffer))
      <4>1. works' = Append(works, [kind |-> "dat", thread |-> t, first |-> Len(buffer) + 1,
                                    messages |-> Fetched(t)])
            /\ netLock' = netLock \cup {t} /\ edited' = TRUE
        BY <1>3, <3>3 DEF Receive, Compose
      <4>2. works' \in Seq(Task)
        BY <3>1, <4>1 DEF TypeOK
      <4> QED BY <4>1, <4>2 DEF TypeOK
    <3> QED BY <3>2, <3>3
  <2> QED BY <1>3, <2>1, <2>3, <2>4 DEF Receive, TypeOK
<1>4. ASSUME NEW t \in Threads, Fail(t) PROVE TypeOK'
  <2>1. download' \in [Threads -> Download]
    BY <1>4, TaskTypes DEF Fail, TypeOK
  <2> QED BY <1>4, <2>1 DEF Fail, TypeOK, content, workerVars
<1>5. CASE DidLoadFile
  <2>1. current' \in Threads \cup {NoThread} /\ wpc' = "complete"
    BY <1>5 DEF DidLoadFile, TypeOK, Task
  <2> QED BY <1>5, <2>1 DEF DidLoadFile, TypeOK, netVars, content
<1> QED BY <1>1, <1>2, <1>3, <1>4, <1>5

\* The worker's steps.
LEMMA WorkerTypes ==
  ASSUME TypeOK, LoadsNamed, WorkerStep PROVE TypeOK'
<1>1. CASE StartTask
  <2>1. task' \in Task /\ works' \in Seq(Task)
    BY <1>1 DEF StartTask, TypeOK
  <2> QED BY <1>1, <2>1 DEF StartTask, TypeOK, netVars, content
<1>2. CASE RunClear
  <2>1. buffer' \in Seq(Message) /\ task' \in Task
    BY <1>2, TaskTypes DEF RunClear, Cleared, EndTask
  <2> QED BY <1>2, <2>1 DEF RunClear, EndTask, TypeOK, netVars
<1>3. CASE RunDownload
  <2>1. download' \in [Threads -> Download] /\ task' \in Task
    BY <1>3, TaskTypes, RequestType DEF RunDownload, EndTask
  <2> QED BY <1>3, <2>1 DEF RunDownload, EndTask, TypeOK, content
<1>4. CASE ReadFile
  <2>1. task' \in Task /\ wpc' \in {"idle", "loaded"}
    <3>1. \A k \in Task, m \in Seq(Message) : [k EXCEPT !.messages = m] \in Task
      BY DEF Task
    <3>2. log[task.thread].messages \in Seq(Message)
      BY <1>4 DEF ReadFile, LoadsNamed, TypeOK, File
    <3>3. task \in Task /\ NoTask \in Task
      BY TaskTypes DEF TypeOK
    <3> QED BY <1>4, <3>1, <3>2, <3>3 DEF ReadFile, Interrupted, EndTask
  <2>2. invalidate' \in BOOLEAN
    BY <1>4 DEF ReadFile, Interrupted, TypeOK
  <2> QED BY <1>4, <2>1, <2>2 DEF ReadFile, TypeOK, netVars, content
<1>5. CASE AddMessages
  <2>1. buffer' \in Seq(Message) /\ start' \in Nat
    <3>1. task.messages \in Seq(Message) /\ task.first \in Nat \ {0} /\ buffer \in Seq(Message)
      BY DEF TypeOK, Task
    <3>2. buffer \o task.messages \in Seq(Message) /\ task.first - 1 \in Nat /\ start \in Nat
      BY <3>1 DEF TypeOK
    <3> QED BY <1>5, <3>1, <3>2 DEF AddMessages
  <2>2. task' \in Task /\ wpc' \in {"idle", "added"} /\ unexpected' \in BOOLEAN
    BY <1>5, TaskTypes DEF AddMessages, Caught, EndTask, TypeOK
  <2> QED BY <1>5, <2>1, <2>2 DEF AddMessages, TypeOK, netVars
<1>6. CASE FinishTask
  <2>1. runLoop' \in Seq(Task) /\ task' \in Task /\ wpc' = "idle"
    <3>1. task \in Task /\ NoTask \in Task /\ runLoop \in Seq(Task)
      BY TaskTypes DEF TypeOK
    <3>2. Append(runLoop, task) \in Seq(Task)
      BY <3>1
    <3> QED BY <1>6, <3>1, <3>2 DEF FinishTask, Interrupted, EndTask
  <2>2. invalidate' \in BOOLEAN
    BY <1>6 DEF FinishTask, Interrupted, TypeOK
  <2> QED BY <1>6, <2>1, <2>2 DEF FinishTask, TypeOK, netVars, content
<1>7. CASE BeginDat
  BY <1>7 DEF BeginDat, TypeOK, netVars, content
<1> QED BY <1>1, <1>2, <1>3, <1>4, <1>5, <1>6, <1>7 DEF WorkerStep

\* Every step keeps the types, and the load tasks named.
LEMMA TypeStep == Typed /\ [Next]_vars => Typed'
<1> SUFFICES ASSUME Typed, [Next]_vars PROVE Typed'
  OBVIOUS
<1>1. TypeOK'
  <2>1. TypeOK /\ UNCHANGED vars => TypeOK'
    BY DEF vars, TypeOK
  <2> QED BY <2>1, UserTypes, NetTypes, WorkerTypes DEF Next, Typed
<1>2. LoadsNamed'
  <2> USE DEF Typed, LoadsNamed
  <2>0. works \in Seq(Task) /\ task \in Task
    BY DEF TypeOK
  <2>1. \A t : /\ Simple("clear", t).kind = "clear" /\ Simple("download", t).kind = "download"
               /\ Simple("load", t).kind = "load" /\ Simple("load", t).thread = t
               /\ NoTask.kind = "none"
    BY DEF Simple, NoTask
  <2>2. ASSUME NEW t \in Threads, LoadFromContents(t), UNCHANGED task PROVE LoadsNamed'
    BY <2>1, <2>2 DEF LoadFromContents
  <2>3. ASSUME NEW t \in Threads, OpenThread(t) PROVE LoadsNamed'
    BY <2>2, <2>3 DEF OpenThread
  <2>4. CASE Reload
    BY <2>2, <2>4 DEF Reload, TypeOK
  <2>5. CASE DidFinish
    <3>1. Simple("download", current) \in Task
      BY TaskTypes DEF TypeOK
    <3> QED BY <2>0, <2>1, <2>5, <3>1 DEF DidFinish
  <2>6. ASSUME NEW t \in Threads, Receive(t) PROVE LoadsNamed'
    BY <2>0, <2>6 DEF Receive, Compose
  <2>7. CASE StartTask
    BY <2>0, <2>7 DEF StartTask
  <2>8. CASE RunClear \/ RunDownload \/ AddMessages \/ FinishTask
    BY <2>1, <2>8 DEF RunClear, RunDownload, AddMessages, FinishTask, Interrupted, EndTask, Caught
  <2>9. CASE ReadFile
    <3>1. \A m : [task EXCEPT !.messages = m].kind = task.kind
                 /\ [task EXCEPT !.messages = m].thread = task.thread
      BY <2>0 DEF Task
    <3>2. \/ task' = NoTask
          \/ task' = [task EXCEPT !.messages = log[task.thread].messages]
      BY <2>9 DEF ReadFile, Interrupted, EndTask
    <3>3. works' = works
      BY <2>9 DEF ReadFile
    <3>4. task'.kind = "load" => task'.thread = task.thread /\ task.kind = "load"
      <4>1. CASE task' = NoTask
        BY <2>1, <4>1
      <4>2. CASE task' = [task EXCEPT !.messages = log[task.thread].messages]
        <5>1. task'.kind = task.kind /\ task'.thread = task.thread
          BY <3>1, <4>2
        <5> QED BY <5>1
      <4> QED BY <3>2, <4>1, <4>2
    <3> QED BY <3>3, <3>4
  <2>10. ASSUME UNCHANGED <<works, task>> PROVE LoadsNamed'
    BY <2>10
  <2> QED BY <2>3, <2>4, <2>5, <2>6, <2>7, <2>8, <2>9, <2>10
          DEF Next, WorkerStep, BeginDat, DidLoadFile, Cancel, Post, Fail, Mark, workerVars, vars
<1> QED BY <1>1, <1>2 DEF Typed

\* The program starts with the types.
LEMMA InitTyped == Init => Typed
<1>1. Init => TypeOK
  <2> SUFFICES ASSUME Init PROVE TypeOK
    OBVIOUS
  <2>1. server \in [Threads -> 0..MaxServer]
    BY ViewerAssumption DEF Init
  <2>2. left \in [switches : 0..MaxSwitches, reloads : 0..MaxReloads,
                  marks : 0..MaxMarks, cancels : 0..MaxCancels, hurried : BOOLEAN]
    BY ViewerAssumption DEF Init
  <2>3. log \in [Threads -> File] /\ download \in [Threads -> Download] /\ task \in Task
    BY TaskTypes DEF Init
  <2>4. {edited, invalidate, interrupted, unexpected} \subseteq BOOLEAN
    BY Zenon DEF Init
  <2>5. buffer \in Seq(Message) /\ works \in Seq(Task) /\ runLoop \in Seq(Task)
    BY DEF Init
  <2> QED BY <2>1, <2>2, <2>3, <2>4, <2>5 DEF Init, TypeOK
<1>2. Init => LoadsNamed
  BY DEF Init, LoadsNamed, NoTask, Simple
<1> QED BY <1>1, <1>2 DEF Typed

\* The viewer, its queue, its downloads and its log files keep their types.
THEOREM TypeCorrect == Spec => []TypeOK
<1>1. Typed => TypeOK
  BY DEF Typed
<1> QED BY <1>1, InitTyped, TypeStep, PTL DEF Spec

-----------------------------------------------------------------------------
(* Where the messages in the buffer come from *)

\* The messages of a task are of its thread.
Own(k) == \A i \in DOMAIN k.messages : k.messages[i].thread = k.thread

ClearQueued == \E i \in DOMAIN works : works[i].kind = "clear"

\* The buffer will be emptied before anything is added for the thread shown.
Clearing == ClearQueued \/ (wpc = "begin" /\ task.kind = "clear")

\* Tasks bring messages of their thread only.
OwnInv == Own(task) /\ \A i \in DOMAIN works : Own(works[i])

\* A load follows its clear task directly, and so finds the buffer empty.
QueueInv ==
  \A i \in DOMAIN works : works[i].kind = "load" =>
    \/ i = 2 /\ works[1].kind = "clear"
    \/ i = 1 /\ wpc = "begin" /\ task.kind = "clear"
    \/ i = 1 /\ wpc = "idle" /\ buffer = <<>>

\* Unless the buffer will be cleared after it, a load meets an empty buffer until
\* the main thread has taken its thread over, and is then for the thread shown.
LoadInv ==
  task.kind = "load" /\ ~ClearQueued =>
    /\ wpc \in {"begin", "loaded"} => buffer = <<>>
    /\ wpc \in {"complete", "added"} => task.thread = current

TasksInv == OwnInv /\ QueueInv /\ LoadInv

\* Only a task that brings messages completes, only a load reads attributes.
KindInv ==
  /\ wpc = "loaded" => task.kind = "load"
  /\ wpc \in {"complete", "added"} => task.kind \in {"load", "dat"}

BufferInv == Clearing \/ \A i \in DOMAIN buffer : buffer[i].thread = current

ViewerInv == Typed /\ KindInv /\ TasksInv /\ BufferInv

\* Loading a thread puts a clear task before everything else.
LEMMA LoadClears ==
  ASSUME NEW t, LoadFromContents(t), UNCHANGED task, Own(task)
  PROVE  TasksInv' /\ BufferInv'
<1>1. /\ DOMAIN works' = {1, 2}
      /\ works'[1] = Simple("clear", t)
      /\ works'[2] = Simple("download", t) \/ works'[2] = Simple("load", t)
  BY DEF LoadFromContents
<1>2. \A kind : Simple(kind, t).kind = kind /\ Own(Simple(kind, t))
  BY DEF Simple, Own
<1>3. works'[1].kind = "clear" /\ Own(works'[1]) /\ Own(works'[2])
  BY <1>1, <1>2
<1>4. ClearQueued'
  BY <1>1, <1>3 DEF ClearQueued
<1>5. OwnInv'
  BY <1>1, <1>3 DEF OwnInv, Own
<1>6. QueueInv'
  BY <1>1, <1>3 DEF QueueInv
<1>7. LoadInv'
  BY <1>4 DEF LoadInv
<1> QED BY <1>4, <1>5, <1>6, <1>7 DEF TasksInv, BufferInv, Clearing

\* A task of arrived messages, or a download, joins the queue.
LEMMA QueueGrows ==
  ASSUME TasksInv, BufferInv, works \in Seq(Task),
         NEW k \in Task, k.kind # "load", Own(k), works' = Append(works, k),
         UNCHANGED <<current, task, wpc, buffer>>
  PROVE  TasksInv' /\ BufferInv'
<1>1. /\ DOMAIN works' = DOMAIN works \cup {Len(works) + 1}
      /\ \A i \in DOMAIN works : works'[i] = works[i]
      /\ works'[Len(works) + 1] = k
      /\ \A i \in DOMAIN works : i = 2 => 1 \in DOMAIN works
  OBVIOUS
<1>2. ClearQueued => ClearQueued'
  BY <1>1 DEF ClearQueued
<1>3. OwnInv'
  BY <1>1 DEF TasksInv, OwnInv, Own
<1>4. QueueInv'
  BY <1>1 DEF TasksInv, QueueInv
<1>5. LoadInv'
  BY <1>2 DEF TasksInv, LoadInv
<1> QED BY <1>2, <1>3, <1>4, <1>5 DEF TasksInv, BufferInv, Clearing

\* Steps that change neither the queue, the task nor whose messages are shown.
LEMMA ContentKept ==
  ASSUME TasksInv, BufferInv, UNCHANGED <<works, task, current, wpc>>,
         \/ UNCHANGED buffer
         \/ /\ buffer # <<>> /\ DOMAIN buffer' = DOMAIN buffer
            /\ \A i \in DOMAIN buffer : buffer'[i].thread = buffer[i].thread
  PROVE  TasksInv' /\ BufferInv'
BY DEF TasksInv, OwnInv, QueueInv, LoadInv, BufferInv, Own, Clearing, ClearQueued

\* What holds of every message of two sequences holds of every message of their
\* concatenation, position by position.
LEMMA ConcatElements ==
  ASSUME NEW S, NEW a \in Seq(S), NEW b \in Seq(S)
  PROVE  /\ a \o b \in Seq(S) /\ Len(a \o b) = Len(a) + Len(b)
         /\ Len(a) \in Nat /\ Len(b) \in Nat
         /\ DOMAIN a = 1..Len(a) /\ DOMAIN b = 1..Len(b)
         /\ DOMAIN (a \o b) = 1..(Len(a) + Len(b))
         /\ \A i \in DOMAIN a : i \in DOMAIN (a \o b) /\ (a \o b)[i] = a[i]
         /\ \A i \in DOMAIN (a \o b) :
              \/ i \in DOMAIN a /\ (a \o b)[i] = a[i]
              \/ i - Len(a) \in DOMAIN b /\ (a \o b)[i] = b[i - Len(a)]
OBVIOUS

\* The end of a task.
LEMMA TaskEnds ==
  ASSUME TasksInv, BufferInv, EndTask, ~(wpc = "begin" /\ task.kind = "clear"),
         wpc # "idle", UNCHANGED <<works, current, buffer>>
  PROVE  TasksInv' /\ BufferInv'
<1>1. Own(task') /\ task'.kind = "none"
  BY DEF EndTask, NoTask, Simple, Own
<1>2. ClearQueued' = ClearQueued
  BY DEF ClearQueued
<1>3. TasksInv'
  BY <1>1 DEF TasksInv, OwnInv, QueueInv, LoadInv, Own
<1>4. BufferInv'
  BY <1>2 DEF BufferInv, Clearing
<1> QED BY <1>3, <1>4

\* The worker's steps, while the logs keep to their threads.
LEMMA WorkerInv ==
  ASSUME ViewerInv, LogKeepsThread, WorkerStep PROVE TasksInv' /\ BufferInv'
<1> USE DEF ViewerInv, Typed
<1>0. /\ works \in Seq(Task) /\ task \in Task /\ buffer \in Seq(Message)
      /\ task.messages \in Seq(Message)
  BY DEF TypeOK, Task
<1>1. CASE StartTask
  <2>1. /\ works # <<>> /\ task' = works[1] /\ wpc = "idle" /\ wpc' = "begin"
        /\ UNCHANGED <<current, buffer>>
        /\ 1 \in DOMAIN works
        /\ \A i \in DOMAIN works' : /\ i \in Nat /\ i >= 1 /\ i + 1 \in DOMAIN works
                                    /\ works'[i] = works[i + 1]
        /\ \A i \in DOMAIN works : i = 1 \/ (i - 1 \in DOMAIN works' /\ works'[i - 1] = works[i])
    BY <1>0, <1>1 DEF StartTask, content
  <2>2. OwnInv'
    BY <2>1 DEF TasksInv, OwnInv, Own
  <2>3. QueueInv'
    BY <2>1 DEF TasksInv, QueueInv
  <2>4. LoadInv'
    BY <2>1 DEF TasksInv, QueueInv, LoadInv
  <2>5. ClearQueued => ClearQueued' \/ task'.kind = "clear"
    BY <2>1 DEF ClearQueued
  <2>6. BufferInv'
    BY <2>1, <2>5 DEF BufferInv, Clearing
  <2> QED BY <2>2, <2>3, <2>4, <2>6 DEF TasksInv
<1>2. CASE RunClear
  <2>1. Own(task') /\ task'.kind = "none"
    BY <1>2 DEF RunClear, EndTask, NoTask, Simple, Own
  <2>2. /\ wpc = "begin" /\ task.kind = "clear" /\ wpc' = "idle" /\ buffer' = <<>>
        /\ works' = works
    BY <1>2 DEF RunClear, EndTask, Cleared
  <2>3. TasksInv'
    BY <2>1, <2>2 DEF TasksInv, OwnInv, QueueInv, LoadInv, Own
  <2>4. BufferInv'
    BY <2>2 DEF BufferInv
  <2> QED BY <2>3, <2>4
<1>3. CASE RunDownload
  BY <1>3, TaskEnds DEF RunDownload, content
<1>4. CASE ReadFile
  <2>1. CASE EndTask
    BY <1>4, <2>1, TaskEnds DEF ReadFile, content
  <2>2. CASE task' = [task EXCEPT !.messages = log[task.thread].messages] /\ wpc' = "loaded"
    <3>1. task.thread \in Threads
      BY <1>4 DEF ReadFile, LoadsNamed
    <3>2. /\ task'.kind = "load" /\ task.kind = "load" /\ task'.thread = task.thread
          /\ task'.messages = log[task.thread].messages
      BY <1>0, <1>4, <2>2 DEF ReadFile, Task
    <3>3. Own(task')
      BY <3>1, <3>2 DEF Own, LogKeepsThread
    <3>4. UNCHANGED <<works, current, buffer>> /\ wpc = "begin"
      BY <1>4 DEF ReadFile, content
    <3>5. TasksInv'
      BY <2>2, <3>2, <3>3, <3>4 DEF TasksInv, OwnInv, QueueInv, LoadInv, ClearQueued, Own
    <3>6. BufferInv'
      BY <3>2, <3>4 DEF BufferInv, Clearing, ClearQueued
    <3> QED BY <3>5, <3>6
  <2> QED BY <1>4, <2>1, <2>2 DEF ReadFile, Interrupted
<1>5. CASE AddMessages
  <2>1. CASE EndTask /\ UNCHANGED buffer
    BY <1>5, <2>1, TaskEnds DEF AddMessages
  <2>2. CASE /\ UNCHANGED task /\ wpc' = "added"
             /\ ~(task.kind = "dat" /\ task.thread # current)
             /\ buffer' = buffer \/ buffer' = buffer \o task.messages
    <3>1. TasksInv'
      BY <1>5, <2>2 DEF AddMessages, TasksInv, OwnInv, QueueInv, LoadInv, ClearQueued, Own
    <3>2. CASE ClearQueued
      BY <1>5, <3>1, <3>2 DEF AddMessages, BufferInv, Clearing, ClearQueued
    <3>3. CASE ~ClearQueued
      <4>1. \A i \in DOMAIN buffer : buffer[i].thread = current
        BY <1>5, <3>3 DEF AddMessages, BufferInv, Clearing
      <4>2. task.kind \in {"load", "dat"} /\ task.thread = current
        BY <1>5, <2>2, <3>3 DEF KindInv, AddMessages, TasksInv, LoadInv
      <4>3. \A i \in DOMAIN task.messages : task.messages[i].thread = current
        BY <4>2 DEF TasksInv, OwnInv, Own
      <4>4. \A i \in DOMAIN buffer' : buffer'[i].thread = current
        <5>1. \A i \in DOMAIN (buffer \o task.messages) :
                \/ i \in DOMAIN buffer /\ (buffer \o task.messages)[i] = buffer[i]
                \/ /\ i - Len(buffer) \in DOMAIN task.messages
                   /\ (buffer \o task.messages)[i] = task.messages[i - Len(buffer)]
          BY <1>0, ConcatElements, Zenon
        <5>2. \A i \in DOMAIN (buffer \o task.messages) :
                (buffer \o task.messages)[i].thread = current
          BY <4>1, <4>3, <5>1, Zenon
        <5> QED BY <2>2, <4>1, <5>2, Zenon
      <4> QED BY <1>5, <3>1, <4>4 DEF AddMessages, BufferInv
    <3> QED BY <3>1, <3>2, <3>3
  <2> QED BY <1>5, <2>1, <2>2 DEF AddMessages, Caught
<1>6. CASE FinishTask
  BY <1>6, TaskEnds DEF FinishTask, Interrupted, content
<1>7. CASE BeginDat
  BY <1>7 DEF BeginDat, content, TasksInv, OwnInv, QueueInv, LoadInv, BufferInv, Own, Clearing,
              ClearQueued
<1> QED BY <1>1, <1>2, <1>3, <1>4, <1>5, <1>6, <1>7 DEF WorkerStep

\* A load takes the window over to its thread, or back to it when another one was
\* opened meanwhile; a clear task is then in the queue.
LEMMA MergeInv ==
  ASSUME ViewerInv, DidLoadFile PROVE TasksInv' /\ BufferInv'
<1>1. /\ wpc = "loaded" /\ wpc' = "complete" /\ current' = task.thread /\ task.kind = "load"
      /\ UNCHANGED <<works, task, buffer>>
  BY DEF ViewerInv, KindInv, DidLoadFile, content
<1>2. TasksInv'
  BY <1>1 DEF ViewerInv, TasksInv, OwnInv, QueueInv, LoadInv, Own
<1>3. BufferInv'
  BY <1>1 DEF ViewerInv, TasksInv, LoadInv, BufferInv, Clearing, ClearQueued
<1> QED BY <1>2, <1>3

\* Every step keeps the kinds of tasks apart.
LEMMA KindStep == ASSUME Typed, KindInv, [Next]_vars PROVE KindInv'
<1>1. CASE WorkerStep
  <2>1. \A m : [task EXCEPT !.messages = m].kind = task.kind
    BY DEF Typed, TypeOK, Task
  <2> QED BY <1>1, <2>1 DEF WorkerStep, StartTask, RunClear, RunDownload, ReadFile, BeginDat,
             AddMessages, FinishTask, Interrupted, EndTask, Caught, KindInv
<1>2. CASE ~WorkerStep
  BY <1>2 DEF KindInv, Next, DidLoadFile, DidFinish, Reload, Cancel, OpenThread, Post, Receive,
              Fail, Mark, workerVars, vars
<1> QED BY <1>1, <1>2

\* Every step, while the logs keep to their threads.
LEMMA ViewerStep ==
  ViewerInv /\ LogKeepsThread /\ [Next]_vars => ViewerInv'
<1> SUFFICES ASSUME ViewerInv, LogKeepsThread, [Next]_vars PROVE ViewerInv'
  OBVIOUS
<1> USE DEF ViewerInv
<1>1. Typed'
  BY TypeStep
<1>2. KindInv'
  BY KindStep
<1>3. TasksInv' /\ BufferInv'
  <2>0. works \in Seq(Task) /\ buffer \in Seq(Message) /\ Own(task)
    BY DEF Typed, TypeOK, TasksInv, OwnInv
  <2>1. CASE WorkerStep
    BY <2>1, WorkerInv
  <2>2. CASE DidFinish
    <3>1. CASE works' = works
      BY <2>2, <3>1, ContentKept DEF DidFinish, content
    <3>2. CASE works' = Append(works, Simple("download", current))
      <4>1. Simple("download", current) \in Task
        BY TaskTypes DEF Typed, TypeOK
      <4>2. Own(Simple("download", current)) /\ Simple("download", current).kind = "download"
        BY DEF Own, Simple
      <4> QED BY <2>0, <2>2, <3>2, <4>1, <4>2, QueueGrows DEF DidFinish, content
    <3> QED BY <2>2, <3>1, <3>2 DEF DidFinish
  <2>3. CASE Reload
    <3>1. CASE LoadFromContents(current)
      BY <2>0, <2>3, <3>1, LoadClears DEF Reload
    <3>2. CASE UNCHANGED works
      BY <2>3, <3>2, ContentKept DEF Reload, content
    <3> QED BY <2>3, <3>1, <3>2 DEF Reload
  <2>4. ASSUME NEW t \in Threads, OpenThread(t) PROVE TasksInv' /\ BufferInv'
    BY <2>0, <2>4, LoadClears DEF OpenThread
  <2>5. ASSUME NEW t \in Threads, Receive(t) PROVE TasksInv' /\ BufferInv'
    <3>1. CASE works' = works
      BY <2>5, <3>1, ContentKept DEF Receive
    <3> DEFINE k == [kind |-> "dat", thread |-> t, first |-> Len(buffer) + 1,
                     messages |-> Fetched(t)]
    <3>2. CASE works' = Append(works, k) /\ current = t
      <4>1. /\ Fetched(t) \in Seq(Message)
            /\ \A i \in DOMAIN Fetched(t) : Fetched(t)[i].thread = t
        <5>1. TypeOK
          BY DEF Typed
        <5>2. Fetched(t) \in Seq(Message)
          BY <5>1, FetchedFacts
        <5> QED BY <5>2 DEF Fetched
      <4>2. k \in Task /\ k.kind = "dat" /\ Own(k)
        BY <3>2, <4>1, <2>0 DEF Task, Own
      <4> HIDE DEF k
      <4> QED BY <2>0, <2>5, <3>2, <4>2, QueueGrows DEF Receive
    <3> QED BY <2>5, <3>1, <3>2 DEF Receive, Compose
  <2>6. ASSUME NEW i \in 1..MaxServer, Mark(i) PROVE TasksInv' /\ BufferInv'
    <3>1. /\ buffer # <<>> /\ DOMAIN buffer' = DOMAIN buffer
          /\ \A l \in DOMAIN buffer : buffer'[l].thread = buffer[l].thread
      <4>1. \A m \in Message : [m EXCEPT !.mark = TRUE].thread = m.thread
        BY DEF Message
      <4>2. i \in DOMAIN buffer /\ buffer' = [buffer EXCEPT ![i] = [buffer[i] EXCEPT !.mark = TRUE]]
        BY <2>6 DEF Mark
      <4> QED BY <2>0, <4>1, <4>2
    <3> QED BY <2>6, <3>1, ContentKept DEF Mark, workerVars
  <2>7. CASE Cancel
    BY <2>7, ContentKept DEF Cancel, content
  <2>8. ASSUME NEW t \in Threads, Post(t) \/ Fail(t) PROVE TasksInv' /\ BufferInv'
    BY <2>8, ContentKept DEF Post, Fail, content, workerVars
  <2>9. CASE UNCHANGED vars
    BY <2>9, ContentKept DEF vars
  <2>10. CASE DidLoadFile
    BY <2>10, MergeInv
  <2> QED BY <2>1, <2>2, <2>3, <2>4, <2>5, <2>6, <2>7, <2>8, <2>9, <2>10 DEF Next
<1> QED BY <1>1, <1>2, <1>3

\* At first nothing is shown and nothing is queued.
LEMMA ViewerInit == Init => ViewerInv
<1> SUFFICES ASSUME Init PROVE ViewerInv
  OBVIOUS
<1>1. Typed
  BY InitTyped
<1>2. KindInv /\ TasksInv /\ BufferInv
  BY DEF Init, KindInv, TasksInv, OwnInv, QueueInv, LoadInv, BufferInv, NoTask, Simple, Own
<1> QED BY <1>1, <1>2 DEF ViewerInv

\* However fast the user opens, reloads and cancels, and whichever thread a late
\* load makes the window name again, the viewer at rest shows messages of the
\* thread its window names, as long as every log does.
THEOREM ViewerShowsItsThread == Spec => ShowsCurrentThread
<1>1. ViewerInv => ShownIsCurrent
  BY DEF ViewerInv, BufferInv, Clearing, ClearQueued, ShownIsCurrent, Quiet
<1> QED BY <1>1, ViewerInit, ViewerStep, PTL DEF Spec, ShowsCurrentThread

-----------------------------------------------------------------------------
(* The log files of a user who opens threads only at rest *)

\* What a download will write back was read from its thread's log.
CopiesKeepThread ==
  \A t \in Threads : \A i \in DOMAIN download[t].local.messages :
    download[t].local.messages[i].thread = t

LogsInv == ViewerInv /\ LogKeepsThread /\ CopiesKeepThread

\* A request copies the log.
LEMMA RequestCopies ==
  ASSUME TypeOK, LogKeepsThread, CopiesKeepThread, StartDownload
  PROVE  CopiesKeepThread'
<1>1. CASE download' = download
  BY <1>1 DEF CopiesKeepThread
<1>2. CASE /\ current \in Threads
           /\ download' = [download EXCEPT ![current] =
                            [running |-> TRUE, behind |-> runLoop # <<>>,
                             nextIndex |-> Len(buffer), local |-> log[current]]]
  <2>1. \A t \in Threads : download'[t].local = IF t = current THEN log[t] ELSE download[t].local
    BY <1>2 DEF TypeOK
  <2> QED BY <2>1 DEF CopiesKeepThread, LogKeepsThread
<1> QED BY <1>1, <1>2 DEF StartDownload, TypeOK

\* When threads are opened at rest only, the logs and the copies keep to their
\* threads.
LEMMA LogsStep ==
  ASSUME "open" \notin Impatient, LogsInv, [Next]_vars
  PROVE  LogKeepsThread' /\ CopiesKeepThread'
<1> USE DEF LogsInv
<1>0. TypeOK
  BY DEF ViewerInv, Typed
<1>1. ASSUME NEW t \in Threads, OpenThread(t) PROVE LogKeepsThread' /\ CopiesKeepThread'
  <2>1. Quiet
    BY <1>1 DEF OpenThread, May
  <2>2. \A i \in DOMAIN buffer : buffer[i].thread = current
    BY <2>1 DEF ViewerInv, BufferInv, Clearing, ClearQueued, Quiet
  <2>3. CopiesKeepThread'
    BY <1>1 DEF OpenThread, netVars, CopiesKeepThread
  <2>4. CASE log' = log
    BY <2>3, <2>4 DEF LogKeepsThread
  <2>5. CASE current \in Threads /\ log' = [log EXCEPT ![current].messages = buffer]
    <3>1. \A u \in Threads : log'[u].messages = IF u = current THEN buffer ELSE log[u].messages
      BY <1>0, <2>5 DEF TypeOK, File
    <3> QED BY <2>2, <2>3, <3>1 DEF LogKeepsThread
  <2> QED BY <1>0, <1>1, <2>4, <2>5 DEF OpenThread, Synchronized, TypeOK
<1>2. ASSUME NEW t \in Threads, Receive(t) PROVE LogKeepsThread' /\ CopiesKeepThread'
  <2>1. CopiesKeepThread'
    <3>1. \A u \in Threads : download'[u] = IF u = t THEN Idle ELSE download[u]
      BY <1>0, <1>2 DEF Receive, TypeOK
    <3>2. Idle.local.messages = <<>>
      BY DEF Idle
    <3> QED BY <3>1, <3>2 DEF CopiesKeepThread
  <2>2. CASE log' = log
    BY <2>1, <2>2 DEF LogKeepsThread
  <2>3. CASE log' = [log EXCEPT ![t] = Extended(t)]
    <3> DEFINE old == download[t].local.messages
    <3>1. old \in Seq(Message) /\ Fetched(t) \in Seq(Message)
      BY <1>0, FetchedFacts DEF TypeOK, Download, File
    <3>2. \A i \in DOMAIN Fetched(t) : Fetched(t)[i].thread = t
      BY DEF Fetched
    <3>3. \A i \in DOMAIN old : old[i].thread = t
      BY DEF CopiesKeepThread
    <3> HIDE DEF old
    <3>4. \A i \in DOMAIN (old \o Fetched(t)) : (old \o Fetched(t))[i].thread = t
      <4>1. \A i \in DOMAIN (old \o Fetched(t)) :
              \/ i \in DOMAIN old /\ (old \o Fetched(t))[i] = old[i]
              \/ /\ i - Len(old) \in DOMAIN Fetched(t)
                 /\ (old \o Fetched(t))[i] = Fetched(t)[i - Len(old)]
        BY <3>1, ConcatElements, ZenonT(30)
      <4> QED BY <3>2, <3>3, <4>1, Zenon
    <3>5. \A u \in Threads :
            log'[u].messages = IF u = t THEN old \o Fetched(t) ELSE log[u].messages
      BY <1>0, <2>3 DEF TypeOK, Extended, old
    <3> QED BY <2>1, <3>4, <3>5 DEF LogKeepsThread
  <2> QED BY <1>2, <2>2, <2>3 DEF Receive
<1>3. ASSUME StartDownload, UNCHANGED log PROVE LogKeepsThread' /\ CopiesKeepThread'
  BY <1>0, <1>3, RequestCopies DEF LogKeepsThread
<1>4. ASSUME UNCHANGED <<log, download>> PROVE LogKeepsThread' /\ CopiesKeepThread'
  BY <1>4 DEF LogKeepsThread, CopiesKeepThread
<1>5. CASE Reload \/ RunDownload
  BY <1>3, <1>4, <1>5 DEF Reload, RunDownload
<1>6. CASE DidFinish
  <2>1. \A t \in Threads : download'[t].local = download[t].local
    BY <1>0, <1>6 DEF DidFinish, TypeOK, Download
  <2> QED BY <1>6, <2>1 DEF DidFinish, LogKeepsThread, CopiesKeepThread
<1>7. ASSUME NEW t \in Threads, Fail(t) PROVE LogKeepsThread' /\ CopiesKeepThread'
  <2>1. \A u \in Threads : download'[u] = IF u = t THEN Idle ELSE download[u]
    BY <1>0, <1>7 DEF Fail, TypeOK
  <2>2. Idle.local.messages = <<>>
    BY DEF Idle
  <2> QED BY <1>7, <2>1, <2>2 DEF Fail, LogKeepsThread, CopiesKeepThread
<1> QED BY <1>1, <1>2, <1>4, <1>5, <1>6, <1>7
        DEF Next, WorkerStep, StartTask, RunClear, ReadFile, BeginDat, AddMessages, FinishTask,
            DidLoadFile, Cancel, Post, Mark, netVars, vars

\* A user who opens threads only when nothing is pending, whatever else they do,
\* never gets messages of one thread into the log of another.
THEOREM LogsKeepToThreads == "open" \notin Impatient => (Spec => []LogKeepsThread)
<1> SUFFICES ASSUME "open" \notin Impatient PROVE Spec => []LogKeepsThread
  OBVIOUS
<1>1. Init => LogsInv
  <2>1. Init => LogKeepsThread /\ CopiesKeepThread
    BY DEF Init, LogKeepsThread, CopiesKeepThread, Idle
  <2> QED BY <2>1, ViewerInit DEF LogsInv
<1>2. LogsInv /\ [Next]_vars => LogsInv'
  BY LogsStep, ViewerStep DEF LogsInv
<1>3. LogsInv => LogKeepsThread
  BY DEF LogsInv
<1> QED BY <1>1, <1>2, <1>3, PTL DEF Spec
=============================================================================
