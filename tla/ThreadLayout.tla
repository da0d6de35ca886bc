----------------------------- MODULE ThreadLayout -----------------------------
(***************************************************************************)
(* CMRThreadLayout with the tasks its worker thread runs (clear, header,   *)
(* file loading and composing), the run loop of the main thread that they  *)
(* send messages to, and the user's edits on the main thread.              *)
(*                                                                         *)
(* The worker is the SerialExecutor that WorkerContext implements: one     *)
(* work after the other, removeAll: drains the queue and cancels the       *)
(* current one.  performSelectorOnMainThread: appends to runLoop; with     *)
(* waitUntilDone:YES the worker blocks until its message was handled.  A   *)
(* handler of the main thread is one step: what the worker can do          *)
(* meanwhile, appending a range, either precedes or follows its slides.    *)
(***************************************************************************)
EXTENDS MessageRanges

CONSTANTS
  Total,            \* bound: messages of the thread
  PerLayout,        \* NMESSAGES_PER_LAYOUT
  MarkedLength,     \* MARKED_RANGE_LENGTH
  MaxVisible,       \* bound: messages shown first and last
  MaxAboned,        \* bound: aboned messages in a log
  MaxLoads,         \* bound: times the thread is loaded from its file
  MaxEdits,         \* bound: edits of the user
  UserOps,          \* the edits the user makes, a subset of AllOps
  EditsWhileComposing  \* the user edits while tasks are pending

\* "merge" lets abone leave nothing visible between two hidden runs.
AllOps == {"restyle", "abone", "expand", "cancel", "merge"}

ASSUME LayoutAssumption ==
  /\ {Total, PerLayout, MarkedLength} \subseteq Nat \ {0}
  /\ {MaxVisible, MaxAboned, MaxLoads, MaxEdits} \subseteq Nat
  /\ UserOps \subseteq AllOps
  /\ EditsWhileComposing \in BOOLEAN

VARIABLES
  page,         \* text storage, ranges and message buffer
  works,        \* the worker's queue
  runLoop,      \* messages to the main thread
  wpc,          \* where the worker is in executeWithLayout:
  task,         \* the work it runs
  interrupted,  \* that task's isInterrupted
  textLength,   \* doExecuteWithLayoutImp:'s textLength_
  textBuffer,   \* its textBuffer_
  next,         \* messages it has laid out (_didComposedCount)
  ellipsis,     \* its ellipsisIndex is set
  arrived,      \* history: where the newest arrival starts, 0 for none
  invalidate,   \* the viewer's isInvalidate
  loads, edits  \* left

vars == <<page, works, runLoop, wpc, task, interrupted, textLength,
          textBuffer, next, ellipsis, arrived, invalidate, loads, edits>>

local == <<textLength, textBuffer, next, ellipsis>>

Task == [kind : {"none", "clear", "header", "load", "dat"},
         first : 0..Total, messages : Seq(Message)]
NoTask     == [kind |-> "none",   first |-> 0, messages |-> <<>>]
ClearTask  == [kind |-> "clear",  first |-> 0, messages |-> <<>>]
HeaderTask == [kind |-> "header", first |-> 0, messages |-> <<>>]

TypeOK ==
  /\ page.ranges \in Seq([location : Nat, length : Nat])
  /\ page.messages \in Seq(Message)
  /\ page.text \in Seq(-1..Total)
  /\ page.raised \in {"no", "outside", "locked"}
  /\ works \in Seq(Task)
  /\ runLoop \in Seq({"addTask", "append", "deleteAll", "header", "interrupt",
                      "didFinish"})
  /\ wpc \in {"idle", "addTask", "begin", "read", "lay", "flush", "appending",
              "appended", "deleting", "interrupting"}
  /\ task \in Task
  /\ {interrupted, ellipsis, invalidate} \subseteq BOOLEAN
  /\ {textLength, next} \subseteq Nat
  /\ textBuffer \in Seq(-1..Total)
  /\ arrived \in 0..Total
  /\ loads \in 0..MaxLoads
  /\ edits \in 0..MaxEdits

Init ==
  /\ page = EmptyPage
  /\ works = <<>>
  /\ runLoop = <<>>
  /\ wpc = "idle"
  /\ task = NoTask
  /\ interrupted = FALSE
  /\ textLength = 0
  /\ textBuffer = <<>>
  /\ next = 0
  /\ ellipsis = FALSE
  /\ arrived = 0
  /\ invalidate = FALSE
  /\ loads = MaxLoads
  /\ edits = MaxEdits

Quiet == works = <<>> /\ wpc = "idle" /\ runLoop = <<>>
Composing == task.kind \in {"load", "dat"}

-----------------------------------------------------------------------------
(* The worker thread *)

NoWait(pc) == "begin"

\* addTask: is sent with waitUntilDone:YES, which also lets every earlier
\* message to the main thread be handled first.
AfterAddTask(pc) == "addTask"

\* executeWithLayout: up to doExecuteWithLayout:
StartTask ==
  /\ wpc = "idle" /\ works # <<>>
  /\ task' = Head(works)
  /\ works' = Tail(works)
  /\ interrupted' = FALSE
  /\ runLoop' = Append(runLoop, "addTask")
  /\ wpc' = AfterAddTask(wpc)
  /\ UNCHANGED <<page, local, arrived, invalidate, loads, edits>>

\* doExecuteWithLayout: of the clear and of the header task.
RunClear ==
  /\ wpc = "begin" /\ task.kind = "clear"
  /\ runLoop' = Append(runLoop, "deleteAll")
  /\ wpc' = "deleting"
  /\ UNCHANGED <<page, works, task, interrupted, local, arrived, invalidate,
                 loads, edits>>

\* The header task's message checks isInterrupted on the main thread.
RunHeader ==
  /\ wpc = "begin" /\ task.kind = "header"
  /\ runLoop' = IF interrupted THEN runLoop ELSE Append(runLoop, "header")
  /\ wpc' = "idle"
  /\ task' = NoTask
  /\ UNCHANGED <<page, works, interrupted, local, arrived, invalidate, loads,
                 edits>>

\* checkIsInterrupted raises; executeWithLayout: tells the delegate.
Interrupt ==
  /\ runLoop' = Append(runLoop, "interrupt")
  /\ wpc' = "interrupting"
  /\ UNCHANGED <<page, works, task, interrupted, local, arrived, invalidate,
                 loads, edits>>

\* doExecuteWithLayoutImp: reads the length of the text and composes the
\* messages.  A file loading task checks for an interruption first.
BeginComposing ==
  /\ wpc = "begin" /\ Composing
  /\ \/ task.kind = "load" /\ interrupted /\ Interrupt
     \/ /\ task.kind = "dat" \/ ~interrupted
        /\ textLength' = Len(page.text)
        /\ textBuffer' = <<>> /\ next' = 0 /\ ellipsis' = FALSE
        /\ wpc' = "read"
        /\ UNCHANGED <<page, works, runLoop, task, interrupted, arrived,
                       invalidate, loads, edits>>

\* canAppend:
CanAppend(messages, first) == messages = <<>> \/ Len(messages) + 1 = first

\* addMessagesFromBuffer:.  The ranges are added whether it appends or not.
AddMessages ==
  /\ wpc = "read" /\ page.raised # "locked"
  /\ page' = IF CanAppend(page.messages, task.first)
             THEN [page EXCEPT !.messages = @ \o task.messages] ELSE page
  /\ wpc' = "lay"
  /\ UNCHANGED <<works, runLoop, task, interrupted, local, arrived, invalidate,
                 loads, edits>>

\* mesRange_.location += textLength_
RangeLocation(length, buffer) == length + Len(buffer)

\* A turn of the loop.  The composer and the visibility test see the message
\* as it is now: the buffer's object, which an edit may have changed.
LayMessage ==
  /\ wpc = "lay" /\ next < Len(task.messages)
  /\ page.raised # "locked"
  /\ LET i    == task.first + next
         m    == IF i \in DOMAIN page.messages THEN page.messages[i]
                 ELSE task.messages[next + 1]
         buf  == IF ~m.hidden /\ ellipsis
                 THEN textBuffer \o Marks(Ellipsis, EllipsisLength)
                 ELSE textBuffer
         text == Composed(i, m)
     IN  /\ page' = [page EXCEPT !.ranges =
                       Append(@, [location |-> RangeLocation(textLength, buf),
                                  length |-> Len(text)])]
         /\ textBuffer' = buf \o text
         /\ ellipsis' = m.hidden
  /\ next' = next + 1
  /\ wpc' = IF next' % PerLayout = 0 THEN "flush" ELSE "lay"
  /\ UNCHANGED <<works, runLoop, task, interrupted, textLength, arrived,
                 invalidate, loads, edits>>

NoTrailer(set) == <<>>

\* The ellipsis behind the last message, if that one is hidden.
Trailer(set) == IF set THEN Marks(Ellipsis, EllipsisLength) ELSE <<>>

\* The end of the loop.
LayEnd ==
  /\ wpc = "lay" /\ next = Len(task.messages)
  /\ textBuffer' = textBuffer \o Trailer(ellipsis)
  /\ next' = next + 1
  /\ wpc' = "flush"
  /\ UNCHANGED <<page, works, runLoop, task, interrupted, textLength,
                 ellipsis, arrived, invalidate, loads, edits>>

AlwaysWaits(buffer) == "appending"

\* An empty buffer is not sent, and not waited for.
AfterFlush(buffer) == IF buffer # <<>> THEN "appending" ELSE "appended"

\* performsAppendingTextFromBuffer: up to the message to the main thread.
Flush ==
  /\ wpc = "flush"
  /\ \/ interrupted /\ Interrupt
     \/ /\ ~interrupted
        /\ runLoop' = IF textBuffer = <<>> THEN runLoop
                      ELSE Append(runLoop, "append")
        /\ wpc' = AfterFlush(textBuffer)
        /\ UNCHANGED <<page, works, task, interrupted, local, arrived,
                       invalidate, loads, edits>>

StaleLength(length, text) == length

\* textLength_ is read again after an append.
NewTextLength(length, text) == Len(text)

\* The rest of it, and of the loop's turn or of the task.
Flushed ==
  /\ wpc = "appended"
  /\ \/ interrupted /\ Interrupt
     \/ /\ ~interrupted
        /\ textBuffer' = <<>>
        /\ IF next > Len(task.messages)
           THEN /\ runLoop' = Append(runLoop, "didFinish")
                /\ wpc' = "idle" /\ task' = NoTask
                /\ UNCHANGED textLength
           ELSE /\ textLength' = NewTextLength(textLength, page.text)
                /\ wpc' = "lay"
                /\ UNCHANGED <<runLoop, task>>
        /\ UNCHANGED <<page, works, interrupted, next, ellipsis, arrived,
                       invalidate, loads, edits>>

-----------------------------------------------------------------------------
(* The main thread: messages of the worker *)

KeepRanges(p) == [p EXCEPT !.text = <<>>, !.messages = <<>>]

\* doDeleteAllMessages
DeleteAll(p) == EmptyPage

\* runOnMainThread: of the header task
UpdateHeader(p) == AppendHeader(ClearHeader(p))

StillValid(t) == invalidate

\* threadTaskDidInterrupt: only a file loading task's identifier is the path.
AfterInterrupt(t) == invalidate \/ t.kind = "load"

Handle ==
  /\ runLoop # <<>>
  /\ runLoop' = Tail(runLoop)
  /\ CASE Head(runLoop) = "addTask"   ->
            wpc' = "begin" /\ UNCHANGED <<page, task, invalidate>>
       [] Head(runLoop) = "append"    ->
            /\ page' = [page EXCEPT !.text = @ \o textBuffer]
            /\ wpc' = "appended" /\ UNCHANGED <<task, invalidate>>
       [] Head(runLoop) = "deleteAll" ->
            /\ page.raised # "locked"
            /\ page' = DeleteAll(page)
            /\ wpc' = "idle" /\ task' = NoTask /\ UNCHANGED invalidate
       [] Head(runLoop) = "header"    ->
            page' = UpdateHeader(page) /\ UNCHANGED <<wpc, task, invalidate>>
       [] Head(runLoop) = "interrupt" ->
            /\ invalidate' = AfterInterrupt(task)
            /\ wpc' = "idle" /\ task' = NoTask /\ UNCHANGED page
       [] Head(runLoop) = "didFinish" ->
            invalidate' = FALSE /\ UNCHANGED <<page, wpc, task>>
  /\ UNCHANGED <<works, interrupted, local, arrived, loads, edits>>

-----------------------------------------------------------------------------
(* The main thread: the user and the downloader *)

\* synchronizeTemporaryInvisible: of n messages: all but the first f and the
\* last l are hidden, and around the message c read last some are shown.
Hidden(n, f, l, c) ==
  LET range == IF f + l >= n THEN {} ELSE (f + 1)..(n - l)
      marked == IF c > MarkedLength + 1 THEN c - MarkedLength ELSE 1
  IN  IF c \notin range THEN range
      ELSE range \ (marked..(marked + 2 * MarkedLength - 1))

\* The messages of a log of n that may be hidden, and of n arrivals on an empty
\* page, whose task has no message read last.
LogHidden == [n \in 1..Total |->
  {Hidden(n, f, l, c) : f, l \in 0..MaxVisible, c \in 0..n}]
ArrivalsHidden == [n \in 1..Total |->
  {Hidden(n, f, l, 0) : f, l \in 0..MaxVisible}]

\* Something visible stands between any two hidden runs.
Separated(ms) ==
  \A i, j \in DOMAIN ms :
    (i + 1 < j /\ ms[i].hidden /\ ms[j].hidden /\ ~ms[i + 1].hidden
       /\ \A k \in (i + 1)..(j - 1) : ~ms[k].hidden)
      => \E k \in (i + 1)..(j - 1) : IsVisible(ms[k])

\* loadFromContentsOfFile: of a log of n messages, some of them aboned.
\* clear drains the queue and cancels the current work.
LoadFile(n, hidden, aboned) ==
  /\ loads > 0
  /\ loads' = loads - 1
  /\ works' = <<ClearTask,
               [kind |-> "load", first |-> 1,
                messages |-> [i \in 1..n |->
                  [hidden |-> i \in hidden,
                   form |-> IF i \in aboned THEN "aboned" ELSE "shown"]]]>>
  /\ "merge" \in UserOps \/ Separated(works'[2].messages)
  /\ interrupted' = (wpc # "idle")
  /\ arrived' = 0
  /\ UNCHANGED <<page, runLoop, wpc, task, local, invalidate, edits>>

\* The header is pushed if there are messages already.
HeaderFor(n) == IF n > 0 THEN <<HeaderTask>> ELSE <<>>

NoLoadPending ==
  \A t \in Range(Append(works, task)) : t.kind \in {"none", "header"}

\* composeDATContents: of k new messages whose nextIndex is the number of
\* messages.  Some are hidden if they are the first of the page.  Arrivals that
\* overlap a load or one another: see ThreadViewer.
Arrive(k, hidden) ==
  LET n == Len(page.messages)
  IN  /\ NoLoadPending
      /\ n + k <= Total
      /\ works' = works \o HeaderFor(n) \o
           <<[kind |-> "dat", first |-> n + 1,
              messages |-> [i \in 1..k |->
                              [hidden |-> n = 0 /\ i \in hidden,
                               form |-> "shown"]]]>>
      /\ arrived' = n + 1
      /\ UNCHANGED <<page, runLoop, wpc, task, interrupted, local, invalidate,
                     loads, edits>>

MayEdit(op) ==
  /\ op \in UserOps
  /\ edits > 0 /\ edits' = edits - 1
  /\ page.raised = "no"
  /\ EditsWhileComposing \/ Quiet

\* The user changes how message i is shown: a new flag and, at the end of the
\* run loop's turn, updateMessageAtIndex:.
SetForm(i, op, from, to) ==
  /\ MayEdit(op)
  /\ i \in DOMAIN page.messages /\ page.messages[i].form \in from
  /\ page' = UpdateMessage([page EXCEPT !.messages[i].form = to], i)
  /\ UNCHANGED <<works, runLoop, wpc, task, interrupted, local, arrived,
                 invalidate, loads>>

Restyle(i) == \/ SetForm(i, "restyle", {"shown"}, "local")
              \/ SetForm(i, "restyle", {"local"}, "shown")
Abone(i)   == /\ SetForm(i, "abone", {"shown", "local"}, "aboned")
              /\ "merge" \in UserOps \/ Separated(page'.messages)
Unabone(i) == SetForm(i, "abone", {"aboned"}, "shown")

\* A click on an ellipsis, or a jump to a hidden message.
Expand(i, longest) ==
  /\ MayEdit("expand")
  /\ i \in DOMAIN page.ranges
  /\ page' = EnsureVisible(page, i, longest)
  /\ UNCHANGED <<works, runLoop, wpc, task, interrupted, local, arrived,
                 invalidate, loads>>

\* cancel: of the running task, from the task panel.
Cancel ==
  /\ "cancel" \in UserOps
  /\ edits > 0 /\ edits' = edits - 1
  /\ Composing
  /\ interrupted' = TRUE
  /\ UNCHANGED <<page, works, runLoop, wpc, task, local, arrived, invalidate,
                 loads>>

-----------------------------------------------------------------------------
WorkerStep == StartTask \/ RunClear \/ RunHeader \/ BeginComposing
              \/ AddMessages \/ LayMessage \/ LayEnd \/ Flush \/ Flushed

UserStep ==
  \/ \E n \in 1..Total :
       \/ \E h \in LogHidden[n], a \in SUBSET (1..n) :
            Cardinality(a) <= MaxAboned /\ LoadFile(n, h, a)
       \/ \E h \in ArrivalsHidden[n] : Arrive(n, h)
  \/ \E i \in 1..Total : \/ Restyle(i) \/ Abone(i)
                         \/ \E longest \in BOOLEAN : Expand(i, longest)
  \/ Cancel

\* Nothing is pending, or the user has nothing left to do.
Done == Quiet /\ UNCHANGED vars

Next == WorkerStep \/ Handle \/ UserStep \/ Done

Spec == Init /\ [][Next]_vars

\* With the undo of invisible abone.
UndoSpec == Init /\ [][Next \/ \E i \in 1..Total : Unabone(i)]_vars

\* The worker thread runs and the main thread's run loop turns; nobody has to
\* edit, load or download.
FairSpec == Spec /\ WF_vars(WorkerStep) /\ WF_vars(Handle)

-----------------------------------------------------------------------------
(* Properties *)

\* The user has not cancelled a task: that leaves ranges without text.
NoCancel == "cancel" \notin UserOps \/ edits = MaxEdits

\* The page is the thread as its log was loaded last, and counts as valid.
Loaded == arrived = 0 /\ ~invalidate

\* When nothing is pending, the range of every laid out message covers
\* exactly the text that the composer makes of that message: a click, a
\* quotation or a change of an attribute meets the message it is meant for.
\* After a cancelled task that is said of a page loaded again.
RangesMatchText ==
  (Quiet /\ (NoCancel \/ Loaded)) =>
    \A i \in DOMAIN page.ranges :
      LET r == page.ranges[i]
      IN  /\ MaxRange(r) <= Len(page.text)
          /\ i \in DOMAIN page.messages
          /\ SubSeq(page.text, r.location + 1, MaxRange(r))
               = Composed(i, page.messages[i])

\* When nothing is pending, the text is the laid out messages in their order,
\* each composed once, with only headers and ellipses between them.
TextIsComposed ==
  (Quiet /\ page.raised = "no") =>
    SelectSeq(page.text, LAMBDA c : c \notin {Header, Ellipsis})
      = FlattenSeq([i \in DOMAIN page.ranges |->
                      Composed(i, page.messages[i])])

\* No edit of the main thread raises: an exception between lock and unlock of
\* _messagesLock would leave it locked, and the next addMessageRange: of the
\* worker would wait for ever.
NoRangeException == page.raised = "no"

\* The header for new arrivals stands before the newest arrival and behind
\* every older message: the header task inserts it asynchronously, yet before
\* the composing task pushed after it measures the text.
HeaderMarksArrival ==
  (Quiet /\ arrived > 1) =>
    \E h \in DOMAIN page.text :
      /\ page.text[h] = Header
      /\ \A j \in 1..(h - 1) : page.text[j] < arrived /\ page.text[j] # Header
      /\ \A j \in (h + 1)..Len(page.text) : page.text[j] >= arrived

\* When nothing is pending, each run of hidden messages has an ellipsis
\* attachment behind all text of the messages before the run and in front of all
\* text of those behind it, and there are as many attachments as runs: a click on
\* one expands the messages that are missing at that place.
EllipsisForHidden ==
  Quiet =>
    LET starts == {i \in DOMAIN page.ranges :
                     /\ page.messages[i].hidden
                     /\ i = 1 \/ ~page.messages[i - 1].hidden}
        marks  == {k \in DOMAIN page.text : page.text[k] = Ellipsis}
        between(k, i) ==
          /\ \A j \in 1..(k - 1) : page.text[j] < i
          /\ \A j \in (k + 1)..Len(page.text) :
               page.text[j] \in {Header, Ellipsis} \/ page.text[j] > i
    IN  /\ Cardinality(marks) = EllipsisLength * Cardinality(starts)
        /\ \A i \in starts :
             Cardinality({k \in marks : between(k, i)}) >= EllipsisLength

\* A load that was cut short, by the user's cancel at any point or by another
\* load, never leaves a page that passes for valid although messages were read
\* but not laid out, or laid out without their text: the viewer asks for a
\* reload ("Invalidated Thread Contents Message").
IncompleteIsInvalidated ==
  (/\ Quiet /\ arrived = 0
   /\ \/ Len(page.messages) # Len(page.ranges)
      \/ \E r \in Range(page.ranges) : MaxRange(r) > Len(page.text))
    => invalidate

\* Whatever is pushed is worked off: the worker and the main thread, each
\* waiting for the other's answers, always come to rest.
ComesToRest == []<>Quiet
=============================================================================
